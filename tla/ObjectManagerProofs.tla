-------------------------- MODULE ObjectManagerProofs --------------------------
(***************************************************************************)
(* Theorems about ObjectManager, for any number of threads, objects,       *)
(* handles and names.                                                      *)
(*                                                                         *)
(* They are about the states in which nothing has gone wrong yet (Intact). *)
(* That references are counted rests on what every step on a stack knows   *)
(* of its object (FrameInv): a deletion in progress is of an object        *)
(* without references, and a call that gives up the reference of           *)
(* ObCreateObject is by the thread that has it.  How often a step occurs   *)
(* on the stacks is Count; the steps on a handle, and the deletions of a   *)
(* symbolic link, occur at most once.                                      *)
(***************************************************************************)
EXTENDS ObjectManager, TLAPS, SequenceTheorems, FiniteSetTheorems

\* Where the stacks s have a frame of F; and in how many places.
Places(s, F) ==
    {p \in UNION {{t} \X DOMAIN s[t] : t \in DOMAIN s} : s[p[1]][p[2]] \in F}
Count(s, F) == Cardinality(Places(s, F))

Bit(P) == IF P THEN 1 ELSE 0

\* The frames that stand for a reference to o, as the object of a call, the target of
\* a link, or the directory of a link.
OnSteps == {"CreateHandle", "Decide", "Drop", "DropAndDelete", "Decrement"}
OnFrames(o) == {f \in Frames : f.at \in OnSteps /\ f.obj = o}
TargetFrames(o) == {f \in Frames : f.target = o}
DirFrames(o) == {f \in Frames : f.at = "FinishLink" /\ f.dir = o}

\* The frames that delete o.
RoutineFrames(o) == {f \in Frames : f.at = "DeleteRoutine" /\ f.obj = o}
FreeFrames(o) == {f \in Frames : f.at = "Free" /\ f.obj = o}

\* The frames that work on the handle h: all, those of ObClose, and those between the
\* change of the table and that of HandleCount.
HandleFrames(h) == {f \in Frames : f.handle = h}
ClosingFrames(h) == {f \in HandleFrames(h) : f.at \in {"UncountHandle", "ClearEntry"}}
UncountedFrames(h) == {f \in HandleFrames(h) : f.at \in {"CountHandle", "ClearEntry"}}

\* Types, but for the signs of the counts.
TypeInv ==
    /\ status \in [Objects -> {"None", "Live", "Freed"}]
    /\ type \in [Objects -> Types]
    /\ name \in [Objects -> Names \cup {NoName}]
    /\ parent \in [Objects -> Directories \cup {NoObject}]
    /\ refs \in [Objects -> Int]
    /\ handles \in [Objects -> Int]
    /\ linkTarget \in [Objects -> Objects \cup {NoObject}]
    /\ linkPath \in [Objects -> Seq(Names)]
    /\ list \in [Directories -> Seq(Objects)]
    /\ ready \subseteq Directories
    /\ table \in [Handles -> Objects \cup {NoObject}]
    /\ tableLock \in Threads \cup {NoThread}
    /\ stack \in [Threads -> Seq(Frames)]
    /\ creator \in [Objects -> Threads \cup {NoThread}]
    /\ owned \in [Threads -> [Objects -> 0 .. MaxOwned]]
    /\ opened \subseteq Handles
    /\ revived \subseteq Objects
    /\ damaged \in BOOLEAN

\* Everything that is counted is finite.
FiniteInv ==
    /\ IsFiniteSet(Places(stack, Frames))
    /\ IsFiniteSet({h \in Handles : table[h] # NoObject})
    /\ IsFiniteSet({o \in Objects : status[o] # "None"})
    /\ \A o \in Objects : IsFiniteSet(Owners(o))

CountInv ==
    \A o \in Objects : IF status[o] = "Live" THEN refs[o] = References(o)
                       ELSE refs[o] = 0 /\ References(o) = 0

\* At most one step works on a handle, and it has taken it from its holder.
HandleInv ==
    /\ \A h \in Handles : /\ Count(stack, HandleFrames(h)) <= 1
                          /\ table[h] # NoObject => status[table[h]] # "None"
    /\ \A h \in opened : table[h] # NoObject
    /\ \A o \in Objects :
          IF status[o] = "Live"
          THEN handles[o] = Cardinality({h \in Handles : table[h] = o
                                            /\ Count(stack, UncountedFrames(h)) = 0})
          ELSE handles[o] = 0

\* A directory has different objects, all of them live and its own.
ListInv ==
    \A d \in Directories :
        /\ \A i \in DOMAIN list[d] : /\ status[list[d][i]] = "Live"
                                     /\ parent[list[d][i]] = d
        /\ \A i, j \in DOMAIN list[d] : list[d][i] = list[d][j] => i = j

\* Names differ; only a finished symbolic link has a target, and a link that its creator
\* has given up is in a directory.
ObjectInv ==
    /\ \A o, p \in Objects : status[o] = "Live" /\ status[p] = "Live" /\ name[o] = name[p] => o = p
    /\ \A o \in Objects :
          /\ status[o] # "Live" => parent[o] = NoObject /\ linkTarget[o] = NoObject
          /\ linkTarget[o] # NoObject => /\ type[o] = "SymbolicLink"
                                         /\ status[linkTarget[o]] # "None"
          /\ type[o] = "SymbolicLink" =>
                /\ status[o] = "Live"
                /\ parent[o] # NoObject => linkPath[o] # << >>
                /\ creator[o] = NoThread => parent[o] # NoObject
                /\ Count(stack, RoutineFrames(o)) + Count(stack, FreeFrames(o)) <= 1

\* The steps of a thread on an object whose creator it is.
OwnSteps == {"InsertDirectory", "InitDirectory", "FinishLink", "Decide", "Drop", "DropAndDelete"}

InNoList(o) == \A d \in Directories : \A i \in DOMAIN list[d] : list[d][i] # o

\* What holds of a frame f, the k-th of thread t.
FrameOK(t, k, f) ==
    /\ f.obj # NoObject => status[f.obj] # "None"
    /\ f.target # NoObject => f.at \in {"MakeLink", "FinishLink"} /\ status[f.target] # "None"
    /\ f.handle # NoHandle =>
          /\ f.at \in {"CountHandle", "UncountHandle", "ClearEntry"}
          /\ f.handle \notin opened /\ f.obj # NoObject /\ table[f.handle] = f.obj
    /\ f.at \in {"CountHandle", "UncountHandle", "ClearEntry"} => f.handle # NoHandle
    /\ f.at \in {"Unlink", "DeleteRoutine", "Free"} => f.obj # NoObject /\ refs[f.obj] = 0
    /\ f.at \in {"DeleteRoutine", "Free"} => InNoList(f.obj)
    /\ f.at \in OwnSteps => k = 1 /\ f.obj # NoObject /\ creator[f.obj] = t
    /\ f.at \in {"InsertDirectory", "FinishLink"} => parent[f.obj] = NoObject
    /\ f.at = "FinishLink" => type[f.obj] = "SymbolicLink" /\ linkTarget[f.obj] = NoObject
    /\ f.at = "InsertDirectory" => type[f.obj] = "Directory"
    /\ f.at = "CreateHandle" => f.obj # NoObject
    /\ f.at \in {"Decide", "Drop", "DropAndDelete"} => parent[f.obj] # NoObject
    /\ f.at = "MakeLink" => k = 1
    /\ f.at \in {"Find", "Parse", "MakeLink", "FinishLink"} => f.arg # << >>

\* The steps of a lookup: what becomes of the reference, and whose name is looked for.
LookupSteps == {"Find", "Parse", "Take"}

LookupOK(t, k, f) ==
    /\ f.use = "LinkDirectory" => k = 2 /\ stack[t][1].at = "FinishLink" /\ stack[t][1].dir = NoObject
    /\ f.use # "LinkDirectory" => k = 1 /\ f.use # "None"
    /\ f.use = "Reference" => CanOwnMore(t)
    /\ f.at = "Find" => f.path # << >>
    /\ f.at # "Find" => f.obj # NoObject
    /\ f.at = "Parse" \/ (f.at = "Take" /\ f.use = "DeleteByName") =>
          (status[f.obj] = "Live" => parent[f.obj] # NoObject)
    /\ f.at = "Take" /\ f.use = "Link" => f.arg # << >>
    /\ f.use = "DeleteByName" =>
          /\ \E o \in Objects : creator[o] = t /\ name[o] = Last(f.arg)
          /\ f.at # "Take" /\ f.path # << >> => Last(f.path) = Last(f.arg)
          /\ f.at = "Take" \/ (f.at = "Parse" /\ f.path = << >>) =>
                (status[f.obj] = "Live" => name[f.obj] = Last(f.arg))

FrameInv ==
    \A t \in Threads : \A k \in DOMAIN stack[t] :
        /\ FrameOK(t, k, stack[t][k])
        /\ stack[t][k].at \in LookupSteps => LookupOK(t, k, stack[t][k])

Inv == /\ TypeInv /\ FiniteInv /\ CountInv /\ HandleInv /\ ListInv /\ ObjectInv /\ FrameInv

IInv == Intact => Inv

-----------------------------------------------------------------------------
(* Stacks. *)

Stacks == [Threads -> Seq(Frames)]

\* The parts of a sequence that is not empty.
LEMMA FrontIs ==
  ASSUME NEW S, NEW s \in Seq(S), s # << >>
  PROVE  /\ Len(s) \in Nat \ {0} /\ Last(s) = s[Len(s)] /\ Last(s) \in S
         /\ Front(s) \in Seq(S) /\ Len(Front(s)) = Len(s) - 1
         /\ \A i \in 1 .. Len(s) - 1 : Front(s)[i] = s[i]
<1>1. Len(s) \in Nat \ {0} /\ \A i \in 1 .. Len(s) : s[i] \in S
  BY EmptySeq, LenProperties, ElementOfSeq
<1>2. Last(s) = s[Len(s)] /\ Last(s) \in S
  BY <1>1 DEF Last
<1>3. \A i \in 1 .. Len(s) - 1 : s[i] \in S
  BY <1>1
<1>4. /\ SubSeq(s, 1, Len(s) - 1) \in Seq(S)
      /\ Len(SubSeq(s, 1, Len(s) - 1)) = IF 1 <= Len(s) - 1 THEN Len(s) - 1 - 1 + 1 ELSE 0
      /\ \A i \in 1 .. Len(s) - 1 - 1 + 1 : SubSeq(s, 1, Len(s) - 1)[i] = s[1 + i - 1]
  <2>1. 1 \in Int /\ Len(s) - 1 \in Int
    BY <1>1
  <2> QED
    BY <1>3, <2>1, SubSeqProperties
<1>5. /\ Front(s) \in Seq(S) /\ Len(Front(s)) = IF 1 <= Len(s) - 1 THEN Len(s) - 1 - 1 + 1 ELSE 0
      /\ \A i \in 1 .. Len(s) - 1 - 1 + 1 : Front(s)[i] = s[1 + i - 1]
  BY <1>4 DEF Front
<1>6. Len(Front(s)) = Len(s) - 1
  <2>1. ASSUME NEW n \in Nat \ {0} PROVE (IF 1 <= n - 1 THEN n - 1 - 1 + 1 ELSE 0) = n - 1
    OBVIOUS
  <2>2. Len(Front(s)) = IF 1 <= Len(s) - 1 THEN Len(s) - 1 - 1 + 1 ELSE 0
    BY <1>5
  <2> QED
    BY <1>1, <2>1, <2>2
<1>7. ASSUME NEW i \in 1 .. Len(s) - 1 PROVE Front(s)[i] = s[i]
  <2>1. i \in 1 .. Len(s) - 1 - 1 + 1 /\ 1 + i - 1 = i
    BY <1>1
  <2> QED
    BY <1>5, <2>1
<1> QED
  BY <1>1, <1>2, <1>5, <1>6, <1>7

LEMMA PushIs ==
  ASSUME NEW s \in Stacks, NEW t \in Threads, NEW f \in Frames
  PROVE  /\ Push(s, t, f) \in Stacks /\ Len(s[t]) \in Nat
         /\ Len(Push(s, t, f)[t]) = Len(s[t]) + 1
         /\ Push(s, t, f)[t][Len(s[t]) + 1] = f
         /\ Push(s, t, f)[t] # << >>
         /\ \A u \in Threads : u # t => Push(s, t, f)[u] = s[u]
         /\ \A k \in 1 .. Len(s[t]) : Push(s, t, f)[t][k] = s[t][k]
<1>1. s[t] \in Seq(Frames) /\ Len(s[t]) \in Nat
  BY LenProperties DEF Stacks
<1>2. /\ Append(s[t], f) \in Seq(Frames) /\ Append(s[t], f) # << >>
      /\ Len(Append(s[t], f)) = Len(s[t]) + 1
      /\ \A k \in 1 .. Len(s[t]) : Append(s[t], f)[k] = s[t][k]
      /\ Append(s[t], f)[Len(s[t]) + 1] = f
  BY <1>1, AppendProperties
<1> DEFINE a == Append(s[t], f)
<1>3. Push(s, t, f) = [s EXCEPT ![t] = a]
  BY DEF Push
<1> HIDE DEF a
<1>4. /\ [s EXCEPT ![t] = a][t] = a
      /\ \A u \in Threads : u # t => [s EXCEPT ![t] = a][u] = s[u]
  BY DEF Stacks
<1>5. a \in Seq(Frames) => [s EXCEPT ![t] = a] \in Stacks
  BY DEF Stacks
<1> QED
  BY <1>1, <1>2, <1>3, <1>4, <1>5 DEF a

LEMMA PopIs ==
  ASSUME NEW s \in Stacks, NEW t \in Threads, s[t] # << >>
  PROVE  /\ Pop(s, t) \in Stacks /\ Len(s[t]) \in Nat \ {0}
         /\ Len(Pop(s, t)[t]) = Len(s[t]) - 1
         /\ Last(s[t]) = s[t][Len(s[t])] /\ Last(s[t]) \in Frames
         /\ \A u \in Threads : u # t => Pop(s, t)[u] = s[u]
         /\ \A k \in 1 .. Len(s[t]) - 1 : Pop(s, t)[t][k] = s[t][k]
<1>1. s[t] \in Seq(Frames)
  BY DEF Stacks
<1>2. /\ Len(s[t]) \in Nat \ {0} /\ Last(s[t]) = s[t][Len(s[t])] /\ Last(s[t]) \in Frames
      /\ Front(s[t]) \in Seq(Frames) /\ Len(Front(s[t])) = Len(s[t]) - 1
      /\ \A i \in 1 .. Len(s[t]) - 1 : Front(s[t])[i] = s[t][i]
  BY <1>1, FrontIs
<1> DEFINE a == Front(s[t])
<1>3. Pop(s, t) = [s EXCEPT ![t] = a]
  BY DEF Pop
<1> HIDE DEF a
<1>4. /\ [s EXCEPT ![t] = a][t] = a
      /\ \A u \in Threads : u # t => [s EXCEPT ![t] = a][u] = s[u]
  BY DEF Stacks
<1>5. a \in Seq(Frames) => [s EXCEPT ![t] = a] \in Stacks
  BY DEF Stacks
<1> QED
  BY <1>2, <1>3, <1>4, <1>5 DEF a

\* The places of a stack.
LEMMA PlaceIs ==
  ASSUME NEW s \in Stacks, NEW F
  PROVE  Places(s, F) = {p \in UNION {{u} \X (1 .. Len(s[u])) : u \in Threads} :
                            s[p[1]][p[2]] \in F}
<1>1. DOMAIN s = Threads
  BY DEF Stacks
<1>2. \A u \in Threads : DOMAIN s[u] = 1 .. Len(s[u])
  BY LenProperties DEF Stacks
<1> QED
  BY <1>1, <1>2 DEF Places

LEMMA InPlaces ==
  ASSUME NEW s \in Stacks, NEW F, NEW u, NEW k
  PROVE  <<u, k>> \in Places(s, F) <=>
            u \in Threads /\ k \in 1 .. Len(s[u]) /\ s[u][k] \in F
<1> QED
  BY PlaceIs

LEMMA PlacesArePairs ==
  ASSUME NEW s \in Stacks, NEW F, NEW p \in Places(s, F)
  PROVE  \E u \in Threads : \E k \in 1 .. Len(s[u]) : p = <<u, k>> /\ s[u][k] \in F
<1> QED
  BY PlaceIs

\* There are finitely many places.
LEMMA PlacesFinite ==
  ASSUME NEW s \in Stacks, IsFiniteSet(Places(s, Frames)), NEW F
  PROVE  IsFiniteSet(Places(s, F)) /\ Count(s, F) \in Nat /\ (Count(s, F) = 0 <=> Places(s, F) = {})
<1>1. ASSUME NEW p \in Places(s, F) PROVE p \in Places(s, Frames)
  <2>1. PICK u \in Threads : \E k \in 1 .. Len(s[u]) : p = <<u, k>>
    BY PlacesArePairs
  <2>2. PICK k \in 1 .. Len(s[u]) : p = <<u, k>>
    BY <2>1
  <2>3. s[u][k] \in Frames
    BY ElementOfSeq DEF Stacks
  <2> QED
    BY <2>2, <2>3, InPlaces
<1>2. IsFiniteSet(Places(s, F))
  BY <1>1, FS_Subset
<1> QED
  BY <1>2, FS_CardinalityType, FS_EmptySet DEF Count

LEMMA CountOfSubset ==
  ASSUME NEW s \in Stacks, IsFiniteSet(Places(s, Frames)), NEW F, NEW G, F \subseteq G
  PROVE  Count(s, F) <= Count(s, G)
<1>1. ASSUME NEW p \in Places(s, F) PROVE p \in Places(s, G)
  <2>1. PICK u \in Threads : \E k \in 1 .. Len(s[u]) : p = <<u, k>> /\ s[u][k] \in F
    BY PlacesArePairs
  <2>2. PICK k \in 1 .. Len(s[u]) : p = <<u, k>> /\ s[u][k] \in F
    BY <2>1
  <2> QED
    BY <2>2, InPlaces
<1>2. IsFiniteSet(Places(s, G))
  BY PlacesFinite
<1> QED
  BY <1>1, <1>2, FS_Subset DEF Count

\* A frame that is on a stack is counted, and a count above zero is of a frame.
LEMMA CountOfFrame ==
  ASSUME NEW s \in Stacks, IsFiniteSet(Places(s, Frames)), NEW F
  PROVE  Count(s, F) = 0 <=> \A u \in Threads : \A k \in 1 .. Len(s[u]) : s[u][k] \notin F
<1>1. Count(s, F) = 0 <=> Places(s, F) = {}
  BY PlacesFinite
<1>2. ASSUME Places(s, F) = {}, NEW u \in Threads, NEW k \in 1 .. Len(s[u])
      PROVE  s[u][k] \notin F
  BY <1>2, InPlaces
<1>3. ASSUME NEW p \in Places(s, F)
      PROVE  \E u \in Threads : \E k \in 1 .. Len(s[u]) : s[u][k] \in F
  BY PlacesArePairs
<1> QED
  BY <1>1, <1>2, <1>3

\* A push adds one place, a pop removes one.
LEMMA PushPlaces ==
  ASSUME NEW s \in Stacks, NEW t \in Threads, NEW f \in Frames, NEW F
  PROVE  /\ <<t, Len(s[t]) + 1>> \notin Places(s, F)
         /\ Places(Push(s, t, f), F) = IF f \in F THEN Places(s, F) \cup {<<t, Len(s[t]) + 1>>}
                                                  ELSE Places(s, F)
<1> DEFINE r == Push(s, t, f)
           new == <<t, Len(s[t]) + 1>>
<1>0. /\ r \in Stacks /\ Len(s[t]) \in Nat /\ Len(r[t]) = Len(s[t]) + 1
      /\ r[t][Len(s[t]) + 1] = f
      /\ \A u \in Threads : u # t => r[u] = s[u]
      /\ \A k \in 1 .. Len(s[t]) : r[t][k] = s[t][k]
  BY PushIs
<1> HIDE DEF r
<1>1. new \notin Places(s, F)
  BY <1>0, InPlaces
<1>2. ASSUME NEW u \in Threads, NEW k
      PROVE  k \in 1 .. Len(r[u]) <=> k \in 1 .. Len(s[u]) \/ (u = t /\ k = Len(s[t]) + 1)
  <2>1. CASE u = t
    BY <2>1, <1>0
  <2> QED
    BY <2>1, <1>0
<1>3. ASSUME NEW u \in Threads, NEW k \in 1 .. Len(s[u]) PROVE r[u][k] = s[u][k]
  BY <1>0
<1>4. ASSUME NEW p \in Places(r, F) PROVE p \in Places(s, F) \/ (f \in F /\ p = new)
  <2>1. PICK u \in Threads : \E k \in 1 .. Len(r[u]) : p = <<u, k>> /\ r[u][k] \in F
    BY <1>0, PlacesArePairs
  <2>2. PICK k \in 1 .. Len(r[u]) : p = <<u, k>> /\ r[u][k] \in F
    BY <2>1
  <2>3. CASE k \in 1 .. Len(s[u])
    BY <2>2, <2>3, <1>3, InPlaces
  <2>4. CASE ~ (k \in 1 .. Len(s[u]))
    BY <2>2, <2>4, <1>2, <1>0
  <2> QED
    BY <2>3, <2>4
<1>5. ASSUME NEW p \in Places(s, F) PROVE p \in Places(r, F)
  <2>1. PICK u \in Threads : \E k \in 1 .. Len(s[u]) : p = <<u, k>> /\ s[u][k] \in F
    BY PlacesArePairs
  <2>2. PICK k \in 1 .. Len(s[u]) : p = <<u, k>> /\ s[u][k] \in F
    BY <2>1
  <2>3. k \in 1 .. Len(r[u]) /\ r[u][k] \in F
    BY <1>2, <1>3, <2>2
  <2> QED
    BY <2>2, <2>3, <1>0, InPlaces
<1>6. f \in F => new \in Places(r, F)
  BY <1>0, <1>2, InPlaces
<1> HIDE DEF new
<1>7. new \notin Places(s, F) /\ Places(r, F) = IF f \in F THEN Places(s, F) \cup {new} ELSE Places(s, F)
  BY <1>1, <1>4, <1>5, <1>6
<1> QED
  BY <1>7 DEF r, new

LEMMA PushCount ==
  ASSUME NEW s \in Stacks, IsFiniteSet(Places(s, Frames)), NEW t \in Threads, NEW f \in Frames
  PROVE  /\ IsFiniteSet(Places(Push(s, t, f), Frames))
         /\ \A F : Count(Push(s, t, f), F) = Count(s, F) + Bit(f \in F)
<1> DEFINE r == Push(s, t, f)
           new == <<t, Len(s[t]) + 1>>
<1>1. ASSUME NEW F
      PROVE  /\ new \notin Places(s, F)
             /\ Places(r, F) = IF f \in F THEN Places(s, F) \cup {new} ELSE Places(s, F)
  BY PushPlaces
<1> HIDE DEF r, new
<1>2. f \in Frames /\ IsFiniteSet(Places(r, Frames))
  BY <1>1, FS_AddElement
<1>3. ASSUME NEW F PROVE Count(r, F) = Count(s, F) + Bit(f \in F)
  <2>1. IsFiniteSet(Places(s, F)) /\ Count(s, F) \in Nat
    BY PlacesFinite
  <2>2. Cardinality(Places(s, F) \cup {new}) = Cardinality(Places(s, F)) + 1
    BY <1>1, <2>1, FS_AddElement
  <2>3. CASE f \in F
    BY <1>1, <2>2, <2>3 DEF Count, Bit
  <2>4. CASE f \notin F
    <3>1. Count(r, F) = Count(s, F) /\ Bit(f \in F) = 0
      BY <1>1, <2>4 DEF Count, Bit
    <3> QED
      BY <2>1, <3>1
  <2> QED
    BY <2>3, <2>4
<1> QED
  BY <1>2, <1>3 DEF r

LEMMA PushedBack ==
  ASSUME NEW s \in Stacks, NEW t \in Threads, s[t] # << >>
  PROVE  Push(Pop(s, t), t, Last(s[t])) = s
<1> DEFINE p == Pop(s, t)
           r == Push(p, t, Last(s[t]))
<1>1. /\ p \in Stacks /\ Len(s[t]) \in Nat \ {0} /\ Len(p[t]) = Len(s[t]) - 1
      /\ Last(s[t]) = s[t][Len(s[t])] /\ Last(s[t]) \in Frames
      /\ \A u \in Threads : u # t => p[u] = s[u]
      /\ \A k \in 1 .. Len(s[t]) - 1 : p[t][k] = s[t][k]
  BY PopIs
<1> HIDE DEF p
<1>2. /\ r \in Stacks /\ Len(r[t]) = Len(p[t]) + 1 /\ r[t][Len(p[t]) + 1] = Last(s[t])
      /\ \A u \in Threads : u # t => r[u] = p[u]
      /\ \A k \in 1 .. Len(p[t]) : r[t][k] = p[t][k]
  <2>1. PICK l \in Frames : l = Last(s[t])
    BY <1>1
  <2>2. p \in Stacks /\ t \in Threads /\ l \in Frames /\ r = Push(p, t, l)
    BY <1>1, <2>1
  <2>3. /\ r \in Stacks /\ Len(r[t]) = Len(p[t]) + 1 /\ r[t][Len(p[t]) + 1] = l
        /\ \A u \in Threads : u # t => r[u] = p[u]
        /\ \A k \in 1 .. Len(p[t]) : r[t][k] = p[t][k]
    <3> HIDE DEF r
    <3> QED
      BY ONLY <2>2, PushIs
  <2> QED
    BY <2>1, <2>3
<1> HIDE DEF r
<1>3. r[t] = s[t]
  <2>1. Len(r[t]) = Len(s[t])
    BY <1>1, <1>2
  <2>2. ASSUME NEW k \in 1 .. Len(r[t]) PROVE r[t][k] = s[t][k]
    <3>1. CASE k = Len(s[t])
      BY <3>1, <1>1, <1>2
    <3>2. CASE k # Len(s[t])
      <4>1. k \in 1 .. Len(s[t]) - 1 /\ k \in 1 .. Len(p[t])
        BY <3>2, <2>1, <1>1
      <4> QED
        BY <4>1, <1>1, <1>2
    <3> QED
      BY <3>1, <3>2
  <2>3. r[t] \in Seq(Frames) /\ s[t] \in Seq(Frames)
    BY <1>2 DEF Stacks
  <2> QED
    BY <2>1, <2>2, <2>3, SeqEqual
<1>4. \A u \in Threads : r[u] = s[u]
  BY <1>1, <1>2, <1>3
<1>5. r = [u \in Threads |-> r[u]] /\ s = [u \in Threads |-> s[u]]
  BY <1>2 DEF Stacks
<1>6. r = s
  BY <1>4, <1>5
<1> QED
  BY <1>6 DEF r, p

LEMMA PopCount ==
  ASSUME NEW s \in Stacks, IsFiniteSet(Places(s, Frames)), NEW t \in Threads, s[t] # << >>
  PROVE  /\ IsFiniteSet(Places(Pop(s, t), Frames))
         /\ \A F : Count(Pop(s, t), F) = Count(s, F) - Bit(Last(s[t]) \in F)
<1> DEFINE p == Pop(s, t)
<1>1. p \in Stacks /\ Len(s[t]) \in Nat \ {0} /\ Len(p[t]) = Len(s[t]) - 1
      /\ Last(s[t]) \in Frames
      /\ \A u \in Threads : u # t => p[u] = s[u]
      /\ \A k \in 1 .. Len(s[t]) - 1 : p[t][k] = s[t][k]
  BY PopIs
<1>2. Push(p, t, Last(s[t])) = s
  BY PushedBack
<1> HIDE DEF p
<1> DEFINE l == Last(s[t])
<1>3. Places(p, Frames) \subseteq Places(s, Frames)
  <2>1. l \in Frames /\ Push(p, t, l) = s
    BY <1>1, <1>2
  <2> HIDE DEF l
  <2>2. PICK q \in Stacks, m \in Frames : q = p /\ m = l
    BY <1>1, <2>1
  <2>3. PICK r : r = Push(q, t, m)
    OBVIOUS
  <2>4. Places(r, Frames) = IF m \in Frames THEN Places(q, Frames) \cup {<<t, Len(q[t]) + 1>>}
                                           ELSE Places(q, Frames)
    BY <2>3, PushPlaces
  <2> QED
    BY <2>1, <2>2, <2>3, <2>4
<1>4. IsFiniteSet(Places(p, Frames))
  BY <1>3, FS_Subset
<1>5. ASSUME NEW F PROVE Count(p, F) = Count(s, F) - Bit(Last(s[t]) \in F)
  <2>1. Count(p, F) \in Nat
    BY <1>1, <1>4, PlacesFinite
  <2>2. Count(s, F) = Count(p, F) + Bit(Last(s[t]) \in F)
    BY <1>1, <1>2, <1>4, PushCount
  <2> QED
    BY <2>1, <2>2 DEF Bit
<1> QED
  BY <1>4, <1>5 DEF p

-----------------------------------------------------------------------------
(* What a step does to the stacks. *)

\* What a frame counts for among the references to o; and all frames of s.
Weight(f, o) ==
    Bit(f \in OnFrames(o)) + Bit(f \in TargetFrames(o)) + Bit(f \in DirFrames(o))
Calls(s, o) == Count(s, OnFrames(o)) + Count(s, TargetFrames(o)) + Count(s, DirFrames(o))

\* The first m frames of thread t stay, and those of the other threads.
Keeps(t, m) ==
    /\ stack' \in Stacks /\ IsFiniteSet(Places(stack', Frames))
    /\ Len(stack[t]) \in Nat /\ m \in 0 .. Len(stack[t])
    /\ \A u \in Threads : u # t => stack'[u] = stack[u]
    /\ \A k \in 1 .. m : stack'[t][k] = stack[t][k]

LEMMA WeightType ==
  ASSUME NEW f, NEW o
  PROVE  Weight(f, o) \in Nat
<1> QED
  BY DEF Weight, Bit

LEMMA EnterStack ==
  ASSUME stack \in Stacks, IsFiniteSet(Places(stack, Frames)),
         NEW t \in Threads, NEW f \in Frames, Enter(t, f)
  PROVE  /\ Keeps(t, Len(stack[t])) /\ Len(stack'[t]) = Len(stack[t]) + 1
         /\ stack'[t][Len(stack[t]) + 1] = f
         /\ \A F : Count(stack', F) = Count(stack, F) + Bit(f \in F)
<1>1. stack' = Push(stack, t, f)
  BY DEF Enter
<1>2. /\ Push(stack, t, f) \in Stacks /\ Len(stack[t]) \in Nat
      /\ Len(Push(stack, t, f)[t]) = Len(stack[t]) + 1
      /\ Push(stack, t, f)[t][Len(stack[t]) + 1] = f
      /\ \A u \in Threads : u # t => Push(stack, t, f)[u] = stack[u]
      /\ \A k \in 1 .. Len(stack[t]) : Push(stack, t, f)[t][k] = stack[t][k]
  BY PushIs
<1>3. /\ IsFiniteSet(Places(Push(stack, t, f), Frames))
      /\ \A F : Count(Push(stack, t, f), F) = Count(stack, F) + Bit(f \in F)
  BY PushCount
<1> QED
  BY <1>1, <1>2, <1>3 DEF Keeps

LEMMA ReturnStack ==
  ASSUME stack \in Stacks, IsFiniteSet(Places(stack, Frames)),
         NEW t \in Threads, stack[t] # << >>, Return(t)
  PROVE  /\ Keeps(t, Len(stack[t]) - 1) /\ Len(stack'[t]) = Len(stack[t]) - 1
         /\ \A F : Count(stack', F) = Count(stack, F) - Bit(Top(t) \in F)
<1>1. stack' = Pop(stack, t)
  BY DEF Return
<1>2. /\ Pop(stack, t) \in Stacks /\ Len(stack[t]) \in Nat \ {0}
      /\ Len(Pop(stack, t)[t]) = Len(stack[t]) - 1
      /\ \A u \in Threads : u # t => Pop(stack, t)[u] = stack[u]
      /\ \A k \in 1 .. Len(stack[t]) - 1 : Pop(stack, t)[t][k] = stack[t][k]
  BY PopIs
<1>3. /\ IsFiniteSet(Places(Pop(stack, t), Frames))
      /\ \A F : Count(Pop(stack, t), F) = Count(stack, F) - Bit(Last(stack[t]) \in F)
  BY PopCount
<1> QED
  BY <1>1, <1>2, <1>3 DEF Keeps, Top

\* The counts of a stack are numbers.
LEMMA CountType ==
  ASSUME stack \in Stacks, IsFiniteSet(Places(stack, Frames)), NEW F
  PROVE  Count(stack, F) \in Nat
<1> QED
  BY PlacesFinite

LEMMA GotoStack ==
  ASSUME stack \in Stacks, IsFiniteSet(Places(stack, Frames)),
         NEW t \in Threads, stack[t] # << >>, NEW f \in Frames, Goto(t, f)
  PROVE  /\ Keeps(t, Len(stack[t]) - 1) /\ Len(stack'[t]) = Len(stack[t])
         /\ stack'[t][Len(stack[t])] = f
         /\ \A F : Count(stack', F) = Count(stack, F) - Bit(Top(t) \in F) + Bit(f \in F)
<1> DEFINE p == Pop(stack, t)
           m == Len(stack[t])
<1>1. stack' = Push(p, t, f)
  BY DEF Goto
<1>2. /\ p \in Stacks /\ m \in Nat \ {0} /\ Len(p[t]) = m - 1
      /\ \A u \in Threads : u # t => p[u] = stack[u]
      /\ \A k \in 1 .. m - 1 : p[t][k] = stack[t][k]
  BY PopIs
<1>3. /\ IsFiniteSet(Places(p, Frames))
      /\ \A F : Count(p, F) = Count(stack, F) - Bit(Last(stack[t]) \in F)
  BY PopCount
<1> HIDE DEF p, m
<1>4. /\ stack' \in Stacks /\ Len(stack'[t]) = Len(p[t]) + 1 /\ stack'[t][Len(p[t]) + 1] = f
      /\ \A u \in Threads : u # t => stack'[u] = p[u]
      /\ \A k \in 1 .. Len(p[t]) : stack'[t][k] = p[t][k]
  BY <1>1, <1>2, PushIs
<1>5. /\ IsFiniteSet(Places(stack', Frames))
      /\ \A F : Count(stack', F) = Count(p, F) + Bit(f \in F)
  BY <1>1, <1>2, <1>3, PushCount
<1>6. m - 1 + 1 = m /\ m - 1 \in 0 .. m
  BY <1>2
<1>7. \A k \in 1 .. m - 1 : stack'[t][k] = stack[t][k]
  BY <1>2, <1>4
<1> QED
  BY <1>2, <1>3, <1>4, <1>5, <1>6, <1>7 DEF Keeps, Top, m

\* A call of a call.
LEMMA GotoEnterStack ==
  ASSUME stack \in Stacks, IsFiniteSet(Places(stack, Frames)),
         NEW t \in Threads, stack[t] # << >>, NEW f \in Frames, NEW g \in Frames,
         stack' = Push(Push(Pop(stack, t), t, f), t, g)
  PROVE  /\ Keeps(t, Len(stack[t]) - 1) /\ Len(stack'[t]) = Len(stack[t]) + 1
         /\ stack'[t][Len(stack[t])] = f /\ stack'[t][Len(stack[t]) + 1] = g
         /\ \A F : Count(stack', F) =
                      Count(stack, F) - Bit(Top(t) \in F) + Bit(f \in F) + Bit(g \in F)
<1> DEFINE p == Pop(stack, t)
           q == Push(p, t, f)
           m == Len(stack[t])
<1>1. /\ p \in Stacks /\ m \in Nat \ {0} /\ Len(p[t]) = m - 1
      /\ \A u \in Threads : u # t => p[u] = stack[u]
      /\ \A k \in 1 .. m - 1 : p[t][k] = stack[t][k]
  BY PopIs
<1>2. /\ IsFiniteSet(Places(p, Frames))
      /\ \A F : Count(p, F) = Count(stack, F) - Bit(Last(stack[t]) \in F)
  BY PopCount
<1>3. stack' = Push(q, t, g)
  OBVIOUS
<1> HIDE DEF p, m
<1>4. /\ q \in Stacks /\ Len(q[t]) = Len(p[t]) + 1 /\ q[t][Len(p[t]) + 1] = f
      /\ \A u \in Threads : u # t => q[u] = p[u]
      /\ \A k \in 1 .. Len(p[t]) : q[t][k] = p[t][k]
  BY <1>1, PushIs
<1>5. /\ IsFiniteSet(Places(q, Frames))
      /\ \A F : Count(q, F) = Count(p, F) + Bit(f \in F)
  BY <1>1, <1>2, PushCount
<1> HIDE DEF q
<1>6. /\ stack' \in Stacks /\ Len(stack'[t]) = Len(q[t]) + 1 /\ stack'[t][Len(q[t]) + 1] = g
      /\ \A u \in Threads : u # t => stack'[u] = q[u]
      /\ \A k \in 1 .. Len(q[t]) : stack'[t][k] = q[t][k]
  BY <1>3, <1>4, PushIs
<1>7. /\ IsFiniteSet(Places(stack', Frames))
      /\ \A F : Count(stack', F) = Count(q, F) + Bit(g \in F)
  BY <1>3, <1>4, <1>5, PushCount
<1>8. m - 1 + 1 = m /\ m - 1 \in 0 .. m /\ Len(q[t]) = m /\ m \in 1 .. m
  BY <1>1, <1>4
<1>9. ASSUME NEW k \in 1 .. m - 1 PROVE stack'[t][k] = stack[t][k]
  <2>1. k \in 1 .. m
    BY <1>1
  <2> QED
    BY <2>1, <1>1, <1>4, <1>6, <1>8
<1>10. stack'[t][m] = f
  BY <1>1, <1>4, <1>6, <1>8
<1> QED
  BY <1>1, <1>2, <1>4, <1>5, <1>6, <1>7, <1>8, <1>9, <1>10 DEF Keeps, Top, m

LEMMA EnterTwiceStack ==
  ASSUME stack \in Stacks, IsFiniteSet(Places(stack, Frames)),
         NEW t \in Threads, NEW f \in Frames, NEW g \in Frames,
         stack' = Push(Push(stack, t, f), t, g)
  PROVE  /\ Keeps(t, Len(stack[t])) /\ Len(stack'[t]) = Len(stack[t]) + 2
         /\ stack'[t][Len(stack[t]) + 1] = f /\ stack'[t][Len(stack[t]) + 2] = g
         /\ \A F : Count(stack', F) = Count(stack, F) + Bit(f \in F) + Bit(g \in F)
<1> DEFINE q == Push(stack, t, f)
           m == Len(stack[t])
<1>1. stack' = Push(q, t, g)
  OBVIOUS
<1>2. /\ q \in Stacks /\ m \in Nat /\ Len(q[t]) = m + 1 /\ q[t][m + 1] = f
      /\ \A u \in Threads : u # t => q[u] = stack[u]
      /\ \A k \in 1 .. m : q[t][k] = stack[t][k]
  BY PushIs
<1>3. /\ IsFiniteSet(Places(q, Frames))
      /\ \A F : Count(q, F) = Count(stack, F) + Bit(f \in F)
  BY PushCount
<1> HIDE DEF q, m
<1> DEFINE r == Push(q, t, g)
<1>0. /\ r \in Stacks /\ Len(r[t]) = Len(q[t]) + 1 /\ r[t][Len(q[t]) + 1] = g
      /\ \A u \in Threads : u # t => r[u] = q[u]
      /\ \A k \in 1 .. Len(q[t]) : r[t][k] = q[t][k]
  BY <1>2, PushIs
<1>4. /\ stack' \in Stacks /\ Len(stack'[t]) = Len(q[t]) + 1 /\ stack'[t][Len(q[t]) + 1] = g
      /\ \A u \in Threads : u # t => stack'[u] = q[u]
      /\ \A k \in 1 .. Len(q[t]) : stack'[t][k] = q[t][k]
  BY ONLY <1>0, <1>1
<1> HIDE DEF r
<1>5. /\ IsFiniteSet(Places(stack', Frames))
      /\ \A F : Count(stack', F) = Count(q, F) + Bit(g \in F)
  BY <1>1, <1>2, <1>3, PushCount
<1>6. m + 1 + 1 = m + 2 /\ m + 1 \in 1 .. m + 1 /\ m \in 0 .. m
  BY <1>2
<1>7. ASSUME NEW k \in 1 .. m PROVE stack'[t][k] = stack[t][k]
  <2>1. k \in 1 .. m + 1
    BY <1>2
  <2> QED
    BY <2>1, <1>2, <1>4
<1>8. stack'[t][m + 1] = f
  BY <1>2, <1>4, <1>6
<1>9. Keeps(t, m)
  BY <1>2, <1>4, <1>5, <1>6, <1>7 DEF Keeps, m
<1>10. Len(stack'[t]) = m + 2 /\ stack'[t][m + 2] = g
  BY <1>2, <1>4, <1>6
<1>11. \A F : Count(stack', F) = Count(stack, F) + Bit(f \in F) + Bit(g \in F)
  BY <1>3, <1>5
<1> QED
  BY <1>8, <1>9, <1>10, <1>11 DEF m

\* A lookup returns to its caller, which goes on.
LEMMA ReturnGotoStack ==
  ASSUME stack \in Stacks, IsFiniteSet(Places(stack, Frames)),
         NEW t \in Threads, Len(stack[t]) = 2, NEW f \in Frames,
         stack' = Push(Pop(Pop(stack, t), t), t, f)
  PROVE  /\ Keeps(t, 0) /\ Len(stack'[t]) = 1 /\ stack'[t][1] = f
         /\ Caller(t) = stack[t][1] /\ Caller(t) \in Frames
         /\ \A F : Count(stack', F) =
                      Count(stack, F) - Bit(Top(t) \in F) - Bit(Caller(t) \in F) + Bit(f \in F)
<1> DEFINE p == Pop(stack, t)
           q == Pop(p, t)
<1>0. stack[t] \in Seq(Frames) /\ stack[t] # << >>
  <2>1. stack[t] \in Seq(Frames)
    BY DEF Stacks
  <2>2. Len(<< >>) = 0
    BY EmptySeq
  <2> QED
    BY <2>1, <2>2
<1>1. /\ p \in Stacks /\ Len(p[t]) = 1
      /\ \A u \in Threads : u # t => p[u] = stack[u]
      /\ p[t][1] = stack[t][1]
  <2>1. /\ p \in Stacks /\ Len(p[t]) = Len(stack[t]) - 1
        /\ \A u \in Threads : u # t => p[u] = stack[u]
        /\ \A k \in 1 .. Len(stack[t]) - 1 : p[t][k] = stack[t][k]
    BY <1>0, PopIs
  <2> QED
    BY <2>1
<1>2. /\ IsFiniteSet(Places(p, Frames))
      /\ \A F : Count(p, F) = Count(stack, F) - Bit(Last(stack[t]) \in F)
  BY <1>0, PopCount
<1>3. p[t] = Front(stack[t])
  BY DEF Pop, Stacks
<1>4. stack' = Push(q, t, f)
  OBVIOUS
<1> HIDE DEF p
<1>5. p[t] \in Seq(Frames) /\ p[t] # << >>
  <2>1. p[t] \in Seq(Frames)
    BY <1>1 DEF Stacks
  <2>2. Len(<< >>) = 0
    BY EmptySeq
  <2> QED
    BY <2>1, <2>2, <1>1
<1>6. /\ q \in Stacks /\ Len(q[t]) = 0 /\ Last(p[t]) = p[t][1] /\ Last(p[t]) \in Frames
      /\ \A u \in Threads : u # t => q[u] = p[u]
  <2>1. /\ q \in Stacks /\ Len(q[t]) = Len(p[t]) - 1 /\ Last(p[t]) = p[t][Len(p[t])]
        /\ Last(p[t]) \in Frames
        /\ \A u \in Threads : u # t => q[u] = p[u]
    BY <1>1, <1>5, PopIs
  <2> QED
    BY <2>1, <1>1
<1>7. /\ IsFiniteSet(Places(q, Frames))
      /\ \A F : Count(q, F) = Count(p, F) - Bit(Last(p[t]) \in F)
  BY <1>1, <1>2, <1>5, PopCount
<1> HIDE DEF q
<1> DEFINE r == Push(q, t, f)
<1>80. /\ r \in Stacks /\ Len(r[t]) = Len(q[t]) + 1 /\ r[t][Len(q[t]) + 1] = f
       /\ \A u \in Threads : u # t => r[u] = q[u]
  <2>1. q \in Stacks
    BY <1>6
  <2> QED
    BY ONLY <2>1, f \in Frames, t \in Threads, PushIs
<1>8. /\ stack' \in Stacks /\ Len(stack'[t]) = Len(q[t]) + 1 /\ stack'[t][Len(q[t]) + 1] = f
      /\ \A u \in Threads : u # t => stack'[u] = q[u]
  BY <1>80, <1>4, Zenon
<1> HIDE DEF r
<1>9. /\ IsFiniteSet(Places(stack', Frames))
      /\ \A F : Count(stack', F) = Count(q, F) + Bit(f \in F)
  BY <1>4, <1>6, <1>7, PushCount
<1>10. Caller(t) = Last(p[t])
  BY <1>3 DEF Caller
<1>11. Len(stack'[t]) = 1 /\ stack'[t][1] = f
  BY <1>6, <1>8
<1>12. Keeps(t, 0)
  BY <1>1, <1>6, <1>8, <1>9 DEF Keeps
<1>13. \A F : Count(stack', F) =
                 Count(stack, F) - Bit(Last(stack[t]) \in F) - Bit(Last(p[t]) \in F) + Bit(f \in F)
  BY <1>2, <1>7, <1>9
<1>14. Caller(t) = stack[t][1] /\ Caller(t) \in Frames
  BY <1>1, <1>6, <1>10
<1> QED
  BY <1>10, <1>11, <1>12, <1>13, <1>14 DEF Top

-----------------------------------------------------------------------------
(* What counts as a reference. *)

LEMMA FramesAre ==
  ASSUME NEW f \in Frames
  PROVE  /\ \A o : Weight(f, o) = Bit(f.at \in OnSteps /\ f.obj = o) + Bit(f.target = o)
                                  + Bit(f.at = "FinishLink" /\ f.dir = o)
         /\ \A o : f \in RoutineFrames(o) <=> f.at = "DeleteRoutine" /\ f.obj = o
         /\ \A o : f \in FreeFrames(o) <=> f.at = "Free" /\ f.obj = o
         /\ \A h : f \in HandleFrames(h) <=> f.handle = h
         /\ \A h : f \in ClosingFrames(h) <=>
                      f.handle = h /\ f.at \in {"UncountHandle", "ClearEntry"}
         /\ \A h : f \in UncountedFrames(h) <=>
                      f.handle = h /\ f.at \in {"CountHandle", "ClearEntry"}
<1>1. \A o : /\ f \in OnFrames(o) <=> f.at \in OnSteps /\ f.obj = o
             /\ f \in TargetFrames(o) <=> f.target = o
             /\ f \in DirFrames(o) <=> f.at = "FinishLink" /\ f.dir = o
  BY DEF OnFrames, TargetFrames, DirFrames
<1>2. \A o : Weight(f, o) = Bit(f.at \in OnSteps /\ f.obj = o) + Bit(f.target = o)
                            + Bit(f.at = "FinishLink" /\ f.dir = o)
  BY <1>1 DEF Weight, Bit
<1> QED
  BY <1>2 DEF RoutineFrames, FreeFrames, HandleFrames, ClosingFrames, UncountedFrames

\* The references that are not those of calls in progress.
Held(o) ==
    Bit(creator[o] # NoThread) + Cardinality(Owners(o)) + Cardinality(HandlesTo(o))
    + Cardinality(LinksTo(o))

StackType == stack \in Stacks /\ IsFiniteSet(Places(stack, Frames))

CountsAre ==
    /\ \A o : /\ CallsOn(o) = Places(stack, OnFrames(o))
              /\ CallsLinkingTo(o) = Places(stack, TargetFrames(o))
              /\ CallsInsertingInto(o) = Places(stack, DirFrames(o))
    /\ \A o : HandlesTo(o) = {h \in Handles : table[h] = o /\ Count(stack, ClosingFrames(h)) = 0}
    /\ \A o : LinksTo(o) = {l \in Objects : /\ status[l] = "Live" /\ linkTarget[l] = o
                                            /\ Count(stack, FreeFrames(l)) = 0}
    /\ \A h : Waiting({"CountHandle", "ClearEntry"}, h) = {}
                 <=> Count(stack, UncountedFrames(h)) = 0

LEMMA PendingAre == StackType => CountsAre
<1> SUFFICES ASSUME stack \in Stacks, IsFiniteSet(Places(stack, Frames)) PROVE CountsAre
  BY DEF StackType
<1>1. Pending = UNION {{t} \X DOMAIN stack[t] : t \in DOMAIN stack}
  BY DEF Pending, Stacks
<1>2. ASSUME NEW p \in Pending PROVE FrameOf(p) \in Frames
  <2>1. PICK t \in Threads : p \in {t} \X DOMAIN stack[t]
    BY DEF Pending
  <2>2. stack[t] \in Seq(Frames) /\ DOMAIN stack[t] = 1 .. Len(stack[t])
    BY LenProperties DEF Stacks
  <2>3. p[1] = t /\ p[2] \in 1 .. Len(stack[t])
    BY <2>1, <2>2
  <2> QED
    BY <2>2, <2>3, ElementOfSeq DEF FrameOf
<1>3. ASSUME NEW F PROVE Places(stack, F) = {p \in Pending : FrameOf(p) \in F}
  BY <1>1 DEF Places, FrameOf
<1>4. ASSUME NEW o PROVE /\ CallsOn(o) = Places(stack, OnFrames(o))
                         /\ CallsLinkingTo(o) = Places(stack, TargetFrames(o))
                         /\ CallsInsertingInto(o) = Places(stack, DirFrames(o))
  <2>1. \A p \in Pending : /\ FrameOf(p) \in OnFrames(o) <=> FrameOf(p).at \in OnSteps /\ FrameOf(p).obj = o
                           /\ FrameOf(p) \in TargetFrames(o) <=> FrameOf(p).target = o
                           /\ FrameOf(p) \in DirFrames(o) <=> FrameOf(p).at = "FinishLink" /\ FrameOf(p).dir = o
    BY <1>2 DEF OnFrames, TargetFrames, DirFrames
  <2> QED
    BY <1>3, <2>1, Zenon DEF CallsOn, CallsLinkingTo, CallsInsertingInto, OnSteps
<1>5. ASSUME NEW h, NEW S, NEW F, \A f \in Frames : f \in F <=> f.at \in S /\ f.handle = h
      PROVE  Waiting(S, h) = {} <=> Count(stack, F) = 0
  <2>1. Waiting(S, h) = Places(stack, F)
    BY <1>2, <1>3, <1>5, Zenon DEF Waiting
  <2> QED
    BY <2>1, PlacesFinite
<1>6. ASSUME NEW h
      PROVE  /\ Waiting({"UncountHandle", "ClearEntry"}, h) = {} <=> Count(stack, ClosingFrames(h)) = 0
             /\ Waiting({"CountHandle", "ClearEntry"}, h) = {} <=> Count(stack, UncountedFrames(h)) = 0
  <2>1. \A f \in Frames : /\ f \in ClosingFrames(h) <=> f.at \in {"UncountHandle", "ClearEntry"} /\ f.handle = h
                          /\ f \in UncountedFrames(h) <=> f.at \in {"CountHandle", "ClearEntry"} /\ f.handle = h
    BY DEF ClosingFrames, UncountedFrames, HandleFrames
  <2> QED
    BY <1>5, <2>1
<1>7. ASSUME NEW l
      PROVE  (\E p \in Pending : FrameOf(p).at = "Free" /\ FrameOf(p).obj = l)
                 <=> Count(stack, FreeFrames(l)) # 0
  <2>1. \A p \in Pending : FrameOf(p) \in FreeFrames(l) <=> FrameOf(p).at = "Free" /\ FrameOf(p).obj = l
    BY <1>2 DEF FreeFrames
  <2>2. Count(stack, FreeFrames(l)) = 0 <=> Places(stack, FreeFrames(l)) = {}
    BY PlacesFinite
  <2> QED
    BY <1>3, <2>1, <2>2
<1> QED
  BY <1>4, <1>6, <1>7 DEF CountsAre, HandlesTo, LinksTo

\* Everything counted is a number.
ReferencesType ==
    \A o \in Objects : /\ References(o) = Held(o) + Calls(stack, o)
                       /\ Held(o) \in Nat /\ Calls(stack, o) \in Nat
                       /\ Cardinality(Owners(o)) \in Nat
                       /\ IsFiniteSet(HandlesTo(o)) /\ Cardinality(HandlesTo(o)) \in Nat
                       /\ IsFiniteSet(LinksTo(o)) /\ Cardinality(LinksTo(o)) \in Nat

LEMMA ReferencesAre == TypeInv /\ FiniteInv => ReferencesType
<1> SUFFICES ASSUME TypeInv, FiniteInv, NEW o \in Objects
             PROVE  /\ References(o) = Held(o) + Calls(stack, o)
                    /\ Held(o) \in Nat /\ Calls(stack, o) \in Nat
                    /\ Cardinality(Owners(o)) \in Nat
                    /\ IsFiniteSet(HandlesTo(o)) /\ Cardinality(HandlesTo(o)) \in Nat
                    /\ IsFiniteSet(LinksTo(o)) /\ Cardinality(LinksTo(o)) \in Nat
  BY DEF ReferencesType
<1>1. stack \in Stacks /\ IsFiniteSet(Places(stack, Frames))
  BY DEF TypeInv, FiniteInv, Stacks
<1>2. /\ Count(stack, OnFrames(o)) \in Nat /\ Count(stack, TargetFrames(o)) \in Nat
      /\ Count(stack, DirFrames(o)) \in Nat
  BY <1>1, CountType
<1>3. Cardinality(Owners(o)) \in Nat
  BY FS_CardinalityType DEF FiniteInv
<1>4. IsFiniteSet(HandlesTo(o)) /\ Cardinality(HandlesTo(o)) \in Nat
  <2>1. o # NoObject
    BY ObjectManagerAssumption DEF Directories
  <2>2. HandlesTo(o) \subseteq {h \in Handles : table[h] # NoObject}
    BY <2>1 DEF HandlesTo
  <2>3. IsFiniteSet({h \in Handles : table[h] # NoObject})
    BY DEF FiniteInv
  <2> QED
    BY <2>2, <2>3, FS_Subset, FS_CardinalityType
<1>5. IsFiniteSet(LinksTo(o)) /\ Cardinality(LinksTo(o)) \in Nat
  <2>1. LinksTo(o) \subseteq {l \in Objects : status[l] # "None"}
    BY DEF LinksTo
  <2>2. IsFiniteSet({l \in Objects : status[l] # "None"})
    BY DEF FiniteInv
  <2> QED
    BY <2>1, <2>2, FS_Subset, FS_CardinalityType
<1>6. /\ CallsOn(o) = Places(stack, OnFrames(o))
      /\ CallsLinkingTo(o) = Places(stack, TargetFrames(o))
      /\ CallsInsertingInto(o) = Places(stack, DirFrames(o))
  BY <1>1, PendingAre DEF StackType, CountsAre
<1>7. Bit(creator[o] # NoThread) \in Nat /\ Bit(creator[o] # NoThread) = IF creator[o] = NoThread THEN 0 ELSE 1
  BY DEF Bit
<1>8. References(o) = Held(o) + Calls(stack, o)
  <2> DEFINE a == Cardinality(Owners(o))
             b == Cardinality(HandlesTo(o))
             c == Cardinality(LinksTo(o))
             d == Count(stack, OnFrames(o))
             e == Count(stack, TargetFrames(o))
             g == Count(stack, DirFrames(o))
             i == Bit(creator[o] # NoThread)
  <2>1. References(o) = i + a + b + c + d + e + g
    BY <1>6, <1>7 DEF References, Count
  <2>2. Held(o) = i + a + b + c /\ Calls(stack, o) = d + e + g
    BY DEF Held, Calls
  <2>3. a \in Nat /\ b \in Nat /\ c \in Nat /\ d \in Nat /\ e \in Nat /\ g \in Nat /\ i \in Nat
    BY <1>2, <1>3, <1>4, <1>5, <1>7
  <2> HIDE DEF a, b, c, d, e, g, i
  <2> QED
    BY <2>1, <2>2, <2>3
<1>9. Held(o) \in Nat /\ Calls(stack, o) \in Nat
  BY <1>2, <1>3, <1>4, <1>5, <1>7 DEF Held, Calls
<1> QED
  BY <1>3, <1>4, <1>5, <1>8, <1>9

LEMMA ReferencesWillBe == TypeInv' /\ FiniteInv' => ReferencesType'
<1> QED
  BY ReferencesAre, PTL

LEMMA PendingWillBe == StackType' => CountsAre'
<1> QED
  BY PendingAre, PTL

-----------------------------------------------------------------------------
(* The frames that a step leaves alone. *)

\* What a step may do to objects without disturbing what frames know of them.
Steady ==
    \A o \in Objects : status[o] # "None" =>
        /\ status'[o] # "None"
        /\ refs[o] = 0 => refs'[o] = 0 /\ (InNoList(o) => InNoList(o)')
        /\ status'[o] = "Live" => /\ status[o] = "Live" /\ name'[o] = name[o]
                                  /\ parent[o] # NoObject => parent'[o] # NoObject

\* Another step does nothing to the objects that thread u created, and gives it no
\* reference.
OwnSteady(u) ==
    \A o \in Objects :
        /\ owned'[u][o] <= owned[u][o]
        /\ creator[o] = u => /\ creator'[o] = u /\ name'[o] = name[o] /\ parent'[o] = parent[o]
                             /\ type'[o] = type[o] /\ linkTarget'[o] = linkTarget[o]

\* Handles of the frames that stay keep their object, and are not opened.
HandlesSteady(t, m) ==
    \A u \in Threads : \A k \in 1 .. Len(stack[u]) :
        (u # t \/ k <= m) /\ stack[u][k].handle # NoHandle =>
            /\ stack[u][k].handle \notin opened'
            /\ table'[stack[u][k].handle] = table[stack[u][k].handle]

LEMMA FrameKept ==
  ASSUME NEW u \in Threads, NEW k, NEW f \in Frames, FrameOK(u, k, f), Steady,
         k = 1 => OwnSteady(u),
         f.handle # NoHandle => f.handle \notin opened' /\ table'[f.handle] = table[f.handle]
  PROVE  FrameOK(u, k, f)'
<1>1. f.obj \in Objects \cup {NoObject} /\ f.target \in Objects \cup {NoObject}
  BY DEF Frames
<1>2. f.obj # NoObject => status'[f.obj] # "None"
  BY <1>1 DEF FrameOK, Steady
<1>3. f.target # NoObject => f.at \in {"MakeLink", "FinishLink"} /\ status'[f.target] # "None"
  BY <1>1 DEF FrameOK, Steady
<1>4. f.at \in {"Unlink", "DeleteRoutine", "Free"} =>
         f.obj # NoObject /\ f.obj \in Objects /\ status[f.obj] # "None" /\ refs[f.obj] = 0
  BY <1>1 DEF FrameOK
<1>5. f.at \in {"Unlink", "DeleteRoutine", "Free"} => refs'[f.obj] = 0
  BY <1>4 DEF Steady
<1>6. f.at \in {"DeleteRoutine", "Free"} => InNoList(f.obj)'
  <2>1. f.at \in {"DeleteRoutine", "Free"} => InNoList(f.obj)
    BY DEF FrameOK
  <2> QED
    BY <1>4, <2>1 DEF Steady
<1>7. f.at \in OwnSteps => /\ k = 1 /\ f.obj \in Objects /\ f.obj # NoObject /\ creator[f.obj] = u
                           /\ OwnSteady(u)
  BY <1>1 DEF FrameOK
<1>8. f.at \in OwnSteps => /\ creator'[f.obj] = u /\ parent'[f.obj] = parent[f.obj]
                           /\ type'[f.obj] = type[f.obj] /\ linkTarget'[f.obj] = linkTarget[f.obj]
  BY <1>7 DEF OwnSteady
<1>9. /\ f.at \in {"InsertDirectory", "FinishLink"} => parent'[f.obj] = NoObject
      /\ f.at = "FinishLink" => type'[f.obj] = "SymbolicLink" /\ linkTarget'[f.obj] = NoObject
      /\ f.at = "InsertDirectory" => type'[f.obj] = "Directory"
      /\ f.at \in {"Decide", "Drop", "DropAndDelete"} => parent'[f.obj] # NoObject
  BY <1>8 DEF FrameOK, OwnSteps
<1> QED
  BY <1>2, <1>3, <1>4, <1>5, <1>6, <1>7, <1>8, <1>9 DEF FrameOK

LEMMA LookupKept ==
  ASSUME TypeInv, TypeInv', NEW u \in Threads, NEW k, NEW f \in Frames,
         LookupOK(u, k, f), FrameOK(u, k, f),
         f.at \in LookupSteps, Steady, k = 1 => OwnSteady(u),
         k = 2 => stack'[u][1] = stack[u][1]
  PROVE  LookupOK(u, k, f)'
<1>1. f.obj \in Objects \cup {NoObject} /\ (f.obj # NoObject => status[f.obj] # "None")
  BY DEF Frames, FrameOK
<1>2. f.use = "LinkDirectory" => k = 2 /\ stack'[u][1].at = "FinishLink" /\ stack'[u][1].dir = NoObject
  BY DEF LookupOK
<1>3. f.use # "LinkDirectory" => k = 1 /\ f.use # "None" /\ OwnSteady(u)
  BY DEF LookupOK
<1>4. f.use = "Reference" => CanOwnMore(u)'
  <2> SUFFICES ASSUME f.use = "Reference", NEW o \in Objects PROVE owned'[u][o] < MaxOwned
    BY DEF CanOwnMore
  <2>1. /\ owned[u][o] < MaxOwned /\ owned[u][o] \in 0 .. MaxOwned
        /\ owned'[u][o] \in 0 .. MaxOwned /\ MaxOwned \in Nat
    BY ObjectManagerAssumption DEF LookupOK, CanOwnMore, TypeInv
  <2>2. owned'[u][o] <= owned[u][o]
    BY <1>3 DEF OwnSteady
  <2> QED
    BY <2>1, <2>2
<1>5. f.at = "Parse" \/ (f.at = "Take" /\ f.use = "DeleteByName") =>
         (status'[f.obj] = "Live" => parent'[f.obj] # NoObject)
  <2>1. f.at # "Find" => f.obj # NoObject
    BY DEF LookupOK
  <2> QED
    BY <1>1, <2>1 DEF LookupOK, Steady
<1>6. f.use = "DeleteByName" => \E o \in Objects : creator'[o] = u /\ name'[o] = Last(f.arg)
  BY <1>3 DEF LookupOK, OwnSteady
<1>7. f.use = "DeleteByName" /\ (f.at = "Take" \/ (f.at = "Parse" /\ f.path = << >>)) =>
         (status'[f.obj] = "Live" => name'[f.obj] = Last(f.arg))
  <2>1. f.at # "Find" => f.obj # NoObject
    BY DEF LookupOK
  <2> QED
    BY <1>1, <2>1 DEF LookupOK, Steady
<1> QED
  BY <1>2, <1>3, <1>4, <1>5, <1>6, <1>7 DEF LookupOK

\* What a frame k of thread t knows.
AllOK(t, k) ==
    /\ FrameOK(t, k, stack[t][k])
    /\ stack[t][k].at \in LookupSteps => LookupOK(t, k, stack[t][k])

LEMMA FramesKept ==
  ASSUME TypeInv, TypeInv', FrameInv, NEW t \in Threads, NEW m, Keeps(t, m), Steady, HandlesSteady(t, m),
         \A u \in Threads : u # t => OwnSteady(u),
         m >= 1 => OwnSteady(t),
         \A k \in m + 1 .. Len(stack'[t]) : AllOK(t, k)'
  PROVE  FrameInv'
<1>1. /\ stack' \in Stacks /\ Len(stack[t]) \in Nat /\ m \in 0 .. Len(stack[t])
      /\ \A u \in Threads : u # t => stack'[u] = stack[u]
      /\ \A k \in 1 .. m : stack'[t][k] = stack[t][k]
  BY DEF Keeps
<1>2. \A u \in Threads : stack[u] \in Seq(Frames) /\ DOMAIN stack[u] = 1 .. Len(stack[u]) /\ Len(stack[u]) \in Nat
  BY LenProperties DEF TypeInv
<1>3. ASSUME NEW u \in Threads, NEW k \in 1 .. Len(stack[u]), u # t \/ k <= m
      PROVE  AllOK(u, k)'
  <2>0. PICK f : f = stack[u][k]
    OBVIOUS
  <2>1. f \in Frames
    BY <1>2, <2>0, ElementOfSeq
  <2>2. stack'[u][k] = f
    <3>1. CASE u # t
      BY <3>1, <1>1, <2>0
    <3>2. CASE u = t
      <4>1. k \in 1 .. m
        BY <3>2, <1>1, <1>2, <1>3
      <4> QED
        BY <3>2, <4>1, <1>1, <2>0
    <3> QED
      BY <3>1, <3>2
  <2>3. k = 2 => stack'[u][1] = stack[u][1]
    <3>1. CASE u # t
      BY <3>1, <1>1
    <3>2. CASE u = t
      <4>1. k = 2 => 1 \in 1 .. m
        BY <3>2, <1>1, <1>3
      <4> QED
        BY <3>2, <4>1, <1>1
    <3> QED
      BY <3>1, <3>2
  <2>4. k = 1 => OwnSteady(u)
    BY <1>1, <1>3
  <2>5. f.handle # NoHandle => f.handle \notin opened' /\ table'[f.handle] = table[f.handle]
    BY <1>3, <2>0 DEF HandlesSteady
  <2>6. FrameOK(u, k, f) /\ (f.at \in LookupSteps => LookupOK(u, k, f))
    BY <1>2, <2>0 DEF FrameInv
  <2>7. FrameOK(u, k, f)'
    BY <2>1, <2>4, <2>5, <2>6, FrameKept
  <2>8. f.at \in LookupSteps => LookupOK(u, k, f)'
    BY <2>1, <2>3, <2>4, <2>6, LookupKept
  <2> QED
    BY <2>2, <2>7, <2>8 DEF AllOK
<1>4. ASSUME NEW u \in Threads, NEW k \in DOMAIN stack'[u] PROVE AllOK(u, k)'
  <2>1. DOMAIN stack'[u] = 1 .. Len(stack'[u]) /\ Len(stack'[u]) \in Nat
    BY <1>1, LenProperties DEF Stacks
  <2>2. CASE u # t
    BY <2>1, <2>2, <1>1, <1>3
  <2>3. CASE u = t /\ k <= m
    <3>1. k \in 1 .. Len(stack[u])
      BY <2>1, <2>3, <1>1
    <3> QED
      BY <3>1, <2>3, <1>3
  <2>4. CASE u = t /\ ~ (k <= m)
    <3>1. k \in m + 1 .. Len(stack'[t])
      BY <2>1, <2>4, <1>1
    <3> QED
      BY <3>1, <2>4
  <2> QED
    BY <2>2, <2>3, <2>4
<1> QED
  BY <1>4 DEF AllOK, FrameInv

-----------------------------------------------------------------------------
(* How the counts of steps change. *)

\* A step that is neither on a handle nor one of a deletion.
Plain(f) == f.handle = NoHandle /\ f.at \notin {"DeleteRoutine", "Free"}

SameHandleSteps ==
    \A h \in Handles : /\ Count(stack', HandleFrames(h)) = Count(stack, HandleFrames(h))
                       /\ Count(stack', ClosingFrames(h)) = Count(stack, ClosingFrames(h))
                       /\ Count(stack', UncountedFrames(h)) = Count(stack, UncountedFrames(h))

SameDeletions ==
    \A o \in Objects : /\ Count(stack', RoutineFrames(o)) = Count(stack, RoutineFrames(o))
                       /\ Count(stack', FreeFrames(o)) = Count(stack, FreeFrames(o))

LEMMA PlainBits ==
  ASSUME NEW f \in Frames
  PROVE  /\ f.handle = NoHandle =>
              \A h \in Handles : /\ Bit(f \in HandleFrames(h)) = 0
                                 /\ Bit(f \in ClosingFrames(h)) = 0
                                 /\ Bit(f \in UncountedFrames(h)) = 0
         /\ f.at \notin {"DeleteRoutine", "Free"} =>
              \A o : Bit(f \in RoutineFrames(o)) = 0 /\ Bit(f \in FreeFrames(o)) = 0
<1>1. NoHandle \notin Handles
  BY ObjectManagerAssumption
<1> QED
  BY <1>1, FramesAre DEF Bit

\* Calls after the steps on stacks.
LEMMA AddedCalls ==
  ASSUME StackType, NEW s, NEW f, \A F : Count(s, F) = Count(stack, F) + Bit(f \in F), NEW o
  PROVE  Calls(s, o) = Calls(stack, o) + Weight(f, o)
<1>1. \A F : Count(stack, F) \in Nat
  BY CountType DEF StackType
<1>2. ASSUME NEW a \in Nat, NEW b \in Nat, NEW c \in Nat, NEW i \in Nat, NEW j \in Nat, NEW k \in Nat
      PROVE  (a + i) + (b + j) + (c + k) = (a + b + c) + (i + j + k)
  OBVIOUS
<1>3. \A P : Bit(P) \in Nat
  BY DEF Bit
<1> QED
  BY <1>1, <1>2, <1>3 DEF Calls, Weight

LEMMA MovedCalls ==
  ASSUME StackType, NEW s, NEW f, NEW g,
         \A F : Count(s, F) = Count(stack, F) - Bit(f \in F) + Bit(g \in F), NEW o
  PROVE  Calls(s, o) = Calls(stack, o) - Weight(f, o) + Weight(g, o)
<1>1. \A F : Count(stack, F) \in Nat
  BY CountType DEF StackType
<1>2. ASSUME NEW a \in Nat, NEW b \in Nat, NEW c \in Nat, NEW i \in Nat, NEW j \in Nat, NEW k \in Nat,
             NEW x \in Nat, NEW y \in Nat, NEW z \in Nat
      PROVE  (a - x + i) + (b - y + j) + (c - z + k) = (a + b + c) - (x + y + z) + (i + j + k)
  OBVIOUS
<1>3. \A P : Bit(P) \in Nat
  BY DEF Bit
<1> QED
  BY <1>1, <1>2, <1>3 DEF Calls, Weight

LEMMA RemovedCalls ==
  ASSUME StackType, NEW s, NEW f, \A F : Count(s, F) = Count(stack, F) - Bit(f \in F), NEW o
  PROVE  Calls(s, o) = Calls(stack, o) - Weight(f, o)
<1>1. \A F : Count(stack, F) \in Nat
  BY CountType DEF StackType
<1>2. ASSUME NEW a \in Nat, NEW b \in Nat, NEW c \in Nat, NEW i \in Nat, NEW j \in Nat, NEW k \in Nat
      PROVE  (a - i) + (b - j) + (c - k) = (a + b + c) - (i + j + k)
  OBVIOUS
<1>3. \A P : Bit(P) \in Nat
  BY DEF Bit
<1> QED
  BY <1>1, <1>2, <1>3 DEF Calls, Weight

LEMMA TwiceAddedCalls ==
  ASSUME StackType, NEW s, NEW f, NEW g,
         \A F : Count(s, F) = Count(stack, F) + Bit(f \in F) + Bit(g \in F), NEW o
  PROVE  Calls(s, o) = Calls(stack, o) + Weight(f, o) + Weight(g, o)
<1>1. \A F : Count(stack, F) \in Nat
  BY CountType DEF StackType
<1>2. ASSUME NEW a \in Nat, NEW b \in Nat, NEW c \in Nat, NEW i \in Nat, NEW j \in Nat, NEW k \in Nat,
             NEW x \in Nat, NEW y \in Nat, NEW z \in Nat
      PROVE  (a + x + i) + (b + y + j) + (c + z + k) = (a + b + c) + (x + y + z) + (i + j + k)
  OBVIOUS
<1>3. \A P : Bit(P) \in Nat
  BY DEF Bit
<1> QED
  BY <1>1, <1>2, <1>3 DEF Calls, Weight

LEMMA SplitCalls ==
  ASSUME StackType, NEW s, NEW f, NEW g, NEW e,
         \A F : Count(s, F) = Count(stack, F) - Bit(f \in F) + Bit(g \in F) + Bit(e \in F), NEW o
  PROVE  Calls(s, o) = Calls(stack, o) - Weight(f, o) + Weight(g, o) + Weight(e, o)
<1>1. \A F : Count(stack, F) \in Nat
  BY CountType DEF StackType
<1>2. ASSUME NEW a \in Nat, NEW b \in Nat, NEW c \in Nat, NEW i \in Nat, NEW j \in Nat, NEW k \in Nat,
             NEW x \in Nat, NEW y \in Nat, NEW z \in Nat, NEW p \in Nat, NEW q \in Nat, NEW r \in Nat
      PROVE  (a - x + i + p) + (b - y + j + q) + (c - z + k + r)
                = (a + b + c) - (x + y + z) + (i + j + k) + (p + q + r)
  OBVIOUS
<1>3. \A P : Bit(P) \in Nat
  BY DEF Bit
<1> QED
  BY <1>1, <1>2, <1>3 DEF Calls, Weight

LEMMA JoinedCalls ==
  ASSUME StackType, NEW s, NEW f, NEW g, NEW e,
         \A F : Count(s, F) = Count(stack, F) - Bit(f \in F) - Bit(g \in F) + Bit(e \in F), NEW o
  PROVE  Calls(s, o) = Calls(stack, o) - Weight(f, o) - Weight(g, o) + Weight(e, o)
<1>1. \A F : Count(stack, F) \in Nat
  BY CountType DEF StackType
<1>2. ASSUME NEW a \in Nat, NEW b \in Nat, NEW c \in Nat, NEW i \in Nat, NEW j \in Nat, NEW k \in Nat,
             NEW x \in Nat, NEW y \in Nat, NEW z \in Nat, NEW p \in Nat, NEW q \in Nat, NEW r \in Nat
      PROVE  (a - x - i + p) + (b - y - j + q) + (c - z - k + r)
                = (a + b + c) - (x + y + z) - (i + j + k) + (p + q + r)
  OBVIOUS
<1>3. \A P : Bit(P) \in Nat
  BY DEF Bit
<1> QED
  BY <1>1, <1>2, <1>3 DEF Calls, Weight

LEMMA PlainMoved ==
  ASSUME StackType, NEW f \in Frames, NEW g \in Frames, Plain(f), Plain(g),
         \A F : Count(stack', F) = Count(stack, F) - Bit(f \in F) + Bit(g \in F)
  PROVE  SameHandleSteps /\ SameDeletions
<1>1. \A F : Count(stack, F) \in Nat
  BY CountType DEF StackType
<1> QED
  BY <1>1, PlainBits DEF Plain, SameHandleSteps, SameDeletions

LEMMA PlainAdded ==
  ASSUME StackType, NEW f \in Frames, Plain(f),
         \A F : Count(stack', F) = Count(stack, F) + Bit(f \in F)
  PROVE  SameHandleSteps /\ SameDeletions
<1>1. \A F : Count(stack, F) \in Nat
  BY CountType DEF StackType
<1> QED
  BY <1>1, PlainBits DEF Plain, SameHandleSteps, SameDeletions

LEMMA PlainRemoved ==
  ASSUME StackType, NEW f \in Frames, Plain(f),
         \A F : Count(stack', F) = Count(stack, F) - Bit(f \in F)
  PROVE  SameHandleSteps /\ SameDeletions
<1>1. \A F : Count(stack, F) \in Nat
  BY CountType DEF StackType
<1> QED
  BY <1>1, PlainBits DEF Plain, SameHandleSteps, SameDeletions

LEMMA PlainJoined ==
  ASSUME StackType, NEW f \in Frames, NEW g \in Frames, NEW e \in Frames,
         Plain(f), Plain(g), Plain(e),
         \A F : Count(stack', F) = Count(stack, F) - Bit(f \in F) - Bit(g \in F) + Bit(e \in F)
  PROVE  SameHandleSteps /\ SameDeletions
<1>1. \A F : Count(stack, F) \in Nat
  BY CountType DEF StackType
<1> QED
  BY <1>1, PlainBits DEF Plain, SameHandleSteps, SameDeletions

LEMMA PlainSplit ==
  ASSUME StackType, NEW f \in Frames, NEW g \in Frames, NEW e \in Frames,
         Plain(f), Plain(g), Plain(e),
         \A F : Count(stack', F) = Count(stack, F) - Bit(f \in F) + Bit(g \in F) + Bit(e \in F)
  PROVE  SameHandleSteps /\ SameDeletions
<1>1. \A F : Count(stack, F) \in Nat
  BY CountType DEF StackType
<1> QED
  BY <1>1, PlainBits DEF Plain, SameHandleSteps, SameDeletions

-----------------------------------------------------------------------------
(* The references that a step leaves alone. *)

LEMMA OwnersKept ==
  ASSUME owned' = owned
  PROVE  \A o : Owners(o)' = Owners(o)
<1> QED
  BY DEF Owners

\* One more reference that a thread keeps.
LEMMA OwnersMore ==
  ASSUME TypeInv, FiniteInv, NEW t \in Threads, NEW x \in Objects, owned[t][x] < MaxOwned,
         owned' = [owned EXCEPT ![t][x] = @ + 1]
  PROVE  \A o \in Objects : /\ IsFiniteSet(Owners(o)')
                            /\ Cardinality(Owners(o)') = Cardinality(Owners(o)) + Bit(o = x)
<1> DEFINE n == owned[t][x]
           new == <<t, n + 1>>
<1>1. n \in Nat /\ MaxOwned \in Nat /\ n < MaxOwned
  BY ObjectManagerAssumption DEF TypeInv
<1>2. \A u \in Threads, o \in Objects : owned'[u][o] = IF u = t /\ o = x THEN n + 1 ELSE owned[u][o]
  BY DEF TypeInv
<1>3. \A o \in Objects : IsFiniteSet(Owners(o)) /\ Cardinality(Owners(o)) \in Nat
  BY FS_CardinalityType DEF FiniteInv
<1> HIDE DEF n
<1>4. Owners(x)' = Owners(x) \cup {new} /\ new \notin Owners(x)
  <2>1. Owners(x)' = {p \in Threads \X (1 .. MaxOwned) : p[2] <= owned'[p[1]][x]}
    BY DEF Owners
  <2>2. Owners(x) = {p \in Threads \X (1 .. MaxOwned) : p[2] <= owned[p[1]][x]}
    BY DEF Owners
  <2>3. new \in Threads \X (1 .. MaxOwned)
    BY <1>1
  <2>4. new \notin Owners(x)
    BY <2>2, <1>1 DEF n
  <2>5. ASSUME NEW p \in Threads \X (1 .. MaxOwned)
        PROVE  p[2] <= owned'[p[1]][x] <=> p[2] <= owned[p[1]][x] \/ p = new
    <3>1. PICK u \in Threads, i \in 1 .. MaxOwned : p = <<u, i>>
      OBVIOUS
    <3>2. CASE u # t
      BY <3>1, <3>2, <1>2
    <3>3. CASE u = t
      <4>1. owned'[u][x] = n + 1 /\ owned[u][x] = n
        BY <3>3, <1>2 DEF n
      <4>2. i <= n + 1 <=> i <= n \/ i = n + 1
        BY <1>1
      <4> QED
        BY <3>1, <3>3, <4>1, <4>2
    <3> QED
      BY <3>2, <3>3
  <2> HIDE DEF new
  <2> QED
    BY <2>1, <2>2, <2>3, <2>4, <2>5
<1>5. \A o \in Objects : o # x => Owners(o)' = Owners(o)
  BY <1>2 DEF Owners
<1> HIDE DEF new
<1>6. IsFiniteSet(Owners(x)') /\ Cardinality(Owners(x)') = Cardinality(Owners(x)) + 1
  BY <1>3, <1>4, FS_AddElement
<1> QED
  BY <1>3, <1>5, <1>6 DEF Bit

\* One less.
LEMMA OwnersLess ==
  ASSUME TypeInv, FiniteInv, NEW t \in Threads, NEW x \in Objects, owned[t][x] > 0,
         owned' = [owned EXCEPT ![t][x] = @ - 1]
  PROVE  \A o \in Objects : /\ IsFiniteSet(Owners(o)')
                            /\ Cardinality(Owners(o)') = Cardinality(Owners(o)) - Bit(o = x)
<1> DEFINE n == owned[t][x]
           old == <<t, n>>
<1>1. n \in 1 .. MaxOwned /\ MaxOwned \in Nat
  BY ObjectManagerAssumption DEF TypeInv
<1>2. \A u \in Threads, o \in Objects : owned'[u][o] = IF u = t /\ o = x THEN n - 1 ELSE owned[u][o]
  BY DEF TypeInv
<1>3. \A o \in Objects : IsFiniteSet(Owners(o)) /\ Cardinality(Owners(o)) \in Nat
  BY FS_CardinalityType DEF FiniteInv
<1> HIDE DEF n
<1>4. Owners(x)' = Owners(x) \ {old} /\ old \in Owners(x)
  <2>1. Owners(x)' = {p \in Threads \X (1 .. MaxOwned) : p[2] <= owned'[p[1]][x]}
    BY DEF Owners
  <2>2. Owners(x) = {p \in Threads \X (1 .. MaxOwned) : p[2] <= owned[p[1]][x]}
    BY DEF Owners
  <2>3. old \in Threads \X (1 .. MaxOwned)
    BY <1>1
  <2>4. old \in Owners(x)
    BY <2>2, <1>1 DEF n
  <2>5. ASSUME NEW p \in Threads \X (1 .. MaxOwned)
        PROVE  p[2] <= owned'[p[1]][x] <=> p[2] <= owned[p[1]][x] /\ p # old
    <3>1. PICK u \in Threads, i \in 1 .. MaxOwned : p = <<u, i>>
      OBVIOUS
    <3>2. CASE u # t
      BY <3>1, <3>2, <1>2
    <3>3. CASE u = t
      <4>1. owned'[u][x] = n - 1 /\ owned[u][x] = n
        BY <3>3, <1>2 DEF n
      <4>2. i <= n - 1 <=> i <= n /\ i # n
        BY <1>1
      <4> QED
        BY <3>1, <3>3, <4>1, <4>2
    <3> QED
      BY <3>2, <3>3
  <2> HIDE DEF old
  <2> QED
    BY <2>1, <2>2, <2>3, <2>4, <2>5
<1>5. \A o \in Objects : o # x => Owners(o)' = Owners(o)
  BY <1>2 DEF Owners
<1> HIDE DEF old
<1>6. IsFiniteSet(Owners(x)') /\ Cardinality(Owners(x)') = Cardinality(Owners(x)) - 1
  BY <1>3, <1>4, FS_RemoveElement
<1> QED
  BY <1>3, <1>5, <1>6 DEF Bit

LEMMA HandlesToKept ==
  ASSUME StackType, StackType', table' = table, SameHandleSteps
  PROVE  \A o : HandlesTo(o)' = HandlesTo(o)
<1>1. CountsAre /\ CountsAre'
  BY PendingAre, PendingWillBe
<1>2. ASSUME NEW o
      PROVE  /\ HandlesTo(o) = {h \in Handles : table[h] = o /\ Count(stack, ClosingFrames(h)) = 0}
             /\ HandlesTo(o)' = {h \in Handles : table'[h] = o /\ Count(stack', ClosingFrames(h)) = 0}
  BY <1>1 DEF CountsAre, ClosingFrames, HandleFrames
<1> QED
  BY <1>2 DEF SameHandleSteps

LEMMA LinksToSame ==
  ASSUME StackType, StackType', status' = status, linkTarget' = linkTarget,
         \A l \in Objects : Count(stack', FreeFrames(l)) = Count(stack, FreeFrames(l))
  PROVE  \A o : LinksTo(o)' = LinksTo(o)
<1>1. CountsAre /\ CountsAre'
  BY PendingAre, PendingWillBe
<1>2. ASSUME NEW o
      PROVE  /\ LinksTo(o) = {l \in Objects : /\ status[l] = "Live" /\ linkTarget[l] = o
                                              /\ Count(stack, FreeFrames(l)) = 0}
             /\ LinksTo(o)' = {l \in Objects : /\ status'[l] = "Live" /\ linkTarget'[l] = o
                                               /\ Count(stack', FreeFrames(l)) = 0}
  BY <1>1 DEF CountsAre, FreeFrames
<1> QED
  BY <1>2

LEMMA LinksToKept ==
  ASSUME StackType, StackType', status' = status, linkTarget' = linkTarget, SameDeletions
  PROVE  \A o : LinksTo(o)' = LinksTo(o)
<1> QED
  BY LinksToSame DEF SameDeletions

-----------------------------------------------------------------------------
(* The parts of the invariant that a step leaves alone. *)

LEMMA HandleInvKept ==
  ASSUME HandleInv, SameHandleSteps, table' = table, handles' = handles, opened' = opened,
         status' = status, TypeInv
  PROVE  HandleInv'
<1>1. ASSUME NEW h \in Handles
      PROVE  Count(stack', HandleFrames(h)) <= 1 /\ (table[h] # NoObject => status[table[h]] # "None")
  BY DEF HandleInv, SameHandleSteps
<1>2. \A o \in Objects : {h \in Handles : table[h] = o /\ Count(stack', UncountedFrames(h)) = 0}
                            = {h \in Handles : table[h] = o /\ Count(stack, UncountedFrames(h)) = 0}
  BY DEF SameHandleSteps
<1>3. \A o \in Objects :
         IF status[o] = "Live"
         THEN handles[o] = Cardinality({h \in Handles : table[h] = o /\ Count(stack', UncountedFrames(h)) = 0})
         ELSE handles[o] = 0
  BY <1>2 DEF HandleInv
<1>4. \A h \in opened : table[h] # NoObject
  BY DEF HandleInv
<1>5. \A h : /\ HandleFrames(h)' = HandleFrames(h) /\ UncountedFrames(h)' = UncountedFrames(h)
  BY DEF HandleFrames, UncountedFrames
<1> QED
  BY <1>1, <1>3, <1>4, <1>5 DEF HandleInv, Count, Places

LEMMA ListInvKept ==
  ASSUME ListInv, list' = list, status' = status, parent' = parent
  PROVE  ListInv'
<1> QED
  BY DEF ListInv

LEMMA ObjectInvKept ==
  ASSUME ObjectInv, UNCHANGED headerVars, TypeInv,
         \A o \in Objects :
             /\ creator[o] # NoThread /\ creator'[o] = NoThread /\ type[o] = "SymbolicLink"
                   => parent[o] # NoObject
             /\ Count(stack', RoutineFrames(o)) + Count(stack', FreeFrames(o))
                   = Count(stack, RoutineFrames(o)) + Count(stack, FreeFrames(o))
  PROVE  ObjectInv'
<1> QED
  BY DEF ObjectInv, headerVars

-----------------------------------------------------------------------------
(* What the invariant says of an object and of the step on top of a stack. *)

LEMMA Refs ==
  ASSUME Inv
  PROVE  /\ StackType /\ CountsAre /\ ReferencesType
         /\ \A o \in Objects : /\ refs[o] = Held(o) + Calls(stack, o)
                               /\ Held(o) \in Nat /\ Calls(stack, o) \in Nat /\ refs[o] \in Nat
                               /\ status[o] # "Live" => refs[o] = 0 /\ Held(o) = 0 /\ Calls(stack, o) = 0
<1>1. StackType
  BY DEF Inv, TypeInv, FiniteInv, StackType, Stacks
<1>2. CountsAre /\ ReferencesType
  BY <1>1, PendingAre, ReferencesAre DEF Inv
<1> QED
  BY <1>1, <1>2 DEF Inv, CountInv, ReferencesType

\* The creator of an object and those who got it from a lookup keep it.
LEMMA KeptAlive ==
  ASSUME Inv, NEW o \in Objects,
         creator[o] # NoThread \/ \E t \in Threads : owned[t][o] > 0
  PROVE  status[o] = "Live" /\ refs[o] >= 1 /\ Held(o) >= 1
<1>1. /\ refs[o] = Held(o) + Calls(stack, o) /\ Held(o) \in Nat /\ Calls(stack, o) \in Nat
      /\ status[o] # "Live" => Held(o) = 0
      /\ Cardinality(Owners(o)) \in Nat /\ Cardinality(HandlesTo(o)) \in Nat
      /\ Cardinality(LinksTo(o)) \in Nat
  BY Refs DEF ReferencesType
<1>2. Held(o) >= 1
  <2>1. CASE creator[o] # NoThread
    <3>1. Bit(creator[o] # NoThread) = 1
      BY <2>1 DEF Bit
    <3> QED
      BY <1>1, <3>1 DEF Held
  <2>2. CASE \E t \in Threads : owned[t][o] > 0
    <3>1. PICK t \in Threads : owned[t][o] > 0
      BY <2>2
    <3>2. owned[t][o] \in 1 .. MaxOwned /\ MaxOwned \in Nat
      BY <3>1, ObjectManagerAssumption DEF Inv, TypeInv
    <3>3. <<t, 1>> \in Owners(o)
      BY <3>2 DEF Owners
    <3>4. Cardinality(Owners(o)) # 0
      BY <3>3, FS_EmptySet DEF Inv, FiniteInv
    <3>5. Bit(creator[o] # NoThread) \in Nat
      BY DEF Bit
    <3>6. ASSUME NEW a \in Nat, NEW b \in Nat, NEW c \in Nat, NEW d \in Nat, b # 0
          PROVE  a + b + c + d >= 1
      BY <3>6
    <3> QED
      BY <1>1, <3>4, <3>5, <3>6 DEF Held
  <2> QED
    BY <2>1, <2>2
<1> QED
  BY <1>1, <1>2

LEMMA AliveIs ==
  ASSUME NEW o \in Objects \cup Directories \cup {NoObject}, Alive(o)
  PROVE  /\ o # NoObject /\ o \in Directories
         /\ o \in Objects \cup {NoObject} => o \in Objects /\ status[o] = "Live"
         /\ o # Root => o \in Objects /\ status[o] = "Live"
<1> QED
  BY ObjectManagerAssumption DEF Alive, Directories

LEMMA FrameType ==
  ASSUME NEW f \in Frames
  PROVE  /\ f.at \in Steps /\ f.obj \in Objects \cup {NoObject} /\ f.use \in Uses
         /\ f.dir \in Directories \cup {NoObject} /\ f.path \in Seq(Names) /\ f.arg \in Seq(Names)
         /\ f.target \in Objects \cup {NoObject} /\ f.handle \in Handles \cup {NoHandle}
<1> QED
  BY DEF Frames

LEMMA TopIs ==
  ASSUME Inv, NEW t \in Threads, stack[t] # << >>
  PROVE  /\ Top(t) \in Frames /\ Len(stack[t]) \in Nat \ {0} /\ Top(t) = stack[t][Len(stack[t])]
         /\ FrameOK(t, Len(stack[t]), Top(t))
         /\ Top(t).at \in LookupSteps => LookupOK(t, Len(stack[t]), Top(t))
         /\ \A o \in Objects : Weight(Top(t), o) \in Nat /\ Weight(Top(t), o) <= Calls(stack, o)
         /\ \A F : Top(t) \in F => Count(stack, F) >= 1
<1>1. StackType /\ stack \in Stacks
  BY Refs DEF StackType
<1>2. /\ Pop(stack, t) \in Stacks /\ Top(t) \in Frames /\ Len(stack[t]) \in Nat \ {0}
      /\ Top(t) = stack[t][Len(stack[t])]
  BY <1>1, PopIs DEF Top
<1>3. /\ IsFiniteSet(Places(Pop(stack, t), Frames))
      /\ \A F : Count(Pop(stack, t), F) = Count(stack, F) - Bit(Top(t) \in F)
  BY <1>1, PopCount DEF StackType, Top
<1>4. \A F : Count(Pop(stack, t), F) \in Nat /\ Count(stack, F) \in Nat
  BY <1>1, <1>2, <1>3, PlacesFinite DEF StackType
<1>5. ASSUME NEW o \in Objects
      PROVE  Weight(Top(t), o) \in Nat /\ Weight(Top(t), o) <= Calls(stack, o)
  <2>1. Calls(Pop(stack, t), o) = Calls(stack, o) - Weight(Top(t), o)
    BY <1>1, <1>3, RemovedCalls
  <2>2. Calls(Pop(stack, t), o) \in Nat /\ Calls(stack, o) \in Nat
    BY <1>4 DEF Calls
  <2>3. Weight(Top(t), o) \in Nat
    BY WeightType
  <2> QED
    BY <2>1, <2>2, <2>3
<1>6. ASSUME NEW F, Top(t) \in F PROVE Count(stack, F) >= 1
  <2>1. Bit(Top(t) \in F) = 1
    BY <1>6 DEF Bit
  <2> QED
    BY <1>3, <1>4, <2>1
<1>7. Len(stack[t]) \in DOMAIN stack[t]
  <2>1. DOMAIN stack[t] = 1 .. Len(stack[t])
    BY <1>1, LenProperties DEF Stacks
  <2> QED
    BY <1>2, <2>1
<1>8. /\ FrameOK(t, Len(stack[t]), Top(t))
      /\ Top(t).at \in LookupSteps => LookupOK(t, Len(stack[t]), Top(t))
  BY <1>2, <1>7 DEF Inv, FrameInv
<1> QED
  BY <1>2, <1>5, <1>6, <1>8

\* The frames that steps put on a stack.
LEMMA FrameIs ==
  ASSUME NEW at \in Steps, NEW o \in Objects \cup {NoObject}
  PROVE  /\ Frame(at, o) \in Frames
         /\ Frame(at, o).at = at /\ Frame(at, o).obj = o /\ Frame(at, o).use = "None"
         /\ Frame(at, o).dir = NoObject /\ Frame(at, o).path = << >> /\ Frame(at, o).arg = << >>
         /\ Frame(at, o).target = NoObject /\ Frame(at, o).handle = NoHandle
         /\ \A d \in Directories : [Frame(at, o) EXCEPT !.dir = d] \in Frames
<1>1. PICK n \in Frames : n = NoFrame
  BY EmptySeq DEF Frames, NoFrame, Steps, Uses
<1>2. /\ n.use = "None" /\ n.dir = NoObject /\ n.path = << >> /\ n.arg = << >>
      /\ n.target = NoObject /\ n.handle = NoHandle
  BY <1>1 DEF NoFrame
<1>3. Frame(at, o) = [n EXCEPT !.at = at, !.obj = o]
  BY <1>1 DEF Frame
<1>4. PICK f : f = Frame(at, o)
  OBVIOUS
<1>5. /\ f \in Frames /\ f.at = at /\ f.obj = o /\ f.use = "None" /\ f.dir = NoObject /\ f.path = << >>
      /\ f.arg = << >> /\ f.target = NoObject /\ f.handle = NoHandle
  BY <1>2, <1>3, <1>4 DEF Frames
<1>6. \A d \in Directories : [f EXCEPT !.dir = d] \in Frames
  BY <1>5 DEF Frames
<1> QED
  BY <1>4, <1>5, <1>6

\* Weights of frames.
LEMMA WeightsAre ==
  ASSUME NEW f \in Frames, NEW o \in Objects
  PROVE  /\ f.at \notin OnSteps \cup {"FinishLink"} /\ f.target = NoObject => Weight(f, o) = 0
         /\ f.at \in OnSteps /\ f.target = NoObject => Weight(f, o) = Bit(f.obj = o)
         /\ f.at = "MakeLink" => Weight(f, o) = Bit(f.target = o)
         /\ f.at = "FinishLink" => Weight(f, o) = Bit(f.target = o) + Bit(f.dir = o)
<1>1. Weight(f, o) = Bit(f.at \in OnSteps /\ f.obj = o) + Bit(f.target = o)
                     + Bit(f.at = "FinishLink" /\ f.dir = o)
  BY FramesAre
<1>2. o # NoObject
  BY ObjectManagerAssumption DEF Directories
<1> QED
  BY <1>1, <1>2 DEF OnSteps, Bit

-----------------------------------------------------------------------------
(* Steps that change no header. *)

LEMMA HandlesAreSteady ==
  ASSUME TypeInv, FrameInv, table' = table, opened' = opened, NEW t, NEW m
  PROVE  HandlesSteady(t, m)
<1>1. ASSUME NEW u \in Threads, NEW k \in 1 .. Len(stack[u]), stack[u][k].handle # NoHandle
      PROVE  stack[u][k].handle \notin opened
  <2>1. k \in DOMAIN stack[u]
    <3>1. stack[u] \in Seq(Frames)
      BY DEF TypeInv
    <3> QED
      BY <3>1, LenProperties
  <2>2. PICK f : f = stack[u][k]
    OBVIOUS
  <2>3. FrameOK(u, k, f)
    BY <2>1, <2>2 DEF FrameInv
  <2> QED
    BY <1>1, <2>2, <2>3 DEF FrameOK
<1> QED
  BY <1>1 DEF HandlesSteady

LEMMA PlainInv ==
  ASSUME Inv, TypeInv', StackType', SameHandleSteps, SameDeletions, FrameInv',
         UNCHANGED <<headerVars, handles, spaceVars, tableVars, opened>>,
         \A o \in Objects :
             /\ \/ creator'[o] = creator[o]
                \/ creator'[o] = NoThread /\ (type[o] = "SymbolicLink" => parent[o] # NoObject)
             /\ IsFiniteSet(Owners(o)')
             /\ refs'[o] = refs[o] + (Bit(creator'[o] # NoThread) - Bit(creator[o] # NoThread))
                           + (Cardinality(Owners(o)') - Cardinality(Owners(o)))
                           + (Calls(stack', o) - Calls(stack, o))
             /\ status[o] # "Live" => refs'[o] = 0
  PROVE  Inv'
<1>1. UNCHANGED headerVars /\ handles' = handles /\ list' = list /\ table' = table /\ opened' = opened
      /\ status' = status /\ parent' = parent /\ linkTarget' = linkTarget
  BY DEF spaceVars, tableVars, headerVars
<1>2. HandleInv'
  BY <1>1, HandleInvKept DEF Inv
<1>3. ListInv'
  BY <1>1, ListInvKept DEF Inv
<1>4. ObjectInv'
  <2>1. \A o \in Objects :
             /\ creator[o] # NoThread /\ creator'[o] = NoThread /\ type[o] = "SymbolicLink"
                   => parent[o] # NoObject
             /\ Count(stack', RoutineFrames(o)) + Count(stack', FreeFrames(o))
                   = Count(stack, RoutineFrames(o)) + Count(stack, FreeFrames(o))
    BY DEF SameDeletions
  <2> QED
    BY <1>1, <2>1, ObjectInvKept DEF Inv
<1>5. StackType /\ ReferencesType /\ \A o \in Objects : refs[o] = Held(o) + Calls(stack, o)
  BY Refs
<1>6. FiniteInv'
  <2>1. IsFiniteSet(Places(stack', Frames))
    BY DEF StackType
  <2>2. Places(stack', Frames) = Places(stack, Frames)' /\ Frames' = Frames
    BY DEF Places, Frames
  <2> QED
    BY <1>1, <2>1, <2>2 DEF Inv, FiniteInv
<1>7. ReferencesType'
  BY <1>6, ReferencesWillBe
<1>8. /\ \A o : HandlesTo(o)' = HandlesTo(o)
      /\ \A o : LinksTo(o)' = LinksTo(o)
  BY <1>1, <1>5, HandlesToKept, LinksToKept
<1>9. ASSUME NEW o \in Objects PROVE refs'[o] = References(o)'
  <2> DEFINE a == Cardinality(Owners(o))
             b == Cardinality(HandlesTo(o))
             c == Cardinality(LinksTo(o))
             d == Calls(stack, o)
             i == Bit(creator[o] # NoThread)
             ap == Cardinality(Owners(o)')
             dp == Calls(stack', o)
             ip == Bit(creator'[o] # NoThread)
  <2>1. References(o)' = Held(o)' + dp /\ dp \in Nat
    BY <1>7 DEF ReferencesType, Calls, OnFrames, TargetFrames, DirFrames, Frames, Count, Places
  <2>2. Held(o)' = ip + ap + b + c
    BY <1>8 DEF Held
  <2>3. refs[o] = i + a + b + c + d
    BY <1>5 DEF Held
  <2>4. refs'[o] = refs[o] + (ip - i) + (ap - a) + (dp - d)
    OBVIOUS
  <2>5. a \in Nat /\ b \in Nat /\ c \in Nat /\ d \in Nat /\ i \in Nat /\ ip \in Nat /\ ap \in Nat
    BY <1>5, FS_CardinalityType DEF ReferencesType, Bit
  <2> HIDE DEF a, b, c, d, i, ap, dp, ip
  <2> QED
    BY <2>1, <2>2, <2>3, <2>4, <2>5
<1>10. CountInv'
  <2>1. \A o \in Objects : status'[o] # "Live" => refs'[o] = 0
    BY <1>1
  <2> QED
    BY <1>9, <2>1 DEF CountInv
<1> QED
  BY <1>2, <1>3, <1>4, <1>6, <1>10 DEF Inv

LEMMA StackOnly ==
  ASSUME Inv, NEW t \in Threads, NEW m, Keeps(t, m), SameHandleSteps, SameDeletions,
         UNCHANGED <<headerVars, countVars, spaceVars, tableVars, userVars, historyVars>>,
         \A o \in Objects : Calls(stack', o) = Calls(stack, o),
         \A k \in m + 1 .. Len(stack'[t]) : AllOK(t, k)'
  PROVE  Inv'
<1>1. /\ UNCHANGED <<headerVars, handles, spaceVars, tableVars, opened>> /\ refs' = refs
      /\ creator' = creator /\ owned' = owned /\ list' = list /\ table' = table /\ opened' = opened
      /\ status' = status /\ name' = name /\ parent' = parent /\ type' = type
      /\ linkTarget' = linkTarget
  BY DEF countVars, userVars, spaceVars, tableVars, headerVars
<1>2. StackType' /\ stack' \in Stacks
  BY DEF Keeps, StackType
<1>3. TypeInv'
  BY <1>2 DEF Inv, TypeInv, Stacks, headerVars, countVars, spaceVars, tableVars, userVars, historyVars
<1>4. Steady
  BY <1>1 DEF Steady, InNoList
<1>5. \A u \in Threads : OwnSteady(u)
  BY <1>1 DEF OwnSteady, Inv, TypeInv
<1>6. HandlesSteady(t, m)
  BY <1>1, HandlesAreSteady DEF Inv
<1>7. FrameInv'
  BY <1>3, <1>4, <1>5, <1>6, FramesKept DEF Inv
<1>8. \A o \in Objects : /\ Owners(o)' = Owners(o) /\ IsFiniteSet(Owners(o)) /\ refs[o] \in Nat
                         /\ Cardinality(Owners(o)) \in Nat /\ Calls(stack, o) \in Nat
                         /\ status[o] # "Live" => refs[o] = 0
  BY <1>1, OwnersKept, Refs DEF Inv, FiniteInv, ReferencesType
<1>9. \A o \in Objects :
         refs'[o] = refs[o] + (Bit(creator'[o] # NoThread) - Bit(creator[o] # NoThread))
                    + (Cardinality(Owners(o)') - Cardinality(Owners(o)))
                    + (Calls(stack', o) - Calls(stack, o))
  BY <1>1, <1>8 DEF Bit
<1> QED
  BY <1>1, <1>2, <1>3, <1>7, <1>8, <1>9, PlainInv

LEMMA SoundIs ==
  ASSUME NEW f, Sound(f)
  PROVE  /\ f.at = "Find" => IsDirectory(f.dir)
         /\ f.at \in {"FinishLink", "InsertDirectory"} => Alive(f.obj) /\ IsDirectory(f.dir)
         /\ f.at = "Unlink" => /\ Alive(f.obj)
                               /\ parent[f.obj] # NoObject => f.obj \in ToSet(list[parent[f.obj]])
         /\ f.at \notin {"Find", "FinishLink", "InsertDirectory", "Unlink", "MakeLink", "CreateHandle",
                         "ClearEntry"} => Alive(f.obj)
<1> QED
  BY DEF Sound

\* A thread about to take a step.
LEMMA AtIs ==
  ASSUME Inv, NEW t \in Threads, NEW step, At(t, step)
  PROVE  \E f \in Frames :
            /\ f = Top(t) /\ f.at = step /\ stack[t] # << >>
            /\ Len(stack[t]) \in Nat \ {0} /\ f = stack[t][Len(stack[t])]
            /\ FrameOK(t, Len(stack[t]), f)
            /\ step \in LookupSteps => LookupOK(t, Len(stack[t]), f)
            /\ step \notin {"Find", "FinishLink", "InsertDirectory", "Unlink", "MakeLink", "CreateHandle",
                            "ClearEntry"} => f.obj \in Objects /\ status[f.obj] = "Live"
            /\ step \in {"FinishLink", "InsertDirectory", "Unlink"} => f.obj \in Objects /\ status[f.obj] = "Live"
            /\ step \in {"Find", "FinishLink", "InsertDirectory"} => f.dir \in Directories /\ IsDirectory(f.dir)
<1>1. stack[t] # << >> /\ Top(t).at = step /\ Sound(Top(t))
  BY DEF At
<1>2. PICK f : f = Top(t)
  OBVIOUS
<1>3. /\ f \in Frames /\ Len(stack[t]) \in Nat \ {0} /\ f = stack[t][Len(stack[t])]
      /\ FrameOK(t, Len(stack[t]), f)
      /\ f.at \in LookupSteps => LookupOK(t, Len(stack[t]), f)
  BY <1>1, <1>2, TopIs
<1>4. Alive(f.obj) => f.obj \in Objects /\ status[f.obj] = "Live"
  BY <1>3, AliveIs, FrameType
<1>5. IsDirectory(f.dir) => f.dir \in Directories
  BY <1>3, AliveIs, FrameType DEF IsDirectory
<1> QED
  BY <1>1, <1>2, <1>3, <1>4, <1>5, SoundIs

\* Steps that only need their object not to be a blank one.
LEMMA SimpleOK ==
  ASSUME NEW t, NEW k, NEW f \in Frames, f.at \in {"Decrement", "Test", "Delete", "CreateHandle"},
         f.at = "CreateHandle" => f.obj # NoObject,
         f.target = NoObject, f.handle = NoHandle, f.obj # NoObject => status'[f.obj] # "None"
  PROVE  FrameOK(t, k, f)' /\ f.at \notin LookupSteps
<1> QED
  BY DEF FrameOK, LookupSteps, OwnSteps

\* One step for another on the same object.
LEMMA SimpleGoto ==
  ASSUME Inv, NEW t \in Threads, NEW at \in {"Decrement", "Test", "Delete"}, NEW o \in Objects \cup {NoObject},
         stack[t] # << >>, Top(t).handle = NoHandle, Top(t).at \notin {"DeleteRoutine", "Free"},
         Goto(t, Frame(at, o)), o # NoObject => status'[o] # "None"
  PROVE  /\ Keeps(t, Len(stack[t]) - 1) /\ Len(stack'[t]) = Len(stack[t]) /\ SameHandleSteps /\ SameDeletions
         /\ \A x \in Objects : Calls(stack', x) = Calls(stack, x) - Weight(Top(t), x)
                                                   + (IF at = "Decrement" THEN Bit(o = x) ELSE 0)
         /\ \A k \in Len(stack[t]) - 1 + 1 .. Len(stack'[t]) : AllOK(t, k)'
<1>1. PICK g : g = Frame(at, o)
  OBVIOUS
<1>2. /\ g \in Frames /\ g.at = at /\ g.obj = o /\ g.target = NoObject /\ g.handle = NoHandle
  BY <1>1, FrameIs DEF Steps
<1>3. StackType /\ Top(t) \in Frames /\ Len(stack[t]) \in Nat \ {0}
  BY Refs, TopIs
<1>4. /\ Keeps(t, Len(stack[t]) - 1) /\ Len(stack'[t]) = Len(stack[t])
      /\ stack'[t][Len(stack[t])] = g
      /\ \A F : Count(stack', F) = Count(stack, F) - Bit(Top(t) \in F) + Bit(g \in F)
  BY <1>1, <1>2, <1>3, GotoStack DEF StackType
<1>5. SameHandleSteps /\ SameDeletions
  <2>1. Plain(g) /\ Plain(Top(t))
    BY <1>2 DEF Plain
  <2> QED
    BY <1>2, <1>3, <1>4, <2>1, PlainMoved
<1>6. ASSUME NEW x \in Objects
      PROVE  Calls(stack', x) = Calls(stack, x) - Weight(Top(t), x)
                                 + (IF at = "Decrement" THEN Bit(o = x) ELSE 0)
  <2>1. Calls(stack', x) = Calls(stack, x) - Weight(Top(t), x) + Weight(g, x)
    BY <1>3, <1>4, MovedCalls
  <2>2. Weight(g, x) = IF at = "Decrement" THEN Bit(o = x) ELSE 0
    BY <1>2, WeightsAre DEF OnSteps
  <2> QED
    BY <2>1, <2>2
<1>7. ASSUME NEW k \in Len(stack[t]) - 1 + 1 .. Len(stack'[t]) PROVE AllOK(t, k)'
  <2>1. k = Len(stack[t])
    BY <1>3, <1>4
  <2>2. stack'[t][k] = g
    BY <2>1, <1>4
  <2>3. FrameOK(t, k, g)' /\ g.at \notin LookupSteps
    BY <1>2, SimpleOK
  <2> QED
    BY <2>2, <2>3 DEF AllOK
<1> QED
  BY <1>4, <1>5, <1>6, <1>7

\* A step that ends its routine.
LEMMA PlainReturn ==
  ASSUME Inv, NEW t \in Threads, stack[t] # << >>, Top(t).handle = NoHandle,
         Top(t).at \notin {"DeleteRoutine", "Free"}, Return(t)
  PROVE  /\ Keeps(t, Len(stack[t]) - 1) /\ SameHandleSteps /\ SameDeletions
         /\ \A x \in Objects : Calls(stack', x) = Calls(stack, x) - Weight(Top(t), x)
         /\ \A k \in Len(stack[t]) - 1 + 1 .. Len(stack'[t]) : AllOK(t, k)'
<1>1. StackType /\ Top(t) \in Frames /\ Len(stack[t]) \in Nat \ {0}
  BY Refs, TopIs
<1>2. /\ Keeps(t, Len(stack[t]) - 1) /\ Len(stack'[t]) = Len(stack[t]) - 1
      /\ \A F : Count(stack', F) = Count(stack, F) - Bit(Top(t) \in F)
  BY <1>1, ReturnStack DEF StackType
<1>3. SameHandleSteps /\ SameDeletions
  <2>1. Plain(Top(t))
    BY DEF Plain
  <2> QED
    BY <1>1, <1>2, <2>1, PlainRemoved
<1>4. \A x \in Objects : Calls(stack', x) = Calls(stack, x) - Weight(Top(t), x)
  BY <1>1, <1>2, RemovedCalls
<1>5. Len(stack[t]) - 1 + 1 .. Len(stack'[t]) = {}
  BY <1>1, <1>2
<1> QED
  BY <1>2, <1>3, <1>4, <1>5

Others == <<headerVars, countVars, spaceVars, tableVars, userVars, historyVars>>

\* One step for another that counts as much, and nothing else happens.
LEMMA GotoInv ==
  ASSUME Inv, UNCHANGED Others, NEW t \in Threads, stack[t] # << >>, NEW g \in Frames, Goto(t, g),
         Plain(Top(t)), Plain(g), \A o \in Objects : Weight(g, o) = Weight(Top(t), o),
         FrameOK(t, Len(stack[t]), g),
         g.at \in LookupSteps => LookupOK(t, Len(stack[t]), g)
  PROVE  Inv'
<1> DEFINE n == Len(stack[t])
<1>1. StackType /\ Top(t) \in Frames /\ n \in Nat \ {0} /\ \A o \in Objects : Calls(stack, o) \in Nat
  BY Refs, TopIs
<1>2. /\ Keeps(t, n - 1) /\ Len(stack'[t]) = n /\ stack'[t][n] = g
      /\ \A F : Count(stack', F) = Count(stack, F) - Bit(Top(t) \in F) + Bit(g \in F)
  BY <1>1, GotoStack DEF StackType
<1>3. SameHandleSteps /\ SameDeletions
  BY <1>1, <1>2, PlainMoved
<1>4. ASSUME NEW o \in Objects PROVE Calls(stack', o) = Calls(stack, o)
  <2>1. Calls(stack', o) = Calls(stack, o) - Weight(Top(t), o) + Weight(g, o)
    BY <1>1, <1>2, MovedCalls
  <2>2. Weight(Top(t), o) \in Nat /\ Weight(g, o) = Weight(Top(t), o)
    BY WeightType
  <2> QED
    BY <2>1, <2>2, <1>1
<1>5. /\ UNCHANGED Others /\ creator' = creator /\ owned' = owned /\ list' = list /\ table' = table
      /\ opened' = opened /\ refs' = refs /\ status' = status /\ name' = name /\ parent' = parent
      /\ type' = type /\ linkTarget' = linkTarget
  BY DEF Others, countVars, userVars, spaceVars, tableVars, headerVars
<1>6. Steady /\ OwnSteady(t)
  BY <1>5 DEF Steady, InNoList, OwnSteady, Inv, TypeInv
<1>7. TypeInv'
  BY <1>2 DEF Keeps, Inv, TypeInv, Stacks, Others, headerVars, countVars, spaceVars, tableVars,
              userVars, historyVars
<1>8. n = 2 => stack'[t][1] = stack[t][1]
  BY <1>2 DEF Keeps
<1>9. g.handle # NoHandle => g.handle \notin opened' /\ table'[g.handle] = table[g.handle]
  BY DEF Plain
<1>10. PICK k : k = n
  OBVIOUS
<1>11. FrameOK(t, k, g) /\ (g.at \in LookupSteps => LookupOK(t, k, g)) /\ (k = 2 => stack'[t][1] = stack[t][1])
  BY <1>8, <1>10
<1>12. FrameOK(t, k, g)'
  BY <1>6, <1>9, <1>11, FrameKept
<1>13. g.at \in LookupSteps => LookupOK(t, k, g)'
  BY <1>6, <1>7, <1>11, LookupKept DEF Inv
<1>14. AllOK(t, k)'
  <2>1. stack'[t][k] = g
    BY <1>2, <1>10
  <2> QED
    BY <1>12, <1>13, <2>1 DEF AllOK
<1>15. \A j \in n - 1 + 1 .. Len(stack'[t]) : j = k
  BY <1>1, <1>2, <1>10
<1>16. \A j \in n - 1 + 1 .. Len(stack'[t]) : AllOK(t, j)'
  BY <1>14, <1>15
<1> QED
  BY <1>2, <1>3, <1>4, <1>16, StackOnly DEF Others

LEMMA ReturnInv ==
  ASSUME Inv, UNCHANGED Others, NEW t \in Threads, stack[t] # << >>, Return(t),
         Plain(Top(t)), \A o \in Objects : Weight(Top(t), o) = 0
  PROVE  Inv'
<1>1. /\ Keeps(t, Len(stack[t]) - 1) /\ SameHandleSteps /\ SameDeletions
      /\ \A x \in Objects : Calls(stack', x) = Calls(stack, x) - Weight(Top(t), x)
      /\ \A k \in Len(stack[t]) - 1 + 1 .. Len(stack'[t]) : AllOK(t, k)'
  BY PlainReturn DEF Plain
<1>2. \A o \in Objects : Calls(stack', o) = Calls(stack, o)
  BY <1>1, Refs
<1> QED
  BY <1>1, <1>2, StackOnly DEF Others

LEMMA ObDereferenceObjectTestInv ==
  ASSUME Inv, NEW t \in Threads, ObDereferenceObjectTest(t)
  PROVE  Inv'
<1>1. At(t, "Test") /\ UNCHANGED Others
  BY DEF ObDereferenceObjectTest, Others
<1>2. PICK f \in Frames :
         /\ f = Top(t) /\ f.at = "Test" /\ stack[t] # << >> /\ FrameOK(t, Len(stack[t]), f)
         /\ f.obj \in Objects /\ status[f.obj] = "Live"
  BY <1>1, AtIs
<1>3. f.handle = NoHandle /\ f.target = NoObject
  BY <1>2 DEF FrameOK
<1>4. Plain(Top(t)) /\ \A o \in Objects : Weight(Top(t), o) = 0
  BY <1>2, <1>3, WeightsAre DEF Plain, OnSteps
<1>5. CASE Return(t)
  BY <1>1, <1>2, <1>4, <1>5, ReturnInv
<1>6. CASE Goto(t, Frame("Delete", f.obj))
  <2>1. PICK g : g = Frame("Delete", f.obj)
    OBVIOUS
  <2>2. g \in Frames /\ g.at = "Delete" /\ g.obj = f.obj /\ g.handle = NoHandle /\ g.target = NoObject
    BY <1>2, <2>1, FrameIs DEF Steps
  <2>3. Plain(g) /\ \A o \in Objects : Weight(g, o) = 0
    BY <2>2, WeightsAre DEF Plain, OnSteps
  <2>4. FrameOK(t, Len(stack[t]), g) /\ g.at \notin LookupSteps
    BY <1>2, <2>2 DEF FrameOK, LookupSteps, OwnSteps
  <2> QED
    BY <1>1, <1>2, <1>4, <1>6, <2>1, <2>2, <2>3, <2>4, GotoInv
<1> QED
  BY <1>2, <1>5, <1>6 DEF ObDereferenceObjectTest

LEMMA ObpDeleteObjectInternalInv ==
  ASSUME Inv, NEW t \in Threads, ObpDeleteObjectInternal(t)
  PROVE  Inv'
<1>1. At(t, "Delete") /\ UNCHANGED Others
  BY DEF ObpDeleteObjectInternal, Others
<1>2. PICK f \in Frames :
         /\ f = Top(t) /\ f.at = "Delete" /\ stack[t] # << >> /\ FrameOK(t, Len(stack[t]), f)
         /\ f.obj \in Objects /\ status[f.obj] = "Live"
  BY <1>1, AtIs
<1>3. f.handle = NoHandle /\ f.target = NoObject
  BY <1>2 DEF FrameOK
<1>4. Plain(Top(t)) /\ \A o \in Objects : Weight(Top(t), o) = 0
  BY <1>2, <1>3, WeightsAre DEF Plain, OnSteps
<1>5. CASE Return(t)
  BY <1>1, <1>2, <1>4, <1>5, ReturnInv
<1>6. CASE refs[f.obj] = 0 /\ Goto(t, Frame("Unlink", f.obj))
  <2>1. PICK g : g = Frame("Unlink", f.obj)
    OBVIOUS
  <2>2. g \in Frames /\ g.at = "Unlink" /\ g.obj = f.obj /\ g.handle = NoHandle /\ g.target = NoObject
    BY <1>2, <2>1, FrameIs DEF Steps
  <2>3. Plain(g) /\ \A o \in Objects : Weight(g, o) = 0
    BY <2>2, WeightsAre DEF Plain, OnSteps
  <2>4. FrameOK(t, Len(stack[t]), g) /\ g.at \notin LookupSteps
    BY <1>2, <1>6, <2>2, ObjectManagerAssumption DEF FrameOK, LookupSteps, OwnSteps, Directories
  <2> QED
    BY <1>1, <1>2, <1>4, <1>6, <2>1, <2>2, <2>3, <2>4, GotoInv
<1> QED
  BY <1>2, <1>5, <1>6 DEF ObpDeleteObjectInternal

LEMMA ObDeleteObjectDecideInv ==
  ASSUME Inv, NEW t \in Threads, ObDeleteObjectDecide(t)
  PROVE  Inv'
<1>1. At(t, "Decide") /\ UNCHANGED Others
  BY DEF ObDeleteObjectDecide, Others
<1>2. PICK f \in Frames :
         /\ f = Top(t) /\ f.at = "Decide" /\ stack[t] # << >> /\ FrameOK(t, Len(stack[t]), f)
         /\ f.obj \in Objects /\ status[f.obj] = "Live"
  BY <1>1, AtIs
<1>3. f.handle = NoHandle /\ f.target = NoObject
  BY <1>2 DEF FrameOK
<1>4. PICK at \in {"Drop", "DropAndDelete"} : Goto(t, Frame(at, f.obj))
  BY <1>2 DEF ObDeleteObjectDecide
<1>5. PICK g : g = Frame(at, f.obj)
  OBVIOUS
<1>6. g \in Frames /\ g.at = at /\ g.obj = f.obj /\ g.handle = NoHandle /\ g.target = NoObject
  BY <1>2, <1>5, FrameIs DEF Steps
<1>7. Plain(g) /\ Plain(f) /\ \A o \in Objects : Weight(g, o) = Weight(f, o)
  BY <1>2, <1>3, <1>6, WeightsAre DEF Plain, OnSteps
<1>8. FrameOK(t, Len(stack[t]), g) /\ g.at \notin LookupSteps
  BY <1>2, <1>6 DEF FrameOK, LookupSteps, OwnSteps
<1> QED
  BY <1>1, <1>2, <1>4, <1>5, <1>6, <1>7, <1>8, GotoInv

-----------------------------------------------------------------------------
(* Steps that count references. *)

LEMMA CountedInv ==
  ASSUME Inv, NEW t \in Threads, NEW m, Keeps(t, m), SameHandleSteps, SameDeletions,
         UNCHANGED <<headerVars, handles, spaceVars, tableVars, opened, historyVars>>,
         refs' \in [Objects -> Int], creator' \in [Objects -> Threads \cup {NoThread}],
         owned' \in [Threads -> [Objects -> 0 .. MaxOwned]],
         \A u \in Threads : u # t \/ m >= 1 => OwnSteady(u),
         \A o \in Objects :
             /\ \/ creator'[o] = creator[o]
                \/ creator'[o] = NoThread /\ (type[o] = "SymbolicLink" => parent[o] # NoObject)
             /\ IsFiniteSet(Owners(o)')
             /\ refs'[o] = refs[o] + (Bit(creator'[o] # NoThread) - Bit(creator[o] # NoThread))
                           + (Cardinality(Owners(o)') - Cardinality(Owners(o)))
                           + (Calls(stack', o) - Calls(stack, o))
             /\ refs[o] = 0 => refs'[o] = 0,
         \A k \in m + 1 .. Len(stack'[t]) : AllOK(t, k)'
  PROVE  Inv'
<1>1. /\ list' = list /\ table' = table /\ opened' = opened
      /\ status' = status /\ name' = name /\ parent' = parent /\ type' = type
      /\ linkTarget' = linkTarget
  BY DEF spaceVars, tableVars, headerVars
<1>2. StackType' /\ stack' \in Stacks
  BY DEF Keeps, StackType
<1>3. TypeInv'
  BY <1>2 DEF Inv, TypeInv, Stacks, headerVars, spaceVars, tableVars, historyVars
<1>4. Steady
  BY <1>1 DEF Steady, InNoList
<1>5. HandlesSteady(t, m)
  BY <1>1, HandlesAreSteady DEF Inv
<1>6. FrameInv'
  BY <1>3, <1>4, <1>5, FramesKept DEF Inv
<1>7. \A o \in Objects : status[o] # "Live" => refs'[o] = 0
  BY Refs
<1>8. UNCHANGED <<headerVars, handles, spaceVars, tableVars, opened>>
  OBVIOUS
<1> QED
  BY <1>2, <1>3, <1>6, <1>7, <1>8, PlainInv

LEMMA CountTypes ==
  ASSUME Inv
  PROVE  /\ refs \in [Objects -> Int] /\ creator \in [Objects -> Threads \cup {NoThread}]
         /\ owned \in [Threads -> [Objects -> 0 .. MaxOwned]]
<1> QED
  BY DEF Inv, TypeInv

\* What a step does not count.
LEMMA Uncounted ==
  ASSUME Inv
  PROVE  /\ owned' = owned => \A o \in Objects : IsFiniteSet(Owners(o)')
                                  /\ Cardinality(Owners(o)') - Cardinality(Owners(o)) = 0
         /\ creator' = creator => \A o : Bit(creator'[o] # NoThread) - Bit(creator[o] # NoThread) = 0
         /\ \A o \in Objects : Cardinality(Owners(o)) \in Nat /\ IsFiniteSet(Owners(o))
<1>1. \A o \in Objects : IsFiniteSet(Owners(o)) /\ Cardinality(Owners(o)) \in Nat
  BY FS_CardinalityType DEF Inv, FiniteInv
<1> QED
  BY <1>1, OwnersKept DEF Bit

LEMMA ObDereferenceObjectInv ==
  ASSUME Inv, NEW t \in Threads, ObDereferenceObject(t)
  PROVE  Inv'
<1>1. /\ At(t, "Decrement") /\ refs' = [refs EXCEPT ![Top(t).obj] = @ - 1]
      /\ Goto(t, Frame("Test", Top(t).obj))
      /\ UNCHANGED <<headerVars, handles, spaceVars, tableVars, userVars, historyVars>>
  BY DEF ObDereferenceObject
<1>2. PICK f \in Frames :
         /\ f = Top(t) /\ f.at = "Decrement" /\ stack[t] # << >> /\ FrameOK(t, Len(stack[t]), f)
         /\ f.obj \in Objects /\ status[f.obj] = "Live" /\ Len(stack[t]) \in Nat \ {0}
  BY <1>1, AtIs
<1>3. f.handle = NoHandle /\ f.target = NoObject
  BY <1>2 DEF FrameOK
<1>4. \A x \in Objects : Weight(f, x) = Bit(f.obj = x)
  BY <1>2, <1>3, WeightsAre DEF OnSteps
<1>5. /\ status' = status /\ creator' = creator /\ owned' = owned /\ opened' = opened
      /\ name' = name /\ parent' = parent /\ type' = type /\ linkTarget' = linkTarget
  BY <1>1 DEF headerVars, userVars
<1>6. /\ Keeps(t, Len(stack[t]) - 1) /\ Len(stack'[t]) = Len(stack[t]) /\ SameHandleSteps /\ SameDeletions
      /\ \A x \in Objects : Calls(stack', x) = Calls(stack, x) - Weight(Top(t), x) + 0
      /\ \A k \in Len(stack[t]) - 1 + 1 .. Len(stack'[t]) : AllOK(t, k)'
  BY <1>1, <1>2, <1>3, <1>5, SimpleGoto
<1>7. \A u \in Threads : OwnSteady(u)
  BY <1>5 DEF OwnSteady, Inv, TypeInv
<1>8. \A x \in Objects : refs'[x] = refs[x] - Bit(f.obj = x) /\ refs[x] \in Nat
  BY <1>1, <1>2, Refs, CountTypes DEF Bit
<1>9. ASSUME NEW x \in Objects
      PROVE  refs'[x] = refs[x] + 0 + 0 + (Calls(stack', x) - Calls(stack, x)) /\ (refs[x] = 0 => refs'[x] = 0)
  <2>1. Calls(stack', x) = Calls(stack, x) - Bit(f.obj = x) /\ Calls(stack, x) \in Nat /\ Bit(f.obj = x) \in Nat
    BY <1>2, <1>4, <1>6, Refs DEF Bit
  <2>2. refs[x] = 0 => Bit(f.obj = x) = 0
    <3>1. Weight(f, x) <= Calls(stack, x) /\ refs[x] = Held(x) + Calls(stack, x) /\ Held(x) \in Nat
      BY <1>2, TopIs, Refs
    <3> QED
      BY <3>1, <2>1, <1>4
  <2> QED
    BY <2>1, <2>2, <1>8
<1>10. refs' \in [Objects -> Int]
  BY <1>1, <1>2 DEF Inv, TypeInv
<1>11. UNCHANGED <<headerVars, handles, spaceVars, tableVars, opened, historyVars>>
  BY <1>1, <1>5
<1>12. /\ creator' \in [Objects -> Threads \cup {NoThread}]
       /\ owned' \in [Threads -> [Objects -> 0 .. MaxOwned]]
  BY <1>5 DEF Inv, TypeInv
<1>13. \A x \in Objects :
           /\ creator'[x] = creator[x] /\ IsFiniteSet(Owners(x)')
           /\ Bit(creator'[x] # NoThread) - Bit(creator[x] # NoThread) = 0
           /\ Cardinality(Owners(x)') - Cardinality(Owners(x)) = 0
  BY <1>5, Uncounted
<1>14. \A x \in Objects :
           refs'[x] = refs[x] + (Bit(creator'[x] # NoThread) - Bit(creator[x] # NoThread))
                           + (Cardinality(Owners(x)') - Cardinality(Owners(x)))
                           + (Calls(stack', x) - Calls(stack, x))
  BY <1>9, <1>13
<1> QED
  BY <1>6, <1>7, <1>9, <1>10, <1>11, <1>12, <1>13, <1>14, CountedInv

LEMMA ObDereferenceObjectExInv ==
  ASSUME Inv, NEW t \in Threads, ObDereferenceObjectEx(t)
  PROVE  Inv'
<1>1. /\ refs' = [refs EXCEPT ![Top(t).obj] = @ - 2]
      /\ creator' = [creator EXCEPT ![Top(t).obj] = NoThread]
      /\ IF Top(t).at = "Drop" THEN Return(t) ELSE Goto(t, Frame("Delete", Top(t).obj))
      /\ UNCHANGED <<headerVars, handles, spaceVars, tableVars, owned, opened, historyVars>>
  BY DEF ObDereferenceObjectEx
<1>2. PICK f \in Frames :
         /\ f = Top(t) /\ f.at \in {"Drop", "DropAndDelete"} /\ stack[t] # << >> /\ FrameOK(t, Len(stack[t]), f)
         /\ f.obj \in Objects /\ status[f.obj] = "Live" /\ Len(stack[t]) \in Nat \ {0}
  <2>1. CASE At(t, "Drop")
    BY <2>1, AtIs
  <2>2. CASE At(t, "DropAndDelete")
    BY <2>2, AtIs
  <2> QED
    BY <2>1, <2>2 DEF ObDereferenceObjectEx
<1>3. /\ f.handle = NoHandle /\ f.target = NoObject /\ creator[f.obj] = t /\ parent[f.obj] # NoObject
      /\ Len(stack[t]) = 1 /\ NoThread \notin Threads
  BY <1>2, ObjectManagerAssumption DEF FrameOK, OwnSteps
<1>4. \A x \in Objects : Weight(f, x) = Bit(f.obj = x)
  BY <1>2, <1>3, WeightsAre DEF OnSteps
<1>5. /\ status' = status /\ owned' = owned /\ opened' = opened
      /\ name' = name /\ parent' = parent /\ type' = type /\ linkTarget' = linkTarget
      /\ \A x \in Objects : creator'[x] = IF x = f.obj THEN NoThread ELSE creator[x]
  BY <1>1, <1>2 DEF headerVars, Inv, TypeInv
<1>6. /\ Keeps(t, 0) /\ SameHandleSteps /\ SameDeletions
      /\ \A x \in Objects : Calls(stack', x) = Calls(stack, x) - Bit(f.obj = x)
      /\ \A k \in 0 + 1 .. Len(stack'[t]) : AllOK(t, k)'
  <2>1. \A x \in Objects : Calls(stack, x) \in Nat /\ Bit(f.obj = x) \in Nat
    BY Refs DEF Bit
  <2>2. CASE f.at = "Drop"
    <3>1. /\ Keeps(t, Len(stack[t]) - 1) /\ SameHandleSteps /\ SameDeletions
          /\ \A x \in Objects : Calls(stack', x) = Calls(stack, x) - Weight(Top(t), x)
          /\ \A k \in Len(stack[t]) - 1 + 1 .. Len(stack'[t]) : AllOK(t, k)'
      BY <1>1, <1>2, <1>3, <2>2, PlainReturn
    <3> QED
      BY <3>1, <1>2, <1>3, <1>4
  <2>3. CASE f.at # "Drop"
    <3>0. Goto(t, Frame("Delete", f.obj))
      BY <1>1, <1>2, <2>3
    <3>1. /\ Inv /\ t \in Threads /\ f.obj \in Objects \cup {NoObject} /\ stack[t] # << >>
          /\ Top(t).handle = NoHandle /\ Top(t).at \notin {"DeleteRoutine", "Free"}
          /\ f.obj # NoObject => status'[f.obj] # "None"
      BY <1>2, <1>3, <1>5
    <3>2. /\ Keeps(t, Len(stack[t]) - 1) /\ SameHandleSteps /\ SameDeletions
          /\ \A x \in Objects : Calls(stack', x) = Calls(stack, x) - Weight(Top(t), x)
                                    + (IF "Delete" = "Decrement" THEN Bit(f.obj = x) ELSE 0)
          /\ \A k \in Len(stack[t]) - 1 + 1 .. Len(stack'[t]) : AllOK(t, k)'
      BY ONLY <3>0, <3>1, SimpleGoto
    <3> QED
      BY <3>2, <1>2, <1>3, <1>4, <2>1
  <2> QED
    BY <2>2, <2>3
<1>7. \A u \in Threads : u # t => OwnSteady(u)
  BY <1>3, <1>5 DEF OwnSteady, Inv, TypeInv
<1>8. ASSUME NEW x \in Objects
      PROVE  /\ refs'[x] = refs[x] - 2 * Bit(f.obj = x) /\ refs[x] \in Nat
             /\ refs[x] = 0 => refs'[x] = 0
  <2>1. refs[f.obj] >= 1
    BY <1>2, <1>3, KeptAlive, Zenon
  <2>2. refs[x] \in Nat /\ refs[f.obj] \in Nat
    BY <1>2, Refs
  <2>3. refs'[x] = IF x = f.obj THEN refs[x] - 2 ELSE refs[x]
    BY <1>1, <1>2, CountTypes
  <2> QED
    BY <2>1, <2>2, <2>3 DEF Bit
<1>9. ASSUME NEW x \in Objects
      PROVE  /\ creator'[x] = creator[x] \/ (creator'[x] = NoThread /\ parent[x] # NoObject)
             /\ Bit(creator'[x] # NoThread) - Bit(creator[x] # NoThread) = 0 - Bit(f.obj = x)
  BY <1>3, <1>5 DEF Bit
<1>10. refs' \in [Objects -> Int]
  BY <1>1, <1>2 DEF Inv, TypeInv
<1>11. UNCHANGED <<headerVars, handles, spaceVars, tableVars, opened, historyVars>>
  BY <1>1, <1>5
<1>12. /\ creator' \in [Objects -> Threads \cup {NoThread}]
       /\ owned' \in [Threads -> [Objects -> 0 .. MaxOwned]]
  BY <1>1, <1>5 DEF Inv, TypeInv
<1>13. \A x \in Objects :
           /\ IsFiniteSet(Owners(x)')
           /\ Cardinality(Owners(x)') - Cardinality(Owners(x)) = 0
  BY <1>5, Uncounted
<1>14. ASSUME NEW x \in Objects
       PROVE  refs'[x] = refs[x] + (Bit(creator'[x] # NoThread) - Bit(creator[x] # NoThread))
                           + (Cardinality(Owners(x)') - Cardinality(Owners(x)))
                           + (Calls(stack', x) - Calls(stack, x))
  <2>1. Bit(f.obj = x) \in Nat /\ Calls(stack, x) \in Nat
    BY Refs DEF Bit
  <2>2. /\ refs'[x] = refs[x] - 2 * Bit(f.obj = x) /\ refs[x] \in Nat
        /\ Bit(creator'[x] # NoThread) - Bit(creator[x] # NoThread) = 0 - Bit(f.obj = x)
        /\ Cardinality(Owners(x)') - Cardinality(Owners(x)) = 0
        /\ Calls(stack', x) = Calls(stack, x) - Bit(f.obj = x)
    BY <1>6, <1>8, <1>9, <1>13
  <2> QED
    BY <2>1, <2>2
<1> QED
  BY <1>6, <1>7, <1>8, <1>9, <1>10, <1>11, <1>12, <1>13, <1>14, CountedInv

\* A call begins.
LEMMA EnterIs ==
  ASSUME Inv, NEW t \in Threads, stack[t] = << >>, NEW g \in Frames, Plain(g), Enter(t, g)
  PROVE  /\ Keeps(t, 0) /\ SameHandleSteps /\ SameDeletions
         /\ \A x \in Objects : Calls(stack', x) = Calls(stack, x) + Weight(g, x)
         /\ \A k \in 0 + 1 .. Len(stack'[t]) : k = 1 /\ stack'[t][k] = g
<1>1. StackType /\ Len(stack[t]) = 0
  BY Refs, EmptySeq
<1>2. /\ Keeps(t, 0) /\ Len(stack'[t]) = 1 /\ stack'[t][1] = g
      /\ \A F : Count(stack', F) = Count(stack, F) + Bit(g \in F)
  <2>1. /\ Keeps(t, Len(stack[t])) /\ Len(stack'[t]) = Len(stack[t]) + 1
        /\ stack'[t][Len(stack[t]) + 1] = g
        /\ \A F : Count(stack', F) = Count(stack, F) + Bit(g \in F)
    BY <1>1, EnterStack DEF StackType
  <2> QED
    BY <2>1, <1>1
<1>3. SameHandleSteps /\ SameDeletions
  BY <1>1, <1>2, PlainAdded
<1>4. \A x \in Objects : Calls(stack', x) = Calls(stack, x) + Weight(g, x)
  BY <1>1, <1>2, AddedCalls
<1>5. \A k \in 0 + 1 .. Len(stack'[t]) : k = 1 /\ stack'[t][k] = g
  BY <1>2
<1> QED
  BY <1>2, <1>3, <1>4, <1>5

LEMMA EnterDecrement ==
  ASSUME Inv, NEW t \in Threads, Idle(t), NEW o \in Objects, status'[o] # "None",
         Enter(t, Frame("Decrement", o))
  PROVE  /\ Keeps(t, 0) /\ SameHandleSteps /\ SameDeletions
         /\ \A x \in Objects : Calls(stack', x) = Calls(stack, x) + Bit(o = x)
         /\ \A k \in 0 + 1 .. Len(stack'[t]) : AllOK(t, k)'
<1>1. PICK g : g = Frame("Decrement", o)
  OBVIOUS
<1>2. g \in Frames /\ g.at = "Decrement" /\ g.obj = o /\ g.handle = NoHandle /\ g.target = NoObject
  BY <1>1, FrameIs DEF Steps
<1>3. /\ Keeps(t, 0) /\ SameHandleSteps /\ SameDeletions
      /\ \A x \in Objects : Calls(stack', x) = Calls(stack, x) + Weight(g, x)
      /\ \A k \in 0 + 1 .. Len(stack'[t]) : k = 1 /\ stack'[t][k] = g
  BY <1>1, <1>2, EnterIs DEF Idle, Plain
<1>4. \A x \in Objects : Weight(g, x) = Bit(o = x)
  BY <1>2, WeightsAre DEF OnSteps
<1>5. FrameOK(t, 1, g)' /\ g.at \notin LookupSteps
  BY <1>2, SimpleOK
<1>6. \A k \in 0 + 1 .. Len(stack'[t]) : AllOK(t, k)'
  BY <1>3, <1>5 DEF AllOK
<1> QED
  BY <1>3, <1>4, <1>6

LEMMA CallDereferenceInv ==
  ASSUME Inv, NEW t \in Threads, NEW o \in Objects, CallDereference(t, o)
  PROVE  Inv'
<1>1. /\ Idle(t) /\ owned[t][o] > 0 /\ owned' = [owned EXCEPT ![t][o] = @ - 1]
      /\ Enter(t, Frame("Decrement", o))
      /\ UNCHANGED <<headerVars, countVars, spaceVars, tableVars, creator, opened, historyVars>>
  BY DEF CallDereference
<1>2. status[o] = "Live"
  BY <1>1, KeptAlive
<1>3. /\ refs' = refs /\ status' = status /\ creator' = creator /\ opened' = opened
      /\ name' = name /\ parent' = parent /\ type' = type /\ linkTarget' = linkTarget
      /\ UNCHANGED <<headerVars, handles, spaceVars, tableVars, opened, historyVars>>
  BY <1>1 DEF headerVars, countVars
<1>4. /\ Keeps(t, 0) /\ SameHandleSteps /\ SameDeletions
      /\ \A x \in Objects : Calls(stack', x) = Calls(stack, x) + Bit(o = x)
      /\ \A k \in 0 + 1 .. Len(stack'[t]) : AllOK(t, k)'
  BY <1>1, <1>2, <1>3, EnterDecrement
<1>5. \A x \in Objects : /\ IsFiniteSet(Owners(x)')
                         /\ Cardinality(Owners(x)') = Cardinality(Owners(x)) - Bit(x = o)
  BY <1>1, OwnersLess DEF Inv
<1>6. /\ owned' \in [Threads -> [Objects -> 0 .. MaxOwned]]
      /\ \A u \in Threads : u # t => owned'[u] = owned[u]
  <2>1. owned[t][o] - 1 \in 0 .. MaxOwned
    <3>1. owned[t][o] \in 0 .. MaxOwned /\ MaxOwned \in Nat
      BY ObjectManagerAssumption DEF Inv, TypeInv
    <3> QED
      BY <1>1, <3>1
  <2> QED
    BY <1>1, <2>1 DEF Inv, TypeInv
<1>7. \A u \in Threads : u # t => OwnSteady(u)
  BY <1>3, <1>6 DEF OwnSteady, Inv, TypeInv
<1>8. ASSUME NEW x \in Objects
      PROVE  refs'[x] = refs[x] + (Bit(creator'[x] # NoThread) - Bit(creator[x] # NoThread))
                           + (Cardinality(Owners(x)') - Cardinality(Owners(x)))
                           + (Calls(stack', x) - Calls(stack, x))
  <2>1. /\ Bit(o = x) \in Nat /\ Calls(stack, x) \in Nat /\ refs[x] \in Nat /\ Cardinality(Owners(x)) \in Nat
        /\ Bit(creator'[x] # NoThread) - Bit(creator[x] # NoThread) = 0
    BY <1>3, Refs, Uncounted DEF Bit
  <2>2. Bit(o = x) = Bit(x = o)
    BY DEF Bit
  <2> QED
    BY <2>1, <2>2, <1>3, <1>4, <1>5
<1>9. /\ refs' \in [Objects -> Int] /\ creator' \in [Objects -> Threads \cup {NoThread}]
      /\ \A x \in Objects : creator'[x] = creator[x] /\ (refs[x] = 0 => refs'[x] = 0)
  BY <1>3 DEF Inv, TypeInv
<1>10. \A x \in Objects :
           /\ creator'[x] = creator[x] \/ (creator'[x] = NoThread /\ (type[x] = "SymbolicLink" => parent[x] # NoObject))
           /\ IsFiniteSet(Owners(x)')
           /\ refs'[x] = refs[x] + (Bit(creator'[x] # NoThread) - Bit(creator[x] # NoThread))
                           + (Cardinality(Owners(x)') - Cardinality(Owners(x)))
                           + (Calls(stack', x) - Calls(stack, x))
           /\ refs[x] = 0 => refs'[x] = 0
  BY <1>5, <1>8, <1>9
<1> QED
  BY <1>3, <1>4, <1>6, <1>7, <1>9, <1>10, CountedInv

LEMMA ObpDeleteObjectInv ==
  ASSUME Inv, NEW t \in Threads, NEW o \in Objects, ObpDeleteObject(t, o)
  PROVE  Inv'
<1>1. /\ Idle(t) /\ creator[o] = t /\ type[o] # "SymbolicLink"
      /\ creator' = [creator EXCEPT ![o] = NoThread]
      /\ Enter(t, Frame("Decrement", o))
      /\ UNCHANGED <<headerVars, countVars, spaceVars, tableVars, owned, opened, historyVars>>
  BY DEF ObpDeleteObject
<1>2. NoThread \notin Threads
  BY ObjectManagerAssumption
<1>3. status[o] = "Live"
  BY <1>1, <1>2, KeptAlive
<1>4. /\ refs' = refs /\ status' = status /\ owned' = owned /\ opened' = opened
      /\ name' = name /\ parent' = parent /\ type' = type /\ linkTarget' = linkTarget
      /\ UNCHANGED <<headerVars, handles, spaceVars, tableVars, opened, historyVars>>
      /\ \A x \in Objects : creator'[x] = IF x = o THEN NoThread ELSE creator[x]
  BY <1>1 DEF headerVars, countVars, Inv, TypeInv
<1>5. /\ Keeps(t, 0) /\ SameHandleSteps /\ SameDeletions
      /\ \A x \in Objects : Calls(stack', x) = Calls(stack, x) + Bit(o = x)
      /\ \A k \in 0 + 1 .. Len(stack'[t]) : AllOK(t, k)'
  BY <1>1, <1>3, <1>4, EnterDecrement
<1>6. \A u \in Threads : u # t => OwnSteady(u)
  BY <1>1, <1>4 DEF OwnSteady, Inv, TypeInv
<1>7. \A x \in Objects : Bit(creator'[x] # NoThread) - Bit(creator[x] # NoThread) = 0 - Bit(o = x)
  BY <1>1, <1>2, <1>4 DEF Bit
<1>8. ASSUME NEW x \in Objects
      PROVE  refs'[x] = refs[x] + (Bit(creator'[x] # NoThread) - Bit(creator[x] # NoThread))
                           + (Cardinality(Owners(x)') - Cardinality(Owners(x)))
                           + (Calls(stack', x) - Calls(stack, x))
  <2>1. /\ Bit(o = x) \in Nat /\ Calls(stack, x) \in Nat /\ refs[x] \in Nat
        /\ Cardinality(Owners(x)') - Cardinality(Owners(x)) = 0
    BY <1>4, Refs, Uncounted DEF Bit
  <2> QED
    BY <2>1, <1>4, <1>5, <1>7
<1>9. /\ refs' \in [Objects -> Int] /\ creator' \in [Objects -> Threads \cup {NoThread}]
      /\ owned' \in [Threads -> [Objects -> 0 .. MaxOwned]]
      /\ \A x \in Objects : /\ refs[x] = 0 => refs'[x] = 0
                            /\ IsFiniteSet(Owners(x)')
                            /\ \/ creator'[x] = creator[x]
                               \/ creator'[x] = NoThread /\ (type[x] = "SymbolicLink" => parent[x] # NoObject)
  BY <1>1, <1>4, Uncounted DEF Inv, TypeInv
<1> QED
  BY <1>4, <1>5, <1>6, <1>8, <1>9, CountedInv

\* One step for another, neither on a handle nor one of a deletion.
LEMMA GotoIs ==
  ASSUME Inv, NEW t \in Threads, stack[t] # << >>, NEW g \in Frames, Plain(Top(t)), Plain(g), Goto(t, g)
  PROVE  /\ Keeps(t, Len(stack[t]) - 1) /\ SameHandleSteps /\ SameDeletions
         /\ \A x \in Objects : Calls(stack', x) = Calls(stack, x) - Weight(Top(t), x) + Weight(g, x)
         /\ \A k \in Len(stack[t]) - 1 + 1 .. Len(stack'[t]) : k = Len(stack[t]) /\ stack'[t][k] = g
<1>1. StackType /\ Top(t) \in Frames /\ Len(stack[t]) \in Nat \ {0}
  BY Refs, TopIs
<1>2. /\ Keeps(t, Len(stack[t]) - 1) /\ Len(stack'[t]) = Len(stack[t])
      /\ stack'[t][Len(stack[t])] = g
      /\ \A F : Count(stack', F) = Count(stack, F) - Bit(Top(t) \in F) + Bit(g \in F)
  BY <1>1, GotoStack DEF StackType
<1>3. SameHandleSteps /\ SameDeletions
  BY <1>1, <1>2, PlainMoved
<1>4. \A x \in Objects : Calls(stack', x) = Calls(stack, x) - Weight(Top(t), x) + Weight(g, x)
  BY <1>1, <1>2, MovedCalls
<1>5. \A k \in Len(stack[t]) - 1 + 1 .. Len(stack'[t]) : k = Len(stack[t])
  BY <1>1, <1>2
<1> QED
  BY <1>2, <1>3, <1>4, <1>5

\* A lookup gives a reference to a call.
LEMMA ReferencedInv ==
  ASSUME Inv, NEW t \in Threads, NEW m, Keeps(t, m), SameHandleSteps, SameDeletions,
         NEW o \in Objects, refs[o] # 0, refs' = [refs EXCEPT ![o] = @ + 1],
         UNCHANGED <<headerVars, handles, spaceVars, tableVars, userVars, historyVars>>,
         \A x \in Objects : Calls(stack', x) = Calls(stack, x) + Bit(o = x),
         \A k \in m + 1 .. Len(stack'[t]) : AllOK(t, k)'
  PROVE  Inv'
<1>1. /\ status' = status /\ creator' = creator /\ owned' = owned /\ opened' = opened
      /\ name' = name /\ parent' = parent /\ type' = type /\ linkTarget' = linkTarget
      /\ UNCHANGED <<headerVars, handles, spaceVars, tableVars, opened, historyVars>>
  BY DEF headerVars, userVars
<1>2. \A u \in Threads : OwnSteady(u)
  BY <1>1 DEF OwnSteady, Inv, TypeInv
<1>3. \A x \in Objects : /\ refs'[x] = refs[x] + Bit(o = x) /\ refs[x] \in Nat
                         /\ refs[x] = 0 => refs'[x] = 0
  BY Refs, CountTypes DEF Bit
<1>4. /\ refs' \in [Objects -> Int] /\ creator' \in [Objects -> Threads \cup {NoThread}]
      /\ owned' \in [Threads -> [Objects -> 0 .. MaxOwned]]
  BY <1>1 DEF Inv, TypeInv
<1>5. \A x \in Objects :
           /\ creator'[x] = creator[x] /\ IsFiniteSet(Owners(x)')
           /\ Bit(creator'[x] # NoThread) - Bit(creator[x] # NoThread) = 0
           /\ Cardinality(Owners(x)') - Cardinality(Owners(x)) = 0
  BY <1>1, Uncounted
<1>6. ASSUME NEW x \in Objects
      PROVE  refs'[x] = refs[x] + (Bit(creator'[x] # NoThread) - Bit(creator[x] # NoThread))
                           + (Cardinality(Owners(x)') - Cardinality(Owners(x)))
                           + (Calls(stack', x) - Calls(stack, x))
  <2>1. Calls(stack, x) \in Nat /\ Bit(o = x) \in Nat
    BY Refs DEF Bit
  <2> QED
    BY <2>1, <1>3, <1>5
<1> QED
  BY <1>1, <1>2, <1>3, <1>4, <1>5, <1>6, CountedInv

\* The thread that deletes an object by its name is the one that created it.
LEMMA NamedIsOwn ==
  ASSUME Inv, NEW t \in Threads, NEW k, NEW f \in Frames, LookupOK(t, k, f), f.at = "Take",
         f.use = "DeleteByName", f.obj \in Objects, status[f.obj] = "Live"
  PROVE  creator[f.obj] = t
<1>1. PICK o \in Objects : creator[o] = t /\ name[o] = Last(f.arg)
  BY DEF LookupOK
<1>2. name[f.obj] = Last(f.arg)
  BY DEF LookupOK
<1>3. NoThread \notin Threads
  BY ObjectManagerAssumption
<1>4. status[o] = "Live"
  BY <1>1, <1>3, KeptAlive
<1> QED
  BY <1>1, <1>2, <1>4 DEF Inv, ObjectInv

\* The caller of a lookup.
LEMMA CallerIs ==
  ASSUME stack \in Stacks, NEW t \in Threads, Len(stack[t]) = 2
  PROVE  Caller(t) = stack[t][1] /\ stack[t][1] \in Frames
<1>1. stack[t] \in Seq(Frames) /\ stack[t] # << >>
  <2>1. stack[t] \in Seq(Frames) /\ Len(<< >>) = 0
    BY EmptySeq DEF Stacks
  <2> QED
    BY <2>1
<1>2. PICK r : r = Front(stack[t])
  OBVIOUS
<1>3. r \in Seq(Frames) /\ Len(r) = 1 /\ r[1] = stack[t][1]
  <2>1. /\ r \in Seq(Frames) /\ Len(r) = Len(stack[t]) - 1
        /\ \A i \in 1 .. Len(stack[t]) - 1 : r[i] = stack[t][i]
    BY ONLY <1>1, <1>2, FrontIs
  <2>2. Len(stack[t]) = 2 /\ 1 \in 1 .. 2 - 1
    OBVIOUS
  <2> QED
    BY ONLY <2>1, <2>2
<1>4. r # << >>
  <2>1. Len(<< >>) = 0 /\ Len(r) = 1
    BY <1>3, EmptySeq
  <2> QED
    BY ONLY <2>1
<1>5. Last(r) = r[1] /\ Last(r) \in Frames
  <2>1. Last(r) = r[Len(r)] /\ Last(r) \in Frames
    BY <1>3, <1>4, FrontIs
  <2> QED
    BY <2>1, <1>3
<1> QED
  BY <1>2, <1>3, <1>5 DEF Caller

LEMMA ObReferenceObjectInv ==
  ASSUME Inv, NEW t \in Threads, ObReferenceObject(t), Intact'
  PROVE  Inv'
<1>1. /\ At(t, "Take") /\ refs' = [refs EXCEPT ![Top(t).obj] = @ + 1]
      /\ revived' = IF refs[Top(t).obj] = 0 THEN revived \cup {Top(t).obj} ELSE revived
      /\ UNCHANGED <<headerVars, handles, spaceVars, tableVars, creator, opened, damaged>>
  BY DEF ObReferenceObject
<1>2. PICK f \in Frames :
         /\ f = Top(t) /\ f.at = "Take" /\ stack[t] # << >> /\ FrameOK(t, Len(stack[t]), f)
         /\ LookupOK(t, Len(stack[t]), f)
         /\ f.obj \in Objects /\ status[f.obj] = "Live" /\ Len(stack[t]) \in Nat \ {0}
  <2>1. "Take" \in LookupSteps
    BY DEF LookupSteps
  <2> QED
    BY <1>1, <2>1, AtIs
<1>3. f.handle = NoHandle /\ f.target = NoObject /\ Plain(f)
  BY <1>2 DEF FrameOK, Plain
<1>4. \A x \in Objects : Weight(f, x) = 0 /\ Calls(stack, x) \in Nat
  BY <1>2, <1>3, WeightsAre, Refs DEF OnSteps
<1>5. refs[f.obj] # 0 /\ revived' = revived
  BY <1>1, <1>2 DEF Intact
<1>6. UNCHANGED <<headerVars, handles, spaceVars, tableVars, historyVars, creator, opened>>
  BY <1>1, <1>5 DEF historyVars
<1>7. /\ status' = status /\ creator' = creator /\ opened' = opened
      /\ name' = name /\ parent' = parent /\ type' = type /\ linkTarget' = linkTarget /\ linkPath' = linkPath
  BY <1>1 DEF headerVars
<1>8. f.use # "LinkDirectory" => Len(stack[t]) = 1
  BY <1>2 DEF LookupOK
<1>9. CASE f.use = "Reference"
  <2>1. Return(t) /\ owned' = [owned EXCEPT ![t][f.obj] = @ + 1]
    BY <1>2, <1>9 DEF ObReferenceObject
  <2>2. /\ Keeps(t, 0) /\ SameHandleSteps /\ SameDeletions
        /\ \A x \in Objects : Calls(stack', x) = Calls(stack, x) - 0
        /\ \A k \in 0 + 1 .. Len(stack'[t]) : AllOK(t, k)'
    <3>1. /\ Keeps(t, Len(stack[t]) - 1) /\ SameHandleSteps /\ SameDeletions
          /\ \A x \in Objects : Calls(stack', x) = Calls(stack, x) - Weight(Top(t), x)
          /\ \A k \in Len(stack[t]) - 1 + 1 .. Len(stack'[t]) : AllOK(t, k)'
      BY <1>2, <1>3, <2>1, PlainReturn
    <3>2. Len(stack[t]) = 1
      BY <1>8, <1>9
    <3> QED
      BY <3>1, <3>2, <1>2, <1>4
  <2>3. owned[t][f.obj] < MaxOwned
    BY <1>2, <1>9 DEF LookupOK, CanOwnMore
  <2>4. \A x \in Objects : /\ IsFiniteSet(Owners(x)')
                           /\ Cardinality(Owners(x)') = Cardinality(Owners(x)) + Bit(x = f.obj)
    BY <1>2, <2>1, <2>3, OwnersMore DEF Inv
  <2>5. /\ owned' \in [Threads -> [Objects -> 0 .. MaxOwned]]
        /\ \A u \in Threads : u # t => owned'[u] = owned[u]
    <3>1. owned[t][f.obj] + 1 \in 0 .. MaxOwned
      <4>1. owned[t][f.obj] \in 0 .. MaxOwned /\ MaxOwned \in Nat
        BY <1>2, ObjectManagerAssumption DEF Inv, TypeInv
      <4> QED
        BY <2>3, <4>1
    <3> QED
      BY <2>1, <3>1 DEF Inv, TypeInv
  <2>6. \A u \in Threads : u # t => OwnSteady(u)
    BY <1>7, <2>5 DEF OwnSteady, Inv, TypeInv
  <2>7. \A x \in Objects : /\ refs'[x] = refs[x] + Bit(x = f.obj) /\ refs[x] \in Nat
                           /\ refs[x] = 0 => refs'[x] = 0
    BY <1>1, <1>2, <1>5, Refs, CountTypes DEF Bit
  <2>8. ASSUME NEW x \in Objects
        PROVE  refs'[x] = refs[x] + (Bit(creator'[x] # NoThread) - Bit(creator[x] # NoThread))
                           + (Cardinality(Owners(x)') - Cardinality(Owners(x)))
                           + (Calls(stack', x) - Calls(stack, x))
    <3>1. /\ Bit(x = f.obj) \in Nat /\ Calls(stack, x) \in Nat /\ Cardinality(Owners(x)) \in Nat
          /\ Bit(creator'[x] # NoThread) - Bit(creator[x] # NoThread) = 0
      BY <1>4, <1>7, Uncounted DEF Bit
    <3> QED
      BY <3>1, <2>2, <2>4, <2>7
  <2>9. /\ refs' \in [Objects -> Int] /\ creator' \in [Objects -> Threads \cup {NoThread}]
        /\ \A x \in Objects : creator'[x] = creator[x]
    BY <1>1, <1>2, <1>7 DEF Inv, TypeInv
  <2> QED
    BY <1>6, <2>2, <2>4, <2>5, <2>6, <2>7, <2>8, <2>9, CountedInv
<1>10. ASSUME f.use # "Reference" PROVE UNCHANGED userVars
  BY <1>1, <1>2, <1>10 DEF ObReferenceObject, userVars
\* The call goes on with a frame g that counts for the object.
<1>11. PICK n : n = Len(stack[t])
  OBVIOUS
<1>12. ASSUME NEW g \in Frames, Goto(t, g), f.use # "Reference", Plain(g),
              \A x \in Objects : Weight(g, x) = Bit(f.obj = x),
              FrameOK(t, n, g)', g.at \notin LookupSteps
       PROVE  Inv'
  <2>1. /\ Keeps(t, Len(stack[t]) - 1) /\ SameHandleSteps /\ SameDeletions
        /\ \A x \in Objects : Calls(stack', x) = Calls(stack, x) - Weight(Top(t), x) + Weight(g, x)
        /\ \A k \in Len(stack[t]) - 1 + 1 .. Len(stack'[t]) : k = Len(stack[t]) /\ stack'[t][k] = g
    BY <1>2, <1>3, <1>12, GotoIs
  <2>2. \A x \in Objects : Calls(stack', x) = Calls(stack, x) + Bit(f.obj = x)
    <3>1. \A x \in Objects : Bit(f.obj = x) \in Nat
      BY DEF Bit
    <3> QED
      BY <3>1, <1>2, <1>4, <1>12, <2>1
  <2>3. \A k \in Len(stack[t]) - 1 + 1 .. Len(stack'[t]) : AllOK(t, k)'
    BY <1>11, <1>12, <2>1 DEF AllOK
  <2> QED
    BY <1>1, <1>2, <1>5, <1>6, <1>10, <1>12, <2>1, <2>2, <2>3, ReferencedInv
<1>13. CASE f.use = "Open"
  <2>1. PICK g : g = Frame("CreateHandle", f.obj)
    OBVIOUS
  <2>2. g \in Frames /\ g.at = "CreateHandle" /\ g.obj = f.obj /\ g.handle = NoHandle /\ g.target = NoObject
    BY <1>2, <2>1, FrameIs DEF Steps
  <2>3. Plain(g) /\ \A x \in Objects : Weight(g, x) = Bit(f.obj = x)
    BY <2>2, WeightsAre DEF Plain, OnSteps
  <2>4. FrameOK(t, n, g)' /\ g.at \notin LookupSteps
    <3>1. f.obj # NoObject
      BY <1>2, ObjectManagerAssumption DEF Directories
    <3> QED
      BY <1>2, <1>7, <2>2, <3>1, SimpleOK
  <2>5. Goto(t, g)
    BY <1>2, <1>13, <2>1 DEF ObReferenceObject
  <2> QED
    BY <1>12, <1>13, <2>2, <2>3, <2>4, <2>5
<1>14. CASE f.use = "DeleteByName"
  <2>1. PICK g : g = Frame("Decide", f.obj)
    OBVIOUS
  <2>2. g \in Frames /\ g.at = "Decide" /\ g.obj = f.obj /\ g.handle = NoHandle /\ g.target = NoObject
    BY <1>2, <2>1, FrameIs DEF Steps
  <2>3. Plain(g) /\ \A x \in Objects : Weight(g, x) = Bit(f.obj = x)
    BY <2>2, WeightsAre DEF Plain, OnSteps
  <2>4. /\ n = 1 /\ creator'[f.obj] = t /\ parent'[f.obj] # NoObject /\ status'[f.obj] # "None"
        /\ f.obj # NoObject
    <3>1. creator[f.obj] = t
      BY <1>2, <1>14, NamedIsOwn
    <3>2. parent[f.obj] # NoObject
      BY <1>2, <1>14 DEF LookupOK
    <3>3. f.obj # NoObject
      BY <1>2 DEF LookupOK
    <3> QED
      BY <1>2, <1>7, <1>8, <1>11, <1>14, <3>1, <3>2, <3>3
  <2>5. FrameOK(t, n, g)' /\ g.at \notin LookupSteps
    BY <2>2, <2>4 DEF FrameOK, LookupSteps, OwnSteps
  <2>6. Goto(t, g)
    BY <1>2, <1>14, <2>1 DEF ObReferenceObject
  <2> QED
    BY <1>12, <1>14, <2>2, <2>3, <2>5, <2>6
<1>15. CASE f.use = "Link"
  <2>1. PICK b : b = NoFrame
    OBVIOUS
  <2>2. /\ b \in Frames /\ b.obj = NoObject /\ b.handle = NoHandle
    BY <2>1, EmptySeq DEF Frames, NoFrame, Steps, Uses
  <2>3. PICK g : g = [b EXCEPT !.at = "MakeLink", !.target = f.obj, !.arg = f.arg]
    OBVIOUS
  <2>4. /\ g \in Frames /\ g.at = "MakeLink" /\ g.obj = NoObject /\ g.handle = NoHandle
        /\ g.target = f.obj /\ g.arg = f.arg
    <3>1. f.arg \in Seq(Names) /\ "MakeLink" \in Steps /\ f.obj \in Objects \cup {NoObject}
      BY <1>2, FrameType DEF Steps
    <3> QED
      BY <2>2, <2>3, <3>1 DEF Frames
  <2>5. Plain(g) /\ \A x \in Objects : Weight(g, x) = Bit(f.obj = x)
    BY <2>4, WeightsAre DEF Plain
  <2>6. f.arg # << >> /\ n = 1 /\ status'[f.obj] # "None"
    BY <1>2, <1>7, <1>8, <1>11, <1>15 DEF LookupOK
  <2>7. FrameOK(t, n, g)' /\ g.at \notin LookupSteps
    BY <2>4, <2>6 DEF FrameOK, LookupSteps, OwnSteps
  <2>8. Goto(t, g)
    BY <1>2, <1>15, <2>1, <2>3 DEF ObReferenceObject
  <2> QED
    BY <1>12, <1>15, <2>4, <2>5, <2>7, <2>8
<1>16. CASE f.use = "LinkDirectory"
  <2>1. Len(stack[t]) = 2 /\ stack[t][1].at = "FinishLink" /\ stack[t][1].dir = NoObject
    BY <1>2, <1>16 DEF LookupOK
  <2>2. PICK c : c = Caller(t)
    OBVIOUS
  <2>3. PICK g : g = [c EXCEPT !.dir = f.obj]
    OBVIOUS
  <2>4. stack' = Push(Pop(Pop(stack, t), t), t, [Caller(t) EXCEPT !.dir = f.obj])
    BY <1>2, <1>16 DEF ObReferenceObject
  <2>5. StackType /\ stack \in Stacks
    BY Refs DEF StackType
  <2>6. c = stack[t][1] /\ c \in Frames
    <3>1. stack[t] \in Seq(Frames)
      BY <2>5 DEF Stacks
    <3>2. Caller(t) = stack[t][1] /\ stack[t][1] \in Frames
      BY <2>1, <2>5, CallerIs
    <3> QED
      BY <2>2, <3>2
  <2>7. /\ g \in Frames /\ g.at = "FinishLink" /\ g.obj = c.obj /\ g.handle = c.handle
        /\ g.target = c.target /\ g.arg = c.arg /\ g.dir = f.obj /\ c.dir = NoObject /\ c.at = "FinishLink"
    BY <1>2, <2>1, <2>3, <2>6 DEF Frames, Directories
  <2>8. FrameOK(t, 1, c)
    <3>1. 1 \in DOMAIN stack[t]
      <4>1. stack[t] \in Seq(Frames)
        BY <2>5 DEF Stacks
      <4> QED
        BY <2>1, <4>1, LenProperties
    <3> QED
      BY <2>6, <3>1 DEF Inv, FrameInv
  <2>9. FrameOK(t, 1, g) /\ c.handle = NoHandle
    BY <2>7, <2>8 DEF FrameOK
  <2>10. /\ Keeps(t, 0) /\ Len(stack'[t]) = 1 /\ stack'[t][1] = g
         /\ \A F : Count(stack', F) =
                      Count(stack, F) - Bit(Top(t) \in F) - Bit(c \in F) + Bit(g \in F)
    BY <2>1, <2>2, <2>3, <2>4, <2>5, <2>7, ReturnGotoStack DEF StackType
  <2>11. SameHandleSteps /\ SameDeletions
    <3>1. Plain(c) /\ Plain(g)
      BY <2>7, <2>9 DEF Plain
    <3> QED
      BY <1>2, <1>3, <2>5, <2>6, <2>7, <2>10, <3>1, PlainJoined
  <2>12. \A x \in Objects : Calls(stack', x) = Calls(stack, x) + Bit(f.obj = x)
    <3> SUFFICES ASSUME NEW x \in Objects PROVE Calls(stack', x) = Calls(stack, x) + Bit(f.obj = x)
      OBVIOUS
    <3>1. Calls(stack', x) = Calls(stack, x) - Weight(Top(t), x) - Weight(c, x) + Weight(g, x)
      BY <2>5, <2>10, JoinedCalls
    <3>2. Weight(c, x) = Bit(c.target = x) + Bit(c.dir = x) /\ Weight(g, x) = Bit(c.target = x) + Bit(f.obj = x)
      BY <2>6, <2>7, WeightsAre
    <3>3. Bit(c.dir = x) = 0 /\ Bit(c.target = x) \in Nat /\ Bit(f.obj = x) \in Nat
      BY <2>7, ObjectManagerAssumption DEF Bit, Directories
    <3> QED
      BY <3>1, <3>2, <3>3, <1>2, <1>4
  <2>13. FrameOK(t, 1, g)'
    <3>1. Steady
      <4>1. list' = list
        BY <1>1 DEF spaceVars
      <4>2. \A x \in Objects : refs[x] = 0 => refs'[x] = 0
        BY <1>1, <1>2, <1>5, CountTypes
      <4> QED
        BY <1>7, <4>1, <4>2 DEF Steady, InNoList
    <3>2. OwnSteady(t)
      <4>1. owned' = owned
        BY <1>10, <1>16 DEF userVars
      <4>2. \A o \in Objects : owned[t][o] \in 0 .. MaxOwned
        BY DEF Inv, TypeInv
      <4> QED
        BY <1>7, <4>1, <4>2 DEF OwnSteady
    <3> QED
      BY <2>7, <2>9, <3>1, <3>2, FrameKept
  <2>14. \A k \in 0 + 1 .. Len(stack'[t]) : AllOK(t, k)'
    <3>1. g.at \notin LookupSteps /\ \A k \in 0 + 1 .. Len(stack'[t]) : k = 1
      BY <2>7, <2>10 DEF LookupSteps
    <3> QED
      BY <2>10, <2>13, <3>1 DEF AllOK
  <2> QED
    BY <1>1, <1>2, <1>5, <1>6, <1>10, <1>16, <2>10, <2>11, <2>12, <2>14, ReferencedInv
<1>17. f.use \in {"Reference", "Open", "DeleteByName", "Link", "LinkDirectory"}
  BY <1>2, FrameType DEF LookupOK, Uses
<1> QED
  BY <1>9, <1>13, <1>14, <1>15, <1>16, <1>17

-----------------------------------------------------------------------------
(* Calls and lookups, which change no object. *)

LEMMA EnterInv ==
  ASSUME Inv, UNCHANGED Others, NEW t \in Threads, stack[t] = << >>, NEW g \in Frames, Enter(t, g),
         Plain(g), \A o \in Objects : Weight(g, o) = 0,
         FrameOK(t, 1, g), g.at \in LookupSteps => LookupOK(t, 1, g)
  PROVE  Inv'
<1>1. /\ Keeps(t, 0) /\ SameHandleSteps /\ SameDeletions
      /\ \A x \in Objects : Calls(stack', x) = Calls(stack, x) + Weight(g, x)
      /\ \A k \in 0 + 1 .. Len(stack'[t]) : k = 1 /\ stack'[t][k] = g
  BY EnterIs
<1>2. \A o \in Objects : Calls(stack', o) = Calls(stack, o)
  BY <1>1, Refs
<1>3. /\ creator' = creator /\ owned' = owned /\ list' = list /\ table' = table
      /\ opened' = opened /\ refs' = refs /\ status' = status /\ name' = name /\ parent' = parent
      /\ type' = type /\ linkTarget' = linkTarget
  BY DEF Others, countVars, userVars, spaceVars, tableVars, headerVars
<1>4. Steady /\ OwnSteady(t)
  BY <1>3 DEF Steady, InNoList, OwnSteady, Inv, TypeInv
<1>5. TypeInv'
  BY <1>1 DEF Keeps, Inv, TypeInv, Stacks, Others, headerVars, countVars, spaceVars, tableVars,
              userVars, historyVars
<1>6. FrameOK(t, 1, g)'
  BY <1>4, FrameKept DEF Plain
<1>7. g.at \in LookupSteps => LookupOK(t, 1, g)'
  BY <1>4, <1>5, LookupKept DEF Inv
<1>8. \A k \in 0 + 1 .. Len(stack'[t]) : AllOK(t, k)'
  BY <1>1, <1>6, <1>7 DEF AllOK
<1> QED
  BY <1>1, <1>2, <1>8, StackOnly DEF Others

\* The frame of a lookup.
LEMMA LookupIs ==
  ASSUME NEW path \in Seq(Names), NEW use \in Uses
  PROVE  /\ Lookup(path, use) \in Frames
         /\ Lookup(path, use).at = "Find" /\ Lookup(path, use).obj = NoObject
         /\ Lookup(path, use).use = use /\ Lookup(path, use).path = path /\ Lookup(path, use).arg = path
         /\ Lookup(path, use).target = NoObject /\ Lookup(path, use).handle = NoHandle
<1>1. PICK b : b = NoFrame
  OBVIOUS
<1>2. b \in Frames /\ b.obj = NoObject /\ b.handle = NoHandle /\ b.target = NoObject
  BY <1>1, EmptySeq DEF Frames, NoFrame, Steps, Uses
<1>3. "Find" \in Steps /\ Root \in Directories \cup {NoObject}
  BY DEF Steps, Directories
<1>4. PICK g : g = Lookup(path, use)
  OBVIOUS
<1>5. g = [b EXCEPT !.at = "Find", !.use = use, !.dir = Root, !.path = path, !.arg = path]
  BY <1>1, <1>4 DEF Lookup
<1>6. g \in Frames /\ g.at = "Find" /\ g.obj = NoObject /\ g.use = use /\ g.path = path /\ g.arg = path
      /\ g.target = NoObject /\ g.handle = NoHandle
  BY <1>2, <1>3, <1>5 DEF Frames
<1> QED
  BY <1>4, <1>6

LEMMA CallByNameInv ==
  ASSUME Inv, NEW t \in Threads, NEW path \in Paths, NEW use \in Uses \ {"None", "LinkDirectory"},
         CallByName(t, path, use)
  PROVE  Inv'
<1>1. /\ stack[t] = << >> /\ Enter(t, Lookup(path, use)) /\ UNCHANGED Others
      /\ use = "Reference" => CanOwnMore(t)
      /\ use = "DeleteByName" => \E o \in Objects : creator[o] = t /\ name[o] = Last(path)
  BY DEF CallByName, Idle, Others
<1>2. path \in Seq(Names) /\ path # << >>
  BY ObjectManagerAssumption
<1>3. PICK g : g = Lookup(path, use)
  OBVIOUS
<1>4. /\ g \in Frames /\ g.at = "Find" /\ g.obj = NoObject /\ g.use = use /\ g.path = path /\ g.arg = path
      /\ g.target = NoObject /\ g.handle = NoHandle
  BY <1>2, <1>3, LookupIs
<1>5. Plain(g) /\ \A o \in Objects : Weight(g, o) = 0
  BY <1>4, WeightsAre DEF Plain, OnSteps
<1>6. FrameOK(t, 1, g)
  BY <1>2, <1>4 DEF FrameOK, OwnSteps
<1>7. LookupOK(t, 1, g)
  BY <1>1, <1>2, <1>4 DEF LookupOK
<1> QED
  BY <1>1, <1>3, <1>4, <1>5, <1>6, <1>7, EnterInv

\* A call on an object whose address the thread has.
LEMMA EnterTakeInv ==
  ASSUME Inv, UNCHANGED Others, NEW t \in Threads, stack[t] = << >>,
         NEW o \in Objects, status[o] # "None", NEW use \in {"Reference", "Open"},
         use = "Reference" => CanOwnMore(t),
         Enter(t, [Frame("Take", o) EXCEPT !.use = use])
  PROVE  Inv'
<1>1. PICK b : b = Frame("Take", o)
  OBVIOUS
<1>2. /\ b \in Frames /\ b.at = "Take" /\ b.obj = o /\ b.target = NoObject /\ b.handle = NoHandle
  BY <1>1, FrameIs DEF Steps
<1>3. PICK g : g = [b EXCEPT !.use = use]
  OBVIOUS
<1>4. /\ g \in Frames /\ g.at = "Take" /\ g.obj = o /\ g.use = use /\ g.target = NoObject /\ g.handle = NoHandle
  BY <1>2, <1>3 DEF Frames, Uses
<1>5. Plain(g) /\ \A x \in Objects : Weight(g, x) = 0
  BY <1>4, WeightsAre DEF Plain, OnSteps
<1>6. o # NoObject
  BY ObjectManagerAssumption DEF Directories
<1>7. FrameOK(t, 1, g)
  BY <1>4 DEF FrameOK, OwnSteps
<1>8. LookupOK(t, 1, g)
  BY <1>4, <1>6 DEF LookupOK
<1> QED
  BY <1>1, <1>3, <1>4, <1>5, <1>7, <1>8, EnterInv

LEMMA CallByPointerInv ==
  ASSUME Inv, NEW t \in Threads, NEW o \in Objects, NEW use \in {"Reference", "Open"},
         CallByPointer(t, o, use)
  PROVE  Inv'
<1>1. /\ stack[t] = << >> /\ Enter(t, [Frame("Take", o) EXCEPT !.use = use]) /\ UNCHANGED Others
      /\ use = "Reference" => CanOwnMore(t)
      /\ creator[o] = t \/ owned[t][o] > 0
  BY ObjectManagerAssumption DEF CallByPointer, Idle, Others, HasReference
<1>2. status[o] = "Live"
  BY <1>1, KeptAlive, ObjectManagerAssumption
<1> QED
  BY <1>1, <1>2, EnterTakeInv

LEMMA ObReferenceObjectByHandleInv ==
  ASSUME Inv, NEW t \in Threads, NEW h \in Handles, ObReferenceObjectByHandle(t, h)
  PROVE  Inv'
<1>1. /\ stack[t] = << >> /\ Enter(t, [Frame("Take", table[h]) EXCEPT !.use = "Reference"]) /\ UNCHANGED Others
      /\ CanOwnMore(t) /\ h \in opened
  BY DEF ObReferenceObjectByHandle, Idle, Others
<1>2. table[h] # NoObject /\ status[table[h]] # "None"
  BY <1>1 DEF Inv, HandleInv
<1>3. table[h] \in Objects
  BY <1>2 DEF Inv, TypeInv
<1> QED
  BY <1>1, <1>2, <1>3, EnterTakeInv

\* A lookup that found nothing.
LEMMA FailInv ==
  ASSUME Inv, UNCHANGED Others, NEW t \in Threads, stack[t] # << >>, Fail(t),
         NEW f \in Frames, f = Top(t), f.at \in {"Find", "Parse"},
         FrameOK(t, Len(stack[t]), f), LookupOK(t, Len(stack[t]), f)
  PROVE  Inv'
<1>1. f.handle = NoHandle /\ f.target = NoObject
  BY DEF FrameOK
<1>2. Plain(f) /\ \A o \in Objects : Weight(f, o) = 0 /\ Calls(stack, o) \in Nat
  BY <1>1, WeightsAre, Refs DEF Plain, OnSteps
<1>3. CASE f.use # "LinkDirectory"
  <2>1. Return(t)
    BY <1>3 DEF Fail
  <2> QED
    BY <1>2, <2>1, ReturnInv
<1>4. CASE f.use = "LinkDirectory"
  <2>1. Len(stack[t]) = 2 /\ stack[t][1].at = "FinishLink" /\ stack[t][1].dir = NoObject
    BY <1>4 DEF LookupOK
  <2>2. PICK c : c = Caller(t)
    OBVIOUS
  <2>3. StackType /\ stack \in Stacks
    BY Refs DEF StackType
  <2>4. c = stack[t][1] /\ c \in Frames /\ c.at = "FinishLink" /\ c.dir = NoObject
    BY <2>1, <2>2, <2>3, CallerIs
  <2>5. FrameOK(t, 1, c)
    <3>1. 1 \in DOMAIN stack[t]
      <4>1. stack[t] \in Seq(Frames)
        BY <2>3 DEF Stacks
      <4> QED
        BY <2>1, <4>1, LenProperties
    <3> QED
      BY <2>4, <3>1 DEF Inv, FrameInv
  <2>6. /\ c.handle = NoHandle /\ c.target \in Objects \cup {NoObject}
        /\ c.target # NoObject => status[c.target] # "None"
    BY <2>4, <2>5, FrameType DEF FrameOK
  <2>7. PICK g : g = Frame("Decrement", c.target)
    OBVIOUS
  <2>8. g \in Frames /\ g.at = "Decrement" /\ g.obj = c.target /\ g.handle = NoHandle /\ g.target = NoObject
    BY <2>6, <2>7, FrameIs DEF Steps
  <2>9. stack' = Push(Pop(Pop(stack, t), t), t, g)
    BY <1>4, <2>2, <2>7 DEF Fail
  <2>10. /\ Keeps(t, 0) /\ Len(stack'[t]) = 1 /\ stack'[t][1] = g
         /\ \A F : Count(stack', F) =
                      Count(stack, F) - Bit(Top(t) \in F) - Bit(c \in F) + Bit(g \in F)
    BY <2>1, <2>2, <2>3, <2>8, <2>9, ReturnGotoStack DEF StackType
  <2>11. SameHandleSteps /\ SameDeletions
    <3>1. Plain(c) /\ Plain(g)
      BY <2>4, <2>6, <2>8 DEF Plain
    <3> QED
      BY <1>2, <2>3, <2>4, <2>8, <2>10, <3>1, PlainJoined
  <2>12. ASSUME NEW x \in Objects PROVE Calls(stack', x) = Calls(stack, x)
    <3>1. Calls(stack', x) = Calls(stack, x) - Weight(Top(t), x) - Weight(c, x) + Weight(g, x)
      BY <2>3, <2>10, JoinedCalls
    <3>2. Weight(c, x) = Bit(c.target = x) + Bit(c.dir = x) /\ Weight(g, x) = Bit(c.target = x)
      BY <2>4, <2>8, WeightsAre DEF OnSteps
    <3>3. Bit(c.dir = x) = 0 /\ Bit(c.target = x) \in Nat
      BY <2>4, ObjectManagerAssumption DEF Bit, Directories
    <3> QED
      BY <3>1, <3>2, <3>3, <1>2
  <2>13. \A k \in 0 + 1 .. Len(stack'[t]) : AllOK(t, k)'
    <3>1. status' = status /\ \A k \in 0 + 1 .. Len(stack'[t]) : k = 1
      BY <2>10 DEF Others, headerVars
    <3>2. FrameOK(t, 1, g)' /\ g.at \notin LookupSteps
      BY <2>6, <2>8, <3>1, SimpleOK
    <3> QED
      BY <2>10, <3>1, <3>2 DEF AllOK
  <2> QED
    BY <2>10, <2>11, <2>12, <2>13, StackOnly DEF Others
<1> QED
  BY <1>3, <1>4

LEMMA TailIs ==
  ASSUME NEW S, NEW s \in Seq(S), s # << >>
  PROVE  /\ Head(s) \in S /\ Tail(s) \in Seq(S)
         /\ Tail(s) # << >> => Last(Tail(s)) = Last(s)
         /\ Tail(s) = << >> => Head(s) = Last(s)
<1>1. /\ Len(s) \in Nat \ {0} /\ Last(s) = s[Len(s)]
  BY FrontIs
<1>2. PICK r : r = Tail(s)
  OBVIOUS
<1>3. /\ Head(s) \in S /\ r \in Seq(S) /\ Len(r) = Len(s) - 1 /\ Head(s) = s[1]
      /\ \A i \in 1 .. Len(s) - 1 : r[i] = s[i + 1]
  <2>1. Head(s) = s[1] /\ s[1] \in S
    BY <1>1, ElementOfSeq, HeadTailProperties
  <2>2. r \in Seq(S) /\ Len(r) = Len(s) - 1 /\ \A i \in 1 .. Len(r) : r[i] = s[i + 1]
    BY <1>2, HeadTailProperties
  <2> QED
    BY <2>1, <2>2
<1>4. ASSUME r # << >> PROVE Last(r) = Last(s)
  <2>1. Last(r) = r[Len(r)] /\ Len(r) \in Nat \ {0}
    BY <1>3, <1>4, FrontIs
  <2>2. Len(s) - 1 \in 1 .. Len(s) - 1 /\ Len(s) - 1 + 1 = Len(s)
    BY <2>1, <1>1, <1>3
  <2> QED
    BY <2>1, <2>2, <1>1, <1>3
<1>5. ASSUME r = << >> PROVE Head(s) = Last(s)
  <2>1. Len(r) = 0
    BY <1>3, <1>5, EmptySeq
  <2>2. Len(s) = 1
    BY <2>1, <1>1, <1>3
  <2> QED
    BY <2>2, <1>1, <1>3
<1> QED
  BY <1>2, <1>3, <1>4, <1>5

LEMMA ObpFindObjectInDirectoryInv ==
  ASSUME Inv, NEW t \in Threads, ObpFindObjectInDirectory(t)
  PROVE  Inv'
<1>1. At(t, "Find") /\ UNCHANGED Others
  BY DEF ObpFindObjectInDirectory, Others
<1>2. PICK f \in Frames :
         /\ f = Top(t) /\ f.at = "Find" /\ stack[t] # << >> /\ FrameOK(t, Len(stack[t]), f)
         /\ LookupOK(t, Len(stack[t]), f) /\ f.dir \in Directories
  <2>1. "Find" \in LookupSteps
    BY DEF LookupSteps
  <2> QED
    BY <1>1, <2>1, AtIs
<1>3. CASE Fail(t)
  BY <1>1, <1>2, <1>3, FailInv
<1>4. CASE \E i \in DOMAIN list[f.dir] :
             /\ name[list[f.dir][i]] = Head(f.path)
             /\ Goto(t, [f EXCEPT !.at = "Parse", !.obj = list[f.dir][i], !.path = Tail(@)])
  <2>1. PICK i \in DOMAIN list[f.dir] :
             /\ name[list[f.dir][i]] = Head(f.path)
             /\ Goto(t, [f EXCEPT !.at = "Parse", !.obj = list[f.dir][i], !.path = Tail(@)])
    BY <1>4
  <2>2. PICK o : o = list[f.dir][i]
    OBVIOUS
  <2>3. /\ o \in Objects /\ status[o] = "Live" /\ parent[o] = f.dir /\ o # NoObject /\ f.dir # NoObject
        /\ name[o] = Head(f.path)
    <3>1. list[f.dir] \in Seq(Objects)
      BY <1>2 DEF Inv, TypeInv
    <3>2. list[f.dir][i] \in Objects
      BY <2>1, <3>1, LenProperties, ElementOfSeq
    <3>3. status[o] = "Live" /\ parent[o] = f.dir
      BY <1>2, <2>1, <2>2 DEF Inv, ListInv
    <3> QED
      BY <1>2, <2>1, <2>2, <3>2, <3>3, ObjectManagerAssumption DEF Directories
  <2>4. /\ f.path \in Seq(Names) /\ f.path # << >> /\ Tail(f.path) \in Seq(Names)
        /\ Tail(f.path) # << >> => Last(Tail(f.path)) = Last(f.path)
        /\ Tail(f.path) = << >> => Head(f.path) = Last(f.path)
    <3>1. f.path \in Seq(Names) /\ f.path # << >>
      BY <1>2, FrameType DEF LookupOK
    <3> QED
      BY <3>1, TailIs
  <2>5. PICK p \in Seq(Names) : p = Tail(f.path)
    BY <2>4
  <2>6. PICK g : g = [f EXCEPT !.at = "Parse", !.obj = o, !.path = p]
    OBVIOUS
  <2>7. /\ g \in Frames /\ g.at = "Parse" /\ g.obj = o /\ g.path = p
        /\ g.use = f.use /\ g.arg = f.arg /\ g.target = f.target /\ g.handle = f.handle
    <3>1. "Parse" \in Steps /\ o \in Objects \cup {NoObject} /\ f.dir \in Directories \cup {NoObject}
      BY <1>2, <2>3 DEF Steps
    <3> QED
      BY <2>6, <3>1 DEF Frames
  <2>8. Goto(t, g)
    <3>1. [f EXCEPT !.at = "Parse", !.obj = list[f.dir][i], !.path = Tail(@)] = g
      BY <1>2, <2>2, <2>5, <2>6 DEF Frames
    <3> QED
      BY <2>1, <3>1
  <2>9. f.handle = NoHandle /\ f.target = NoObject /\ f.arg # << >>
    BY <1>2 DEF FrameOK
  <2>10. /\ Plain(g) /\ Plain(f)
         /\ \A x \in Objects : Weight(g, x) = Weight(f, x)
    BY <1>2, <2>7, <2>9, WeightsAre DEF Plain, OnSteps
  <2>11. PICK n : n = Len(stack[t])
    OBVIOUS
  <2>12. FrameOK(t, n, g)
    BY <2>3, <2>7, <2>9 DEF FrameOK, OwnSteps
  <2>13. LookupOK(t, n, g)
    <3>1. LookupOK(t, n, f)
      BY <1>2, <2>11
    <3>2. f.use = "DeleteByName" => Last(f.path) = Last(f.arg)
      BY <1>2, <2>4, <3>1 DEF LookupOK
    <3>3. /\ f.use = "DeleteByName" /\ p # << >> => Last(p) = Last(f.arg)
          /\ f.use = "DeleteByName" /\ p = << >> => name[o] = Last(f.arg)
      BY <2>3, <2>4, <2>5, <3>2
    <3> QED
      BY <2>3, <2>7, <3>1, <3>3 DEF LookupOK
  <2> QED
    BY <1>1, <1>2, <2>7, <2>8, <2>10, <2>11, <2>12, <2>13, GotoInv
<1> QED
  BY <1>2, <1>3, <1>4 DEF ObpFindObjectInDirectory

LEMMA ObpParseInv ==
  ASSUME Inv, NEW t \in Threads, ObpParse(t)
  PROVE  Inv'
<1>1. At(t, "Parse") /\ UNCHANGED Others
  BY DEF ObpParse, Others
<1>2. PICK f \in Frames :
         /\ f = Top(t) /\ f.at = "Parse" /\ stack[t] # << >> /\ FrameOK(t, Len(stack[t]), f)
         /\ LookupOK(t, Len(stack[t]), f) /\ f.obj \in Objects /\ status[f.obj] = "Live"
  <2>1. "Parse" \in LookupSteps
    BY DEF LookupSteps
  <2> QED
    BY <1>1, <2>1, AtIs
<1>3. f.handle = NoHandle /\ f.target = NoObject /\ f.arg # << >>
  BY <1>2 DEF FrameOK
<1>4. PICK n : n = Len(stack[t])
  OBVIOUS
<1>5. FrameOK(t, n, f) /\ LookupOK(t, n, f) /\ f.path \in Seq(Names)
  BY <1>2, <1>4, FrameType
<1>6. ASSUME NEW at \in {"Find", "Take"}, NEW o \in Objects \cup {NoObject}, o # NoObject => o = f.obj,
             NEW d \in Directories \cup {NoObject}, NEW path \in Seq(Names), NEW g,
             g = [f EXCEPT !.at = at, !.obj = o, !.dir = d, !.path = path],
             LookupOK(t, n, g), Goto(t, g)
      PROVE  Inv'
  <2>1. /\ g \in Frames /\ g.at = at /\ g.obj = o /\ g.arg = f.arg /\ g.target = NoObject /\ g.handle = NoHandle
    <3>1. at \in Steps
      BY DEF Steps
    <3> QED
      BY <1>3, <1>6, <3>1 DEF Frames
  <2>2. /\ Plain(g) /\ Plain(f) /\ \A x \in Objects : Weight(g, x) = Weight(f, x)
    BY <1>2, <1>3, <2>1, WeightsAre DEF Plain, OnSteps
  <2>3. FrameOK(t, n, g)
    BY <1>2, <1>3, <1>6, <2>1 DEF FrameOK, OwnSteps
  <2> QED
    BY <1>1, <1>2, <1>4, <1>6, <2>1, <2>2, <2>3, GotoInv
<1>7. CASE type[f.obj] = "SymbolicLink" /\ f.use # "DeleteByName"
  <2>1. PICK p : p = linkPath[f.obj] \o f.path
    OBVIOUS
  <2>2. p \in Seq(Names) /\ p # << >>
    <3>1. linkPath[f.obj] \in Seq(Names)
      BY <1>2 DEF Inv, TypeInv
    <3>2. parent[f.obj] # NoObject
      BY <1>2 DEF LookupOK
    <3>3. linkPath[f.obj] # << >>
      BY <1>2, <1>7, <3>2 DEF Inv, ObjectInv
    <3>4. /\ p \in Seq(Names) /\ Len(p) = Len(linkPath[f.obj]) + Len(f.path)
          /\ Len(linkPath[f.obj]) \in Nat \ {0} /\ Len(f.path) \in Nat
      BY <2>1, <3>1, <3>3, <1>5, ConcatProperties, LenProperties, EmptySeq
    <3>5. Len(p) # 0
      <4>1. ASSUME NEW a \in Nat \ {0}, NEW b \in Nat PROVE a + b # 0
        OBVIOUS
      <4>2. Len(linkPath[f.obj]) + Len(f.path) # 0
        BY <3>4, <4>1
      <4> QED
        BY <3>4, <4>2
    <3> QED
      BY <3>4, <3>5, EmptySeq
  <2>3. PICK g : g = [f EXCEPT !.at = "Find", !.obj = NoObject, !.dir = Root, !.path = p]
    OBVIOUS
  <2>4. /\ g.at = "Find" /\ g.obj = NoObject /\ g.path = p /\ g.use = f.use /\ g.arg = f.arg
        /\ Root \in Directories \cup {NoObject}
    <3>1. "Find" \in Steps /\ Root \in Directories \cup {NoObject}
      BY DEF Steps, Directories
    <3> QED
      BY <2>2, <2>3, <3>1 DEF Frames
  <2>5. LookupOK(t, n, g)
    BY <1>5, <1>7, <2>2, <2>4 DEF LookupOK
  <2>6. Goto(t, g)
    BY <1>2, <1>7, <2>1, <2>3 DEF ObpParse
  <2> QED
    BY <1>6, <2>2, <2>3, <2>4, <2>5, <2>6
<1>8. CASE ~ (type[f.obj] = "SymbolicLink" /\ f.use # "DeleteByName") /\ f.path = << >>
  <2>1. PICK g : g = [f EXCEPT !.at = "Take", !.obj = f.obj, !.dir = NoObject, !.path = f.path]
    OBVIOUS
  <2>2. /\ g.at = "Take" /\ g.obj = f.obj /\ g.path = f.path /\ g.use = f.use /\ g.arg = f.arg
    <3>1. "Take" \in Steps
      BY DEF Steps
    <3> QED
      BY <1>2, <1>5, <2>1, <3>1 DEF Frames
  <2>3. LookupOK(t, n, g)
    BY <1>2, <1>3, <1>5, <1>8, <2>2 DEF LookupOK
  <2>4. Goto(t, g)
    <3>1. [f EXCEPT !.at = "Take", !.dir = NoObject] = g
      BY <1>2, <2>1 DEF Frames
    <3> QED
      BY <1>2, <1>8, <3>1 DEF ObpParse
  <2> QED
    BY <1>2, <1>5, <1>6, <2>1, <2>3, <2>4
<1>9. CASE /\ ~ (type[f.obj] = "SymbolicLink" /\ f.use # "DeleteByName") /\ f.path # << >>
           /\ type[f.obj] = "Directory"
  <2>1. PICK g : g = [f EXCEPT !.at = "Find", !.obj = NoObject, !.dir = f.obj, !.path = f.path]
    OBVIOUS
  <2>2. /\ g.at = "Find" /\ g.obj = NoObject /\ g.path = f.path /\ g.use = f.use /\ g.arg = f.arg
        /\ f.obj \in Directories \cup {NoObject}
    <3>1. "Find" \in Steps /\ f.obj \in Directories \cup {NoObject}
      BY <1>2 DEF Steps, Directories
    <3> QED
      BY <1>5, <2>1, <3>1 DEF Frames
  <2>3. LookupOK(t, n, g)
    BY <1>2, <1>3, <1>5, <1>9, <2>2 DEF LookupOK
  <2>4. Goto(t, g)
    <3>1. [f EXCEPT !.at = "Find", !.dir = f.obj, !.obj = NoObject] = g
      BY <1>2, <2>1 DEF Frames
    <3> QED
      BY <1>2, <1>9, <3>1 DEF ObpParse
  <2> QED
    BY <1>5, <1>6, <2>1, <2>2, <2>3, <2>4
<1>10. CASE Fail(t)
  BY <1>1, <1>2, <1>10, FailInv
<1> QED
  BY <1>2, <1>7, <1>8, <1>9, <1>10 DEF ObpParse

-----------------------------------------------------------------------------
(* Steps that change a directory or a header. *)

\* The sequence without one of its elements.
LEMMA Removed ==
    ASSUME NEW S, NEW s \in Seq(S), NEW i \in 1 .. Len(s)
    PROVE  /\ RemoveAt(s, i) \in Seq(S) /\ Len(RemoveAt(s, i)) = Len(s) - 1
           /\ \A j \in 1 .. Len(s) - 1 : RemoveAt(s, i)[j] = IF j < i THEN s[j] ELSE s[j + 1]
<1> DEFINE u == SubSeq(s, 1, i - 1)
           v == SubSeq(s, i + 1, Len(s))
<1>1. Len(s) \in Nat /\ \A j \in 1 .. Len(s) : s[j] \in S
    BY LenProperties, ElementOfSeq
<1>2. u \in Seq(S) /\ Len(u) = i - 1 /\ \A j \in 1 .. i - 1 : u[j] = s[j]
    <2>1. i - 1 \in Int /\ \A j \in 1 .. i - 1 : s[j] \in S
        BY <1>1
    <2>2. /\ u \in Seq(S) /\ Len(u) = (IF 1 <= i - 1 THEN i - 1 - 1 + 1 ELSE 0)
          /\ \A j \in 1 .. i - 1 - 1 + 1 : u[j] = s[1 + j - 1]
        BY <2>1, SubSeqProperties
    <2> HIDE DEF u
    <2> QED BY <2>2, <1>1
<1>3. v \in Seq(S) /\ Len(v) = Len(s) - i /\ \A j \in 1 .. Len(s) - i : v[j] = s[i + j]
    <2>1. i + 1 \in Int /\ Len(s) \in Int /\ \A j \in i + 1 .. Len(s) : s[j] \in S
        BY <1>1
    <2>2. /\ v \in Seq(S) /\ Len(v) = (IF i + 1 <= Len(s) THEN Len(s) - (i + 1) + 1 ELSE 0)
          /\ \A j \in 1 .. Len(s) - (i + 1) + 1 : v[j] = s[i + 1 + j - 1]
        BY <2>1, SubSeqProperties
    <2> HIDE DEF v
    <2> QED BY <2>2, <1>1
<1>4. RemoveAt(s, i) = u \o v
    BY DEF RemoveAt
<1> HIDE DEF u, v
<1>5. /\ u \o v \in Seq(S) /\ Len(u \o v) = Len(u) + Len(v)
      /\ \A j \in 1 .. Len(u) + Len(v) : (u \o v)[j] = IF j <= Len(u) THEN u[j] ELSE v[j - Len(u)]
    BY <1>2, <1>3, ConcatProperties
<1>6. ASSUME NEW j \in 1 .. Len(s) - 1
      PROVE  (u \o v)[j] = IF j < i THEN s[j] ELSE s[j + 1]
    <2>1. j \in 1 .. Len(u) + Len(v)
        BY <1>1, <1>2, <1>3
    <2>2. CASE j < i
        <3>1. j <= Len(u) /\ j \in 1 .. i - 1
            BY <1>1, <1>2, <2>2
        <3> QED BY <1>2, <1>5, <2>1, <2>2, <3>1
    <2>3. CASE ~ (j < i)
        <3>1. ~ (j <= Len(u)) /\ j - Len(u) \in 1 .. Len(s) - i /\ i + (j - Len(u)) = j + 1
            BY <1>1, <1>2, <2>3
        <3>2. (u \o v)[j] = v[j - Len(u)]
            BY <1>5, <2>1, <3>1
        <3> QED BY <1>3, <2>3, <3>1, <3>2
    <2> QED BY <2>2, <2>3
<1>7. Len(u) + Len(v) = Len(s) - 1
    BY <1>1, <1>2, <1>3
<1> QED BY <1>4, <1>5, <1>6, <1>7

\* A sequence of different elements loses one of them.
LEMMA RemovedEntry ==
  ASSUME NEW S, NEW s \in Seq(S), NEW o, \E i \in DOMAIN s : s[i] = o,
         \A i, j \in DOMAIN s : s[i] = s[j] => i = j
  PROVE  /\ RemoveEntryList(s, o) \in Seq(S)
         /\ \A i \in DOMAIN RemoveEntryList(s, o) :
               RemoveEntryList(s, o)[i] # o /\ \E j \in DOMAIN s : RemoveEntryList(s, o)[i] = s[j]
         /\ \A i, j \in DOMAIN RemoveEntryList(s, o) :
               RemoveEntryList(s, o)[i] = RemoveEntryList(s, o)[j] => i = j
<1>1. DOMAIN s = 1 .. Len(s) /\ Len(s) \in Nat
  BY LenProperties
<1>2. PICK p \in 1 .. Len(s) : p = Position(s, o) /\ s[p] = o
  BY <1>1 DEF Position
<1>3. PICK r : r = RemoveEntryList(s, o)
  OBVIOUS
<1>4. /\ r \in Seq(S) /\ Len(r) = Len(s) - 1
      /\ \A j \in 1 .. Len(s) - 1 : r[j] = IF j < p THEN s[j] ELSE s[j + 1]
  <2>1. r = RemoveAt(s, p)
    BY <1>2, <1>3 DEF RemoveEntryList
  <2> QED
    BY <2>1, Removed
<1>5. DOMAIN r = 1 .. Len(s) - 1
  BY <1>4, LenProperties
<1>6. ASSUME NEW i \in 1 .. Len(s) - 1
      PROVE  \E j \in 1 .. Len(s) : j # p /\ r[i] = s[j] /\ j = IF i < p THEN i ELSE i + 1
  <2>1. CASE i < p
    BY <2>1, <1>1, <1>4
  <2>2. CASE ~ (i < p)
    <3>1. i + 1 \in 1 .. Len(s) /\ i + 1 # p
      BY <2>2, <1>1
    <3> QED
      BY <3>1, <2>2, <1>4
  <2> QED
    BY <2>1, <2>2
<1>7. ASSUME NEW i \in DOMAIN r PROVE r[i] # o /\ \E j \in DOMAIN s : r[i] = s[j]
  <2>1. PICK j \in 1 .. Len(s) : j # p /\ r[i] = s[j]
    BY <1>5, <1>6
  <2> QED
    BY <2>1, <1>1, <1>2
<1>8. ASSUME NEW i \in DOMAIN r, NEW j \in DOMAIN r, r[i] = r[j] PROVE i = j
  <2>1. PICK a \in 1 .. Len(s) : r[i] = s[a] /\ a = IF i < p THEN i ELSE i + 1
    BY <1>5, <1>6
  <2>2. PICK b \in 1 .. Len(s) : r[j] = s[b] /\ b = IF j < p THEN j ELSE j + 1
    BY <1>5, <1>6
  <2>3. a = b
    BY <2>1, <2>2, <1>1, <1>8
  <2>4. i \in Int /\ j \in Int /\ p \in Int
    BY <1>5
  <2> QED
    BY <2>1, <2>2, <2>3, <2>4
<1> QED
  BY <1>3, <1>4, <1>7, <1>8

\* Nothing more to count.
LEMMA FiniteInvKept ==
  ASSUME FiniteInv, StackType', table' = table, status' = status, owned' = owned
  PROVE  FiniteInv'
<1>1. IsFiniteSet(Places(stack', Frames)) /\ Places(stack', Frames) = Places(stack, Frames)' /\ Frames' = Frames
  BY DEF StackType, Places, Frames
<1>2. \A o \in Objects : Owners(o)' = Owners(o)
  BY OwnersKept
<1> QED
  BY <1>1, <1>2 DEF FiniteInv

\* What the references will be.
LEMMA RefsAfter ==
  ASSUME TypeInv', FiniteInv', NEW o \in Objects
  PROVE  /\ References(o)' = Bit(creator'[o] # NoThread) + Cardinality(Owners(o)') + Cardinality(HandlesTo(o)')
                             + Cardinality(LinksTo(o)') + Calls(stack', o)
         /\ Cardinality(Owners(o)') \in Nat /\ Cardinality(HandlesTo(o)') \in Nat
         /\ Cardinality(LinksTo(o)') \in Nat /\ Calls(stack', o) \in Nat
<1>1. ReferencesType'
  BY ReferencesWillBe
<1>2. References(o)' = Held(o)' + Calls(stack', o) /\ Calls(stack', o) \in Nat
  BY <1>1 DEF ReferencesType, Calls, OnFrames, TargetFrames, DirFrames, Frames, Count, Places
<1>3. Held(o)' = Bit(creator'[o] # NoThread) + Cardinality(Owners(o)') + Cardinality(HandlesTo(o)')
                             + Cardinality(LinksTo(o)')
  BY DEF Held
<1>4. /\ Cardinality(Owners(o)') \in Nat /\ Cardinality(HandlesTo(o)') \in Nat
      /\ Cardinality(LinksTo(o)') \in Nat
  BY <1>1 DEF ReferencesType
<1> QED
  BY <1>2, <1>3, <1>4

LEMMA RefsBefore ==
  ASSUME Inv, NEW o \in Objects
  PROVE  /\ refs[o] = Bit(creator[o] # NoThread) + Cardinality(Owners(o)) + Cardinality(HandlesTo(o))
                      + Cardinality(LinksTo(o)) + Calls(stack, o)
         /\ refs[o] \in Nat
         /\ Cardinality(Owners(o)) \in Nat /\ Cardinality(HandlesTo(o)) \in Nat
         /\ Cardinality(LinksTo(o)) \in Nat /\ Calls(stack, o) \in Nat
         /\ status[o] # "Live" => refs[o] = 0
<1>1. ReferencesType /\ refs[o] = Held(o) + Calls(stack, o) /\ refs[o] \in Nat
      /\ (status[o] # "Live" => refs[o] = 0)
  BY Refs
<1>2. /\ Cardinality(Owners(o)) \in Nat /\ Cardinality(HandlesTo(o)) \in Nat
      /\ Cardinality(LinksTo(o)) \in Nat /\ Calls(stack, o) \in Nat
  BY <1>1 DEF ReferencesType
<1> QED
  BY <1>1, <1>2 DEF Held

LEMMA CountInvKept ==
  ASSUME Inv, TypeInv', FiniteInv', status' = status, refs' = refs, creator' = creator, owned' = owned,
         \A o \in Objects : /\ Cardinality(HandlesTo(o)') + Cardinality(LinksTo(o)') + Calls(stack', o)
                                  = Cardinality(HandlesTo(o)) + Cardinality(LinksTo(o)) + Calls(stack, o)
  PROVE  CountInv'
<1>1. ASSUME NEW o \in Objects
      PROVE  refs'[o] = References(o)' /\ (status'[o] # "Live" => refs'[o] = 0)
  <2>1. /\ refs[o] = Bit(creator[o] # NoThread) + Cardinality(Owners(o)) + Cardinality(HandlesTo(o))
                      + Cardinality(LinksTo(o)) + Calls(stack, o)
        /\ status[o] # "Live" => refs[o] = 0
        /\ Cardinality(Owners(o)) \in Nat /\ Cardinality(HandlesTo(o)) \in Nat
        /\ Cardinality(LinksTo(o)) \in Nat /\ Calls(stack, o) \in Nat
    BY RefsBefore
  <2>2. References(o)' = Bit(creator'[o] # NoThread) + Cardinality(Owners(o)') + Cardinality(HandlesTo(o)')
                             + Cardinality(LinksTo(o)') + Calls(stack', o)
        /\ Cardinality(HandlesTo(o)') \in Nat
        /\ Cardinality(LinksTo(o)') \in Nat /\ Calls(stack', o) \in Nat
    BY RefsAfter
  <2>3. Owners(o)' = Owners(o)
    BY OwnersKept
  <2>4. Bit(creator[o] # NoThread) \in Nat
    BY DEF Bit
  <2>5. ASSUME NEW i \in Nat, NEW a \in Nat, NEW b \in Nat, NEW c \in Nat, NEW d \in Nat,
               NEW bp \in Nat, NEW cp \in Nat, NEW dp \in Nat, bp + cp + dp = b + c + d
        PROVE  i + a + b + c + d = i + a + bp + cp + dp
    BY <2>5
  <2> QED
    BY <2>1, <2>2, <2>3, <2>4, <2>5
<1> QED
  BY <1>1 DEF CountInv

\* No frame of a stack is counted.
LEMMA FrameCountZero ==
  ASSUME Inv, NEW F, \A u \in Threads : \A k \in DOMAIN stack[u] : stack[u][k] \notin F
  PROVE  Count(stack, F) = 0
<1>1. stack \in Stacks /\ IsFiniteSet(Places(stack, Frames))
  BY Refs DEF StackType
<1>2. \A u \in Threads : DOMAIN stack[u] = 1 .. Len(stack[u])
  <2>1. ASSUME NEW u \in Threads PROVE stack[u] \in Seq(Frames)
    BY <1>1 DEF Stacks
  <2> QED
    BY <2>1, LenProperties
<1> QED
  BY <1>1, <1>2, CountOfFrame

\* An object in a directory is not being deleted.
LEMMA ListedIsKept ==
  ASSUME Inv, NEW o \in Objects, ~ InNoList(o)
  PROVE  Count(stack, RoutineFrames(o)) = 0 /\ Count(stack, FreeFrames(o)) = 0
<1>1. ASSUME NEW u \in Threads, NEW k \in DOMAIN stack[u]
      PROVE  stack[u][k] \notin RoutineFrames(o) /\ stack[u][k] \notin FreeFrames(o)
  <2>1. PICK f : f = stack[u][k]
    OBVIOUS
  <2>2. FrameOK(u, k, f)
    BY <2>1 DEF Inv, FrameInv
  <2> QED
    BY <2>1, <2>2 DEF FrameOK, RoutineFrames, FreeFrames
<1> QED
  BY <1>1, FrameCountZero

LEMMA ObpDeleteObjectUnlinkInv ==
  ASSUME Inv, NEW t \in Threads, ObpDeleteObjectUnlink(t)
  PROVE  Inv'
<1>1. /\ At(t, "Unlink")
      /\ list' = IF parent[Top(t).obj] = NoObject THEN list
                 ELSE [list EXCEPT ![parent[Top(t).obj]] = RemoveEntryList(@, Top(t).obj)]
      /\ Goto(t, Frame("DeleteRoutine", Top(t).obj))
      /\ UNCHANGED <<headerVars, countVars, ready, tableVars, userVars, historyVars>>
  BY DEF ObpDeleteObjectUnlink
<1>2. PICK f \in Frames :
         /\ f = Top(t) /\ f.at = "Unlink" /\ stack[t] # << >> /\ FrameOK(t, Len(stack[t]), f)
         /\ f.obj \in Objects /\ status[f.obj] = "Live" /\ Len(stack[t]) \in Nat \ {0}
  BY <1>1, AtIs
<1>3. PICK o \in Objects : o = f.obj
  BY <1>2
<1>4. f.handle = NoHandle /\ f.target = NoObject /\ refs[o] = 0 /\ o # NoObject /\ status[o] = "Live"
  BY <1>2, <1>3 DEF FrameOK
<1>5. /\ status' = status /\ name' = name /\ parent' = parent /\ type' = type /\ linkTarget' = linkTarget
      /\ linkPath' = linkPath /\ refs' = refs /\ handles' = handles /\ table' = table /\ opened' = opened
      /\ creator' = creator /\ owned' = owned /\ ready' = ready /\ tableLock' = tableLock
  BY <1>1 DEF headerVars, countVars, tableVars, userVars
<1>6. PICK g : g = Frame("DeleteRoutine", o)
  OBVIOUS
<1>7. g \in Frames /\ g.at = "DeleteRoutine" /\ g.obj = o /\ g.handle = NoHandle /\ g.target = NoObject
  BY <1>6, FrameIs DEF Steps
<1>8. StackType /\ Top(t) \in Frames
  BY <1>2, Refs
<1>9. /\ Keeps(t, Len(stack[t]) - 1) /\ Len(stack'[t]) = Len(stack[t])
      /\ stack'[t][Len(stack[t])] = g
      /\ \A F : Count(stack', F) = Count(stack, F) - Bit(f \in F) + Bit(g \in F)
  <2>1. Goto(t, g)
    BY <1>1, <1>2, <1>3, <1>6
  <2> QED
    BY <1>2, <1>7, <1>8, <2>1, GotoStack DEF StackType
<1>10. StackType' /\ stack' \in Stacks
  BY <1>9 DEF Keeps, StackType
<1>11. \A F : Count(stack, F) \in Nat
  BY <1>8, CountType DEF StackType
\* The lists.
<1>12. parent[o] # NoObject =>
          /\ parent[o] \in Directories /\ list[parent[o]] \in Seq(Objects)
          /\ \E i \in DOMAIN list[parent[o]] : list[parent[o]][i] = o
          /\ \A i, j \in DOMAIN list[parent[o]] : list[parent[o]][i] = list[parent[o]][j] => i = j
  <2>1. parent[o] # NoObject => o \in ToSet(list[parent[o]])
    <3>1. Sound(f)
      BY <1>1, <1>2 DEF At
    <3> QED
      BY <1>2, <1>3, <3>1, SoundIs
  <2>2. parent[o] # NoObject => parent[o] \in Directories /\ list[parent[o]] \in Seq(Objects)
    BY DEF Inv, TypeInv
  <2> QED
    BY <2>1, <2>2 DEF ToSet, Inv, ListInv
<1>13. /\ list' \in [Directories -> Seq(Objects)]
       /\ \A d \in Directories : d # parent[o] => list'[d] = list[d]
       /\ parent[o] # NoObject => list'[parent[o]] = RemoveEntryList(list[parent[o]], o)
  <2>1. list \in [Directories -> Seq(Objects)]
    BY DEF Inv, TypeInv
  <2>2. parent[o] # NoObject => RemoveEntryList(list[parent[o]], o) \in Seq(Objects)
    BY <1>12, RemovedEntry
  <2>3. list' = IF parent[o] = NoObject THEN list
                ELSE [list EXCEPT ![parent[o]] = RemoveEntryList(list[parent[o]], o)]
    BY <1>1, <1>2, <1>3
  <2> QED
    BY <1>12, <2>1, <2>2, <2>3
<1>14. ASSUME NEW d \in Directories
       PROVE  /\ \A i \in DOMAIN list'[d] : list'[d][i] # o /\ \E j \in DOMAIN list[d] : list'[d][i] = list[d][j]
              /\ \A i, j \in DOMAIN list'[d] : list'[d][i] = list'[d][j] => i = j
  <2>1. CASE d = parent[o]
    <3>1. parent[o] # NoObject
      BY <2>1, ObjectManagerAssumption
    <3>2. PICK s \in Seq(Objects) : s = list[d]
      BY <1>12, <2>1, <3>1
    <3>3. /\ \E i \in DOMAIN s : s[i] = o
          /\ \A i, j \in DOMAIN s : s[i] = s[j] => i = j
      BY <1>12, <2>1, <3>1, <3>2
    <3>4. list'[d] = RemoveEntryList(s, o)
      BY <1>13, <2>1, <3>1, <3>2
    <3> QED
      BY <3>2, <3>3, <3>4, RemovedEntry
  <2>2. CASE d # parent[o]
    <3>1. list'[d] = list[d]
      BY <1>13, <2>2
    <3>2. \A i \in DOMAIN list[d] : list[d][i] # o
      BY <2>2 DEF Inv, ListInv
    <3>3. \A i, j \in DOMAIN list[d] : list[d][i] = list[d][j] => i = j
      BY DEF Inv, ListInv
    <3> QED
      BY <3>1, <3>2, <3>3
  <2> QED
    BY <2>1, <2>2
<1>15. TypeInv'
  BY <1>1, <1>5, <1>10, <1>13 DEF Inv, TypeInv, Stacks, historyVars
<1>16. FiniteInv'
  BY <1>5, <1>10, FiniteInvKept DEF Inv
<1>17. /\ SameHandleSteps
       /\ \A x : Count(stack', FreeFrames(x)) = Count(stack, FreeFrames(x))
       /\ \A x : Count(stack', RoutineFrames(x)) = Count(stack, RoutineFrames(x)) + Bit(x = o)
  <2>1. \A h \in Handles : /\ Bit(f \in HandleFrames(h)) = 0 /\ Bit(g \in HandleFrames(h)) = 0
                           /\ Bit(f \in ClosingFrames(h)) = 0 /\ Bit(g \in ClosingFrames(h)) = 0
                           /\ Bit(f \in UncountedFrames(h)) = 0 /\ Bit(g \in UncountedFrames(h)) = 0
    BY <1>2, <1>4, <1>7, PlainBits
  <2>2. \A x : /\ Bit(f \in FreeFrames(x)) = 0 /\ Bit(g \in FreeFrames(x)) = 0
               /\ Bit(f \in RoutineFrames(x)) = 0 /\ Bit(g \in RoutineFrames(x)) = Bit(x = o)
    BY <1>2, <1>7, FramesAre DEF Bit
  <2>3. \A x : Bit(x = o) \in Nat
    BY DEF Bit
  <2>4. SameHandleSteps
    BY <1>9, <1>11, <2>1 DEF SameHandleSteps
  <2>5. ASSUME NEW x
        PROVE  /\ Count(stack', FreeFrames(x)) = Count(stack, FreeFrames(x))
               /\ Count(stack', RoutineFrames(x)) = Count(stack, RoutineFrames(x)) + Bit(x = o)
    <3>1. Count(stack, FreeFrames(x)) \in Nat /\ Count(stack, RoutineFrames(x)) \in Nat
      BY <1>11
    <3> QED
      BY <1>9, <2>2, <2>3, <3>1
  <2> QED
    BY <2>4, <2>5
<1>18. CountInv'
  <2>1. ASSUME NEW x \in Objects PROVE Calls(stack', x) = Calls(stack, x)
    <3>1. Calls(stack', x) = Calls(stack, x) - Weight(f, x) + Weight(g, x)
      BY <1>8, <1>9, MovedCalls
    <3>2. Weight(f, x) = 0 /\ Weight(g, x) = 0
      BY <1>2, <1>4, <1>7, WeightsAre DEF OnSteps
    <3>3. Calls(stack, x) \in Nat
      BY Refs
    <3> QED
      BY <3>1, <3>2, <3>3
  <2>2. \A x : HandlesTo(x)' = HandlesTo(x)
    BY <1>5, <1>8, <1>10, <1>17, HandlesToKept
  <2>3. \A x : LinksTo(x)' = LinksTo(x)
    BY <1>5, <1>8, <1>10, <1>17, LinksToSame
  <2> QED
    BY <1>5, <1>15, <1>16, <2>1, <2>2, <2>3, CountInvKept
<1>19. HandleInv'
  BY <1>5, <1>17, HandleInvKept DEF Inv
<1>20. ListInv'
  <2>1. ASSUME NEW d \in Directories, NEW i \in DOMAIN list'[d]
        PROVE  status'[list'[d][i]] = "Live" /\ parent'[list'[d][i]] = d
    <3>1. PICK j \in DOMAIN list[d] : list'[d][i] = list[d][j]
      BY <1>14
    <3> QED
      BY <3>1, <1>5 DEF Inv, ListInv
  <2> QED
    BY <2>1, <1>14 DEF ListInv
<1>21. ObjectInv'
  <2>1. ASSUME NEW x \in Objects, type[x] = "SymbolicLink"
        PROVE  Count(stack', RoutineFrames(x)) + Count(stack', FreeFrames(x)) <= 1
    <3>1. CASE x = o
      <4>1. creator[o] = NoThread
        BY <1>4, KeptAlive
      <4>2. parent[o] # NoObject
        BY <2>1, <3>1, <4>1 DEF Inv, ObjectInv
      <4>3. ~ InNoList(o)
        BY <1>12, <4>2 DEF InNoList
      <4>4. Count(stack, RoutineFrames(o)) = 0 /\ Count(stack, FreeFrames(o)) = 0
        BY <4>3, ListedIsKept
      <4>5. Bit(x = o) = 1
        BY <3>1 DEF Bit
      <4> QED
        BY <3>1, <4>4, <4>5, <1>17
    <3>2. CASE x # o
      <4>1. Bit(x = o) = 0
        BY <3>2 DEF Bit
      <4>2. Count(stack, RoutineFrames(x)) + Count(stack, FreeFrames(x)) <= 1
        BY <2>1 DEF Inv, ObjectInv
      <4>3. Count(stack, RoutineFrames(x)) \in Nat
        BY <1>11
      <4> QED
        BY <4>1, <4>2, <4>3, <1>17
    <3> QED
      BY <3>1, <3>2
  <2>2. \A x \in Objects : /\ FreeFrames(x)' = FreeFrames(x) /\ RoutineFrames(x)' = RoutineFrames(x)
    BY DEF FreeFrames, RoutineFrames
  <2> QED
    BY <1>5, <2>1, <2>2 DEF Inv, ObjectInv, Count, Places
<1>22. FrameInv'
  <2>1. \A x : InNoList(x) => InNoList(x)'
    BY <1>14 DEF InNoList
  <2>2. InNoList(o)'
    BY <1>14 DEF InNoList
  <2>3. Steady
    BY <1>5, <2>1 DEF Steady
  <2>4. \A u \in Threads : OwnSteady(u)
    BY <1>5 DEF OwnSteady, Inv, TypeInv
  <2>5. HandlesSteady(t, Len(stack[t]) - 1)
    BY <1>5, HandlesAreSteady DEF Inv
  <2>6. ASSUME NEW k \in Len(stack[t]) - 1 + 1 .. Len(stack'[t]) PROVE AllOK(t, k)'
    <3>1. k = Len(stack[t])
      BY <1>2, <1>9
    <3>2. stack'[t][k] = g
      BY <3>1, <1>9
    <3>3. FrameOK(t, k, g)' /\ g.at \notin LookupSteps
      BY <1>4, <1>5, <1>7, <2>2 DEF FrameOK, LookupSteps, OwnSteps
    <3> QED
      BY <3>2, <3>3 DEF AllOK
  <2> QED
    BY <1>9, <1>15, <2>3, <2>4, <2>5, <2>6, FramesKept DEF Inv
<1> QED
  BY <1>15, <1>16, <1>18, <1>19, <1>20, <1>21, <1>22 DEF Inv

\* A step that changes nothing but the stacks, though not what they count to.
LEMMA DeletionInv ==
  ASSUME Inv, UNCHANGED Others, NEW t \in Threads, NEW m, Keeps(t, m), SameHandleSteps,
         \A o \in Objects : Cardinality(LinksTo(o)') + Calls(stack', o) = Cardinality(LinksTo(o)) + Calls(stack, o),
         \A o \in Objects : Count(stack', RoutineFrames(o)) + Count(stack', FreeFrames(o))
                               = Count(stack, RoutineFrames(o)) + Count(stack, FreeFrames(o)),
         \A k \in m + 1 .. Len(stack'[t]) : AllOK(t, k)'
  PROVE  Inv'
<1>1. /\ status' = status /\ name' = name /\ parent' = parent /\ type' = type /\ linkTarget' = linkTarget
      /\ linkPath' = linkPath /\ refs' = refs /\ handles' = handles /\ table' = table /\ opened' = opened
      /\ creator' = creator /\ owned' = owned /\ ready' = ready /\ tableLock' = tableLock /\ list' = list
      /\ UNCHANGED headerVars
  BY DEF Others, headerVars, countVars, tableVars, userVars, spaceVars
<1>2. StackType' /\ stack' \in Stacks /\ StackType
  BY Refs DEF Keeps, StackType
<1>3. TypeInv'
  BY <1>1, <1>2 DEF Inv, TypeInv, Stacks, Others, historyVars
<1>4. FiniteInv'
  BY <1>1, <1>2, FiniteInvKept DEF Inv
<1>5. CountInv'
  <2>1. ASSUME NEW o \in Objects
        PROVE  Cardinality(HandlesTo(o)') + Cardinality(LinksTo(o)') + Calls(stack', o)
                  = Cardinality(HandlesTo(o)) + Cardinality(LinksTo(o)) + Calls(stack, o)
    <3>1. HandlesTo(o)' = HandlesTo(o)
      BY <1>1, <1>2, HandlesToKept
    <3>2. /\ Cardinality(HandlesTo(o)) \in Nat /\ Cardinality(LinksTo(o)) \in Nat /\ Calls(stack, o) \in Nat
      BY RefsBefore
    <3>3. Cardinality(LinksTo(o)') \in Nat /\ Calls(stack', o) \in Nat
      BY <1>3, <1>4, RefsAfter
    <3> QED
      BY <3>1, <3>2, <3>3
  <2> QED
    BY <1>1, <1>3, <1>4, <2>1, CountInvKept
<1>6. HandleInv' /\ ListInv'
  BY <1>1, HandleInvKept, ListInvKept DEF Inv
<1>7. ObjectInv'
  BY <1>1, ObjectInvKept DEF Inv
<1>8. Steady /\ \A u \in Threads : OwnSteady(u)
  BY <1>1 DEF Steady, InNoList, OwnSteady, Inv, TypeInv
<1>9. HandlesSteady(t, m)
  BY <1>1, HandlesAreSteady DEF Inv
<1>10. FrameInv'
  BY <1>3, <1>8, <1>9, FramesKept DEF Inv
<1> QED
  BY <1>3, <1>4, <1>5, <1>6, <1>7, <1>10 DEF Inv

\* Deletions of an object, and what that does to links.
LEMMA OneLinkLess ==
  ASSUME Inv, StackType', status' = status, linkTarget' = linkTarget, NEW o \in Objects,
         status[o] = "Live",
         linkTarget[o] # NoObject => Count(stack, FreeFrames(o)) = 0,
         \A x : Count(stack', FreeFrames(x)) = Count(stack, FreeFrames(x)) + Bit(x = o)
  PROVE  \A x \in Objects : Cardinality(LinksTo(x)') = Cardinality(LinksTo(x)) - Bit(linkTarget[o] = x)
<1> SUFFICES ASSUME NEW x \in Objects
             PROVE  Cardinality(LinksTo(x)') = Cardinality(LinksTo(x)) - Bit(linkTarget[o] = x)
  OBVIOUS
<1>1. StackType /\ CountsAre /\ CountsAre'
  BY Refs, PendingWillBe
<1>2. /\ LinksTo(x) = {l \in Objects : /\ status[l] = "Live" /\ linkTarget[l] = x
                                        /\ Count(stack, FreeFrames(l)) = 0}
      /\ LinksTo(x)' = {l \in Objects : /\ status'[l] = "Live" /\ linkTarget'[l] = x
                                         /\ Count(stack', FreeFrames(l)) = 0}
  BY <1>1 DEF CountsAre, FreeFrames
<1>3. \A l : Count(stack, FreeFrames(l)) \in Nat
  BY <1>1, CountType DEF StackType
<1>4. /\ \A l : l # o => Count(stack', FreeFrames(l)) = Count(stack, FreeFrames(l))
      /\ Count(stack', FreeFrames(o)) # 0
  BY <1>3 DEF Bit
<1>5. LinksTo(x)' = LinksTo(x) \ {o}
  BY <1>2, <1>4
<1>6. o \in LinksTo(x) <=> linkTarget[o] = x
  BY <1>2, ObjectManagerAssumption DEF Directories
<1>7. IsFiniteSet(LinksTo(x)) /\ Cardinality(LinksTo(x)) \in Nat
  BY Refs DEF ReferencesType
<1>8. CASE linkTarget[o] = x
  <2>1. Cardinality(LinksTo(x) \ {o}) = Cardinality(LinksTo(x)) - 1
    BY <1>6, <1>7, <1>8, FS_RemoveElement
  <2> QED
    BY <2>1, <1>5, <1>8 DEF Bit
<1>9. CASE linkTarget[o] # x
  <2>1. LinksTo(x)' = LinksTo(x)
    BY <1>5, <1>6, <1>9
  <2> QED
    BY <2>1, <1>7, <1>9 DEF Bit
<1> QED
  BY <1>8, <1>9

LEMMA DeleteRoutineInv ==
  ASSUME Inv, NEW t \in Threads, DeleteRoutine(t)
  PROVE  Inv'
<1>1. At(t, "DeleteRoutine") /\ UNCHANGED Others
  BY DEF DeleteRoutine, Others
<1>2. PICK f \in Frames :
         /\ f = Top(t) /\ f.at = "DeleteRoutine" /\ stack[t] # << >> /\ FrameOK(t, Len(stack[t]), f)
         /\ f.obj \in Objects /\ status[f.obj] = "Live" /\ Len(stack[t]) \in Nat \ {0}
  BY <1>1, AtIs
<1>3. PICK o \in Objects : o = f.obj
  BY <1>2
<1>4. /\ f.handle = NoHandle /\ f.target = NoObject /\ refs[o] = 0 /\ o # NoObject /\ status[o] = "Live"
      /\ InNoList(o)
  BY <1>2, <1>3 DEF FrameOK
<1>5. /\ status' = status /\ linkTarget' = linkTarget /\ refs' = refs /\ list' = list
  BY <1>1 DEF Others, headerVars, countVars, spaceVars
<1>6. PICK g : g = Frame("Free", o)
  OBVIOUS
<1>7. g \in Frames /\ g.at = "Free" /\ g.obj = o /\ g.handle = NoHandle /\ g.target = NoObject
  BY <1>6, FrameIs DEF Steps
<1>8. StackType /\ Top(t) \in Frames /\ (\A F : Count(stack, F) \in Nat) /\ \A x \in Objects : Calls(stack, x) \in Nat
  BY <1>2, Refs, CountType DEF StackType
<1>9. \A x \in Objects : Weight(f, x) = 0 /\ Weight(g, x) = 0
  BY <1>2, <1>4, <1>7, WeightsAre DEF OnSteps
<1>10. /\ \A h \in Handles : /\ Bit(f \in HandleFrames(h)) = 0 /\ Bit(g \in HandleFrames(h)) = 0
                             /\ Bit(f \in ClosingFrames(h)) = 0 /\ Bit(g \in ClosingFrames(h)) = 0
                             /\ Bit(f \in UncountedFrames(h)) = 0 /\ Bit(g \in UncountedFrames(h)) = 0
       /\ \A x : /\ Bit(f \in FreeFrames(x)) = 0 /\ Bit(g \in FreeFrames(x)) = Bit(x = o)
                 /\ Bit(f \in RoutineFrames(x)) = Bit(x = o) /\ Bit(g \in RoutineFrames(x)) = 0
  <2>1. \A x : /\ Bit(f \in FreeFrames(x)) = 0 /\ Bit(g \in FreeFrames(x)) = Bit(x = o)
               /\ Bit(f \in RoutineFrames(x)) = Bit(x = o) /\ Bit(g \in RoutineFrames(x)) = 0
    BY <1>2, <1>3, <1>7, FramesAre DEF Bit
  <2> QED
    BY <1>4, <1>7, <2>1, PlainBits
<1>11. \A x : Bit(x = o) \in Nat
  BY DEF Bit
<1>12. FrameOK(t, Len(stack[t]), g) /\ g.at \notin LookupSteps
  BY <1>4, <1>7 DEF FrameOK, LookupSteps, OwnSteps
<1>13. ASSUME NEW k, k = Len(stack[t]), stack'[t][k] = g PROVE AllOK(t, k)'
  <2>1. InNoList(o)'
    BY <1>4, <1>5 DEF InNoList
  <2>2. FrameOK(t, k, g)'
    BY <1>4, <1>5, <1>7, <2>1 DEF FrameOK, OwnSteps
  <2> QED
    BY <1>12, <1>13, <2>2 DEF AllOK
<1>14. CASE type[o] # "SymbolicLink"
  <2>1. Goto(t, g)
    BY <1>2, <1>3, <1>6, <1>14 DEF DeleteRoutine
  <2>2. /\ Keeps(t, Len(stack[t]) - 1) /\ Len(stack'[t]) = Len(stack[t])
        /\ stack'[t][Len(stack[t])] = g
        /\ \A F : Count(stack', F) = Count(stack, F) - Bit(f \in F) + Bit(g \in F)
    BY <1>2, <1>7, <1>8, <2>1, GotoStack DEF StackType
  <2>3. StackType'
    BY <2>2 DEF Keeps, StackType
  <2>4. SameHandleSteps
    BY <1>8, <1>10, <2>2 DEF SameHandleSteps
  <2>5. ASSUME NEW x
        PROVE  /\ Count(stack', FreeFrames(x)) = Count(stack, FreeFrames(x)) + Bit(x = o)
               /\ Count(stack', RoutineFrames(x)) = Count(stack, RoutineFrames(x)) - Bit(x = o)
    <3>1. Count(stack, FreeFrames(x)) \in Nat /\ Count(stack, RoutineFrames(x)) \in Nat /\ Bit(x = o) \in Nat
      BY <1>8, <1>11
    <3> QED
      BY <3>1, <1>10, <2>2
  <2>6. ASSUME NEW x \in Objects
        PROVE  Count(stack', RoutineFrames(x)) + Count(stack', FreeFrames(x))
                  = Count(stack, RoutineFrames(x)) + Count(stack, FreeFrames(x))
    <3>1. Count(stack, FreeFrames(x)) \in Nat /\ Count(stack, RoutineFrames(x)) \in Nat /\ Bit(x = o) \in Nat
      BY <1>8, <1>11
    <3> QED
      BY <3>1, <2>5
  <2>7. linkTarget[o] = NoObject
    BY <1>14 DEF Inv, ObjectInv
  <2>8. \A x \in Objects : Cardinality(LinksTo(x)') + Calls(stack', x) = Cardinality(LinksTo(x)) + Calls(stack, x)
    <3> SUFFICES ASSUME NEW x \in Objects
                 PROVE  Cardinality(LinksTo(x)') + Calls(stack', x) = Cardinality(LinksTo(x)) + Calls(stack, x)
      OBVIOUS
    <3>1. Cardinality(LinksTo(x)') = Cardinality(LinksTo(x)) - Bit(linkTarget[o] = x)
      BY <1>4, <1>5, <2>3, <2>5, <2>7, OneLinkLess
    <3>2. Bit(linkTarget[o] = x) = 0
      BY <2>7, ObjectManagerAssumption DEF Bit, Directories
    <3>3. Calls(stack', x) = Calls(stack, x) - Weight(f, x) + Weight(g, x)
      BY <1>8, <2>2, MovedCalls
    <3>4. Cardinality(LinksTo(x)) \in Nat
      BY RefsBefore
    <3> QED
      BY <3>1, <3>2, <3>3, <3>4, <1>8, <1>9
  <2>9. \A k \in Len(stack[t]) - 1 + 1 .. Len(stack'[t]) : AllOK(t, k)'
    <3>1. \A k \in Len(stack[t]) - 1 + 1 .. Len(stack'[t]) : k = Len(stack[t])
      BY <1>2, <2>2
    <3> QED
      BY <3>1, <1>13, <2>2
  <2> QED
    BY <1>1, <2>2, <2>4, <2>6, <2>8, <2>9, DeletionInv
<1>15. CASE type[o] = "SymbolicLink"
  <2>0. PICK e : e = Frame("Decrement", linkTarget[o])
    OBVIOUS
  <2>1. /\ linkTarget[o] \in Objects \cup {NoObject}
        /\ linkTarget[o] # NoObject => status[linkTarget[o]] # "None"
    BY DEF Inv, TypeInv, ObjectInv
  <2>2. e \in Frames /\ e.at = "Decrement" /\ e.obj = linkTarget[o] /\ e.handle = NoHandle /\ e.target = NoObject
    BY <2>0, <2>1, FrameIs DEF Steps
  <2>3. stack' = Push(Push(Pop(stack, t), t, g), t, e)
    BY <1>2, <1>3, <1>6, <1>15, <2>0 DEF DeleteRoutine
  <2>4. /\ Keeps(t, Len(stack[t]) - 1) /\ Len(stack'[t]) = Len(stack[t]) + 1
        /\ stack'[t][Len(stack[t])] = g /\ stack'[t][Len(stack[t]) + 1] = e
        /\ \A F : Count(stack', F) = Count(stack, F) - Bit(f \in F) + Bit(g \in F) + Bit(e \in F)
    BY <1>2, <1>7, <1>8, <2>2, <2>3, GotoEnterStack DEF StackType
  <2>5. StackType'
    BY <2>4 DEF Keeps, StackType
  <2>6. /\ \A h \in Handles : /\ Bit(e \in HandleFrames(h)) = 0 /\ Bit(e \in ClosingFrames(h)) = 0
                              /\ Bit(e \in UncountedFrames(h)) = 0
        /\ \A x : Bit(e \in FreeFrames(x)) = 0 /\ Bit(e \in RoutineFrames(x)) = 0
    BY <2>2, PlainBits
  <2>7. SameHandleSteps
    BY <1>8, <1>10, <2>4, <2>6 DEF SameHandleSteps
  <2>8. ASSUME NEW x
        PROVE  /\ Count(stack', FreeFrames(x)) = Count(stack, FreeFrames(x)) + Bit(x = o)
               /\ Count(stack', RoutineFrames(x)) = Count(stack, RoutineFrames(x)) - Bit(x = o)
    <3>1. Count(stack, FreeFrames(x)) \in Nat /\ Count(stack, RoutineFrames(x)) \in Nat /\ Bit(x = o) \in Nat
      BY <1>8, <1>11
    <3> QED
      BY <3>1, <1>10, <2>4, <2>6
  <2>9. ASSUME NEW x \in Objects
        PROVE  Count(stack', RoutineFrames(x)) + Count(stack', FreeFrames(x))
                  = Count(stack, RoutineFrames(x)) + Count(stack, FreeFrames(x))
    <3>1. Count(stack, FreeFrames(x)) \in Nat /\ Count(stack, RoutineFrames(x)) \in Nat /\ Bit(x = o) \in Nat
      BY <1>8, <1>11
    <3> QED
      BY <3>1, <2>8
  <2>10. Count(stack, FreeFrames(o)) = 0
    <3>1. f \in RoutineFrames(o)
      BY <1>2, <1>3 DEF RoutineFrames
    <3>2. Count(stack, RoutineFrames(o)) >= 1
      BY <1>2, <3>1, TopIs
    <3>3. Count(stack, RoutineFrames(o)) + Count(stack, FreeFrames(o)) <= 1
      BY <1>15 DEF Inv, ObjectInv
    <3> QED
      BY <3>2, <3>3, <1>8
  <2>11. \A x \in Objects : Cardinality(LinksTo(x)') + Calls(stack', x) = Cardinality(LinksTo(x)) + Calls(stack, x)
    <3> SUFFICES ASSUME NEW x \in Objects
                 PROVE  Cardinality(LinksTo(x)') + Calls(stack', x) = Cardinality(LinksTo(x)) + Calls(stack, x)
      OBVIOUS
    <3>1. Cardinality(LinksTo(x)') = Cardinality(LinksTo(x)) - Bit(linkTarget[o] = x)
      BY <1>4, <1>5, <2>5, <2>8, <2>10, OneLinkLess
    <3>2. Bit(linkTarget[o] = x) \in Nat /\ Weight(e, x) = Bit(linkTarget[o] = x)
      BY <2>2, WeightsAre DEF Bit, OnSteps
    <3>3. Calls(stack', x) = Calls(stack, x) - Weight(f, x) + Weight(g, x) + Weight(e, x)
      BY <1>8, <2>4, SplitCalls
    <3>4. Cardinality(LinksTo(x)) \in Nat
      BY RefsBefore
    <3> QED
      BY <3>1, <3>2, <3>3, <3>4, <1>8, <1>9
  <2>12. \A k \in Len(stack[t]) - 1 + 1 .. Len(stack'[t]) : AllOK(t, k)'
    <3>1. \A k \in Len(stack[t]) - 1 + 1 .. Len(stack'[t]) : k = Len(stack[t]) \/ k = Len(stack[t]) + 1
      BY <1>2, <2>4
    <3>2. ASSUME NEW k, k = Len(stack[t]) + 1 PROVE AllOK(t, k)'
      <4>1. FrameOK(t, k, e)' /\ e.at \notin LookupSteps
        BY <1>5, <2>1, <2>2, SimpleOK
      <4>2. stack'[t][k] = e
        BY <2>4, <3>2
      <4> QED
        BY <4>1, <4>2 DEF AllOK
    <3> QED
      BY <3>1, <3>2, <1>13, <2>4
  <2> QED
    BY <1>1, <2>4, <2>7, <2>9, <2>11, <2>12, DeletionInv
<1> QED
  BY <1>14, <1>15

LEMMA ObpDeleteObjectFreeInv ==
  ASSUME Inv, NEW t \in Threads, ObpDeleteObjectFree(t)
  PROVE  Inv'
<1>1. At(t, "Free") /\ Return(t) /\ UNCHANGED <<tableVars, userVars, historyVars>>
  BY DEF ObpDeleteObjectFree
<1>2. PICK f \in Frames :
         /\ f = Top(t) /\ f.at = "Free" /\ stack[t] # << >> /\ FrameOK(t, Len(stack[t]), f)
         /\ f.obj \in Objects /\ status[f.obj] = "Live" /\ Len(stack[t]) \in Nat \ {0}
  BY <1>1, AtIs
<1>3. PICK o \in Objects : o = f.obj
  BY <1>2
<1>4. /\ f.handle = NoHandle /\ f.target = NoObject /\ refs[o] = 0 /\ o # NoObject /\ status[o] = "Live"
      /\ InNoList(o) /\ o \in Directories
  BY <1>2, <1>3 DEF FrameOK, Directories
<1>5. /\ status' = [status EXCEPT ![o] = "Freed"] /\ type' = [type EXCEPT ![o] = "Other"]
      /\ name' = [name EXCEPT ![o] = NoName] /\ parent' = [parent EXCEPT ![o] = NoObject]
      /\ linkTarget' = [linkTarget EXCEPT ![o] = NoObject] /\ linkPath' = [linkPath EXCEPT ![o] = << >>]
      /\ list' = [list EXCEPT ![o] = << >>] /\ ready' = ready \ {o}
      /\ refs' = [refs EXCEPT ![o] = 0] /\ handles' = [handles EXCEPT ![o] = 0]
  BY <1>2, <1>3 DEF ObpDeleteObjectFree
<1>6. /\ table' = table /\ tableLock' = tableLock /\ opened' = opened /\ creator' = creator /\ owned' = owned
  BY <1>1 DEF tableVars, userVars
<1>7. \A x \in Objects :
         /\ x # o => /\ status'[x] = status[x] /\ type'[x] = type[x] /\ name'[x] = name[x]
                     /\ parent'[x] = parent[x] /\ linkTarget'[x] = linkTarget[x] /\ linkPath'[x] = linkPath[x]
                     /\ handles'[x] = handles[x]
         /\ x = o => /\ status'[x] = "Freed" /\ type'[x] = "Other" /\ parent'[x] = NoObject
                     /\ linkTarget'[x] = NoObject /\ handles'[x] = 0
         /\ refs'[x] = refs[x]
  BY <1>4, <1>5 DEF Inv, TypeInv
<1>8. \A d \in Directories : list'[d] = IF d = o THEN << >> ELSE list[d]
  BY <1>5 DEF Inv, TypeInv
<1>9. StackType /\ Top(t) \in Frames /\ (\A F : Count(stack, F) \in Nat) /\ \A x \in Objects : Calls(stack, x) \in Nat
  BY <1>2, Refs, CountType DEF StackType
<1>10. /\ Keeps(t, Len(stack[t]) - 1) /\ Len(stack'[t]) = Len(stack[t]) - 1
       /\ \A F : Count(stack', F) = Count(stack, F) - Bit(f \in F)
  BY <1>1, <1>2, <1>9, ReturnStack DEF StackType
<1>11. StackType' /\ stack' \in Stacks
  BY <1>10 DEF Keeps, StackType
<1>12. SameHandleSteps
  BY <1>4, <1>9, <1>10, PlainBits DEF SameHandleSteps
<1>13. /\ \A x : x # o => Count(stack', FreeFrames(x)) = Count(stack, FreeFrames(x))
       /\ \A x : Count(stack', RoutineFrames(x)) = Count(stack, RoutineFrames(x))
       /\ Count(stack, FreeFrames(o)) # 0
  <2>1. \A x : Bit(f \in RoutineFrames(x)) = 0 /\ Bit(f \in FreeFrames(x)) = Bit(x = o)
    BY <1>2, <1>3, FramesAre DEF Bit
  <2>2. ASSUME NEW x, x # o PROVE Count(stack', FreeFrames(x)) = Count(stack, FreeFrames(x))
    <3>1. Bit(x = o) = 0 /\ Count(stack, FreeFrames(x)) \in Nat
      BY <1>9, <2>2 DEF Bit
    <3> QED
      BY <1>10, <2>1, <3>1
  <2>3. ASSUME NEW x PROVE Count(stack', RoutineFrames(x)) = Count(stack, RoutineFrames(x))
    <3>1. Count(stack, RoutineFrames(x)) \in Nat
      BY <1>9
    <3> QED
      BY <1>10, <2>1, <3>1
  <2>4. Count(stack, FreeFrames(o)) >= 1
    <3>1. f \in FreeFrames(o)
      BY <1>2, <1>3 DEF FreeFrames
    <3> QED
      BY <1>2, <3>1, TopIs
  <2> QED
    BY <1>9, <2>2, <2>3, <2>4
<1>14. TypeInv'
  <2>1. /\ "Freed" \in {"None", "Live", "Freed"} /\ "Other" \in Types /\ NoName \in Names \cup {NoName}
        /\ NoObject \in Objects \cup {NoObject} /\ NoObject \in Directories \cup {NoObject}
        /\ 0 \in Int
    BY DEF Types
  <2>2. << >> \in Seq(Names) /\ << >> \in Seq(Objects)
    BY EmptySeq
  <2>3. /\ status' \in [Objects -> {"None", "Live", "Freed"}] /\ type' \in [Objects -> Types]
        /\ name' \in [Objects -> Names \cup {NoName}] /\ parent' \in [Objects -> Directories \cup {NoObject}]
        /\ refs' \in [Objects -> Int] /\ handles' \in [Objects -> Int]
        /\ linkTarget' \in [Objects -> Objects \cup {NoObject}]
    BY <1>5, <2>1 DEF Inv, TypeInv
  <2>4. linkPath' \in [Objects -> Seq(Names)] /\ list' \in [Directories -> Seq(Objects)] /\ ready' \subseteq Directories
    BY <1>5, <2>2 DEF Inv, TypeInv
  <2>5. stack' \in [Threads -> Seq(Frames)]
    BY <1>11 DEF Stacks
  <2> QED
    BY <1>1, <1>6, <2>3, <2>4, <2>5 DEF Inv, TypeInv, historyVars
<1>15. FiniteInv'
  <2>1. IsFiniteSet(Places(stack', Frames)) /\ Places(stack', Frames) = Places(stack, Frames)' /\ Frames' = Frames
    BY <1>11 DEF StackType, Places, Frames
  <2>2. \A x \in Objects : Owners(x)' = Owners(x)
    BY <1>6, OwnersKept
  <2>3. {x \in Objects : status'[x] # "None"} = {x \in Objects : status[x] # "None"}
    BY <1>4, <1>7
  <2> QED
    BY <1>6, <2>1, <2>2, <2>3 DEF Inv, FiniteInv
<1>16. CountInv'
  <2>1. \A x : HandlesTo(x)' = HandlesTo(x)
    BY <1>6, <1>9, <1>11, <1>12, HandlesToKept
  <2>2. ASSUME NEW x \in Objects PROVE LinksTo(x)' = LinksTo(x)
    <3>1. CountsAre /\ CountsAre'
      BY <1>11, Refs, PendingWillBe
    <3>2. /\ LinksTo(x) = {l \in Objects : /\ status[l] = "Live" /\ linkTarget[l] = x
                                            /\ Count(stack, FreeFrames(l)) = 0}
          /\ LinksTo(x)' = {l \in Objects : /\ status'[l] = "Live" /\ linkTarget'[l] = x
                                             /\ Count(stack', FreeFrames(l)) = 0}
      BY <3>1 DEF CountsAre, FreeFrames
    <3>3. ASSUME NEW l \in Objects
          PROVE  (status[l] = "Live" /\ linkTarget[l] = x /\ Count(stack, FreeFrames(l)) = 0)
                   <=> (status'[l] = "Live" /\ linkTarget'[l] = x /\ Count(stack', FreeFrames(l)) = 0)
      BY <1>7, <1>13
    <3> QED
      BY <3>2, <3>3
  <2>3. ASSUME NEW x \in Objects PROVE Calls(stack', x) = Calls(stack, x)
    <3>1. Calls(stack', x) = Calls(stack, x) - Weight(f, x)
      BY <1>9, <1>10, RemovedCalls
    <3>2. Weight(f, x) = 0
      BY <1>2, <1>4, WeightsAre DEF OnSteps
    <3> QED
      BY <3>1, <3>2, <1>9
  <2>4. ASSUME NEW x \in Objects PROVE References(x)' = refs[x]
    <3>1. References(x)' = Bit(creator'[x] # NoThread) + Cardinality(Owners(x)') + Cardinality(HandlesTo(x)')
                             + Cardinality(LinksTo(x)') + Calls(stack', x)
      BY <1>14, <1>15, RefsAfter
    <3>2. Owners(x)' = Owners(x)
      BY <1>6, OwnersKept
    <3> QED
      BY <3>1, <3>2, <2>1, <2>2, <2>3, <1>6, RefsBefore
  <2>5. \A x \in Objects : status'[x] # "Live" => refs[x] = 0
    BY <1>4, <1>7, RefsBefore
  <2> QED
    BY <1>7, <2>4, <2>5 DEF CountInv
<1>17. HandleInv'
  <2>1. ASSUME NEW h \in Handles
        PROVE  /\ Count(stack', HandleFrames(h)) <= 1
               /\ table'[h] # NoObject => status'[table'[h]] # "None"
    <3>1. table[h] \in Objects \cup {NoObject}
      BY DEF Inv, TypeInv
    <3> QED
      BY <3>1, <1>6, <1>7, <1>12 DEF Inv, HandleInv, SameHandleSteps
  <2>2. \A h \in opened' : table'[h] # NoObject
    BY <1>6 DEF Inv, HandleInv
  <2>3. ASSUME NEW x \in Objects
        PROVE  IF status'[x] = "Live"
               THEN handles'[x] = Cardinality({h \in Handles : table'[h] = x
                                                  /\ Count(stack', UncountedFrames(h)) = 0})
               ELSE handles'[x] = 0
    <3>1. {h \in Handles : table'[h] = x /\ Count(stack', UncountedFrames(h)) = 0}
            = {h \in Handles : table[h] = x /\ Count(stack, UncountedFrames(h)) = 0}
      BY <1>6, <1>12 DEF SameHandleSteps
    <3> QED
      BY <3>1, <1>7 DEF Inv, HandleInv
  <2>4. \A h : HandleFrames(h)' = HandleFrames(h) /\ UncountedFrames(h)' = UncountedFrames(h)
    BY DEF HandleFrames, UncountedFrames
  <2> QED
    BY <2>1, <2>2, <2>3, <2>4 DEF HandleInv, Count, Places
<1>18. ListInv'
  <2>1. DOMAIN << >> = {}
    OBVIOUS
  <2>2. ASSUME NEW d \in Directories
        PROVE  /\ \A i \in DOMAIN list'[d] : status'[list'[d][i]] = "Live" /\ parent'[list'[d][i]] = d
               /\ \A i, j \in DOMAIN list'[d] : list'[d][i] = list'[d][j] => i = j
    <3>1. CASE d = o
      BY <3>1, <1>8, <2>1
    <3>2. CASE d # o
      <4>1. list'[d] = list[d]
        BY <3>2, <1>8
      <4>2. ASSUME NEW i \in DOMAIN list[d]
            PROVE  status'[list[d][i]] = "Live" /\ parent'[list[d][i]] = d
        <5>1. list[d] \in Seq(Objects)
          BY DEF Inv, TypeInv
        <5>2. list[d][i] \in Objects
          BY <5>1, LenProperties, ElementOfSeq
        <5>3. list[d][i] # o
          BY <1>4 DEF InNoList
        <5> QED
          BY <5>2, <5>3, <1>7 DEF Inv, ListInv
      <4> QED
        BY <4>1, <4>2 DEF Inv, ListInv
    <3> QED
      BY <3>1, <3>2
  <2> QED
    BY <2>2 DEF ListInv
<1>19. ObjectInv'
  <2>1. ASSUME NEW x \in Objects, NEW y \in Objects, status'[x] = "Live", status'[y] = "Live", name'[x] = name'[y]
        PROVE  x = y
    BY <2>1, <1>7 DEF Inv, ObjectInv
  <2>2. ASSUME NEW x \in Objects, x = o
        PROVE  parent'[x] = NoObject /\ linkTarget'[x] = NoObject /\ type'[x] # "SymbolicLink"
    BY <2>2, <1>7
  <2>3. ASSUME NEW x \in Objects, x # o
        PROVE  /\ status'[x] # "Live" => parent'[x] = NoObject /\ linkTarget'[x] = NoObject
               /\ linkTarget'[x] # NoObject => type'[x] = "SymbolicLink" /\ status'[linkTarget'[x]] # "None"
               /\ type'[x] = "SymbolicLink" =>
                     /\ status'[x] = "Live"
                     /\ parent'[x] # NoObject => linkPath'[x] # << >>
                     /\ creator'[x] = NoThread => parent'[x] # NoObject
                     /\ Count(stack', RoutineFrames(x)) + Count(stack', FreeFrames(x)) <= 1
    <3>1. linkTarget[x] \in Objects \cup {NoObject}
      BY DEF Inv, TypeInv
    <3>2. linkTarget[x] # NoObject => status'[linkTarget[x]] # "None"
      BY <3>1, <1>7 DEF Inv, ObjectInv
    <3> QED
      BY <2>3, <3>2, <1>6, <1>7, <1>13 DEF Inv, ObjectInv
  <2>4. \A x : FreeFrames(x)' = FreeFrames(x) /\ RoutineFrames(x)' = RoutineFrames(x)
    BY DEF FreeFrames, RoutineFrames
  <2> QED
    BY <2>1, <2>2, <2>3, <2>4 DEF ObjectInv, Count, Places
<1>20. FrameInv'
  <2>1. \A x : InNoList(x) => InNoList(x)'
    <3>1. DOMAIN << >> = {}
      OBVIOUS
    <3> QED
      BY <1>8, <3>1 DEF InNoList
  <2>2. Steady
    BY <1>4, <1>7, <2>1 DEF Steady
  <2>3. \A u \in Threads : OwnSteady(u)
    <3>1. creator[o] = NoThread
      BY <1>4, KeptAlive
    <3>2. NoThread \notin Threads
      BY ObjectManagerAssumption
    <3>3. \A u \in Threads, x \in Objects : owned'[u][x] <= owned[u][x]
      BY <1>6 DEF Inv, TypeInv
    <3> QED
      BY <1>6, <1>7, <3>1, <3>2, <3>3 DEF OwnSteady
  <2>4. HandlesSteady(t, Len(stack[t]) - 1)
    BY <1>6, HandlesAreSteady DEF Inv
  <2>5. Len(stack[t]) - 1 + 1 .. Len(stack'[t]) = {}
    BY <1>2, <1>10
  <2> QED
    BY <1>10, <1>14, <2>2, <2>3, <2>4, <2>5, FramesKept DEF Inv
<1> QED
  BY <1>14, <1>15, <1>16, <1>17, <1>18, <1>19, <1>20 DEF Inv

-----------------------------------------------------------------------------
(* Creating objects. *)

\* A new object is nowhere yet.
LEMMA BlankIs ==
  ASSUME Inv, NEW o \in Objects, status[o] = "None"
  PROVE  /\ Count(stack, RoutineFrames(o)) = 0 /\ Count(stack, FreeFrames(o)) = 0
         /\ creator[o] = NoThread /\ parent[o] = NoObject /\ linkTarget[o] = NoObject /\ handles[o] = 0
         /\ \A h \in Handles : table[h] # o
         /\ refs[o] = 0 /\ InNoList(o)
<1>1. ASSUME NEW u \in Threads, NEW k \in DOMAIN stack[u]
      PROVE  stack[u][k] \notin RoutineFrames(o) /\ stack[u][k] \notin FreeFrames(o)
  <2>1. PICK f : f = stack[u][k]
    OBVIOUS
  <2>2. FrameOK(u, k, f)
    BY <2>1 DEF Inv, FrameInv
  <2>3. o # NoObject
    BY ObjectManagerAssumption DEF Directories
  <2> QED
    BY <2>1, <2>2, <2>3 DEF FrameOK, RoutineFrames, FreeFrames
<1>2. Count(stack, RoutineFrames(o)) = 0 /\ Count(stack, FreeFrames(o)) = 0
  BY <1>1, FrameCountZero
<1>3. creator[o] = NoThread
  BY KeptAlive
<1>4. parent[o] = NoObject /\ linkTarget[o] = NoObject /\ handles[o] = 0
  BY DEF Inv, ObjectInv, HandleInv
<1>5. \A h \in Handles : table[h] # o
  <2>1. o # NoObject
    BY ObjectManagerAssumption DEF Directories
  <2> QED
    BY <2>1 DEF Inv, HandleInv
<1>6. refs[o] = 0
  BY RefsBefore
<1>7. InNoList(o)
  BY DEF Inv, ListInv, InNoList
<1> QED
  BY <1>2, <1>3, <1>4, <1>5, <1>6, <1>7

\* ObCreateObject, whatever the routine that called it does next.
LEMMA NewObjectInv ==
  ASSUME Inv, NEW t \in Threads, NEW o \in Objects, NEW ty \in Types, NEW n \in Names,
         ObCreateObject(t, o, ty, n), NEW m, Keeps(t, m), SameHandleSteps, SameDeletions,
         \A x \in Objects : Calls(stack', x) = Calls(stack, x),
         \A k \in m + 1 .. Len(stack'[t]) : AllOK(t, k)'
  PROVE  Inv'
<1>1. /\ status[o] = "None" /\ FreshName(n)
      /\ status' = [status EXCEPT ![o] = "Live"] /\ type' = [type EXCEPT ![o] = ty]
      /\ name' = [name EXCEPT ![o] = n] /\ refs' = [refs EXCEPT ![o] = 1]
      /\ creator' = [creator EXCEPT ![o] = t]
      /\ parent' = parent /\ linkTarget' = linkTarget /\ linkPath' = linkPath /\ handles' = handles
      /\ list' = list /\ ready' = ready /\ table' = table /\ tableLock' = tableLock
      /\ owned' = owned /\ opened' = opened /\ revived' = revived /\ damaged' = damaged
  BY DEF ObCreateObject, spaceVars, tableVars, historyVars
<1>2. \A x \in Objects :
         /\ x # o => /\ status'[x] = status[x] /\ type'[x] = type[x] /\ name'[x] = name[x]
                     /\ refs'[x] = refs[x] /\ creator'[x] = creator[x]
         /\ x = o => /\ status'[x] = "Live" /\ type'[x] = ty /\ name'[x] = n
                     /\ refs'[x] = 1 /\ creator'[x] = t
  BY <1>1 DEF Inv, TypeInv
<1>3. /\ Count(stack, RoutineFrames(o)) = 0 /\ Count(stack, FreeFrames(o)) = 0
      /\ creator[o] = NoThread /\ parent[o] = NoObject /\ linkTarget[o] = NoObject /\ handles[o] = 0
      /\ (\A h \in Handles : table[h] # o) /\ refs[o] = 0 /\ InNoList(o)
  BY <1>1, BlankIs
<1>4. t # NoThread /\ \A x \in Objects : x # NoObject
  BY ObjectManagerAssumption DEF Directories
<1>5. StackType' /\ StackType /\ stack' \in Stacks
  BY Refs DEF Keeps, StackType
<1>6. TypeInv'
  <2>1. "Live" \in {"None", "Live", "Freed"} /\ n \in Names \cup {NoName} /\ 1 \in Int /\ t \in Threads \cup {NoThread}
    OBVIOUS
  <2>2. /\ status' \in [Objects -> {"None", "Live", "Freed"}] /\ type' \in [Objects -> Types]
        /\ name' \in [Objects -> Names \cup {NoName}] /\ refs' \in [Objects -> Int]
        /\ creator' \in [Objects -> Threads \cup {NoThread}]
    BY <1>1, <2>1 DEF Inv, TypeInv
  <2>3. stack' \in [Threads -> Seq(Frames)]
    BY <1>5 DEF Stacks
  <2> QED
    BY <1>1, <2>2, <2>3 DEF Inv, TypeInv
<1>7. FiniteInv'
  <2>1. IsFiniteSet(Places(stack', Frames)) /\ Places(stack', Frames) = Places(stack, Frames)' /\ Frames' = Frames
    BY <1>5 DEF StackType, Places, Frames
  <2>2. \A x \in Objects : Owners(x)' = Owners(x)
    BY <1>1, OwnersKept
  <2>3. {x \in Objects : status'[x] # "None"} = {x \in Objects : status[x] # "None"} \cup {o}
    BY <1>2
  <2>4. IsFiniteSet({x \in Objects : status'[x] # "None"})
    BY <2>3, FS_AddElement DEF Inv, FiniteInv
  <2> QED
    BY <1>1, <2>1, <2>2, <2>4 DEF Inv, FiniteInv
<1>8. CountInv'
  <2>1. \A x : HandlesTo(x)' = HandlesTo(x)
    BY <1>1, <1>5, HandlesToKept
  <2>2. ASSUME NEW x \in Objects PROVE LinksTo(x)' = LinksTo(x)
    <3>1. CountsAre /\ CountsAre'
      BY <1>5, Refs, PendingWillBe
    <3>2. /\ LinksTo(x) = {l \in Objects : /\ status[l] = "Live" /\ linkTarget[l] = x
                                            /\ Count(stack, FreeFrames(l)) = 0}
          /\ LinksTo(x)' = {l \in Objects : /\ status'[l] = "Live" /\ linkTarget'[l] = x
                                             /\ Count(stack', FreeFrames(l)) = 0}
      BY <3>1 DEF CountsAre, FreeFrames
    <3>3. ASSUME NEW l \in Objects
          PROVE  (status[l] = "Live" /\ linkTarget[l] = x /\ Count(stack, FreeFrames(l)) = 0)
                   <=> (status'[l] = "Live" /\ linkTarget'[l] = x /\ Count(stack', FreeFrames(l)) = 0)
      BY <1>1, <1>2, <1>3, <1>4 DEF SameDeletions
    <3> QED
      BY <3>2, <3>3
  <2>3. ASSUME NEW x \in Objects PROVE References(x)' = refs'[x]
    <3>1. References(x)' = Bit(creator'[x] # NoThread) + Cardinality(Owners(x)') + Cardinality(HandlesTo(x)')
                             + Cardinality(LinksTo(x)') + Calls(stack', x)
      BY <1>6, <1>7, RefsAfter
    <3>2. Owners(x)' = Owners(x)
      BY <1>1, OwnersKept
    <3>3. References(x)' = Bit(creator'[x] # NoThread) + Cardinality(Owners(x)) + Cardinality(HandlesTo(x))
                             + Cardinality(LinksTo(x)) + Calls(stack, x)
      BY <3>1, <3>2, <2>1, <2>2
    <3>4. /\ refs[x] = Bit(creator[x] # NoThread) + Cardinality(Owners(x)) + Cardinality(HandlesTo(x))
                      + Cardinality(LinksTo(x)) + Calls(stack, x)
          /\ Cardinality(Owners(x)) \in Nat /\ Cardinality(HandlesTo(x)) \in Nat
          /\ Cardinality(LinksTo(x)) \in Nat /\ Calls(stack, x) \in Nat
      BY RefsBefore
    <3>5. CASE x = o
      <4>1. Bit(creator'[x] # NoThread) = 1 /\ Bit(creator[x] # NoThread) = 0 /\ refs[x] = 0 /\ refs'[x] = 1
        BY <1>2, <1>3, <1>4, <3>5 DEF Bit
      <4> QED
        BY <3>3, <3>4, <4>1
    <3>6. CASE x # o
      <4>1. Bit(creator'[x] # NoThread) = Bit(creator[x] # NoThread) /\ refs'[x] = refs[x]
        BY <1>2, <3>6
      <4> QED
        BY <3>3, <3>4, <4>1
    <3> QED
      BY <3>5, <3>6
  <2>4. \A x \in Objects : status'[x] # "Live" => refs'[x] = 0
    BY <1>2, RefsBefore
  <2> QED
    BY <2>3, <2>4 DEF CountInv
<1>9. HandleInv'
  <2>1. ASSUME NEW h \in Handles
        PROVE  /\ Count(stack', HandleFrames(h)) <= 1
               /\ table'[h] # NoObject => status'[table'[h]] # "None"
    <3>1. table[h] \in Objects \cup {NoObject}
      BY DEF Inv, TypeInv
    <3> QED
      BY <3>1, <1>1, <1>2 DEF Inv, HandleInv, SameHandleSteps
  <2>2. \A h \in opened' : table'[h] # NoObject
    BY <1>1 DEF Inv, HandleInv
  <2>3. ASSUME NEW x \in Objects
        PROVE  IF status'[x] = "Live"
               THEN handles'[x] = Cardinality({h \in Handles : table'[h] = x
                                                  /\ Count(stack', UncountedFrames(h)) = 0})
               ELSE handles'[x] = 0
    <3>1. {h \in Handles : table'[h] = x /\ Count(stack', UncountedFrames(h)) = 0}
            = {h \in Handles : table[h] = x /\ Count(stack, UncountedFrames(h)) = 0}
      BY <1>1 DEF SameHandleSteps
    <3>2. CASE x = o
      <4>1. \A h \in Handles : table'[h] # x
        BY <1>1, <1>3, <3>2
      <4>2. {h \in Handles : table'[h] = x /\ Count(stack', UncountedFrames(h)) = 0} = {}
        BY ONLY <4>1
      <4>3. handles'[x] = 0
        BY <1>1, <1>2, <1>3, <3>2
      <4> QED
        BY ONLY <4>2, <4>3, FS_EmptySet
    <3>3. CASE x # o
      <4>1. handles'[x] = handles[x] /\ (status'[x] = "Live" <=> status[x] = "Live")
        BY <3>3, <1>1, <1>2
      <4>2. IF status[x] = "Live"
            THEN handles[x] = Cardinality({h \in Handles : table[h] = x
                                              /\ Count(stack, UncountedFrames(h)) = 0})
            ELSE handles[x] = 0
        BY DEF Inv, HandleInv
      <4> QED
        BY ONLY <3>1, <4>1, <4>2
    <3> QED
      BY <3>2, <3>3
  <2>4. \A h : HandleFrames(h)' = HandleFrames(h) /\ UncountedFrames(h)' = UncountedFrames(h)
    BY DEF HandleFrames, UncountedFrames
  <2> QED
    BY <2>1, <2>2, <2>3, <2>4 DEF HandleInv, Count, Places
<1>10. ListInv'
  <2>1. ASSUME NEW d \in Directories, NEW i \in DOMAIN list[d]
        PROVE  status'[list[d][i]] = "Live" /\ parent'[list[d][i]] = d
    <3>1. list[d][i] \in Objects
      <4>1. list[d] \in Seq(Objects)
        BY DEF Inv, TypeInv
      <4> QED
        BY <4>1, LenProperties, ElementOfSeq
    <3>2. status[list[d][i]] = "Live" /\ parent[list[d][i]] = d
      BY DEF Inv, ListInv
    <3> QED
      BY <3>1, <3>2, <1>1, <1>2
  <2> QED
    BY <1>1, <2>1 DEF ListInv, Inv
<1>11. ObjectInv'
  <2>1. ASSUME NEW x \in Objects, NEW y \in Objects, status'[x] = "Live", status'[y] = "Live", name'[x] = name'[y]
        PROVE  x = y
    <3>1. \A z \in Objects : status[z] = "Live" => name[z] # n
      BY <1>1 DEF FreshName
    <3> QED
      BY <2>1, <3>1, <1>2 DEF Inv, ObjectInv
  <2>2. ASSUME NEW x \in Objects, x = o
        PROVE  /\ status'[x] = "Live" /\ linkTarget'[x] = NoObject /\ parent'[x] = NoObject /\ creator'[x] # NoThread
               /\ Count(stack', RoutineFrames(x)) + Count(stack', FreeFrames(x)) <= 1
    BY <2>2, <1>1, <1>2, <1>3, <1>4 DEF SameDeletions
  <2>3. ASSUME NEW x \in Objects, x # o
        PROVE  /\ status'[x] # "Live" => parent'[x] = NoObject /\ linkTarget'[x] = NoObject
               /\ linkTarget'[x] # NoObject => type'[x] = "SymbolicLink" /\ status'[linkTarget'[x]] # "None"
               /\ type'[x] = "SymbolicLink" =>
                     /\ status'[x] = "Live"
                     /\ parent'[x] # NoObject => linkPath'[x] # << >>
                     /\ creator'[x] = NoThread => parent'[x] # NoObject
                     /\ Count(stack', RoutineFrames(x)) + Count(stack', FreeFrames(x)) <= 1
    <3>1. linkTarget[x] \in Objects \cup {NoObject}
      BY DEF Inv, TypeInv
    <3>2. linkTarget[x] # NoObject => status'[linkTarget[x]] # "None"
      BY <3>1, <1>2 DEF Inv, ObjectInv
    <3> QED
      BY <2>3, <3>2, <1>1, <1>2 DEF Inv, ObjectInv, SameDeletions
  <2>4. \A x : FreeFrames(x)' = FreeFrames(x) /\ RoutineFrames(x)' = RoutineFrames(x)
    BY DEF FreeFrames, RoutineFrames
  <2> QED
    BY <2>1, <2>2, <2>3, <2>4 DEF ObjectInv, Count, Places
<1>12. FrameInv'
  <2>1. Steady
    BY <1>1, <1>2 DEF Steady, InNoList
  <2>2. \A u \in Threads : OwnSteady(u)
    <3>1. NoThread \notin Threads
      BY ObjectManagerAssumption
    <3>2. \A u \in Threads, x \in Objects : owned'[u][x] <= owned[u][x]
      BY <1>1 DEF Inv, TypeInv
    <3> QED
      BY <1>1, <1>2, <1>3, <3>1, <3>2 DEF OwnSteady
  <2>3. HandlesSteady(t, m)
    BY <1>1, HandlesAreSteady DEF Inv
  <2> QED
    BY <1>6, <2>1, <2>2, <2>3, FramesKept DEF Inv
<1> QED
  BY <1>6, <1>7, <1>8, <1>9, <1>10, <1>11, <1>12 DEF Inv

LEMMA CreateObjectInv ==
  ASSUME Inv, NEW t \in Threads, NEW o \in Objects, NEW n \in Names, CreateObject(t, o, n)
  PROVE  Inv'
<1>1. stack[t] = << >> /\ stack' = stack /\ ObCreateObject(t, o, "Other", n) /\ "Other" \in Types
  BY DEF CreateObject, Idle, Types
<1>2. Len(stack'[t]) = 0 /\ Keeps(t, 0)
  <2>1. stack \in Stacks /\ IsFiniteSet(Places(stack, Frames))
    BY Refs DEF StackType
  <2>2. Len(stack[t]) = 0
    BY <1>1, EmptySeq
  <2> QED
    BY <1>1, <2>1, <2>2 DEF Keeps
<1>3. SameHandleSteps /\ SameDeletions /\ \A x \in Objects : Calls(stack', x) = Calls(stack, x)
  BY <1>1 DEF SameHandleSteps, SameDeletions
<1>4. 0 + 1 .. Len(stack'[t]) = {}
  BY <1>2
<1> QED
  BY <1>1, <1>2, <1>3, <1>4, NewObjectInv

LEMMA ObCreateDirectoryInv ==
  ASSUME Inv, NEW t \in Threads, NEW o \in Objects, NEW n \in Names, NEW d \in Directories,
         ObCreateDirectory(t, o, n, d)
  PROVE  Inv'
<1>1. /\ stack[t] = << >> /\ ObCreateObject(t, o, "Directory", n) /\ "Directory" \in Types
      /\ Enter(t, [Frame("InsertDirectory", o) EXCEPT !.dir = d])
  BY DEF ObCreateDirectory, Idle, Types
<1>2. PICK b : b = Frame("InsertDirectory", o)
  OBVIOUS
<1>3. b \in Frames /\ b.at = "InsertDirectory" /\ b.obj = o /\ b.handle = NoHandle /\ b.target = NoObject
  BY <1>2, FrameIs DEF Steps
<1>4. PICK g : g = [b EXCEPT !.dir = d]
  OBVIOUS
<1>5. g \in Frames /\ g.at = "InsertDirectory" /\ g.obj = o /\ g.handle = NoHandle /\ g.target = NoObject
  BY <1>3, <1>4 DEF Frames
<1>6. Plain(g) /\ Enter(t, g)
  BY <1>1, <1>2, <1>4, <1>5 DEF Plain
<1>7. /\ Keeps(t, 0) /\ SameHandleSteps /\ SameDeletions
      /\ \A x \in Objects : Calls(stack', x) = Calls(stack, x) + Weight(g, x)
      /\ \A k \in 0 + 1 .. Len(stack'[t]) : k = 1 /\ stack'[t][k] = g
  BY <1>1, <1>5, <1>6, EnterIs
<1>8. ASSUME NEW x \in Objects PROVE Calls(stack', x) = Calls(stack, x)
  <2>1. Weight(g, x) = 0
    BY <1>5, WeightsAre DEF OnSteps
  <2>2. Calls(stack, x) \in Nat
    BY Refs
  <2> QED
    BY <1>7, <2>1, <2>2
<1>9. status'[o] = "Live" /\ creator'[o] = t /\ parent'[o] = NoObject /\ type'[o] = "Directory"
  <2>1. parent[o] = NoObject
    BY <1>1, BlankIs DEF ObCreateObject
  <2> QED
    BY <1>1, <2>1 DEF ObCreateObject, Inv, TypeInv
<1>10. FrameOK(t, 1, g)' /\ g.at \notin LookupSteps
  BY <1>5, <1>9, ObjectManagerAssumption DEF FrameOK, LookupSteps, Directories, OwnSteps
<1>11. \A k \in 0 + 1 .. Len(stack'[t]) : AllOK(t, k)'
  BY <1>7, <1>10 DEF AllOK
<1> QED
  BY <1>1, <1>7, <1>8, <1>11, NewObjectInv

LEMMA ObCreateSymbolicLinkMakeInv ==
  ASSUME Inv, NEW t \in Threads, NEW o \in Objects, NEW n \in Names, NEW where \in Paths \cup {<< >>},
         ObCreateSymbolicLinkMake(t, o, n, where)
  PROVE  Inv'
<1>1. At(t, "MakeLink") /\ ObCreateObject(t, o, "SymbolicLink", n) /\ "SymbolicLink" \in Types
  BY DEF ObCreateSymbolicLinkMake, Types
<1>2. PICK f \in Frames :
         /\ f = Top(t) /\ f.at = "MakeLink" /\ stack[t] # << >> /\ FrameOK(t, Len(stack[t]), f)
         /\ Len(stack[t]) \in Nat \ {0}
  BY <1>1, AtIs
<1>3. /\ Len(stack[t]) = 1 /\ f.handle = NoHandle /\ f.arg # << >> /\ Plain(f)
      /\ f.target # NoObject => status[f.target] # "None"
  BY <1>2 DEF FrameOK, Plain
<1>4. f.target \in Objects \cup {NoObject} /\ f.arg \in Seq(Names)
  BY <1>2, FrameType
<1>12. PICK b : b = Frame("FinishLink", o)
  OBVIOUS
<1>13. b \in Frames /\ b.at = "FinishLink" /\ b.obj = o /\ b.handle = NoHandle /\ b.dir = NoObject
  BY <1>12, FrameIs DEF Steps
<1>14. PICK c : c = [b EXCEPT !.target = f.target, !.arg = f.arg]
  OBVIOUS
<1>15. /\ c \in Frames /\ c.at = "FinishLink" /\ c.obj = o /\ c.handle = NoHandle /\ c.dir = NoObject
       /\ c.target = f.target /\ c.arg = f.arg
  BY <1>4, <1>13, <1>14 DEF Frames
<1>16. Root \in Directories \cup {NoObject} /\ Root \notin Objects /\ NoObject \notin Objects
  BY ObjectManagerAssumption DEF Directories
<1>5. /\ status'[o] = "Live" /\ creator'[o] = t /\ parent'[o] = NoObject
      /\ type'[o] = "SymbolicLink" /\ linkTarget'[o] = NoObject
      /\ f.target # NoObject => status'[f.target] # "None"
  <2>1. parent[o] = NoObject /\ linkTarget[o] = NoObject /\ status[o] = "None"
    BY <1>1, BlankIs DEF ObCreateObject
  <2> QED
    BY <1>1, <1>3, <1>4, <2>1 DEF ObCreateObject, Inv, TypeInv
<1>6. \A x \in Objects : Calls(stack, x) \in Nat /\ Weight(f, x) = Bit(f.target = x) /\ Weight(f, x) \in Nat
  BY <1>2, Refs, WeightsAre, WeightType
<1>7. ASSUME NEW g \in Frames, g.at = "FinishLink", g.obj = o, g.handle = NoHandle,
             g.target = f.target, g.arg = f.arg, g.dir \notin Objects
      PROVE  Plain(g) /\ FrameOK(t, 1, g)' /\ g.at \notin LookupSteps /\ \A x \in Objects : Weight(g, x) = Weight(f, x)
  <2>1. Plain(g)
    BY <1>7 DEF Plain
  <2>2. FrameOK(t, 1, g)' /\ g.at \notin LookupSteps
    BY <1>3, <1>5, <1>7, ObjectManagerAssumption DEF FrameOK, LookupSteps, Directories, OwnSteps
  <2>3. ASSUME NEW x \in Objects PROVE Weight(g, x) = Weight(f, x)
    <3>1. Weight(g, x) = Bit(g.target = x) + Bit(g.dir = x) /\ Weight(f, x) = Bit(f.target = x)
      BY <1>2, <1>7, WeightsAre
    <3>2. Bit(g.dir = x) = 0
      BY <1>7 DEF Bit
    <3>3. Bit(f.target = x) \in Nat
      BY DEF Bit
    <3> QED
      BY <1>7, <3>1, <3>2, <3>3
  <2> QED
    BY <2>1, <2>2, <2>3
<1>8. CASE where = << >>
  <2>1. PICK g : g = [c EXCEPT !.dir = Root]
    OBVIOUS
  <2>2. /\ g \in Frames /\ g.at = "FinishLink" /\ g.obj = o /\ g.handle = NoHandle
        /\ g.target = f.target /\ g.arg = f.arg /\ g.dir \notin Objects
    BY <1>15, <1>16, <2>1 DEF Frames
  <2>3. Goto(t, g)
    BY <1>2, <1>8, <1>12, <1>14, <2>1 DEF ObCreateSymbolicLinkMake
  <2>4. Plain(g) /\ FrameOK(t, 1, g)' /\ g.at \notin LookupSteps /\ \A x \in Objects : Weight(g, x) = Weight(f, x)
    BY <1>7, <2>2
  <2>5. /\ Keeps(t, Len(stack[t]) - 1) /\ SameHandleSteps /\ SameDeletions
        /\ \A x \in Objects : Calls(stack', x) = Calls(stack, x) - Weight(f, x) + Weight(g, x)
        /\ \A k \in Len(stack[t]) - 1 + 1 .. Len(stack'[t]) : k = Len(stack[t]) /\ stack'[t][k] = g
    BY <1>2, <1>3, <2>2, <2>3, <2>4, GotoIs
  <2>6. ASSUME NEW x \in Objects PROVE Calls(stack', x) = Calls(stack, x)
    <3>1. Weight(f, x) \in Nat /\ Calls(stack, x) \in Nat /\ Weight(g, x) = Weight(f, x)
      BY <1>6, <2>4
    <3> QED
      BY <2>5, <3>1
  <2>7. \A k \in Len(stack[t]) - 1 + 1 .. Len(stack'[t]) : AllOK(t, k)'
    BY <1>3, <2>4, <2>5 DEF AllOK
  <2> QED
    BY <1>1, <2>5, <2>6, <2>7, NewObjectInv
<1>9. CASE where # << >>
  <2>1. PICK g : g = c
    OBVIOUS
  <2>2. PICK e : e = Lookup(where, "LinkDirectory")
    OBVIOUS
  <2>4. /\ g \in Frames /\ g.at = "FinishLink" /\ g.obj = o /\ g.handle = NoHandle
        /\ g.target = f.target /\ g.arg = f.arg /\ g.dir \notin Objects /\ g.dir = NoObject
    BY <1>15, <1>16, <2>1
  <2>5. Plain(g) /\ FrameOK(t, 1, g)' /\ g.at \notin LookupSteps /\ \A x \in Objects : Weight(g, x) = Weight(f, x)
    BY <1>7, <2>4
  <2>6. where \in Seq(Names)
    BY ObjectManagerAssumption, EmptySeq
  <2>7. /\ e \in Frames /\ e.at = "Find" /\ e.obj = NoObject /\ e.use = "LinkDirectory" /\ e.path = where
        /\ e.arg = where /\ e.target = NoObject /\ e.handle = NoHandle
    BY <2>2, <2>6, LookupIs DEF Uses
  <2>8. stack' = Push(Push(Pop(stack, t), t, g), t, e)
    BY <1>2, <1>9, <1>12, <1>14, <2>1, <2>2 DEF ObCreateSymbolicLinkMake
  <2>9. StackType /\ Top(t) \in Frames
    BY <1>2, Refs
  <2>10. /\ Keeps(t, Len(stack[t]) - 1) /\ Len(stack'[t]) = Len(stack[t]) + 1
         /\ stack'[t][Len(stack[t])] = g /\ stack'[t][Len(stack[t]) + 1] = e
         /\ \A F : Count(stack', F) = Count(stack, F) - Bit(f \in F) + Bit(g \in F) + Bit(e \in F)
    BY <1>2, <2>4, <2>7, <2>8, <2>9, GotoEnterStack DEF StackType
  <2>11. SameHandleSteps /\ SameDeletions
    <3>1. Plain(e)
      BY <2>7 DEF Plain
    <3> QED
      BY <1>2, <1>3, <2>4, <2>5, <2>7, <2>9, <2>10, <3>1, PlainSplit
  <2>12. ASSUME NEW x \in Objects PROVE Calls(stack', x) = Calls(stack, x)
    <3>1. Weight(f, x) \in Nat /\ Calls(stack, x) \in Nat /\ Weight(g, x) = Weight(f, x)
      BY <1>6, <2>5
    <3>2. Weight(e, x) = 0
      BY <2>7, WeightsAre DEF OnSteps
    <3>3. Calls(stack', x) = Calls(stack, x) - Weight(f, x) + Weight(g, x) + Weight(e, x)
      BY <2>9, <2>10, SplitCalls
    <3> QED
      BY <3>1, <3>2, <3>3
  <2>13. stack'[t][1] = g /\ stack'[t][2] = e
    BY <1>3, <2>10
  <2>14. LookupOK(t, 2, e)' /\ FrameOK(t, 2, e)'
    <3>1. FrameOK(t, 2, e)'
      BY <1>9, <2>7 DEF FrameOK, OwnSteps
    <3>2. LookupOK(t, 2, e)'
      BY <1>9, <2>4, <2>7, <2>13 DEF LookupOK
    <3> QED
      BY <3>1, <3>2
  <2>15. \A k \in Len(stack[t]) - 1 + 1 .. Len(stack'[t]) : AllOK(t, k)'
    <3>1. \A k \in Len(stack[t]) - 1 + 1 .. Len(stack'[t]) : k = 1 \/ k = 2
      BY <1>3, <2>10
    <3>2. AllOK(t, 1)' /\ AllOK(t, 2)'
      BY <2>5, <2>13, <2>14 DEF AllOK
    <3> QED
      BY <3>1, <3>2
  <2> QED
    BY <1>1, <2>10, <2>11, <2>12, <2>15, NewObjectInv
<1> QED
  BY <1>8, <1>9

-----------------------------------------------------------------------------
(* Directories and links. *)

\* Nobody deletes an object that is referenced.
LEMMA ReferencedIsKept ==
  ASSUME Inv, NEW o \in Objects, refs[o] # 0
  PROVE  Count(stack, RoutineFrames(o)) = 0 /\ Count(stack, FreeFrames(o)) = 0
<1>1. ASSUME NEW u \in Threads, NEW k \in DOMAIN stack[u]
      PROVE  stack[u][k] \notin RoutineFrames(o) /\ stack[u][k] \notin FreeFrames(o)
  <2>1. PICK f : f = stack[u][k]
    OBVIOUS
  <2>2. FrameOK(u, k, f)
    BY <2>1 DEF Inv, FrameInv
  <2> QED
    BY <2>1, <2>2 DEF FrameOK, RoutineFrames, FreeFrames
<1> QED
  BY <1>1, FrameCountZero

\* A thread that has created an object inserts it into a directory; a symbolic link gets
\* its target then.
LEMMA InsertedInv ==
  ASSUME Inv, NEW t \in Threads, NEW o \in Objects, NEW d \in Directories, creator[o] = t,
         parent[o] = NoObject, linkTarget[o] = NoObject, Insert(d, o),
         UNCHANGED <<status, type, name, countVars, ready, tableVars, userVars, historyVars>>,
         Keeps(t, 0), SameHandleSteps, SameDeletions,
         linkTarget' \in [Objects -> Objects \cup {NoObject}], linkPath' \in [Objects -> Seq(Names)],
         \A x \in Objects : x # o => linkTarget'[x] = linkTarget[x] /\ linkPath'[x] = linkPath[x],
         type[o] = "SymbolicLink" => linkPath'[o] # << >>,
         linkTarget'[o] # NoObject => type[o] = "SymbolicLink" /\ status[linkTarget'[o]] # "None",
         \A x \in Objects : Calls(stack', x) = Calls(stack, x) - Bit(linkTarget'[o] = x),
         \A k \in 0 + 1 .. Len(stack'[t]) : AllOK(t, k)'
  PROVE  Inv'
<1>1. /\ status' = status /\ type' = type /\ name' = name /\ refs' = refs /\ handles' = handles
      /\ ready' = ready /\ table' = table /\ tableLock' = tableLock /\ creator' = creator
      /\ owned' = owned /\ opened' = opened /\ revived' = revived /\ damaged' = damaged
      /\ list' = [list EXCEPT ![d] = Append(@, o)] /\ parent' = [parent EXCEPT ![o] = d]
  BY DEF Insert, countVars, tableVars, userVars, historyVars
<1>2. t # NoThread /\ d # NoObject /\ \A x \in Directories : x # NoObject
  BY ObjectManagerAssumption
<1>3. status[o] = "Live" /\ refs[o] # 0
  BY <1>2, KeptAlive
<1>4. Count(stack, RoutineFrames(o)) = 0 /\ Count(stack, FreeFrames(o)) = 0
  BY <1>3, ReferencedIsKept
<1>5. \A x \in Objects : parent'[x] = IF x = o THEN d ELSE parent[x]
  BY <1>1 DEF Inv, TypeInv
<1>6. list[d] \in Seq(Objects) /\ Len(list[d]) \in Nat /\ DOMAIN list[d] = 1 .. Len(list[d])
  <2>1. list[d] \in Seq(Objects)
    BY DEF Inv, TypeInv
  <2> QED
    BY <2>1, LenProperties
<1>7. PICK s : s = Append(list[d], o)
  OBVIOUS
<1>8. /\ s \in Seq(Objects) /\ DOMAIN s = 1 .. Len(list[d]) + 1 /\ s[Len(list[d]) + 1] = o
      /\ \A i \in 1 .. Len(list[d]) : s[i] = list[d][i]
  <2>1. s \in Seq(Objects) /\ Len(s) = Len(list[d]) + 1
    BY <1>6, <1>7, AppendProperties
  <2>2. DOMAIN s = 1 .. Len(s)
    BY <2>1, LenProperties
  <2> QED
    BY <2>1, <2>2, <1>6, <1>7, AppendProperties
<1>9. \A e \in Directories : list'[e] = IF e = d THEN s ELSE list[e]
  BY <1>1, <1>7 DEF Inv, TypeInv
<1>19. \A k \in DOMAIN s : k = Len(list[d]) + 1 \/ (k \in DOMAIN list[d] /\ s[k] = list[d][k])
  <2>1. PICK n \in Nat : n = Len(list[d])
    BY <1>6
  <2>2. DOMAIN s = 1 .. n + 1 /\ DOMAIN list[d] = 1 .. n /\ \A i \in 1 .. n : s[i] = list[d][i]
    BY <1>6, <1>8, <2>1
  <2>3. \A k \in 1 .. n + 1 : k = n + 1 \/ k \in 1 .. n
    OBVIOUS
  <2> QED
    BY <2>1, <2>2, <2>3
<1>10. InNoList(o)
  BY <1>2 DEF Inv, ListInv, InNoList
<1>11. StackType' /\ StackType /\ stack' \in Stacks
  BY Refs DEF Keeps, StackType
<1>12. TypeInv'
  <2>1. list' \in [Directories -> Seq(Objects)]
    BY <1>1, <1>7, <1>8 DEF Inv, TypeInv
  <2>2. parent' \in [Objects -> Directories \cup {NoObject}]
    BY <1>1 DEF Inv, TypeInv
  <2>3. stack' \in [Threads -> Seq(Frames)]
    BY <1>11 DEF Stacks
  <2> QED
    BY <1>1, <2>1, <2>2, <2>3 DEF Inv, TypeInv
<1>13. FiniteInv'
  BY <1>1, <1>11, FiniteInvKept DEF Inv
<1>14. CountInv'
  <2>1. \A x : HandlesTo(x)' = HandlesTo(x)
    BY <1>1, <1>11, HandlesToKept
  <2>2. ASSUME NEW x \in Objects
        PROVE  Cardinality(LinksTo(x)') = Cardinality(LinksTo(x)) + Bit(linkTarget'[o] = x)
    <3>1. CountsAre /\ CountsAre'
      BY <1>11, Refs, PendingWillBe
    <3>2. /\ LinksTo(x) = {l \in Objects : /\ status[l] = "Live" /\ linkTarget[l] = x
                                            /\ Count(stack, FreeFrames(l)) = 0}
          /\ LinksTo(x)' = {l \in Objects : /\ status'[l] = "Live" /\ linkTarget'[l] = x
                                             /\ Count(stack', FreeFrames(l)) = 0}
      BY <3>1 DEF CountsAre, FreeFrames
    <3>3. ASSUME NEW l \in Objects, l # o
          PROVE  (status[l] = "Live" /\ linkTarget[l] = x /\ Count(stack, FreeFrames(l)) = 0)
                   <=> (status'[l] = "Live" /\ linkTarget'[l] = x /\ Count(stack', FreeFrames(l)) = 0)
      BY <3>3, <1>1 DEF SameDeletions
    <3>4. x # NoObject
      BY <1>2 DEF Directories
    <3>5. o \notin LinksTo(x) /\ (o \in LinksTo(x)' <=> linkTarget'[o] = x)
      BY <3>2, <3>4, <1>1, <1>3, <1>4 DEF SameDeletions
    <3>6. IsFiniteSet(LinksTo(x)) /\ Cardinality(LinksTo(x)) \in Nat
      BY Refs DEF ReferencesType
    <3>7. CASE linkTarget'[o] = x
      <4>1. LinksTo(x)' = LinksTo(x) \cup {o}
        BY <3>2, <3>3, <3>5, <3>7
      <4>2. Cardinality(LinksTo(x) \cup {o}) = Cardinality(LinksTo(x)) + 1
        BY <3>5, <3>6, FS_AddElement
      <4> QED
        BY <4>1, <4>2, <3>7 DEF Bit
    <3>8. CASE linkTarget'[o] # x
      <4>1. LinksTo(x)' = LinksTo(x)
        BY <3>2, <3>3, <3>5, <3>8
      <4>2. Bit(linkTarget'[o] = x) = 0
        BY <3>8 DEF Bit
      <4> QED
        BY <4>1, <4>2, <3>6
    <3> QED
      BY <3>7, <3>8
  <2>3. ASSUME NEW x \in Objects
        PROVE  Cardinality(HandlesTo(x)') + Cardinality(LinksTo(x)') + Calls(stack', x)
                  = Cardinality(HandlesTo(x)) + Cardinality(LinksTo(x)) + Calls(stack, x)
    <3>1. /\ Cardinality(HandlesTo(x)) \in Nat /\ Cardinality(LinksTo(x)) \in Nat /\ Calls(stack, x) \in Nat
      BY RefsBefore
    <3>2. Bit(linkTarget'[o] = x) \in Nat
      BY DEF Bit
    <3>3. Cardinality(HandlesTo(x)') = Cardinality(HandlesTo(x))
      BY <2>1
    <3>4. Calls(stack', x) = Calls(stack, x) - Bit(linkTarget'[o] = x)
      OBVIOUS
    <3> QED
      BY <3>1, <3>2, <3>3, <3>4, <2>2
  <2> QED
    BY <1>1, <1>12, <1>13, <2>3, CountInvKept
<1>15. HandleInv'
  BY <1>1, HandleInvKept DEF Inv
<1>16. ListInv'
  <2>1. ASSUME NEW e \in Directories, NEW i \in DOMAIN list[e]
        PROVE  status[list[e][i]] = "Live" /\ parent'[list[e][i]] = e /\ list[e][i] # o
    <3>1. list[e][i] \in Objects
      <4>1. list[e] \in Seq(Objects)
        BY DEF Inv, TypeInv
      <4> QED
        BY <4>1, LenProperties, ElementOfSeq
    <3>2. status[list[e][i]] = "Live" /\ parent[list[e][i]] = e
      BY DEF Inv, ListInv
    <3>3. list[e][i] # o
      BY <1>10 DEF InNoList
    <3> QED
      BY <3>1, <3>2, <3>3, <1>5
  <2>2. ASSUME NEW e \in Directories, e # d
        PROVE  /\ \A i \in DOMAIN list'[e] : status'[list'[e][i]] = "Live" /\ parent'[list'[e][i]] = e
               /\ \A i, j \in DOMAIN list'[e] : list'[e][i] = list'[e][j] => i = j
    BY <2>1, <2>2, <1>1, <1>9 DEF Inv, ListInv
  <2>3. ASSUME NEW i \in DOMAIN s PROVE status[s[i]] = "Live" /\ parent'[s[i]] = d
    <3>1. CASE i = Len(list[d]) + 1
      BY <3>1, <1>3, <1>5, <1>8
    <3>2. CASE i # Len(list[d]) + 1
      <4>1. i \in DOMAIN list[d] /\ s[i] = list[d][i]
        BY ONLY <2>3, <3>2, <1>19
      <4> QED
        BY <4>1, <2>1
    <3> QED
      BY <3>1, <3>2
  <2>4. ASSUME NEW i \in DOMAIN s, NEW j \in DOMAIN s, s[i] = s[j] PROVE i = j
    <3>2. \A k \in DOMAIN list[d] : list[d][k] # o
      BY <2>1
    <3>3. \A k, l \in DOMAIN list[d] : list[d][k] = list[d][l] => k = l
      BY DEF Inv, ListInv
    <3>4. s[Len(list[d]) + 1] = o
      BY <1>8
    <3> QED
      BY ONLY <1>19, <3>2, <3>3, <3>4, <2>4
  <2>5. list'[d] = s
    BY <1>9
  <2>6. ASSUME NEW e \in Directories
        PROVE  /\ \A i \in DOMAIN list'[e] : status'[list'[e][i]] = "Live" /\ parent'[list'[e][i]] = e
               /\ \A i, j \in DOMAIN list'[e] : list'[e][i] = list'[e][j] => i = j
    <3>1. CASE e = d
      <4>1. /\ \A i \in DOMAIN s : status'[s[i]] = "Live" /\ parent'[s[i]] = d
            /\ \A i, j \in DOMAIN s : s[i] = s[j] => i = j
        BY <1>1, <2>3, <2>4
      <4>2. list'[e] = s
        BY <2>5, <3>1
      <4> QED
        BY ONLY <3>1, <4>1, <4>2
    <3>2. CASE e # d
      BY <3>2, <2>2
    <3> QED
      BY <3>1, <3>2
  <2> QED
    BY <2>6 DEF ListInv
<1>17. ObjectInv'
  <2>1. ASSUME NEW x \in Objects, NEW y \in Objects, status'[x] = "Live", status'[y] = "Live", name'[x] = name'[y]
        PROVE  x = y
    BY <2>1, <1>1 DEF Inv, ObjectInv
  <2>2. \A x \in Objects : Count(stack', RoutineFrames(x)) = Count(stack, RoutineFrames(x))
                            /\ Count(stack', FreeFrames(x)) = Count(stack, FreeFrames(x))
    BY DEF SameDeletions
  <2>3. ASSUME NEW x \in Objects, x = o
        PROVE  /\ status'[x] = "Live"
               /\ linkTarget'[x] # NoObject => type'[x] = "SymbolicLink" /\ status'[linkTarget'[x]] # "None"
               /\ type'[x] = "SymbolicLink" => linkPath'[x] # << >>
               /\ parent'[x] # NoObject
               /\ Count(stack', RoutineFrames(x)) + Count(stack', FreeFrames(x)) <= 1
    BY <2>3, <2>2, <1>1, <1>2, <1>3, <1>4, <1>5
  <2>4. ASSUME NEW x \in Objects, x # o
        PROVE  /\ status'[x] # "Live" => parent'[x] = NoObject /\ linkTarget'[x] = NoObject
               /\ linkTarget'[x] # NoObject => type'[x] = "SymbolicLink" /\ status'[linkTarget'[x]] # "None"
               /\ type'[x] = "SymbolicLink" =>
                     /\ status'[x] = "Live"
                     /\ parent'[x] # NoObject => linkPath'[x] # << >>
                     /\ creator'[x] = NoThread => parent'[x] # NoObject
                     /\ Count(stack', RoutineFrames(x)) + Count(stack', FreeFrames(x)) <= 1
    <3>1. parent'[x] = parent[x] /\ linkTarget'[x] = linkTarget[x] /\ linkPath'[x] = linkPath[x]
      BY <2>4, <1>5
    <3> QED
      BY <3>1, <2>2, <1>1 DEF Inv, ObjectInv
  <2>5. \A x : FreeFrames(x)' = FreeFrames(x) /\ RoutineFrames(x)' = RoutineFrames(x)
    BY DEF FreeFrames, RoutineFrames
  <2> QED
    BY <2>1, <2>3, <2>4, <2>5 DEF ObjectInv, Count, Places
<1>18. FrameInv'
  <2>1. ASSUME NEW x \in Objects, x # o, InNoList(x) PROVE InNoList(x)'
    <3>1. ASSUME NEW e \in Directories, NEW i \in DOMAIN list'[e] PROVE list'[e][i] # x
      <4>1. CASE e = d
        <5>1. s[i] = o \/ (i \in DOMAIN list[d] /\ s[i] = list[d][i])
          <6>1. i \in DOMAIN s
            BY <3>1, <4>1, <1>9
          <6>2. s[Len(list[d]) + 1] = o
            BY <1>8
          <6> QED
            BY ONLY <6>1, <6>2, <1>19
        <5> QED
          BY <5>1, <4>1, <1>9, <2>1 DEF InNoList
      <4>2. CASE e # d
        BY <3>1, <4>2, <1>9, <2>1 DEF InNoList
      <4> QED
        BY <4>1, <4>2
    <3> QED
      BY <3>1 DEF InNoList
  <2>2. \A x \in Objects : parent[x] # NoObject => parent'[x] # NoObject
    BY <1>2, <1>5
  <2>3. Steady
    BY <1>1, <1>3, <2>1, <2>2 DEF Steady
  <2>4. ASSUME NEW u \in Threads, u # t PROVE OwnSteady(u)
    <3>1. \A x \in Objects : owned'[u][x] <= owned[u][x]
      BY <1>1 DEF Inv, TypeInv
    <3>2. \A x \in Objects : creator[x] = u => x # o
      BY <2>4
    <3> QED
      BY <3>1, <3>2, <1>1, <1>5 DEF OwnSteady
  <2>5. HandlesSteady(t, 0)
    BY <1>1, HandlesAreSteady DEF Inv
  <2> QED
    BY <1>12, <2>3, <2>4, <2>5, FramesKept DEF Inv
<1> QED
  BY <1>12, <1>13, <1>14, <1>15, <1>16, <1>17, <1>18 DEF Inv

LEMMA ObInsertObjectInv ==
  ASSUME Inv, NEW t \in Threads, NEW o \in Objects, NEW d \in Directories, ObInsertObject(t, o, d)
  PROVE  Inv'
<1>1. /\ stack[t] = << >> /\ creator[o] = t /\ type[o] = "Other" /\ parent[o] = NoObject /\ Insert(d, o)
      /\ UNCHANGED <<status, type, name, linkTarget, linkPath, countVars, ready, tableVars, stack,
                     userVars, historyVars>>
  BY DEF ObInsertObject, Idle
<1>2. linkTarget[o] = NoObject
  BY <1>1 DEF Inv, ObjectInv
<1>3. Len(stack'[t]) = 0 /\ Keeps(t, 0)
  <2>1. stack \in Stacks /\ IsFiniteSet(Places(stack, Frames))
    BY Refs DEF StackType
  <2>2. Len(stack[t]) = 0
    BY <1>1, EmptySeq
  <2> QED
    BY <1>1, <2>1, <2>2 DEF Keeps
<1>4. SameHandleSteps /\ SameDeletions
  BY <1>1 DEF SameHandleSteps, SameDeletions
<1>5. ASSUME NEW x \in Objects PROVE Calls(stack', x) = Calls(stack, x) - Bit(linkTarget'[o] = x)
  <2>1. Bit(linkTarget'[o] = x) = 0
    BY <1>1, <1>2, ObjectManagerAssumption DEF Bit, Directories
  <2>2. Calls(stack, x) \in Nat
    BY Refs
  <2> QED
    BY <1>1, <2>1, <2>2
<1>6. 0 + 1 .. Len(stack'[t]) = {}
  BY <1>3
<1>7. linkTarget' \in [Objects -> Objects \cup {NoObject}] /\ linkPath' \in [Objects -> Seq(Names)]
  BY <1>1 DEF Inv, TypeInv
<1> QED
  BY <1>1, <1>2, <1>3, <1>4, <1>5, <1>6, <1>7, InsertedInv

LEMMA ObCreateDirectoryInsertInv ==
  ASSUME Inv, NEW t \in Threads, ObCreateDirectoryInsert(t)
  PROVE  Inv'
<1>1. /\ At(t, "InsertDirectory") /\ Insert(Top(t).dir, Top(t).obj)
      /\ Goto(t, Frame("InitDirectory", Top(t).obj))
      /\ UNCHANGED <<status, type, name, linkTarget, linkPath, countVars, ready,
                     tableVars, userVars, historyVars>>
  BY DEF ObCreateDirectoryInsert
<1>2. PICK f \in Frames :
         /\ f = Top(t) /\ f.at = "InsertDirectory" /\ stack[t] # << >> /\ FrameOK(t, Len(stack[t]), f)
         /\ f.obj \in Objects /\ status[f.obj] = "Live" /\ Len(stack[t]) \in Nat \ {0}
         /\ f.dir \in Directories
  BY <1>1, AtIs
<1>3. PICK o \in Objects, d \in Directories : o = f.obj /\ d = f.dir
  BY <1>2
<1>4. /\ f.handle = NoHandle /\ f.target = NoObject /\ Len(stack[t]) = 1 /\ creator[o] = t
      /\ parent[o] = NoObject /\ type[o] = "Directory" /\ status[o] = "Live" /\ Plain(f) /\ o # NoObject
  BY <1>2, <1>3 DEF FrameOK, OwnSteps, Plain
<1>5. linkTarget[o] = NoObject
  BY <1>4 DEF Inv, ObjectInv
<1>6. PICK g : g = Frame("InitDirectory", o)
  OBVIOUS
<1>7. g \in Frames /\ g.at = "InitDirectory" /\ g.obj = o /\ g.handle = NoHandle /\ g.target = NoObject
  BY <1>6, FrameIs DEF Steps
<1>8. Plain(g) /\ Goto(t, g)
  BY <1>1, <1>2, <1>3, <1>6, <1>7 DEF Plain
<1>9. /\ Keeps(t, 0) /\ SameHandleSteps /\ SameDeletions
      /\ \A x \in Objects : Calls(stack', x) = Calls(stack, x) - Weight(f, x) + Weight(g, x)
      /\ \A k \in 0 + 1 .. Len(stack'[t]) : k = 1 /\ stack'[t][k] = g
  <2>1. /\ Keeps(t, Len(stack[t]) - 1) /\ SameHandleSteps /\ SameDeletions
        /\ \A x \in Objects : Calls(stack', x) = Calls(stack, x) - Weight(f, x) + Weight(g, x)
        /\ \A k \in Len(stack[t]) - 1 + 1 .. Len(stack'[t]) : k = Len(stack[t]) /\ stack'[t][k] = g
    BY <1>2, <1>4, <1>7, <1>8, GotoIs
  <2>2. Len(stack[t]) - 1 = 0
    BY <1>4
  <2> QED
    BY <1>4, <2>1, <2>2
<1>10. ASSUME NEW x \in Objects PROVE Calls(stack', x) = Calls(stack, x) - Bit(linkTarget'[o] = x)
  <2>1. Bit(linkTarget'[o] = x) = 0
    BY <1>1, <1>5, ObjectManagerAssumption DEF Bit, Directories
  <2>2. Weight(f, x) = 0 /\ Weight(g, x) = 0
    BY <1>2, <1>4, <1>7, WeightsAre DEF OnSteps
  <2>3. Calls(stack, x) \in Nat
    BY Refs
  <2> QED
    BY <1>9, <2>1, <2>2, <2>3
<1>11. linkTarget' \in [Objects -> Objects \cup {NoObject}] /\ linkPath' \in [Objects -> Seq(Names)]
  BY <1>1 DEF Inv, TypeInv
<1>12. FrameOK(t, 1, g)' /\ g.at \notin LookupSteps
  <2>1. status'[o] = "Live" /\ creator'[o] = t
    BY <1>1, <1>4 DEF userVars
  <2> QED
    BY <1>4, <1>7, <2>1 DEF FrameOK, LookupSteps, OwnSteps
<1>13. \A k \in 0 + 1 .. Len(stack'[t]) : AllOK(t, k)'
  BY <1>9, <1>12 DEF AllOK
<1>14. Insert(d, o)
  BY <1>1, <1>2, <1>3
<1> QED
  BY <1>1, <1>4, <1>5, <1>9, <1>10, <1>11, <1>13, <1>14, InsertedInv

LEMMA ObCreateSymbolicLinkFinishInv ==
  ASSUME Inv, NEW t \in Threads, ObCreateSymbolicLinkFinish(t)
  PROVE  Inv'
<1>1. /\ At(t, "FinishLink") /\ Insert(Top(t).dir, Top(t).obj)
      /\ linkTarget' = [linkTarget EXCEPT ![Top(t).obj] = Top(t).target]
      /\ linkPath' = [linkPath EXCEPT ![Top(t).obj] = Top(t).arg]
      /\ UNCHANGED <<status, type, name, countVars, ready, tableVars, userVars, historyVars>>
  BY DEF ObCreateSymbolicLinkFinish
<1>2. PICK f \in Frames :
         /\ f = Top(t) /\ f.at = "FinishLink" /\ stack[t] # << >> /\ FrameOK(t, Len(stack[t]), f)
         /\ f.obj \in Objects /\ status[f.obj] = "Live" /\ Len(stack[t]) \in Nat \ {0}
         /\ f.dir \in Directories /\ IsDirectory(f.dir)
  BY <1>1, AtIs
<1>3. PICK o \in Objects, d \in Directories : o = f.obj /\ d = f.dir
  BY <1>2
<1>4. /\ f.handle = NoHandle /\ Len(stack[t]) = 1 /\ creator[o] = t /\ f.arg # << >>
      /\ parent[o] = NoObject /\ type[o] = "SymbolicLink" /\ linkTarget[o] = NoObject /\ Plain(f)
      /\ f.target # NoObject => status[f.target] # "None"
  BY <1>2, <1>3 DEF FrameOK, OwnSteps, Plain
<1>5. f.target \in Objects \cup {NoObject} /\ f.arg \in Seq(Names)
  BY <1>2, FrameType
<1>6. /\ linkTarget' \in [Objects -> Objects \cup {NoObject}] /\ linkPath' \in [Objects -> Seq(Names)]
      /\ linkTarget'[o] = f.target /\ linkPath'[o] = f.arg
      /\ \A x \in Objects : x # o => linkTarget'[x] = linkTarget[x] /\ linkPath'[x] = linkPath[x]
  <2>1. /\ linkTarget' = [linkTarget EXCEPT ![o] = f.target] /\ linkPath' = [linkPath EXCEPT ![o] = f.arg]
    BY <1>1, <1>2, <1>3
  <2> QED
    BY <1>5, <2>1 DEF Inv, TypeInv
<1>7. Insert(d, o)
  BY <1>1, <1>2, <1>3
<1>8. d # Root => d \in Objects /\ status[d] = "Live"
  BY <1>2, <1>3 DEF IsDirectory, Alive
<1>9. \A x \in Objects : /\ Calls(stack, x) \in Nat
                         /\ Weight(f, x) = Bit(linkTarget'[o] = x) + Bit(d = x)
                         /\ Bit(linkTarget'[o] = x) \in Nat /\ Bit(d = x) \in Nat
  BY <1>2, <1>3, <1>6, Refs, WeightsAre DEF Bit
<1>10. Len(stack[t]) - 1 = 0
  BY <1>4
<1>13. ASSUME Keeps(t, Len(stack[t]) - 1), SameHandleSteps, SameDeletions,
               \A x \in Objects : Calls(stack', x) = Calls(stack, x) - Bit(linkTarget'[o] = x),
               \A k \in Len(stack[t]) - 1 + 1 .. Len(stack'[t]) : AllOK(t, k)'
       PROVE  Inv'
  <2>1. Keeps(t, 0) /\ \A k \in 0 + 1 .. Len(stack'[t]) : AllOK(t, k)'
    BY ONLY <1>10, <1>13
  <2>2. /\ type[o] = "SymbolicLink" => linkPath'[o] # << >>
        /\ linkTarget'[o] # NoObject => type[o] = "SymbolicLink" /\ status[linkTarget'[o]] # "None"
    BY <1>4, <1>6
  <2> QED
    BY <1>1, <1>4, <1>6, <1>7, <1>13, <2>1, <2>2, InsertedInv
<1>11. CASE d = Root
  <2>1. Return(t)
    BY <1>2, <1>3, <1>11 DEF ObCreateSymbolicLinkFinish
  <2>2. /\ Keeps(t, Len(stack[t]) - 1) /\ SameHandleSteps /\ SameDeletions
        /\ \A x \in Objects : Calls(stack', x) = Calls(stack, x) - Weight(f, x)
        /\ \A k \in Len(stack[t]) - 1 + 1 .. Len(stack'[t]) : AllOK(t, k)'
    BY <1>2, <1>4, <2>1, PlainReturn DEF Plain
  <2>3. ASSUME NEW x \in Objects PROVE Calls(stack', x) = Calls(stack, x) - Bit(linkTarget'[o] = x)
    <3>1. Bit(d = x) = 0
      BY <1>11, ObjectManagerAssumption DEF Bit
    <3> QED
      BY <1>9, <2>2, <3>1
  <2> QED
    BY <1>13, <2>2, <2>3
<1>12. CASE d # Root
  <2>1. Goto(t, Frame("Decrement", d))
    BY <1>2, <1>3, <1>12 DEF ObCreateSymbolicLinkFinish
  <2>2. d \in Objects \cup {NoObject} /\ status'[d] # "None"
    BY <1>1, <1>8, <1>12
  <2>3. /\ Keeps(t, Len(stack[t]) - 1) /\ SameHandleSteps /\ SameDeletions
        /\ \A x \in Objects : Calls(stack', x) = Calls(stack, x) - Weight(f, x) + Bit(d = x)
        /\ \A k \in Len(stack[t]) - 1 + 1 .. Len(stack'[t]) : AllOK(t, k)'
    <3>1. Top(t).handle = NoHandle /\ Top(t).at \notin {"DeleteRoutine", "Free"}
      BY <1>2, <1>4
    <3>2. /\ Keeps(t, Len(stack[t]) - 1) /\ SameHandleSteps /\ SameDeletions
          /\ \A x \in Objects : Calls(stack', x) = Calls(stack, x) - Weight(Top(t), x)
                                                   + (IF "Decrement" = "Decrement" THEN Bit(d = x) ELSE 0)
          /\ \A k \in Len(stack[t]) - 1 + 1 .. Len(stack'[t]) : AllOK(t, k)'
      BY <1>2, <2>1, <2>2, <3>1, SimpleGoto
    <3> QED
      BY <1>2, <3>2
  <2>4. ASSUME NEW x \in Objects PROVE Calls(stack', x) = Calls(stack, x) - Bit(linkTarget'[o] = x)
    <3>1. Calls(stack', x) = Calls(stack, x) - Weight(f, x) + Bit(d = x)
      BY <2>3
    <3>2. /\ Calls(stack, x) \in Nat /\ Weight(f, x) = Bit(linkTarget'[o] = x) + Bit(d = x)
          /\ Bit(linkTarget'[o] = x) \in Nat /\ Bit(d = x) \in Nat
      BY <1>9
    <3> QED
      BY ONLY <3>1, <3>2
  <2> QED
    BY <1>13, <2>3, <2>4
<1> QED
  BY <1>11, <1>12

LEMMA ObCreateDirectoryInitInv ==
  ASSUME Inv, NEW t \in Threads, ObCreateDirectoryInit(t)
  PROVE  Inv'
<1>1. /\ At(t, "InitDirectory") /\ ready' = ready \cup {Top(t).obj}
      /\ list' = [list EXCEPT ![Top(t).obj] = << >>] /\ Return(t)
      /\ UNCHANGED <<headerVars, countVars, tableVars, userVars, historyVars>>
  BY DEF ObCreateDirectoryInit
<1>2. PICK f \in Frames :
         /\ f = Top(t) /\ f.at = "InitDirectory" /\ stack[t] # << >> /\ FrameOK(t, Len(stack[t]), f)
         /\ f.obj \in Objects /\ Len(stack[t]) \in Nat \ {0}
  BY <1>1, AtIs
<1>3. PICK o \in Objects : o = f.obj /\ o \in Directories
  BY <1>2 DEF Directories
<1>4. f.handle = NoHandle /\ f.target = NoObject /\ Plain(f)
  BY <1>2 DEF FrameOK, Plain
<1>5. /\ status' = status /\ name' = name /\ parent' = parent /\ type' = type /\ linkTarget' = linkTarget
      /\ linkPath' = linkPath /\ refs' = refs /\ handles' = handles /\ table' = table /\ opened' = opened
      /\ creator' = creator /\ owned' = owned /\ tableLock' = tableLock
      /\ revived' = revived /\ damaged' = damaged /\ UNCHANGED headerVars
  BY <1>1 DEF headerVars, countVars, tableVars, userVars, historyVars
<1>6. \A d \in Directories : list'[d] = IF d = o THEN << >> ELSE list[d]
  BY <1>1, <1>2, <1>3 DEF Inv, TypeInv
<1>7. /\ Keeps(t, Len(stack[t]) - 1) /\ SameHandleSteps /\ SameDeletions
      /\ \A x \in Objects : Calls(stack', x) = Calls(stack, x) - Weight(f, x)
      /\ \A k \in Len(stack[t]) - 1 + 1 .. Len(stack'[t]) : AllOK(t, k)'
  BY <1>1, <1>2, <1>4, PlainReturn DEF Plain
<1>8. StackType' /\ StackType /\ stack' \in Stacks
  BY <1>7, Refs DEF Keeps, StackType
<1>9. TypeInv'
  <2>1. << >> \in Seq(Objects)
    BY EmptySeq
  <2>2. list' \in [Directories -> Seq(Objects)] /\ ready' \subseteq Directories
    BY <1>1, <1>2, <1>3, <2>1 DEF Inv, TypeInv
  <2>3. stack' \in [Threads -> Seq(Frames)]
    BY <1>8 DEF Stacks
  <2> QED
    BY <1>5, <2>2, <2>3 DEF Inv, TypeInv
<1>10. FiniteInv'
  BY <1>5, <1>8, FiniteInvKept DEF Inv
<1>11. CountInv'
  <2>1. ASSUME NEW x \in Objects
        PROVE  Cardinality(HandlesTo(x)') + Cardinality(LinksTo(x)') + Calls(stack', x)
                  = Cardinality(HandlesTo(x)) + Cardinality(LinksTo(x)) + Calls(stack, x)
    <3>1. HandlesTo(x)' = HandlesTo(x)
      BY <1>5, <1>7, <1>8, HandlesToKept
    <3>2. LinksTo(x)' = LinksTo(x)
      BY <1>5, <1>7, <1>8, LinksToKept
    <3>3. Weight(f, x) = 0
      BY <1>2, <1>4, WeightsAre DEF OnSteps
    <3>4. Calls(stack, x) \in Nat
      BY Refs
    <3> QED
      BY <1>7, <3>1, <3>2, <3>3, <3>4
  <2> QED
    BY <1>5, <1>9, <1>10, <2>1, CountInvKept
<1>12. HandleInv'
  BY <1>5, <1>7, HandleInvKept DEF Inv
<1>13. ListInv'
  <2>1. DOMAIN << >> = {}
    OBVIOUS
  <2>2. ASSUME NEW d \in Directories
        PROVE  /\ \A i \in DOMAIN list'[d] : status'[list'[d][i]] = "Live" /\ parent'[list'[d][i]] = d
               /\ \A i, j \in DOMAIN list'[d] : list'[d][i] = list'[d][j] => i = j
    <3>1. CASE d = o
      BY <3>1, <1>6, <2>1
    <3>2. CASE d # o
      <4>1. list'[d] = list[d]
        BY <3>2, <1>6
      <4> QED
        BY <4>1, <1>5 DEF Inv, ListInv
    <3> QED
      BY <3>1, <3>2
  <2> QED
    BY <2>2 DEF ListInv
<1>14. ObjectInv'
  <2>1. \A x \in Objects : Count(stack', RoutineFrames(x)) + Count(stack', FreeFrames(x))
                            = Count(stack, RoutineFrames(x)) + Count(stack, FreeFrames(x))
    BY <1>7 DEF SameDeletions
  <2> QED
    BY <1>5, <2>1, ObjectInvKept DEF Inv
<1>15. FrameInv'
  <2>1. \A x : InNoList(x) => InNoList(x)'
    <3>1. DOMAIN << >> = {}
      OBVIOUS
    <3> QED
      BY <1>6, <3>1 DEF InNoList
  <2>2. Steady
    BY <1>5, <2>1 DEF Steady
  <2>3. \A u \in Threads : OwnSteady(u)
    BY <1>5 DEF OwnSteady, Inv, TypeInv
  <2>4. HandlesSteady(t, Len(stack[t]) - 1)
    BY <1>5, HandlesAreSteady DEF Inv
  <2> QED
    BY <1>7, <1>9, <2>2, <2>3, <2>4, FramesKept DEF Inv
<1> QED
  BY <1>9, <1>10, <1>11, <1>12, <1>13, <1>14, <1>15 DEF Inv

-----------------------------------------------------------------------------
(* Handles. *)

\* Sets that differ in one element at most.
LEMMA OneElement ==
  ASSUME NEW S, NEW T, NEW h, IsFiniteSet(S), \A g : g # h => (g \in T <=> g \in S)
  PROVE  Cardinality(T) = Cardinality(S) + Bit(h \in T) - Bit(h \in S) /\ Cardinality(S) \in Nat
<1>1. Cardinality(S) \in Nat
  BY FS_CardinalityType
<1>2. CASE h \in T /\ h \notin S
  <2>1. T = S \cup {h}
    BY <1>2
  <2>2. Cardinality(S \cup {h}) = Cardinality(S) + 1
    BY <1>2, FS_AddElement
  <2> QED
    BY <1>1, <1>2, <2>1, <2>2 DEF Bit
<1>3. CASE h \notin T /\ h \in S
  <2>1. T = S \ {h}
    BY <1>3
  <2>2. Cardinality(S \ {h}) = Cardinality(S) - 1
    BY <1>3, FS_RemoveElement
  <2> QED
    BY <1>1, <1>3, <2>1, <2>2 DEF Bit
<1>4. CASE h \in T <=> h \in S
  <2>1. T = S
    BY <1>4
  <2>2. Bit(h \in T) = Bit(h \in S) /\ Bit(h \in S) \in Nat
    BY <1>4 DEF Bit
  <2> QED
    BY <1>1, <2>1, <2>2
<1> QED
  BY <1>1, <1>2, <1>3, <1>4

\* The frames of a step on handle h.
LEMMA HandleBits ==
  ASSUME NEW f \in Frames, NEW h \in Handles, f.handle = h
  PROVE  /\ \A g \in Handles : g # h => /\ Bit(f \in HandleFrames(g)) = 0 /\ Bit(f \in ClosingFrames(g)) = 0
                                        /\ Bit(f \in UncountedFrames(g)) = 0
         /\ Bit(f \in HandleFrames(h)) = 1
         /\ Bit(f \in ClosingFrames(h)) = Bit(f.at \in {"UncountHandle", "ClearEntry"})
         /\ Bit(f \in UncountedFrames(h)) = Bit(f.at \in {"CountHandle", "ClearEntry"})
<1> QED
  BY FramesAre DEF Bit

\* A step on handle h: what is counted in the table and on the stacks is the same for the
\* other handles.
OtherHandleSteps(h) ==
    \A g \in Handles : g # h => /\ Count(stack', HandleFrames(g)) = Count(stack, HandleFrames(g))
                                /\ Count(stack', ClosingFrames(g)) = Count(stack, ClosingFrames(g))
                                /\ Count(stack', UncountedFrames(g)) = Count(stack, UncountedFrames(g))

LEMMA HandleStepInv ==
  ASSUME Inv, NEW t \in Threads, NEW m, Keeps(t, m), SameDeletions, NEW h \in Handles, OtherHandleSteps(h),
         UNCHANGED <<headerVars, refs, spaceVars, creator, owned, historyVars>>,
         table' \in [Handles -> Objects \cup {NoObject}], tableLock' \in Threads \cup {NoThread},
         opened' \subseteq Handles, handles' \in [Objects -> Int],
         \A g \in Handles : g # h => table'[g] = table[g],
         \A g \in opened' : table'[g] # NoObject,
         Count(stack', HandleFrames(h)) <= 1,
         table'[h] # NoObject => status[table'[h]] # "None",
         \A x \in Objects :
            /\ handles'[x] = handles[x] + Bit(table'[h] = x /\ Count(stack', UncountedFrames(h)) = 0)
                                        - Bit(table[h] = x /\ Count(stack, UncountedFrames(h)) = 0)
            /\ status[x] # "Live" => handles'[x] = handles[x]
            /\ Calls(stack', x) = Calls(stack, x) - Bit(table'[h] = x /\ Count(stack', ClosingFrames(h)) = 0)
                                                  + Bit(table[h] = x /\ Count(stack, ClosingFrames(h)) = 0),
         HandlesSteady(t, m), \A k \in m + 1 .. Len(stack'[t]) : AllOK(t, k)'
  PROVE  Inv'
<1>1. /\ status' = status /\ name' = name /\ parent' = parent /\ type' = type /\ linkTarget' = linkTarget
      /\ linkPath' = linkPath /\ refs' = refs /\ list' = list /\ ready' = ready
      /\ creator' = creator /\ owned' = owned /\ revived' = revived /\ damaged' = damaged
      /\ UNCHANGED headerVars
  BY DEF headerVars, spaceVars, historyVars
<1>2. StackType' /\ StackType /\ stack' \in Stacks
  BY Refs DEF Keeps, StackType
<1>3. TypeInv'
  BY <1>1, <1>2 DEF Inv, TypeInv, Stacks
<1>4. FiniteInv'
  <2>1. IsFiniteSet(Places(stack', Frames)) /\ Places(stack', Frames) = Places(stack, Frames)' /\ Frames' = Frames
    BY <1>2 DEF StackType, Places, Frames
  <2>2. \A x \in Objects : Owners(x)' = Owners(x)
    BY <1>1, OwnersKept
  <2>3. IsFiniteSet({g \in Handles : table'[g] # NoObject})
    <3>1. IsFiniteSet({g \in Handles : table[g] # NoObject} \cup {h})
      BY FS_AddElement DEF Inv, FiniteInv
    <3>2. {g \in Handles : table'[g] # NoObject} \subseteq {g \in Handles : table[g] # NoObject} \cup {h}
      OBVIOUS
    <3> QED
      BY <3>1, <3>2, FS_Subset
  <2> QED
    BY <1>1, <2>1, <2>2, <2>3 DEF Inv, FiniteInv
<1>5. \A x \in Objects : x # NoObject
  BY ObjectManagerAssumption DEF Directories
<1>6. CountInv'
  <2>1. ASSUME NEW x \in Objects
        PROVE  /\ Cardinality(HandlesTo(x)') = Cardinality(HandlesTo(x))
                     + Bit(table'[h] = x /\ Count(stack', ClosingFrames(h)) = 0)
                     - Bit(table[h] = x /\ Count(stack, ClosingFrames(h)) = 0)
               /\ Cardinality(HandlesTo(x)) \in Nat
    <3>1. CountsAre /\ CountsAre'
      BY <1>2, Refs, PendingWillBe
    <3>2. /\ HandlesTo(x) = {g \in Handles : table[g] = x /\ Count(stack, ClosingFrames(g)) = 0}
          /\ HandlesTo(x)' = {g \in Handles : table'[g] = x /\ Count(stack', ClosingFrames(g)) = 0}
      BY <3>1 DEF CountsAre, ClosingFrames, HandleFrames
    <3>3. \A g : g # h => (g \in HandlesTo(x)' <=> g \in HandlesTo(x))
      BY <3>2 DEF OtherHandleSteps
    <3>4. IsFiniteSet(HandlesTo(x))
      BY Refs DEF ReferencesType
    <3>5. /\ h \in HandlesTo(x)' <=> table'[h] = x /\ Count(stack', ClosingFrames(h)) = 0
          /\ h \in HandlesTo(x) <=> table[h] = x /\ Count(stack, ClosingFrames(h)) = 0
      BY <3>2
    <3>6. /\ Cardinality(HandlesTo(x)') = Cardinality(HandlesTo(x)) + Bit(h \in HandlesTo(x)') - Bit(h \in HandlesTo(x))
          /\ Cardinality(HandlesTo(x)) \in Nat
      BY <3>3, <3>4, OneElement
    <3>7. /\ Bit(h \in HandlesTo(x)') = Bit(table'[h] = x /\ Count(stack', ClosingFrames(h)) = 0)
          /\ Bit(h \in HandlesTo(x)) = Bit(table[h] = x /\ Count(stack, ClosingFrames(h)) = 0)
      BY <3>5 DEF Bit
    <3> QED
      BY <3>6, <3>7
  <2>2. \A x : LinksTo(x)' = LinksTo(x)
    BY <1>1, <1>2, LinksToKept
  <2>3. ASSUME NEW x \in Objects
        PROVE  Cardinality(HandlesTo(x)') + Cardinality(LinksTo(x)') + Calls(stack', x)
                  = Cardinality(HandlesTo(x)) + Cardinality(LinksTo(x)) + Calls(stack, x)
    <3> DEFINE a == Bit(table'[h] = x /\ Count(stack', ClosingFrames(h)) = 0)
               b == Bit(table[h] = x /\ Count(stack, ClosingFrames(h)) = 0)
    <3>1. a \in Nat /\ b \in Nat
      BY DEF Bit
    <3>2. /\ Calls(stack', x) = Calls(stack, x) - a + b /\ Cardinality(HandlesTo(x)') = Cardinality(HandlesTo(x)) + a - b
          /\ Cardinality(HandlesTo(x)) \in Nat
      BY <2>1
    <3> HIDE DEF a, b
    <3>3. Cardinality(LinksTo(x)) \in Nat /\ Calls(stack, x) \in Nat
      BY RefsBefore
    <3>4. Cardinality(LinksTo(x)') = Cardinality(LinksTo(x))
      BY <2>2
    <3> QED
      BY <3>1, <3>2, <3>3, <3>4
  <2> QED
    BY <1>1, <1>3, <1>4, <2>3, CountInvKept
<1>7. HandleInv'
  <2>1. ASSUME NEW g \in Handles
        PROVE  /\ Count(stack', HandleFrames(g)) <= 1
               /\ table'[g] # NoObject => status'[table'[g]] # "None"
    BY <1>1 DEF Inv, HandleInv, OtherHandleSteps
  <2>2. ASSUME NEW x \in Objects
        PROVE  IF status'[x] = "Live"
               THEN handles'[x] = Cardinality({g \in Handles : table'[g] = x
                                                  /\ Count(stack', UncountedFrames(g)) = 0})
               ELSE handles'[x] = 0
    <3> DEFINE S == {g \in Handles : table[g] = x /\ Count(stack, UncountedFrames(g)) = 0}
               T == {g \in Handles : table'[g] = x /\ Count(stack', UncountedFrames(g)) = 0}
    <3>1. IsFiniteSet(S)
      <4>1. S \subseteq {g \in Handles : table[g] # NoObject}
        BY <1>5
      <4> QED
        BY <4>1, FS_Subset DEF Inv, FiniteInv
    <3>2. \A g : g # h => (g \in T <=> g \in S)
      BY DEF OtherHandleSteps
    <3>3. /\ Bit(h \in T) = Bit(table'[h] = x /\ Count(stack', UncountedFrames(h)) = 0)
          /\ Bit(h \in S) = Bit(table[h] = x /\ Count(stack, UncountedFrames(h)) = 0)
      BY DEF Bit
    <3>4. status[x] = "Live" => handles[x] = Cardinality(S)
      BY DEF Inv, HandleInv
    <3>5. /\ handles'[x] = handles[x] + Bit(h \in T) - Bit(h \in S)
          /\ status[x] # "Live" => handles'[x] = handles[x]
      BY <3>3
    <3>6. status[x] # "Live" => handles[x] = 0
      BY DEF Inv, HandleInv
    <3> HIDE DEF S, T
    <3>7. Cardinality(T) = Cardinality(S) + Bit(h \in T) - Bit(h \in S)
      BY <3>1, <3>2, OneElement
    <3>8. IF status[x] = "Live" THEN handles'[x] = Cardinality(T) ELSE handles'[x] = 0
      BY <3>4, <3>5, <3>6, <3>7
    <3> QED
      BY <3>8, <1>1 DEF T
  <2>3. \A g : HandleFrames(g)' = HandleFrames(g) /\ UncountedFrames(g)' = UncountedFrames(g)
    BY DEF HandleFrames, UncountedFrames
  <2> QED
    BY <2>1, <2>2, <2>3 DEF HandleInv, Count, Places
<1>8. ListInv'
  BY <1>1, ListInvKept DEF Inv
<1>9. ObjectInv'
  <2>1. \A x \in Objects : Count(stack', RoutineFrames(x)) + Count(stack', FreeFrames(x))
                            = Count(stack, RoutineFrames(x)) + Count(stack, FreeFrames(x))
    BY DEF SameDeletions
  <2> QED
    BY <1>1, <2>1, ObjectInvKept DEF Inv
<1>10. Steady /\ \A u \in Threads : OwnSteady(u)
  BY <1>1 DEF Steady, InNoList, OwnSteady, Inv, TypeInv
<1>11. FrameInv'
  BY <1>3, <1>10, FramesKept DEF Inv
<1> QED
  BY <1>3, <1>4, <1>6, <1>7, <1>8, <1>9, <1>11 DEF Inv

\* A step on a handle is the only one on it.
LEMMA OnlyStep ==
  ASSUME Inv, NEW t \in Threads, stack[t] # << >>, NEW f \in Frames, f = Top(t), NEW h \in Handles, f.handle = h
  PROVE  /\ Count(stack, HandleFrames(h)) = 1
         /\ Count(stack, ClosingFrames(h)) = Bit(f.at \in {"UncountHandle", "ClearEntry"})
         /\ Count(stack, UncountedFrames(h)) = Bit(f.at \in {"CountHandle", "ClearEntry"})
         /\ \A u \in Threads : \A k \in 1 .. Len(stack[u]) :
               u # t \/ k <= Len(stack[t]) - 1 => stack[u][k].handle # h
<1>1. StackType /\ StackType /\ (\A F : Count(stack, F) \in Nat) /\ Len(stack[t]) \in Nat \ {0}
  BY Refs, TopIs, CountType DEF StackType
<1>2. f \in HandleFrames(h)
  BY DEF HandleFrames
<1>3. Count(stack, HandleFrames(h)) = 1
  <2>1. Count(stack, HandleFrames(h)) >= 1
    BY <1>2, TopIs
  <2>2. Count(stack, HandleFrames(h)) <= 1
    BY DEF Inv, HandleInv
  <2> QED
    BY <1>1, <2>1, <2>2
<1>4. PICK s : s = Pop(stack, t)
  OBVIOUS
<1>5. /\ s \in Stacks /\ \A u \in Threads : u # t => s[u] = stack[u]
      /\ Len(s[t]) = Len(stack[t]) - 1 /\ \A k \in 1 .. Len(stack[t]) - 1 : s[t][k] = stack[t][k]
  BY <1>1, <1>4, PopIs DEF StackType
<1>6. /\ IsFiniteSet(Places(s, Frames))
      /\ \A F : Count(s, F) = Count(stack, F) - Bit(f \in F)
  BY <1>1, <1>4, PopCount DEF StackType, Top
<1>7. ASSUME NEW F, F \subseteq HandleFrames(h) PROVE Count(stack, F) = Bit(f \in F) /\ Count(s, F) = 0
  <2>1. Bit(f \in HandleFrames(h)) = 1
    BY <1>2 DEF Bit
  <2>2. Count(s, HandleFrames(h)) = 0
    BY <1>3, <1>6, <2>1
  <2>3. Count(s, F) <= 0 /\ Count(s, F) \in Nat
    <3>1. Count(s, F) <= Count(s, HandleFrames(h))
      <4>1. s \in Stacks /\ IsFiniteSet(Places(s, Frames)) /\ F \subseteq HandleFrames(h)
        BY <1>5, <1>6, <1>7
      <4> QED
        BY <4>1, CountOfSubset, Zenon
    <3>2. Count(s, F) \in Nat
      BY <1>5, <1>6, PlacesFinite
    <3> QED
      BY <2>2, <3>1, <3>2
  <2>4. Bit(f \in F) \in Nat /\ Count(stack, F) \in Nat
    BY <1>1 DEF Bit
  <2> QED
    BY <1>6, <2>3, <2>4
<1>8. ASSUME NEW u \in Threads, NEW k \in 1 .. Len(stack[u]), u # t \/ k <= Len(stack[t]) - 1
      PROVE  stack[u][k].handle # h
  <2>1. Count(s, HandleFrames(h)) = 0
    BY <1>7
  <2>2. \A v \in Threads : \A i \in 1 .. Len(s[v]) : s[v][i] \notin HandleFrames(h)
    BY <1>5, <1>6, <2>1, CountOfFrame
  <2>3. k \in 1 .. Len(s[u]) /\ s[u][k] = stack[u][k]
    BY <1>1, <1>5, <1>8
  <2>4. stack[u][k] \in Frames
    BY <1>1, ElementOfSeq DEF StackType, Stacks
  <2>5. stack[u][k] \notin HandleFrames(h)
    BY <2>2, <2>3
  <2> QED
    BY <2>4, <2>5 DEF HandleFrames
<1>9. ClosingFrames(h) \subseteq HandleFrames(h) /\ UncountedFrames(h) \subseteq HandleFrames(h)
  BY DEF ClosingFrames, UncountedFrames
<1>10. /\ Count(stack, ClosingFrames(h)) = Bit(f \in ClosingFrames(h))
       /\ Count(stack, UncountedFrames(h)) = Bit(f \in UncountedFrames(h))
  BY <1>7, <1>9
<1> QED
  BY <1>3, <1>8, <1>10, HandleBits

\* A handle that is open, or that no object has, is in no step.
LEMMA NoStep ==
  ASSUME Inv, NEW h \in Handles, h \in opened \/ table[h] = NoObject
  PROVE  /\ Count(stack, HandleFrames(h)) = 0 /\ Count(stack, ClosingFrames(h)) = 0
         /\ Count(stack, UncountedFrames(h)) = 0
         /\ \A u \in Threads : \A k \in 1 .. Len(stack[u]) : stack[u][k].handle # h
<1>1. StackType /\ \A u \in Threads : DOMAIN stack[u] = 1 .. Len(stack[u])
  <2>1. StackType
    BY Refs
  <2>2. ASSUME NEW u \in Threads PROVE stack[u] \in Seq(Frames)
    BY <2>1 DEF StackType, Stacks
  <2> QED
    BY <2>1, <2>2, LenProperties
<1>2. ASSUME NEW u \in Threads, NEW k \in 1 .. Len(stack[u]) PROVE stack[u][k].handle # h
  <2>1. PICK f : f = stack[u][k]
    OBVIOUS
  <2>2. FrameOK(u, k, f)
    BY <1>1, <2>1 DEF Inv, FrameInv
  <2>3. h # NoHandle
    BY ObjectManagerAssumption
  <2> QED
    BY <2>1, <2>2, <2>3 DEF FrameOK
<1>3. ASSUME NEW F, F \subseteq HandleFrames(h) PROVE Count(stack, F) = 0
  <2>1. \A u \in Threads : \A k \in 1 .. Len(stack[u]) : stack[u][k] \notin F
    BY <1>2, <1>3 DEF HandleFrames
  <2> QED
    BY <1>1, <2>1, CountOfFrame DEF StackType
<1>4. ClosingFrames(h) \subseteq HandleFrames(h) /\ UncountedFrames(h) \subseteq HandleFrames(h)
  BY DEF ClosingFrames, UncountedFrames
<1> QED
  BY <1>2, <1>3, <1>4

LEMMA OtherHandlesSteady ==
  ASSUME Inv, NEW t \in Threads, NEW m, NEW h \in Handles,
         \A u \in Threads : \A k \in 1 .. Len(stack[u]) : u # t \/ k <= m => stack[u][k].handle # h,
         \A g \in Handles : g # h => table'[g] = table[g] /\ (g \in opened' => g \in opened)
  PROVE  HandlesSteady(t, m)
<1> SUFFICES ASSUME NEW u \in Threads, NEW k \in 1 .. Len(stack[u]), u # t \/ k <= m,
                    stack[u][k].handle # NoHandle
             PROVE  /\ stack[u][k].handle \notin opened'
                    /\ table'[stack[u][k].handle] = table[stack[u][k].handle]
  BY DEF HandlesSteady
<1>1. stack[u] \in Seq(Frames)
  BY DEF Inv, TypeInv
<1>2. k \in DOMAIN stack[u] /\ stack[u][k] \in Frames
  BY <1>1, LenProperties, ElementOfSeq
<1>3. PICK f \in Frames : f = stack[u][k]
  BY <1>2
<1>4. f.handle \notin opened
  <2>1. FrameOK(u, k, f)
    BY <1>2, <1>3 DEF Inv, FrameInv
  <2> QED
    BY <1>3, <2>1 DEF FrameOK
<1>5. f.handle \in Handles /\ f.handle # h
  BY <1>3, FrameType
<1> QED
  BY <1>3, <1>4, <1>5

LEMMA ObpCreateHandleInv ==
  ASSUME Inv, NEW t \in Threads, ObpCreateHandle(t)
  PROVE  Inv'
<1>1. /\ At(t, "CreateHandle")
      /\ UNCHANGED <<headerVars, countVars, spaceVars, tableLock, userVars, historyVars>>
  BY DEF ObpCreateHandle
<1>2. PICK f \in Frames :
         /\ f = Top(t) /\ f.at = "CreateHandle" /\ stack[t] # << >> /\ FrameOK(t, Len(stack[t]), f)
         /\ Len(stack[t]) \in Nat \ {0}
  BY <1>1, AtIs
<1>3. f.obj # NoObject /\ f.handle = NoHandle /\ f.target = NoObject /\ status[f.obj] # "None" /\ Plain(f)
  BY <1>2 DEF FrameOK, Plain
<1>4. PICK o \in Objects : o = f.obj
  BY <1>2, <1>3, FrameType
<1>5. \A x \in Objects : Weight(f, x) = Bit(o = x) /\ Bit(o = x) \in Nat /\ Calls(stack, x) \in Nat
  BY <1>2, <1>3, <1>4, WeightsAre, Refs DEF Bit, OnSteps
<1>6. CASE Goto(t, Frame("Decrement", o)) /\ UNCHANGED table
  <2>1. PICK g : g = Frame("Decrement", o)
    OBVIOUS
  <2>2. g \in Frames /\ g.at = "Decrement" /\ g.obj = o /\ g.handle = NoHandle /\ g.target = NoObject
    BY <2>1, FrameIs DEF Steps
  <2>3. Plain(g) /\ \A x \in Objects : Weight(g, x) = Weight(f, x)
    BY <1>5, <2>2, WeightsAre DEF Plain, OnSteps
  <2>4. FrameOK(t, Len(stack[t]), g) /\ g.at \notin LookupSteps
    BY <1>3, <1>4, <2>2 DEF FrameOK, LookupSteps, OwnSteps
  <2>5. UNCHANGED Others
    BY <1>1, <1>6 DEF Others, tableVars
  <2> QED
    BY <1>2, <1>3, <1>6, <2>1, <2>2, <2>3, <2>4, <2>5, GotoInv
<1>7. ASSUME NEW h \in Handles, table[h] = NoObject, table' = [table EXCEPT ![h] = o],
             Goto(t, [Frame("CountHandle", o) EXCEPT !.handle = h])
      PROVE  Inv'
  <2>1. PICK b : b = Frame("CountHandle", o)
    OBVIOUS
  <2>2. b \in Frames /\ b.at = "CountHandle" /\ b.obj = o /\ b.target = NoObject
    BY <2>1, FrameIs DEF Steps
  <2>3. PICK g : g = [b EXCEPT !.handle = h]
    OBVIOUS
  <2>4. g \in Frames /\ g.at = "CountHandle" /\ g.obj = o /\ g.handle = h /\ g.target = NoObject
    BY <2>2, <2>3 DEF Frames
  <2>5. Goto(t, g)
    BY <1>7, <2>1, <2>3
  <2>6. StackType /\ (\A F : Count(stack, F) \in Nat)
    BY Refs, CountType DEF StackType
  <2>7. /\ Keeps(t, Len(stack[t]) - 1) /\ Len(stack'[t]) = Len(stack[t])
        /\ stack'[t][Len(stack[t])] = g
        /\ \A F : Count(stack', F) = Count(stack, F) - Bit(f \in F) + Bit(g \in F)
    BY <1>2, <2>4, <2>5, <2>6, GotoStack DEF StackType
  <2>8. /\ Count(stack, HandleFrames(h)) = 0 /\ Count(stack, ClosingFrames(h)) = 0
        /\ Count(stack, UncountedFrames(h)) = 0 /\ h \notin opened
        /\ \A u \in Threads : \A k \in 1 .. Len(stack[u]) : stack[u][k].handle # h
    BY <1>7, NoStep DEF Inv, HandleInv
  <2>9. /\ \A x \in Handles : /\ Bit(f \in HandleFrames(x)) = 0 /\ Bit(f \in ClosingFrames(x)) = 0
                              /\ Bit(f \in UncountedFrames(x)) = 0
        /\ \A x : /\ Bit(f \in FreeFrames(x)) = 0 /\ Bit(g \in FreeFrames(x)) = 0
                  /\ Bit(f \in RoutineFrames(x)) = 0 /\ Bit(g \in RoutineFrames(x)) = 0
    BY <1>2, <1>3, <2>4, PlainBits
  <2>10. /\ \A x \in Handles : x # h => /\ Bit(g \in HandleFrames(x)) = 0 /\ Bit(g \in ClosingFrames(x)) = 0
                                        /\ Bit(g \in UncountedFrames(x)) = 0
         /\ Bit(g \in HandleFrames(h)) = 1 /\ Bit(g \in ClosingFrames(h)) = 0 /\ Bit(g \in UncountedFrames(h)) = 1
    <3>1. Bit(g.at \in {"UncountHandle", "ClearEntry"}) = 0 /\ Bit(g.at \in {"CountHandle", "ClearEntry"}) = 1
      BY <2>4 DEF Bit
    <3> QED
      BY <2>4, <3>1, HandleBits
  <2>11. SameDeletions
    BY <2>6, <2>7, <2>9 DEF SameDeletions
  <2>12. OtherHandleSteps(h)
    BY <2>6, <2>7, <2>9, <2>10 DEF OtherHandleSteps
  <2>13. /\ Count(stack', HandleFrames(h)) = 1 /\ Count(stack', ClosingFrames(h)) = 0
         /\ Count(stack', UncountedFrames(h)) = 1
    BY <2>7, <2>8, <2>9, <2>10
  <2>14. /\ table' \in [Handles -> Objects \cup {NoObject}] /\ table'[h] = o
         /\ \A g1 \in Handles : g1 # h => table'[g1] = table[g1]
    BY <1>7 DEF Inv, TypeInv
  <2>15. handles' = handles /\ opened' = opened /\ tableLock' = tableLock
    BY <1>1 DEF countVars, userVars
  <2>16. \A x \in Objects : x # NoObject
    BY ObjectManagerAssumption DEF Directories
  <2>17. ASSUME NEW x \in Objects
         PROVE  /\ handles'[x] = handles[x] + Bit(table'[h] = x /\ Count(stack', UncountedFrames(h)) = 0)
                                            - Bit(table[h] = x /\ Count(stack, UncountedFrames(h)) = 0)
                /\ Calls(stack', x) = Calls(stack, x) - Bit(table'[h] = x /\ Count(stack', ClosingFrames(h)) = 0)
                                                      + Bit(table[h] = x /\ Count(stack, ClosingFrames(h)) = 0)
    <3>1. /\ Bit(table'[h] = x /\ Count(stack', UncountedFrames(h)) = 0) = 0
          /\ Bit(table[h] = x /\ Count(stack, UncountedFrames(h)) = 0) = 0
          /\ Bit(table'[h] = x /\ Count(stack', ClosingFrames(h)) = 0) = Bit(o = x)
          /\ Bit(table[h] = x /\ Count(stack, ClosingFrames(h)) = 0) = 0
      BY <1>7, <2>13, <2>14, <2>16 DEF Bit
    <3>2. Calls(stack', x) = Calls(stack, x) - Weight(f, x) + Weight(g, x)
      BY <2>6, <2>7, MovedCalls
    <3>3. Weight(g, x) = 0
      BY <2>4, WeightsAre DEF OnSteps
    <3>4. handles[x] \in Int
      BY DEF Inv, TypeInv
    <3> QED
      BY <1>5, <2>15, <3>1, <3>2, <3>3, <3>4
  <2>18. \A g1 \in opened' : table'[g1] # NoObject
    BY <2>8, <2>14, <2>15, <2>16 DEF Inv, HandleInv, TypeInv
  <2>19. HandlesSteady(t, Len(stack[t]) - 1)
    BY <2>8, <2>14, <2>15, OtherHandlesSteady
  <2>20. \A k \in Len(stack[t]) - 1 + 1 .. Len(stack'[t]) : AllOK(t, k)'
    <3>1. \A k \in Len(stack[t]) - 1 + 1 .. Len(stack'[t]) : k = Len(stack[t])
      BY <1>2, <2>7
    <3>2. status'[o] # "None"
      BY <1>1, <1>3, <1>4 DEF headerVars
    <3>3. /\ g.obj # NoObject /\ status'[g.obj] # "None" /\ g.target = NoObject /\ g.at = "CountHandle"
          /\ g.handle \notin opened' /\ table'[g.handle] = g.obj /\ g.handle # NoHandle
      BY <2>4, <2>8, <2>14, <2>15, <2>16, <3>2, ObjectManagerAssumption
    <3>4. ASSUME NEW k, k = Len(stack[t]) PROVE AllOK(t, k)'
      <4>1. stack'[t][k] = g
        BY <2>7, <3>4
      <4>2. FrameOK(t, k, g)' /\ g.at \notin LookupSteps
        BY <3>3 DEF FrameOK, LookupSteps, OwnSteps
      <4> QED
        BY <4>1, <4>2 DEF AllOK
    <3> QED
      BY <3>1, <3>4
  <2>21. /\ tableLock' \in Threads \cup {NoThread} /\ opened' \subseteq Handles /\ handles' \in [Objects -> Int]
    BY <2>15 DEF Inv, TypeInv
  <2>22. UNCHANGED <<headerVars, refs, spaceVars, creator, owned, historyVars>>
    BY <1>1 DEF countVars, userVars
  <2>23. Count(stack', HandleFrames(h)) <= 1 /\ (table'[h] # NoObject => status[table'[h]] # "None")
    BY <1>3, <1>4, <2>13, <2>14
  <2>24. \A x \in Objects : status[x] # "Live" => handles'[x] = handles[x]
    BY <2>15
  <2> QED
    BY <2>7, <2>11, <2>12, <2>14, <2>17, <2>18, <2>19, <2>20, <2>21, <2>22, <2>23, <2>24, HandleStepInv
<1>8. \/ Goto(t, Frame("Decrement", o)) /\ UNCHANGED table
      \/ \E h \in Handles : /\ table[h] = NoObject /\ table' = [table EXCEPT ![h] = o]
                            /\ Goto(t, [Frame("CountHandle", o) EXCEPT !.handle = h])
  BY <1>2, <1>4 DEF ObpCreateHandle
<1> QED
  BY <1>6, <1>7, <1>8

LEMMA CountHandleInv ==
  ASSUME Inv, NEW t \in Threads, CountHandle(t)
  PROVE  Inv'
<1>1. /\ At(t, "CountHandle") /\ Return(t)
      /\ handles' = [handles EXCEPT ![Top(t).obj] = @ + 1] /\ opened' = opened \cup {Top(t).handle}
      /\ UNCHANGED <<headerVars, refs, spaceVars, tableVars, creator, owned, historyVars>>
  BY DEF CountHandle
<1>2. PICK f \in Frames :
         /\ f = Top(t) /\ f.at = "CountHandle" /\ stack[t] # << >> /\ FrameOK(t, Len(stack[t]), f)
         /\ Len(stack[t]) \in Nat \ {0} /\ f.obj \in Objects /\ status[f.obj] = "Live"
  BY <1>1, AtIs
<1>3. f.handle # NoHandle /\ f.target = NoObject /\ f.handle \notin opened /\ table[f.handle] = f.obj
  BY <1>2 DEF FrameOK
<1>4. PICK o \in Objects, h \in Handles : o = f.obj /\ h = f.handle
  BY <1>2, <1>3, FrameType
<1>5. StackType /\ (\A F : Count(stack, F) \in Nat) /\ Top(t) \in Frames
  BY <1>2, Refs, CountType DEF StackType
<1>6. /\ Keeps(t, Len(stack[t]) - 1) /\ Len(stack'[t]) = Len(stack[t]) - 1
      /\ \A F : Count(stack', F) = Count(stack, F) - Bit(f \in F)
  BY <1>1, <1>2, <1>5, ReturnStack DEF StackType
<1>7. /\ Count(stack, HandleFrames(h)) = 1 /\ Count(stack, ClosingFrames(h)) = 0
      /\ Count(stack, UncountedFrames(h)) = 1
      /\ \A u \in Threads : \A k \in 1 .. Len(stack[u]) :
            u # t \/ k <= Len(stack[t]) - 1 => stack[u][k].handle # h
  <2>1. Bit(f.at \in {"UncountHandle", "ClearEntry"}) = 0 /\ Bit(f.at \in {"CountHandle", "ClearEntry"}) = 1
    BY <1>2 DEF Bit
  <2> QED
    BY <1>2, <1>4, <2>1, OnlyStep
<1>8. /\ \A x \in Handles : x # h => /\ Bit(f \in HandleFrames(x)) = 0 /\ Bit(f \in ClosingFrames(x)) = 0
                                     /\ Bit(f \in UncountedFrames(x)) = 0
      /\ Bit(f \in HandleFrames(h)) = 1 /\ Bit(f \in ClosingFrames(h)) = 0 /\ Bit(f \in UncountedFrames(h)) = 1
  <2>1. Bit(f.at \in {"UncountHandle", "ClearEntry"}) = 0 /\ Bit(f.at \in {"CountHandle", "ClearEntry"}) = 1
    BY <1>2 DEF Bit
  <2> QED
    BY <1>4, <2>1, HandleBits
<1>9. SameDeletions
  <2>1. \A x : Bit(f \in FreeFrames(x)) = 0 /\ Bit(f \in RoutineFrames(x)) = 0
    BY <1>2, PlainBits
  <2> QED
    BY <1>5, <1>6, <2>1 DEF SameDeletions
<1>10. OtherHandleSteps(h)
  BY <1>5, <1>6, <1>8 DEF OtherHandleSteps
<1>11. /\ Count(stack', HandleFrames(h)) = 0 /\ Count(stack', ClosingFrames(h)) = 0
       /\ Count(stack', UncountedFrames(h)) = 0
  BY <1>6, <1>7, <1>8
<1>12. table' = table /\ tableLock' = tableLock /\ table[h] = o /\ opened' = opened \cup {h}
  BY <1>1, <1>2, <1>3, <1>4 DEF tableVars
<1>13. /\ handles' \in [Objects -> Int]
       /\ \A x \in Objects : handles'[x] = handles[x] + Bit(o = x) /\ handles[x] \in Int
  <2>1. handles' = [handles EXCEPT ![o] = @ + 1]
    BY <1>1, <1>2, <1>4
  <2>2. handles \in [Objects -> Int]
    BY DEF Inv, TypeInv
  <2> QED
    BY <2>1, <2>2 DEF Bit
<1>14. ASSUME NEW x \in Objects
       PROVE  /\ handles'[x] = handles[x] + Bit(table'[h] = x /\ Count(stack', UncountedFrames(h)) = 0)
                                          - Bit(table[h] = x /\ Count(stack, UncountedFrames(h)) = 0)
              /\ status[x] # "Live" => handles'[x] = handles[x]
              /\ Calls(stack', x) = Calls(stack, x) - Bit(table'[h] = x /\ Count(stack', ClosingFrames(h)) = 0)
                                                    + Bit(table[h] = x /\ Count(stack, ClosingFrames(h)) = 0)
  <2>1. /\ Bit(table'[h] = x /\ Count(stack', UncountedFrames(h)) = 0) = Bit(o = x)
        /\ Bit(table[h] = x /\ Count(stack, UncountedFrames(h)) = 0) = 0
        /\ Bit(table'[h] = x /\ Count(stack', ClosingFrames(h)) = 0) = Bit(o = x)
        /\ Bit(table[h] = x /\ Count(stack, ClosingFrames(h)) = 0) = Bit(o = x)
    BY <1>7, <1>11, <1>12 DEF Bit
  <2>2. Calls(stack', x) = Calls(stack, x) - Weight(f, x)
    BY <1>2, <1>5, <1>6, RemovedCalls
  <2>3. Weight(f, x) = 0
    BY <1>2, <1>3, WeightsAre DEF OnSteps
  <2>4. handles'[x] = handles[x] + Bit(o = x) /\ handles[x] \in Int /\ Bit(o = x) \in Nat
    BY <1>13 DEF Bit
  <2>5. status[x] # "Live" => Bit(o = x) = 0
    BY <1>2, <1>4 DEF Bit
  <2>6. Calls(stack, x) \in Nat
    BY Refs
  <2> QED
    BY <2>1, <2>2, <2>3, <2>4, <2>5, <2>6
<1>15. \A g \in opened' : table'[g] # NoObject
  <2>1. o # NoObject
    BY ObjectManagerAssumption DEF Directories
  <2> QED
    BY <1>12, <2>1 DEF Inv, HandleInv
<1>16. HandlesSteady(t, Len(stack[t]) - 1)
  BY <1>7, <1>12, OtherHandlesSteady
<1>17. Len(stack[t]) - 1 + 1 .. Len(stack'[t]) = {}
  BY <1>2, <1>6
<1>18. /\ table' \in [Handles -> Objects \cup {NoObject}] /\ tableLock' \in Threads \cup {NoThread}
       /\ opened' \subseteq Handles
       /\ table'[h] # NoObject => status[table'[h]] # "None"
  BY <1>12 DEF Inv, TypeInv, HandleInv
<1>19. UNCHANGED <<headerVars, refs, spaceVars, creator, owned, historyVars>>
  BY <1>1
<1> QED
  BY <1>6, <1>9, <1>10, <1>11, <1>12, <1>13, <1>14, <1>15, <1>16, <1>17, <1>18, <1>19, HandleStepInv

LEMMA ObpDeleteHandleInv ==
  ASSUME Inv, NEW t \in Threads, ObpDeleteHandle(t)
  PROVE  Inv'
<1>1. /\ At(t, "ClearEntry") /\ Return(t) /\ tableLock' = NoThread
      /\ table' = [table EXCEPT ![Top(t).handle] = NoObject]
      /\ UNCHANGED <<headerVars, countVars, spaceVars, userVars, historyVars>>
  BY DEF ObpDeleteHandle
<1>2. PICK f \in Frames :
         /\ f = Top(t) /\ f.at = "ClearEntry" /\ stack[t] # << >> /\ FrameOK(t, Len(stack[t]), f)
         /\ Len(stack[t]) \in Nat \ {0}
  BY <1>1, AtIs
<1>3. f.handle # NoHandle /\ f.target = NoObject /\ f.handle \notin opened /\ table[f.handle] = f.obj /\ f.obj # NoObject
  BY <1>2 DEF FrameOK
<1>4. PICK o \in Objects, h \in Handles : o = f.obj /\ h = f.handle
  BY <1>2, <1>3, FrameType
<1>5. StackType /\ (\A F : Count(stack, F) \in Nat) /\ Top(t) \in Frames
  BY <1>2, Refs, CountType DEF StackType
<1>6. /\ Keeps(t, Len(stack[t]) - 1) /\ Len(stack'[t]) = Len(stack[t]) - 1
      /\ \A F : Count(stack', F) = Count(stack, F) - Bit(f \in F)
  BY <1>1, <1>2, <1>5, ReturnStack DEF StackType
<1>7. /\ Count(stack, HandleFrames(h)) = 1 /\ Count(stack, ClosingFrames(h)) = 1
      /\ Count(stack, UncountedFrames(h)) = 1
      /\ \A u \in Threads : \A k \in 1 .. Len(stack[u]) :
            u # t \/ k <= Len(stack[t]) - 1 => stack[u][k].handle # h
  <2>1. Bit(f.at \in {"UncountHandle", "ClearEntry"}) = 1 /\ Bit(f.at \in {"CountHandle", "ClearEntry"}) = 1
    BY <1>2 DEF Bit
  <2> QED
    BY <1>2, <1>4, <2>1, OnlyStep
<1>8. /\ \A x \in Handles : x # h => /\ Bit(f \in HandleFrames(x)) = 0 /\ Bit(f \in ClosingFrames(x)) = 0
                                     /\ Bit(f \in UncountedFrames(x)) = 0
      /\ Bit(f \in HandleFrames(h)) = 1
  BY <1>4, HandleBits
<1>9. SameDeletions
  <2>1. \A x : Bit(f \in FreeFrames(x)) = 0 /\ Bit(f \in RoutineFrames(x)) = 0
    BY <1>2, PlainBits
  <2> QED
    BY <1>5, <1>6, <2>1 DEF SameDeletions
<1>10. OtherHandleSteps(h)
  BY <1>5, <1>6, <1>8 DEF OtherHandleSteps
<1>11. Count(stack', HandleFrames(h)) = 0
  BY <1>6, <1>7, <1>8
<1>12. /\ table' \in [Handles -> Objects \cup {NoObject}] /\ table'[h] = NoObject
       /\ \A g \in Handles : g # h => table'[g] = table[g]
  <2>1. table' = [table EXCEPT ![h] = NoObject]
    BY <1>1, <1>2, <1>4
  <2> QED
    BY <2>1 DEF Inv, TypeInv
<1>13. handles' = handles /\ opened' = opened
  BY <1>1 DEF countVars, userVars
<1>14. ASSUME NEW x \in Objects
       PROVE  /\ handles'[x] = handles[x] + Bit(table'[h] = x /\ Count(stack', UncountedFrames(h)) = 0)
                                          - Bit(table[h] = x /\ Count(stack, UncountedFrames(h)) = 0)
              /\ status[x] # "Live" => handles'[x] = handles[x]
              /\ Calls(stack', x) = Calls(stack, x) - Bit(table'[h] = x /\ Count(stack', ClosingFrames(h)) = 0)
                                                    + Bit(table[h] = x /\ Count(stack, ClosingFrames(h)) = 0)
  <2>1. x # NoObject
    BY ObjectManagerAssumption DEF Directories
  <2>2. /\ Bit(table'[h] = x /\ Count(stack', UncountedFrames(h)) = 0) = 0
        /\ Bit(table[h] = x /\ Count(stack, UncountedFrames(h)) = 0) = 0
        /\ Bit(table'[h] = x /\ Count(stack', ClosingFrames(h)) = 0) = 0
        /\ Bit(table[h] = x /\ Count(stack, ClosingFrames(h)) = 0) = 0
    BY <1>7, <1>12, <2>1 DEF Bit
  <2>3. Calls(stack', x) = Calls(stack, x) - Weight(f, x)
    BY <1>2, <1>5, <1>6, RemovedCalls
  <2>4. Weight(f, x) = 0
    BY <1>2, <1>3, WeightsAre DEF OnSteps
  <2>5. handles[x] \in Int
    BY DEF Inv, TypeInv
  <2>6. Calls(stack, x) \in Nat
    BY Refs
  <2> QED
    BY <1>13, <2>2, <2>3, <2>4, <2>5, <2>6
<1>15. \A g \in opened' : table'[g] # NoObject
  <2>1. h \notin opened
    BY <1>3, <1>4
  <2> QED
    BY <1>12, <1>13, <2>1 DEF Inv, HandleInv, TypeInv
<1>16. HandlesSteady(t, Len(stack[t]) - 1)
  BY <1>7, <1>12, <1>13, OtherHandlesSteady
<1>17. Len(stack[t]) - 1 + 1 .. Len(stack'[t]) = {}
  BY <1>2, <1>6
<1>18. tableLock' \in Threads \cup {NoThread} /\ opened' \subseteq Handles /\ handles' \in [Objects -> Int]
  BY <1>1, <1>13 DEF Inv, TypeInv
<1>19. UNCHANGED <<headerVars, refs, spaceVars, creator, owned, historyVars>>
  BY <1>1 DEF countVars, userVars
<1> QED
  BY <1>6, <1>9, <1>10, <1>11, <1>12, <1>14, <1>15, <1>16, <1>17, <1>18, <1>19, HandleStepInv

LEMMA ObCloseUncountInv ==
  ASSUME Inv, NEW t \in Threads, ObCloseUncount(t)
  PROVE  Inv'
<1>1. /\ At(t, "UncountHandle") /\ Goto(t, [Top(t) EXCEPT !.at = "ClearEntry"])
      /\ handles' = [handles EXCEPT ![Top(t).obj] = @ - 1]
      /\ UNCHANGED <<headerVars, refs, spaceVars, tableVars, userVars, historyVars>>
  BY DEF ObCloseUncount
<1>2. PICK f \in Frames :
         /\ f = Top(t) /\ f.at = "UncountHandle" /\ stack[t] # << >> /\ FrameOK(t, Len(stack[t]), f)
         /\ Len(stack[t]) \in Nat \ {0} /\ f.obj \in Objects /\ status[f.obj] = "Live"
  BY <1>1, AtIs
<1>3. f.handle # NoHandle /\ f.target = NoObject /\ f.handle \notin opened /\ table[f.handle] = f.obj /\ f.obj # NoObject
  BY <1>2 DEF FrameOK
<1>4. PICK o \in Objects, h \in Handles : o = f.obj /\ h = f.handle
  BY <1>2, <1>3, FrameType
<1>5. StackType /\ (\A F : Count(stack, F) \in Nat) /\ Top(t) \in Frames
  BY <1>2, Refs, CountType DEF StackType
<1>6. PICK g : g = [f EXCEPT !.at = "ClearEntry"]
  OBVIOUS
<1>7. g \in Frames /\ g.at = "ClearEntry" /\ g.obj = o /\ g.handle = h /\ g.target = NoObject
  BY <1>3, <1>4, <1>6 DEF Frames, Steps
<1>8. /\ Keeps(t, Len(stack[t]) - 1) /\ Len(stack'[t]) = Len(stack[t])
      /\ stack'[t][Len(stack[t])] = g
      /\ \A F : Count(stack', F) = Count(stack, F) - Bit(f \in F) + Bit(g \in F)
  <2>1. Goto(t, g)
    BY <1>1, <1>2, <1>6
  <2> QED
    BY <1>2, <1>5, <1>7, <2>1, GotoStack DEF StackType
<1>9. /\ Count(stack, HandleFrames(h)) = 1 /\ Count(stack, ClosingFrames(h)) = 1
      /\ Count(stack, UncountedFrames(h)) = 0
      /\ \A u \in Threads : \A k \in 1 .. Len(stack[u]) :
            u # t \/ k <= Len(stack[t]) - 1 => stack[u][k].handle # h
  <2>1. Bit(f.at \in {"UncountHandle", "ClearEntry"}) = 1 /\ Bit(f.at \in {"CountHandle", "ClearEntry"}) = 0
    BY <1>2 DEF Bit
  <2> QED
    BY <1>2, <1>4, <2>1, OnlyStep
<1>10. /\ \A x \in Handles : x # h => /\ Bit(f \in HandleFrames(x)) = 0 /\ Bit(f \in ClosingFrames(x)) = 0
                                      /\ Bit(f \in UncountedFrames(x)) = 0
       /\ Bit(f \in HandleFrames(h)) = 1 /\ Bit(f \in ClosingFrames(h)) = 1 /\ Bit(f \in UncountedFrames(h)) = 0
  <2>1. Bit(f.at \in {"UncountHandle", "ClearEntry"}) = 1 /\ Bit(f.at \in {"CountHandle", "ClearEntry"}) = 0
    BY <1>2 DEF Bit
  <2> QED
    BY <1>4, <2>1, HandleBits
<1>11. /\ \A x \in Handles : x # h => /\ Bit(g \in HandleFrames(x)) = 0 /\ Bit(g \in ClosingFrames(x)) = 0
                                      /\ Bit(g \in UncountedFrames(x)) = 0
       /\ Bit(g \in HandleFrames(h)) = 1 /\ Bit(g \in ClosingFrames(h)) = 1 /\ Bit(g \in UncountedFrames(h)) = 1
  <2>1. Bit(g.at \in {"UncountHandle", "ClearEntry"}) = 1 /\ Bit(g.at \in {"CountHandle", "ClearEntry"}) = 1
    BY <1>7 DEF Bit
  <2> QED
    BY <1>7, <2>1, HandleBits
<1>12. SameDeletions
  <2>1. \A x : /\ Bit(f \in FreeFrames(x)) = 0 /\ Bit(f \in RoutineFrames(x)) = 0
               /\ Bit(g \in FreeFrames(x)) = 0 /\ Bit(g \in RoutineFrames(x)) = 0
    BY <1>2, <1>7, PlainBits
  <2> QED
    BY <1>5, <1>8, <2>1 DEF SameDeletions
<1>13. OtherHandleSteps(h)
  BY <1>5, <1>8, <1>10, <1>11 DEF OtherHandleSteps
<1>14. /\ Count(stack', HandleFrames(h)) = 1 /\ Count(stack', ClosingFrames(h)) = 1
       /\ Count(stack', UncountedFrames(h)) = 1
  BY <1>8, <1>9, <1>10, <1>11
<1>15. table' = table /\ tableLock' = tableLock /\ table[h] = o /\ opened' = opened
  BY <1>1, <1>2, <1>3, <1>4 DEF tableVars, userVars
<1>16. /\ handles' \in [Objects -> Int]
       /\ \A x \in Objects : handles'[x] = handles[x] - Bit(o = x) /\ handles[x] \in Int
  <2>1. handles' = [handles EXCEPT ![o] = @ - 1]
    BY <1>1, <1>2, <1>4
  <2>2. handles \in [Objects -> Int]
    BY DEF Inv, TypeInv
  <2> QED
    BY <2>1, <2>2 DEF Bit
<1>17. ASSUME NEW x \in Objects
       PROVE  /\ handles'[x] = handles[x] + Bit(table'[h] = x /\ Count(stack', UncountedFrames(h)) = 0)
                                          - Bit(table[h] = x /\ Count(stack, UncountedFrames(h)) = 0)
              /\ status[x] # "Live" => handles'[x] = handles[x]
              /\ Calls(stack', x) = Calls(stack, x) - Bit(table'[h] = x /\ Count(stack', ClosingFrames(h)) = 0)
                                                    + Bit(table[h] = x /\ Count(stack, ClosingFrames(h)) = 0)
  <2>1. /\ Bit(table'[h] = x /\ Count(stack', UncountedFrames(h)) = 0) = 0
        /\ Bit(table[h] = x /\ Count(stack, UncountedFrames(h)) = 0) = Bit(o = x)
        /\ Bit(table'[h] = x /\ Count(stack', ClosingFrames(h)) = 0) = 0
        /\ Bit(table[h] = x /\ Count(stack, ClosingFrames(h)) = 0) = 0
    BY <1>9, <1>14, <1>15 DEF Bit
  <2>2. Calls(stack', x) = Calls(stack, x) - Weight(f, x) + Weight(g, x)
    BY <1>2, <1>5, <1>8, MovedCalls
  <2>3. Weight(f, x) = 0 /\ Weight(g, x) = 0
    BY <1>2, <1>3, <1>7, WeightsAre DEF OnSteps
  <2>4. handles'[x] = handles[x] - Bit(o = x) /\ handles[x] \in Int /\ Bit(o = x) \in Nat
    BY <1>16 DEF Bit
  <2>5. status[x] # "Live" => Bit(o = x) = 0
    BY <1>2, <1>4 DEF Bit
  <2>6. Calls(stack, x) \in Nat
    BY Refs
  <2> QED
    BY <2>1, <2>2, <2>3, <2>4, <2>5, <2>6
<1>18. \A x \in opened' : table'[x] # NoObject
  BY <1>15 DEF Inv, HandleInv
<1>19. HandlesSteady(t, Len(stack[t]) - 1)
  BY <1>15, HandlesAreSteady DEF Inv
<1>20. \A k \in Len(stack[t]) - 1 + 1 .. Len(stack'[t]) : AllOK(t, k)'
  <2>1. \A k \in Len(stack[t]) - 1 + 1 .. Len(stack'[t]) : k = Len(stack[t])
    BY <1>2, <1>8
  <2>2. status'[o] = "Live"
    BY <1>1, <1>2, <1>4 DEF headerVars
  <2>3. /\ g.obj # NoObject /\ status'[g.obj] # "None" /\ g.target = NoObject /\ g.at = "ClearEntry"
        /\ g.handle \notin opened' /\ table'[g.handle] = g.obj /\ g.handle # NoHandle
    BY <1>3, <1>4, <1>7, <1>15, <2>2
  <2>4. ASSUME NEW k, k = Len(stack[t]) PROVE AllOK(t, k)'
    <3>1. stack'[t][k] = g
      BY <1>8, <2>4
    <3>2. FrameOK(t, k, g)' /\ g.at \notin LookupSteps
      BY <2>3 DEF FrameOK, LookupSteps, OwnSteps
    <3> QED
      BY <3>1, <3>2 DEF AllOK
  <2> QED
    BY <2>1, <2>4
<1>21. /\ table' \in [Handles -> Objects \cup {NoObject}] /\ tableLock' \in Threads \cup {NoThread}
       /\ opened' \subseteq Handles
       /\ table'[h] # NoObject => status[table'[h]] # "None"
  BY <1>15 DEF Inv, TypeInv, HandleInv
<1>22. UNCHANGED <<headerVars, refs, spaceVars, creator, owned, historyVars>>
  BY <1>1 DEF userVars
<1> QED
  BY <1>8, <1>12, <1>13, <1>14, <1>15, <1>16, <1>17, <1>18, <1>19, <1>20, <1>21, <1>22, HandleStepInv

LEMMA ObCloseInv ==
  ASSUME Inv, NEW t \in Threads, NEW h \in Handles, ObClose(t, h)
  PROVE  Inv'
<1>1. /\ stack[t] = << >> /\ (h \in opened \/ table[h] = NoObject)
      /\ opened' = opened \ {h} /\ tableLock' = t
      /\ table[h] = NoObject => stack' = stack
      /\ table[h] # NoObject =>
            stack' = Push(Push(stack, t, [Frame("UncountHandle", table[h]) EXCEPT !.handle = h]),
                          t, Frame("Decrement", table[h]))
      /\ UNCHANGED <<headerVars, countVars, spaceVars, table, creator, owned, historyVars>>
  BY DEF ObClose, Idle
<1>2. StackType /\ (\A F : Count(stack, F) \in Nat) /\ Len(stack[t]) = 0
  BY <1>1, Refs, CountType, EmptySeq DEF StackType
<1>3. handles' = handles /\ table' = table
  BY <1>1 DEF countVars
<1>4. UNCHANGED <<headerVars, refs, spaceVars, creator, owned, historyVars>>
  BY <1>1 DEF countVars
<1>5. /\ table' \in [Handles -> Objects \cup {NoObject}] /\ tableLock' \in Threads \cup {NoThread}
      /\ opened' \subseteq Handles /\ handles' \in [Objects -> Int]
      /\ \A g \in opened' : table'[g] # NoObject
      /\ table'[h] # NoObject => status[table'[h]] # "None"
  BY <1>1, <1>3 DEF Inv, TypeInv, HandleInv
<1>6. /\ Count(stack, HandleFrames(h)) = 0 /\ Count(stack, ClosingFrames(h)) = 0
      /\ Count(stack, UncountedFrames(h)) = 0
      /\ \A u \in Threads : \A k \in 1 .. Len(stack[u]) : stack[u][k].handle # h
  BY <1>1, NoStep
<1>7. HandlesSteady(t, 0)
  BY <1>1, <1>3, <1>6, OtherHandlesSteady
<1>8. \A x \in Objects : x # NoObject /\ handles[x] \in Int /\ Calls(stack, x) \in Nat
  BY Refs, ObjectManagerAssumption DEF Inv, TypeInv, Directories
<1>9. CASE table[h] = NoObject
  <2>1. stack' = stack
    BY <1>1, <1>9
  <2>2. Keeps(t, 0) /\ SameDeletions /\ OtherHandleSteps(h)
    BY <1>2, <2>1 DEF Keeps, StackType, SameDeletions, OtherHandleSteps
  <2>3. 0 + 1 .. Len(stack'[t]) = {}
    BY <1>2, <2>1
  <2>4. ASSUME NEW x \in Objects
        PROVE  /\ handles'[x] = handles[x] + Bit(table'[h] = x /\ Count(stack', UncountedFrames(h)) = 0)
                                           - Bit(table[h] = x /\ Count(stack, UncountedFrames(h)) = 0)
               /\ status[x] # "Live" => handles'[x] = handles[x]
               /\ Calls(stack', x) = Calls(stack, x) - Bit(table'[h] = x /\ Count(stack', ClosingFrames(h)) = 0)
                                                     + Bit(table[h] = x /\ Count(stack, ClosingFrames(h)) = 0)
    <3>1. /\ Bit(table'[h] = x /\ Count(stack', UncountedFrames(h)) = 0) = 0
          /\ Bit(table[h] = x /\ Count(stack, UncountedFrames(h)) = 0) = 0
          /\ Bit(table'[h] = x /\ Count(stack', ClosingFrames(h)) = 0) = 0
          /\ Bit(table[h] = x /\ Count(stack, ClosingFrames(h)) = 0) = 0
      BY <1>3, <1>8, <1>9 DEF Bit
    <3> QED
      BY <1>3, <1>8, <2>1, <3>1
  <2> QED
    BY <1>3, <1>4, <1>5, <1>6, <1>7, <2>1, <2>2, <2>3, <2>4, HandleStepInv
<1>10. CASE table[h] # NoObject
  <2>1. PICK o \in Objects : o = table[h]
    BY <1>10 DEF Inv, TypeInv
  <2>2. PICK b : b = Frame("UncountHandle", o)
    OBVIOUS
  <2>3. b \in Frames /\ b.at = "UncountHandle" /\ b.obj = o /\ b.target = NoObject
    BY <2>2, FrameIs DEF Steps
  <2>4. PICK f : f = [b EXCEPT !.handle = h]
    OBVIOUS
  <2>5. f \in Frames /\ f.at = "UncountHandle" /\ f.obj = o /\ f.handle = h /\ f.target = NoObject
    BY <2>3, <2>4 DEF Frames
  <2>6. PICK g : g = Frame("Decrement", o)
    OBVIOUS
  <2>7. g \in Frames /\ g.at = "Decrement" /\ g.obj = o /\ g.handle = NoHandle /\ g.target = NoObject
    BY <2>6, FrameIs DEF Steps
  <2>8. stack' = Push(Push(stack, t, f), t, g)
    BY <1>1, <1>10, <2>1, <2>2, <2>4, <2>6
  <2>9. /\ Keeps(t, Len(stack[t])) /\ Len(stack'[t]) = Len(stack[t]) + 2
        /\ stack'[t][Len(stack[t]) + 1] = f /\ stack'[t][Len(stack[t]) + 2] = g
        /\ \A F : Count(stack', F) = Count(stack, F) + Bit(f \in F) + Bit(g \in F)
    <3>1. /\ stack \in Stacks /\ IsFiniteSet(Places(stack, Frames)) /\ t \in Threads
          /\ f \in Frames /\ g \in Frames
      BY <1>2, <2>5, <2>7 DEF StackType
    <3> QED
      BY ONLY <3>1, <2>8, EnterTwiceStack
  <2>10. /\ Keeps(t, 0) /\ Len(stack'[t]) = 2 /\ stack'[t][1] = f /\ stack'[t][2] = g
    BY <1>2, <2>9
  <2>11. /\ \A x \in Handles : x # h => /\ Bit(f \in HandleFrames(x)) = 0 /\ Bit(f \in ClosingFrames(x)) = 0
                                        /\ Bit(f \in UncountedFrames(x)) = 0
         /\ Bit(f \in HandleFrames(h)) = 1 /\ Bit(f \in ClosingFrames(h)) = 1 /\ Bit(f \in UncountedFrames(h)) = 0
    <3>1. Bit(f.at \in {"UncountHandle", "ClearEntry"}) = 1 /\ Bit(f.at \in {"CountHandle", "ClearEntry"}) = 0
      BY <2>5 DEF Bit
    <3> QED
      BY <2>5, <3>1, HandleBits
  <2>12. /\ \A x \in Handles : /\ Bit(g \in HandleFrames(x)) = 0 /\ Bit(g \in ClosingFrames(x)) = 0
                               /\ Bit(g \in UncountedFrames(x)) = 0
         /\ \A x : /\ Bit(f \in FreeFrames(x)) = 0 /\ Bit(g \in FreeFrames(x)) = 0
                   /\ Bit(f \in RoutineFrames(x)) = 0 /\ Bit(g \in RoutineFrames(x)) = 0
    BY <2>5, <2>7, PlainBits
  <2>13. SameDeletions
    BY <1>2, <2>9, <2>12 DEF SameDeletions
  <2>14. OtherHandleSteps(h)
    BY <1>2, <2>9, <2>11, <2>12 DEF OtherHandleSteps
  <2>15. /\ Count(stack', HandleFrames(h)) = 1 /\ Count(stack', ClosingFrames(h)) = 1
         /\ Count(stack', UncountedFrames(h)) = 0
    BY <1>6, <2>9, <2>11, <2>12
  <2>16. ASSUME NEW x \in Objects
         PROVE  /\ handles'[x] = handles[x] + Bit(table'[h] = x /\ Count(stack', UncountedFrames(h)) = 0)
                                            - Bit(table[h] = x /\ Count(stack, UncountedFrames(h)) = 0)
                /\ status[x] # "Live" => handles'[x] = handles[x]
                /\ Calls(stack', x) = Calls(stack, x) - Bit(table'[h] = x /\ Count(stack', ClosingFrames(h)) = 0)
                                                      + Bit(table[h] = x /\ Count(stack, ClosingFrames(h)) = 0)
    <3>1. /\ Bit(table'[h] = x /\ Count(stack', UncountedFrames(h)) = 0) = Bit(o = x)
          /\ Bit(table[h] = x /\ Count(stack, UncountedFrames(h)) = 0) = Bit(o = x)
          /\ Bit(table'[h] = x /\ Count(stack', ClosingFrames(h)) = 0) = 0
          /\ Bit(table[h] = x /\ Count(stack, ClosingFrames(h)) = 0) = Bit(o = x)
          /\ Bit(o = x) \in Nat
      BY <1>3, <1>6, <2>1, <2>15 DEF Bit
    <3>2. Calls(stack', x) = Calls(stack, x) + Weight(f, x) + Weight(g, x)
      BY <1>2, <2>9, TwiceAddedCalls
    <3>3. Weight(f, x) = 0 /\ Weight(g, x) = Bit(o = x)
      BY <2>5, <2>7, WeightsAre DEF OnSteps
    <3>4. handles'[x] = handles[x] /\ handles[x] \in Int /\ Calls(stack, x) \in Nat
      BY <1>3, <1>8
    <3> QED
      BY <3>1, <3>2, <3>3, <3>4
  <2>17. status'[o] # "None" /\ o # NoObject
    <3>1. status[o] # "None"
      BY <1>10, <2>1 DEF Inv, HandleInv
    <3> QED
      BY <1>4, <1>8, <3>1 DEF headerVars
  <2>18. AllOK(t, 1)'
    <3>1. /\ f.obj # NoObject /\ status'[f.obj] # "None" /\ f.target = NoObject /\ f.at = "UncountHandle"
          /\ f.handle \notin opened' /\ table'[f.handle] = f.obj /\ f.handle # NoHandle
      BY <1>1, <1>3, <2>1, <2>5, <2>17, ObjectManagerAssumption
    <3>2. FrameOK(t, 1, f)' /\ f.at \notin LookupSteps
      BY <3>1 DEF FrameOK, LookupSteps, OwnSteps
    <3> QED
      BY <2>10, <3>2 DEF AllOK
  <2>19. AllOK(t, 2)'
    <3>1. FrameOK(t, 2, g)' /\ g.at \notin LookupSteps
      BY <2>7, <2>17, SimpleOK
    <3> QED
      BY <2>10, <3>1 DEF AllOK
  <2>20. \A k \in 0 + 1 .. Len(stack'[t]) : AllOK(t, k)'
    <3>1. \A k \in 0 + 1 .. Len(stack'[t]) : k = 1 \/ k = 2
      BY <2>10
    <3> QED
      BY <2>18, <2>19, <3>1
  <2>21. Count(stack', HandleFrames(h)) <= 1 /\ (\A x \in Handles : x # h => table'[x] = table[x])
    BY <1>3, <2>15
  <2>22. Keeps(t, 0)
    BY <2>10
  <2> QED
    BY <1>4, <1>5, <1>7, <2>13, <2>14, <2>16, <2>20, <2>21, <2>22, HandleStepInv
<1> QED
  BY <1>9, <1>10

-----------------------------------------------------------------------------
(* The invariant. *)

LEMMA InitInv == Init => IInv
<1> SUFFICES ASSUME Init PROVE Inv
  BY DEF IInv
<1>1. /\ status = [o \in Objects |-> "None"] /\ type = [o \in Objects |-> "Other"]
      /\ name = [o \in Objects |-> NoName] /\ parent = [o \in Objects |-> NoObject]
      /\ refs = [o \in Objects |-> 0] /\ handles = [o \in Objects |-> 0]
      /\ linkTarget = [o \in Objects |-> NoObject] /\ linkPath = [o \in Objects |-> << >>]
      /\ list = [d \in Directories |-> << >>] /\ ready = {Root}
      /\ table = [h \in Handles |-> NoObject] /\ tableLock = NoThread
      /\ stack = [t \in Threads |-> << >>] /\ creator = [o \in Objects |-> NoThread]
      /\ owned = [t \in Threads |-> [o \in Objects |-> 0]] /\ opened = {} /\ revived = {} /\ damaged = FALSE
  BY DEF Init
<1>2. << >> \in Seq(Names) /\ << >> \in Seq(Objects) /\ << >> \in Seq(Frames) /\ DOMAIN << >> = {}
  BY EmptySeq
<1>3. TypeInv
  <2>1. 0 \in 0 .. MaxOwned
    BY ObjectManagerAssumption
  <2>2. /\ status \in [Objects -> {"None", "Live", "Freed"}] /\ type \in [Objects -> Types]
        /\ name \in [Objects -> Names \cup {NoName}]
        /\ parent \in [Objects -> Directories \cup {NoObject}]
    BY <1>1 DEF Types
  <2>3. /\ refs \in [Objects -> Int] /\ handles \in [Objects -> Int]
        /\ linkTarget \in [Objects -> Objects \cup {NoObject}]
        /\ linkPath \in [Objects -> Seq(Names)] /\ list \in [Directories -> Seq(Objects)]
    BY <1>1, <1>2
  <2>4. /\ ready \subseteq Directories /\ table \in [Handles -> Objects \cup {NoObject}]
        /\ tableLock \in Threads \cup {NoThread}
    BY <1>1 DEF Directories
  <2>5. /\ stack \in [Threads -> Seq(Frames)] /\ creator \in [Objects -> Threads \cup {NoThread}]
        /\ owned \in [Threads -> [Objects -> 0 .. MaxOwned]]
    BY <1>1, <1>2, <2>1
  <2>6. opened \subseteq Handles /\ revived \subseteq Objects /\ damaged \in BOOLEAN
    BY <1>1
  <2> QED
    BY <2>2, <2>3, <2>4, <2>5, <2>6 DEF TypeInv
<1>4. \A F : Places(stack, F) = {} /\ Count(stack, F) = 0
  <2>1. \A F : Places(stack, F) = {}
    BY <1>1, <1>2 DEF Places
  <2> QED
    BY <2>1, FS_EmptySet DEF Count
<1>5. \A o \in Objects : Owners(o) = {}
  BY <1>1 DEF Owners
<1>6. FiniteInv
  <2>1. {h \in Handles : table[h] # NoObject} = {} /\ {o \in Objects : status[o] # "None"} = {}
    BY <1>1
  <2> QED
    BY <1>4, <1>5, <2>1, FS_EmptySet DEF FiniteInv
<1>7. CountInv
  <2> SUFFICES ASSUME NEW o \in Objects PROVE References(o) = 0
    BY <1>1 DEF CountInv
  <2>1. References(o) = Held(o) + Calls(stack, o)
    BY <1>3, <1>6, ReferencesAre DEF ReferencesType
  <2>2. Calls(stack, o) = 0
    BY <1>4 DEF Calls
  <2>3. o # NoObject
    BY ObjectManagerAssumption DEF Directories
  <2>4. Owners(o) = {} /\ HandlesTo(o) = {} /\ LinksTo(o) = {} /\ Bit(creator[o] # NoThread) = 0
    BY <1>1, <1>5, <2>3 DEF HandlesTo, LinksTo, Bit
  <2>5. Held(o) = 0
    BY <2>4, FS_EmptySet DEF Held
  <2> QED
    BY <2>1, <2>2, <2>5
<1>8. HandleInv
  BY <1>1, <1>4 DEF HandleInv
<1>9. ListInv
  BY <1>1, <1>2 DEF ListInv
<1>10. ObjectInv
  BY <1>1 DEF ObjectInv
<1>11. FrameInv
  BY <1>1, <1>2 DEF FrameInv
<1> QED
  BY <1>3, <1>6, <1>7, <1>8, <1>9, <1>10, <1>11 DEF Inv

LEMMA StutterInv ==
  ASSUME Inv, UNCHANGED vars
  PROVE  Inv'
<1>1. /\ status' = status /\ name' = name /\ parent' = parent /\ type' = type /\ linkTarget' = linkTarget
      /\ linkPath' = linkPath /\ refs' = refs /\ handles' = handles /\ list' = list /\ ready' = ready
      /\ table' = table /\ tableLock' = tableLock /\ stack' = stack
      /\ creator' = creator /\ owned' = owned /\ opened' = opened /\ revived' = revived /\ damaged' = damaged
  BY DEF vars, headerVars, countVars, spaceVars, tableVars, userVars, historyVars
<1>2. TypeInv'
  BY <1>1 DEF Inv, TypeInv
<1>3. StackType' /\ StackType
  <2>1. StackType
    BY Refs
  <2>2. Stacks' = Stacks /\ Places(stack, Frames)' = Places(stack', Frames)
    BY DEF Stacks, Frames, Places
  <2>3. stack' \in Stacks' /\ IsFiniteSet(Places(stack, Frames)')
    BY <1>1, <2>1, <2>2 DEF StackType
  <2> QED
    BY <2>1, <2>3 DEF StackType
<1>4. FiniteInv'
  BY <1>1, <1>3, FiniteInvKept DEF Inv
<1>5. SameHandleSteps /\ SameDeletions
  BY <1>1 DEF SameHandleSteps, SameDeletions
<1>6. CountInv'
  <2>1. ASSUME NEW x \in Objects
        PROVE  Cardinality(HandlesTo(x)') + Cardinality(LinksTo(x)') + Calls(stack', x)
                  = Cardinality(HandlesTo(x)) + Cardinality(LinksTo(x)) + Calls(stack, x)
    <3>1. HandlesTo(x)' = HandlesTo(x)
      BY <1>1, <1>3, <1>5, HandlesToKept
    <3>2. LinksTo(x)' = LinksTo(x)
      BY <1>1, <1>3, <1>5, LinksToKept
    <3> QED
      BY <1>1, <3>1, <3>2
  <2> QED
    BY <1>1, <1>2, <1>4, <2>1, CountInvKept
<1>7. HandleInv' /\ ListInv'
  BY <1>1, <1>5, HandleInvKept, ListInvKept DEF Inv
<1>8. ObjectInv'
  <2>1. \A x \in Objects : Count(stack', RoutineFrames(x)) + Count(stack', FreeFrames(x))
                            = Count(stack, RoutineFrames(x)) + Count(stack, FreeFrames(x))
    BY <1>5 DEF SameDeletions
  <2>2. ObjectInv /\ TypeInv /\ UNCHANGED headerVars /\ creator' = creator
    BY <1>1 DEF Inv, headerVars
  <2> QED
    BY ONLY <2>1, <2>2, ObjectInvKept
<1>9. FrameInv'
  <2>1. ASSUME NEW t \in Threads, NEW k \in DOMAIN stack'[t], FrameOK(t, k, stack[t][k])
        PROVE  FrameOK(t, k, stack[t][k])'
    BY <1>1, <2>1 DEF FrameOK, InNoList
  <2>2. ASSUME NEW t \in Threads, NEW k \in DOMAIN stack'[t], LookupOK(t, k, stack[t][k])
        PROVE  LookupOK(t, k, stack[t][k])'
    BY <1>1, <2>2 DEF LookupOK, CanOwnMore
  <2>3. FrameInv /\ stack' = stack
    BY <1>1 DEF Inv
  <2> QED
    BY <2>1, <2>2, <2>3 DEF FrameInv, LookupSteps
<1> QED
  BY <1>2, <1>4, <1>6, <1>7, <1>8, <1>9 DEF Inv


\* Nothing takes back what has gone wrong.
LEMMA IntactBefore ==
  ASSUME [Next]_vars, Intact'
  PROVE  Intact
<1>1. ASSUME UNCHANGED historyVars PROVE Intact
  BY <1>1 DEF historyVars, Intact
<1>2. CASE UNCHANGED vars
  <2>1. UNCHANGED historyVars
    BY <1>2 DEF vars
  <2> QED
    BY <1>1, <2>1
<1>3. ASSUME NEW t \in Threads, Call(t) PROVE Intact
  <2>1. CASE \/ \E o \in Objects, n \in Names : CreateObject(t, o, n)
             \/ \E o \in Objects, n \in Names, d \in Directories : ObCreateDirectory(t, o, n, d)
             \/ \E o \in Objects, d \in Directories : ObInsertObject(t, o, d)
    <3>1. UNCHANGED historyVars
      BY <2>1 DEF CreateObject, ObCreateDirectory, ObInsertObject, ObCreateObject
    <3> QED
      BY <1>1, <3>1
  <2>2. CASE \/ \E path \in Paths, use \in Uses \ {"None", "LinkDirectory"} : CallByName(t, path, use)
             \/ \E o \in Objects, use \in {"Reference", "Open"} : CallByPointer(t, o, use)
    <3>1. UNCHANGED historyVars
      BY <2>2 DEF CallByName, CallByPointer
    <3> QED
      BY <1>1, <3>1
  <2>3. CASE \E o \in Objects : CallDereference(t, o) \/ ObpDeleteObject(t, o)
    <3>1. UNCHANGED historyVars
      BY <2>3 DEF CallDereference, ObpDeleteObject
    <3> QED
      BY <1>1, <3>1
  <2>4. CASE \E h \in Handles : ObClose(t, h) \/ ObReferenceObjectByHandle(t, h)
    <3>1. UNCHANGED historyVars
      BY <2>4 DEF ObClose, ObReferenceObjectByHandle
    <3> QED
      BY <1>1, <3>1
  <2> QED
    BY <1>3, <2>1, <2>2, <2>3, <2>4 DEF Call
<1>4. ASSUME NEW t \in Threads, Step(t) PROVE Intact
  <2>1. CASE ObpFindObjectInDirectory(t) \/ ObpParse(t)
    <3>1. UNCHANGED historyVars
      BY <2>1 DEF ObpFindObjectInDirectory, ObpParse
    <3> QED
      BY <1>1, <3>1
  <2>2. CASE ObReferenceObject(t)
    <3>1. /\ damaged' = damaged
          /\ revived' = IF refs[Top(t).obj] = 0 THEN revived \cup {Top(t).obj} ELSE revived
      BY <2>2 DEF ObReferenceObject
    <3> QED
      BY <3>1 DEF Intact
  <2>3. CASE \/ ObDereferenceObject(t) \/ ObDereferenceObjectTest(t)
             \/ ObDeleteObjectDecide(t) \/ ObDereferenceObjectEx(t)
    <3>1. UNCHANGED historyVars
      BY <2>3 DEF ObDereferenceObject, ObDereferenceObjectTest, ObDeleteObjectDecide, ObDereferenceObjectEx
    <3> QED
      BY <1>1, <3>1
  <2>4. CASE \/ ObpDeleteObjectInternal(t) \/ ObpDeleteObjectUnlink(t)
             \/ DeleteRoutine(t) \/ ObpDeleteObjectFree(t)
    <3>1. UNCHANGED historyVars
      BY <2>4 DEF ObpDeleteObjectInternal, ObpDeleteObjectUnlink, DeleteRoutine, ObpDeleteObjectFree
    <3> QED
      BY <1>1, <3>1
  <2>5. CASE ObCreateDirectoryInsert(t) \/ ObCreateDirectoryInit(t) \/ ObCreateSymbolicLinkFinish(t)
    <3>1. UNCHANGED historyVars
      BY <2>5 DEF ObCreateDirectoryInsert, ObCreateDirectoryInit, ObCreateSymbolicLinkFinish
    <3> QED
      BY <1>1, <3>1
  <2>6. CASE \E o \in Objects, n \in Names, where \in Paths \cup {<< >>} :
                ObCreateSymbolicLinkMake(t, o, n, where)
    <3>1. UNCHANGED historyVars
      BY <2>6 DEF ObCreateSymbolicLinkMake, ObCreateObject
    <3> QED
      BY <1>1, <3>1
  <2>7. CASE ObpCreateHandle(t) \/ CountHandle(t) \/ ObCloseUncount(t) \/ ObpDeleteHandle(t)
    <3>1. UNCHANGED historyVars
      BY <2>7 DEF ObpCreateHandle, CountHandle, ObCloseUncount, ObpDeleteHandle
    <3> QED
      BY <1>1, <3>1
  <2>8. CASE UseBadMemory(t)
    BY <2>8 DEF UseBadMemory, Intact
  <2> QED
    BY <1>4, <2>1, <2>2, <2>3, <2>4, <2>5, <2>6, <2>7, <2>8 DEF Step
<1> QED
  BY <1>2, <1>3, <1>4 DEF Next

LEMMA CallInv ==
  ASSUME Inv, NEW t \in Threads, Call(t)
  PROVE  Inv'
<1>1. CASE \E o \in Objects, n \in Names : CreateObject(t, o, n)
  BY <1>1, CreateObjectInv
<1>2. CASE \E o \in Objects, n \in Names, d \in Directories : ObCreateDirectory(t, o, n, d)
  BY <1>2, ObCreateDirectoryInv
<1>3. CASE \E o \in Objects, d \in Directories : ObInsertObject(t, o, d)
  BY <1>3, ObInsertObjectInv
<1>4. CASE \E path \in Paths, use \in Uses \ {"None", "LinkDirectory"} : CallByName(t, path, use)
  BY <1>4, CallByNameInv
<1>5. CASE \E o \in Objects, use \in {"Reference", "Open"} : CallByPointer(t, o, use)
  BY <1>5, CallByPointerInv
<1>6. CASE \E o \in Objects : CallDereference(t, o) \/ ObpDeleteObject(t, o)
  BY <1>6, CallDereferenceInv, ObpDeleteObjectInv
<1>7. CASE \E h \in Handles : ObClose(t, h) \/ ObReferenceObjectByHandle(t, h)
  BY <1>7, ObCloseInv, ObReferenceObjectByHandleInv
<1> QED
  BY <1>1, <1>2, <1>3, <1>4, <1>5, <1>6, <1>7 DEF Call

LEMMA StepInv ==
  ASSUME Inv, NEW t \in Threads, Step(t), Intact'
  PROVE  Inv'
<1>1. CASE ObpFindObjectInDirectory(t) \/ ObpParse(t) \/ ObReferenceObject(t)
  BY <1>1, ObpFindObjectInDirectoryInv, ObpParseInv, ObReferenceObjectInv
<1>2. CASE \/ ObDereferenceObject(t) \/ ObDereferenceObjectTest(t)
           \/ ObDeleteObjectDecide(t) \/ ObDereferenceObjectEx(t)
  BY <1>2, ObDereferenceObjectInv, ObDereferenceObjectTestInv, ObDeleteObjectDecideInv,
     ObDereferenceObjectExInv
<1>3. CASE \/ ObpDeleteObjectInternal(t) \/ ObpDeleteObjectUnlink(t)
           \/ DeleteRoutine(t) \/ ObpDeleteObjectFree(t)
  BY <1>3, ObpDeleteObjectInternalInv, ObpDeleteObjectUnlinkInv, DeleteRoutineInv,
     ObpDeleteObjectFreeInv
<1>4. CASE ObCreateDirectoryInsert(t) \/ ObCreateDirectoryInit(t) \/ ObCreateSymbolicLinkFinish(t)
  BY <1>4, ObCreateDirectoryInsertInv, ObCreateDirectoryInitInv, ObCreateSymbolicLinkFinishInv
<1>5. CASE \E o \in Objects, n \in Names, where \in Paths \cup {<< >>} :
              ObCreateSymbolicLinkMake(t, o, n, where)
  BY <1>5, ObCreateSymbolicLinkMakeInv
<1>6. CASE ObpCreateHandle(t) \/ CountHandle(t) \/ ObCloseUncount(t) \/ ObpDeleteHandle(t)
  BY <1>6, ObpCreateHandleInv, CountHandleInv, ObCloseUncountInv, ObpDeleteHandleInv
<1>7. CASE UseBadMemory(t)
  BY <1>7 DEF UseBadMemory, Intact
<1> QED
  BY <1>1, <1>2, <1>3, <1>4, <1>5, <1>6, <1>7 DEF Step

LEMMA NextInv == IInv /\ [Next]_vars => IInv'
<1> SUFFICES ASSUME IInv, [Next]_vars, Intact' PROVE Inv'
  BY DEF IInv
<1>1. Inv
  BY IntactBefore DEF IInv
<1>2. CASE UNCHANGED vars
  BY <1>1, <1>2, StutterInv
<1>3. ASSUME NEW t \in Threads, Call(t) \/ Step(t) PROVE Inv'
  BY <1>1, <1>3, CallInv, StepInv
<1> QED
  BY <1>2, <1>3 DEF Next

\* As long as no freed memory was used and no lost object was found (ob.cpp:554), whatever
\* the threads interleave: each step on a stack knows of its object what FrameInv says.
THEOREM Invariance == Spec => []IInv
<1> QED
  BY InitInv, NextInv, PTL DEF Spec

-----------------------------------------------------------------------------
(* What follows from it. *)

LEMMA TypesFollow == Inv => TypeOK
<1> SUFFICES ASSUME Inv PROVE TypeOK
  OBVIOUS
<1>1. TypeInv
  BY DEF Inv
<1>2. refs \in [Objects -> Nat]
  <2>1. \A o \in Objects : refs[o] \in Nat
    BY Refs
  <2>2. refs \in [Objects -> Int]
    BY <1>1 DEF TypeInv
  <2> QED
    BY <2>1, <2>2
<1>3. handles \in [Objects -> Nat]
  <2>1. ASSUME NEW o \in Objects PROVE handles[o] \in Nat
    <3>1. PICK S : S = {h \in Handles : table[h] = o /\ Count(stack, UncountedFrames(h)) = 0}
      OBVIOUS
    <3>2. handles[o] = IF status[o] = "Live" THEN Cardinality(S) ELSE 0
      BY <3>1 DEF Inv, HandleInv
    <3>3. o # NoObject
      BY ObjectManagerAssumption DEF Directories
    <3>4. S \subseteq {h \in Handles : table[h] # NoObject}
      BY <3>1, <3>3
    <3>5. IsFiniteSet({h \in Handles : table[h] # NoObject})
      BY DEF Inv, FiniteInv
    <3>6. Cardinality(S) \in Nat
      BY <3>4, <3>5, FS_Subset, FS_CardinalityType
    <3> QED
      BY <3>2, <3>6
  <2>2. handles \in [Objects -> Int]
    BY <1>1 DEF TypeInv
  <2> QED
    BY <2>1, <2>2
<1> QED
  BY <1>1, <1>2, <1>3 DEF TypeInv, TypeOK

\* No reference count and no handle count goes below zero (ob.cpp:507, 1415), as long as
\* nothing has gone wrong.
THEOREM TypeCorrect == Spec => [](Intact => TypeOK)
<1>1. IInv => (Intact => TypeOK)
  BY TypesFollow DEF IInv
<1> QED
  BY <1>1, Invariance, PTL

\* ReferenceCount is the number of the references that threads, handles, links and calls
\* in progress have (ob.cpp:483, 507, 554), and ObpDeleteObjectInternal frees an object
\* that nobody refers to any more (ob.cpp:608).
THEOREM ReferenceCounts == Spec => []ReferencesAreCounted
<1>1. IInv => ReferencesAreCounted
  BY DEF IInv, Inv, CountInv, ReferencesAreCounted
<1> QED
  BY <1>1, Invariance, PTL

\* HandleCount is the number of the handles of an object, but for those that an open has
\* still to count and those that a close has still to clear (ob.cpp:1260, 1415).
THEOREM HandleCounts == Spec => []HandlesAreCounted
<1>1. ASSUME IInv, Intact, NEW o \in Objects, status[o] = "Live"
      PROVE  handles[o] = Cardinality({h \in Handles : table[h] = o
                                          /\ Waiting({"CountHandle", "ClearEntry"}, h) = {}})
  <2>1. Inv
    BY <1>1 DEF IInv
  <2>2. \A h : Waiting({"CountHandle", "ClearEntry"}, h) = {} <=> Count(stack, UncountedFrames(h)) = 0
    BY <2>1, Refs DEF CountsAre
  <2>3. {h \in Handles : table[h] = o /\ Waiting({"CountHandle", "ClearEntry"}, h) = {}}
          = {h \in Handles : table[h] = o /\ Count(stack, UncountedFrames(h)) = 0}
    BY <2>2
  <2>4. handles[o] = Cardinality({h \in Handles : table[h] = o /\ Count(stack, UncountedFrames(h)) = 0})
    BY <1>1, <2>1 DEF Inv, HandleInv
  <2> QED
    BY <2>3, <2>4
<1>2. IInv => HandlesAreCounted
  BY <1>1 DEF HandlesAreCounted
<1> QED
  BY <1>2, Invariance, PTL

\* A directory that a search can enter lists different objects, all of them allocated and
\* all its own (ob.cpp:627).
THEOREM ListsAreSound == Spec => []ListedObjectsAreLive
<1>1. ASSUME IInv, Intact, NEW d \in Directories
      PROVE  /\ \A o \in ToSet(list[d]) : status[o] = "Live" /\ parent[o] = d
             /\ IsInjective(list[d])
  <2>1. ListInv
    BY <1>1 DEF IInv, Inv
  <2>2. \A o \in ToSet(list[d]) : status[o] = "Live" /\ parent[o] = d
    BY <2>1 DEF ListInv, ToSet
  <2>3. IsInjective(list[d])
    BY <2>1 DEF ListInv, IsInjective
  <2> QED
    BY <2>2, <2>3
<1>2. IInv => ListedObjectsAreLive
  BY <1>1 DEF ListedObjectsAreLive
<1> QED
  BY <1>2, Invariance, PTL
=============================================================================
