---------------------------- MODULE SchedulerProofs ----------------------------
(***************************************************************************)
(* Proofs about module Scheduler.  The argument has three layers:          *)
(*   - facts about the intrusive lists of inc/ke.h: unlinking and linking  *)
(*     an entry keeps every list coherent, and one ring through its head;  *)
(*   - PspSwapThread keeps the thread lists so and gives the processor to  *)
(*     a READY thread;                                                     *)
(*   - the inductive invariants: TypeOK, then SchedInv.                    *)
(***************************************************************************)
EXTENDS Scheduler, SequenceTheorems, TLAPS

Placement == [Nodes -> {"Ready", "Wait", "Out"}]

\* Unlinking an entry of a list leaves Links.
LEMMA RemoveEntryListType ==
    ASSUME NEW L \in Links, NEW e \in Nodes
    PROVE  RemoveEntryList(L, e) \in Links
BY DEF RemoveEntryList, Links

\* So does linking one at the tail...
LEMMA InsertTailListType ==
    ASSUME NEW L \in Links, NEW h \in Nodes, NEW e \in Nodes
    PROVE  InsertTailList(L, h, e) \in Links
BY DEF InsertTailList, Links

\* ...or at the head.
LEMMA InsertHeadListType ==
    ASSUME NEW L \in Links, NEW h \in Nodes, NEW e \in Nodes
    PROVE  InsertHeadList(L, h, e) \in Links
BY DEF InsertHeadList, Links

\* RemoveEntryList of a linked thread keeps all lists coherent (ke.h:213).
LEMMA RemoveEntryListWellFormed ==
    ASSUME NEW L \in Links, NEW where \in Placement, NEW e \in Nodes,
           WellFormed(L, where), where[e] # "Out"
    PROVE  WellFormed(RemoveEntryList(L, e), [where EXCEPT ![e] = "Out"])
<1> DEFINE M == RemoveEntryList(L, e)
           w == [where EXCEPT ![e] = "Out"]
<1>1. L.flink \in [Nodes -> Nodes] /\ L.blink \in [Nodes -> Nodes]
  BY DEF Links
<1>2. M.flink = [L.flink EXCEPT ![L.blink[e]] = L.flink[e]]
  BY DEF RemoveEntryList
<1>3. M.blink = [L.blink EXCEPT ![L.flink[e]] = L.blink[e]]
  BY DEF RemoveEntryList
<1>4. w \in Placement
  BY DEF Placement
<1> SUFFICES ASSUME NEW n \in Nodes, w[n] # "Out"
             PROVE  /\ w[M.flink[n]] = w[n]
                    /\ w[M.blink[n]] = w[n]
                    /\ M.blink[M.flink[n]] = n
                    /\ M.flink[M.blink[n]] = n
  BY DEF WellFormed
<1>5. n # e /\ where[n] # "Out" /\ w[n] = where[n]
  BY DEF Placement
<1>6. /\ L.blink[L.flink[n]] = n /\ L.flink[L.blink[n]] = n
      /\ L.blink[L.flink[e]] = e /\ L.flink[L.blink[e]] = e
      /\ where[L.flink[n]] = where[n] /\ where[L.blink[n]] = where[n]
      /\ where[L.flink[e]] = where[e] /\ where[L.blink[e]] = where[e]
  BY <1>5 DEF WellFormed
<1>7. w[M.flink[n]] = w[n] /\ M.blink[M.flink[n]] = n
  BY <1>1, <1>2, <1>3, <1>5, <1>6 DEF Placement
<1>8. w[M.blink[n]] = w[n] /\ M.flink[M.blink[n]] = n
  BY <1>1, <1>2, <1>3, <1>5, <1>6 DEF Placement
<1> QED BY <1>7, <1>8

\* InsertTailList of an unlinked thread keeps all lists coherent (ke.h:263).
LEMMA InsertTailListWellFormed ==
    ASSUME NEW L \in Links, NEW where \in Placement, NEW e \in Nodes, NEW h \in Nodes,
           WellFormed(L, where), where[e] = "Out", where[h] # "Out"
    PROVE  WellFormed(InsertTailList(L, h, e), [where EXCEPT ![e] = where[h]])
<1> DEFINE M == InsertTailList(L, h, e)
           w == [where EXCEPT ![e] = where[h]]
<1>1. L.flink \in [Nodes -> Nodes] /\ L.blink \in [Nodes -> Nodes]
  BY DEF Links
<1>2. M.flink = [L.flink EXCEPT ![e] = h, ![L.blink[h]] = e]
  BY DEF InsertTailList
<1>3. M.blink = [L.blink EXCEPT ![e] = L.blink[h], ![h] = e]
  BY DEF InsertTailList
<1>4. e # h /\ where[L.blink[h]] = where[h] /\ L.flink[L.blink[h]] = h /\ L.blink[h] # e
  BY DEF WellFormed
<1> SUFFICES ASSUME NEW n \in Nodes, w[n] # "Out"
             PROVE  /\ w[M.flink[n]] = w[n]
                    /\ w[M.blink[n]] = w[n]
                    /\ M.blink[M.flink[n]] = n
                    /\ M.flink[M.blink[n]] = n
  BY DEF WellFormed
<1>5. CASE n = e
  BY <1>1, <1>2, <1>3, <1>4, <1>5 DEF Placement
<1>6. CASE n # e
  <2>1. where[n] # "Out" /\ w[n] = where[n]
    BY <1>6 DEF Placement
  <2>2. /\ L.blink[L.flink[n]] = n /\ L.flink[L.blink[n]] = n
        /\ where[L.flink[n]] = where[n] /\ where[L.blink[n]] = where[n]
    BY <2>1 DEF WellFormed
  <2>3. w[M.flink[n]] = w[n] /\ M.blink[M.flink[n]] = n
    BY <1>1, <1>2, <1>3, <1>4, <1>6, <2>1, <2>2 DEF Placement
  <2>4. w[M.blink[n]] = w[n] /\ M.flink[M.blink[n]] = n
    BY <1>1, <1>2, <1>3, <1>4, <1>6, <2>1, <2>2 DEF Placement
  <2> QED BY <2>3, <2>4
<1> QED BY <1>5, <1>6

\* InsertHeadList of an unlinked thread keeps all lists coherent (ke.h:280).
LEMMA InsertHeadListWellFormed ==
    ASSUME NEW L \in Links, NEW where \in Placement, NEW e \in Nodes, NEW h \in Nodes,
           WellFormed(L, where), where[e] = "Out", where[h] # "Out"
    PROVE  WellFormed(InsertHeadList(L, h, e), [where EXCEPT ![e] = where[h]])
<1> DEFINE M == InsertHeadList(L, h, e)
           w == [where EXCEPT ![e] = where[h]]
<1>1. L.flink \in [Nodes -> Nodes] /\ L.blink \in [Nodes -> Nodes]
  BY DEF Links
<1>2. M.flink = [L.flink EXCEPT ![e] = L.flink[h], ![h] = e]
  BY DEF InsertHeadList
<1>3. M.blink = [L.blink EXCEPT ![e] = h, ![L.flink[h]] = e]
  BY DEF InsertHeadList
<1>4. e # h /\ where[L.flink[h]] = where[h] /\ L.blink[L.flink[h]] = h /\ L.flink[h] # e
  BY DEF WellFormed
<1> SUFFICES ASSUME NEW n \in Nodes, w[n] # "Out"
             PROVE  /\ w[M.flink[n]] = w[n]
                    /\ w[M.blink[n]] = w[n]
                    /\ M.blink[M.flink[n]] = n
                    /\ M.flink[M.blink[n]] = n
  BY DEF WellFormed
<1>5. CASE n = e
  BY <1>1, <1>2, <1>3, <1>4, <1>5 DEF Placement
<1>6. CASE n # e
  <2>1. where[n] # "Out" /\ w[n] = where[n]
    BY <1>6 DEF Placement
  <2>2. /\ L.blink[L.flink[n]] = n /\ L.flink[L.blink[n]] = n
        /\ where[L.flink[n]] = where[n] /\ where[L.blink[n]] = where[n]
    BY <2>1 DEF WellFormed
  <2>3. w[M.flink[n]] = w[n] /\ M.blink[M.flink[n]] = n
    BY <1>1, <1>2, <1>3, <1>4, <1>6, <2>1, <2>2 DEF Placement
  <2>4. w[M.blink[n]] = w[n] /\ M.flink[M.blink[n]] = n
    BY <1>1, <1>2, <1>3, <1>4, <1>6, <2>1, <2>2 DEF Placement
  <2> QED BY <2>3, <2>4
<1> QED BY <1>5, <1>6
\* A set of nodes that has h, stays in h's list and is closed under Flink.
WalkedFrom(L, where, h, S) ==
    h \in S /\ \A n \in S : where[n] = where[h] /\ L.flink[n] \in S

\* Every such set has the whole list: the list is one ring through its head.
Reached(L, where) ==
    \A h \in Heads : where[h] # "Out" =>
        \A S \in SUBSET Nodes : WalkedFrom(L, where, h, S) =>
            \A n \in Nodes : where[n] = where[h] => n \in S

Linked(L, where) == WellFormed(L, where) /\ Reached(L, where)

\* RemoveEntryList closes the gap it leaves: no other entry drops out of its ring.
LEMMA RemoveEntryListLinked ==
    ASSUME NEW L \in Links, NEW where \in Placement, NEW e \in Nodes, e \notin Heads,
           Linked(L, where), where[e] # "Out"
    PROVE  Linked(RemoveEntryList(L, e), [where EXCEPT ![e] = "Out"])
<1> DEFINE M == RemoveEntryList(L, e)
           w == [where EXCEPT ![e] = "Out"]
           p == L.blink[e]
<1>1. WellFormed(M, w)
  BY RemoveEntryListWellFormed DEF Linked
<1>2. /\ p \in Nodes /\ L.flink[p] = e /\ where[p] = where[e]
      /\ \A n \in Nodes : M.flink[n] = IF n = p THEN L.flink[e] ELSE L.flink[n]
      /\ \A n \in Nodes : w[n] = IF n = e THEN "Out" ELSE where[n]
  <2>1. L.flink \in [Nodes -> Nodes] /\ p \in Nodes
    BY DEF Links
  <2>2. M.flink = [L.flink EXCEPT ![p] = L.flink[e]]
    BY DEF RemoveEntryList
  <2>3. L.flink[p] = e /\ where[p] = where[e]
    BY DEF Linked, WellFormed
  <2>4. \A n \in Nodes : w[n] = IF n = e THEN "Out" ELSE where[n]
    BY DEF Placement
  <2> HIDE DEF M, w, p
  <2> QED BY <2>1, <2>2, <2>3, <2>4
<1> HIDE DEF M, w, p
<1>3. Reached(M, w)
  <2> SUFFICES ASSUME NEW h \in Heads, w[h] # "Out", NEW S \in SUBSET Nodes,
                      WalkedFrom(M, w, h, S), NEW n \in Nodes, w[n] = w[h]
               PROVE  n \in S
    BY DEF Reached
  <2> DEFINE T == IF p \in S THEN S \cup {e} ELSE S
  <2>1. h \in Nodes /\ h # e /\ n # e /\ where[h] = w[h] /\ where[n] = where[h]
    BY <1>2 DEF Nodes
  <2>2. \A m \in S : m # e /\ where[m] = where[h]
    BY <1>2, <2>1 DEF WalkedFrom
  <2>3. T \in SUBSET Nodes /\ h \in T
    BY DEF WalkedFrom
  <2>4. ASSUME NEW m \in T
        PROVE  where[m] = where[h] /\ L.flink[m] \in T
    <3>1. CASE m = e
      <4>1. p \in S /\ m \in Nodes
        BY <2>2, <3>1
      <4>2. M.flink[p] = L.flink[e] /\ M.flink[p] \in S
        BY <1>2, <4>1 DEF WalkedFrom
      <4> QED BY <1>2, <2>2, <3>1, <4>1, <4>2
    <3>2. CASE m # e /\ m = p
      BY <1>2, <2>2, <3>2
    <3>3. CASE m # e /\ m # p
      <4>1. m \in S /\ M.flink[m] = L.flink[m] /\ M.flink[m] \in S
        BY <1>2, <3>3 DEF WalkedFrom
      <4> QED BY <2>2, <4>1
    <3> QED BY <3>1, <3>2, <3>3
  <2> HIDE DEF T
  <2>5. WalkedFrom(L, where, h, T) /\ where[h] # "Out"
    BY <2>1, <2>3, <2>4 DEF WalkedFrom
  <2>6. n \in T
    BY <2>1, <2>3, <2>5 DEF Linked, Reached
  <2> QED BY <2>1, <2>6 DEF T
<1> QED BY <1>1, <1>3 DEF Linked, M, w

\* An entry linked behind p extends p's ring by itself.
LEMMA InsertionReached ==
    ASSUME NEW L \in Links, NEW M \in Links, NEW where \in Placement, NEW e \in Nodes,
           NEW p \in Nodes, e \notin Heads, Linked(L, where), where[e] = "Out",
           where[p] # "Out",
           M.flink = [L.flink EXCEPT ![e] = L.flink[p], ![p] = e]
    PROVE  Reached(M, [where EXCEPT ![e] = where[p]])
<1> DEFINE w == [where EXCEPT ![e] = where[p]]
<1>1. /\ \A n \in Nodes : w[n] = IF n = e THEN where[p] ELSE where[n]
      /\ e # p /\ M.flink[p] = e /\ M.flink[e] = L.flink[p]
      /\ \A n \in Nodes : n # e /\ n # p => M.flink[n] = L.flink[n]
      /\ \A n \in Nodes : where[n] # "Out" => L.flink[n] # e
  <2>1. L.flink \in [Nodes -> Nodes]
    BY DEF Links
  <2>2. \A n \in Nodes : w[n] = IF n = e THEN where[p] ELSE where[n]
    BY DEF Placement
  <2>3. \A n \in Nodes : where[n] # "Out" => L.flink[n] # e
    BY DEF Linked, WellFormed
  <2> HIDE DEF w
  <2> QED BY <2>1, <2>2, <2>3
<1> HIDE DEF w
<1> SUFFICES ASSUME NEW h \in Heads, w[h] # "Out", NEW S \in SUBSET Nodes,
                    WalkedFrom(M, w, h, S), NEW n \in Nodes, w[n] = w[h]
             PROVE  n \in S
  BY DEF Reached, w
<1> DEFINE T == S \ {e}
<1>2. h \in Nodes /\ h # e /\ where[h] = w[h]
  BY <1>1 DEF Nodes
<1>3. \A m \in T : m \in Nodes /\ m # e /\ where[m] = where[h] /\ M.flink[m] \in S
  BY <1>1, <1>2 DEF WalkedFrom
<1>4. ASSUME NEW m \in T
      PROVE  L.flink[m] \in T
  <2>1. L.flink[m] # e
    BY <1>1, <1>2, <1>3
  <2>2. CASE m = p
    <3>1. e \in S
      BY <1>1, <1>3, <2>2
    <3>2. M.flink[e] \in S
      BY <3>1 DEF WalkedFrom
    <3> QED BY <1>1, <2>1, <2>2, <3>2
  <2>3. CASE m # p
    BY <1>1, <1>3, <2>1, <2>3
  <2> QED BY <2>2, <2>3
<1>5. T \in SUBSET Nodes /\ h \in T
  BY <1>2 DEF WalkedFrom
<1> HIDE DEF T
<1>6. WalkedFrom(L, where, h, T) /\ where[h] # "Out"
  BY <1>2, <1>3, <1>4, <1>5 DEF WalkedFrom
<1>7. \A m \in Nodes : where[m] = where[h] => m \in T
  BY <1>5, <1>6 DEF Linked, Reached
<1>8. CASE n = e
  <2>1. p \in T
    BY <1>1, <1>2, <1>7, <1>8
  <2> QED BY <1>1, <1>3, <1>8, <2>1
<1>9. CASE n # e
  BY <1>1, <1>2, <1>7, <1>9 DEF T
<1> QED BY <1>8, <1>9

\* InsertTailList links the entry behind the last one.
LEMMA InsertTailListLinked ==
    ASSUME NEW L \in Links, NEW where \in Placement, NEW e \in Nodes, NEW h \in Nodes,
           e \notin Heads, Linked(L, where), where[e] = "Out", where[h] # "Out"
    PROVE  Linked(InsertTailList(L, h, e), [where EXCEPT ![e] = where[h]])
<1> DEFINE M == InsertTailList(L, h, e)
           p == L.blink[h]
<1>1. WellFormed(M, [where EXCEPT ![e] = where[h]]) /\ M \in Links
  BY InsertTailListWellFormed, InsertTailListType DEF Linked
<1>2. p \in Nodes /\ where[p] = where[h] /\ L.flink[p] = h
  BY DEF Linked, WellFormed, Links
<1>3. M.flink = [L.flink EXCEPT ![e] = h, ![p] = e]
  BY DEF InsertTailList
<1> HIDE DEF M, p
<1>4. M.flink = [L.flink EXCEPT ![e] = L.flink[p], ![p] = e]
  BY <1>2, <1>3
<1>5. Reached(M, [where EXCEPT ![e] = where[p]])
  BY <1>1, <1>2, <1>4, InsertionReached
<1> QED BY <1>1, <1>2, <1>5 DEF Linked, M

\* InsertHeadList links it behind the head.
LEMMA InsertHeadListLinked ==
    ASSUME NEW L \in Links, NEW where \in Placement, NEW e \in Nodes, NEW h \in Nodes,
           e \notin Heads, Linked(L, where), where[e] = "Out", where[h] # "Out"
    PROVE  Linked(InsertHeadList(L, h, e), [where EXCEPT ![e] = where[h]])
<1> DEFINE M == InsertHeadList(L, h, e)
<1>1. WellFormed(M, [where EXCEPT ![e] = where[h]]) /\ M \in Links
  BY InsertHeadListWellFormed, InsertHeadListType DEF Linked
<1>2. M.flink = [L.flink EXCEPT ![e] = L.flink[h], ![h] = e]
  BY DEF InsertHeadList
<1> HIDE DEF M
<1>3. Reached(M, [where EXCEPT ![e] = where[h]])
  BY <1>1, <1>2, InsertionReached
<1> QED BY <1>1, <1>3 DEF Linked, M
-----------------------------------------------------------------------------
(* Types.                                                                   *)

\* Arithmetic on fields of fixed width.
LEMMA ModuloRange ==
    ASSUME NEW a \in Int, NEW b \in Nat \ {0}
    PROVE  a % b \in 0 .. b - 1
OBVIOUS

\* PspProcessWaitList keeps the tick counters 32-bit numbers (ps.cpp:411).
LEMMA PspProcessWaitListType ==
    ASSUME NEW S \in [Threads -> ThreadStates], NEW W \in [Threads -> WaitTypes],
           NEW D \in [Threads -> 0 .. TickModulus - 1]
    PROVE  PspProcessWaitList(S, W, D) \in [Threads -> 0 .. TickModulus - 1]
<1> SUFFICES ASSUME NEW t \in Threads
             PROVE  (D[t] - 1) % TickModulus \in 0 .. TickModulus - 1
  BY DEF PspProcessWaitList
<1>1. TickModulus \in Nat \ {0}
  BY SchedulerAssumption
<1>2. D[t] \in 0 .. TickModulus - 1
  OBVIOUS
<1>3. D[t] - 1 \in Int
  BY <1>1, <1>2
<1> QED BY <1>1, <1>3, ModuloRange

\* What the processor is doing.  KiSetEvent loops under SchedulerLock over an
\* object with waiters; the thread that runs with the lock free has left
\* PspSwapThread and was created; KePulseEvent has its event to clear.
HandOff ==
    /\ signaling # NoObject => lock = 1 /\ waiters[signaling] # << >>
    /\ lock = 0 \/ signaling # NoObject => frame[current] = "None"
    /\ state[current] # "NONE"
    /\ \A t \in Threads :
           pc[t] = "Pulse" => target[t] \in Events /\ frame[t] \notin {"Wait", "Acquire"}

TypeInv == TypeOK /\ HandOff

\* The threads queued in q are asleep in the states S and wait types W, each of
\* them queued once.
Waits(q, S, W) ==
    \A o \in Objects : \A i \in 1 .. Len(q[o]) :
        LET t == q[o][i] IN
        /\ S[t] = "WAIT"
        /\ W[t] = "SCHEDULEROBJECTS_ANY"
        /\ \A p \in Objects : \A j \in 1 .. Len(q[p]) : q[p][j] = t => p = o /\ j = i

\* The thread lists and the wait lists of the objects, while Intact.
ListsInv ==
    /\ Linked(links, Where(state))
    /\ \A t \in Threads : state[t] = "RUNNING" => t = current
    /\ halted = "No" => state[current] \in {"RUNNING", "TERMINATED"}
    /\ \A t \in Threads : pc[t] = "ExitSwap" <=> state[t] = "TERMINATED"
    /\ Waits(waiters, state, waitType)

SchedInv ==
    /\ Intact => ListsInv
    /\ NoSleeperOnSignaledObject
    /\ TakenMutexHasHolder

\* Both list heads and every thread are nodes.
LEMMA NodesFact ==
    PsReadyListHead \in Nodes /\ PsWaitListHead \in Nodes /\ Threads \subseteq Nodes
BY DEF Nodes, Heads

\* SwapContext keeps the processor's types.
LEMMA SwapContextType ==
    ASSUME TypeOK, NEW next \in Threads, NEW S \in [Threads -> ThreadStates],
           NEW fr \in [Threads -> Frames], SwapContext(next, S, fr)
    PROVE  /\ CpuTypes'
           /\ state' \in [Threads -> ThreadStates]
           /\ quantumDynamic' \in [Threads -> 0 .. QuantumModulus - 1]
<1>1. frame' \in [Threads -> Frames] /\ lock' \in {0, 1}
  BY DEF SwapContext, Frames
<1>2. quantumLeft' \in 0 .. QuantumModulus - 1
  <2>1. THREAD_NORMAL_QUANTUM \in Int /\ QuantumModulus \in Nat \ {0}
    BY SchedulerAssumption
  <2>2. quantumDynamic[next] \in Int
    BY <2>1 DEF TypeOK, ThreadTypes
  <2>3. quantumLeft' = (THREAD_NORMAL_QUANTUM + quantumDynamic[next]) % QuantumModulus
    BY DEF SwapContext
  <2>4. THREAD_NORMAL_QUANTUM + quantumDynamic[next] \in Int
    BY <2>1, <2>2
  <2> QED BY <2>1, <2>3, <2>4, ModuloRange
<1>3. current' \in Threads /\ halted' = halted
  BY DEF SwapContext
<1>4. state' \in [Threads -> ThreadStates]
  BY DEF SwapContext, ThreadStates
<1>5. quantumDynamic' \in [Threads -> 0 .. QuantumModulus - 1]
  <2>1. 0 \in 0 .. QuantumModulus - 1
    BY SchedulerAssumption
  <2> QED BY <2>1 DEF SwapContext, TypeOK, ThreadTypes
<1>6. halted' \in {"No", "Stopped", "BugCheck", "Spin", "Runaway"}
  <2>1. CpuTypes
    BY DEF TypeOK
  <2> QED BY <1>3, <2>1 DEF CpuTypes
<1>7. CpuTypes'
  BY <1>1, <1>2, <1>3, <1>6 DEF CpuTypes
<1> QED BY <1>4, <1>5, <1>7

\* A context switch keeps every variable it touches in its type.
LEMMA PspSwapThreadType ==
    ASSUME TypeOK, NEW L \in Links, NEW S \in [Threads -> ThreadStates],
           NEW W \in [Threads -> WaitTypes],
           NEW D \in [Threads -> 0 .. TickModulus - 1], NEW where \in Frames,
           PspSwapThread(L, S, W, D, where)
    PROVE  ThreadTypes' /\ CpuTypes'
<1> DEFINE ready == IF S[current] = "READY" THEN PspReadyThread(L, current) ELSE L
           next  == FindReadyThread(ready, S)
<1>1. current \in Threads
  BY DEF TypeOK, CpuTypes
<1>2. ready \in Links
  BY <1>1, NodesFact, RemoveEntryListType, InsertTailListType DEF PspReadyThread
<1>3. PspProcessWaitList(S, W, D) \in [Threads -> 0 .. TickModulus - 1]
  BY PspProcessWaitListType
<1>4. /\ links' \in Links /\ waitType' \in [Threads -> WaitTypes]
      /\ delay' \in [Threads -> 0 .. TickModulus - 1]
  BY <1>2, <1>3 DEF PspSwapThread
<1>5. CASE next \in Threads
  <2> DEFINE fr == [frame EXCEPT ![current] = where]
  <2>1. SwapContext(next, S, fr)
    BY <1>5 DEF PspSwapThread
  <2>2. fr \in [Threads -> Frames]
    BY DEF TypeOK, CpuTypes
  <2>3. /\ CpuTypes'
        /\ state' \in [Threads -> ThreadStates]
        /\ quantumDynamic' \in [Threads -> 0 .. QuantumModulus - 1]
    BY <1>5, <2>1, <2>2, SwapContextType
  <2> QED BY <1>4, <2>3 DEF ThreadTypes
<1>6. CASE next \notin Threads
  <2>1. /\ state' = S /\ lock' = 1 /\ halted' \in {"Stopped", "BugCheck"}
        /\ UNCHANGED <<current, quantumLeft, quantumDynamic, frame>>
    BY <1>6 DEF PspSwapThread
  <2>2. CpuTypes'
    BY <2>1 DEF CpuTypes, TypeOK
  <2> QED BY <1>4, <2>1, <2>2 DEF ThreadTypes, TypeOK
<1> QED BY <1>5, <1>6

\* What PspSwapThread does to the frames and to the chosen thread.
LEMMA PspSwapThreadHandOff ==
    ASSUME TypeOK, NEW L, NEW S \in [Threads -> ThreadStates], NEW W, NEW D, NEW where,
           S[current] # "NONE", PspSwapThread(L, S, W, D, where)
    PROVE  /\ lock' = 0 => frame'[current'] = "None"
           /\ \A t \in Threads : frame'[t] \in {frame[t], "None"} \/ (t = current /\ frame'[t] = where)
           /\ state'[current'] # "NONE"
<1> DEFINE ready == IF S[current] = "READY" THEN PspReadyThread(L, current) ELSE L
           next  == FindReadyThread(ready, S)
           fr == [frame EXCEPT ![current] = where]
<1> HIDE DEF next
<1>1. frame \in [Threads -> Frames] /\ current \in Threads
  BY DEF TypeOK, CpuTypes
<1>2. CASE next \in Threads
  <2>1. SwapContext(next, S, fr)
    BY <1>2 DEF PspSwapThread, next
  <2>2. lock' = 0 => frame'[current'] = "None"
    BY <1>1, <1>2, <2>1 DEF SwapContext
  <2>3. \A t \in Threads : frame'[t] \in {frame[t], "None"} \/ (t = current /\ frame'[t] = where)
    BY <1>1, <1>2, <2>1 DEF SwapContext
  <2>4. state'[current'] # "NONE"
    BY <1>2, <2>1 DEF SwapContext
  <2> QED BY <2>2, <2>3, <2>4
<1>3. CASE next \notin Threads
  <2>1. state' = S /\ lock' = 1 /\ current' = current /\ frame' = frame
    BY <1>3 DEF PspSwapThread, next
  <2> QED BY <2>1
<1> QED BY <1>2, <1>3

\* The links of a thread that moves to the other list.
LEMMA MoveType ==
    ASSUME NEW L \in Links, NEW t \in Threads
    PROVE  /\ InsertTailList(RemoveEntryList(L, t), PsWaitListHead, t) \in Links
           /\ InsertHeadList(RemoveEntryList(L, t), PsReadyListHead, t) \in Links
BY NodesFact, RemoveEntryListType, InsertTailListType, InsertHeadListType

\* Blocking on an object keeps the types.
LEMMA BlockType ==
    ASSUME TypeOK, NEW t \in Threads, NEW o \in Objects, NEW where \in {"Wait", "Acquire"},
           Block(t, o, where)
    PROVE  /\ ThreadTypes' /\ CpuTypes'
           /\ waiters' \in [Objects -> Seq(Threads)]
           /\ target' \in [Threads -> Objects \cup {NoObject}]
<1> DEFINE L == InsertTailList(RemoveEntryList(links, t), PsWaitListHead, t)
           S == [state EXCEPT ![t] = "WAIT"]
           W == [waitType EXCEPT ![t] = "SCHEDULEROBJECTS_ANY"]
<1>1. ThreadTypes /\ CpuTypes /\ ObjectTypes /\ ProgTypes
  BY DEF TypeOK
<1>2. L \in Links
  BY <1>1, MoveType DEF ThreadTypes
<1>3. S \in [Threads -> ThreadStates] /\ W \in [Threads -> WaitTypes]
  BY <1>1 DEF ThreadTypes, ThreadStates, WaitTypes
<1>4. delay \in [Threads -> 0 .. TickModulus - 1] /\ where \in Frames
  BY <1>1 DEF ThreadTypes, Frames
<1>5. PspSwapThread(L, S, W, delay, where)
  BY DEF Block
<1>6. ThreadTypes' /\ CpuTypes'
  <2> HIDE DEF L, S, W
  <2> QED BY <1>2, <1>3, <1>4, <1>5, PspSwapThreadType
<1>7. waiters' \in [Objects -> Seq(Threads)]
  BY <1>1 DEF Block, ObjectTypes
<1>8. target' \in [Threads -> Objects \cup {NoObject}]
  BY <1>1 DEF Block, ProgTypes
<1> QED BY <1>6, <1>7, <1>8

\* ...and the hand-off of the processor.
LEMMA BlockHandOff ==
    ASSUME TypeOK, NEW t \in Threads, NEW o \in Objects, NEW where, t = current,
           Block(t, o, where)
    PROVE  /\ lock' = 0 => frame'[current'] = "None"
           /\ \A u \in Threads : frame'[u] \in {frame[u], "None"} \/ (u = t /\ frame'[u] = where)
           /\ state'[current'] # "NONE"
<1> DEFINE L == InsertTailList(RemoveEntryList(links, t), PsWaitListHead, t)
           S == [state EXCEPT ![t] = "WAIT"]
           W == [waitType EXCEPT ![t] = "SCHEDULEROBJECTS_ANY"]
<1>1. S \in [Threads -> ThreadStates] /\ S[current] # "NONE"
  BY DEF TypeOK, ThreadTypes, ThreadStates
<1>2. PspSwapThread(L, S, W, delay, where)
  BY DEF Block
<1> HIDE DEF L, S, W
<1> QED BY <1>1, <1>2, PspSwapThreadHandOff

\* KiSetEvent keeps the types.
LEMMA KiSetEventType ==
    ASSUME TypeOK, lock = 0, NEW o \in Objects, NEW inc \in 0 .. QuantumModulus - 1,
           KiSetEvent(o, inc), HandOff
    PROVE  /\ signaled' \in [Objects -> BOOLEAN]
           /\ signaling' \in Objects \cup {NoObject}
           /\ increment' \in 0 .. QuantumModulus - 1
           /\ lock' \in {0, 1}
           /\ signaling' # NoObject => lock' = 1 /\ waiters[signaling'] # << >>
<1>1. ThreadTypes /\ CpuTypes /\ ObjectTypes /\ ProgTypes
  BY DEF TypeOK
<1>2. signaled' \in [Objects -> BOOLEAN]
  BY <1>1 DEF KiSetEvent, ObjectTypes
<1>4. CASE waiters[o] = << >>
  <2>1. lock' = lock /\ signaling' = signaling /\ increment' = increment
    BY <1>4 DEF KiSetEvent
  <2> QED BY <1>1, <1>2, <2>1 DEF ObjectTypes, CpuTypes, HandOff
<1>5. CASE waiters[o] # << >>
  <2>1. lock' = 1 /\ signaling' = o /\ increment' = inc
    BY <1>5 DEF KiSetEvent
  <2> QED BY <1>1, <1>2, <1>5, <2>1
<1> QED BY <1>4, <1>5

\* The tail of a queue is empty when the queue has one element.
LEMMA LastOfTail ==
    ASSUME NEW T, NEW q \in Seq(T), q # << >>
    PROVE  Len(q) = 1 <=> Tail(q) = << >>
<1>1. Len(q) \in Nat /\ Tail(q) \in Seq(T) /\ Len(Tail(q)) = Len(q) - 1
  BY HeadTailProperties
<1>2. Tail(q) # << >> => Len(Tail(q)) \in Nat \ {0}
  BY <1>1, EmptySeq
<1>3. Len(<< >>) = 0
  OBVIOUS
<1>4. Tail(q) = << >> => Len(Tail(q)) = 0
  BY <1>3, Zenon
<1> QED BY <1>1, <1>2, <1>4

\* The initial state is well typed.
LEMMA TypeInvInit == Init => TypeInv
<1> SUFFICES ASSUME Init PROVE TypeInv
  OBVIOUS
<1>1. SystemThread \in Threads /\ TickModulus \in Nat \ {0} /\ QuantumModulus \in Nat \ {0}
      /\ THREAD_NORMAL_QUANTUM \in 1 .. QuantumModulus - 1
  BY SchedulerAssumption
<1>2. links \in Links
  BY <1>1 DEF Init, Links, Nodes, Heads
<1>3. ThreadTypes
  BY <1>1, <1>2 DEF Init, ThreadTypes, ThreadStates, WaitTypes
<1>4. CpuTypes
  BY <1>1 DEF Init, CpuTypes, Frames
<1>5. ObjectTypes
  BY <1>1 DEF Init, ObjectTypes
<1>6. ProgTypes
  BY DEF Init, ProgTypes, ProgramPoints
<1>7. HandOff
  BY <1>1 DEF Init, HandOff
<1> QED BY <1>3, <1>4, <1>5, <1>6, <1>7 DEF TypeInv, TypeOK

\* Every step keeps the types and the hand-off of the processor.
LEMMA TypeInvStep == TypeInv /\ [Next]_vars => TypeInv'
<1> SUFFICES ASSUME TypeInv, [Next]_vars PROVE TypeInv'
  OBVIOUS
<1> USE DEF TypeInv
<1>0. /\ TypeOK /\ ThreadTypes /\ CpuTypes /\ ObjectTypes /\ ProgTypes /\ HandOff
      /\ QuantumModulus \in Nat \ {0} /\ TickModulus \in Nat \ {0}
  BY SchedulerAssumption DEF TypeOK
<1>1. ASSUME NEW t \in Threads, NEW e \in Events, KeWaitForSingleObject(t, e)
      PROVE  TypeInv'
  <2>1. e \in Objects /\ t = current /\ lock = 0 /\ pc[t] = "Run"
    BY <1>1 DEF Events, Objects, KeWaitForSingleObject, Executing
  <2>2. /\ UNCHANGED <<signaled, signaling, increment, pc, holds, revived>>
        /\ signaling = NoObject
    BY <1>0, <1>1, <2>1 DEF KeWaitForSingleObject, HandOff
  <2>3. CASE signaled[e]
    <3>1. UNCHANGED <<threadVars, cpuVars, waiters, target>>
      BY <1>1, <2>3 DEF KeWaitForSingleObject
    <3>3. ThreadTypes' /\ CpuTypes' /\ ObjectTypes'
      BY <1>0, <2>2, <3>1 DEF ThreadTypes, CpuTypes, ObjectTypes, threadVars, cpuVars
    <3>4. ProgTypes' /\ HandOff'
      BY <1>0, <2>2, <3>1 DEF ProgTypes, HandOff, threadVars, cpuVars
    <3> QED BY <3>3, <3>4 DEF TypeOK
  <2>4. CASE ~signaled[e]
    <3>1. Block(t, e, "Wait")
      BY <1>1, <2>4 DEF KeWaitForSingleObject
    <3>2. /\ ThreadTypes' /\ CpuTypes'
          /\ waiters' \in [Objects -> Seq(Threads)]
          /\ target' \in [Threads -> Objects \cup {NoObject}]
      BY <1>0, <2>1, <3>1, BlockType
    <3>3. ObjectTypes' /\ ProgTypes'
      BY <1>0, <2>2, <3>1, <3>2 DEF ObjectTypes, ProgTypes
    <3>4. /\ lock' = 0 => frame'[current'] = "None"
          /\ \A u \in Threads : frame'[u] \in {frame[u], "None"} \/ (u = t /\ frame'[u] = "Wait")
          /\ state'[current'] # "NONE"
      BY <1>0, <2>1, <3>1, BlockHandOff
    <3>5. \A u \in Threads : u # t => target'[u] = target[u]
      BY <1>0, <3>1 DEF Block, ProgTypes
    <3>6. HandOff'
      BY <1>0, <2>1, <2>2, <3>4, <3>5 DEF HandOff
    <3> QED BY <3>2, <3>3, <3>6 DEF TypeOK
  <2> QED BY <2>3, <2>4
<1>2. ASSUME NEW t \in Threads, NEW e \in Events, KeClearEvent(t, e)
      PROVE  TypeInv'
  <2>1. ThreadTypes' /\ CpuTypes' /\ ObjectTypes' /\ ProgTypes'
    BY <1>0, <1>2 DEF KeClearEvent, ThreadTypes, CpuTypes, ObjectTypes, ProgTypes,
       threadVars, cpuVars, progVars
  <2>2. HandOff'
    BY <1>0, <1>2 DEF KeClearEvent, HandOff, threadVars, cpuVars, progVars
  <2> QED BY <2>1, <2>2 DEF TypeOK
<1>3. ASSUME NEW t \in Threads, NEW e \in Events, NEW inc \in QuantumIncrements,
             KePulseEventSet(t, e, inc)
      PROVE  TypeInv'
  <2>1. /\ e \in Objects /\ t = current /\ lock = 0 /\ KiSetEvent(e, inc)
        /\ inc \in 0 .. QuantumModulus - 1
    BY <1>3, SchedulerAssumption DEF Events, Objects, KePulseEventSet, Executing
  <2>2. /\ UNCHANGED <<threadVars, current, quantumLeft, frame, halted, waiters, holds, revived>>
        /\ pc' = [pc EXCEPT ![t] = "Pulse"] /\ target' = [target EXCEPT ![t] = e]
    BY <1>3 DEF KePulseEventSet, Goto
  <2>3. /\ signaled' \in [Objects -> BOOLEAN]
        /\ signaling' \in Objects \cup {NoObject}
        /\ increment' \in 0 .. QuantumModulus - 1
        /\ lock' \in {0, 1}
        /\ signaling' # NoObject => lock' = 1 /\ waiters[signaling'] # << >>
    BY <1>0, <2>1, KiSetEventType
  <2>4. ThreadTypes' /\ CpuTypes' /\ ObjectTypes'
    BY <1>0, <2>2, <2>3 DEF ThreadTypes, CpuTypes, ObjectTypes, threadVars
  <2>5. ProgTypes'
    BY <1>0, <2>1, <2>2, <2>3 DEF ProgTypes, ProgramPoints
  <2>6. HandOff'
    BY <1>0, <1>3, <2>1, <2>2, <2>3 DEF HandOff, threadVars, CpuTypes, ProgTypes
  <2> QED BY <2>4, <2>5, <2>6 DEF TypeOK
<1>4. ASSUME NEW t \in Threads, NEW m \in Mutexes, NEW point \in ProgramPoints,
             NEW next \in ProgramPoints \ {"Pulse"}, ExAcquireMutex(t, m, point, next)
      PROVE  TypeInv'
  <2>1. /\ m \in Objects /\ t = current /\ lock = 0 /\ signaling = NoObject
        /\ pc' = [pc EXCEPT ![t] = next]
        /\ UNCHANGED <<signaling, increment, revived>>
    BY <1>0, <1>4 DEF Objects, ExAcquireMutex, Executing, Goto, HandOff
  <2>2. CASE signaled[m]
    <3>1. /\ signaled' = [signaled EXCEPT ![m] = FALSE]
          /\ holds' = [holds EXCEPT ![m] = @ \cup {t}]
          /\ UNCHANGED <<threadVars, cpuVars, waiters, target>>
      BY <1>4, <2>2 DEF ExAcquireMutex
    <3>2. ThreadTypes' /\ CpuTypes' /\ ObjectTypes'
      BY <1>0, <2>1, <3>1 DEF ThreadTypes, CpuTypes, ObjectTypes, threadVars, cpuVars
    <3>3. ProgTypes'
      BY <1>0, <2>1, <3>1 DEF ProgTypes
    <3>4. HandOff'
      BY <1>0, <2>1, <3>1 DEF HandOff, threadVars, cpuVars, ProgTypes
    <3> QED BY <3>2, <3>3, <3>4 DEF TypeOK
  <2>3. CASE ~signaled[m]
    <3>1. Block(t, m, "Acquire") /\ UNCHANGED <<signaled, holds>>
      BY <1>4, <2>3 DEF ExAcquireMutex
    <3>2. /\ ThreadTypes' /\ CpuTypes'
          /\ waiters' \in [Objects -> Seq(Threads)]
          /\ target' \in [Threads -> Objects \cup {NoObject}]
      BY <1>0, <2>1, <3>1, BlockType
    <3>3. ObjectTypes' /\ ProgTypes'
      BY <1>0, <2>1, <3>1, <3>2 DEF ObjectTypes, ProgTypes
    <3>4. /\ lock' = 0 => frame'[current'] = "None"
          /\ \A u \in Threads : frame'[u] \in {frame[u], "None"} \/ (u = t /\ frame'[u] = "Acquire")
          /\ state'[current'] # "NONE"
      BY <1>0, <2>1, <3>1, BlockHandOff
    <3>5. \A u \in Threads : u # t => target'[u] = target[u] /\ pc'[u] = pc[u]
      BY <1>0, <2>1, <3>1 DEF Block, ProgTypes
    <3>6. pc'[t] # "Pulse"
      BY <1>0, <2>1 DEF ProgTypes
    <3>7. HandOff'
      BY <1>0, <2>1, <3>4, <3>5, <3>6 DEF HandOff
    <3> QED BY <3>2, <3>3, <3>7 DEF TypeOK
  <2> QED BY <2>2, <2>3
<1>5. ASSUME NEW t \in Threads, NEW m \in Mutexes, NEW point \in ProgramPoints,
             NEW next \in ProgramPoints \ {"Pulse"}, ExReleaseMutex(t, m, point, next)
      PROVE  TypeInv'
  <2>1. /\ m \in Objects /\ t = current /\ lock = 0 /\ KiSetEvent(m, 0)
        /\ 0 \in 0 .. QuantumModulus - 1
    BY <1>0, <1>5 DEF Objects, ExReleaseMutex, Executing
  <2>2. /\ UNCHANGED <<threadVars, current, quantumLeft, frame, halted, waiters, target, revived>>
        /\ pc' = [pc EXCEPT ![t] = next] /\ holds' = [holds EXCEPT ![m] = @ \ {t}]
    BY <1>5 DEF ExReleaseMutex, Goto
  <2>3. /\ signaled' \in [Objects -> BOOLEAN]
        /\ signaling' \in Objects \cup {NoObject}
        /\ increment' \in 0 .. QuantumModulus - 1
        /\ lock' \in {0, 1}
        /\ signaling' # NoObject => lock' = 1 /\ waiters[signaling'] # << >>
    BY <1>0, <2>1, KiSetEventType
  <2>4. ThreadTypes' /\ CpuTypes' /\ ObjectTypes'
    BY <1>0, <2>2, <2>3 DEF ThreadTypes, CpuTypes, ObjectTypes, threadVars
  <2>5. ProgTypes'
    BY <1>0, <2>1, <2>2, <2>3 DEF ProgTypes
  <2>6. HandOff'
    BY <1>0, <2>1, <2>2, <2>3 DEF HandOff, threadVars, ProgTypes
  <2> QED BY <2>4, <2>5, <2>6 DEF TypeOK
<1>6. ASSUME NEW t \in Threads, NEW n \in DelayCounts, PsDelayThreadExecution(t, n)
      PROVE  TypeInv'
  <2> DEFINE L == InsertTailList(RemoveEntryList(links, t), PsWaitListHead, t)
             S == [state EXCEPT ![t] = "WAIT"]
             W == [waitType EXCEPT ![t] = "EXECUTIONDELAYED"]
             D == [delay EXCEPT ![t] = n]
  <2>1. PspSwapThread(L, S, W, D, "Delay") /\ UNCHANGED <<objectVars, progVars>>
        /\ t = current /\ lock = 0 /\ signaling = NoObject
    BY <1>0, <1>6 DEF PsDelayThreadExecution, Executing, HandOff
  <2>2. L \in Links
    BY <1>0, MoveType DEF ThreadTypes
  <2>3. S \in [Threads -> ThreadStates] /\ W \in [Threads -> WaitTypes] /\ "Delay" \in Frames
    BY <1>0 DEF ThreadTypes, ThreadStates, WaitTypes, Frames
  <2>4. n \in 0 .. TickModulus - 1
    BY <1>6, SchedulerAssumption
  <2>5. D \in [Threads -> 0 .. TickModulus - 1]
    BY <1>0, <2>4 DEF ThreadTypes
  <2>6. S[current] # "NONE"
    BY <1>0, <2>1 DEF ThreadTypes
  <2> HIDE DEF L, S, W, D
  <2>7. ThreadTypes' /\ CpuTypes'
    BY <1>0, <2>1, <2>2, <2>3, <2>5, PspSwapThreadType
  <2>8. ObjectTypes' /\ ProgTypes'
    BY <1>0, <2>1 DEF ObjectTypes, ProgTypes, objectVars, progVars
  <2>9. /\ lock' = 0 => frame'[current'] = "None"
        /\ \A u \in Threads : frame'[u] \in {frame[u], "None"} \/ (u = current /\ frame'[u] = "Delay")
        /\ state'[current'] # "NONE"
    BY <1>0, <2>1, <2>3, <2>6, PspSwapThreadHandOff
  <2>10. HandOff'
    BY <1>0, <2>1, <2>9 DEF HandOff, objectVars, progVars
  <2> QED BY <2>7, <2>8, <2>10 DEF TypeOK
<1>7. ASSUME NEW t \in Threads, NEW u \in Threads, PsCreateThread(t, u)
      PROVE  TypeInv'
  <2>1. /\ t = current /\ lock = 0 /\ state[u] = "NONE" /\ u # current
    BY <1>0, <1>7 DEF PsCreateThread, Executing, HandOff
  <2>2. /\ state' = [state EXCEPT ![u] = "READY"]
        /\ links' = InsertHeadList(links, PsReadyListHead, u)
        /\ frame' = [frame EXCEPT ![u] = "Start"]
        /\ pc' = [pc EXCEPT ![t] = "CreateNotify"]
        /\ UNCHANGED <<waitType, delay, quantumDynamic, current, quantumLeft, lock,
                       halted, signaled, waiters, signaling, increment, target,
                       holds, revived>>
    BY <1>7 DEF PsCreateThread, Goto, objectVars
  <2>3. links' \in Links
    BY <1>0, <2>2, NodesFact, InsertHeadListType DEF ThreadTypes
  <2>4. ThreadTypes' /\ CpuTypes'
    BY <1>0, <2>2, <2>3 DEF ThreadTypes, CpuTypes, ThreadStates, Frames
  <2>5. ObjectTypes' /\ ProgTypes'
    BY <1>0, <2>2 DEF ObjectTypes, ProgTypes, ProgramPoints
  <2>6. HandOff'
    BY <1>0, <2>1, <2>2 DEF HandOff, ThreadTypes, CpuTypes, ProgTypes
  <2> QED BY <2>4, <2>5, <2>6 DEF TypeOK
<1>8. ASSUME NEW t \in Threads, KePulseEventClear(t)
      PROVE  TypeInv'
  <2>1. ThreadTypes' /\ CpuTypes' /\ ObjectTypes'
    BY <1>0, <1>8 DEF KePulseEventClear, ThreadTypes, CpuTypes, ObjectTypes,
       threadVars, cpuVars
  <2>2. ProgTypes'
    BY <1>0, <1>8 DEF KePulseEventClear, Goto, ProgTypes, ProgramPoints
  <2>3. HandOff'
    BY <1>0, <1>8 DEF KePulseEventClear, Goto, HandOff, ProgTypes, threadVars, cpuVars
  <2> QED BY <2>1, <2>2, <2>3 DEF TypeOK
<1>9. ASSUME NEW t \in Threads, PsExitThreadRemove(t)
      PROVE  TypeInv'
  <2>1. links' \in Links
    BY <1>0, <1>9, NodesFact, RemoveEntryListType DEF PsExitThreadRemove, ThreadTypes
  <2>2. ThreadTypes' /\ CpuTypes'
    BY <1>0, <1>9, <2>1 DEF PsExitThreadRemove, ThreadTypes, CpuTypes, ThreadStates, cpuVars
  <2>3. ObjectTypes' /\ ProgTypes'
    BY <1>0, <1>9 DEF PsExitThreadRemove, Goto, ObjectTypes, ProgTypes, ProgramPoints, objectVars
  <2>4. HandOff'
    BY <1>0, <1>9 DEF PsExitThreadRemove, Goto, HandOff, ProgTypes, ThreadTypes, cpuVars, objectVars
  <2> QED BY <2>2, <2>3, <2>4 DEF TypeOK
<1>10. ASSUME NEW t \in Threads, PsExitThreadSwap(t)
       PROVE  TypeInv'
  <2>1. PspSwapThread(links, state, waitType, delay, "Exit")
        /\ UNCHANGED <<objectVars, progVars>> /\ lock = 0 /\ signaling = NoObject
        /\ "Exit" \in Frames
    BY <1>0, <1>10 DEF PsExitThreadSwap, Executing, HandOff, Frames
  <2>2. ThreadTypes' /\ CpuTypes'
    BY <1>0, <2>1, PspSwapThreadType DEF ThreadTypes
  <2>3. ObjectTypes' /\ ProgTypes'
    BY <1>0, <2>1 DEF ObjectTypes, ProgTypes, objectVars, progVars
  <2>4. /\ lock' = 0 => frame'[current'] = "None"
        /\ \A u \in Threads : frame'[u] \in {frame[u], "None"} \/ (u = current /\ frame'[u] = "Exit")
        /\ state'[current'] # "NONE"
    BY <1>0, <2>1, PspSwapThreadHandOff DEF ThreadTypes, HandOff
  <2>5. HandOff'
    BY <1>0, <2>1, <2>4 DEF HandOff, objectVars, progVars
  <2> QED BY <2>2, <2>3, <2>5 DEF TypeOK
<1>11. ASSUME NEW t \in Threads, NEW u \in Threads, PsTerminateThreadRemove(t, u)
       PROVE  TypeInv'
  <2>1. links' \in Links
    BY <1>0, <1>11, NodesFact, RemoveEntryListType DEF PsTerminateThreadRemove, ThreadTypes
  <2>2. ThreadTypes' /\ CpuTypes'
    BY <1>0, <1>11, <2>1 DEF PsTerminateThreadRemove, ThreadTypes, CpuTypes, ThreadStates
  <2>3. ObjectTypes' /\ ProgTypes'
    BY <1>0, <1>11 DEF PsTerminateThreadRemove, Goto, ObjectTypes, ProgTypes,
       ProgramPoints, objectVars
  <2>4. HandOff'
    BY <1>0, <1>11 DEF PsTerminateThreadRemove, Executing, Goto, HandOff, ProgTypes,
       ThreadTypes, CpuTypes, objectVars
  <2> QED BY <2>2, <2>3, <2>4 DEF TypeOK
<1>12. ASSUME NEW e \in Events, NEW inc \in QuantumIncrements, KeSetEvent(e, inc)
       PROVE  TypeInv'
  <2>1. /\ e \in Objects /\ lock = 0 /\ KiSetEvent(e, inc) /\ inc \in 0 .. QuantumModulus - 1
        /\ UNCHANGED <<threadVars, current, quantumLeft, frame, halted, waiters,
                       pc, target, holds, revived>>
    BY <1>12, SchedulerAssumption DEF Events, Objects, KeSetEvent
  <2>2. /\ signaled' \in [Objects -> BOOLEAN]
        /\ signaling' \in Objects \cup {NoObject}
        /\ increment' \in 0 .. QuantumModulus - 1
        /\ lock' \in {0, 1}
        /\ signaling' # NoObject => lock' = 1 /\ waiters[signaling'] # << >>
    BY <1>0, <2>1, KiSetEventType
  <2>3. ThreadTypes' /\ CpuTypes' /\ ObjectTypes' /\ ProgTypes'
    BY <1>0, <2>1, <2>2 DEF ThreadTypes, CpuTypes, ObjectTypes, ProgTypes, threadVars
  <2>4. HandOff'
    BY <1>0, <2>1, <2>2 DEF HandOff, threadVars
  <2> QED BY <2>3, <2>4 DEF TypeOK
<1>13. ASSUME PspUnwaitThread
       PROVE  TypeInv'
  <2> DEFINE t == Head(waiters[signaling])
  <2>1. signaling \in Objects /\ waiters[signaling] \in Seq(Threads) /\ waiters[signaling] # << >>
    BY <1>0, <1>13 DEF PspUnwaitThread, ObjectTypes, HandOff
  <2>2. t \in Threads /\ Tail(waiters[signaling]) \in Seq(Threads)
    BY <2>1
  <2>3. /\ state' = [state EXCEPT ![t] = "READY"]
        /\ links' = InsertHeadList(RemoveEntryList(links, t), PsReadyListHead, t)
        /\ quantumDynamic' = [quantumDynamic EXCEPT ![t] = increment]
        /\ waiters' = [waiters EXCEPT ![signaling] = Tail(@)]
        /\ waitType' = [waitType EXCEPT ![t] = "NOTWAITING"]
        /\ UNCHANGED <<delay, current, quantumLeft, frame, halted, signaled,
                       increment, pc, target, holds, revived>>
    BY <1>13 DEF PspUnwaitThread, RemoveWaitBlock, LastRelease
  <2>4. \/ lock' = 0 /\ signaling' = NoObject
        \/ /\ lock' = lock /\ signaling' = signaling
           /\ Len(waiters[signaling]) # 1
    BY <1>13 DEF PspUnwaitThread, RemoveWaitBlock, LastRelease
  <2> HIDE DEF t
  <2>5. links' \in Links
    BY <1>0, <2>2, <2>3, MoveType DEF ThreadTypes
  <2>6. ThreadTypes'
    BY <1>0, <2>2, <2>3, <2>5 DEF ThreadTypes, ObjectTypes, ThreadStates, WaitTypes
  <2>7. CpuTypes'
    BY <1>0, <2>3, <2>4 DEF CpuTypes
  <2>8. ObjectTypes'
    BY <1>0, <2>1, <2>2, <2>3, <2>4 DEF ObjectTypes
  <2>9. ProgTypes'
    BY <1>0, <2>3 DEF ProgTypes
  <2>10. Len(waiters[signaling]) # 1 => Tail(waiters[signaling]) # << >>
    BY <2>1, LastOfTail
  <2>11. signaling' # NoObject => lock' = 1 /\ waiters'[signaling'] # << >>
    BY <1>0, <2>1, <2>3, <2>4, <2>10 DEF HandOff, ObjectTypes
  <2>12. signaling # NoObject
    BY <1>13 DEF PspUnwaitThread, RemoveWaitBlock, LastRelease
  <2>13. HandOff'
    BY <1>0, <2>2, <2>3, <2>11, <2>12 DEF HandOff, ThreadTypes
  <2> QED BY <2>6, <2>7, <2>8, <2>9, <2>13 DEF TypeOK
<1>14. ASSUME PspSchedulerTimerInterruptDispatcher
       PROVE  TypeInv'
  <2>1. UNCHANGED <<objectVars, pc, target, holds>>
    BY <1>14 DEF PspSchedulerTimerInterruptDispatcher
  <2>2. quantumLeft - 1 \in Int
    BY <1>0 DEF CpuTypes
  <2>3. (quantumLeft - 1) % QuantumModulus \in 0 .. QuantumModulus - 1
    BY <1>0, <2>2, ModuloRange
  <2>4. CASE (quantumLeft - 1) % QuantumModulus # 0
    <3>1. /\ quantumLeft' = (quantumLeft - 1) % QuantumModulus
          /\ UNCHANGED <<threadVars, current, lock, frame, halted, revived>>
      BY <1>14, <2>4 DEF PspSchedulerTimerInterruptDispatcher
    <3>2. ThreadTypes' /\ CpuTypes'
      BY <1>0, <2>3, <3>1 DEF ThreadTypes, CpuTypes, threadVars
    <3>3. ObjectTypes' /\ ProgTypes' /\ HandOff'
      BY <1>0, <2>1, <3>1 DEF ObjectTypes, ProgTypes, HandOff, objectVars, threadVars
    <3> QED BY <3>2, <3>3 DEF TypeOK
  <2>5. CASE (quantumLeft - 1) % QuantumModulus = 0
    <3> DEFINE S == [state EXCEPT ![current] = "READY"]
    <3>1. /\ lock = 0 /\ signaling = NoObject
          /\ PspSwapThread(links, S, waitType, delay, "Timer")
          /\ revived' \in {revived \cup {current}, revived}
      BY <1>0, <1>14, <2>5 DEF PspSchedulerTimerInterruptDispatcher, HandOff
    <3>2. S \in [Threads -> ThreadStates] /\ S[current] # "NONE" /\ "Timer" \in Frames
      BY <1>0 DEF ThreadTypes, CpuTypes, ThreadStates, Frames
    <3> HIDE DEF S
    <3>3. ThreadTypes' /\ CpuTypes'
      BY <1>0, <3>1, <3>2, PspSwapThreadType DEF ThreadTypes
    <3>4. ObjectTypes' /\ ProgTypes'
      BY <1>0, <2>1, <3>1 DEF ObjectTypes, ProgTypes, CpuTypes, objectVars
    <3>5. /\ lock' = 0 => frame'[current'] = "None"
          /\ \A u \in Threads : frame'[u] \in {frame[u], "None"} \/ (u = current /\ frame'[u] = "Timer")
          /\ state'[current'] # "NONE"
      BY <1>0, <3>1, <3>2, PspSwapThreadHandOff
    <3>6. HandOff'
      BY <1>0, <2>1, <3>1, <3>5 DEF HandOff, objectVars
    <3> QED BY <3>3, <3>4, <3>6 DEF TypeOK
  <2> QED BY <2>4, <2>5
<1>15. ASSUME Resume
       PROVE  TypeInv'
  <2>1. /\ lock' = 0 /\ frame' = [frame EXCEPT ![current] = "None"]
        /\ signaling = NoObject
        /\ UNCHANGED <<threadVars, current, quantumLeft, waiters, signaling,
                       increment, pc, revived>>
    BY <1>15 DEF Resume
  <2>2. current \in Threads
    BY <1>0 DEF CpuTypes
  <2>3. /\ signaled' \in {signaled, [signaled EXCEPT ![target[current]] = FALSE]}
        /\ holds' \in {holds, [holds EXCEPT ![target[current]] = @ \cup {current}]}
        /\ halted' \in {halted, "Runaway"}
        /\ \/ target' = target
           \/ /\ target' = [target EXCEPT ![current] = NoObject]
              /\ frame[current] \in {"Wait", "Acquire"}
    <3>1. CASE frame[current] = "Acquire"
      BY <1>15, <3>1 DEF Resume
    <3>2. CASE frame[current] = "Wait"
      BY <1>15, <3>2 DEF Resume
    <3>3. CASE frame[current] = "Exit"
      BY <1>15, <3>3 DEF Resume
    <3>4. CASE frame[current] \notin {"Acquire", "Wait", "Exit"}
      BY <1>15, <3>4 DEF Resume
    <3> QED BY <3>1, <3>2, <3>3, <3>4
  <2>4. ThreadTypes' /\ CpuTypes'
    BY <1>0, <2>1, <2>2, <2>3 DEF ThreadTypes, CpuTypes, Frames, threadVars
  <2>5. ObjectTypes'
    BY <1>0, <2>1, <2>3 DEF ObjectTypes
  <2>6. ProgTypes'
    BY <1>0, <2>1, <2>2, <2>3 DEF ProgTypes
  <2>7. HandOff'
    BY <1>0, <2>1, <2>2, <2>3 DEF HandOff, threadVars, CpuTypes, ProgTypes
  <2> QED BY <2>4, <2>5, <2>6, <2>7 DEF TypeOK
<1>16. ASSUME KeAcquireLockSpins
       PROVE  TypeInv'
  <2>1. ThreadTypes' /\ CpuTypes' /\ ObjectTypes' /\ ProgTypes'
    BY <1>0, <1>16 DEF KeAcquireLockSpins, ThreadTypes, CpuTypes, ObjectTypes, ProgTypes,
       threadVars, objectVars, progVars
  <2>2. HandOff'
    BY <1>0, <1>16 DEF KeAcquireLockSpins, HandOff, threadVars, objectVars, progVars
  <2> QED BY <2>1, <2>2 DEF TypeOK
<1>17. ASSUME UNCHANGED vars
       PROVE  TypeInv'
  <2>1. ThreadTypes' /\ CpuTypes' /\ ObjectTypes' /\ ProgTypes'
    BY <1>0, <1>17 DEF ThreadTypes, CpuTypes, ObjectTypes, ProgTypes,
       vars, threadVars, cpuVars, objectVars, progVars
  <2>2. HandOff'
    BY <1>0, <1>17 DEF HandOff, vars, threadVars, cpuVars, objectVars, progVars
  <2> QED BY <2>1, <2>2 DEF TypeOK
<1> USE DEF ProgramPoints
<1>18. ASSUME NEW t \in Threads, Call(t)
       PROVE  TypeInv'
  BY <1>1, <1>2, <1>3, <1>4, <1>5, <1>6, <1>7, <1>18, SchedulerAssumption
     DEF Call, UserMutexes
<1>19. ASSUME NEW t \in Threads, Continue(t)
       PROVE  TypeInv'
  BY <1>4, <1>5, <1>8, <1>9, <1>10, <1>11, <1>19, SchedulerAssumption DEF Continue
<1> QED BY <1>12, <1>13, <1>14, <1>15, <1>16, <1>17, <1>18, <1>19 DEF Next

\* TypeOK holds in every reachable state: no field of a thread, of the processor
\* or of an object leaves its type, and KiSetEvent never takes the head of an
\* empty wait list (kernel.cpp:454, ps.cpp:264).
THEOREM TypeCorrect == Spec => []TypeOK
<1>1. TypeInv => TypeOK
  BY DEF TypeInv
<1> QED BY TypeInvInit, TypeInvStep, <1>1, PTL DEF Spec
-----------------------------------------------------------------------------
(* The thread lists.                                                        *)

\* Where places every node; the heads are in their own lists.
LEMMA WhereType ==
    ASSUME NEW S \in [Threads -> ThreadStates]
    PROVE  /\ Where(S) \in Placement
           /\ Where(S)[PsReadyListHead] = "Ready"
           /\ Where(S)[PsWaitListHead] = "Wait"
           /\ \A t \in Threads : Where(S)[t] = Place(S[t])
<1>1. PsReadyListHead # PsWaitListHead /\ Threads \cap Heads = {}
  BY SchedulerAssumption
<1> QED BY <1>1, NodesFact DEF Where, Place, Placement, Heads

\* A thread that changes its state changes its place.
LEMMA WhereExcept ==
    ASSUME NEW S \in [Threads -> ThreadStates], NEW t \in Threads, NEW v \in ThreadStates
    PROVE  Where([S EXCEPT ![t] = v]) = [Where(S) EXCEPT ![t] = Place(v)]
<1> DEFINE T == [S EXCEPT ![t] = v]
           w == [Where(S) EXCEPT ![t] = Place(v)]
<1>1. t # PsReadyListHead /\ t # PsWaitListHead /\ t \in Nodes
  BY SchedulerAssumption, NodesFact DEF Heads
<1>2. ASSUME NEW n \in Nodes
      PROVE  Where(T)[n] = w[n]
  <2>1. CASE n \in Heads
    BY <1>1, <2>1 DEF Where, Heads
  <2>2. CASE n \in Threads
    BY <1>1, <2>2 DEF Where
  <2> QED BY <2>1, <2>2 DEF Nodes
<1>3. Where(T) = [n \in Nodes |-> Where(T)[n]] /\ w = [n \in Nodes |-> w[n]]
  <2>1. Where(T) = [n \in Nodes |-> Where(T)[n]]
    <3> HIDE DEF T
    <3> QED BY DEF Where
  <2>2. Where(S) = [n \in Nodes |-> Where(S)[n]]
    BY DEF Where
  <2>3. w = [n \in Nodes |-> w[n]]
    BY <2>2
  <2> QED BY <2>1, <2>3
<1> HIDE DEF T, w
<1>4. Where(T) = w
  BY <1>2, <1>3
<1> QED BY <1>4 DEF T, w

\* Moving a listed thread to the tail of PsWaitListHead and marking it WAIT.
LEMMA MoveToWait ==
    ASSUME NEW L \in Links, NEW S \in [Threads -> ThreadStates], NEW t \in Threads,
           Linked(L, Where(S)), S[t] \in {"READY", "RUNNING", "WAIT"}
    PROVE  Linked(InsertTailList(RemoveEntryList(L, t), PsWaitListHead, t),
                      Where([S EXCEPT ![t] = "WAIT"]))
<1> DEFINE w == [Where(S) EXCEPT ![t] = "Out"]
<1>1. t \in Nodes /\ PsWaitListHead \in Nodes /\ t # PsWaitListHead /\ t \notin Heads
  BY NodesFact, SchedulerAssumption DEF Heads
<1>2. /\ Where(S) \in Placement /\ Where(S)[t] = Place(S[t])
      /\ Where(S)[PsWaitListHead] = "Wait"
  BY WhereType
<1>3. Where(S)[t] # "Out"
  BY <1>2 DEF Place
<1>4. Linked(RemoveEntryList(L, t), w) /\ RemoveEntryList(L, t) \in Links
  BY <1>1, <1>2, <1>3, RemoveEntryListLinked, RemoveEntryListType
<1>5. w \in Placement /\ w[t] = "Out" /\ w[PsWaitListHead] = "Wait"
  BY <1>1, <1>2 DEF Placement
<1>6. Linked(InsertTailList(RemoveEntryList(L, t), PsWaitListHead, t),
                 [w EXCEPT ![t] = w[PsWaitListHead]])
  BY <1>1, <1>4, <1>5, InsertTailListLinked
<1>7. [w EXCEPT ![t] = w[PsWaitListHead]] = [Where(S) EXCEPT ![t] = "Wait"]
  BY <1>1, <1>2, <1>5 DEF Placement
<1>8. Where([S EXCEPT ![t] = "WAIT"]) = [Where(S) EXCEPT ![t] = "Wait"]
  BY WhereExcept DEF ThreadStates, Place
<1> QED BY <1>6, <1>7, <1>8

\* Moving a listed thread to the head of PsReadyListHead and marking it READY.
LEMMA MoveToReady ==
    ASSUME NEW L \in Links, NEW S \in [Threads -> ThreadStates], NEW t \in Threads,
           Linked(L, Where(S)), S[t] \in {"READY", "RUNNING", "WAIT"}
    PROVE  Linked(InsertHeadList(RemoveEntryList(L, t), PsReadyListHead, t),
                      Where([S EXCEPT ![t] = "READY"]))
<1> DEFINE w == [Where(S) EXCEPT ![t] = "Out"]
<1>1. t \in Nodes /\ PsReadyListHead \in Nodes /\ t # PsReadyListHead /\ t \notin Heads
  BY NodesFact, SchedulerAssumption DEF Heads
<1>2. /\ Where(S) \in Placement /\ Where(S)[t] = Place(S[t])
      /\ Where(S)[PsReadyListHead] = "Ready"
  BY WhereType
<1>3. Where(S)[t] # "Out"
  BY <1>2 DEF Place
<1>4. Linked(RemoveEntryList(L, t), w) /\ RemoveEntryList(L, t) \in Links
  BY <1>1, <1>2, <1>3, RemoveEntryListLinked, RemoveEntryListType
<1>5. w \in Placement /\ w[t] = "Out" /\ w[PsReadyListHead] = "Ready"
  BY <1>1, <1>2 DEF Placement
<1>6. Linked(InsertHeadList(RemoveEntryList(L, t), PsReadyListHead, t),
                 [w EXCEPT ![t] = w[PsReadyListHead]])
  BY <1>1, <1>4, <1>5, InsertHeadListLinked
<1>7. [w EXCEPT ![t] = w[PsReadyListHead]] = [Where(S) EXCEPT ![t] = "Ready"]
  BY <1>1, <1>2, <1>5 DEF Placement
<1>8. Where([S EXCEPT ![t] = "READY"]) = [Where(S) EXCEPT ![t] = "Ready"]
  BY WhereExcept DEF ThreadStates, Place
<1> QED BY <1>6, <1>7, <1>8

\* PspReadyThread moves a READY thread within its list.
LEMMA PspReadyThreadLinked ==
    ASSUME NEW L \in Links, NEW S \in [Threads -> ThreadStates], NEW t \in Threads,
           Linked(L, Where(S)), S[t] = "READY"
    PROVE  PspReadyThread(L, t) \in Links /\ Linked(PspReadyThread(L, t), Where(S))
<1> DEFINE w == [Where(S) EXCEPT ![t] = "Out"]
<1>1. t \in Nodes /\ PsReadyListHead \in Nodes /\ t # PsReadyListHead /\ t \notin Heads
  BY NodesFact, SchedulerAssumption DEF Heads
<1>2. /\ Where(S) \in Placement /\ Where(S)[t] = "Ready"
      /\ Where(S)[PsReadyListHead] = "Ready"
  BY WhereType DEF Place
<1>3. Linked(RemoveEntryList(L, t), w) /\ RemoveEntryList(L, t) \in Links
  BY <1>1, <1>2, RemoveEntryListLinked, RemoveEntryListType
<1>4. w \in Placement /\ w[t] = "Out" /\ w[PsReadyListHead] = "Ready"
  BY <1>1, <1>2 DEF Placement
<1>5. Linked(InsertTailList(RemoveEntryList(L, t), PsReadyListHead, t),
                 [w EXCEPT ![t] = w[PsReadyListHead]])
  BY <1>1, <1>3, <1>4, InsertTailListLinked
<1>6. [w EXCEPT ![t] = w[PsReadyListHead]] = Where(S)
  BY <1>1, <1>2, <1>4 DEF Placement
<1>7. PspReadyThread(L, t) \in Links
  BY <1>1, <1>3, InsertTailListType DEF PspReadyThread
<1> QED BY <1>5, <1>6, <1>7 DEF PspReadyThread

\* FindReadyThread only finds READY threads (ps.cpp:169).
LEMMA FindReadyThreadReady ==
    ASSUME NEW L \in Links, NEW S \in [Threads -> ThreadStates], current \in Threads,
           Linked(L, Where(S)), \A t \in Threads : S[t] # "RUNNING",
           FindReadyThread(L, S) \in Threads
    PROVE  S[FindReadyThread(L, S)] = "READY"
<1> DEFINE first  == L.flink[PsReadyListHead]
           second == L.flink[current]
           found  == IF first = current THEN second ELSE first
<1>1. /\ Where(S)[PsReadyListHead] = "Ready"
      /\ \A t \in Threads : Where(S)[t] = Place(S[t])
      /\ PsReadyListHead \in Nodes /\ current \in Nodes
  BY WhereType, NodesFact
<1>2. first \in Nodes /\ second \in Nodes
  BY <1>1 DEF Links
<1>3. Where(S)[first] = "Ready"
  BY <1>1 DEF Linked, WellFormed
<1>4. first = current => Where(S)[second] = "Ready"
  BY <1>1, <1>3 DEF Linked, WellFormed
<1>5. Where(S)[found] = "Ready"
  BY <1>3, <1>4
<1>6. \A t \in Threads : Where(S)[t] = "Ready" => S[t] = "READY"
  BY <1>1 DEF Place
<1>7. CASE found # PsReadyListHead
  <2>1. FindReadyThread(L, S) = found
    BY <1>7 DEF FindReadyThread
  <2> HIDE DEF found
  <2> QED BY <1>5, <1>6, <2>1
<1>8. CASE found = PsReadyListHead
  <2>1. PsReadyListHead \notin Threads
    BY SchedulerAssumption DEF Heads
  <2>2. FindReadyThread(L, S) = current /\ S[current] = "READY"
    BY <1>8, <2>1 DEF FindReadyThread
  <2> QED BY <2>2
<1> QED BY <1>7, <1>8

\* A context switch keeps the lists coherent and gives the processor to a READY
\* thread, or stops the machine.
LEMMA PspSwapThreadLists ==
    ASSUME TypeOK, NEW L \in Links, NEW S \in [Threads -> ThreadStates], NEW W, NEW D,
           NEW where,
           Linked(L, Where(S)), \A t \in Threads : S[t] # "RUNNING",
           PspSwapThread(L, S, W, D, where)
    PROVE  /\ Linked(links', Where(state'))
           /\ waitType' = W
           /\ \/ /\ S[current'] = "READY"
                 /\ state' = [S EXCEPT ![current'] = "RUNNING"]
                 /\ current' \in Threads
              \/ current' = current /\ state' = S /\ halted' # "No"
<1> DEFINE ready == IF S[current] = "READY" THEN PspReadyThread(L, current) ELSE L
           next  == FindReadyThread(ready, S)
<1> HIDE DEF next
<1>1. current \in Threads
  BY DEF TypeOK, CpuTypes
<1>2. ready \in Links /\ Linked(ready, Where(S))
  BY <1>1, PspReadyThreadLinked
<1>3. links' = ready /\ waitType' = W
  BY DEF PspSwapThread
<1> HIDE DEF ready
<1>4. CASE next \in Threads
  <2>1. SwapContext(next, S, [frame EXCEPT ![current] = where])
    BY <1>4 DEF PspSwapThread, ready, next
  <2>2. current' = next /\ state' = [S EXCEPT ![next] = "RUNNING"]
    BY <2>1 DEF SwapContext
  <2>3. S[next] = "READY"
    BY <1>1, <1>2, <1>4, FindReadyThreadReady DEF next
  <2>4. Where(state') = [Where(S) EXCEPT ![next] = "Ready"]
    BY <1>4, <2>2, WhereExcept DEF ThreadStates, Place
  <2>5. Where(S) \in Placement /\ Where(S)[next] = "Ready"
    BY <1>4, <2>3, WhereType DEF Place
  <2>6. Where(state') = Where(S)
    BY <2>4, <2>5 DEF Placement
  <2> QED BY <1>2, <1>3, <1>4, <2>2, <2>3, <2>6
<1>5. CASE next \notin Threads
  <2>1. state' = S /\ current' = current /\ halted' # "No"
    BY <1>5 DEF PspSwapThread, ready, next
  <2> QED BY <1>2, <1>3, <2>1
<1> QED BY <1>4, <1>5
-----------------------------------------------------------------------------
(* The wait lists of the objects.                                           *)

\* Appending a thread that was not waiting, and marking it, keeps the queues.
LEMMA WaitsEnqueue ==
    ASSUME NEW q \in [Objects -> Seq(Threads)], NEW S \in [Threads -> ThreadStates],
           NEW W \in [Threads -> WaitTypes], NEW o \in Objects, NEW t \in Threads,
           Waits(q, S, W), S[t] # "WAIT"
    PROVE  Waits([q EXCEPT ![o] = Append(@, t)], [S EXCEPT ![t] = "WAIT"],
                 [W EXCEPT ![t] = "SCHEDULEROBJECTS_ANY"])
<1> DEFINE r == [q EXCEPT ![o] = Append(@, t)]
           S1 == [S EXCEPT ![t] = "WAIT"]
           W1 == [W EXCEPT ![t] = "SCHEDULEROBJECTS_ANY"]
<1>1. \A p \in Objects : \A i \in 1 .. Len(q[p]) :
         q[p][i] \in Threads /\ S[q[p][i]] = "WAIT" /\ q[p][i] # t
  BY DEF Waits
<1>2. \A p \in Objects : \A i \in 1 .. Len(r[p]) :
         \/ i \in 1 .. Len(q[p]) /\ r[p][i] = q[p][i]
         \/ p = o /\ i = Len(q[o]) + 1 /\ r[p][i] = t
  <2> SUFFICES ASSUME NEW p \in Objects, NEW i \in 1 .. Len(r[p])
               PROVE  \/ i \in 1 .. Len(q[p]) /\ r[p][i] = q[p][i]
                      \/ p = o /\ i = Len(q[o]) + 1 /\ r[p][i] = t
    OBVIOUS
  <2>1. CASE p # o
    BY <2>1
  <2>2. CASE p = o
    <3>1. r[p] = Append(q[o], t)
      BY <2>2
    <3>2. q[o] \in Seq(Threads)
      OBVIOUS
    <3> QED BY <2>2, <3>1, <3>2
  <2> QED BY <2>1, <2>2
<1>3. ASSUME NEW p \in Objects, NEW i \in 1 .. Len(r[p])
      PROVE  S1[r[p][i]] = "WAIT" /\ W1[r[p][i]] = "SCHEDULEROBJECTS_ANY"
  <2>1. CASE i \in 1 .. Len(q[p]) /\ r[p][i] = q[p][i]
    BY <1>1, <2>1 DEF Waits
  <2>2. CASE r[p][i] = t
    BY <2>2
  <2> QED BY <1>2, <2>1, <2>2
<1> HIDE DEF r, S1, W1
<1>4. ASSUME NEW p \in Objects, NEW i \in 1 .. Len(r[p]),
             NEW u \in Objects, NEW j \in 1 .. Len(r[u]), r[u][j] = r[p][i]
      PROVE  u = p /\ j = i
  <2>1. CASE i \in 1 .. Len(q[p]) /\ r[p][i] = q[p][i]
    <3>1. r[u][j] # t
      BY <1>1, <1>4, <2>1
    <3>2. j \in 1 .. Len(q[u]) /\ r[u][j] = q[u][j]
      BY <1>2, <3>1
    <3> QED BY <1>4, <2>1, <3>2 DEF Waits
  <2>2. CASE p = o /\ i = Len(q[o]) + 1 /\ r[p][i] = t
    <3>1. u = o /\ j = Len(q[o]) + 1
      BY <1>1, <1>2, <1>4, <2>2
    <3> QED BY <2>2, <3>1
  <2> QED BY <1>2, <2>1, <2>2
<1>5. Waits(r, S1, W1)
  BY <1>3, <1>4 DEF Waits
<1> QED BY <1>5 DEF r, S1, W1

\* So does removing the head of a queue and marking it READY.
LEMMA WaitsDequeue ==
    ASSUME NEW q \in [Objects -> Seq(Threads)], NEW S \in [Threads -> ThreadStates],
           NEW W \in [Threads -> WaitTypes], NEW o \in Objects,
           Waits(q, S, W), q[o] # << >>
    PROVE  /\ S[Head(q[o])] = "WAIT"
           /\ Waits([q EXCEPT ![o] = Tail(@)], [S EXCEPT ![Head(q[o])] = "READY"],
                    [W EXCEPT ![Head(q[o])] = "NOTWAITING"])
<1> DEFINE t == Head(q[o])
           r == [q EXCEPT ![o] = Tail(@)]
           S1 == [S EXCEPT ![t] = "READY"]
           W1 == [W EXCEPT ![t] = "NOTWAITING"]
<1>1. 1 \in 1 .. Len(q[o]) /\ t = q[o][1] /\ t \in Threads
  OBVIOUS
<1>2. S[t] = "WAIT"
  BY <1>1 DEF Waits
<1>3. \A p \in Objects : \A i \in 1 .. Len(r[p]) :
         \/ p # o /\ i \in 1 .. Len(q[p]) /\ r[p][i] = q[p][i]
         \/ p = o /\ i + 1 \in 1 .. Len(q[o]) /\ r[p][i] = q[o][i + 1]
  OBVIOUS
<1> HIDE DEF r
<1>4. ASSUME NEW p \in Objects, NEW i \in 1 .. Len(r[p])
      PROVE  /\ r[p][i] \in Threads /\ r[p][i] # t
             /\ S[r[p][i]] = "WAIT" /\ W[r[p][i]] = "SCHEDULEROBJECTS_ANY"
  <2>1. CASE p # o /\ i \in 1 .. Len(q[p]) /\ r[p][i] = q[p][i]
    BY <1>1, <2>1 DEF Waits
  <2>2. CASE p = o /\ i + 1 \in 1 .. Len(q[o]) /\ r[p][i] = q[o][i + 1]
    <3>1. i + 1 # 1
      OBVIOUS
    <3> QED BY <1>1, <2>2, <3>1 DEF Waits
  <2> QED BY <1>3, <2>1, <2>2
<1>5. ASSUME NEW p \in Objects, NEW i \in 1 .. Len(r[p]),
             NEW u \in Objects, NEW j \in 1 .. Len(r[u]), r[u][j] = r[p][i]
      PROVE  u = p /\ j = i
  <2>1. CASE p # o /\ u # o
    BY <1>3, <1>5, <2>1 DEF Waits
  <2>2. CASE p = o /\ u # o
    BY <1>3, <1>5, <2>2 DEF Waits
  <2>3. CASE p # o /\ u = o
    BY <1>3, <1>5, <2>3 DEF Waits
  <2>4. CASE p = o /\ u = o
    <3>1. i + 1 \in 1 .. Len(q[o]) /\ r[p][i] = q[o][i + 1]
      BY <1>3, <2>4
    <3>2. j + 1 \in 1 .. Len(q[o]) /\ r[u][j] = q[o][j + 1]
      BY <1>3, <2>4
    <3> HIDE DEF t
    <3>3. i + 1 = j + 1
      BY <1>5, <3>1, <3>2 DEF Waits
    <3> QED BY <2>4, <3>3
  <2> QED BY <2>1, <2>2, <2>3, <2>4
<1>6. ASSUME NEW p \in Objects, NEW i \in 1 .. Len(r[p])
      PROVE  S1[r[p][i]] = "WAIT" /\ W1[r[p][i]] = "SCHEDULEROBJECTS_ANY"
  BY <1>4
<1> HIDE DEF S1, W1
<1>7. Waits(r, S1, W1)
  BY <1>5, <1>6 DEF Waits
<1> QED BY <1>2, <1>7 DEF r, S1, W1

\* The queues do not notice what happens to threads that are not waiting.
LEMMA WaitsKept ==
    ASSUME NEW q \in [Objects -> Seq(Threads)], NEW S, NEW W, NEW S1, NEW W1, Waits(q, S, W),
           \A t \in Threads : S[t] = "WAIT" => S1[t] = "WAIT" /\ W1[t] = W[t]
    PROVE  Waits(q, S1, W1)
<1>1. \A p \in Objects : \A i \in 1 .. Len(q[p]) : q[p][i] \in Threads
  OBVIOUS
<1> QED BY <1>1 DEF Waits
-----------------------------------------------------------------------------
(* The inductive invariant.                                                 *)

\* A step that neither switches threads nor touches a list or a queue.
LEMMA QuietStep ==
    ASSUME ListsInv, UNCHANGED <<links, state, waitType, current, waiters>>,
           halted' = "No" => halted = "No",
           \A t \in Threads : pc'[t] = "ExitSwap" <=> pc[t] = "ExitSwap"
    PROVE  ListsInv'
<1>1. Linked(links, Where(state))' /\ Waits(waiters, state, waitType)'
  BY DEF ListsInv
<1>2. \A t \in Threads : state'[t] = "RUNNING" => t = current'
  BY DEF ListsInv
<1>3. halted' = "No" => state'[current'] \in {"RUNNING", "TERMINATED"}
  BY DEF ListsInv
<1>4. \A t \in Threads : pc'[t] = "ExitSwap" <=> state'[t] = "TERMINATED"
  BY DEF ListsInv
<1> QED BY <1>1, <1>2, <1>3, <1>4 DEF ListsInv

\* A context switch establishes the invariant of the lists, when the caller of
\* PspSwapThread has put the current thread where it belongs.
LEMMA SwapStep ==
    ASSUME TypeOK, NEW L \in Links, NEW S \in [Threads -> ThreadStates], NEW W, NEW D,
           NEW where, NEW q \in [Objects -> Seq(Threads)],
           Linked(L, Where(S)), \A t \in Threads : S[t] # "RUNNING",
           Waits(q, S, W), waiters' = q,
           \A t \in Threads : pc'[t] = "ExitSwap" <=> S[t] = "TERMINATED",
           PspSwapThread(L, S, W, D, where)
    PROVE  ListsInv'
<1>1. /\ Linked(links', Where(state'))
      /\ waitType' = W
      /\ \/ /\ S[current'] = "READY"
            /\ state' = [S EXCEPT ![current'] = "RUNNING"]
            /\ current' \in Threads
         \/ current' = current /\ state' = S /\ halted' # "No"
  BY PspSwapThreadLists
<1>2. \A t \in Threads : state'[t] = "RUNNING" => t = current'
  BY <1>1
<1>3. halted' = "No" => state'[current'] \in {"RUNNING", "TERMINATED"}
  BY <1>1
<1>4. \A t \in Threads : pc'[t] = "ExitSwap" <=> state'[t] = "TERMINATED"
  BY <1>1
<1>5. Waits(waiters', state', waitType')
  <2>1. \A t \in Threads : S[t] = "WAIT" => state'[t] = "WAIT" /\ W[t] = W[t]
    BY <1>1
  <2>2. Waits(q, state', W)
    BY <2>1, WaitsKept
  <2> QED BY <1>1, <2>2
<1>6. Linked(links, Where(state))' /\ Waits(waiters, state, waitType)'
  BY <1>1, <1>5
<1> QED BY <1>2, <1>3, <1>4, <1>6 DEF ListsInv

\* The thread that executes is the RUNNING one, unless it is about to exit.
LEMMA ExecutingRuns ==
    ASSUME TypeOK, ListsInv, NEW t \in Threads, NEW point, Executing(t, point),
           point # "ExitSwap"
    PROVE  t = current /\ state[t] = "RUNNING" /\ pc[t] = point
BY DEF Executing, ListsInv

\* Blocking on an object.
LEMMA BlockStep ==
    ASSUME TypeOK, ListsInv, NEW t \in Threads, NEW o \in Objects, NEW where,
           t = current, state[t] = "RUNNING", Block(t, o, where),
           \A u \in Threads : pc'[u] = "ExitSwap" <=> pc[u] = "ExitSwap"
    PROVE  ListsInv'
<1> DEFINE L == InsertTailList(RemoveEntryList(links, t), PsWaitListHead, t)
           S == [state EXCEPT ![t] = "WAIT"]
           W == [waitType EXCEPT ![t] = "SCHEDULEROBJECTS_ANY"]
           q == [waiters EXCEPT ![o] = Append(@, t)]
<1>1. /\ links \in Links /\ state \in [Threads -> ThreadStates]
      /\ waitType \in [Threads -> WaitTypes] /\ waiters \in [Objects -> Seq(Threads)]
  BY DEF TypeOK, ThreadTypes, ObjectTypes
<1>2. Linked(links, Where(state)) /\ Waits(waiters, state, waitType)
  BY DEF ListsInv
<1>3. L \in Links
  BY <1>1, MoveType
<1>4. Linked(L, Where(S))
  BY <1>1, <1>2, MoveToWait
<1>5. Waits(q, S, W)
  BY <1>1, <1>2, WaitsEnqueue
<1>6. S \in [Threads -> ThreadStates] /\ q \in [Objects -> Seq(Threads)]
  BY <1>1 DEF ThreadStates
<1>7. \A u \in Threads : S[u] # "RUNNING"
  BY <1>1 DEF ListsInv
<1>8. \A u \in Threads : pc'[u] = "ExitSwap" <=> S[u] = "TERMINATED"
  BY <1>1 DEF ListsInv
<1>9. PspSwapThread(L, S, W, delay, where) /\ waiters' = q
  BY DEF Block
<1> HIDE DEF L, S, W, q
<1> QED BY <1>3, <1>4, <1>5, <1>6, <1>7, <1>8, <1>9, SwapStep

\* A Goto that neither enters nor leaves ExitSwap.
LEMMA GotoKeepsExitSwap ==
    ASSUME TypeOK, NEW t \in Threads, NEW next, pc' = [pc EXCEPT ![t] = next],
           pc[t] # "ExitSwap", next # "ExitSwap"
    PROVE  \A u \in Threads : pc'[u] = "ExitSwap" <=> pc[u] = "ExitSwap"
BY DEF TypeOK, ProgTypes

\* A history is only added to.
LEMMA RevivedGrows ==
    ASSUME [Next]_vars
    PROVE  revived \subseteq revived'
<1>1. CASE PspSchedulerTimerInterruptDispatcher
  BY <1>1 DEF PspSchedulerTimerInterruptDispatcher
<1>2. CASE PspUnwaitThread
  BY <1>2 DEF PspUnwaitThread
<1>3. CASE Resume
  BY <1>3 DEF Resume
<1>4. CASE KeAcquireLockSpins
  BY <1>4 DEF KeAcquireLockSpins, progVars
<1>5. CASE UNCHANGED vars
  BY <1>5 DEF vars, progVars
<1>6. ASSUME NEW e \in Events, NEW inc \in QuantumIncrements, KeSetEvent(e, inc)
      PROVE  revived' = revived
  BY <1>6 DEF KeSetEvent
<1>7. ASSUME NEW t \in Threads, Call(t)
      PROVE  revived' = revived
  BY <1>7 DEF Call, KeWaitForSingleObject, KeClearEvent, KePulseEventSet, ExAcquireMutex,
     ExReleaseMutex, PsDelayThreadExecution, PsCreateThread, progVars
<1>8. ASSUME NEW t \in Threads, Continue(t)
      PROVE  revived' = revived
  BY <1>8 DEF Continue, KePulseEventClear, ExAcquireMutex, ExReleaseMutex,
     PsExitThreadRemove, PsExitThreadSwap, PsTerminateThreadRemove, progVars
<1> QED BY <1>1, <1>2, <1>3, <1>4, <1>5, <1>6, <1>7, <1>8 DEF Next

\* Nothing makes the lists trustworthy again.
LEMMA IntactBefore ==
    ASSUME TypeInv, [Next]_vars, Intact'
    PROVE  Intact
<1>1. revived \subseteq revived'
  BY RevivedGrows
<1>2. ASSUME LockLeaked
      PROVE  LockLeaked'
  <2>1. lock = 1 /\ frame[current] = "None" /\ signaling = NoObject
    BY <1>2 DEF LockLeaked
  <2> SUFFICES UNCHANGED <<lock, frame, current, signaling>>
    BY <2>1 DEF LockLeaked
  <2>2. CASE PspSchedulerTimerInterruptDispatcher
    BY <2>1, <2>2 DEF PspSchedulerTimerInterruptDispatcher, objectVars
  <2>3. CASE PspUnwaitThread
    BY <2>1, <2>3 DEF PspUnwaitThread
  <2>4. CASE Resume
    BY <2>1, <2>4 DEF Resume
  <2>5. CASE KeAcquireLockSpins
    BY <2>5 DEF KeAcquireLockSpins, objectVars
  <2>6. CASE UNCHANGED vars
    BY <2>6 DEF vars, cpuVars, objectVars
  <2>7. ASSUME NEW e \in Events, NEW inc \in QuantumIncrements, KeSetEvent(e, inc)
        PROVE  FALSE
    BY <2>1, <2>7 DEF KeSetEvent
  <2>8. ASSUME NEW t \in Threads, Call(t)
        PROVE  UNCHANGED <<lock, frame, current, signaling>>
    <3>1. \A p : ~Executing(t, p)
      BY <2>1 DEF Executing
    <3>2. PICK e \in Events : KeClearEvent(t, e)
      BY <2>8, <3>1 DEF Call, KeWaitForSingleObject, KePulseEventSet, ExAcquireMutex,
         ExReleaseMutex, PsDelayThreadExecution, PsCreateThread
    <3> QED BY <3>2 DEF KeClearEvent, cpuVars
  <2>9. ASSUME NEW t \in Threads, Continue(t)
        PROVE  FALSE
    <3>1. \A p : ~Executing(t, p)
      BY <2>1 DEF Executing
    <3> QED BY <2>9, <3>1 DEF Continue, KePulseEventClear, ExAcquireMutex, ExReleaseMutex,
         PsExitThreadRemove, PsExitThreadSwap, PsTerminateThreadRemove
  <2> QED BY <2>2, <2>3, <2>4, <2>5, <2>6, <2>7, <2>8, <2>9 DEF Next
<1> QED BY <1>1, <1>2 DEF Intact

\* ListsInv holds initially.
LEMMA ListsInvInit == Init => ListsInv
<1> SUFFICES ASSUME Init PROVE ListsInv
  OBVIOUS
<1>1. TypeOK
  BY TypeInvInit DEF TypeInv
<1>2. /\ SystemThread \in Threads /\ PsReadyListHead # PsWaitListHead
      /\ SystemThread # PsReadyListHead /\ SystemThread # PsWaitListHead
      /\ \A t \in Threads : t # PsReadyListHead /\ t # PsWaitListHead
  BY SchedulerAssumption DEF Heads
<1>3. /\ Where(state) \in Placement
      /\ Where(state)[PsReadyListHead] = "Ready"
      /\ Where(state)[PsWaitListHead] = "Wait"
      /\ \A t \in Threads : Where(state)[t] = IF t = SystemThread THEN "Ready" ELSE "Out"
  <2>1. state \in [Threads -> ThreadStates]
    BY <1>1 DEF TypeOK, ThreadTypes
  <2>2. \A t \in Threads : Place(state[t]) = IF t = SystemThread THEN "Ready" ELSE "Out"
    BY DEF Init, Place
  <2> QED BY ONLY <2>1, <2>2, WhereType
<1>4. \A n \in Nodes :
         links.flink[n] = (IF n = PsReadyListHead THEN SystemThread
                           ELSE IF n = SystemThread THEN PsReadyListHead ELSE n)
         /\ links.blink[n] = links.flink[n]
  BY DEF Init
<1>5. Linked(links, Where(state))
  <2>1. WellFormed(links, Where(state))
    BY <1>2, <1>3, <1>4, NodesFact DEF WellFormed, Nodes, Heads
  <2>2. ASSUME NEW h \in Heads, NEW S, WalkedFrom(links, Where(state), h, S), NEW n \in Nodes,
               Where(state)[n] = Where(state)[h]
        PROVE  n \in S
    <3>1. n = h \/ (h = PsReadyListHead /\ n = SystemThread)
      BY <1>2, <1>3, <2>2 DEF Nodes, Heads
    <3>2. h \in S /\ links.flink[h] \in S
      BY <2>2 DEF WalkedFrom
    <3> QED BY <1>4, <3>1, <3>2, NodesFact
  <2>3. Reached(links, Where(state))
    BY <2>2 DEF Reached
  <2> QED BY <2>1, <2>3 DEF Linked
<1>6. Waits(waiters, state, waitType)
  BY DEF Init, Waits
<1>7. \A t \in Threads : state[t] = "RUNNING" => t = current
  BY DEF Init
<1>8. state[current] \in {"RUNNING", "TERMINATED"}
  BY <1>2 DEF Init
<1>9. \A t \in Threads : pc[t] = "ExitSwap" <=> state[t] = "TERMINATED"
  BY DEF Init
<1> QED BY <1>5, <1>6, <1>7, <1>8, <1>9 DEF ListsInv

\* Every step that leaves the lists trustworthy keeps them right.
LEMMA ListsInvStep ==
    ASSUME TypeInv, TypeInv', [Next]_vars, Intact, Intact', ListsInv
    PROVE  ListsInv'
<1>0. /\ TypeOK /\ HandOff /\ ThreadTypes /\ CpuTypes /\ ObjectTypes /\ ProgTypes
      /\ links \in Links /\ state \in [Threads -> ThreadStates]
      /\ waitType \in [Threads -> WaitTypes] /\ waiters \in [Objects -> Seq(Threads)]
      /\ Linked(links, Where(state)) /\ Waits(waiters, state, waitType)
  BY DEF TypeInv, TypeOK, ThreadTypes, ObjectTypes, ListsInv
<1>1. ASSUME NEW t \in Threads, NEW e \in Events, KeWaitForSingleObject(t, e)
      PROVE  ListsInv'
  <2>1. Executing(t, "Run") /\ pc' = pc /\ e \in Objects
    BY <1>1 DEF KeWaitForSingleObject, Events, Objects
  <2>2. CASE signaled[e]
    <3>1. UNCHANGED <<threadVars, cpuVars, waiters>>
      BY <1>1, <2>2 DEF KeWaitForSingleObject
    <3> QED BY <2>1, <3>1, QuietStep DEF threadVars, cpuVars
  <2>3. CASE ~signaled[e]
    <3>1. Block(t, e, "Wait")
      BY <1>1, <2>3 DEF KeWaitForSingleObject
    <3>2. t = current /\ state[t] = "RUNNING"
      BY <1>0, <2>1, ExecutingRuns
    <3> QED BY <1>0, <2>1, <3>1, <3>2, BlockStep
  <2> QED BY <2>2, <2>3
<1>2. ASSUME NEW t \in Threads, NEW e \in Events, KeClearEvent(t, e)
      PROVE  ListsInv'
  BY <1>2, QuietStep DEF KeClearEvent, threadVars, cpuVars, progVars
<1>3. ASSUME NEW t \in Threads, NEW e \in Events, NEW inc, KePulseEventSet(t, e, inc)
      PROVE  ListsInv'
  <2>1. /\ pc[t] # "ExitSwap" /\ pc' = [pc EXCEPT ![t] = "Pulse"]
        /\ UNCHANGED <<links, state, waitType, current, waiters, halted>>
    BY <1>3 DEF KePulseEventSet, Executing, Goto, threadVars
  <2> QED BY <1>0, <2>1, GotoKeepsExitSwap, QuietStep
<1>4. ASSUME NEW t \in Threads, NEW m \in Mutexes, NEW point, NEW next,
             point # "ExitSwap", next # "ExitSwap", ExAcquireMutex(t, m, point, next)
      PROVE  ListsInv'
  <2>1. /\ Executing(t, point) /\ pc[t] # "ExitSwap" /\ m \in Objects
        /\ pc' = [pc EXCEPT ![t] = next]
    BY <1>4 DEF ExAcquireMutex, Executing, Goto, Objects
  <2>2. \A u \in Threads : pc'[u] = "ExitSwap" <=> pc[u] = "ExitSwap"
    BY <1>0, <1>4, <2>1, GotoKeepsExitSwap
  <2>3. CASE signaled[m]
    <3>1. UNCHANGED <<threadVars, cpuVars, waiters>>
      BY <1>4, <2>3 DEF ExAcquireMutex
    <3> QED BY <2>2, <3>1, QuietStep DEF threadVars, cpuVars
  <2>4. CASE ~signaled[m]
    <3>1. Block(t, m, "Acquire")
      BY <1>4, <2>4 DEF ExAcquireMutex
    <3>2. t = current /\ state[t] = "RUNNING"
      BY <1>0, <1>4, <2>1, ExecutingRuns
    <3> QED BY <1>0, <2>1, <2>2, <3>1, <3>2, BlockStep
  <2> QED BY <2>3, <2>4
<1>5. ASSUME NEW t \in Threads, NEW m \in Mutexes, NEW point, NEW next,
             point # "ExitSwap", next # "ExitSwap", ExReleaseMutex(t, m, point, next)
      PROVE  ListsInv'
  <2>1. /\ pc[t] # "ExitSwap" /\ pc' = [pc EXCEPT ![t] = next]
        /\ UNCHANGED <<links, state, waitType, current, waiters, halted>>
    BY <1>5 DEF ExReleaseMutex, Executing, Goto, threadVars
  <2> QED BY <1>0, <1>5, <2>1, GotoKeepsExitSwap, QuietStep
<1>6. ASSUME NEW t \in Threads, NEW n \in DelayCounts, PsDelayThreadExecution(t, n)
      PROVE  ListsInv'
  <2> DEFINE L == InsertTailList(RemoveEntryList(links, t), PsWaitListHead, t)
             S == [state EXCEPT ![t] = "WAIT"]
             W == [waitType EXCEPT ![t] = "EXECUTIONDELAYED"]
             D == [delay EXCEPT ![t] = n]
  <2>1. /\ PspSwapThread(L, S, W, D, "Delay") /\ waiters' = waiters /\ pc' = pc
        /\ Executing(t, "Run")
    BY <1>6 DEF PsDelayThreadExecution, objectVars, progVars
  <2>2. t = current /\ state[t] = "RUNNING"
    BY <1>0, <2>1, ExecutingRuns
  <2>3. L \in Links /\ Linked(L, Where(S))
    BY <1>0, <2>2, MoveType, MoveToWait
  <2>4. S \in [Threads -> ThreadStates]
    BY <1>0 DEF ThreadStates
  <2>5. \A u \in Threads : state[u] = "WAIT" => S[u] = "WAIT" /\ W[u] = waitType[u]
    BY <1>0, <2>2
  <2>6. Waits(waiters, S, W)
    BY <1>0, <2>5, WaitsKept
  <2>7. \A u \in Threads : S[u] # "RUNNING" /\ (pc'[u] = "ExitSwap" <=> S[u] = "TERMINATED")
    BY <1>0, <2>1, <2>2 DEF ListsInv
  <2> HIDE DEF L, S, W, D
  <2> QED BY <1>0, <2>1, <2>3, <2>4, <2>6, <2>7, SwapStep
<1>7. ASSUME NEW t \in Threads, NEW u \in Threads, PsCreateThread(t, u)
      PROVE  ListsInv'
  <2>1. /\ Executing(t, "Run") /\ state[u] = "NONE"
        /\ state' = [state EXCEPT ![u] = "READY"]
        /\ links' = InsertHeadList(links, PsReadyListHead, u)
        /\ pc' = [pc EXCEPT ![t] = "CreateNotify"]
        /\ UNCHANGED <<waitType, current, halted, waiters>>
    BY <1>7 DEF PsCreateThread, Goto, objectVars
  <2>2. t = current /\ state[t] = "RUNNING" /\ pc[t] = "Run"
    BY <1>0, <2>1, ExecutingRuns
  <2>3. u \in Nodes /\ PsReadyListHead \in Nodes /\ u # PsReadyListHead /\ u \notin Heads
    BY NodesFact, SchedulerAssumption DEF Heads
  <2>4. /\ Where(state) \in Placement /\ Where(state)[u] = "Out"
        /\ Where(state)[PsReadyListHead] = "Ready"
    BY <1>0, <2>1, WhereType DEF Place
  <2>5. Linked(links', [Where(state) EXCEPT ![u] = "Ready"])
    BY <1>0, <2>1, <2>3, <2>4, InsertHeadListLinked
  <2>6. Where(state') = [Where(state) EXCEPT ![u] = "Ready"]
    BY <1>0, <2>1, WhereExcept DEF ThreadStates, Place
  <2>7. \A v \in Threads : state[v] = "WAIT" => state'[v] = "WAIT" /\ waitType[v] = waitType[v]
    BY <1>0, <2>1
  <2>8. Waits(waiters, state', waitType)
    BY <1>0, <2>7, WaitsKept
  <2>9. \A v \in Threads : state'[v] = "RUNNING" => v = current'
    BY <1>0, <2>1 DEF ListsInv
  <2>10. state'[current'] \in {"RUNNING", "TERMINATED"}
    BY <1>0, <2>1, <2>2
  <2>11. \A v \in Threads : pc'[v] = "ExitSwap" <=> pc[v] = "ExitSwap"
    BY <1>0, <2>1, <2>2, GotoKeepsExitSwap
  <2>12. \A v \in Threads : pc'[v] = "ExitSwap" <=> state'[v] = "TERMINATED"
    BY <1>0, <2>1, <2>11 DEF ListsInv
  <2>13. Linked(links, Where(state))' /\ Waits(waiters, state, waitType)'
    BY <2>1, <2>5, <2>6, <2>8
  <2> QED BY <2>9, <2>10, <2>12, <2>13 DEF ListsInv
<1>8. ASSUME NEW t \in Threads, KePulseEventClear(t)
      PROVE  ListsInv'
  <2>1. /\ pc[t] # "ExitSwap" /\ pc' = [pc EXCEPT ![t] = "Run"]
        /\ UNCHANGED <<links, state, waitType, current, waiters, halted>>
    BY <1>8 DEF KePulseEventClear, Executing, Goto, threadVars, cpuVars
  <2> QED BY <1>0, <2>1, GotoKeepsExitSwap, QuietStep
<1>9. ASSUME NEW t \in Threads, PsExitThreadRemove(t)
      PROVE  ListsInv'
  <2>1. /\ Executing(t, "ExitRemove")
        /\ state' = [state EXCEPT ![t] = "TERMINATED"]
        /\ links' = RemoveEntryList(links, t)
        /\ pc' = [pc EXCEPT ![t] = "ExitSwap"]
        /\ UNCHANGED <<waitType, current, halted, waiters>>
    BY <1>9 DEF PsExitThreadRemove, Goto, objectVars, cpuVars
  <2>2. t = current /\ state[t] = "RUNNING" /\ pc[t] = "ExitRemove"
    BY <1>0, <2>1, ExecutingRuns
  <2>3. t \in Nodes /\ t \notin Heads
    BY NodesFact, SchedulerAssumption
  <2>4. Where(state) \in Placement /\ Where(state)[t] = "Ready"
    BY <1>0, <2>2, WhereType DEF Place
  <2>5. Linked(links', [Where(state) EXCEPT ![t] = "Out"])
    BY <1>0, <2>1, <2>3, <2>4, RemoveEntryListLinked
  <2>6. Where(state') = [Where(state) EXCEPT ![t] = "Out"]
    BY <1>0, <2>1, WhereExcept DEF ThreadStates, Place
  <2>7. \A v \in Threads : state[v] = "WAIT" => state'[v] = "WAIT" /\ waitType[v] = waitType[v]
    BY <1>0, <2>1, <2>2
  <2>8. Waits(waiters, state', waitType)
    BY <1>0, <2>7, WaitsKept
  <2>9. \A v \in Threads : state'[v] = "RUNNING" => v = current'
    BY <1>0, <2>1 DEF ListsInv
  <2>10. state'[current'] \in {"RUNNING", "TERMINATED"}
    BY <1>0, <2>1, <2>2
  <2>11. \A v \in Threads : pc'[v] = "ExitSwap" <=> state'[v] = "TERMINATED"
    BY <1>0, <2>1 DEF ListsInv, ProgTypes
  <2>12. Linked(links, Where(state))' /\ Waits(waiters, state, waitType)'
    BY <2>1, <2>5, <2>6, <2>8
  <2> QED BY <2>9, <2>10, <2>11, <2>12 DEF ListsInv
<1>10. ASSUME NEW t \in Threads, PsExitThreadSwap(t)
       PROVE  ListsInv'
  <2>1. /\ PspSwapThread(links, state, waitType, delay, "Exit") /\ waiters' = waiters
        /\ pc' = pc /\ t = current /\ pc[t] = "ExitSwap"
    BY <1>10 DEF PsExitThreadSwap, Executing, objectVars, progVars
  <2>2. \A u \in Threads : /\ state[u] # "RUNNING"
                           /\ pc'[u] = "ExitSwap" <=> state[u] = "TERMINATED"
    BY <2>1 DEF ListsInv
  <2> QED BY <1>0, <2>1, <2>2, SwapStep
<1>11. ASSUME NEW t \in Threads, NEW u \in Threads, PsTerminateThreadRemove(t, u)
       PROVE  FALSE
  <2>1. lock = 0 /\ t = current /\ signaling = NoObject /\ frame[current] = "None"
    BY <1>0, <1>11 DEF PsTerminateThreadRemove, Executing, HandOff
  <2>2. LockLeaked'
    BY <1>11, <2>1 DEF PsTerminateThreadRemove, LockLeaked, objectVars
  <2> QED BY <2>2 DEF Intact
<1>12. ASSUME NEW e \in Events, NEW inc, KeSetEvent(e, inc)
       PROVE  ListsInv'
  BY <1>12, QuietStep DEF KeSetEvent, threadVars
<1>13. ASSUME PspUnwaitThread
       PROVE  ListsInv'
  <2> DEFINE t == Head(waiters[signaling])
  <2>1. signaling \in Objects /\ waiters[signaling] # << >> /\ waiters[signaling] \in Seq(Threads)
    BY <1>0, <1>13 DEF PspUnwaitThread, ObjectTypes, HandOff
  <2>2. t \in Threads
    BY <2>1
  <2>3. /\ state' = [state EXCEPT ![t] = "READY"]
        /\ links' = InsertHeadList(RemoveEntryList(links, t), PsReadyListHead, t)
        /\ waiters' = [waiters EXCEPT ![signaling] = Tail(@)]
        /\ waitType' = [waitType EXCEPT ![t] = "NOTWAITING"]
        /\ UNCHANGED <<current, halted, pc>>
    BY <1>13 DEF PspUnwaitThread, RemoveWaitBlock, LastRelease
  <2>4. state[t] = "WAIT" /\ Waits(waiters', state', waitType')
    BY <1>0, <2>1, <2>3, WaitsDequeue
  <2> HIDE DEF t
  <2>5. Linked(links', Where(state'))
    BY <1>0, <2>2, <2>3, <2>4, MoveToReady
  <2>6. \A v \in Threads : state'[v] = "RUNNING" => v = current'
    BY <1>0, <2>3 DEF ListsInv
  <2>7. halted' = "No" => state'[current'] \in {"RUNNING", "TERMINATED"}
    BY <1>0, <2>2, <2>3, <2>4 DEF ListsInv, CpuTypes
  <2>8. \A v \in Threads : pc'[v] = "ExitSwap" <=> state'[v] = "TERMINATED"
    BY <1>0, <2>3, <2>4 DEF ListsInv
  <2>9. Linked(links, Where(state))' /\ Waits(waiters, state, waitType)'
    BY <2>4, <2>5
  <2> QED BY <2>6, <2>7, <2>8, <2>9 DEF ListsInv
<1>14. ASSUME PspSchedulerTimerInterruptDispatcher
       PROVE  ListsInv'
  <2>1. halted = "No" /\ waiters' = waiters /\ pc' = pc
    BY <1>14 DEF PspSchedulerTimerInterruptDispatcher, objectVars
  <2>2. CASE (quantumLeft - 1) % QuantumModulus # 0
    <3>1. UNCHANGED <<threadVars, current, halted>>
      BY <1>14, <2>2 DEF PspSchedulerTimerInterruptDispatcher
    <3> QED BY <2>1, <3>1, QuietStep DEF threadVars
  <2>3. CASE (quantumLeft - 1) % QuantumModulus = 0
    <3> DEFINE S == [state EXCEPT ![current] = "READY"]
    <3>1. /\ PspSwapThread(links, S, waitType, delay, "Timer")
          /\ state[current] = "TERMINATED" => current \in revived'
      BY <1>14, <2>3 DEF PspSchedulerTimerInterruptDispatcher
    <3>2. current \in Threads /\ state[current] = "RUNNING"
      BY <1>0, <2>1, <3>1 DEF CpuTypes, Intact, ListsInv
    <3>3. S \in [Threads -> ThreadStates]
      BY <1>0 DEF ThreadStates
    <3>4. Where(S) = Where(state)
      <4>1. Where(S) = [Where(state) EXCEPT ![current] = "Ready"]
        BY <1>0, <3>2, WhereExcept DEF ThreadStates, Place
      <4>2. Where(state) \in Placement /\ Where(state)[current] = "Ready"
        BY <1>0, <3>2, WhereType DEF Place
      <4> QED BY <4>1, <4>2 DEF Placement
    <3>5. Linked(links, Where(S))
      BY <1>0, <3>4
    <3>6. \A v \in Threads : state[v] = "WAIT" => S[v] = "WAIT" /\ waitType[v] = waitType[v]
      BY <1>0, <3>2
    <3>7. Waits(waiters, S, waitType)
      BY <1>0, <3>6, WaitsKept
    <3>8. \A u \in Threads : S[u] # "RUNNING" /\ (pc'[u] = "ExitSwap" <=> S[u] = "TERMINATED")
      BY <1>0, <2>1, <3>2 DEF ListsInv
    <3> HIDE DEF S
    <3> QED BY <1>0, <2>1, <3>1, <3>3, <3>5, <3>7, <3>8, SwapStep
  <2> QED BY <2>2, <2>3
<1>15. ASSUME Resume
       PROVE  ListsInv'
  <2>1. halted = "No" /\ UNCHANGED <<links, state, waitType, current, waiters, pc>>
    BY <1>15 DEF Resume, threadVars
  <2> QED BY <2>1, QuietStep
<1>16. ASSUME KeAcquireLockSpins
       PROVE  ListsInv'
  BY <1>16, QuietStep DEF KeAcquireLockSpins, threadVars, objectVars, progVars
<1>17. ASSUME UNCHANGED vars
       PROVE  ListsInv'
  BY <1>17, QuietStep DEF vars, threadVars, cpuVars, objectVars, progVars
<1>18. ASSUME NEW t \in Threads, Call(t)
       PROVE  ListsInv'
  BY <1>1, <1>2, <1>3, <1>4, <1>5, <1>6, <1>7, <1>18, SchedulerAssumption
     DEF Call, UserMutexes
<1>19. ASSUME NEW t \in Threads, Continue(t)
       PROVE  ListsInv'
  BY <1>4, <1>5, <1>8, <1>9, <1>10, <1>11, <1>19, SchedulerAssumption DEF Continue
<1> QED BY <1>12, <1>13, <1>14, <1>15, <1>16, <1>17, <1>18, <1>19 DEF Next

\* What KiSetEvent leaves behind: o is signaled, and if it has waiters they are
\* about to be released.
LEMMA KiSetEventEffect ==
    ASSUME TypeInv, lock = 0, NEW o \in Objects, NEW inc, KiSetEvent(o, inc)
    PROVE  /\ signaled' = [signaled EXCEPT ![o] = TRUE]
           /\ signaling = NoObject
           /\ waiters[o] # << >> => signaling' = o
BY DEF TypeInv, HandOff, KiSetEvent

\* No lost wake-up, and no mutex that nobody will release: preserved by each step.
LEMMA ObjectsStep ==
    ASSUME TypeInv, [Next]_vars, NoSleeperOnSignaledObject, TakenMutexHasHolder
    PROVE  NoSleeperOnSignaledObject' /\ TakenMutexHasHolder'
<1> DEFINE N == NoSleeperOnSignaledObject
           H == TakenMutexHasHolder
<1>0. /\ TypeOK /\ HandOff /\ ObjectTypes /\ ProgTypes /\ CpuTypes
      /\ signaled \in [Objects -> BOOLEAN] /\ waiters \in [Objects -> Seq(Threads)]
      /\ holds \in [Mutexes -> SUBSET Threads]
  BY DEF TypeInv, TypeOK, ObjectTypes, ProgTypes
<1>1. ASSUME UNCHANGED <<signaled, signaling, waiters, holds>>
      PROVE  N' /\ H'
  BY <1>1 DEF NoSleeperOnSignaledObject, TakenMutexHasHolder
<1>2. ASSUME NEW t \in Threads, NEW o \in Objects, NEW where, ~signaled[o], Block(t, o, where),
             UNCHANGED <<signaled, signaling, holds>>
      PROVE  N' /\ H'
  <2>1. waiters' = [waiters EXCEPT ![o] = Append(@, t)]
    BY <1>2 DEF Block
  <2>2. N'
    BY <1>0, <1>2, <2>1 DEF NoSleeperOnSignaledObject
  <2> QED BY <1>2, <2>2 DEF TakenMutexHasHolder
<1>3. ASSUME NEW e \in Events, signaled' = [signaled EXCEPT ![e] = FALSE],
             UNCHANGED <<waiters, signaling, holds>>
      PROVE  N' /\ H'
  <2>1. e \notin Mutexes
    BY SchedulerAssumption
  <2>2. N'
    BY <1>0, <1>3 DEF NoSleeperOnSignaledObject, Objects
  <2>3. H'
    BY <1>0, <1>3, <2>1 DEF TakenMutexHasHolder, Objects
  <2> QED BY <2>2, <2>3
<1>4. ASSUME NEW o \in Objects, NEW inc, lock = 0, KiSetEvent(o, inc), waiters' = waiters,
             \A m \in Mutexes : m # o => holds'[m] = holds[m]
      PROVE  N' /\ H'
  <2>1. /\ signaled' = [signaled EXCEPT ![o] = TRUE] /\ signaling = NoObject
        /\ waiters[o] # << >> => signaling' = o
    BY <1>4, KiSetEventEffect
  <2>2. \A p \in Mutexes \cup NotificationEvents :
           p \in Objects /\ (signaled[p] => waiters[p] = << >>)
    BY <2>1, SchedulerAssumption DEF NoSleeperOnSignaledObject, Objects
  <2>3. N'
    BY <1>0, <1>4, <2>1, <2>2 DEF NoSleeperOnSignaledObject
  <2>4. H'
    BY <1>0, <1>4, <2>1 DEF TakenMutexHasHolder, Objects
  <2> QED BY <2>3, <2>4
<1>5. ASSUME NEW t \in Threads, NEW e \in Events, KeWaitForSingleObject(t, e)
      PROVE  N' /\ H'
  <2>1. CASE signaled[e]
    BY <1>1, <1>5, <2>1 DEF KeWaitForSingleObject
  <2>2. CASE ~signaled[e]
    BY <1>2, <1>5, <2>2 DEF KeWaitForSingleObject, Events, Objects
  <2> QED BY <2>1, <2>2
<1>6. ASSUME NEW t \in Threads, NEW e \in Events, KeClearEvent(t, e)
      PROVE  N' /\ H'
  BY <1>3, <1>6 DEF KeClearEvent, progVars
<1>7. ASSUME NEW t \in Threads, NEW e \in Events, NEW inc, KePulseEventSet(t, e, inc)
      PROVE  N' /\ H'
  BY <1>4, <1>7 DEF KePulseEventSet, Executing, Events, Objects
<1>8. ASSUME NEW t \in Threads, NEW m \in Mutexes, NEW point, NEW next,
             ExAcquireMutex(t, m, point, next)
      PROVE  N' /\ H'
  <2>1. CASE signaled[m]
    <3>1. /\ signaled' = [signaled EXCEPT ![m] = FALSE]
          /\ holds' = [holds EXCEPT ![m] = @ \cup {t}]
          /\ UNCHANGED <<waiters, signaling>>
      BY <1>8, <2>1 DEF ExAcquireMutex
    <3>2. N'
      BY <1>0, <3>1 DEF NoSleeperOnSignaledObject, Objects
    <3>3. H'
      BY <1>0, <3>1 DEF TakenMutexHasHolder, Objects
    <3> QED BY <3>2, <3>3
  <2>2. CASE ~signaled[m]
    BY <1>2, <1>8, <2>2 DEF ExAcquireMutex, Objects
  <2> QED BY <2>1, <2>2
<1>9. ASSUME NEW t \in Threads, NEW m \in Mutexes, NEW point, NEW next,
             ExReleaseMutex(t, m, point, next)
      PROVE  N' /\ H'
  <2>1. /\ lock = 0 /\ KiSetEvent(m, 0) /\ waiters' = waiters /\ m \in Objects
        /\ holds' = [holds EXCEPT ![m] = @ \ {t}]
    BY <1>9 DEF ExReleaseMutex, Executing, Objects
  <2>2. \A p \in Mutexes : p # m => holds'[p] = holds[p]
    BY <1>0, <2>1
  <2> QED BY <1>4, <2>1, <2>2
<1>10. ASSUME NEW t \in Threads, NEW n, PsDelayThreadExecution(t, n)
       PROVE  N' /\ H'
  BY <1>1, <1>10 DEF PsDelayThreadExecution, objectVars, progVars
<1>11. ASSUME NEW t \in Threads, NEW u \in Threads, PsCreateThread(t, u)
       PROVE  N' /\ H'
  BY <1>1, <1>11 DEF PsCreateThread, objectVars
<1>12. ASSUME NEW t \in Threads, KePulseEventClear(t)
       PROVE  N' /\ H'
  <2>1. target[t] \in Events
    BY <1>0, <1>12 DEF KePulseEventClear, Executing, HandOff
  <2> QED BY <1>3, <1>12, <2>1 DEF KePulseEventClear
<1>13. ASSUME NEW t \in Threads, PsExitThreadRemove(t)
       PROVE  N' /\ H'
  BY <1>1, <1>13 DEF PsExitThreadRemove, objectVars
<1>14. ASSUME NEW t \in Threads, PsExitThreadSwap(t)
       PROVE  N' /\ H'
  BY <1>1, <1>14 DEF PsExitThreadSwap, objectVars, progVars
<1>15. ASSUME NEW t \in Threads, NEW u \in Threads, PsTerminateThreadRemove(t, u)
       PROVE  N' /\ H'
  BY <1>1, <1>15 DEF PsTerminateThreadRemove, objectVars
<1>16. ASSUME NEW e \in Events, NEW inc, KeSetEvent(e, inc)
       PROVE  N' /\ H'
  BY <1>4, <1>16 DEF KeSetEvent, Events, Objects
<1>17. ASSUME PspUnwaitThread
       PROVE  N' /\ H'
  <2>1. /\ waiters' = [waiters EXCEPT ![signaling] = Tail(@)]
        /\ UNCHANGED <<signaled, holds>>
        /\ \/ /\ signaling' = NoObject
              /\ signaling \in SynchronizationEvents \/ Len(waiters[signaling]) = 1
           \/ signaling' = signaling
    BY <1>17 DEF PspUnwaitThread, RemoveWaitBlock, LastRelease
  <2>2. H'
    BY <2>1 DEF TakenMutexHasHolder
  <2>3. ASSUME NEW o \in Mutexes \cup NotificationEvents, signaled'[o], signaling' # o
        PROVE  waiters'[o] = << >>
    <3>1. o \in Objects /\ o \notin SynchronizationEvents /\ signaled[o]
      BY <2>1, <2>3, SchedulerAssumption DEF Objects, Events
    <3>2. CASE o = signaling
      <4>1. Len(waiters[o]) = 1 /\ waiters[o] \in Seq(Threads)
        BY <1>0, <2>1, <2>3, <3>1, <3>2
      <4>2. waiters[o] # << >>
        BY <1>0, <1>17, <3>2 DEF PspUnwaitThread, HandOff
      <4>3. Tail(waiters[o]) = << >>
        BY <4>1, <4>2, LastOfTail
      <4>4. waiters'[o] = Tail(waiters[o])
        BY <1>0, <2>1, <3>1, <3>2
      <4> QED BY <4>3, <4>4, Zenon
    <3>3. CASE o # signaling
      <4>1. waiters[o] = << >>
        BY <2>3, <3>1, <3>3 DEF NoSleeperOnSignaledObject
      <4>2. waiters'[o] = waiters[o]
        BY <1>0, <2>1, <3>1, <3>3
      <4> QED BY <4>1, <4>2, Zenon
    <3> QED BY <3>2, <3>3
  <2>4. N'
    BY <2>3 DEF NoSleeperOnSignaledObject
  <2> QED BY <2>2, <2>4
<1>18. ASSUME PspSchedulerTimerInterruptDispatcher
       PROVE  N' /\ H'
  BY <1>1, <1>18 DEF PspSchedulerTimerInterruptDispatcher, objectVars
<1>19. ASSUME Resume
       PROVE  N' /\ H'
  <2>1. UNCHANGED <<waiters, signaling>>
    BY <1>19 DEF Resume
  <2>2. CASE frame[current] = "Acquire"
    <3>1. /\ signaled' = [signaled EXCEPT ![target[current]] = FALSE]
          /\ holds' = [holds EXCEPT ![target[current]] = @ \cup {current}]
      BY <1>19, <2>2 DEF Resume
    <3>2. N'
      BY <1>0, <2>1, <3>1 DEF NoSleeperOnSignaledObject, Objects
    <3>3. H'
      BY <1>0, <3>1 DEF TakenMutexHasHolder, Objects
    <3> QED BY <3>2, <3>3
  <2>3. CASE frame[current] # "Acquire"
    <3>1. UNCHANGED <<signaled, holds>>
      <4>1. CASE frame[current] = "Wait"
        BY <1>19, <4>1 DEF Resume
      <4>2. CASE frame[current] = "Exit"
        BY <1>19, <4>2 DEF Resume
      <4>3. CASE frame[current] \notin {"Acquire", "Wait", "Exit"}
        BY <1>19, <4>3 DEF Resume
      <4> QED BY <2>3, <4>1, <4>2, <4>3
    <3> QED BY <1>1, <2>1, <3>1
  <2> QED BY <2>2, <2>3
<1>20. ASSUME KeAcquireLockSpins
       PROVE  N' /\ H'
  BY <1>1, <1>20 DEF KeAcquireLockSpins, objectVars, progVars
<1>21. ASSUME UNCHANGED vars
       PROVE  N' /\ H'
  BY <1>1, <1>21 DEF vars, objectVars, progVars
<1>22. ASSUME NEW t \in Threads, Call(t)
       PROVE  N' /\ H'
  BY <1>5, <1>6, <1>7, <1>8, <1>9, <1>10, <1>11, <1>22, SchedulerAssumption
     DEF Call, UserMutexes
<1>23. ASSUME NEW t \in Threads, Continue(t)
       PROVE  N' /\ H'
  BY <1>8, <1>9, <1>12, <1>13, <1>14, <1>15, <1>23, SchedulerAssumption DEF Continue
<1> QED BY <1>16, <1>17, <1>18, <1>19, <1>20, <1>21, <1>22, <1>23 DEF Next

\* TypeInv and SchedInv together are an inductive invariant.
LEMMA SchedInvCorrect == Spec => [](TypeInv /\ SchedInv)
<1>1. Init => TypeInv /\ SchedInv
  <2> SUFFICES ASSUME Init PROVE TypeInv /\ SchedInv
    OBVIOUS
  <2>1. NoSleeperOnSignaledObject
    BY DEF Init, NoSleeperOnSignaledObject, Objects
  <2>2. TakenMutexHasHolder
    BY DEF Init, TakenMutexHasHolder, Objects
  <2> QED BY <2>1, <2>2, TypeInvInit, ListsInvInit DEF SchedInv
<1>2. (TypeInv /\ SchedInv) /\ [Next]_vars => (TypeInv /\ SchedInv)'
  <2> SUFFICES ASSUME TypeInv, SchedInv, [Next]_vars
               PROVE  TypeInv' /\ SchedInv'
    OBVIOUS
  <2>1. TypeInv'
    BY TypeInvStep
  <2>2. NoSleeperOnSignaledObject' /\ TakenMutexHasHolder'
    BY ObjectsStep DEF SchedInv
  <2>3. Intact' => ListsInv'
    BY <2>1, IntactBefore, ListsInvStep DEF SchedInv
  <2> QED BY <2>1, <2>2, <2>3 DEF SchedInv
<1> QED BY <1>1, <1>2, PTL DEF Spec

\* READY and RUNNING threads are linked in PsReadyListHead and waiting ones in
\* PsWaitListHead, in every reachable state in which the lists can be trusted at
\* all (ps.cpp:249, ps.cpp:347, ps.cpp:458, kernel.cpp:601).
THEOREM ListsCorrect == Spec => []ThreadListsWellFormed
<1>1. SchedInv => ThreadListsWellFormed
  BY DEF SchedInv, ListsInv, Linked, ThreadListsWellFormed
<1> QED BY SchedInvCorrect, <1>1, PTL

\* The nodes that a walk of one ring cannot avoid are all those of its list.
LEMMA LinkedIsWalked ==
    ASSUME NEW L, NEW where, Linked(L, where), NEW h \in Heads, where[h] # "Out",
           NEW n \in Nodes, where[n] = where[h]
    PROVE  n \in Walk(L, h)
<1> SUFFICES ASSUME NEW S \in SUBSET Nodes, h \in S, \A m \in S : L.flink[m] \in S
             PROVE  n \in S
  BY DEF Walk
<1> DEFINE T == {m \in S : where[m] = where[h]}
<1>1. T \in SUBSET Nodes /\ h \in T
  OBVIOUS
<1>2. \A m \in T : where[m] = where[h] /\ L.flink[m] \in T
  BY DEF Linked, WellFormed
<1>3. WalkedFrom(L, where, h, T)
  BY <1>1, <1>2 DEF WalkedFrom
<1> HIDE DEF T
<1>4. n \in T
  BY <1>1, <1>3 DEF Linked, Reached
<1> QED BY <1>4 DEF T

\* No thread is forgotten: FindReadyThread (ps.cpp:169) can meet every READY thread
\* and PspProcessWaitList (ps.cpp:403) every waiting one.
THEOREM NoThreadForgotten == Spec => []EveryThreadIsListed
<1>1. TypeInv /\ SchedInv => EveryThreadIsListed
  <2> SUFFICES ASSUME TypeInv, SchedInv, Intact, NEW t \in Threads
               PROVE  /\ state[t] = "READY" => t \in Walk(links, PsReadyListHead)
                      /\ state[t] = "WAIT" => t \in Walk(links, PsWaitListHead)
    BY DEF EveryThreadIsListed
  <2>1. state \in [Threads -> ThreadStates] /\ Linked(links, Where(state))
    BY DEF TypeInv, TypeOK, ThreadTypes, SchedInv, ListsInv
  <2>2. /\ Where(state)[t] = Place(state[t]) /\ t \in Nodes
        /\ Where(state)[PsReadyListHead] = "Ready" /\ PsReadyListHead \in Heads
        /\ Where(state)[PsWaitListHead] = "Wait" /\ PsWaitListHead \in Heads
    BY <2>1, WhereType, NodesFact DEF Heads
  <2>3. state[t] = "READY" => t \in Walk(links, PsReadyListHead)
    BY <2>1, <2>2, LinkedIsWalked DEF Place
  <2>4. state[t] = "WAIT" => t \in Walk(links, PsWaitListHead)
    BY <2>1, <2>2, LinkedIsWalked DEF Place
  <2> QED BY <2>3, <2>4
<1> QED BY SchedInvCorrect, <1>1, PTL

\* Whoever is queued on an event or a mutex is asleep and queued once: the ASSERT
\* of KiSetEvent (kernel.cpp:481) never fires.
THEOREM WaitersCorrect == Spec => []WaitersAreWaiting
<1>1. SchedInv => WaitersAreWaiting
  BY DEF SchedInv, ListsInv, Waits, WaitersAreWaiting
<1> QED BY SchedInvCorrect, <1>1, PTL

\* No wake-up is lost on a mutex or on a notification event.
THEOREM NoLostWakeUp == Spec => []NoSleeperOnSignaledObject
<1>1. SchedInv => NoSleeperOnSignaledObject
  BY DEF SchedInv
<1> QED BY SchedInvCorrect, <1>1, PTL

\* A mutex that is not free has a holder, although the woken threads take it
\* without testing it again (ex.cpp:1198).
THEOREM MutexCorrect == Spec => []TakenMutexHasHolder
<1>1. SchedInv => TakenMutexHasHolder
  BY DEF SchedInv
<1> QED BY SchedInvCorrect, <1>1, PTL

\* The processor is only given to a READY thread (ps.cpp:147).
THEOREM DispatchCorrect == Spec => OnlyReadyThreadsRun
<1> DEFINE A == revived' = {} /\ current' # current => state[current'] = "READY"
<1>1. ASSUME TypeInv, SchedInv, Next
      PROVE  A
  <2> SUFFICES ASSUME revived' = {}, current' # current
               PROVE  state[current'] = "READY"
    OBVIOUS
  <2>1. ASSUME NEW L \in Links, NEW S \in [Threads -> ThreadStates], NEW W, NEW D, NEW where,
               Linked(L, Where(S)), \A t \in Threads : S[t] # "RUNNING",
               \A t \in Threads : t # current => S[t] = state[t],
               PspSwapThread(L, S, W, D, where)
        PROVE  state[current'] = "READY"
    <3>1. S[current'] = "READY" /\ current' \in Threads
      BY <1>1, <2>1, PspSwapThreadLists DEF TypeInv
    <3> QED BY <2>1, <3>1
  <2>2. TypeOK /\ HandOff /\ links \in Links /\ state \in [Threads -> ThreadStates]
        /\ waitType \in [Threads -> WaitTypes]
    BY <1>1 DEF TypeInv, TypeOK, ThreadTypes
  <2>3. revived = {}
    <3>1. TypeInv' /\ [Next]_vars
      BY <1>1, TypeInvStep
    <3> QED BY <3>1, RevivedGrows
  <2>4. lock = 0 => ListsInv
    BY <1>1, <2>3 DEF SchedInv, Intact, LockLeaked
  <2>5. ASSUME NEW t \in Threads, state[t] = "RUNNING", t = current, lock = 0
        PROVE  /\ InsertTailList(RemoveEntryList(links, t), PsWaitListHead, t) \in Links
               /\ [state EXCEPT ![t] = "WAIT"] \in [Threads -> ThreadStates]
               /\ Linked(InsertTailList(RemoveEntryList(links, t), PsWaitListHead, t),
                             Where([state EXCEPT ![t] = "WAIT"]))
               /\ \A u \in Threads : [state EXCEPT ![t] = "WAIT"][u] # "RUNNING"
               /\ \A u \in Threads : u # current => [state EXCEPT ![t] = "WAIT"][u] = state[u]
    BY <2>2, <2>4, <2>5, MoveType, MoveToWait DEF ListsInv, ThreadStates
  <2>6. ASSUME NEW t \in Threads, NEW o \in Objects, NEW where, state[t] = "RUNNING",
               t = current, lock = 0, Block(t, o, where)
        PROVE  state[current'] = "READY"
    BY <2>1, <2>5, <2>6 DEF Block
  <2>7. ASSUME NEW t \in Threads, NEW point, Executing(t, point), point # "ExitSwap"
        PROVE  state[t] = "RUNNING" /\ t = current /\ lock = 0
    BY <2>2, <2>4, <2>7, ExecutingRuns DEF Executing
  <2>8. ASSUME NEW t \in Threads, NEW e \in Events, KeWaitForSingleObject(t, e)
        PROVE  state[current'] = "READY"
    BY <2>6, <2>7, <2>8 DEF KeWaitForSingleObject, cpuVars, Events, Objects
  <2>9. ASSUME NEW t \in Threads, NEW m \in Mutexes, NEW point, NEW next,
               point # "ExitSwap", ExAcquireMutex(t, m, point, next)
        PROVE  state[current'] = "READY"
    BY <2>6, <2>7, <2>9 DEF ExAcquireMutex, cpuVars, Objects
  <2>10. ASSUME NEW t \in Threads, NEW n, PsDelayThreadExecution(t, n)
         PROVE  state[current'] = "READY"
    BY <2>1, <2>5, <2>7, <2>10 DEF PsDelayThreadExecution
  <2>11. ASSUME NEW t \in Threads, PsExitThreadSwap(t)
         PROVE  state[current'] = "READY"
    <3>1. /\ PspSwapThread(links, state, waitType, delay, "Exit")
          /\ lock = 0 /\ t = current /\ pc[t] = "ExitSwap"
      BY <2>11 DEF PsExitThreadSwap, Executing
    <3>2. Linked(links, Where(state)) /\ \A u \in Threads : state[u] # "RUNNING"
      BY <2>4, <3>1 DEF ListsInv
    <3> QED BY <2>1, <2>2, <3>1, <3>2
  <2>12. CASE PspSchedulerTimerInterruptDispatcher
    <3> DEFINE S == [state EXCEPT ![current] = "READY"]
    <3>1. /\ PspSwapThread(links, S, waitType, delay, "Timer") /\ lock = 0 /\ halted = "No"
          /\ state[current] = "TERMINATED" => current \in revived'
      BY <2>12 DEF PspSchedulerTimerInterruptDispatcher
    <3>2. current \in Threads /\ state[current] = "RUNNING"
      BY <2>2, <2>4, <3>1 DEF TypeOK, CpuTypes, ListsInv
    <3>3. Where(S) = [Where(state) EXCEPT ![current] = "Ready"]
      BY <2>2, <3>2, WhereExcept DEF ThreadStates, Place
    <3>4. Where(state) \in Placement /\ Where(state)[current] = "Ready"
      BY <2>2, <3>2, WhereType DEF Place
    <3>5. Linked(links, Where(S))
      BY <2>4, <3>1, <3>3, <3>4 DEF ListsInv, Placement
    <3>6. /\ S \in [Threads -> ThreadStates]
          /\ \A u \in Threads : S[u] # "RUNNING" /\ (u # current => S[u] = state[u])
      BY <2>2, <2>4, <3>1, <3>2 DEF ListsInv, ThreadStates
    <3> HIDE DEF S
    <3> QED BY <2>1, <2>2, <3>1, <3>5, <3>6
  <2>13. ASSUME NEW t \in Threads, Call(t)
         PROVE  state[current'] = "READY"
    BY <2>8, <2>9, <2>10, <2>13, SchedulerAssumption
       DEF Call, UserMutexes, KeClearEvent, KePulseEventSet, ExReleaseMutex,
           PsCreateThread, cpuVars
  <2>14. ASSUME NEW t \in Threads, Continue(t)
         PROVE  state[current'] = "READY"
    BY <2>9, <2>11, <2>14, SchedulerAssumption
       DEF Continue, KePulseEventClear, ExReleaseMutex, PsExitThreadRemove,
           PsTerminateThreadRemove, cpuVars
  <2> QED BY <1>1, <2>12, <2>13, <2>14
          DEF Next, KeSetEvent, PspUnwaitThread, Resume, KeAcquireLockSpins
<1>2. TypeInv /\ SchedInv /\ [Next]_vars => [A]_vars
  BY <1>1
<1> QED BY SchedInvCorrect, <1>2, PTL DEF Spec, OnlyReadyThreadsRun
=============================================================================
