------------------------------- MODULE Scheduler -------------------------------
(***************************************************************************)
(* The thread scheduler of the GR8OS kernel and the events and mutexes     *)
(* built on it: kernel/ps.cpp, kernel/ps386.asm, the event routines of     *)
(* kernel/kernel.cpp and the mutex routines of kernel/ex.cpp.              *)
(*                                                                         *)
(* The machine has one processor.  SchedulerLock is taken with interrupts  *)
(* disabled, so a region under it is one step here, except that a context  *)
(* switch hands the held lock from the thread that leaves to the thread    *)
(* that returns: that thread's way out of PspSwapThread is the step Resume,*)
(* and the loop of KiSetEvent is one step per released waiter.  The window *)
(* inside KeAcquireLock, before interrupts are disabled, is left out.      *)
(***************************************************************************)
EXTENDS Integers, Sequences

CONSTANTS
    Threads,                        \* every THREAD the system will ever have
    SystemThread,                   \* the thread of the boot control flow
    NotificationEvents,             \* EVENTs of the two types...
    SynchronizationEvents,
    Mutexes,                        \* ...and MUTEXes
    PsCreateThreadCallbackList,     \* the mutex of this LOCKED_LIST
    PsTerminateThreadCallbackList,  \* the mutex of this LOCKED_LIST
    PsReadyListHead, PsWaitListHead,\* the two list heads
    NoObject,                       \* no SCHEDULER_HEADER
    MayExit, MayKill,               \* threads whose program calls PsExitThread,
                                    \* PsTerminateThread
    DelayCounts,                    \* arguments of PsDelayThreadExecution
    QuantumIncrements,              \* arguments of KeSetEvent
    THREAD_NORMAL_QUANTUM,
    TickModulus,                    \* 2^32 in the code: DelayedTickCount is a ULONG
    QuantumModulus                  \* 2^16 in the code: the quantums are USHORTs

Objects == NotificationEvents \cup SynchronizationEvents \cup Mutexes
Events  == NotificationEvents \cup SynchronizationEvents
Heads   == {PsReadyListHead, PsWaitListHead}
Nodes   == Threads \cup Heads
UserMutexes == Mutexes \ {PsCreateThreadCallbackList, PsTerminateThreadCallbackList}

ASSUME SchedulerAssumption ==
    /\ SystemThread \in Threads
    /\ PsReadyListHead # PsWaitListHead
    /\ Threads \cap Heads = {}
    /\ NotificationEvents \cap SynchronizationEvents = {}
    /\ Mutexes \cap Events = {}
    /\ NoObject \notin Objects
    /\ {PsCreateThreadCallbackList, PsTerminateThreadCallbackList} \subseteq Mutexes
    /\ MayExit \subseteq Threads
    /\ MayKill \subseteq Threads
    /\ TickModulus \in Nat \ {0}
    /\ DelayCounts \subseteq 0 .. TickModulus - 1
    /\ QuantumIncrements \subseteq 0 .. QuantumModulus - 1
    /\ QuantumModulus \in Nat \ {0}
    /\ THREAD_NORMAL_QUANTUM \in 1 .. QuantumModulus - 1

VARIABLES
    links,           \* LIST_ENTRY of every node: [flink, blink]
    state,           \* THREAD.State; "NONE" before the thread is created
    waitType,        \* THREAD.WaitType
    delay,           \* THREAD.DelayedTickCount
    quantumDynamic,  \* THREAD.QuantumDynamic
    current,         \* PCB.CurrentThread
    quantumLeft,     \* PCB.QuantumLeft
    lock,            \* SchedulerLock.Count
    signaled,        \* SCHEDULER_HEADER.SignaledState
    waiters,         \* SCHEDULER_HEADER.WaitListHead: threads in order
    signaling,       \* the object KiSetEvent is releasing waiters of
    increment,       \* the QuantumIncrement of that call
    frame,           \* where a switched-out thread sits in PspSwapThread
    pc,              \* what the thread does next once it runs
    target,          \* the object a blocked or pulsing thread is busy with
    holds,           \* history: threads that returned from ExAcquireMutex
    revived,         \* history: terminated threads made READY again
    halted           \* why the machine stopped, if it did

threadVars == <<links, state, waitType, delay, quantumDynamic>>
cpuVars    == <<current, quantumLeft, lock, frame, halted>>
objectVars == <<signaled, waiters, signaling, increment>>
progVars   == <<pc, target, holds, revived>>
vars == <<threadVars, cpuVars, objectVars, progVars>>

ThreadStates == {"NONE", "READY", "RUNNING", "WAIT", "TERMINATED"}
WaitTypes    == {"NOTWAITING", "EXECUTIONDELAYED", "SCHEDULEROBJECTS_ANY"}
Frames       == {"None", "Start", "Timer", "Wait", "Acquire", "Delay", "Exit"}
ProgramPoints ==
    {"Run", "Pulse", "CreateNotify", "CreateCallbacks", "ExitCallbacks",
     "ExitRemove", "ExitSwap", "KillCallbacks", "KillRemove"}

\* All pairs of LIST_ENTRY fields.
Links == [flink: [Nodes -> Nodes], blink: [Nodes -> Nodes]]

ThreadTypes ==
    /\ links \in Links
    /\ state \in [Threads -> ThreadStates]
    /\ waitType \in [Threads -> WaitTypes]
    /\ delay \in [Threads -> 0 .. TickModulus - 1]
    /\ quantumDynamic \in [Threads -> 0 .. QuantumModulus - 1]

CpuTypes ==
    /\ current \in Threads
    /\ quantumLeft \in 0 .. QuantumModulus - 1
    /\ lock \in {0, 1}
    /\ frame \in [Threads -> Frames]
    /\ halted \in {"No", "Stopped", "BugCheck", "Spin", "Runaway"}

ObjectTypes ==
    /\ signaled \in [Objects -> BOOLEAN]
    /\ waiters \in [Objects -> Seq(Threads)]
    /\ signaling \in Objects \cup {NoObject}
    /\ increment \in 0 .. QuantumModulus - 1

ProgTypes ==
    /\ pc \in [Threads -> ProgramPoints]
    /\ target \in [Threads -> Objects \cup {NoObject}]
    /\ holds \in [Mutexes -> SUBSET Threads]
    /\ revived \subseteq Threads

\* Every variable keeps its type; in particular KiSetEvent never takes the head of
\* an empty wait list and a counter never leaves its width.
TypeOK == ThreadTypes /\ CpuTypes /\ ObjectTypes /\ ProgTypes

-----------------------------------------------------------------------------
(* The intrusive doubly linked lists of inc/ke.h.                           *)

RemoveEntryList(L, e) ==
    [flink |-> [L.flink EXCEPT ![L.blink[e]] = L.flink[e]],
     blink |-> [L.blink EXCEPT ![L.flink[e]] = L.blink[e]]]

InsertTailList(L, h, e) ==
    [flink |-> [L.flink EXCEPT ![e] = h, ![L.blink[h]] = e],
     blink |-> [L.blink EXCEPT ![e] = L.blink[h], ![h] = e]]

\* Mutant: the head still points to the old first entry.
InsertHeadListForgetsHead(L, h, e) ==
    [flink |-> [L.flink EXCEPT ![e] = L.flink[h]],
     blink |-> [L.blink EXCEPT ![e] = h, ![L.flink[h]] = e]]

InsertHeadList(L, h, e) ==
    [flink |-> [L.flink EXCEPT ![e] = L.flink[h], ![h] = e],
     blink |-> [L.blink EXCEPT ![e] = h, ![L.flink[h]] = e]]

-----------------------------------------------------------------------------
(* Choosing the next thread.  Operators take the lists and states that the  *)
(* caller has already changed under the lock.                               *)

\* Mutants: the thread is not unlinked first; it goes to the head of the list.
PspReadyThreadStillLinked(L, t) == InsertTailList(L, PsReadyListHead, t)
PspReadyThreadAtHead(L, t) ==
    InsertHeadList(RemoveEntryList(L, t), PsReadyListHead, t)

PspReadyThread(L, t) ==
    InsertTailList(RemoveEntryList(L, t), PsReadyListHead, t)

\* Every delayed thread in the wait list loses a tick at each context switch;
\* at zero PspUnwaitThread is called, which ignores this WaitType.
PspProcessWaitList(S, W, D) ==
    [t \in Threads |->
        IF S[t] = "WAIT" /\ W[t] = "EXECUTIONDELAYED"
        THEN (D[t] - 1) % TickModulus ELSE D[t]]

\* The first thread of the ready list that is not the current one.
FindReadyThread(L, S) ==
    LET first  == L.flink[PsReadyListHead]
        second == L.flink[current]
        found  == IF first = current THEN second ELSE first
    IN  IF found # PsReadyListHead THEN found
        ELSE IF S[current] = "READY" THEN current
        ELSE PsReadyListHead

SwapContext(next, S, fr) ==
    /\ state' = [S EXCEPT ![next] = "RUNNING"]
    /\ current' = next
    /\ quantumLeft' = (THREAD_NORMAL_QUANTUM + quantumDynamic[next]) % QuantumModulus
    /\ quantumDynamic' = [quantumDynamic EXCEPT ![next] = 0]
    /\ IF fr[next] = "Start"           \* JustInitialized
       THEN /\ lock' = 0
            /\ frame' = [fr EXCEPT ![next] = "None"]
       ELSE /\ lock' = 1
            /\ frame' = fr
    /\ UNCHANGED halted

\* The current thread leaves the processor with the lists L, states S and wait
\* types W; where names the caller it will return to.
PspSwapThread(L, S, W, D, where) ==
    LET ready == IF S[current] = "READY" THEN PspReadyThread(L, current) ELSE L
        next  == FindReadyThread(ready, S)
    IN  /\ links' = ready
        /\ waitType' = W
        /\ delay' = PspProcessWaitList(S, W, D)
        /\ IF next \in Threads
           THEN SwapContext(next, S, [frame EXCEPT ![current] = where])
           ELSE /\ halted' = IF /\ ready.flink[PsReadyListHead] = PsReadyListHead
                                /\ S[current] = "TERMINATED"
                             THEN "Stopped" ELSE "BugCheck"
                /\ state' = S
                /\ lock' = 1
                /\ UNCHANGED <<current, quantumLeft, quantumDynamic, frame>>

-----------------------------------------------------------------------------
(* Guards shared by the actions.                                            *)

\* Thread t executes, with interrupts enabled and the scheduler lock free.
Executing(t, point) ==
    /\ halted = "No"
    /\ lock = 0
    /\ t = current
    /\ pc[t] = point

\* PsTerminateThread has returned without releasing SchedulerLock.
LockLeaked ==
    /\ lock = 1
    /\ frame[current] = "None"
    /\ signaling = NoObject

Goto(t, point) == pc' = [pc EXCEPT ![t] = point]

-----------------------------------------------------------------------------
(* Events.                                                                  *)

\* The waiting part of KeWaitForSingleObject and of ExAcquireMutex.
Block(t, o, where) ==
    /\ waiters' = [waiters EXCEPT ![o] = Append(@, t)]
    /\ target' = [target EXCEPT ![t] = o]
    /\ PspSwapThread(
            InsertTailList(RemoveEntryList(links, t), PsWaitListHead, t),
            [state EXCEPT ![t] = "WAIT"],
            [waitType EXCEPT ![t] = "SCHEDULEROBJECTS_ANY"], delay, where)

\* The SignaledState is tested, never reset: a signaled event lets t through.
KeWaitForSingleObject(t, e) ==
    /\ Executing(t, "Run")
    /\ IF signaled[e]
       THEN UNCHANGED <<threadVars, cpuVars, waiters, target>>
       ELSE Block(t, e, "Wait")
    /\ UNCHANGED <<signaled, signaling, increment, pc, holds, revived>>

\* Mutant: an object with waiters is handed over without being signaled.
KiSetEventHandsOver(o, inc) ==
    /\ signaled' = [signaled EXCEPT ![o] = waiters[o] = << >>]
    /\ IF waiters[o] = << >>
       THEN UNCHANGED <<lock, signaling, increment>>
       ELSE /\ lock' = 1
            /\ signaling' = o
            /\ increment' = inc

\* Take the lock, signal o, and either release the lock at once or keep it while
\* the waiters are released one by one.
KiSetEvent(o, inc) ==
    /\ signaled' = [signaled EXCEPT ![o] = TRUE]
    /\ IF waiters[o] = << >>
       THEN UNCHANGED <<lock, signaling, increment>>
       ELSE /\ lock' = 1
            /\ signaling' = o
            /\ increment' = inc

\* Called by the running thread or by an interrupt handler on top of it.
KeSetEvent(e, inc) ==
    /\ halted = "No"
    /\ lock = 0
    /\ KiSetEvent(e, inc)
    /\ UNCHANGED <<threadVars, current, quantumLeft, frame, halted, waiters,
                   pc, target, holds, revived>>

\* The first wait block of o leaves the wait list; mutant: it stays there when its
\* thread is the only one to be released.
KeepWaitBlock(o) == IF o \in SynchronizationEvents THEN waiters
                    ELSE [waiters EXCEPT ![o] = Tail(@)]
RemoveWaitBlock(o) == [waiters EXCEPT ![o] = Tail(@)]

\* The loop ends with the wait list, or at once for a synchronization event;
\* mutant: at once for every object.
EndsAtOnce(o) == TRUE
LastRelease(o) == o \in SynchronizationEvents \/ Len(waiters[o]) = 1

\* One round of the loop of KiSetEvent.
PspUnwaitThread ==
    /\ halted = "No"
    /\ signaling # NoObject
    /\ LET t == Head(waiters[signaling]) IN
       /\ state' = [state EXCEPT ![t] = "READY"]
       /\ links' = InsertHeadList(RemoveEntryList(links, t), PsReadyListHead, t)
       /\ quantumDynamic' = [quantumDynamic EXCEPT ![t] = increment]
       /\ waitType' = [waitType EXCEPT ![t] = "NOTWAITING"]
    /\ waiters' = RemoveWaitBlock(signaling)
    /\ IF LastRelease(signaling)
       THEN lock' = 0 /\ signaling' = NoObject
       ELSE UNCHANGED <<lock, signaling>>
    /\ UNCHANGED <<delay, current, quantumLeft, frame, halted, signaled,
                   increment, pc, target, holds, revived>>

\* A plain store, without the scheduler lock.
KeClearEvent(t, e) ==
    /\ halted = "No"
    /\ lock = 0 \/ LockLeaked
    /\ t = current
    /\ pc[t] = "Run"
    /\ signaled' = [signaled EXCEPT ![e] = FALSE]
    /\ UNCHANGED <<threadVars, cpuVars, waiters, signaling, increment, progVars>>

\* KePulseEvent is KeSetEvent...
KePulseEventSet(t, e, inc) ==
    /\ Executing(t, "Run")
    /\ KiSetEvent(e, inc)
    /\ Goto(t, "Pulse")
    /\ target' = [target EXCEPT ![t] = e]
    /\ UNCHANGED <<threadVars, current, quantumLeft, frame, halted, waiters,
                   holds, revived>>

\* ...and then KeClearEvent, outside the lock.
KePulseEventClear(t) ==
    /\ Executing(t, "Pulse")
    /\ signaled' = [signaled EXCEPT ![target[t]] = FALSE]
    /\ target' = [target EXCEPT ![t] = NoObject]
    /\ Goto(t, "Run")
    /\ UNCHANGED <<threadVars, cpuVars, waiters, signaling, increment, holds, revived>>

-----------------------------------------------------------------------------
(* Mutexes.  "next" is what the thread does once it has the mutex.          *)

ExAcquireMutex(t, m, point, next) ==
    /\ Executing(t, point)
    /\ t \notin holds[m]
    /\ Goto(t, next)
    /\ IF signaled[m]
       THEN /\ signaled' = [signaled EXCEPT ![m] = FALSE]
            /\ holds' = [holds EXCEPT ![m] = @ \cup {t}]
            /\ UNCHANGED <<threadVars, cpuVars, waiters, target>>
       ELSE /\ Block(t, m, "Acquire")
            /\ UNCHANGED <<signaled, holds>>
    /\ UNCHANGED <<signaling, increment, revived>>

ExReleaseMutex(t, m, point, next) ==
    /\ Executing(t, point)
    /\ t \in holds[m]
    /\ Goto(t, next)
    /\ KiSetEvent(m, 0)
    /\ holds' = [holds EXCEPT ![m] = @ \ {t}]
    /\ UNCHANGED <<threadVars, current, quantumLeft, frame, halted, waiters,
                   target, revived>>

-----------------------------------------------------------------------------
(* Threads.                                                                 *)

PsDelayThreadExecution(t, n) ==
    /\ Executing(t, "Run")
    /\ PspSwapThread(
            InsertTailList(RemoveEntryList(links, t), PsWaitListHead, t),
            [state EXCEPT ![t] = "WAIT"],
            [waitType EXCEPT ![t] = "EXECUTIONDELAYED"],
            [delay EXCEPT ![t] = n], "Delay")
    /\ UNCHANGED <<objectVars, progVars>>

\* PspCreateThread; the callbacks follow: CreateNotify, CreateCallbacks.
PsCreateThread(t, u) ==
    /\ Executing(t, "Run")
    /\ state[u] = "NONE"
    /\ state' = [state EXCEPT ![u] = "READY"]
    /\ links' = InsertHeadList(links, PsReadyListHead, u)
    /\ frame' = [frame EXCEPT ![u] = "Start"]
    /\ Goto(t, "CreateNotify")
    /\ UNCHANGED <<waitType, delay, quantumDynamic, current, quantumLeft, lock,
                   halted, objectVars, target, holds, revived>>

\* Mutant: the thread stays linked in the ready list.
PsExitThreadStaysLinked(t) ==
    /\ Executing(t, "ExitRemove")
    /\ state' = [state EXCEPT ![t] = "TERMINATED"]
    /\ Goto(t, "ExitSwap")
    /\ UNCHANGED <<links, waitType, delay, quantumDynamic, cpuVars, objectVars,
                   target, holds, revived>>

\* Under the lock the thread leaves its list; then interrupts are enabled again.
PsExitThreadRemove(t) ==
    /\ Executing(t, "ExitRemove")
    /\ links' = RemoveEntryList(links, t)
    /\ state' = [state EXCEPT ![t] = "TERMINATED"]
    /\ Goto(t, "ExitSwap")
    /\ UNCHANGED <<waitType, delay, quantumDynamic, cpuVars, objectVars, target,
                   holds, revived>>

\* PsSwapThread, which must not return.
PsExitThreadSwap(t) ==
    /\ Executing(t, "ExitSwap")
    /\ PspSwapThread(links, state, waitType, delay, "Exit")
    /\ UNCHANGED <<objectVars, progVars>>

\* No PspUnlockSchedulerDatabase here: only the interrupt flag is restored.
PsTerminateThreadRemove(t, u) ==
    /\ Executing(t, "KillRemove")
    /\ state[u] # "NONE"
    /\ links' = RemoveEntryList(links, u)
    /\ state' = [state EXCEPT ![u] = "TERMINATED"]
    /\ lock' = 1
    /\ Goto(t, "Run")
    /\ UNCHANGED <<waitType, delay, quantumDynamic, current, quantumLeft, frame,
                   halted, objectVars, target, holds, revived>>

-----------------------------------------------------------------------------
(* The processor: timer interrupt, return from a context switch, spinning.  *)

\* IRQ 0: the quantum shrinks; at its end the running thread is marked READY,
\* whatever its state was, and PsSwapThread is called.
PspSchedulerTimerInterruptDispatcher ==
    LET left == (quantumLeft - 1) % QuantumModulus IN
    /\ halted = "No"
    /\ IF left # 0
       THEN /\ lock = 0 \/ LockLeaked
            /\ quantumLeft' = left
            /\ UNCHANGED <<threadVars, current, lock, frame, halted, revived>>
       ELSE /\ lock = 0
            /\ PspSwapThread(links, [state EXCEPT ![current] = "READY"],
                             waitType, delay, "Timer")
            /\ revived' = IF state[current] = "TERMINATED"
                          THEN revived \cup {current} ELSE revived
    /\ UNCHANGED <<objectVars, pc, target, holds>>

\* The thread that was switched in leaves PspSwapThread, completes the call that
\* switched it out, and releases the scheduler lock.
Resume ==
    /\ halted = "No"
    /\ lock = 1
    /\ signaling = NoObject
    /\ frame[current] # "None"
    /\ lock' = 0
    /\ frame' = [frame EXCEPT ![current] = "None"]
    /\ CASE frame[current] = "Acquire" ->
              /\ signaled' = [signaled EXCEPT ![target[current]] = FALSE]
              /\ holds' = [holds EXCEPT ![target[current]] = @ \cup {current}]
              /\ target' = [target EXCEPT ![current] = NoObject]
              /\ UNCHANGED halted
         [] frame[current] = "Wait" ->
              /\ target' = [target EXCEPT ![current] = NoObject]
              /\ UNCHANGED <<signaled, holds, halted>>
         [] frame[current] = "Exit" ->      \* PsExitThread returns
              /\ halted' = "Runaway"
              /\ UNCHANGED <<signaled, holds, target>>
         [] OTHER -> UNCHANGED <<signaled, holds, target, halted>>
    /\ UNCHANGED <<threadVars, current, quantumLeft, waiters, signaling,
                   increment, pc, revived>>

\* The next KeAcquireLock on the leaked SchedulerLock never returns.
KeAcquireLockSpins ==
    /\ halted = "No"
    /\ LockLeaked
    /\ halted' = "Spin"
    /\ UNCHANGED <<threadVars, current, quantumLeft, lock, frame, objectVars, progVars>>

-----------------------------------------------------------------------------
Init ==
    /\ links = LET next == [n \in Nodes |->
                             IF n = PsReadyListHead THEN SystemThread
                             ELSE IF n = SystemThread THEN PsReadyListHead ELSE n]
               IN  [flink |-> next, blink |-> next]
    /\ state = [t \in Threads |-> IF t = SystemThread THEN "RUNNING" ELSE "NONE"]
    /\ waitType = [t \in Threads |-> "NOTWAITING"]
    /\ delay = [t \in Threads |-> 0]
    /\ quantumDynamic = [t \in Threads |-> 0]
    /\ current = SystemThread
    /\ quantumLeft = THREAD_NORMAL_QUANTUM
    /\ lock = 0
    /\ signaled = [o \in Objects |-> o \in Mutexes]
    /\ waiters = [o \in Objects |-> << >>]
    /\ signaling = NoObject
    /\ increment = 0
    /\ frame = [t \in Threads |-> "None"]
    /\ pc = [t \in Threads |-> "Run"]
    /\ target = [t \in Threads |-> NoObject]
    /\ holds = [m \in Mutexes |-> {}]
    /\ revived = {}
    /\ halted = "No"

\* Calls a thread's program may make.  Thread creation and termination run the
\* registered callbacks first or last (ExProcessCallbackList), holding the mutex
\* of the callback list; the steps after the first are in Continue.
Call(t) ==
    \/ \E e \in Events : KeWaitForSingleObject(t, e) \/ KeClearEvent(t, e)
    \/ \E e \in Events, inc \in QuantumIncrements : KePulseEventSet(t, e, inc)
    \/ \E m \in UserMutexes : \/ ExAcquireMutex(t, m, "Run", "Run")
                              \/ ExReleaseMutex(t, m, "Run", "Run")
    \/ \E n \in DelayCounts : PsDelayThreadExecution(t, n)
    \/ \E u \in Threads : PsCreateThread(t, u)
    \/ /\ t \in MayExit
       /\ ExAcquireMutex(t, PsTerminateThreadCallbackList, "Run", "ExitCallbacks")
    \/ /\ t \in MayKill
       /\ ExAcquireMutex(t, PsTerminateThreadCallbackList, "Run", "KillCallbacks")

\* What a thread inside an operation does next.
Continue(t) ==
    \/ KePulseEventClear(t)
    \/ ExAcquireMutex(t, PsCreateThreadCallbackList, "CreateNotify", "CreateCallbacks")
    \/ ExReleaseMutex(t, PsCreateThreadCallbackList, "CreateCallbacks", "Run")
    \/ ExReleaseMutex(t, PsTerminateThreadCallbackList, "ExitCallbacks", "ExitRemove")
    \/ PsExitThreadRemove(t)
    \/ PsExitThreadSwap(t)
    \/ ExReleaseMutex(t, PsTerminateThreadCallbackList, "KillCallbacks", "KillRemove")
    \/ \E u \in Threads : PsTerminateThreadRemove(t, u)

Next ==
    \/ \E t \in Threads : Call(t) \/ Continue(t)
    \/ \E e \in Events, inc \in QuantumIncrements : KeSetEvent(e, inc)
    \/ PspUnwaitThread
    \/ PspSchedulerTimerInterruptDispatcher
    \/ Resume
    \/ KeAcquireLockSpins

Spec == Init /\ [][Next]_vars

\* The timer interrupts for ever, what runs under the scheduler lock completes,
\* and a thread that gets the processor again and again gets on with what it is
\* doing.  Nothing is assumed about the calls a program makes.
Fairness ==
    /\ WF_vars(PspSchedulerTimerInterruptDispatcher)
    /\ WF_vars(PspUnwaitThread)
    /\ WF_vars(Resume)
    /\ \A t \in Threads : SF_vars(Continue(t))

FairSpec == Spec /\ Fairness

-----------------------------------------------------------------------------
(* Properties.                                                              *)

\* The two known ways in which the thread lists stop being trustworthy have not
\* happened: PsQuantumEnd made a terminated thread READY, or PsTerminateThread
\* kept SchedulerLock.
Intact == revived = {} /\ ~LockLeaked

\* The list that a thread of this state belongs in.
Place(st) == IF st \in {"READY", "RUNNING"} THEN "Ready"
             ELSE IF st = "WAIT" THEN "Wait" ELSE "Out"

\* The list a node is in.
Where(S) ==
    [n \in Nodes |->
        IF n = PsReadyListHead THEN "Ready"
        ELSE IF n = PsWaitListHead THEN "Wait" ELSE Place(S[n])]

\* Following either link of a node stays in its list and can be undone.
WellFormed(L, where) ==
    \A n \in Nodes : where[n] # "Out" =>
        /\ where[L.flink[n]] = where[n]
        /\ where[L.blink[n]] = where[n]
        /\ L.blink[L.flink[n]] = n
        /\ L.flink[L.blink[n]] = n

\* READY and RUNNING threads are linked in PsReadyListHead and waiting ones in
\* PsWaitListHead, coherently in both directions, whatever interleaving of
\* preemptions, wake-ups, creations and exits put them there (ps.cpp).
ThreadListsWellFormed == Intact => WellFormed(links, Where(state))

\* What a walk along Flink from h meets: the smallest set that has h and, with each
\* entry, the next one.
Walk(L, h) ==
    {n \in Nodes : \A S \in SUBSET Nodes : h \in S /\ (\A m \in S : L.flink[m] \in S) => n \in S}

\* No thread is forgotten: the walk of FindReadyThread along Flink from
\* PsReadyListHead meets every READY thread, and the walk of PspProcessWaitList
\* meets every waiting one.
EveryThreadIsListed ==
    Intact => \A t \in Threads : /\ state[t] = "READY" => t \in Walk(links, PsReadyListHead)
                                 /\ state[t] = "WAIT" => t \in Walk(links, PsWaitListHead)

\* The processor is only given to a thread that was READY: never to a waiting,
\* terminated or not yet created one (FindReadyThread's ASSERT, ps.cpp:169).
OnlyReadyThreadsRun ==
    [][revived' = {} /\ current' # current => state[current'] = "READY"]_vars

\* Whoever is queued on an event or mutex is asleep, on that object alone and
\* once: what KiSetEvent asserts of the thread it is about to wake
\* (kernel.cpp:481).
WaitersAreWaiting ==
    Intact =>
        \A o \in Objects : \A i \in 1 .. Len(waiters[o]) :
            LET t == waiters[o][i] IN
            /\ state[t] = "WAIT"
            /\ waitType[t] = "SCHEDULEROBJECTS_ANY"
            /\ \A p \in Objects : \A j \in 1 .. Len(waiters[p]) :
                   waiters[p][j] = t => p = o /\ j = i

\* No lost wake-up: once KiSetEvent is done with it, no thread sleeps on a free
\* mutex or on a signaled notification event, although signalling, pulsing and
\* testing happen in separate critical sections.
NoSleeperOnSignaledObject ==
    \A o \in Mutexes \cup NotificationEvents :
        signaled[o] /\ signaling # o => waiters[o] = << >>

\* A mutex that is not free is held by some thread, so that somebody is left to
\* wake the sleepers: releases and the woken threads' late acquisitions, which do
\* not test the SignaledState again, never leave it taken by nobody.
TakenMutexHasHolder ==
    \A m \in Mutexes : ~signaled[m] => holds[m] # {}

\* Round robin: with nothing but timer interrupts, delays, creations and exits a
\* READY thread gets the processor.
ReadyThreadRuns ==
    \A t \in Threads :
        state[t] = "READY" ~> (current = t \/ halted # "No")
=============================================================================
