------------------------------- MODULE Keyboard -------------------------------
(***************************************************************************)
(* The keyboard driver, src/keyboard.  The handler of IRQ 1 stores symbols *)
(* in a buffer and sets an event; KeybdRead takes symbols from the end of  *)
(* the buffer and waits on the event when there are too few; KeybdControl  *)
(* and the lock keys set the indicators, a command and a value that are    *)
(* written to the same port.                                               *)
(*                                                                         *)
(* A processor with interrupts off does one thing: what a thread does      *)
(* between the cli of KeAcquireLock and KBD_RELEASE_LOCK is one step, and  *)
(* so is the handler up to its sti.  Then it may lose the processor to     *)
(* another thread, and there is no other IRQ 1 before its end of interrupt.*)
(*                                                                         *)
(* The event is that of Scheduler: KiSetEvent releases the first sleeper   *)
(* of a synchronization event, and nothing resets it.  Which symbol a scan *)
(* code gives, and the shift keys, are left out; each code stores one, the *)
(* release of a key as well.  A failed ASSERT stops the machine.           *)
(***************************************************************************)
EXTENDS Integers, Sequences, FiniteSets

CONSTANTS
    Threads,          \* callers of the driver
    Nobody,           \* another thread, which does not call it
    KBD_BUFFER_SIZE,
    MaxKeys,          \* bound: scan codes
    MaxControls       \* bound: IOCTLs

ASSUME KeyboardAssumption ==
    /\ Nobody \notin Threads /\ "none" \notin Threads \cup {Nobody}
    /\ KBD_BUFFER_SIZE \in Nat \ {0}
    /\ MaxKeys \in Nat /\ MaxControls \in Nat

VARIABLES
    KeybdCyclicBuffer, KeybdCurrentPos,
    KeybdCyclicBufferLock, \* its owner, or Nobody
    KeybdReadSynchEvent,   \* signaled or not...
    sleepers,              \* ...and its wait list
    pc, nBytesRequested,   \* of each thread
    KeybdIndicators,
    packet,                \* the value a thread is going to write
    leds,                  \* what the keyboard shows
    valueNext,             \* the keyboard takes the next byte for the value
    irq,                   \* the thread that IRQ 1 interrupted, or "none"
    stopped,               \* by a failed ASSERT
    \* histories
    keys,                  \* symbols stored; a symbol is its number
    read,                  \* symbols the readers got, in order
    lost,                  \* symbols a full buffer dropped
    users,                 \* threads that have called KeybdRead
    controls,
    crossed                \* indicators were set while a thread was setting them

bufferVars == <<KeybdCyclicBuffer, KeybdCurrentPos, keys, read, lost>>
eventVars == <<KeybdReadSynchEvent, sleepers>>
ledVars == <<KeybdIndicators, packet, leds, valueNext, controls, crossed>>
vars == <<bufferVars, KeybdCyclicBufferLock, eventVars, pc, nBytesRequested, ledVars, irq, stopped, users>>

Places == 0 .. KBD_BUFFER_SIZE - 1

TypeOK ==
    /\ KeybdCyclicBuffer \in [Places -> 0 .. MaxKeys]
    /\ KeybdCurrentPos \in -1 .. KBD_BUFFER_SIZE - 1
    /\ KeybdCyclicBufferLock \in Threads \cup {Nobody}
    /\ KeybdReadSynchEvent \in BOOLEAN
    /\ sleepers \in Seq(Threads)
    /\ pc \in [Threads -> {"idle", "lock", "held", "wait", "sleep", "relock", "reheld",
                           "indicators", "command", "value"}]
    /\ nBytesRequested \in [Threads -> Places \cup {KBD_BUFFER_SIZE}]
    /\ packet \in [Threads -> BOOLEAN]
    /\ KeybdIndicators \in BOOLEAN /\ leds \in BOOLEAN /\ valueNext \in BOOLEAN
    /\ stopped \in BOOLEAN /\ crossed \in BOOLEAN
    /\ irq \in Threads \cup {Nobody, "none"}
    /\ keys \in 0 .. MaxKeys /\ read \in Seq(1 .. MaxKeys) /\ lost \subseteq 1 .. MaxKeys
    /\ users \subseteq Threads /\ controls \in 0 .. MaxControls

\* DriverEntry.
Init ==
    /\ KeybdCyclicBuffer = [i \in Places |-> 0]
    /\ KeybdCurrentPos = -1
    /\ KeybdCyclicBufferLock = Nobody
    /\ KeybdReadSynchEvent = FALSE /\ sleepers = <<>>
    /\ pc = [t \in Threads |-> "idle"] /\ nBytesRequested = [t \in Threads |-> 0]
    /\ KeybdIndicators = FALSE /\ packet = [t \in Threads |-> FALSE]
    /\ leds = FALSE /\ valueNext = FALSE
    /\ irq = "none" /\ stopped = FALSE
    /\ keys = 0 /\ read = <<>> /\ lost = {} /\ users = {} /\ controls = 0 /\ crossed = FALSE

\* A thread does its next instructions, unless the handler runs on top of it.
Step(t, from, to) ==
    /\ ~stopped
    /\ irq # t
    /\ pc[t] = from
    /\ pc' = [pc EXCEPT ![t] = to]

-----------------------------------------------------------------------------
(* KeybdRead.                                                                *)

KeybdRead(t, n) ==
    /\ Step(t, "idle", "lock")
    /\ nBytesRequested' = [nBytesRequested EXCEPT ![t] = n]
    /\ users' = users \cup {t}
    /\ UNCHANGED <<bufferVars, KeybdCyclicBufferLock, eventVars, ledVars, irq, stopped>>

\* KBD_ACQUIRE_LOCK, with interrupts still on.
AcquireLock(t) ==
    /\ Step(t, "lock", "held") \/ Step(t, "relock", "reheld")
    /\ KeybdCyclicBufferLock = Nobody
    /\ KeybdCyclicBufferLock' = t
    /\ UNCHANGED <<bufferVars, eventVars, nBytesRequested, ledVars, irq, stopped, users>>

Enough(t) == KeybdCurrentPos >= nBytesRequested[t] - 1

\* The newest symbol comes first.
Taken(n) == [i \in 1 .. n |-> KeybdCyclicBuffer[KeybdCurrentPos - (i - 1)]]

\* A bug for the mutants: one symbol stays in the buffer.
PerformReadLeavesOne(t) ==
    /\ read' = read \o Taken(nBytesRequested[t])
    /\ KeybdCurrentPos' = KeybdCurrentPos - nBytesRequested[t] + 1

KeybdSynchPerformRead(t) ==
    /\ read' = read \o Taken(nBytesRequested[t])
    /\ KeybdCurrentPos' = KeybdCurrentPos - nBytesRequested[t]

\* The body under the lock, up to its release: the request is served, or waits.
Serve(t, from) ==
    /\ \/ Step(t, from, "idle") /\ Enough(t) /\ KeybdSynchPerformRead(t)
       \/ Step(t, from, "wait") /\ ~Enough(t) /\ UNCHANGED <<read, KeybdCurrentPos>>
    /\ KeybdCyclicBufferLock' = Nobody
    /\ UNCHANGED <<KeybdCyclicBuffer, keys, lost, eventVars, nBytesRequested, ledVars, irq, users>>

FirstLook(t) == Serve(t, "held") /\ UNCHANGED stopped

\* After the wait there must be a symbol.
LookAgain(t) ==
    \/ KeybdCurrentPos >= 0 /\ Serve(t, "reheld") /\ UNCHANGED stopped
    \/ /\ KeybdCurrentPos < 0
       /\ Step(t, "reheld", "reheld")
       /\ stopped' = TRUE
       /\ UNCHANGED <<bufferVars, KeybdCyclicBufferLock, eventVars, nBytesRequested, ledVars, irq, users>>

\* KeWaitForSingleObject.
Wait(t) ==
    /\ \/ KeybdReadSynchEvent /\ Step(t, "wait", "relock") /\ UNCHANGED sleepers
       \/ ~KeybdReadSynchEvent /\ Step(t, "wait", "sleep") /\ sleepers' = Append(sleepers, t)
    /\ UNCHANGED <<bufferVars, KeybdCyclicBufferLock, KeybdReadSynchEvent, nBytesRequested, ledVars,
                   irq, stopped, users>>

-----------------------------------------------------------------------------
(* The indicators.                                                           *)

Setting == {t \in Threads : pc[t] \in {"indicators", "command", "value"}}

\* KeybdControl stores the indicators of the caller.
KeybdControl(t, value) ==
    /\ Step(t, "idle", "indicators")
    /\ controls < MaxControls
    /\ controls' = controls + 1
    /\ KeybdIndicators' = value
    /\ crossed' = (crossed \/ Setting # {})
    /\ UNCHANGED <<bufferVars, KeybdCyclicBufferLock, eventVars, nBytesRequested, packet, leds,
                   valueNext, irq, stopped, users>>

\* KeybdSetIndicators of a thread: the value is put together, announced and written.
TakeIndicators(t) ==
    /\ Step(t, "indicators", "command")
    /\ packet' = [packet EXCEPT ![t] = KeybdIndicators]
    /\ UNCHANGED <<bufferVars, KeybdCyclicBufferLock, eventVars, nBytesRequested, KeybdIndicators,
                   leds, valueNext, controls, crossed, irq, stopped, users>>

SetLedsCommand(t) ==
    /\ Step(t, "command", "value")
    /\ valueNext' = TRUE
    /\ UNCHANGED <<bufferVars, KeybdCyclicBufferLock, eventVars, nBytesRequested, KeybdIndicators,
                   packet, leds, controls, crossed, irq, stopped, users>>

\* A bug for the mutants: the value that is written is not the one put together.
WriteNothing(t) ==
    /\ Step(t, "value", "idle")
    /\ valueNext' = FALSE
    /\ UNCHANGED <<bufferVars, KeybdCyclicBufferLock, eventVars, nBytesRequested, KeybdIndicators,
                   packet, leds, controls, crossed, irq, stopped, users>>

\* A value that was not announced is a command the keyboard does not know.
SetLedsValue(t) ==
    /\ Step(t, "value", "idle")
    /\ valueNext' = FALSE
    /\ leds' = IF valueNext THEN packet[t] ELSE leds
    /\ UNCHANGED <<bufferVars, KeybdCyclicBufferLock, eventVars, nBytesRequested, KeybdIndicators,
                   packet, controls, crossed, irq, stopped, users>>

-----------------------------------------------------------------------------
(* IRQ 1.                                                                    *)

\* The buffer starts again when it is full, whatever is still to be read.
Store ==
    LET full == KeybdCurrentPos = KBD_BUFFER_SIZE - 1
        place == IF full THEN 0 ELSE KeybdCurrentPos + 1 IN
    /\ KeybdCurrentPos' = place
    /\ KeybdCyclicBuffer' = [KeybdCyclicBuffer EXCEPT ![place] = keys + 1]
    /\ lost' = IF full THEN lost \cup {KeybdCyclicBuffer[i] : i \in Places} ELSE lost
    /\ keys' = keys + 1

\* A lock key turns its indicator over, when it is pressed and when it is released.
LockKey ==
    /\ KeybdIndicators' = ~KeybdIndicators
    /\ leds' = ~KeybdIndicators
    /\ valueNext' = FALSE
    /\ crossed' = (crossed \/ Setting # {})

\* KeybdIrq1Interrupt up to its sti, on top of a thread that is not asleep.
KeybdIrq1Interrupt(t) ==
    /\ ~stopped
    /\ irq = "none"
    /\ t # Nobody => pc[t] # "sleep"
    /\ keys < MaxKeys
    /\ irq' = t
    /\ Store
    /\ LockKey \/ UNCHANGED <<KeybdIndicators, leds, valueNext, crossed>>
    /\ UNCHANGED <<KeybdCyclicBufferLock, eventVars, pc, nBytesRequested, packet, controls, stopped,
                   read, users>>

\* A bug for the mutants: the event is set, and nobody is released.
SetEventOnly ==
    /\ ~stopped /\ irq # "none" /\ irq' = "none"
    /\ KeybdReadSynchEvent' = TRUE
    /\ UNCHANGED <<bufferVars, KeybdCyclicBufferLock, sleepers, pc, nBytesRequested, ledVars, stopped, users>>

\* KeSetEvent, and the end of the interrupt.
SetEvent ==
    /\ ~stopped
    /\ irq # "none"
    /\ irq' = "none"
    /\ KeybdReadSynchEvent' = TRUE
    /\ IF sleepers = <<>>
       THEN UNCHANGED <<sleepers, pc>>
       ELSE /\ pc' = [pc EXCEPT ![Head(sleepers)] = "relock"]
            /\ sleepers' = Tail(sleepers)
    /\ UNCHANGED <<bufferVars, KeybdCyclicBufferLock, nBytesRequested, ledVars, stopped, users>>

ThreadStep(t) ==
    \/ \E n \in 1 .. KBD_BUFFER_SIZE : KeybdRead(t, n)
    \/ AcquireLock(t) \/ FirstLook(t) \/ LookAgain(t) \/ Wait(t)
    \/ \E value \in BOOLEAN : KeybdControl(t, value)
    \/ TakeIndicators(t) \/ SetLedsCommand(t) \/ SetLedsValue(t)

Next ==
    \/ \E t \in Threads : ThreadStep(t)
    \/ \E t \in Threads \cup {Nobody} : KeybdIrq1Interrupt(t)
    \/ SetEvent

Spec == Init /\ [][Next]_vars

-----------------------------------------------------------------------------
(* Properties.                                                               *)

Unread == {KeybdCyclicBuffer[i] : i \in 0 .. KeybdCurrentPos}
Got == {read[i] : i \in 1 .. Len(read)}

\* Whatever the handler stores while readers look, wait and are preempted, a symbol is read
\* once, still in the buffer, or dropped by a full one (driver.cpp:35-50, keyboard.cpp:303-306).
SymbolsAreAccounted ==
    /\ Got \cup Unread \cup lost = 1 .. keys
    /\ Len(read) + KeybdCurrentPos + 1 + Cardinality(lost) = keys

\* A lone reader does not sleep on what it asked for, although it lets go of the lock before
\* it waits and the handler may store in between (driver.cpp:77-92).
ReaderIsWoken ==
    \A t \in Threads : users = {t} /\ pc[t] = "sleep" /\ irq = "none" => ~Enough(t)

\* The keyboard shows the indicators when nobody is setting them, unless an IOCTL or a lock key
\* came while a thread was in KeybdSetIndicators, which no lock protects (keyboard.cpp:165-189).
LedsShowIndicators == Setting = {} /\ ~crossed => leds = KeybdIndicators
=============================================================================
