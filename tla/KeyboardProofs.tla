---------------------------- MODULE KeyboardProofs ----------------------------
(***************************************************************************)
(* Theorems about Keyboard, for any number of threads, any buffer size and *)
(* any number of keys.                                                     *)
(*                                                                         *)
(* That symbols are accounted for rests on BufferInv: what is between the  *)
(* beginning of the buffer and KeybdCurrentPos are different symbols, none *)
(* of them dropped before.  That a lone reader is woken rests on WakeInv,  *)
(* about the moments between its look at the buffer, its wait and the      *)
(* event, and that the indicators are shown on LedInv, about the steps of  *)
(* KeybdSetIndicators.                                                     *)
(***************************************************************************)
EXTENDS Keyboard, TLAPS, FiniteSetTheorems, FunctionTheorems, SequenceTheorems

\* What is in the buffer is different symbols, and none that was dropped.
BufferInv ==
    /\ \A i \in 0 .. KeybdCurrentPos : KeybdCyclicBuffer[i] \in (1 .. keys) \ lost
    /\ \A i, j \in 0 .. KeybdCurrentPos : KeybdCyclicBuffer[i] = KeybdCyclicBuffer[j] => i = j
    /\ lost \subseteq 1 .. keys

-----------------------------------------------------------------------------
(* The buffer. *)

\* Only a reader and the handler change the buffer.
LEMMA BufferSteps ==
  ASSUME [Next]_vars
  PROVE  \/ bufferVars' = bufferVars
         \/ \E t \in Threads : /\ Enough(t) /\ KeybdSynchPerformRead(t)
                               /\ KeybdCyclicBuffer' = KeybdCyclicBuffer
                               /\ keys' = keys /\ lost' = lost
         \/ Store /\ read' = read /\ keys < MaxKeys
<1>1. CASE UNCHANGED vars
  BY <1>1 DEF vars
<1>2. ASSUME NEW t \in Threads, ThreadStep(t)
      PROVE  \/ bufferVars' = bufferVars
             \/ /\ Enough(t) /\ KeybdSynchPerformRead(t)
                /\ KeybdCyclicBuffer' = KeybdCyclicBuffer /\ keys' = keys /\ lost' = lost
  <2>1. ASSUME NEW from, Serve(t, from)
        PROVE  \/ bufferVars' = bufferVars
               \/ /\ Enough(t) /\ KeybdSynchPerformRead(t)
                  /\ KeybdCyclicBuffer' = KeybdCyclicBuffer /\ keys' = keys /\ lost' = lost
    BY <2>1 DEF Serve, bufferVars
  <2>2. CASE FirstLook(t) \/ LookAgain(t)
    BY <2>1, <2>2 DEF FirstLook, LookAgain
  <2>3. CASE ~ (FirstLook(t) \/ LookAgain(t))
    BY <1>2, <2>3 DEF ThreadStep, KeybdRead, AcquireLock, Wait, KeybdControl, TakeIndicators,
                      SetLedsCommand, SetLedsValue
  <2> QED
    BY <2>2, <2>3
<1>3. ASSUME NEW t, KeybdIrq1Interrupt(t)
      PROVE  Store /\ read' = read /\ keys < MaxKeys
  BY <1>3 DEF KeybdIrq1Interrupt
<1>4. CASE SetEvent
  BY <1>4 DEF SetEvent
<1> QED
  BY <1>1, <1>2, <1>3, <1>4 DEF Next

\* A function on 1 .. n is a sequence of n elements.
LEMMA FunctionIsSeq ==
  ASSUME NEW S, NEW n \in Nat, NEW f \in [1 .. n -> S]
  PROVE  f \in Seq(S) /\ Len(f) = n
<1>1. f \in Seq(S)
  BY SeqDef
<1>2. Len(f) \in Nat /\ 1 .. Len(f) = 1 .. n
  BY <1>1, LenProperties
<1>3. \A k \in Nat : k \in 1 .. n <=> k \in 1 .. Len(f)
  BY <1>2
<1>4. ~ (Len(f) < n) /\ ~ (n < Len(f))
  BY <1>2, <1>3
<1> QED
  BY <1>1, <1>2, <1>4

\* The types of the variables about the buffer.
BufferType ==
  /\ KeybdCyclicBuffer \in [Places -> 0 .. MaxKeys]
  /\ KeybdCurrentPos \in -1 .. KBD_BUFFER_SIZE - 1
  /\ keys \in 0 .. MaxKeys /\ read \in Seq(1 .. MaxKeys) /\ lost \subseteq 1 .. MaxKeys

\* A request is for no more symbols than fit.
Requests == \A t \in Threads : nBytesRequested[t] \in 0 .. KBD_BUFFER_SIZE

\* What a reader takes is symbols of the buffer.
LEMMA TakenType ==
  ASSUME BufferType, BufferInv, Requests, NEW t \in Threads, Enough(t)
  PROVE  /\ Taken(nBytesRequested[t]) \in Seq(1 .. MaxKeys)
         /\ Len(Taken(nBytesRequested[t])) = nBytesRequested[t]
         /\ DOMAIN Taken(nBytesRequested[t]) = 1 .. nBytesRequested[t]
         /\ \A i \in 1 .. nBytesRequested[t] :
               /\ KeybdCurrentPos - (i - 1) \in 0 .. KeybdCurrentPos
               /\ Taken(nBytesRequested[t])[i] = KeybdCyclicBuffer[KeybdCurrentPos - (i - 1)]
<1> DEFINE n == nBytesRequested[t]
<1>1. n \in Nat /\ KeybdCurrentPos >= n - 1 /\ KeybdCurrentPos \in Int
  BY KeyboardAssumption DEF Requests, Enough, BufferType
<1> HIDE DEF n
<1>2. \A i \in 1 .. n : KeybdCurrentPos - (i - 1) \in 0 .. KeybdCurrentPos
  BY <1>1
<1>3. keys \in 0 .. MaxKeys /\ MaxKeys \in Nat
  BY KeyboardAssumption DEF BufferType
<1>4. \A i \in 0 .. KeybdCurrentPos : KeybdCyclicBuffer[i] \in 1 .. MaxKeys
  BY <1>3 DEF BufferInv
<1>5. \A i \in 1 .. n : KeybdCyclicBuffer[KeybdCurrentPos - (i - 1)] \in 1 .. MaxKeys
  BY <1>2, <1>4
<1>6. Taken(n) \in [1 .. n -> 1 .. MaxKeys]
  <2> DEFINE symbol(i) == KeybdCyclicBuffer[KeybdCurrentPos - (i - 1)]
  <2>1. Taken(n) = [i \in 1 .. n |-> symbol(i)]
    BY DEF Taken
  <2>2. \A i \in 1 .. n : symbol(i) \in 1 .. MaxKeys
    BY <1>5
  <2> HIDE DEF symbol
  <2> QED
    BY <2>1, <2>2
<1>7. Taken(n) \in Seq(1 .. MaxKeys) /\ Len(Taken(n)) = n
  BY <1>1, <1>6, FunctionIsSeq
<1> QED
  BY <1>2, <1>6, <1>7 DEF Taken, n

\* The buffer keeps its types.
LEMMA BufferTypeStep ==
  ASSUME BufferType, BufferInv, Requests, [Next]_vars
  PROVE  BufferType'
<1>0. KBD_BUFFER_SIZE \in Nat \ {0} /\ MaxKeys \in Nat
  BY KeyboardAssumption
<1>1. CASE bufferVars' = bufferVars
  BY <1>1 DEF bufferVars, BufferType
<1>2. ASSUME NEW t \in Threads, Enough(t), KeybdSynchPerformRead(t),
             KeybdCyclicBuffer' = KeybdCyclicBuffer, keys' = keys, lost' = lost
      PROVE  BufferType'
  <2>1. read' \in Seq(1 .. MaxKeys)
    <3>1. read' = read \o Taken(nBytesRequested[t]) /\ read \in Seq(1 .. MaxKeys)
      BY <1>2 DEF KeybdSynchPerformRead, BufferType
    <3>2. Taken(nBytesRequested[t]) \in Seq(1 .. MaxKeys)
      BY <1>2, TakenType
    <3> QED
      BY <3>1, <3>2, SMT
  <2>2. KeybdCurrentPos' \in -1 .. KBD_BUFFER_SIZE - 1
    <3>1. KeybdCurrentPos' = KeybdCurrentPos - nBytesRequested[t]
      BY <1>2 DEF KeybdSynchPerformRead
    <3>2. nBytesRequested[t] \in Nat /\ KeybdCurrentPos >= nBytesRequested[t] - 1
      BY <1>0, <1>2 DEF Requests, Enough
    <3> QED
      BY <1>0, <3>1, <3>2 DEF BufferType
  <2> QED
    BY <1>2, <2>1, <2>2 DEF BufferType
<1>3. CASE Store /\ read' = read /\ keys < MaxKeys
  <2> DEFINE full == KeybdCurrentPos = KBD_BUFFER_SIZE - 1
             place == IF full THEN 0 ELSE KeybdCurrentPos + 1
  <2>1. place \in Places
    BY <1>0 DEF BufferType, Places
  <2>2. keys + 1 \in 0 .. MaxKeys
    BY <1>0, <1>3 DEF BufferType
  <2>3. KeybdCyclicBuffer' = [KeybdCyclicBuffer EXCEPT ![place] = keys + 1]
        /\ KeybdCurrentPos' = place /\ keys' = keys + 1
    BY <1>3 DEF Store
  <2>4. KeybdCyclicBuffer' \in [Places -> 0 .. MaxKeys]
    <3>1. KeybdCyclicBuffer \in [Places -> 0 .. MaxKeys]
      BY DEF BufferType
    <3> HIDE DEF place
    <3> QED
      BY <2>1, <2>2, <2>3, <3>1
  <2>5. lost' \subseteq 1 .. MaxKeys
    <3>1. CASE full
      <4>1. lost' = lost \cup {KeybdCyclicBuffer[i] : i \in Places}
        BY <1>3, <3>1 DEF Store
      <4>2. \A i \in Places : KeybdCyclicBuffer[i] \in 1 .. keys
        BY <3>1 DEF BufferInv, Places
      <4>3. 1 .. keys \subseteq 1 .. MaxKeys
        BY <1>0 DEF BufferType
      <4> QED
        BY <4>1, <4>2, <4>3 DEF BufferType
    <3>2. CASE ~full
      BY <1>3, <3>2 DEF Store, BufferType
    <3> QED
      BY <3>1, <3>2
  <2>6. KeybdCurrentPos' \in -1 .. KBD_BUFFER_SIZE - 1
    <3>1. KeybdCurrentPos' \in Places
      BY <2>1, <2>3
    <3> QED
      BY <1>0, <3>1 DEF Places
  <2> QED
    BY <1>3, <2>2, <2>3, <2>4, <2>5, <2>6 DEF BufferType
<1> QED
  BY <1>1, <1>2, <1>3, BufferSteps

\* After every step the buffer holds different symbols again.
LEMMA BufferStep ==
  ASSUME BufferType, BufferInv, Requests, [Next]_vars
  PROVE  BufferInv'
<1>0. KBD_BUFFER_SIZE \in Nat \ {0} /\ KeybdCurrentPos \in -1 .. KBD_BUFFER_SIZE - 1 /\ keys \in Nat
  BY KeyboardAssumption DEF BufferType
<1>1. CASE bufferVars' = bufferVars
  BY <1>1 DEF bufferVars, BufferInv
<1>2. ASSUME NEW t \in Threads, Enough(t), KeybdSynchPerformRead(t),
             KeybdCyclicBuffer' = KeybdCyclicBuffer, keys' = keys, lost' = lost
      PROVE  BufferInv'
  <2>1. KeybdCurrentPos' = KeybdCurrentPos - nBytesRequested[t]
    BY <1>2 DEF KeybdSynchPerformRead
  <2>2. nBytesRequested[t] \in Nat
    BY <1>0 DEF Requests
  <2>3. 0 .. KeybdCurrentPos' \subseteq 0 .. KeybdCurrentPos
    BY <1>0, <2>1, <2>2
  <2> QED
    BY <1>2, <2>3 DEF BufferInv
<1>3. CASE Store /\ read' = read /\ keys < MaxKeys
  <2> DEFINE full == KeybdCurrentPos = KBD_BUFFER_SIZE - 1
             place == IF full THEN 0 ELSE KeybdCurrentPos + 1
  <2>1. KeybdCyclicBuffer \in [Places -> 0 .. MaxKeys]
    BY DEF BufferType
  <2>2. KeybdCyclicBuffer' = [KeybdCyclicBuffer EXCEPT ![place] = keys + 1]
        /\ KeybdCurrentPos' = place /\ keys' = keys + 1
    BY <1>3 DEF Store
  <2>3. place \in Places
    BY <1>0 DEF Places
  <2>4. KeybdCyclicBuffer'[place] = keys + 1
        /\ \A i \in Places \ {place} : KeybdCyclicBuffer'[i] = KeybdCyclicBuffer[i]
    <3> HIDE DEF place
    <3> QED
      BY <2>1, <2>2, <2>3
  <2>5. (1 .. keys) \cup {keys + 1} = 1 .. keys' /\ keys + 1 \notin 1 .. keys
    BY <1>0, <2>2
  <2>6. CASE full
    <3>1. lost' = lost \cup {KeybdCyclicBuffer[i] : i \in Places}
      BY <1>3, <2>6 DEF Store
    <3>2. \A i \in Places : KeybdCyclicBuffer[i] \in 1 .. keys
      BY <2>6 DEF BufferInv, Places
    <3>3. lost' \subseteq 1 .. keys
      BY <3>1, <3>2 DEF BufferInv
    <3>4. 0 .. KeybdCurrentPos' = {place} /\ place = 0
      BY <2>2, <2>6
    <3> HIDE DEF place, full
    <3> QED
      BY <2>4, <2>5, <3>3, <3>4 DEF BufferInv
  <2>7. CASE ~full
    <3>1. lost' = lost
      BY <1>3, <2>7 DEF Store
    <3>2. place = KeybdCurrentPos + 1
      BY <2>7
    <3>3. 0 .. KeybdCurrentPos' = (0 .. KeybdCurrentPos) \cup {place}
          /\ 0 .. KeybdCurrentPos \subseteq Places \ {place}
      BY <1>0, <2>2, <2>3, <3>2 DEF Places
    <3> HIDE DEF place, full
    <3>4. /\ \A i \in 0 .. KeybdCurrentPos : KeybdCyclicBuffer'[i] = KeybdCyclicBuffer[i]
                                             /\ KeybdCyclicBuffer'[i] \in (1 .. keys) \ lost
          /\ KeybdCyclicBuffer'[place] = keys + 1
      BY <2>4, <3>3 DEF BufferInv
    <3>5. lost' \subseteq 1 .. keys'
      BY <2>5, <3>1 DEF BufferInv
    <3>6. \A i \in 0 .. KeybdCurrentPos' : KeybdCyclicBuffer'[i] \in (1 .. keys') \ lost'
      BY <2>5, <3>1, <3>3, <3>4 DEF BufferInv
    <3>7. \A i, j \in 0 .. KeybdCurrentPos' : KeybdCyclicBuffer'[i] = KeybdCyclicBuffer'[j] => i = j
      BY <2>5, <3>3, <3>4 DEF BufferInv
    <3> QED
      BY <3>5, <3>6, <3>7 DEF BufferInv
  <2> QED
    BY <2>6, <2>7
<1> QED
  BY <1>1, <1>2, <1>3, BufferSteps

-----------------------------------------------------------------------------
(* Types. *)

PcValues == {"idle", "lock", "held", "wait", "sleep", "relock", "reheld",
             "indicators", "command", "value"}

\* The types of the other variables.
ThreadType ==
  /\ KeybdCyclicBufferLock \in Threads \cup {Nobody}
  /\ sleepers \in Seq(Threads)
  /\ pc \in [Threads -> PcValues]
  /\ nBytesRequested \in [Threads -> Places \cup {KBD_BUFFER_SIZE}]
  /\ packet \in [Threads -> BOOLEAN]
  /\ irq \in Threads \cup {Nobody, "none"}
  /\ users \subseteq Threads /\ controls \in 0 .. MaxControls
FlagType ==
  /\ KeybdReadSynchEvent \in BOOLEAN
  /\ KeybdIndicators \in BOOLEAN /\ leds \in BOOLEAN /\ valueNext \in BOOLEAN
  /\ stopped \in BOOLEAN /\ crossed \in BOOLEAN

\* TypeOK in its three parts.
LEMMA TypeParts == TypeOK <=> BufferType /\ ThreadType /\ FlagType
BY Zenon DEF TypeOK, BufferType, ThreadType, FlagType, PcValues

\* The flags stay flags.
LEMMA FlagTypeStep ==
  ASSUME FlagType, ThreadType, [Next]_vars
  PROVE  FlagType'
<1>1. CASE UNCHANGED vars
  BY <1>1, Zenon DEF vars, eventVars, ledVars, FlagType
<1>2. ASSUME NEW t \in Threads, ThreadStep(t)
      PROVE  FlagType'
  <2>1. CASE \E n \in 1 .. KBD_BUFFER_SIZE : KeybdRead(t, n)
    BY <2>1, Zenon DEF KeybdRead, eventVars, ledVars, FlagType
  <2>2. CASE AcquireLock(t)
    BY <2>2, Zenon DEF AcquireLock, eventVars, ledVars, FlagType
  <2>3. CASE FirstLook(t)
    BY <2>3, Zenon DEF FirstLook, Serve, eventVars, ledVars, FlagType
  <2>4. CASE LookAgain(t)
    <3>1. eventVars' = eventVars /\ ledVars' = ledVars /\ (stopped' = stopped \/ stopped' = TRUE)
      BY <2>4, Zenon DEF LookAgain, Serve
    <3> QED
      BY <3>1, Zenon DEF eventVars, ledVars, FlagType
  <2>5. CASE Wait(t)
    BY <2>5, Zenon DEF Wait, ledVars, FlagType
  <2>6. ASSUME NEW value \in BOOLEAN, KeybdControl(t, value)
        PROVE  FlagType'
    <3>1. (crossed \/ Setting # {}) \in BOOLEAN
      OBVIOUS
    <3>2. KeybdIndicators' \in BOOLEAN /\ crossed' \in BOOLEAN
      BY <2>6, <3>1, Zenon DEF KeybdControl
    <3> QED
      BY <2>6, <3>2, Zenon DEF KeybdControl, eventVars, FlagType
  <2>7. CASE TakeIndicators(t)
    BY <2>7, Zenon DEF TakeIndicators, eventVars, FlagType
  <2>8. CASE SetLedsCommand(t)
    BY <2>8, Zenon DEF SetLedsCommand, eventVars, FlagType
  <2>9. CASE SetLedsValue(t)
    <3>1. packet[t] \in BOOLEAN
      BY DEF ThreadType
    <3>2. leds' \in BOOLEAN /\ valueNext' \in BOOLEAN
      BY <2>9, <3>1, Zenon DEF SetLedsValue, FlagType
    <3> QED
      BY <2>9, <3>2, Zenon DEF SetLedsValue, eventVars, FlagType
  <2> QED
    BY <1>2, <2>1, <2>2, <2>3, <2>4, <2>5, <2>6, <2>7, <2>8, <2>9 DEF ThreadStep
<1>3. ASSUME NEW t, KeybdIrq1Interrupt(t)
      PROVE  FlagType'
  <2>1. /\ KeybdReadSynchEvent' = KeybdReadSynchEvent /\ stopped' = stopped
        /\ LockKey \/ UNCHANGED <<KeybdIndicators, leds, valueNext, crossed>>
    BY <1>3, Zenon DEF KeybdIrq1Interrupt, eventVars
  <2>2. CASE LockKey
    <3>1. (~KeybdIndicators) \in BOOLEAN /\ (crossed \/ Setting # {}) \in BOOLEAN
      OBVIOUS
    <3>2. /\ KeybdIndicators' \in BOOLEAN /\ leds' \in BOOLEAN /\ valueNext' \in BOOLEAN
          /\ crossed' \in BOOLEAN
      BY <2>2, <3>1, Zenon DEF LockKey
    <3> QED
      BY <2>1, <3>2, Zenon DEF FlagType
  <2>3. CASE UNCHANGED <<KeybdIndicators, leds, valueNext, crossed>>
    BY <2>1, <2>3, Zenon DEF FlagType
  <2> QED
    BY <2>1, <2>2, <2>3
<1>4. CASE SetEvent
  BY <1>4, Zenon DEF SetEvent, ledVars, FlagType
<1> QED
  BY <1>1, <1>2, <1>3, <1>4 DEF Next

\* A thread that moves has one of the program's places.
LEMMA StepType ==
  ASSUME ThreadType, NEW t \in Threads, NEW from, NEW to \in PcValues, Step(t, from, to)
  PROVE  pc' \in [Threads -> PcValues]
BY DEF Step, ThreadType

\* What belongs to threads keeps its types.
LEMMA ThreadTypeStep ==
  ASSUME ThreadType, FlagType, [Next]_vars
  PROVE  ThreadType'
<1>0. /\ "idle" \in PcValues /\ "lock" \in PcValues /\ "held" \in PcValues /\ "wait" \in PcValues
      /\ "sleep" \in PcValues /\ "relock" \in PcValues /\ "reheld" \in PcValues
      /\ "indicators" \in PcValues /\ "command" \in PcValues /\ "value" \in PcValues
  BY DEF PcValues
<1>1. CASE UNCHANGED vars
  BY <1>1 DEF vars, eventVars, ledVars, ThreadType
<1>2. ASSUME NEW t \in Threads, ThreadStep(t)
      PROVE  ThreadType'
  <2>1. ASSUME NEW n \in 1 .. KBD_BUFFER_SIZE, KeybdRead(t, n)
        PROVE  ThreadType'
    <3>1. pc' \in [Threads -> PcValues]
      BY <1>0, <2>1, StepType DEF KeybdRead
    <3>2. n \in Places \cup {KBD_BUFFER_SIZE}
      BY KeyboardAssumption DEF Places
    <3>3. nBytesRequested' \in [Threads -> Places \cup {KBD_BUFFER_SIZE}]
      BY <2>1, <3>2 DEF KeybdRead, ThreadType
    <3> QED
      BY <2>1, <3>1, <3>3 DEF KeybdRead, eventVars, ledVars, ThreadType
  <2>2. CASE AcquireLock(t)
    <3>1. pc' \in [Threads -> PcValues]
      BY <1>0, <2>2, StepType DEF AcquireLock
    <3> QED
      BY <2>2, <3>1 DEF AcquireLock, eventVars, ledVars, ThreadType
  <2>3. ASSUME NEW from, Serve(t, from)
        PROVE  ThreadType'
    <3>1. pc' \in [Threads -> PcValues]
      BY <1>0, <2>3, StepType DEF Serve
    <3> QED
      BY <2>3, <3>1 DEF Serve, eventVars, ledVars, ThreadType
  <2>4. CASE LookAgain(t)
    <3>1. CASE Serve(t, "reheld")
      BY <2>3, <3>1
    <3>2. CASE ~Serve(t, "reheld")
      <4>1. pc' \in [Threads -> PcValues]
        BY <1>0, <2>4, <3>2, StepType DEF LookAgain
      <4> QED
        BY <2>4, <3>2, <4>1 DEF LookAgain, eventVars, ledVars, ThreadType
    <3> QED
      BY <3>1, <3>2
  <2>5. CASE Wait(t)
    <3>1. pc' \in [Threads -> PcValues]
      BY <1>0, <2>5, StepType DEF Wait
    <3>2. sleepers' \in Seq(Threads)
      BY <2>5, SMT DEF Wait, ThreadType
    <3> QED
      BY <2>5, <3>1, <3>2 DEF Wait, ledVars, ThreadType
  <2>6. ASSUME NEW value \in BOOLEAN, KeybdControl(t, value)
        PROVE  ThreadType'
    <3>1. pc' \in [Threads -> PcValues]
      BY <1>0, <2>6, StepType DEF KeybdControl
    <3>2. controls' \in 0 .. MaxControls
      BY <2>6, KeyboardAssumption DEF KeybdControl, ThreadType
    <3> QED
      BY <2>6, <3>1, <3>2 DEF KeybdControl, eventVars, ThreadType
  <2>7. CASE TakeIndicators(t)
    <3>1. pc' \in [Threads -> PcValues]
      BY <1>0, <2>7, StepType DEF TakeIndicators
    <3>2. packet' \in [Threads -> BOOLEAN]
      BY <2>7 DEF TakeIndicators, ThreadType, FlagType
    <3> QED
      BY <2>7, <3>1, <3>2 DEF TakeIndicators, eventVars, ThreadType
  <2>8. CASE SetLedsCommand(t)
    <3>1. pc' \in [Threads -> PcValues]
      BY <1>0, <2>8, StepType DEF SetLedsCommand
    <3> QED
      BY <2>8, <3>1 DEF SetLedsCommand, eventVars, ThreadType
  <2>9. CASE SetLedsValue(t)
    <3>1. pc' \in [Threads -> PcValues]
      BY <1>0, <2>9, StepType DEF SetLedsValue
    <3> QED
      BY <2>9, <3>1 DEF SetLedsValue, eventVars, ThreadType
  <2> QED
    BY <1>2, <2>1, <2>2, <2>3, <2>4, <2>5, <2>6, <2>7, <2>8, <2>9 DEF ThreadStep, FirstLook
<1>3. ASSUME NEW t \in Threads \cup {Nobody}, KeybdIrq1Interrupt(t)
      PROVE  ThreadType'
  BY <1>3 DEF KeybdIrq1Interrupt, eventVars, ThreadType
<1>4. CASE SetEvent
  <2>1. pc' \in [Threads -> PcValues]
    BY <1>0, <1>4 DEF SetEvent, ThreadType
  <2>2. sleepers' \in Seq(Threads)
    <3>1. CASE sleepers = << >>
      BY <1>4, <3>1 DEF SetEvent, ThreadType
    <3>2. CASE sleepers # << >>
      BY <1>4, <3>2, HeadTailProperties DEF SetEvent, ThreadType
    <3> QED
      BY <3>1, <3>2
  <2> QED
    BY <1>4, <2>1, <2>2 DEF SetEvent, ledVars, ThreadType
<1> QED
  BY <1>1, <1>2, <1>3, <1>4 DEF Next

\* Requests fit, by their type.
LEMMA RequestsFit ==
  ASSUME ThreadType
  PROVE  Requests
BY KeyboardAssumption DEF ThreadType, Requests, Places

\* Init, part by part.
LEMMA InitType ==
  ASSUME Init
  PROVE  BufferType /\ ThreadType /\ FlagType /\ BufferInv
<1>0. KBD_BUFFER_SIZE \in Nat \ {0} /\ MaxKeys \in Nat /\ MaxControls \in Nat
  BY KeyboardAssumption
<1>1. << >> \in Seq(1 .. MaxKeys) /\ << >> \in Seq(Threads)
  BY SMT
<1>2. KeybdCurrentPos \in -1 .. KBD_BUFFER_SIZE - 1
  BY <1>0 DEF Init
<1>3. BufferType
  BY <1>0, <1>1, <1>2 DEF Init, BufferType
<1>4. ThreadType
  BY <1>0, <1>1 DEF Init, ThreadType, PcValues, Places
<1>5. FlagType
  BY Zenon DEF Init, FlagType
<1>6. BufferInv
  BY DEF Init, BufferInv
<1> QED
  BY <1>3, <1>4, <1>5, <1>6

\* Every variable of the driver keeps its type.
THEOREM TypeCorrect == Spec => [](TypeOK /\ BufferInv)
<1> DEFINE Inv == BufferType /\ ThreadType /\ FlagType /\ BufferInv
<1>1. Init => Inv
  BY InitType
<1>2. Inv /\ [Next]_vars => Inv'
  BY BufferTypeStep, BufferStep, ThreadTypeStep, FlagTypeStep, RequestsFit
<1>3. Inv => TypeOK /\ BufferInv
  BY TypeParts
<1> QED
  BY <1>1, <1>2, <1>3, PTL DEF Spec

-----------------------------------------------------------------------------
(* Symbols are accounted for. *)

\* As many elements as there are indices, when all are different.
LEMMA ImageSize ==
  ASSUME NEW n \in Nat, NEW f, \A i, j \in 0 .. n - 1 : f[i] = f[j] => i = j
  PROVE  /\ IsFiniteSet({f[i] : i \in 0 .. n - 1})
         /\ Cardinality({f[i] : i \in 0 .. n - 1}) = n
<1> DEFINE S == 0 .. n - 1
           T == {f[i] : i \in S}
           g == [i \in S |-> f[i]]
<1>1. IsFiniteSet(S) /\ Cardinality(S) = n
  BY FS_Interval
<1>2. g \in Bijection(S, T)
  <2>1. g \in [S -> T] /\ \A i \in S : g[i] = f[i]
    OBVIOUS
  <2>2. \A i, j \in S : g[i] = g[j] => i = j
    BY <2>1
  <2>3. \A y \in T : \E i \in S : g[i] = y
    BY <2>1
  <2> HIDE DEF g, S, T
  <2> QED
    BY <2>1, <2>2, <2>3, Fun_IsBij
<1> HIDE DEF g, S, T
<1>3. IsFiniteSet(T) /\ Cardinality(T) = n
  BY <1>1, <1>2, FS_Bijection DEF ExistsBijection
<1> QED
  BY <1>3 DEF S, T

Accounts == SymbolsAreAccounted /\ IsFiniteSet(lost)

\* What a reader takes leaves the buffer, and nothing else does.
LEMMA ReadAccounts ==
  ASSUME BufferType, BufferInv, Requests, Accounts, NEW t \in Threads, Enough(t),
         KeybdSynchPerformRead(t), KeybdCyclicBuffer' = KeybdCyclicBuffer, keys' = keys, lost' = lost
  PROVE  Accounts'
<1> DEFINE n == nBytesRequested[t]
           taken == Taken(n)
<1>1. /\ n \in Nat /\ KeybdCurrentPos \in Int /\ KeybdCurrentPos >= n - 1
      /\ read \in Seq(1 .. MaxKeys) /\ taken \in Seq(1 .. MaxKeys) /\ Len(taken) = n
  BY KeyboardAssumption, TakenType DEF Requests, Enough, BufferType
<1>2. /\ \A i \in 1 .. n : KeybdCurrentPos - (i - 1) \in 0 .. KeybdCurrentPos
      /\ \A i \in 1 .. n : taken[i] = KeybdCyclicBuffer[KeybdCurrentPos - (i - 1)]
  BY TakenType
<1>3. read' = read \o taken /\ KeybdCurrentPos' = KeybdCurrentPos - n
  BY DEF KeybdSynchPerformRead
<1> HIDE DEF n, taken
<1>4. /\ Len(read') = Len(read) + n /\ Len(read) \in Nat
      /\ \A i \in 1 .. Len(read) + n : read'[i] = IF i <= Len(read) THEN read[i]
                                                  ELSE taken[i - Len(read)]
  BY <1>1, <1>3, ConcatProperties, LenProperties
<1>5. Got' = Got \cup {taken[i] : i \in 1 .. n}
  <2>1. Got' = {read'[i] : i \in 1 .. Len(read) + n}
    BY <1>4 DEF Got
  <2>2. ASSUME NEW x \in Got'
        PROVE  x \in Got \cup {taken[i] : i \in 1 .. n}
    <3>1. PICK i \in 1 .. Len(read) + n : x = read'[i]
      BY <2>1
    <3>2. CASE i <= Len(read)
      <4>1. i \in 1 .. Len(read) /\ x = read[i]
        BY <1>4, <3>1, <3>2
      <4> QED
        BY <4>1 DEF Got
    <3>3. CASE ~ (i <= Len(read))
      <4>1. i - Len(read) \in 1 .. n /\ x = taken[i - Len(read)]
        BY <1>1, <1>4, <3>1, <3>3
      <4> QED
        BY <4>1
    <3> QED
      BY <3>2, <3>3
  <2>3. ASSUME NEW x \in Got
        PROVE  x \in Got'
    <3>1. PICK i \in 1 .. Len(read) : x = read[i]
      BY DEF Got
    <3>2. i \in 1 .. Len(read) + n /\ read'[i] = x
      BY <1>1, <1>4, <3>1
    <3> QED
      BY <2>1, <3>2
  <2>4. ASSUME NEW i \in 1 .. n
        PROVE  taken[i] \in Got'
    <3>1. i + Len(read) \in 1 .. Len(read) + n /\ read'[i + Len(read)] = taken[i]
      BY <1>1, <1>4
    <3> QED
      BY <2>1, <3>1
  <2> QED
    BY <2>2, <2>3, <2>4
<1>6. Unread = Unread' \cup {taken[i] : i \in 1 .. n}
  <2>1. Unread' = {KeybdCyclicBuffer[i] : i \in 0 .. KeybdCurrentPos - n}
    BY <1>3 DEF Unread
  <2>2. 0 .. KeybdCurrentPos - n \subseteq 0 .. KeybdCurrentPos
    BY <1>1
  <2>3. Unread' \subseteq Unread
    BY <2>1, <2>2 DEF Unread
  <2>4. {taken[i] : i \in 1 .. n} \subseteq Unread
    BY <1>2 DEF Unread
  <2>5. ASSUME NEW x \in Unread
        PROVE  x \in Unread' \cup {taken[i] : i \in 1 .. n}
    <3>1. PICK i \in 0 .. KeybdCurrentPos : x = KeybdCyclicBuffer[i]
      BY DEF Unread
    <3>2. CASE i <= KeybdCurrentPos - n
      <4>1. i \in 0 .. KeybdCurrentPos - n
        BY <1>1, <3>2
      <4> QED
        BY <2>1, <3>1, <4>1
    <3>3. CASE ~ (i <= KeybdCurrentPos - n)
      <4> DEFINE k == KeybdCurrentPos - i + 1
      <4>1. k \in 1 .. n /\ KeybdCurrentPos - (k - 1) = i
        BY <1>1, <3>3
      <4> HIDE DEF k
      <4>2. taken[k] = x
        BY <1>2, <3>1, <4>1
      <4> QED
        BY <4>1, <4>2
    <3> QED
      BY <3>2, <3>3
  <2> QED
    BY <2>3, <2>4, <2>5
<1>7. Got' \cup Unread' \cup lost = Got \cup Unread \cup lost
  BY <1>5, <1>6
<1>8. Len(read') + KeybdCurrentPos' + 1 = Len(read) + KeybdCurrentPos + 1
  BY <1>1, <1>3, <1>4
<1> QED
  BY <1>7, <1>8 DEF Accounts, SymbolsAreAccounted

\* The handler adds one symbol, and a full buffer becomes one that was dropped.
LEMMA StoreAccounts ==
  ASSUME BufferType, BufferInv, Accounts, Store, read' = read
  PROVE  Accounts'
<1> DEFINE full == KeybdCurrentPos = KBD_BUFFER_SIZE - 1
           place == IF full THEN 0 ELSE KeybdCurrentPos + 1
<1>1. /\ KBD_BUFFER_SIZE \in Nat \ {0} /\ KeybdCurrentPos \in -1 .. KBD_BUFFER_SIZE - 1
      /\ keys \in Nat /\ Len(read) \in Nat
      /\ KeybdCyclicBuffer \in [Places -> 0 .. MaxKeys]
  BY KeyboardAssumption, LenProperties DEF BufferType
<1>2. /\ KeybdCyclicBuffer' = [KeybdCyclicBuffer EXCEPT ![place] = keys + 1]
      /\ KeybdCurrentPos' = place /\ keys' = keys + 1
  BY DEF Store
<1>3. place \in Places
  BY <1>1 DEF Places
<1>4. KeybdCyclicBuffer'[place] = keys + 1
      /\ \A i \in Places \ {place} : KeybdCyclicBuffer'[i] = KeybdCyclicBuffer[i]
  <2> HIDE DEF place
  <2> QED
    BY <1>1, <1>2, <1>3
<1>5. 1 .. keys' = (1 .. keys) \cup {keys + 1}
  BY <1>1, <1>2
<1>6. Got' = Got
  BY DEF Got
<1>7. /\ Got \cup Unread \cup lost = 1 .. keys
      /\ Len(read) + KeybdCurrentPos + 1 + Cardinality(lost) = keys
      /\ IsFiniteSet(lost) /\ Cardinality(lost) \in Nat
  BY FS_CardinalityType DEF Accounts, SymbolsAreAccounted
<1>8. CASE full
  <2> DEFINE dropped == {KeybdCyclicBuffer[i] : i \in 0 .. KBD_BUFFER_SIZE - 1}
  <2>1. lost' = lost \cup dropped
    BY <1>8 DEF Store, Places
  <2>2. dropped = Unread
    BY <1>8 DEF Unread
  <2>3. IsFiniteSet(dropped) /\ Cardinality(dropped) = KBD_BUFFER_SIZE
    <3>1. \A i, j \in 0 .. KBD_BUFFER_SIZE - 1 :
              KeybdCyclicBuffer[i] = KeybdCyclicBuffer[j] => i = j
      BY <1>8 DEF BufferInv
    <3> QED
      BY <1>1, <3>1, ImageSize
  <2>4. lost \cap dropped = {}
    BY <1>8 DEF BufferInv
  <2> HIDE DEF dropped
  <2>5. IsFiniteSet(lost') /\ Cardinality(lost') = Cardinality(lost) + KBD_BUFFER_SIZE
    <3>1. IsFiniteSet(lost \cup dropped)
          /\ Cardinality(lost \cup dropped)
              = Cardinality(lost) + Cardinality(dropped) - Cardinality(lost \cap dropped)
      BY <1>7, <2>3, FS_Union
    <3>2. Cardinality(lost \cap dropped) = 0
      BY <2>4, FS_EmptySet
    <3> QED
      BY <1>1, <1>7, <2>1, <2>3, <3>1, <3>2
  <2>6. Unread' = {keys + 1} /\ KeybdCurrentPos' = 0
    <3>1. KeybdCurrentPos' = 0 /\ place = 0
      BY <1>2, <1>8
    <3>2. 0 .. 0 = {0}
      OBVIOUS
    <3>3. Unread' = {KeybdCyclicBuffer'[i] : i \in {0}}
      BY <3>1, <3>2 DEF Unread
    <3> QED
      BY <1>4, <3>1, <3>3
  <2>7. Got' \cup Unread' \cup lost' = 1 .. keys'
    BY <1>5, <1>6, <1>7, <2>1, <2>2, <2>6
  <2>8. Len(read) + KBD_BUFFER_SIZE + Cardinality(lost) = keys
    BY <1>1, <1>7, <1>8
  <2>9. Len(read') + KeybdCurrentPos' + 1 + Cardinality(lost') = keys'
    <3> HIDE DEF place, full
    <3> QED
      BY <1>1, <1>2, <1>7, <2>5, <2>6, <2>8
  <2> QED
    BY <2>5, <2>7, <2>9 DEF Accounts, SymbolsAreAccounted
<1>9. CASE ~full
  <2>1. lost' = lost
    BY <1>9 DEF Store
  <2>2. place = KeybdCurrentPos + 1
    BY <1>9
  <2>3. 0 .. place = (0 .. KeybdCurrentPos) \cup {place}
        /\ 0 .. KeybdCurrentPos \subseteq Places \ {place}
    BY <1>1, <1>3, <2>2 DEF Places
  <2> HIDE DEF place, full
  <2>4. Unread' = Unread \cup {keys + 1}
    <3>1. Unread' = {KeybdCyclicBuffer'[i] : i \in (0 .. KeybdCurrentPos) \cup {place}}
      BY <1>2, <2>3 DEF Unread
    <3>2. {KeybdCyclicBuffer'[i] : i \in 0 .. KeybdCurrentPos} = Unread
      BY <1>4, <2>3 DEF Unread
    <3> QED
      BY <1>4, <3>1, <3>2
  <2>5. Got' \cup Unread' \cup lost' = 1 .. keys'
    BY <1>5, <1>6, <1>7, <2>1, <2>4
  <2>6. Len(read') + KeybdCurrentPos' + 1 + Cardinality(lost') = keys'
    BY <1>1, <1>2, <1>7, <2>1, <2>2
  <2> QED
    BY <1>7, <2>1, <2>5, <2>6 DEF Accounts, SymbolsAreAccounted
<1> QED
  BY <1>8, <1>9

\* A symbol that IRQ 1 brought is read once, is still in the buffer, or was dropped by a full
\* buffer, whatever the handler stores between the steps of KeybdRead.
THEOREM AccountsCorrect == Spec => []SymbolsAreAccounted
<1> DEFINE Inv == BufferType /\ ThreadType /\ FlagType /\ BufferInv /\ Accounts
<1>1. Init => Inv
  <2> SUFFICES ASSUME Init PROVE Accounts
    BY InitType
  <2>1. read = << >> /\ lost = {} /\ keys = 0 /\ KeybdCurrentPos = -1
    BY DEF Init
  <2>2. Got = {} /\ Unread = {} /\ 1 .. keys = {}
    <3>1. Len(<< >>) = 0
      BY EmptySeq
    <3>2. 1 .. 0 = {} /\ 0 .. -1 = {}
      OBVIOUS
    <3> QED
      BY <2>1, <3>1, <3>2 DEF Got, Unread
  <2>3. Len(read) = 0 /\ Cardinality(lost) = 0 /\ IsFiniteSet(lost)
    BY <2>1, EmptySeq, FS_EmptySet
  <2> QED
    BY <2>1, <2>2, <2>3 DEF Accounts, SymbolsAreAccounted
<1>2. Inv /\ [Next]_vars => Inv'
  <2> SUFFICES ASSUME Inv, [Next]_vars PROVE Accounts'
    BY BufferTypeStep, BufferStep, ThreadTypeStep, FlagTypeStep, RequestsFit
  <2>1. CASE bufferVars' = bufferVars
    BY <2>1 DEF bufferVars, Accounts, SymbolsAreAccounted, Got, Unread
  <2>2. CASE \E t \in Threads : /\ Enough(t) /\ KeybdSynchPerformRead(t)
                                /\ KeybdCyclicBuffer' = KeybdCyclicBuffer
                                /\ keys' = keys /\ lost' = lost
    BY <2>2, ReadAccounts, RequestsFit
  <2>3. CASE Store /\ read' = read /\ keys < MaxKeys
    BY <2>3, StoreAccounts
  <2> QED
    BY <2>1, <2>2, <2>3, BufferSteps
<1>3. Inv => SymbolsAreAccounted
  BY DEF Accounts
<1> QED
  BY <1>1, <1>2, <1>3, PTL DEF Spec

-----------------------------------------------------------------------------
(* A lone reader is woken. *)

\* Where a thread is that has no business with the buffer.
Away == {"idle", "indicators", "command", "value"}

\* The only reader sleeps alone, and only until the event is set; while it goes to sleep or
\* sleeps, a symbol that would serve it is one whose handler has yet to set the event.
AloneInv(t) ==
  /\ pc[t] = "sleep" => sleepers = <<t>> /\ ~KeybdReadSynchEvent
  /\ pc[t] # "sleep" => sleepers = << >>
  /\ pc[t] \in {"wait", "sleep"} /\ irq = "none" /\ ~KeybdReadSynchEvent => ~Enough(t)

WakeInv ==
  /\ \A i \in DOMAIN sleepers : sleepers[i] \in users
  /\ users = {} => sleepers = << >>
  /\ \A t \in Threads : users = {t} => AloneInv(t)
  /\ \A t \in Threads \ users : pc[t] \in Away

\* Where a step takes the thread that makes it; the others stay.
LEMMA StepMoves ==
  ASSUME ThreadType, NEW t \in Threads, NEW from, NEW to, Step(t, from, to)
  PROVE  pc[t] = from /\ pc'[t] = to /\ \A u \in Threads \ {t} : pc'[u] = pc[u]
BY DEF Step, ThreadType

\* The thread that begins to read is not asleep.
LEMMA ReadBeginsWake ==
  ASSUME ThreadType, WakeInv, NEW u \in Threads, NEW n \in 1 .. KBD_BUFFER_SIZE, KeybdRead(u, n)
  PROVE  WakeInv'
<1>1. /\ pc[u] = "idle" /\ pc'[u] = "lock" /\ \A t \in Threads \ {u} : pc'[t] = pc[t]
      /\ users' = users \cup {u} /\ sleepers' = sleepers
  BY StepMoves DEF KeybdRead, eventVars
<1>2. ASSUME NEW t \in Threads, users' = {t}
      PROVE  AloneInv(t)'
  <2>1. t = u /\ (users = {} \/ users = {t})
    BY <1>1, <1>2 DEF ThreadType
  <2>2. sleepers = << >>
    BY <1>1, <2>1 DEF WakeInv, AloneInv
  <2> QED
    BY <1>1, <2>1, <2>2 DEF AloneInv
<1> QED
  BY <1>1, <1>2 DEF WakeInv

\* A thread that sets the indicators leaves readers, event and buffer alone.
LEMMA AwayStepWake ==
  ASSUME ThreadType, WakeInv, NEW u \in Threads,
         \/ \E value \in BOOLEAN : KeybdControl(u, value)
         \/ TakeIndicators(u) \/ SetLedsCommand(u) \/ SetLedsValue(u)
  PROVE  WakeInv'
<1>1. /\ pc[u] \in Away /\ pc'[u] \in Away /\ \A t \in Threads \ {u} : pc'[t] = pc[t]
      /\ bufferVars' = bufferVars /\ eventVars' = eventVars /\ irq' = irq /\ users' = users
      /\ nBytesRequested' = nBytesRequested
  BY StepMoves DEF KeybdControl, TakeIndicators, SetLedsCommand, SetLedsValue, Away
<1>2. /\ sleepers' = sleepers /\ KeybdReadSynchEvent' = KeybdReadSynchEvent
      /\ KeybdCurrentPos' = KeybdCurrentPos
  BY <1>1 DEF eventVars, bufferVars
<1>3. ASSUME NEW t \in Threads, users' = {t}
      PROVE  AloneInv(t)'
  <2>1. AloneInv(t)
    BY <1>1, <1>3 DEF WakeInv
  <2>2. CASE t = u
    BY <1>1, <1>2, <2>1, <2>2 DEF AloneInv, Away
  <2>3. CASE t # u
    BY <1>1, <1>2, <2>1, <2>3 DEF AloneInv, Enough
  <2> QED
    BY <2>2, <2>3
<1> QED
  BY <1>1, <1>2, <1>3 DEF WakeInv


\* What the steps of a reader have in common, and when it sleeps.
ReaderMoves(u) ==
  /\ pc[u] \in {"lock", "relock", "held", "reheld", "wait"}
  /\ \A t \in Threads \ {u} : pc'[t] = pc[t]
  /\ irq' = irq /\ users' = users /\ nBytesRequested' = nBytesRequested
  /\ KeybdReadSynchEvent' = KeybdReadSynchEvent
  /\ \/ pc'[u] \in {"held", "reheld", "idle", "relock"} /\ sleepers' = sleepers
     \/ /\ pc'[u] = "wait" /\ sleepers' = sleepers
        /\ KeybdCurrentPos' = KeybdCurrentPos /\ ~Enough(u)
     \/ /\ pc[u] = "wait" /\ pc'[u] = "sleep" /\ sleepers' = Append(sleepers, u)
        /\ KeybdCurrentPos' = KeybdCurrentPos /\ ~KeybdReadSynchEvent

LEMMA ReaderStepMoves ==
  ASSUME ThreadType, NEW u \in Threads,
         AcquireLock(u) \/ FirstLook(u) \/ LookAgain(u) \/ Wait(u)
  PROVE  ReaderMoves(u)
<1>1. CASE AcquireLock(u)
  BY <1>1, StepMoves DEF AcquireLock, eventVars, ReaderMoves
<1>2. ASSUME NEW from \in {"held", "reheld"}, Serve(u, from)
      PROVE  ReaderMoves(u)
  BY <1>2, StepMoves DEF Serve, eventVars, ReaderMoves
<1>3. CASE LookAgain(u) /\ ~Serve(u, "reheld")
  <2>1. Step(u, "reheld", "reheld") /\ eventVars' = eventVars /\ irq' = irq /\ users' = users
        /\ nBytesRequested' = nBytesRequested
    BY <1>3 DEF LookAgain
  <2> QED
    BY <2>1, StepMoves DEF eventVars, ReaderMoves
<1>4. CASE Wait(u)
  <2>1. /\ irq' = irq /\ users' = users /\ nBytesRequested' = nBytesRequested
        /\ KeybdReadSynchEvent' = KeybdReadSynchEvent /\ KeybdCurrentPos' = KeybdCurrentPos
    BY <1>4 DEF Wait, bufferVars
  <2>2. CASE KeybdReadSynchEvent /\ Step(u, "wait", "relock") /\ sleepers' = sleepers
    BY <2>1, <2>2, StepMoves DEF ReaderMoves
  <2>3. CASE ~KeybdReadSynchEvent /\ Step(u, "wait", "sleep") /\ sleepers' = Append(sleepers, u)
    BY <2>1, <2>3, StepMoves DEF ReaderMoves
  <2> QED
    BY <1>4, <2>2, <2>3 DEF Wait
<1> QED
  BY <1>1, <1>2, <1>3, <1>4 DEF FirstLook, LookAgain

\* A reader that looks, waits or locks is one of the users.
LEMMA ReaderStepWake ==
  ASSUME ThreadType, WakeInv, NEW u \in Threads, ReaderMoves(u)
  PROVE  WakeInv'
<1>1. u \in users
  BY DEF ReaderMoves, WakeInv, Away
<1>2. sleepers \in Seq(Threads)
  BY DEF ThreadType
<1>3. \A i \in DOMAIN sleepers' : sleepers'[i] \in users'
  <2>1. CASE sleepers' = sleepers
    BY <2>1 DEF WakeInv, ReaderMoves
  <2>2. CASE sleepers' = Append(sleepers, u)
    <3>1. DOMAIN sleepers' = 1 .. Len(sleepers) + 1 /\ DOMAIN sleepers = 1 .. Len(sleepers)
          /\ sleepers'[Len(sleepers) + 1] = u
          /\ \A i \in 1 .. Len(sleepers) : sleepers'[i] = sleepers[i]
      BY <1>2, <2>2, SMT
    <3>2. Len(sleepers) \in Nat
      BY <1>2, LenProperties
    <3>3. users' = users
      BY DEF ReaderMoves
    <3> QED
      BY <1>1, <3>1, <3>2, <3>3 DEF WakeInv
  <2> QED
    BY <2>1, <2>2 DEF ReaderMoves
<1>4. ASSUME NEW t \in Threads, users' = {t}
      PROVE  AloneInv(t)'
  <2>1. t = u /\ users = {t} /\ AloneInv(t)
    BY <1>1, <1>4 DEF ReaderMoves, WakeInv
  <2>2. sleepers = << >>
    BY <2>1 DEF ReaderMoves, AloneInv
  <2>3. CASE pc'[u] \in {"held", "reheld", "idle", "relock"} /\ sleepers' = sleepers
    BY <2>1, <2>2, <2>3 DEF AloneInv
  <2>4. CASE /\ pc'[u] = "wait" /\ sleepers' = sleepers
             /\ KeybdCurrentPos' = KeybdCurrentPos /\ ~Enough(u)
    BY <2>1, <2>2, <2>4 DEF AloneInv, Enough, ReaderMoves
  <2>5. CASE /\ pc[u] = "wait" /\ pc'[u] = "sleep" /\ sleepers' = Append(sleepers, u)
             /\ KeybdCurrentPos' = KeybdCurrentPos /\ ~KeybdReadSynchEvent
    <3>1. sleepers' = <<t>>
      BY <2>1, <2>2, <2>5, SMT
    <3>2. irq' = "none" => ~Enough(t)'
      BY <2>1, <2>5 DEF AloneInv, Enough, ReaderMoves
    <3> QED
      BY <2>1, <2>5, <3>1, <3>2 DEF AloneInv, ReaderMoves
  <2> QED
    BY <2>3, <2>4, <2>5 DEF ReaderMoves
<1>5. \A t \in Threads \ users' : pc'[t] \in Away
  BY <1>1 DEF ReaderMoves, WakeInv
<1> QED
  BY <1>1, <1>3, <1>4, <1>5 DEF WakeInv, ReaderMoves

\* The event releases the reader that sleeps alone.
LEMMA SetEventWake ==
  ASSUME ThreadType, WakeInv, SetEvent
  PROVE  WakeInv'
<1>1. users' = users /\ irq' = "none" /\ KeybdReadSynchEvent' = TRUE /\ sleepers \in Seq(Threads)
      /\ pc \in [Threads -> PcValues]
  BY DEF SetEvent, ThreadType
<1>2. CASE sleepers = << >>
  <2>1. sleepers' = sleepers /\ pc' = pc
    BY <1>2 DEF SetEvent
  <2>2. ASSUME NEW t \in Threads, users' = {t}
        PROVE  AloneInv(t)'
    <3>1. AloneInv(t)
      BY <1>1, <2>2 DEF WakeInv
    <3>2. pc[t] # "sleep"
      <4>1. <<t>> # << >>
        BY SMT
      <4> QED
        BY <1>2, <3>1, <4>1 DEF AloneInv
    <3> QED
      BY <1>1, <1>2, <2>1, <3>2 DEF AloneInv
  <2> QED
    BY <1>1, <2>1, <2>2 DEF WakeInv
<1>3. CASE sleepers # << >>
  <2>1. pc' = [pc EXCEPT ![Head(sleepers)] = "relock"] /\ sleepers' = Tail(sleepers)
    BY <1>3 DEF SetEvent
  <2>2. /\ Len(sleepers) \in Nat \ {0} /\ DOMAIN sleepers = 1 .. Len(sleepers)
        /\ Head(sleepers) = sleepers[1]
        /\ DOMAIN sleepers' = 1 .. Len(sleepers) - 1
        /\ \A i \in 1 .. Len(sleepers) - 1 : sleepers'[i] = sleepers[i + 1]
    BY <1>1, <1>3, <2>1, SMT
  <2>3. Head(sleepers) \in users
    BY <2>2 DEF WakeInv
  <2>4. \A i \in DOMAIN sleepers' : sleepers'[i] \in users'
    BY <1>1, <2>2 DEF WakeInv
  <2>5. ASSUME NEW t \in Threads, users' = {t}
        PROVE  AloneInv(t)'
    <3>1. AloneInv(t) /\ Head(sleepers) = t
      BY <1>1, <2>3, <2>5 DEF WakeInv
    <3>2. sleepers = <<t>>
      BY <1>3, <3>1 DEF AloneInv
    <3>3. sleepers' = << >>
      BY <2>1, <3>2, SMT
    <3>4. pc'[t] = "relock"
      BY <1>1, <2>1, <3>1
    <3> QED
      BY <3>3, <3>4 DEF AloneInv
  <2>6. users' # {}
    BY <1>1, <2>3
  <2>7. \A t \in Threads \ users' : pc'[t] \in Away
    <3>1. \A t \in Threads \ users : pc'[t] = pc[t]
      BY <1>1, <2>1, <2>3
    <3> QED
      BY <1>1, <3>1 DEF WakeInv
  <2> QED
    BY <2>4, <2>5, <2>6, <2>7 DEF WakeInv
<1> QED
  BY <1>2, <1>3

\* The handler stores, and has the event to set.
LEMMA InterruptWake ==
  ASSUME WakeInv, NEW t \in Threads \cup {Nobody}, KeybdIrq1Interrupt(t)
  PROVE  WakeInv'
<1>1. /\ irq' # "none" /\ users' = users /\ sleepers' = sleepers /\ pc' = pc
      /\ KeybdReadSynchEvent' = KeybdReadSynchEvent
  BY KeyboardAssumption DEF KeybdIrq1Interrupt, eventVars
<1> QED
  BY <1>1 DEF WakeInv, AloneInv

\* No step lets the only reader sleep on what it asked for.
LEMMA WakeStep ==
  ASSUME ThreadType, WakeInv, [Next]_vars
  PROVE  WakeInv'
<1>1. CASE UNCHANGED vars
  BY <1>1 DEF vars, bufferVars, eventVars, WakeInv, AloneInv, Enough
<1>2. ASSUME NEW t \in Threads, ThreadStep(t)
      PROVE  WakeInv'
  <2>1. CASE \E n \in 1 .. KBD_BUFFER_SIZE : KeybdRead(t, n)
    BY <2>1, ReadBeginsWake
  <2>2. CASE AcquireLock(t) \/ FirstLook(t) \/ LookAgain(t) \/ Wait(t)
    BY <2>2, ReaderStepMoves, ReaderStepWake
  <2>3. CASE \/ \E value \in BOOLEAN : KeybdControl(t, value)
             \/ TakeIndicators(t) \/ SetLedsCommand(t) \/ SetLedsValue(t)
    BY <2>3, AwayStepWake
  <2> QED
    BY <1>2, <2>1, <2>2, <2>3 DEF ThreadStep
<1> QED
  BY <1>1, <1>2, InterruptWake, SetEventWake DEF Next

\* A lone reader does not sleep when the buffer has what it asked for, unless the handler
\* that stored it is about to set the event: between the look at the buffer and
\* KeWaitForSingleObject, where the lock is not held, no symbol is missed.
THEOREM WokenCorrect == Spec => []ReaderIsWoken
<1> DEFINE Inv == BufferType /\ ThreadType /\ FlagType /\ BufferInv /\ WakeInv
<1>1. Init => Inv
  <2> SUFFICES ASSUME Init PROVE WakeInv
    BY InitType
  <2>1. sleepers = << >> /\ users = {} /\ \A t \in Threads : pc[t] = "idle"
    BY DEF Init
  <2>2. \A i \in DOMAIN sleepers : sleepers[i] \in users
    BY <2>1
  <2> QED
    BY <2>1, <2>2 DEF WakeInv, Away
<1>2. Inv /\ [Next]_vars => Inv'
  BY BufferTypeStep, BufferStep, ThreadTypeStep, FlagTypeStep, RequestsFit, WakeStep
<1>3. Inv => ReaderIsWoken
  <2> SUFFICES ASSUME WakeInv, NEW t \in Threads, users = {t}, pc[t] = "sleep", irq = "none"
               PROVE  ~Enough(t)
    BY DEF ReaderIsWoken
  <2> QED
    BY DEF WakeInv, AloneInv
<1> QED
  BY <1>1, <1>2, <1>3, PTL DEF Spec

-----------------------------------------------------------------------------
(* The indicators are shown. *)

\* Unless two of them met, a thread in KeybdSetIndicators is alone, has the indicators in its
\* packet once it has put it together, and the keyboard waits for what it is to write.
LedInv == ~crossed =>
  /\ \A t, u \in Setting : t = u
  /\ Setting = {} => leds = KeybdIndicators
  /\ \A t \in Threads : pc[t] \in {"command", "value"} => packet[t] = KeybdIndicators
  /\ \A t \in Threads : pc[t] = "value" => valueNext

\* Steps that leave the indicators and who sets them alone.
LEMMA LedKept ==
  ASSUME LedInv, ledVars' = ledVars,
         \A t \in Threads : \/ pc'[t] = pc[t]
                            \/ {pc[t], pc'[t]} \cap {"indicators", "command", "value"} = {}
  PROVE  LedInv'
<1>1. Setting' = Setting
  BY DEF Setting
<1>2. \A t \in Threads : pc'[t] \in {"command", "value"} => pc'[t] = pc[t]
  OBVIOUS
<1> QED
  BY <1>1, <1>2 DEF LedInv, ledVars

\* A step of KeybdSetIndicators.
LEMMA SettingStepLed ==
  ASSUME ThreadType, LedInv, NEW t \in Threads,
         \/ \E value \in BOOLEAN : KeybdControl(t, value)
         \/ TakeIndicators(t) \/ SetLedsCommand(t) \/ SetLedsValue(t)
  PROVE  LedInv'
<1> SUFFICES ASSUME ~crossed'
             PROVE  LedInv'
  BY DEF LedInv
<1>0. packet \in [Threads -> BOOLEAN]
  BY DEF ThreadType
<1>1. ASSUME NEW value \in BOOLEAN, KeybdControl(t, value)
      PROVE  LedInv'
  <2>1. Setting = {}
    BY <1>1, Zenon DEF KeybdControl
  <2>2. /\ pc'[t] = "indicators" /\ \A u \in Threads \ {t} : pc'[u] = pc[u]
    BY <1>1, StepMoves DEF KeybdControl
  <2>3. \A u \in Threads \ {t} : pc'[u] \notin {"indicators", "command", "value"}
    BY <2>1, <2>2 DEF Setting
  <2>4. Setting' = {t}
    BY <2>2, <2>3 DEF Setting
  <2> QED
    BY <2>2, <2>3, <2>4 DEF LedInv
<1>2. ASSUME pc[t] \in {"indicators", "command", "value"}, crossed' = crossed,
             \A u \in Threads \ {t} : pc'[u] = pc[u]
      PROVE  /\ Setting = {t}
             /\ \A u \in Threads \ {t} : pc'[u] \notin {"indicators", "command", "value"}
  <2>1. \A u \in Setting : u = t
    BY <1>2 DEF LedInv, Setting
  <2> QED
    BY <1>2, <2>1 DEF Setting
<1>3. CASE TakeIndicators(t)
  <2>1. /\ pc[t] = "indicators" /\ pc'[t] = "command" /\ \A u \in Threads \ {t} : pc'[u] = pc[u]
        /\ crossed' = crossed /\ packet' = [packet EXCEPT ![t] = KeybdIndicators]
        /\ KeybdIndicators' = KeybdIndicators
    BY <1>3, StepMoves DEF TakeIndicators
  <2>2. packet'[t] = KeybdIndicators'
    BY <1>0, <2>1
  <2>3. Setting' = {t} /\ \A u \in Threads \ {t} : pc'[u] \notin {"indicators", "command", "value"}
    BY <1>2, <2>1 DEF Setting
  <2> QED
    BY <2>1, <2>2, <2>3 DEF LedInv
<1>4. CASE SetLedsCommand(t)
  <2>1. /\ pc[t] = "command" /\ pc'[t] = "value" /\ \A u \in Threads \ {t} : pc'[u] = pc[u]
        /\ crossed' = crossed /\ packet' = packet /\ KeybdIndicators' = KeybdIndicators
        /\ valueNext' = TRUE
    BY <1>4, StepMoves DEF SetLedsCommand
  <2>2. packet'[t] = KeybdIndicators'
    BY <2>1 DEF LedInv
  <2>3. Setting' = {t} /\ \A u \in Threads \ {t} : pc'[u] \notin {"indicators", "command", "value"}
    BY <1>2, <2>1 DEF Setting
  <2> QED
    BY <2>1, <2>2, <2>3 DEF LedInv
<1>5. CASE SetLedsValue(t)
  <2>1. /\ pc[t] = "value" /\ pc'[t] = "idle" /\ \A u \in Threads \ {t} : pc'[u] = pc[u]
        /\ crossed' = crossed /\ KeybdIndicators' = KeybdIndicators
        /\ leds' = IF valueNext THEN packet[t] ELSE leds
    BY <1>5, StepMoves DEF SetLedsValue
  <2>2. valueNext /\ packet[t] = KeybdIndicators
    BY <2>1 DEF LedInv
  <2>3. leds' = KeybdIndicators'
    BY <2>1, <2>2
  <2>4. \A u \in Threads : pc'[u] \notin {"indicators", "command", "value"}
    BY <1>2, <2>1
  <2>5. Setting' = {}
    BY <2>4 DEF Setting
  <2> QED
    BY <2>3, <2>4, <2>5 DEF LedInv
<1> QED
  BY <1>1, <1>3, <1>4, <1>5

\* A lock key, while nobody sets the indicators.
LEMMA InterruptLed ==
  ASSUME LedInv, NEW t, KeybdIrq1Interrupt(t)
  PROVE  LedInv'
<1> SUFFICES ASSUME ~crossed'
             PROVE  LedInv'
  BY DEF LedInv
<1>1. pc' = pc /\ packet' = packet
  BY DEF KeybdIrq1Interrupt
<1>2. CASE LockKey
  <2>1. Setting = {} /\ leds' = KeybdIndicators'
    BY <1>2, Zenon DEF LockKey
  <2>2. \A u \in Threads : pc'[u] \notin {"indicators", "command", "value"}
    BY <1>1, <2>1 DEF Setting
  <2>3. Setting' = {}
    BY <2>2 DEF Setting
  <2> QED
    BY <2>1, <2>2, <2>3 DEF LedInv
<1>3. CASE UNCHANGED <<KeybdIndicators, leds, valueNext, crossed>>
  BY <1>1, <1>3 DEF LedInv, Setting
<1> QED
  BY <1>2, <1>3 DEF KeybdIrq1Interrupt

\* No step lets leds and indicators part; those whom the event releases set none.
LEMMA LedStep ==
  ASSUME ThreadType, LedInv, [Next]_vars,
         \A i \in DOMAIN sleepers : pc[sleepers[i]] = "sleep"
  PROVE  LedInv'
<1>1. CASE UNCHANGED vars
  BY <1>1, LedKept DEF vars
<1>2. ASSUME NEW t \in Threads, ThreadStep(t)
      PROVE  LedInv'
  <2>1. ASSUME NEW n, KeybdRead(t, n)
        PROVE  LedInv'
    <3>1. pc[t] = "idle" /\ pc'[t] = "lock" /\ \A u \in Threads \ {t} : pc'[u] = pc[u]
      BY <2>1, StepMoves DEF KeybdRead
    <3> QED
      BY <2>1, <3>1, LedKept DEF KeybdRead
  <2>2. CASE AcquireLock(t) \/ FirstLook(t) \/ LookAgain(t) \/ Wait(t)
    <3>1. ReaderMoves(t)
      BY <2>2, ReaderStepMoves
    <3>2. ledVars' = ledVars
      BY <2>2 DEF AcquireLock, FirstLook, LookAgain, Wait, Serve
    <3>3. \A u \in Threads : \/ pc'[u] = pc[u]
                             \/ {pc[u], pc'[u]} \cap {"indicators", "command", "value"} = {}
      BY <3>1 DEF ReaderMoves
    <3> QED
      BY <3>2, <3>3, LedKept
  <2>3. CASE \/ \E value \in BOOLEAN : KeybdControl(t, value)
             \/ TakeIndicators(t) \/ SetLedsCommand(t) \/ SetLedsValue(t)
    BY <2>3, SettingStepLed
  <2> QED
    BY <1>2, <2>1, <2>2, <2>3 DEF ThreadStep
<1>3. CASE SetEvent
  <2>1. ledVars' = ledVars
    BY <1>3 DEF SetEvent
  <2>2. CASE pc' = pc
    BY <2>1, <2>2, LedKept
  <2>3. CASE sleepers # << >> /\ pc' = [pc EXCEPT ![Head(sleepers)] = "relock"]
    <3>1. sleepers \in Seq(Threads) /\ pc \in [Threads -> PcValues]
      BY DEF ThreadType
    <3>2. Head(sleepers) = sleepers[1] /\ 1 \in DOMAIN sleepers
      BY <2>3, <3>1, SMT
    <3>3. pc[Head(sleepers)] = "sleep"
      BY <3>2
    <3>4. \A u \in Threads : IF u = Head(sleepers) THEN pc'[u] = "relock" ELSE pc'[u] = pc[u]
      BY <2>3, <3>1
    <3> QED
      BY <2>1, <3>3, <3>4, LedKept
  <2> QED
    BY <1>3, <2>2, <2>3 DEF SetEvent
<1> QED
  BY <1>1, <1>2, <1>3, InterruptLed DEF Next

\* The wait list holds threads that sleep, each once.
SleepInv ==
  /\ \A i \in DOMAIN sleepers : pc[sleepers[i]] = "sleep"
  /\ \A i, j \in DOMAIN sleepers : sleepers[i] = sleepers[j] => i = j

\* A thread that is awake moves, and is not in the list then.
LEMMA SleepKept ==
  ASSUME ThreadType, SleepInv, sleepers' = sleepers, NEW t \in Threads, pc[t] # "sleep",
         \A u \in Threads \ {t} : pc'[u] = pc[u]
  PROVE  SleepInv'
<1>1. \A i \in DOMAIN sleepers : sleepers[i] \in Threads
  BY ElementOfSeq, LenProperties DEF ThreadType
<1> QED
  BY <1>1 DEF SleepInv

\* Who sleeps is in the list, and who is released is not.
LEMMA SleepStep ==
  ASSUME ThreadType, SleepInv, [Next]_vars
  PROVE  SleepInv'
<1>0. sleepers \in Seq(Threads) /\ pc \in [Threads -> PcValues]
  BY DEF ThreadType
<1>1. CASE UNCHANGED vars
  BY <1>1 DEF vars, eventVars, SleepInv
<1>2. ASSUME NEW t \in Threads, ThreadStep(t)
      PROVE  SleepInv'
  <2>1. ASSUME NEW n, KeybdRead(t, n)
        PROVE  SleepInv'
    <3>1. pc[t] = "idle" /\ \A u \in Threads \ {t} : pc'[u] = pc[u]
      BY <2>1, StepMoves DEF KeybdRead
    <3> QED
      BY <2>1, <3>1, SleepKept DEF KeybdRead, eventVars
  <2>2. CASE AcquireLock(t) \/ FirstLook(t) \/ LookAgain(t) \/ Wait(t)
    <3>1. ReaderMoves(t)
      BY <2>2, ReaderStepMoves
    <3>2. CASE sleepers' = sleepers
      BY <3>1, <3>2, SleepKept DEF ReaderMoves
    <3>3. CASE pc[t] = "wait" /\ pc'[t] = "sleep" /\ sleepers' = Append(sleepers, t)
      <4>1. /\ DOMAIN sleepers' = (DOMAIN sleepers) \cup {Len(sleepers) + 1}
            /\ Len(sleepers) + 1 \notin DOMAIN sleepers
            /\ sleepers'[Len(sleepers) + 1] = t
            /\ \A i \in DOMAIN sleepers : sleepers'[i] = sleepers[i] /\ sleepers[i] \in Threads
        BY <1>0, <3>3, SMT
      <4>2. \A i \in DOMAIN sleepers : sleepers[i] # t
        BY <3>3 DEF SleepInv
      <4>3. \A i \in DOMAIN sleepers' : pc'[sleepers'[i]] = "sleep"
        BY <3>1, <3>3, <4>1, <4>2 DEF SleepInv, ReaderMoves
      <4>4. \A i, j \in DOMAIN sleepers' : sleepers'[i] = sleepers'[j] => i = j
        BY <4>1, <4>2 DEF SleepInv
      <4> QED
        BY <4>3, <4>4 DEF SleepInv
    <3> QED
      BY <3>1, <3>2, <3>3 DEF ReaderMoves
  <2>3. CASE \/ \E value \in BOOLEAN : KeybdControl(t, value)
             \/ TakeIndicators(t) \/ SetLedsCommand(t) \/ SetLedsValue(t)
    <3>1. /\ pc[t] # "sleep" /\ \A u \in Threads \ {t} : pc'[u] = pc[u]
          /\ sleepers' = sleepers
      BY <2>3, StepMoves DEF KeybdControl, TakeIndicators, SetLedsCommand, SetLedsValue, eventVars
    <3> QED
      BY <3>1, SleepKept
  <2> QED
    BY <1>2, <2>1, <2>2, <2>3 DEF ThreadStep
<1>3. CASE SetEvent
  <2>1. CASE UNCHANGED <<sleepers, pc>>
    BY <2>1 DEF SleepInv
  <2>2. CASE /\ sleepers # << >> /\ pc' = [pc EXCEPT ![Head(sleepers)] = "relock"]
             /\ sleepers' = Tail(sleepers)
    <3>1. /\ Head(sleepers) = sleepers[1] /\ 1 \in DOMAIN sleepers
          /\ \A i \in DOMAIN sleepers' : /\ i + 1 \in DOMAIN sleepers /\ i + 1 # 1
                                         /\ sleepers'[i] = sleepers[i + 1]
                                         /\ sleepers[i + 1] \in Threads /\ i \in Int
      BY <1>0, <2>2, SMT
    <3>2. \A i \in DOMAIN sleepers' : sleepers'[i] # Head(sleepers)
      BY <3>1 DEF SleepInv
    <3>3. \A i \in DOMAIN sleepers' : pc'[sleepers'[i]] = pc[sleepers'[i]]
      BY <1>0, <2>2, <3>1, <3>2
    <3>4. \A i \in DOMAIN sleepers' : pc'[sleepers'[i]] = "sleep"
      BY <3>1, <3>3 DEF SleepInv
    <3>5. \A i, j \in DOMAIN sleepers' : sleepers'[i] = sleepers'[j] => i = j
      <4> SUFFICES ASSUME NEW i \in DOMAIN sleepers', NEW j \in DOMAIN sleepers',
                          sleepers'[i] = sleepers'[j]
                   PROVE  i = j
        OBVIOUS
      <4>1. i + 1 = j + 1
        BY <3>1 DEF SleepInv
      <4> QED
        BY <3>1, <4>1
    <3> QED
      BY <3>4, <3>5 DEF SleepInv
  <2> QED
    BY <1>3, <2>1, <2>2 DEF SetEvent
<1>4. ASSUME NEW t, KeybdIrq1Interrupt(t)
      PROVE  SleepInv'
  BY <1>4 DEF KeybdIrq1Interrupt, eventVars, SleepInv
<1> QED
  BY <1>1, <1>2, <1>3, <1>4 DEF Next

\* The keyboard shows the indicators whenever nobody is in KeybdSetIndicators, unless an IOCTL
\* or a lock key came while somebody was.
THEOREM LedsCorrect == Spec => []LedsShowIndicators
<1> DEFINE Inv == BufferType /\ ThreadType /\ FlagType /\ BufferInv /\ SleepInv /\ LedInv
<1>1. Init => Inv
  <2> SUFFICES ASSUME Init PROVE SleepInv /\ LedInv
    BY InitType
  <2>1. sleepers = << >> /\ leds = KeybdIndicators /\ \A t \in Threads : pc[t] = "idle"
    BY Zenon DEF Init
  <2>2. SleepInv
    BY <2>1 DEF SleepInv
  <2> QED
    BY <2>1, <2>2 DEF LedInv, Setting
<1>2. Inv /\ [Next]_vars => Inv'
  <2> SUFFICES ASSUME Inv, [Next]_vars PROVE SleepInv' /\ LedInv'
    BY BufferTypeStep, BufferStep, ThreadTypeStep, FlagTypeStep, RequestsFit
  <2>1. SleepInv'
    BY SleepStep
  <2>2. LedInv'
    BY LedStep DEF SleepInv
  <2> QED
    BY <2>1, <2>2
<1>3. Inv => LedsShowIndicators
  BY DEF LedInv, LedsShowIndicators
<1> QED
  BY <1>1, <1>2, <1>3, PTL DEF Spec
=============================================================================
