---------------------------- MODULE DebuggerProofs ----------------------------
(***************************************************************************)
(* Theorems about Debugger, for any number of packets, commands, resets    *)
(* and faults, and lines of any length.                                    *)
(*                                                                         *)
(* Packets carry one bit of their number.  Each direction is seen as a     *)
(* line, the number of the newest packet of its sender and that of the     *)
(* last one its receiver accepted: Side, Settled, Sending and Agreed say   *)
(* what the packets on the line and the ids of both ends have to do with   *)
(* these numbers.  The lemmas give what each event on a line does to the   *)
(* four; the kernel's packets and the host's commands then are instances.  *)
(*                                                                         *)
(* A packet may leave a command behind that a reset then has served:       *)
(* ServedInv says which one, and that it is not served again after that.   *)
(*                                                                         *)
(* That a confirmed packet was received needs more: which acknowledgements *)
(* and commands are on their way, in every phase of a session.             *)
(***************************************************************************)
EXTENDS Debugger, TLAPS, SequenceTheorems

-----------------------------------------------------------------------------
(* One direction. *)

IsData(line, i) == line[i].kind = "data"
NoReset(line) == \A i \in 1 .. Len(line) : line[i].kind # "reset"

Numbered(line, newest) == \A i \in 1 .. Len(line) : IsData(line, i) => line[i].n \in 1 .. newest

\* Packets are on the line in the order of their numbers, copies have the same id, and no reset
\* comes between them.
InOrder(line) ==
    \A i, j \in 1 .. Len(line) :
        i < j /\ IsData(line, i) /\ IsData(line, j)
        => /\ line[i].n <= line[j].n
           /\ line[i].n = line[j].n => /\ line[i].id = line[j].id
                                       /\ \A k \in i .. j : line[k].kind # "reset"

\* None is older than the last that was accepted; copies of that come before any reset.
NotBefore(line, last) ==
    \A i \in 1 .. Len(line) :
        IsData(line, i) => /\ last <= line[i].n
                           /\ line[i].n = last => \A k \in 1 .. i : line[k].kind # "reset"

Side(line, newest, last) ==
    /\ Numbered(line, newest) /\ InOrder(line) /\ NotBefore(line, last)
    /\ last <= newest

\* The receiver does not accept what it has.
Settled(line, last, expects) ==
    \A i \in 1 .. Len(line) : IsData(line, i) /\ line[i].n = last => line[i].id = 1 - expects

\* The sender still sends its newest packet.
Sending(line, newest, last, id) ==
    /\ \A i \in 1 .. Len(line) :
          IsData(line, i) /\ line[i].n = newest
          => line[i].id = id /\ \A k \in i .. Len(line) : line[k].kind # "reset"
    /\ last = newest => NoReset(line)

\* What is sent again is not accepted again.
Agreed(newest, last, id, expects) == last = newest => id = 1 - expects

-----------------------------------------------------------------------------
(* Both directions. *)

LastOf(s) == IF s = <<>> THEN 0 ELSE s[Len(s)]

KernelSends == pc \in {"send", "ack"}
HostSends == outgoing # NoCommand

\* The last command the kernel accepted, or serves again.
Accepted == IF pc = "reply" /\ command.n # 0 THEN command.n ELSE LastOf(served)

Counts ==
    /\ pc \in {"reset", "change"} => sent + 1 < MaxPackets
    /\ KernelSends => sent > 0
    /\ command # NoCommand => pc \in {"serve", "reply"}
    /\ HostSends => outgoing.n = issued /\ issued > 0

ToHostInv ==
    /\ Side(toHost, sent, LastOf(got))
    /\ ~ resetting => Settled(toHost, LastOf(got), hostExpected)
    /\ KernelSends => Sending(toHost, sent, LastOf(got), next)
    /\ KernelSends /\ ~ resetting => Agreed(sent, LastOf(got), next, hostExpected)
    /\ Increasing(got)

ToKernelInv ==
    /\ Side(toKernel, issued, Accepted)
    /\ Settled(toKernel, Accepted, expected)
    /\ HostSends => Sending(toKernel, issued, Accepted, hostNext)
    /\ HostSends => Agreed(issued, Accepted, hostNext, expected)

\* The host does not send the command any more, and no copy of it is on the line.
Gone(n) ==
    /\ \A i \in 1 .. Len(toKernel) : IsData(toKernel, i) => n < toKernel[i].n
    /\ HostSends => n < issued

\* A reset on the line comes after all copies of the command.
BeforeReset(n) ==
    /\ n <= issued /\ NotBefore(toKernel, n)
    /\ HostSends /\ n = issued => NoReset(toKernel)

Twice(s) == Len(s) > 1 /\ s[Len(s) - 1] = s[Len(s)]

\* The command that a packet has left behind is the last one or a newer one.  If a reset has the
\* last one served again, it is gone.
ServedInv ==
    /\ Ordered(served)
    /\ command.n # 0 => LastOf(served) <= command.n
    /\ pc = "serve" /\ command.n # 0 => BeforeReset(command.n)
    /\ pc = "reply" /\ command.n # 0 /\ command.n = LastOf(served) => Gone(command.n)
    /\ command.n # 0 /\ command.n = LastOf(served) => ~ Twice(served)
    /\ Twice(served) => Gone(LastOf(served))

Inv == TypeOK /\ Counts /\ ToHostInv /\ ToKernelInv /\ ServedInv

-----------------------------------------------------------------------------
(* What is confirmed, as long as the host starts no reset. *)

OneReset(line) ==
    \A i, j \in 1 .. Len(line) : line[i].kind = "reset" /\ line[j].kind = "reset" => i = j

Without(line, kind, id) == \A i \in 1 .. Len(line) : ~ (line[i].kind = kind /\ line[i].id = id)

\* After a command with an id come no commands with the other.
CommandsLast(line, id) ==
    \A i, j \in 1 .. Len(line) :
        i < j /\ IsData(line, i) /\ line[i].id = id /\ IsData(line, j) => line[j].id = id

\* After an acknowledgement, or a command with the other id, come no other acknowledgements.
AcksLast(line, id, commandId) ==
    \A i, j \in 1 .. Len(line) :
        /\ i < j /\ line[j].kind = "ack"
        /\ \/ line[i].kind = "ack" /\ line[i].id = id
           \/ IsData(line, i) /\ line[i].id = commandId
        => line[j].id = id

\* After a reset comes nothing that the kernel would take for an answer.
QuietAfterReset(line) ==
    \A i, j \in 1 .. Len(line) :
        line[i].kind = "reset" /\ i < j => line[j].kind \notin {"ack", "data", "reset"}

\* The host does not have the packet with the next id, and no message says that it does.
NotGot ==
    /\ hostExpected = next /\ waiting
    /\ Without(toKernel, "ack", next) /\ Without(toKernel, "data", expected)
    /\ HostSends => hostNext = 1 - expected

\* A command the kernel will take is the last one, until the kernel replies.
OneCommand ==
    /\ CommandsLast(toKernel, expected)
    /\ Without(toKernel, "data", expected) \/ (waiting /\ (HostSends => hostNext = expected))
    /\ HostSends /\ hostNext = expected => waiting

\* The host has it: what says so comes after the acknowledgements of the packet before.
Got ==
    /\ hostExpected = 1 - next /\ ~ resetting
    /\ LastOf(got) = sent
    /\ AcksLast(toKernel, next, expected)
    /\ OneCommand

\* The host has it and the kernel knows.
Told ==
    /\ hostExpected = next /\ ~ resetting
    /\ Without(toKernel, "ack", next)
    /\ OneCommand

\* A session opens with a reset that the host answers and the kernel answers again.
Opening ==
    /\ OneReset(toHost)
    /\ IF resetting
       THEN NoReset(toHost) /\ hostExpected = 0 /\ waiting /\ QuietAfterReset(toKernel)
       ELSE NoReset(toKernel)

Open ==
    /\ NoReset(toKernel) /\ OneReset(toHost)
    /\ ~ resetting => NoReset(toHost)

\* Where the two ends are, by where the kernel is.
Phase ==
    /\ KernelSends => (NotGot /\ LastOf(got) = confirmed) \/ Got
    /\ pc = "reset" => Opening
    /\ pc # "reset" => Open
    /\ pc = "change" => NotGot
    /\ pc = "reply" => NotGot /\ ~ resetting
    /\ pc = "serve" => Told
    /\ pc \in {"idle", "poll", "end"} => ~ resetting

ConfirmInv ==
    /\ resetting => outgoing = NoCommand
    /\ resets = 0 =>
       /\ ConfirmedIsReceived
       /\ KernelSends => confirmed = sent - 1
       /\ ~ KernelSends => confirmed = sent /\ LastOf(got) = sent
       /\ Phase

\* Without a reset of the host, no command is served again.
OnceInv ==
    resets = 0 =>
       /\ Increasing(served)
       /\ pc = "reply" /\ command.n # 0 => LastOf(served) < command.n

-----------------------------------------------------------------------------
(* What happens on a line. *)

\* The message at a place of the rest of a line.
LEMMA RestOf ==
  ASSUME NEW line \in Seq(Message), line # <<>>
  PROVE  /\ Tail(line) \in Seq(Message) /\ Len(Tail(line)) = Len(line) - 1
         /\ Len(line) \in Nat \ {0} /\ Len(Tail(line)) \in Nat
         /\ \A i \in 1 .. Len(Tail(line)) : i + 1 \in 1 .. Len(line) /\ Tail(line)[i] = line[i + 1]
         /\ Head(line) = line[1] /\ Head(line) \in Message
<1>1. Tail(line) \in Seq(Message) /\ Len(Tail(line)) = Len(line) - 1
      /\ \A i \in 1 .. Len(Tail(line)) : Tail(line)[i] = line[i + 1]
  BY HeadTailProperties
<1>2. Len(line) \in Nat \ {0}
  BY EmptySeq, LenProperties
<1>3. Head(line) = line[1] /\ Head(line) \in Message
  BY HeadTailProperties
<1>4. Len(Tail(line)) \in Nat /\ \A i \in 1 .. Len(Tail(line)) : i + 1 \in 1 .. Len(line)
  BY <1>1, <1>2
<1> QED
  BY <1>1, <1>2, <1>3, <1>4

\* A message that is put on a line comes last, or is lost.
LEMMA PutOf ==
  ASSUME NEW line \in Seq(Message), NEW m \in Message
  PROVE  /\ Put(line, m) \in Seq(Message)
         /\ Len(line) <= LineSize => Len(Put(line, m)) <= LineSize
         /\ Put(line, m) = line
            \/ /\ Len(line) \in Nat /\ Len(Put(line, m)) = Len(line) + 1
               /\ \A i \in 1 .. Len(line) : Put(line, m)[i] = line[i]
               /\ Put(line, m)[Len(line) + 1] = m
<1>1. Len(line) \in Nat
  BY LenProperties
<1>2. CASE Len(line) < LineSize
  <2>1. Put(line, m) = Append(line, m)
    BY <1>2 DEF Put
  <2>2. /\ Append(line, m) \in Seq(Message)
        /\ Len(Append(line, m)) = Len(line) + 1
        /\ \A i \in 1 .. Len(line) : Append(line, m)[i] = line[i]
        /\ Append(line, m)[Len(line) + 1] = m
    BY AppendProperties
  <2> QED
    BY <1>1, <1>2, <2>1, <2>2, DebuggerAssumption DEF DebuggerAssumption
<1>3. CASE ~ (Len(line) < LineSize)
  BY <1>3 DEF Put
<1> QED
  BY <1>2, <1>3

LEMMA PutPlaces ==
  ASSUME NEW line \in Seq(Message), NEW m \in Message
  PROVE  \A i \in 1 .. Len(Put(line, m)) :
            Put(line, m)[i] = m \/ (i \in 1 .. Len(line) /\ Put(line, m)[i] = line[i])
<1>1. CASE Put(line, m) = line
  BY <1>1
<1>2. CASE Put(line, m) # line
  <2>1. /\ Len(line) \in Nat /\ Len(Put(line, m)) = Len(line) + 1
        /\ \A i \in 1 .. Len(line) : Put(line, m)[i] = line[i]
        /\ Put(line, m)[Len(line) + 1] = m
    BY <1>2, PutOf
  <2>2. \A i \in 1 .. Len(Put(line, m)) : i \in 1 .. Len(line) \/ i = Len(line) + 1
    BY <2>1
  <2> QED
    BY <2>1, <2>2
<1> QED
  BY <1>1, <1>2

\* A message that is read or lost.
LEMMA SideRest ==
  ASSUME NEW line \in Seq(Message), line # <<>>,
         NEW newest \in Nat, NEW last \in Nat, Side(line, newest, last)
  PROVE  Side(Tail(line), newest, last)
<1> DEFINE rest == Tail(line)
<1>1. /\ Len(rest) \in Nat /\ Len(line) \in Nat
      /\ \A i \in 1 .. Len(rest) : i + 1 \in 1 .. Len(line) /\ rest[i] = line[i + 1]
  BY RestOf
<1> HIDE DEF rest
<1>2. Numbered(rest, newest)
  BY <1>1 DEF Side, Numbered, IsData
<1>3. InOrder(rest)
  <2> SUFFICES ASSUME NEW i \in 1 .. Len(rest), NEW j \in 1 .. Len(rest),
                      i < j, IsData(rest, i), IsData(rest, j)
               PROVE  /\ rest[i].n <= rest[j].n
                      /\ rest[i].n = rest[j].n => /\ rest[i].id = rest[j].id
                                                  /\ \A k \in i .. j : rest[k].kind # "reset"
    BY DEF InOrder
  <2>1. i + 1 \in 1 .. Len(line) /\ j + 1 \in 1 .. Len(line) /\ i + 1 < j + 1
        /\ rest[i] = line[i + 1] /\ rest[j] = line[j + 1]
    BY <1>1
  <2>2. IsData(line, i + 1) /\ IsData(line, j + 1)
    BY <2>1 DEF IsData
  <2>3. /\ line[i + 1].n <= line[j + 1].n
        /\ line[i + 1].n = line[j + 1].n
           => /\ line[i + 1].id = line[j + 1].id
              /\ \A k \in i + 1 .. j + 1 : line[k].kind # "reset"
    BY <2>1, <2>2 DEF Side, InOrder
  <2>4. ASSUME NEW k \in i .. j
        PROVE  k + 1 \in i + 1 .. j + 1 /\ rest[k] = line[k + 1]
    BY <1>1
  <2> QED
    BY <2>1, <2>3, <2>4
<1>4. NotBefore(rest, last)
  <2> SUFFICES ASSUME NEW i \in 1 .. Len(rest), IsData(rest, i)
               PROVE  /\ last <= rest[i].n
                      /\ rest[i].n = last => \A k \in 1 .. i : rest[k].kind # "reset"
    BY DEF NotBefore
  <2>1. i + 1 \in 1 .. Len(line) /\ rest[i] = line[i + 1]
    BY <1>1
  <2>2. IsData(line, i + 1)
    BY <2>1 DEF IsData
  <2>3. /\ last <= line[i + 1].n
        /\ line[i + 1].n = last => \A k \in 1 .. i + 1 : line[k].kind # "reset"
    BY <2>1, <2>2 DEF Side, NotBefore
  <2>4. ASSUME NEW k \in 1 .. i
        PROVE  k + 1 \in 1 .. i + 1 /\ rest[k] = line[k + 1]
    BY <1>1
  <2> QED
    BY <2>1, <2>3, <2>4
<1> QED
  BY <1>2, <1>3, <1>4 DEF Side, rest

LEMMA SettledRest ==
  ASSUME NEW line \in Seq(Message), line # <<>>,
         NEW last \in Nat, NEW expects \in Ids, Settled(line, last, expects)
  PROVE  Settled(Tail(line), last, expects)
BY RestOf DEF Settled, IsData

LEMMA SendingRest ==
  ASSUME NEW line \in Seq(Message), line # <<>>,
         NEW newest \in Nat, NEW last \in Nat, NEW id \in Ids, Sending(line, newest, last, id)
  PROVE  Sending(Tail(line), newest, last, id)
<1> DEFINE rest == Tail(line)
<1>1. /\ Len(rest) \in Nat /\ Len(line) \in Nat /\ Len(rest) = Len(line) - 1
      /\ \A i \in 1 .. Len(rest) : i + 1 \in 1 .. Len(line) /\ rest[i] = line[i + 1]
  BY RestOf
<1> HIDE DEF rest
<1>2. last = newest => NoReset(rest)
  BY <1>1 DEF Sending, NoReset
<1>3. ASSUME NEW i \in 1 .. Len(rest), IsData(rest, i), rest[i].n = newest
      PROVE  rest[i].id = id /\ \A k \in i .. Len(rest) : rest[k].kind # "reset"
  <2>1. i + 1 \in 1 .. Len(line) /\ rest[i] = line[i + 1]
    BY <1>1
  <2>2. IsData(line, i + 1) /\ line[i + 1].n = newest
    BY <1>3, <2>1 DEF IsData
  <2>3. line[i + 1].id = id /\ \A k \in i + 1 .. Len(line) : line[k].kind # "reset"
    BY <2>1, <2>2 DEF Sending
  <2>4. ASSUME NEW k \in i .. Len(rest)
        PROVE  k + 1 \in i + 1 .. Len(line) /\ rest[k] = line[k + 1]
    BY <1>1
  <2> QED
    BY <2>1, <2>3, <2>4
<1> QED
  BY <1>2, <1>3 DEF Sending, rest

\* A message that comes last: one that is not data, or the newest packet again.
LEMMA SidePut ==
  ASSUME NEW line \in Seq(Message), NEW m \in Message,
         NEW newest \in Nat, NEW last \in Nat, NEW id \in Ids, Side(line, newest, last),
         m.kind = "data" => /\ newest > 0 /\ m.n = newest /\ m.id = id
                            /\ Sending(line, newest, last, id)
  PROVE  Side(Put(line, m), newest, last)
<1> DEFINE more == Put(line, m)
<1>1. CASE more = line
  BY <1>1
<1>2. CASE more # line
  <2>1. /\ Len(line) \in Nat /\ Len(more) = Len(line) + 1
        /\ \A i \in 1 .. Len(line) : more[i] = line[i]
        /\ more[Len(line) + 1] = m
    BY <1>2, PutOf
  <2>2. \A i \in 1 .. Len(line) : line[i] \in Message
    BY ElementOfSeq
  <2> HIDE DEF more
  <2>3. \A i \in 1 .. Len(more) : i \in 1 .. Len(line) \/ i = Len(line) + 1
    BY <2>1
  <2>4. Numbered(more, newest)
    BY <2>1, <2>3 DEF Side, Numbered, IsData
  <2>5. InOrder(more)
    <3> SUFFICES ASSUME NEW i \in 1 .. Len(more), NEW j \in 1 .. Len(more),
                        i < j, IsData(more, i), IsData(more, j)
                 PROVE  /\ more[i].n <= more[j].n
                        /\ more[i].n = more[j].n => /\ more[i].id = more[j].id
                                                    /\ \A k \in i .. j : more[k].kind # "reset"
      BY DEF InOrder
    <3>1. i \in 1 .. Len(line) /\ more[i] = line[i]
      BY <2>1
    <3>2. IsData(line, i) /\ line[i].n \in 1 .. newest
      BY <3>1 DEF IsData, Side, Numbered
    <3>3. CASE j \in 1 .. Len(line)
      <4>1. IsData(line, j) /\ more[j] = line[j]
        BY <2>1, <3>3 DEF IsData
      <4>2. /\ line[i].n <= line[j].n
            /\ line[i].n = line[j].n => /\ line[i].id = line[j].id
                                        /\ \A k \in i .. j : line[k].kind # "reset"
        BY <3>1, <3>2, <3>3, <4>1 DEF Side, InOrder
      <4>3. \A k \in i .. j : more[k] = line[k]
        BY <2>1, <3>1, <3>3
      <4> QED
        BY <3>1, <4>1, <4>2, <4>3
    <3>4. CASE j = Len(line) + 1
      <4>1. more[j] = m
        BY <2>1, <3>4
      <4>2. m.n = newest /\ m.id = id /\ Sending(line, newest, last, id) /\ m.kind = "data"
        BY <4>1 DEF IsData
      <4>3. line[i].n <= more[j].n
        BY <3>2, <4>1, <4>2
      <4>4. ASSUME line[i].n = newest
            PROVE  line[i].id = id /\ \A k \in i .. Len(line) : line[k].kind # "reset"
        BY <3>1, <3>2, <4>2, <4>4 DEF Sending
      <4>5. ASSUME NEW k \in i .. j
            PROVE  (k \in i .. Len(line) /\ more[k] = line[k]) \/ more[k] = m
        BY <2>1, <3>1, <3>4
      <4> QED
        BY <3>1, <4>1, <4>2, <4>3, <4>4, <4>5
    <3> QED
      BY <2>3, <3>3, <3>4
  <2>6. NotBefore(more, last)
    <3> SUFFICES ASSUME NEW i \in 1 .. Len(more), IsData(more, i)
                 PROVE  /\ last <= more[i].n
                        /\ more[i].n = last => \A k \in 1 .. i : more[k].kind # "reset"
      BY DEF NotBefore
    <3>1. CASE i \in 1 .. Len(line)
      <4>1. more[i] = line[i] /\ \A k \in 1 .. i : more[k] = line[k]
        BY <2>1, <3>1
      <4>2. IsData(line, i)
        BY <4>1 DEF IsData
      <4> QED
        BY <3>1, <4>1, <4>2 DEF Side, NotBefore
    <3>2. CASE i = Len(line) + 1
      <4>1. more[i] = m
        BY <2>1, <3>2
      <4>2. m.n = newest /\ m.kind = "data" /\ Sending(line, newest, last, id)
        BY <4>1 DEF IsData
      <4>3. last <= newest
        BY DEF Side
      <4>4. ASSUME last = newest, NEW k \in 1 .. i
            PROVE  more[k].kind # "reset"
        <5>1. NoReset(line)
          BY <4>2, <4>4 DEF Sending
        <5>2. (k \in 1 .. Len(line) /\ more[k] = line[k]) \/ more[k] = m
          BY <2>1, <3>2
        <5> QED
          BY <4>2, <5>1, <5>2 DEF NoReset
      <4> QED
        BY <4>1, <4>2, <4>3, <4>4
    <3> QED
      BY <2>3, <3>1, <3>2
  <2> QED
    BY <2>4, <2>5, <2>6 DEF Side, more
<1> QED
  BY <1>1, <1>2

LEMMA SettledPut ==
  ASSUME NEW line \in Seq(Message), NEW m \in Message,
         NEW last \in Nat, NEW expects \in Ids, Settled(line, last, expects),
         m.kind = "data" /\ m.n = last => m.id = 1 - expects
  PROVE  Settled(Put(line, m), last, expects)
<1> DEFINE more == Put(line, m)
<1>1. CASE more = line
  BY <1>1
<1>2. CASE more # line
  <2>1. /\ Len(line) \in Nat /\ Len(more) = Len(line) + 1
        /\ \A i \in 1 .. Len(line) : more[i] = line[i]
        /\ more[Len(line) + 1] = m
    BY <1>2, PutOf
  <2> HIDE DEF more
  <2>2. ASSUME NEW i \in 1 .. Len(more)
        PROVE  (i \in 1 .. Len(line) /\ more[i] = line[i]) \/ more[i] = m
    BY <2>1
  <2>3. Settled(more, last, expects)
    BY <2>2 DEF Settled, IsData
  <2> QED
    BY <2>3 DEF more
<1> QED
  BY <1>1, <1>2

LEMMA SendingPut ==
  ASSUME NEW line \in Seq(Message), NEW m \in Message,
         NEW newest \in Nat, NEW last \in Nat, NEW id \in Ids, Sending(line, newest, last, id),
         m.kind # "reset", m.kind = "data" => m.id = id
  PROVE  Sending(Put(line, m), newest, last, id)
<1> DEFINE more == Put(line, m)
<1>1. CASE more = line
  BY <1>1
<1>2. CASE more # line
  <2>1. /\ Len(line) \in Nat /\ Len(more) = Len(line) + 1
        /\ \A i \in 1 .. Len(line) : more[i] = line[i]
        /\ more[Len(line) + 1] = m
    BY <1>2, PutOf
  <2> HIDE DEF more
  <2>2. ASSUME NEW i \in 1 .. Len(more)
        PROVE  \/ i \in 1 .. Len(line) /\ more[i] = line[i]
               \/ i = Len(line) + 1 /\ more[i] = m
    BY <2>1
  <2>3. last = newest => NoReset(more)
    BY <2>2 DEF Sending, NoReset
  <2>4. ASSUME NEW i \in 1 .. Len(more), IsData(more, i), more[i].n = newest
        PROVE  more[i].id = id /\ \A k \in i .. Len(more) : more[k].kind # "reset"
    <3>1. CASE i \in 1 .. Len(line) /\ more[i] = line[i]
      <4>1. line[i].id = id /\ \A k \in i .. Len(line) : line[k].kind # "reset"
        BY <2>4, <3>1 DEF Sending, IsData
      <4>2. ASSUME NEW k \in i .. Len(more)
            PROVE  (k \in i .. Len(line) /\ more[k] = line[k]) \/ more[k] = m
        BY <2>1, <3>1
      <4> QED
        BY <3>1, <4>1, <4>2
    <3>2. CASE i = Len(line) + 1 /\ more[i] = m
      <4>1. \A k \in i .. Len(more) : more[k] = m
        BY <2>1, <3>2
      <4> QED
        BY <2>4, <3>2, <4>1 DEF IsData
    <3> QED
      BY <2>2, <3>1, <3>2
  <2>5. Sending(more, newest, last, id)
    BY <2>3, <2>4 DEF Sending
  <2> QED
    BY <2>5 DEF more
<1> QED
  BY <1>1, <1>2

\* The sender has one packet more, which is not on the line yet.
LEMMA SideNewer ==
  ASSUME NEW line \in Seq(Message), NEW newest \in Nat, NEW last \in Nat, NEW id \in Ids,
         Side(line, newest, last)
  PROVE  Side(line, newest + 1, last) /\ Sending(line, newest + 1, last, id) /\ last # newest + 1
<1>1. last <= newest /\ last # newest + 1
  BY DEF Side
<1>2. \A i \in 1 .. Len(line) : IsData(line, i) => line[i].n \in 1 .. newest + 1 /\ line[i].n # newest + 1
  BY DEF Side, Numbered
<1>3. Numbered(line, newest + 1)
  BY <1>2 DEF Numbered
<1> QED
  BY <1>1, <1>2, <1>3 DEF Side, Sending

\* A packet that is read: it is not older than the last one, and what follows is not older than it.
LEMMA SideRead ==
  ASSUME NEW line \in Seq(Message), line # <<>>,
         NEW newest \in Nat, NEW last \in Nat, Side(line, newest, last), Head(line).kind = "data"
  PROVE  /\ Head(line).n \in 1 .. newest /\ last <= Head(line).n
         /\ Side(Tail(line), newest, Head(line).n)
         /\ \A i \in 1 .. Len(Tail(line)) : IsData(Tail(line), i) /\ Tail(line)[i].n = Head(line).n
                                          => Tail(line)[i].id = Head(line).id
<1> DEFINE rest == Tail(line)
           n == Head(line).n
           id == Head(line).id
<1>1. /\ Len(rest) \in Nat /\ Len(line) \in Nat \ {0}
      /\ \A i \in 1 .. Len(rest) : i + 1 \in 1 .. Len(line) /\ rest[i] = line[i + 1]
      /\ Head(line) = line[1]
  BY RestOf
<1>2. 1 \in 1 .. Len(line) /\ IsData(line, 1) /\ line[1].n = n /\ line[1].id = id
  BY <1>1 DEF IsData
<1>3. n \in 1 .. newest /\ n <= newest
  BY <1>2 DEF Side, Numbered
<1>4. last <= n
  BY <1>2 DEF Side, NotBefore
<1>5. Side(rest, newest, last)
  BY SideRest
<1> HIDE DEF rest, n, id
<1>6. ASSUME NEW i \in 1 .. Len(rest), IsData(rest, i)
      PROVE  /\ n <= rest[i].n
             /\ rest[i].n = n => /\ rest[i].id = id
                                 /\ \A k \in 1 .. i : rest[k].kind # "reset"
  <2>1. i + 1 \in 1 .. Len(line) /\ rest[i] = line[i + 1] /\ 1 < i + 1
    BY <1>1
  <2>2. IsData(line, i + 1)
    BY <1>6, <2>1 DEF IsData
  <2>3. /\ line[1].n <= line[i + 1].n
        /\ line[1].n = line[i + 1].n => /\ line[1].id = line[i + 1].id
                                        /\ \A k \in 1 .. i + 1 : line[k].kind # "reset"
    BY <1>2, <2>1, <2>2 DEF Side, InOrder
  <2>4. ASSUME NEW k \in 1 .. i
        PROVE  k + 1 \in 1 .. i + 1 /\ rest[k] = line[k + 1]
    BY <1>1
  <2> QED
    BY <1>2, <2>1, <2>3, <2>4
<1>7. NotBefore(rest, n)
  BY <1>6 DEF NotBefore
<1>8. Side(rest, newest, n)
  BY <1>3, <1>5, <1>7 DEF Side
<1> QED
  BY <1>3, <1>4, <1>6, <1>8 DEF rest, n, id

\* A packet with the id the receiver expects is a new one.
LEMMA SideAccept ==
  ASSUME NEW line \in Seq(Message), line # <<>>,
         NEW newest \in Nat, NEW last \in Nat, NEW expects \in Ids,
         Side(line, newest, last), Settled(line, last, expects),
         Head(line).kind = "data", Head(line).id = expects
  PROVE  /\ Head(line).n \in 1 .. newest /\ last < Head(line).n
         /\ Side(Tail(line), newest, Head(line).n)
         /\ Settled(Tail(line), Head(line).n, 1 - expects)
<1>1. /\ Head(line).n \in 1 .. newest /\ last <= Head(line).n
      /\ Side(Tail(line), newest, Head(line).n)
      /\ \A i \in 1 .. Len(Tail(line)) : IsData(Tail(line), i) /\ Tail(line)[i].n = Head(line).n
                                       => Tail(line)[i].id = expects
  BY SideRead
<1>2. last # Head(line).n
  <2>1. Head(line) = line[1] /\ 1 \in 1 .. Len(line)
    BY RestOf
  <2>2. last = Head(line).n => expects = 1 - expects
    BY <2>1 DEF Settled, IsData
  <2> QED
    BY <2>2 DEF Ids
<1>3. Settled(Tail(line), Head(line).n, 1 - expects)
  BY <1>1 DEF Settled, Ids
<1> QED
  BY <1>1, <1>2, <1>3

\* If it is the newest one, no reset follows it.
LEMMA SendingAccept ==
  ASSUME NEW line \in Seq(Message), line # <<>>,
         NEW newest \in Nat, NEW last \in Nat, NEW id \in Ids,
         Sending(line, newest, last, id), Head(line).kind = "data"
  PROVE  /\ Sending(Tail(line), newest, Head(line).n, id)
         /\ Head(line).n = newest => Head(line).id = id
<1> DEFINE rest == Tail(line)
           n == Head(line).n
<1>1. /\ Len(rest) \in Nat /\ Len(line) \in Nat \ {0}
      /\ \A i \in 1 .. Len(rest) : i + 1 \in 1 .. Len(line) /\ rest[i] = line[i + 1]
      /\ Head(line) = line[1]
  BY RestOf
<1>2. 1 \in 1 .. Len(line) /\ IsData(line, 1) /\ line[1].n = n /\ line[1].id = Head(line).id
  BY <1>1 DEF IsData
<1>3. Sending(rest, newest, last, id)
  BY SendingRest
<1> HIDE DEF rest, n
<1>4. ASSUME n = newest
      PROVE  NoReset(rest) /\ line[1].id = id
  <2>1. line[1].id = id /\ \A k \in 1 .. Len(line) : line[k].kind # "reset"
    BY <1>2, <1>4 DEF Sending
  <2> QED
    BY <1>1, <2>1 DEF NoReset
<1>5. Sending(rest, newest, n, id)
  BY <1>3, <1>4 DEF Sending
<1> QED
  BY <1>2, <1>4, <1>5 DEF rest, n

\* A packet with the id that is expected is a new one; when it is skipped nothing on the line
\* is the last one again.
LEMMA SettledSkip ==
  ASSUME NEW line \in Seq(Message), line # <<>>,
         NEW newest \in Nat, NEW last \in Nat, NEW expects \in Ids,
         Side(line, newest, last), Settled(line, last, expects),
         Head(line).kind = "data", Head(line).id = expects
  PROVE  Settled(Tail(line), last, 1 - expects) /\ last # newest
<1>1. Head(line).n \in 1 .. newest /\ last < Head(line).n /\ Side(Tail(line), newest, Head(line).n)
  BY SideAccept
<1>2. \A i \in 1 .. Len(Tail(line)) : IsData(Tail(line), i) => Tail(line)[i].n # last
  <2>1. \A i \in 1 .. Len(Tail(line)) : IsData(Tail(line), i) => Head(line).n <= Tail(line)[i].n
    BY <1>1 DEF Side, NotBefore
  <2>2. \A i \in 1 .. Len(Tail(line)) : IsData(Tail(line), i) => Tail(line)[i].n \in 1 .. newest
    BY <1>1 DEF Side, Numbered
  <2> QED
    BY <1>1, <2>1, <2>2
<1> QED
  BY <1>1, <1>2 DEF Settled

\* After a reset nothing on the line is the last one again.
LEMMA SettledReset ==
  ASSUME NEW line \in Seq(Message), line # <<>>,
         NEW newest \in Nat, NEW last \in Nat, NEW expects,
         Side(line, newest, last), Head(line).kind = "reset"
  PROVE  Settled(Tail(line), last, expects)
<1> DEFINE rest == Tail(line)
<1>1. /\ Len(rest) \in Nat /\ Len(line) \in Nat \ {0}
      /\ \A i \in 1 .. Len(rest) : i + 1 \in 1 .. Len(line) /\ rest[i] = line[i + 1]
      /\ Head(line) = line[1]
  BY RestOf
<1> HIDE DEF rest
<1>2. ASSUME NEW i \in 1 .. Len(rest), IsData(rest, i)
      PROVE  rest[i].n # last
  <2>1. i + 1 \in 1 .. Len(line) /\ rest[i] = line[i + 1] /\ 1 \in 1 .. i + 1
    BY <1>1
  <2>2. IsData(line, i + 1)
    BY <1>2, <2>1 DEF IsData
  <2>3. line[i + 1].n = last => line[1].kind # "reset"
    BY <2>1, <2>2 DEF Side, NotBefore
  <2> QED
    BY <1>1, <2>1, <2>3
<1> QED
  BY <1>2 DEF Settled, rest

\* While a reset is on its way, the newest packet was not accepted.
LEMMA ResetNotLast ==
  ASSUME NEW line \in Seq(Message), line # <<>>,
         NEW newest \in Nat, NEW last \in Nat, NEW id \in Ids,
         Sending(line, newest, last, id), Head(line).kind = "reset"
  PROVE  last # newest
<1>1. Head(line) = line[1] /\ 1 \in 1 .. Len(line)
  BY RestOf
<1> QED
  BY <1>1 DEF Sending, NoReset

LEMMA LastAppend ==
  ASSUME NEW s \in Seq(Nat), NEW n \in Nat
  PROVE  LastOf(Append(s, n)) = n
<1>1. Len(s) \in Nat /\ Append(s, n) \in Seq(Nat) /\ Len(Append(s, n)) = Len(s) + 1
      /\ Append(s, n)[Len(s) + 1] = n
  BY AppendProperties, LenProperties
<1>2. Append(s, n) # <<>>
  BY <1>1, EmptySeq
<1> QED
  BY <1>1, <1>2 DEF LastOf

\* A new last element keeps a sequence increasing.
LEMMA IncreasingAppend ==
  ASSUME NEW s \in Seq(Nat), NEW n \in Nat, Increasing(s), LastOf(s) < n
  PROVE  Increasing(Append(s, n)) /\ LastOf(Append(s, n)) = n /\ LastOf(s) \in Nat
<1> DEFINE a == Append(s, n)
<1>1. /\ a \in Seq(Nat) /\ Len(s) \in Nat /\ Len(a) = Len(s) + 1
      /\ \A i \in 1 .. Len(s) : a[i] = s[i]
      /\ a[Len(s) + 1] = n
  BY AppendProperties, LenProperties
<1>2. \A i \in 1 .. Len(s) : s[i] \in Nat
  BY ElementOfSeq
<1>3. a # <<>>
  BY <1>1, EmptySeq
<1>4. s # <<>> => Len(s) \in 1 .. Len(s)
  BY <1>1, EmptySeq
<1> HIDE DEF a
<1>5. \A i \in 1 .. Len(s) : s[i] <= LastOf(s)
  <2> SUFFICES ASSUME NEW i \in 1 .. Len(s)
               PROVE  s[i] <= LastOf(s)
    OBVIOUS
  <2>1. s # <<>> /\ Len(s) \in 1 .. Len(s)
    BY <1>1, <1>4, EmptySeq
  <2>2. i = Len(s) \/ s[i] < s[Len(s)]
    BY <1>1, <2>1 DEF Increasing
  <2> QED
    BY <1>2, <2>1, <2>2 DEF LastOf
<1>6. LastOf(s) \in Nat
  BY <1>2, <1>4 DEF LastOf
<1>7. LastOf(a) = n
  BY <1>1, <1>3 DEF LastOf
<1>8. Increasing(a)
  <2> SUFFICES ASSUME NEW i \in 1 .. Len(a), NEW j \in 1 .. Len(a), i < j
               PROVE  a[i] < a[j]
    BY DEF Increasing
  <2>1. i \in 1 .. Len(s) /\ a[i] = s[i] /\ s[i] \in Nat
    BY <1>1, <1>2
  <2>2. CASE j \in 1 .. Len(s)
    BY <1>1, <2>1, <2>2 DEF Increasing
  <2>3. CASE j = Len(s) + 1
    BY <1>1, <1>5, <1>6, <2>1, <2>3
  <2> QED
    BY <1>1, <2>2, <2>3
<1> QED
  BY <1>6, <1>7, <1>8 DEF a

\* A last element that is not less, and is no third copy, keeps a sequence in order.
LEMMA OrderedAppend ==
  ASSUME NEW s \in Seq(Nat), NEW n \in Nat \ {0}, Ordered(s), LastOf(s) <= n,
         n = LastOf(s) => ~ Twice(s)
  PROVE  /\ Ordered(Append(s, n)) /\ LastOf(Append(s, n)) = n /\ Append(s, n) # <<>>
         /\ Twice(Append(s, n)) => LastOf(s) = n
<1> DEFINE a == Append(s, n)
<1>1. /\ a \in Seq(Nat) /\ Len(s) \in Nat /\ Len(a) = Len(s) + 1
      /\ \A i \in 1 .. Len(s) : a[i] = s[i]
      /\ a[Len(s) + 1] = n
  BY AppendProperties, LenProperties
<1>2. \A i \in 1 .. Len(s) : s[i] \in Nat
  BY ElementOfSeq
<1>3. a # <<>>
  BY <1>1, EmptySeq
<1>4. Len(s) > 0 => Len(s) \in 1 .. Len(s) /\ LastOf(s) = s[Len(s)]
  BY <1>1, EmptySeq DEF LastOf
<1>5. \A j \in 1 .. Len(a) : j \in 1 .. Len(s) \/ j = Len(s) + 1
  <2>1. Len(s) \in Nat /\ Len(a) = Len(s) + 1
    BY <1>1
  <2> QED
    BY <2>1
<1> HIDE DEF a
<1>6. LastOf(a) = n
  BY <1>1, <1>3 DEF LastOf
<1>7. Twice(a) => LastOf(s) = n
  <2>1. Twice(a) => Len(s) > 0 /\ a[Len(s)] = n
    BY <1>1 DEF Twice
  <2> QED
    BY <1>1, <1>4, <2>1
<1>8. Ordered(a)
  <2> SUFFICES ASSUME NEW i \in 1 .. Len(a), NEW j \in 1 .. Len(a), i < j
               PROVE  a[i] <= a[j] /\ (i + 1 < j => a[i] < a[j])
    BY DEF Ordered
  <2>1. i \in 1 .. Len(s) /\ a[i] = s[i] /\ s[i] \in Nat
    BY <1>1, <1>2
  <2>2. CASE j \in 1 .. Len(s)
    BY <1>1, <2>1, <2>2 DEF Ordered
  <2>3. CASE j = Len(s) + 1
    <3>1. Len(s) \in 1 .. Len(s) /\ LastOf(s) = s[Len(s)] /\ s[Len(s)] \in Nat
      BY <1>1, <1>2, <1>4, <2>1
    <3>2. a[j] = n /\ s[Len(s)] <= n
      BY <1>1, <2>3, <3>1
    <3>3. s[i] <= s[Len(s)]
      BY <1>1, <2>1, <3>1 DEF Ordered
    <3>4. ASSUME i + 1 < j
          PROVE  s[i] < n
      <4>1. Len(s) > 1 /\ Len(s) - 1 \in 1 .. Len(s) /\ i <= Len(s) - 1
        BY <1>1, <2>1, <2>3, <3>4
      <4>2. \A k \in 1 .. Len(s) : k < Len(s) => s[k] <= s[Len(s)]
        BY <3>1 DEF Ordered
      <4>3. Len(s) - 1 < Len(s)
        BY <1>1
      <4>4. s[Len(s) - 1] \in Nat /\ s[i] <= s[Len(s) - 1] /\ s[Len(s) - 1] <= s[Len(s)]
        <5>1. s[Len(s) - 1] \in Nat
          BY <1>2, <4>1
        <5>2. i = Len(s) - 1 \/ s[i] <= s[Len(s) - 1]
          BY <1>1, <2>1, <4>1 DEF Ordered
        <5>3. s[Len(s) - 1] <= s[Len(s)]
          BY <4>1, <4>2, <4>3
        <5> QED
          BY <5>1, <5>2, <5>3
      <4>5. s[Len(s)] = n => s[Len(s) - 1] # s[Len(s)]
        BY <3>1, <4>1 DEF Twice
      <4> QED
        BY <2>1, <3>1, <3>2, <4>4, <4>5
    <3> QED
      BY <2>1, <3>1, <3>2, <3>3, <3>4
  <2> QED
    BY <1>5, <2>2, <2>3
<1> QED
  BY <1>3, <1>6, <1>7, <1>8 DEF a

-----------------------------------------------------------------------------
(* Types and counts. *)

\* What a process puts on a line is a message.
LEMMA MessageTypes ==
  /\ \A kind \in {"ack", "resend", "reset", "breakin"}, id \in Ids :
        Control(kind, id) \in Message /\ Control(kind, id).kind = kind /\ Control(kind, id).id = id
  /\ \A id \in Ids, n \in Nat, api \in Apis :
        /\ Data(id, n, api) \in Message /\ Data(id, n, api).kind = "data"
        /\ Data(id, n, api).id = id /\ Data(id, n, api).n = n
BY DEF Control, Data, Message, Apis

LEMMA LineTypes ==
  ASSUME TypeOK, toHost # <<>>
  PROVE  /\ Tail(toHost) \in Seq(Message) /\ Len(Tail(toHost)) <= LineSize
         /\ Head(toHost) \in Message /\ Head(toHost).id \in Ids
         /\ Head(toHost).n \in Nat /\ Head(toHost).api \in Apis
<1>1. Head(toHost) \in Message /\ Tail(toHost) \in Seq(Message) /\ Len(Tail(toHost)) = Len(toHost) - 1
      /\ Len(toHost) \in Nat
  BY RestOf DEF TypeOK
<1>2. Len(Tail(toHost)) <= LineSize
  BY <1>1, DebuggerAssumption DEF TypeOK, DebuggerAssumption
<1> QED
  BY <1>1, <1>2 DEF Message

LEMMA KernelLineTypes ==
  ASSUME TypeOK, toKernel # <<>>
  PROVE  /\ Tail(toKernel) \in Seq(Message) /\ Len(Tail(toKernel)) <= LineSize
         /\ Head(toKernel) \in Message /\ Head(toKernel).id \in Ids
         /\ Head(toKernel).n \in Nat /\ Head(toKernel).api \in Apis
<1>1. Head(toKernel) \in Message /\ Tail(toKernel) \in Seq(Message)
      /\ Len(Tail(toKernel)) = Len(toKernel) - 1 /\ Len(toKernel) \in Nat
  BY RestOf DEF TypeOK
<1>2. Len(Tail(toKernel)) <= LineSize
  BY <1>1, DebuggerAssumption DEF TypeOK, DebuggerAssumption
<1> QED
  BY <1>1, <1>2 DEF Message

\* A packet on a line has a number of its sender.
LEMMA HeadNumbered ==
  ASSUME NEW line \in Seq(Message), line # <<>>, NEW newest \in Nat, Numbered(line, newest),
         Head(line).kind = "data"
  PROVE  Head(line).n \in 1 .. newest
BY RestOf DEF Numbered, IsData

\* The commands that headers hold.
LEMMA HeaderTypes ==
  /\ NoCommand \in Headers /\ NoCommand.n = 0 /\ Garbage \subseteq Headers
  /\ \A header \in Headers : header.n \in 0 .. MaxCommands /\ header.n \in Nat
  /\ \A header \in Headers : header # NoCommand => header.api \in Apis
  /\ \A header \in Garbage : header.n = 0 /\ header # NoCommand
  /\ \A n \in 0 .. MaxCommands, api \in Apis :
        [n |-> n, api |-> api] \in Headers /\ [n |-> n, api |-> api] # NoCommand
<1>1. MaxCommands \in Nat /\ 0 \in 0 .. MaxCommands
  BY DebuggerAssumption DEF DebuggerAssumption
<1>2. \A api \in Apis : api # "none"
  BY DEF Apis
<1> QED
  BY <1>1, <1>2 DEF NoCommand, Headers, Garbage

\* The last packets that were accepted are numbers.
LEMMA LastTypes ==
  ASSUME TypeOK, Counts
  PROVE  LastOf(got) \in Nat /\ LastOf(served) \in Nat /\ Accepted \in Nat
<1>1. ASSUME NEW T, NEW s \in Seq(T), s # <<>>
      PROVE  LastOf(s) \in T
  <2>1. Len(s) \in 1 .. Len(s)
    BY <1>1, EmptySeq, LenProperties
  <2> QED
    BY <1>1, <2>1, ElementOfSeq DEF LastOf
<1>2. LastOf(got) \in Nat
  <2>1. CASE got = <<>>
    BY <2>1 DEF LastOf
  <2>2. CASE got # <<>>
    <3>1. LastOf(got) \in 1 .. MaxPackets
      BY <1>1, <2>2 DEF TypeOK
    <3> QED
      BY <3>1
  <2> QED
    BY <2>1, <2>2
<1>3. LastOf(served) \in Nat
  <2>1. CASE served = <<>>
    BY <2>1 DEF LastOf
  <2>2. CASE served # <<>>
    <3>1. LastOf(served) \in 1 .. MaxCommands
      BY <1>1, <2>2 DEF TypeOK
    <3> QED
      BY <3>1
  <2> QED
    BY <2>1, <2>2
<1>4. Accepted \in Nat
  BY <1>3, HeaderTypes DEF Accepted, TypeOK
<1> QED
  BY <1>2, <1>3, <1>4

\* Where the kernel is after a message, or after none.
LEMMA Leads ==
  ASSUME TypeOK, Receiving
  PROVE  /\ Received \in {"change", "serve", "end", "idle", "reply"}
         /\ Received = "reply" <=> pc = "serve" /\ command # NoCommand
         /\ Received = "change" => pc = "reset"
         /\ Received = "idle" => pc = "poll"
         /\ pc = "ack" => Received = after
         /\ pc = "reset" => Received = "change"
         /\ pc = "poll" => Received = "idle"
         /\ NotReceived \in {"reset", "send", "idle", "end"}
         /\ NotReceived = "send" <=> pc = "ack"
         /\ NotReceived = "reset" <=> pc = "reset"
         /\ pc # "reply"
         /\ Wanted = "ack" <=> pc = "ack"
         /\ Wanted = "any" <=> pc = "serve"
         /\ Wanted = "breakin" <=> pc = "poll"
         /\ Wanted = "reset" <=> pc = "reset"
BY DEF Receiving, TypeOK, Received, NotReceived, Wanted

-----------------------------------------------------------------------------
(* The kernel's steps keep types and counts. *)

\* What no step of the kernel changes.
LEMMA KernelKeeps ==
  ASSUME KernelStep
  PROVE  UNCHANGED <<hostVars, got, issued, breakIns, resets>>
BY DEF KernelStep, KdSendPacket, KdpSendStateChange, TimeOut, ReceiveBreakIn, ReceiveResend,
       ReceiveReset, ReceiveAcknowledge, Acknowledged, DataInsteadOfAck, UnexpectedType,
       ReceiveCommand, Command, ReceiveDamaged, KdWakeUpDebugger, AnswerRequest, Continue, Answer,
       CauseBugCheck, EndSession, KdPollBreakIn, counts, lines

\* What the kernel puts on its line keeps the line's type.
LEMMA ControlTypes ==
  ASSUME TypeOK, NEW kind \in {"ack", "resend", "reset"}, NEW id \in Ids,
         KdpSendControlPacket(kind, id)
  PROVE  toHost' \in Seq(Message) /\ Len(toHost') <= LineSize
BY PutOf, MessageTypes DEF TypeOK, KdpSendControlPacket, KdpSendString

\* The types that only the host's steps could break, and those of what the kernel sends.
LEMMA TypeSplit ==
  ASSUME TypeOK, UNCHANGED <<hostVars, got, issued, breakIns, resets>>,
         pc' \in {"idle", "reset", "change", "send", "ack", "serve", "reply", "end", "poll", "stuck"},
         next' \in Ids, expected' \in Ids, pending' \in BOOLEAN,
         command' \in Headers, after' \in {"serve", "end"},
         toHost' \in Seq(Message), Len(toHost') <= LineSize,
         toKernel' \in Seq(Message), Len(toKernel') <= LineSize,
         sent' \in 0 .. MaxPackets, confirmed' \in 0 .. sent', faults' \in Nat,
         served' \in Seq(1 .. MaxCommands)
  PROVE  TypeOK'
<1>1. hostNext' = hostNext /\ hostExpected' = hostExpected /\ resetting' = resetting
      /\ outgoing' = outgoing /\ waiting' = waiting
  BY DEF hostVars
<1> QED
  BY <1>1 DEF TypeOK

LEMMA KernelTypes ==
  ASSUME Inv, KernelStep
  PROVE  TypeOK' /\ Counts'
<1> USE DEF HostSends, KernelSends
<1>1. TypeOK /\ Counts /\ ToKernelInv
  BY DEF Inv
<1>2. UNCHANGED <<hostVars, got, issued, breakIns, resets>> /\ outgoing' = outgoing
  BY KernelKeeps DEF hostVars
<1>3. /\ MaxPackets \in Nat /\ MaxCommands \in Nat /\ sent \in 0 .. MaxPackets /\ confirmed \in 0 .. sent
      /\ next \in Ids /\ expected \in Ids /\ 1 - next \in Ids /\ 1 - expected \in Ids /\ 0 \in Ids
      /\ faults \in Nat /\ faults + 1 \in Nat /\ command \in Headers /\ NoCommand \in Headers
  BY <1>1, DebuggerAssumption, HeaderTypes DEF TypeOK, DebuggerAssumption, Ids
<1>4. CASE KdSendPacket
  <2>1. pc = "send" /\ pc' = "ack" /\ UNCHANGED <<next, expected, pending, command, after, toKernel,
             sent, confirmed, served, faults>> /\ toHost' = Put(toHost, Data(next, sent, "query"))
    BY <1>4 DEF KdSendPacket, KdpSendString, counts
  <2>2. Data(next, sent, "query") \in Message
    BY <1>3, MessageTypes DEF Apis
  <2>3. toHost' \in Seq(Message) /\ Len(toHost') <= LineSize
    BY <1>1, <2>1, <2>2, PutOf DEF TypeOK
  <2>4. TypeOK'
    BY <1>1, <1>2, <1>3, <2>1, <2>3, TypeSplit DEF TypeOK
  <2> QED
    BY <1>1, <1>2, <2>1, <2>4 DEF Counts
<1>5. CASE KdpSendStateChange
  <2>1. pc = "change" /\ pc' = "send" /\ after' = "serve" /\ sent' = sent + 1
        /\ UNCHANGED <<next, expected, pending, command, toHost, toKernel, confirmed, served, faults>>
    BY <1>5 DEF KdpSendStateChange, lines, counts
  <2>2. sent' \in 0 .. MaxPackets /\ confirmed' \in 0 .. sent' /\ sent' > 0
    BY <1>1, <1>3, <2>1 DEF Counts
  <2>3. TypeOK'
    BY <1>1, <1>2, <1>3, <2>1, <2>2, TypeSplit DEF TypeOK
  <2> QED
    BY <1>1, <1>2, <2>1, <2>2, <2>3 DEF Counts
<1>6. CASE TimeOut
  <2>1. Receiving /\ pc' = NotReceived /\ command' = NoCommand
        /\ UNCHANGED <<next, expected, pending, after, toHost, toKernel, sent, confirmed, served, faults>>
    BY <1>6 DEF TimeOut, lines, counts
  <2>2. pc' \in {"reset", "send", "idle", "end"} /\ (pc' = "send" => pc = "ack")
        /\ (pc' = "reset" => pc = "reset") /\ pc # "reply"
    BY <1>1, <2>1, Leads
  <2>3. TypeOK'
    BY <1>1, <1>2, <1>3, <2>1, <2>2, TypeSplit DEF TypeOK
  <2> QED
    BY <1>1, <1>2, <2>1, <2>2, <2>3 DEF Counts
<1>7. ASSUME NEW kind, Read(kind)
      PROVE  /\ Receiving /\ toKernel # <<>> /\ Head(toKernel).kind = kind
             /\ toKernel' = Tail(toKernel)
             /\ toKernel' \in Seq(Message) /\ Len(toKernel') <= LineSize
             /\ Head(toKernel).id \in Ids /\ Head(toKernel).n \in Nat /\ Head(toKernel).api \in Apis
  BY <1>1, <1>7, KernelLineTypes DEF Read
<1>8. CASE ReceiveBreakIn \/ ReceiveResend
  <2>1. /\ Read("breakin") \/ Read("resend")
        /\ pc' \in {Received, NotReceived} /\ (pc' # NotReceived => Wanted = "breakin")
        /\ UNCHANGED <<next, expected, after, toHost, sent, confirmed, served, faults>>
        /\ pending' \in BOOLEAN /\ command' = NoCommand
    BY <1>1, <1>8 DEF ReceiveBreakIn, ReceiveResend, counts, TypeOK
  <2>2. toKernel' \in Seq(Message) /\ Len(toKernel') <= LineSize /\ Receiving
    BY <1>7, <2>1
  <2>3. pc' \in {"reset", "send", "idle", "end"} /\ (pc' = "send" => pc = "ack")
        /\ (pc' = "reset" => pc = "reset") /\ pc # "reply"
    <3>1. CASE pc' = NotReceived
      BY <1>1, <2>2, <3>1, Leads
    <3>2. CASE pc' # NotReceived
      <4>1. pc = "poll" /\ pc' = Received
        BY <1>1, <2>1, <2>2, <3>2, Leads
      <4>2. Received = "idle"
        BY <4>1 DEF Received
      <4> QED
        BY <4>1, <4>2
    <3> QED
      BY <3>1, <3>2
  <2>4. TypeOK'
    BY <1>1, <1>2, <1>3, <2>1, <2>2, <2>3, TypeSplit DEF TypeOK
  <2> QED
    BY <1>1, <1>2, <2>1, <2>3, <2>4 DEF Counts
<1>9. CASE ReceiveReset
  <2>1. Read("reset") /\ next' = 0 /\ expected' = 0 /\ KdpSendControlPacket("reset", 0) /\ pc' = Received
        /\ UNCHANGED <<pending, command, after, sent, confirmed, served, faults>>
    BY <1>9 DEF ReceiveReset, counts
  <2>2. toKernel' \in Seq(Message) /\ Len(toKernel') <= LineSize /\ Receiving
    BY <1>7, <2>1
  <2>3. toHost' \in Seq(Message) /\ Len(toHost') <= LineSize
    BY <1>1, <1>3, <2>1, ControlTypes
  <2>4. /\ pc' \in {"change", "serve", "end", "idle", "reply"} /\ (pc' = "change" => pc = "reset")
        /\ pc # "reply" /\ (pc = "serve" /\ command # NoCommand => pc' = "reply")
    BY <1>1, <2>1, <2>2, Leads
  <2>5. TypeOK'
    BY <1>1, <1>2, <1>3, <2>1, <2>2, <2>3, <2>4, TypeSplit DEF TypeOK
  <2> QED
    BY <1>1, <1>2, <2>1, <2>4, <2>5 DEF Counts
<1>10. CASE ReceiveAcknowledge
  <2>1. /\ Read("ack")
        /\ \/ Wanted = "ack" /\ next' = 1 - next /\ pc' = Received
              /\ confirmed' = IF pc = "ack" THEN sent ELSE confirmed
           \/ UNCHANGED <<next, pc, confirmed>>
        /\ UNCHANGED <<expected, pending, command, after, toHost, sent, served, faults>>
    BY <1>10 DEF ReceiveAcknowledge, Acknowledged, Confirm, counts
  <2>2. toKernel' \in Seq(Message) /\ Len(toKernel') <= LineSize /\ Receiving
    BY <1>7, <2>1
  <2>3. pc' = pc \/ (pc = "ack" /\ pc' \in {"serve", "end"})
    BY <1>1, <2>1, <2>2, Leads DEF TypeOK
  <2>4. pc # "reply" /\ next' \in Ids /\ confirmed' \in 0 .. sent
    BY <1>1, <1>3, <2>1, <2>2, Leads
  <2>5. TypeOK'
    BY <1>1, <1>2, <1>3, <2>1, <2>2, <2>3, <2>4, TypeSplit DEF TypeOK
  <2> QED
    BY <1>1, <1>2, <2>1, <2>3, <2>4, <2>5 DEF Counts
<1>11. CASE DataInsteadOfAck
  <2>1. /\ Read("data") /\ Wanted = "ack"
        /\ \/ KdpSendControlPacket("resend", 0) /\ next' = 1 - next /\ expected' = 1 - expected
              /\ pc' = Received /\ confirmed' = IF pc = "ack" THEN sent ELSE confirmed
           \/ KdpSendControlPacket("ack", Head(toKernel).id) /\ UNCHANGED <<next, expected, pc, confirmed>>
        /\ UNCHANGED <<pending, command, after, sent, served, faults>>
    BY <1>11 DEF DataInsteadOfAck, Confirm, counts
  <2>2. toKernel' \in Seq(Message) /\ Len(toKernel') <= LineSize /\ Receiving /\ Head(toKernel).id \in Ids
    BY <1>7, <2>1
  <2>3. toHost' \in Seq(Message) /\ Len(toHost') <= LineSize
    BY <1>1, <1>3, <2>1, <2>2, ControlTypes
  <2>4. pc' = pc \/ (pc = "ack" /\ pc' \in {"serve", "end"})
    BY <1>1, <2>1, <2>2, Leads DEF TypeOK
  <2>5. pc # "reply" /\ next' \in Ids /\ expected' \in Ids /\ confirmed' \in 0 .. sent
    BY <1>1, <1>3, <2>1, <2>2, Leads
  <2>6. TypeOK'
    BY <1>1, <1>2, <1>3, <2>1, <2>2, <2>3, <2>4, <2>5, TypeSplit DEF TypeOK
  <2> QED
    BY <1>1, <1>2, <2>1, <2>4, <2>5, <2>6 DEF Counts
\* A data packet that is read where a command is waited for has a number of the host.
<1>12. ASSUME Read("data")
       PROVE  HeaderRead \in Headers /\ HeaderRead # NoCommand /\ HeaderRead.n = Head(toKernel).n
  <2>1. toKernel # <<>> /\ Head(toKernel).kind = "data" /\ Head(toKernel).api \in Apis
    BY <1>7, <1>12
  <2>2. toKernel \in Seq(Message) /\ issued \in Nat /\ issued \in 0 .. MaxCommands
    BY <1>1, <1>3 DEF TypeOK
  <2>3. Head(toKernel).n \in 1 .. issued
    BY <1>1, <2>1, <2>2, HeadNumbered DEF ToKernelInv, Side
  <2>4. Head(toKernel).n \in 0 .. MaxCommands
    BY <1>3, <2>2, <2>3
  <2> QED
    BY <2>1, <2>4, HeaderTypes DEF HeaderRead
<1>13. CASE UnexpectedType \/ ReceiveDamaged \/ ReceiveCommand
  <2>1. /\ Read("data") /\ Wanted # "ack"
        /\ \E kind \in {"ack", "resend"}, id \in {0, Head(toKernel).id} : KdpSendControlPacket(kind, id)
        /\ UNCHANGED <<next, pending, after, sent, confirmed, served>>
        /\ faults' \in {faults, faults + 1}
        /\ command' = command \/ (Wanted = "any" /\ command' \in {HeaderRead} \cup Garbage)
        /\ pc' = pc \/ (Wanted = "any" /\ pc' = "reply")
        /\ expected' \in {expected, 1 - expected}
    BY <1>13 DEF UnexpectedType, ReceiveDamaged, ReceiveCommand, Command, kernelVars, counts
  <2>2. /\ toKernel' \in Seq(Message) /\ Len(toKernel') <= LineSize /\ Head(toKernel).id \in Ids
        /\ Receiving
    BY <1>7, <2>1
  <2>3. toHost' \in Seq(Message) /\ Len(toHost') <= LineSize
    BY <1>1, <1>3, <2>1, <2>2, ControlTypes
  <2>4. command' \in Headers /\ expected' \in Ids
    BY <1>3, <1>12, <2>1, HeaderTypes
  <2>5. Wanted = "any" => pc = "serve"
    BY <1>1, <2>2, Leads
  <2>6. pc' = pc \/ (pc = "serve" /\ pc' = "reply")
    BY <2>1, <2>5
  <2>7. TypeOK'
    BY <1>1, <1>2, <1>3, <2>1, <2>2, <2>3, <2>4, <2>6, TypeSplit DEF TypeOK
  <2>8. command' # NoCommand => pc' \in {"serve", "reply"}
    BY <1>1, <2>1, <2>5, <2>6 DEF Counts
  <2> QED
    BY <1>1, <1>2, <2>1, <2>6, <2>7, <2>8 DEF Counts
<1>14. CASE KdWakeUpDebugger
  <2>1. pc = "idle" /\ pc' = "reset" /\ sent + 1 < MaxPackets /\ KdpSendControlPacket("reset", 0)
        /\ UNCHANGED <<next, expected, pending, command, after, toKernel, sent, confirmed, served, faults>>
    BY <1>14 DEF KdWakeUpDebugger, counts
  <2>2. toHost' \in Seq(Message) /\ Len(toHost') <= LineSize
    BY <1>1, <1>3, <2>1, ControlTypes
  <2>3. TypeOK'
    BY <1>1, <1>2, <1>3, <2>1, <2>2, TypeSplit DEF TypeOK
  <2> QED
    BY <1>1, <1>2, <2>1, <2>3 DEF Counts
<1>15. CASE AnswerRequest \/ Continue \/ CauseBugCheck
  <2>1. /\ pc = "reply" /\ command' = NoCommand
        /\ served' = IF command.n = 0 THEN served ELSE Append(served, command.n)
        /\ UNCHANGED <<next, expected, pending, toHost, toKernel, confirmed, faults>>
        /\ \/ pc' = "stuck" /\ UNCHANGED <<after, sent>>
           \/ /\ sent < MaxPackets /\ sent' = sent + 1 /\ pc' = "send" /\ after' \in {"serve", "end"}
    BY <1>15 DEF AnswerRequest, Continue, CauseBugCheck, Answer, Serve, lines, counts
  <2>2. command.n # 0 => command.n \in 1 .. MaxCommands
    BY <1>3, HeaderTypes
  <2>3. served' \in Seq(1 .. MaxCommands)
    BY <1>1, <2>1, <2>2, AppendProperties DEF TypeOK
  <2>4. sent' \in 0 .. MaxPackets /\ confirmed' \in 0 .. sent' /\ (pc' = "send" => sent' > 0)
    BY <1>1, <1>3, <2>1
  <2>5. TypeOK'
    BY <1>1, <1>2, <1>3, <2>1, <2>3, <2>4, TypeSplit DEF TypeOK
  <2> QED
    BY <1>1, <1>2, <2>1, <2>4, <2>5 DEF Counts
<1>16. CASE EndSession \/ KdPollBreakIn
  <2>1. /\ pc \in {"end", "idle"} /\ pc' \in {"idle", "poll"} /\ pending' \in BOOLEAN
        /\ UNCHANGED <<next, expected, command, after, toHost, toKernel, sent, confirmed, served, faults>>
    BY <1>1, <1>16 DEF EndSession, KdPollBreakIn, lines, counts, TypeOK
  <2>2. TypeOK'
    BY <1>1, <1>2, <1>3, <2>1, TypeSplit DEF TypeOK
  <2> QED
    BY <1>1, <1>2, <2>1, <2>2 DEF Counts
<1> QED
  BY <1>4, <1>5, <1>6, <1>8, <1>9, <1>10, <1>11, <1>13, <1>14, <1>15, <1>16 DEF KernelStep

-----------------------------------------------------------------------------
(* The steps of the host and the line keep types and counts. *)

\* What no step of the host or the line changes.
LEMMA HostKeeps ==
  ASSUME HostStep \/ Lose
  PROVE  UNCHANGED <<kernelVars, sent, confirmed, served>>
BY DEF HostStep, HostReset, HostReceiveReset, HostReceiveData, HostReceiveDamaged, HostReceiveAck,
       HostRetry, HostCommand, HostBreakIn, Lose

LEMMA HostTypeSplit ==
  ASSUME TypeOK, UNCHANGED <<kernelVars, sent, confirmed, served>>,
         hostNext' \in Ids, hostExpected' \in Ids, resetting' \in BOOLEAN, waiting' \in BOOLEAN,
         outgoing' \in Headers, issued' \in 0 .. MaxCommands,
         got' \in Seq(1 .. MaxPackets),
         resets' \in {resets, resets + 1}, faults' \in {faults, faults + 1},
         breakIns' \in {breakIns, breakIns + 1},
         toHost' \in Seq(Message), Len(toHost') <= LineSize,
         toKernel' \in Seq(Message), Len(toKernel') <= LineSize
  PROVE  TypeOK'
<1>1. pc' = pc /\ next' = next /\ expected' = expected /\ pending' = pending /\ command' = command
      /\ after' = after
  BY DEF kernelVars
<1>2. resets' \in Nat /\ faults' \in Nat /\ breakIns' \in Nat
  <2>1. resets \in Nat /\ faults \in Nat /\ breakIns \in Nat
    BY DEF TypeOK
  <2>2. \A n \in Nat : n + 1 \in Nat
    OBVIOUS
  <2>3. resets' \in Nat
    BY <2>1, <2>2
  <2>4. faults' \in Nat
    BY <2>1, <2>2
  <2>5. breakIns' \in Nat
    BY <2>1, <2>2
  <2> QED
    BY <2>3, <2>4, <2>5
<1>3. /\ pc' \in {"idle", "reset", "change", "send", "ack", "serve", "reply", "end", "poll", "stuck"}
      /\ next' \in Ids /\ expected' \in Ids /\ pending' \in BOOLEAN /\ after' \in {"serve", "end"}
  BY <1>1 DEF TypeOK
<1>4. command' \in Headers
  BY <1>1 DEF TypeOK
<1>5. sent' \in 0 .. MaxPackets /\ confirmed' \in 0 .. sent'
  BY DEF TypeOK
<1>6. served' \in Seq(1 .. MaxCommands)
  BY DEF TypeOK
<1> QED
  BY <1>2, <1>3, <1>4, <1>5, <1>6 DEF TypeOK

LEMMA HostTypes ==
  ASSUME Inv, HostStep \/ Lose
  PROVE  TypeOK' /\ Counts'
<1> USE DEF HostSends, KernelSends
<1>1. TypeOK /\ Counts /\ ToHostInv /\ ToKernelInv
  BY DEF Inv
<1>2. UNCHANGED <<kernelVars, sent, confirmed, served>>
  BY HostKeeps
<1>3. pc' = pc /\ command' = command
  BY <1>2 DEF kernelVars
<1>4. /\ MaxPackets \in Nat /\ MaxCommands \in Nat /\ sent \in 0 .. MaxPackets
      /\ 1 - hostNext \in Ids /\ 1 - hostExpected \in Ids /\ 0 \in Ids
      /\ hostNext \in Ids /\ hostExpected \in Ids /\ issued \in 0 .. MaxCommands
      /\ resetting \in BOOLEAN /\ waiting \in BOOLEAN
  BY <1>1, DebuggerAssumption DEF TypeOK, DebuggerAssumption, Ids
<1>5. NoCommand \in Headers /\ \A n \in 0 .. MaxCommands, api \in Apis : [n |-> n, api |-> api] \in Headers
  BY HeaderTypes
<1>6. ASSUME NEW m \in Message, HostSend(m)
      PROVE  toKernel' \in Seq(Message) /\ Len(toKernel') <= LineSize
  BY <1>1, <1>6, PutOf DEF HostSend, TypeOK
<1>7. ASSUME NEW kind, HostRead(kind)
      PROVE  /\ toHost # <<>> /\ Head(toHost).kind = kind /\ toHost' = Tail(toHost)
             /\ toHost' \in Seq(Message) /\ Len(toHost') <= LineSize
             /\ Head(toHost).id \in Ids /\ Head(toHost).n \in Nat
  BY <1>1, <1>7, LineTypes DEF HostRead
<1>8. /\ toHost \in Seq(Message) /\ Len(toHost) <= LineSize
      /\ toKernel \in Seq(Message) /\ Len(toKernel) <= LineSize
      /\ outgoing \in Headers /\ got \in Seq(1 .. MaxPackets)
      /\ outgoing.n \in Nat /\ (outgoing # NoCommand => outgoing.api \in Apis)
  BY <1>1, HeaderTypes DEF TypeOK
<1>9. ASSUME NEW kind \in {"ack", "resend", "reset", "breakin"}, NEW id \in Ids
      PROVE  Control(kind, id) \in Message
  BY MessageTypes
<1>10. outgoing' = outgoing /\ issued' = issued => Counts'
  BY <1>1, <1>2, <1>3 DEF Counts
<1>11. outgoing' = NoCommand => Counts'
  BY <1>1, <1>2, <1>3 DEF Counts
<1>12. CASE HostReset
  <2>1. /\ hostNext' = 0 /\ hostExpected' = 0 /\ outgoing' = NoCommand /\ waiting' = TRUE
        /\ resetting' = TRUE /\ resets' = resets + 1
        /\ HostSend(Control("reset", 0)) /\ UNCHANGED <<toHost, got, issued, breakIns, faults>>
    BY <1>12 DEF HostReset, Forget
  <2>2. toKernel' \in Seq(Message) /\ Len(toKernel') <= LineSize
    BY <1>4, <1>6, <1>9, <2>1
  <2>3. TypeOK'
    BY <1>1, <1>2, <1>4, <1>5, <1>8, <2>1, <2>2, HostTypeSplit
  <2> QED
    BY <1>11, <2>1, <2>3
<1>13. CASE HostReceiveReset
  <2>1. /\ HostRead("reset") /\ resetting' = ~ resetting
        /\ \/ UNCHANGED <<hostNext, hostExpected, outgoing, waiting, toKernel>>
           \/ /\ hostNext' = 0 /\ hostExpected' = 0 /\ outgoing' = NoCommand /\ waiting' = TRUE
              /\ HostSend(Control("reset", 0))
        /\ UNCHANGED <<got, issued, breakIns, resets, faults>>
    BY <1>13 DEF HostReceiveReset, Forget, counts
  <2>2. toKernel' \in Seq(Message) /\ Len(toKernel') <= LineSize
    BY <1>4, <1>6, <1>8, <1>9, <2>1
  <2>3. toHost' \in Seq(Message) /\ Len(toHost') <= LineSize
    BY <1>7, <2>1
  <2>4. TypeOK'
    BY <1>1, <1>2, <1>4, <1>5, <1>8, <2>1, <2>2, <2>3, HostTypeSplit
  <2> QED
    BY <1>10, <1>11, <2>1, <2>4
<1>14. CASE HostReceiveData
  <2>1. /\ HostRead("data")
        /\ toKernel' = toKernel \/ HostSend(Control("ack", Head(toHost).id))
        /\ hostExpected' \in {hostExpected, 1 - hostExpected} /\ waiting' \in {waiting, FALSE}
        /\ got' = got \/ got' = Append(got, Head(toHost).n)
        /\ UNCHANGED <<hostNext, resetting, outgoing, issued, breakIns, resets, faults>>
    BY <1>14 DEF HostReceiveData, counts
  <2>2. toHost' \in Seq(Message) /\ Len(toHost') <= LineSize /\ Head(toHost).id \in Ids
        /\ toHost # <<>> /\ Head(toHost).kind = "data"
    BY <1>7, <2>1
  <2>3. toKernel' \in Seq(Message) /\ Len(toKernel') <= LineSize
    BY <1>6, <1>8, <1>9, <2>1, <2>2
  <2>4. got' \in Seq(1 .. MaxPackets)
    <3>1. Head(toHost).n \in 1 .. sent
      BY <1>1, <1>4, <1>8, <2>2, HeadNumbered DEF ToHostInv, Side
    <3>2. Head(toHost).n \in 1 .. MaxPackets
      BY <1>4, <3>1
    <3>3. Append(got, Head(toHost).n) \in Seq(1 .. MaxPackets)
      BY <1>8, <3>2, AppendProperties
    <3> QED
      BY <1>8, <2>1, <3>3
  <2>5. TypeOK'
    BY <1>1, <1>2, <1>4, <1>8, <2>1, <2>2, <2>3, <2>4, HostTypeSplit
  <2> QED
    BY <1>10, <2>1, <2>5
<1>15. CASE HostReceiveDamaged \/ HostBreakIn
  <2>1. /\ HostRead("data") \/ toHost' = toHost
        /\ HostSend(Control("resend", 0)) \/ HostSend(Control("breakin", 0))
        /\ faults' \in {faults, faults + 1} /\ breakIns' \in {breakIns, breakIns + 1}
        /\ UNCHANGED <<hostNext, hostExpected, resetting, outgoing, waiting, got, issued, resets>>
    BY <1>15 DEF HostReceiveDamaged, HostBreakIn, hostVars
  <2>2. toHost' \in Seq(Message) /\ Len(toHost') <= LineSize
    BY <1>7, <1>8, <2>1
  <2>3. toKernel' \in Seq(Message) /\ Len(toKernel') <= LineSize
    BY <1>4, <1>6, <1>9, <2>1
  <2>4. TypeOK'
    BY <1>1, <1>2, <1>4, <1>8, <2>1, <2>2, <2>3, HostTypeSplit
  <2> QED
    BY <1>10, <2>1, <2>4
<1>16. CASE HostReceiveAck
  <2>1. /\ HostRead("ack")
        /\ \/ outgoing' = NoCommand /\ hostNext' = 1 - hostNext
           \/ UNCHANGED <<outgoing, hostNext>>
        /\ UNCHANGED <<hostExpected, resetting, waiting, toKernel, got, issued, breakIns, resets, faults>>
    BY <1>16 DEF HostReceiveAck, counts
  <2>2. toHost' \in Seq(Message) /\ Len(toHost') <= LineSize
    BY <1>7, <2>1
  <2>3. TypeOK'
    BY <1>1, <1>2, <1>4, <1>5, <1>8, <2>1, <2>2, HostTypeSplit
  <2> QED
    BY <1>10, <1>11, <2>1, <2>3
<1>17. CASE HostRetry
  <2>1. /\ HostRead("resend") \/ toHost' = toHost
        /\ \/ toKernel' = toKernel
           \/ outgoing # NoCommand /\ HostSend(Data(hostNext, outgoing.n, outgoing.api))
        /\ UNCHANGED <<hostNext, hostExpected, resetting, outgoing, waiting, got, issued,
                       breakIns, resets, faults>>
    BY <1>17 DEF HostRetry, hostVars, counts
  <2>2. toHost' \in Seq(Message) /\ Len(toHost') <= LineSize
    BY <1>7, <1>8, <2>1
  <2>3. outgoing # NoCommand => Data(hostNext, outgoing.n, outgoing.api) \in Message
    BY <1>4, <1>8, MessageTypes
  <2>4. toKernel' \in Seq(Message) /\ Len(toKernel') <= LineSize
    BY <1>6, <1>8, <2>1, <2>3
  <2>5. TypeOK'
    BY <1>1, <1>2, <1>4, <1>8, <2>1, <2>2, <2>4, HostTypeSplit
  <2> QED
    BY <1>10, <2>1, <2>5
<1>18. ASSUME NEW api \in Apis, HostCommand(api)
       PROVE  TypeOK' /\ Counts'
  <2>1. /\ issued < MaxCommands /\ issued' = issued + 1 /\ outgoing' = [n |-> issued + 1, api |-> api]
        /\ waiting' = TRUE /\ HostSend(Data(hostNext, issued + 1, api))
        /\ UNCHANGED <<hostNext, hostExpected, resetting, toHost, got, breakIns, resets, faults>>
    BY <1>18 DEF HostCommand, counts
  <2>2. issued + 1 \in 0 .. MaxCommands /\ issued + 1 \in Nat /\ issued + 1 > 0
    BY <1>4, <2>1
  <2>3. Data(hostNext, issued + 1, api) \in Message
    BY <1>4, <2>2, MessageTypes
  <2>4. toKernel' \in Seq(Message) /\ Len(toKernel') <= LineSize
    BY <1>6, <2>1, <2>3
  <2>5. TypeOK'
    BY <1>1, <1>2, <1>4, <1>5, <1>8, <2>1, <2>2, <2>4, HostTypeSplit
  <2>6. outgoing'.n = issued' /\ issued' > 0
    BY <2>1, <2>2
  <2> QED
    BY <1>1, <1>2, <1>3, <2>5, <2>6 DEF Counts
<1>19. CASE Lose
  <2>1. /\ \/ toHost # <<>> /\ toHost' = Tail(toHost) /\ toKernel' = toKernel
           \/ toKernel # <<>> /\ toKernel' = Tail(toKernel) /\ toHost' = toHost
        /\ faults' = faults + 1
        /\ UNCHANGED <<hostNext, hostExpected, resetting, outgoing, waiting, got, issued, breakIns, resets>>
    BY <1>19 DEF Lose, hostVars
  <2>2. /\ toHost' \in Seq(Message) /\ Len(toHost') <= LineSize
        /\ toKernel' \in Seq(Message) /\ Len(toKernel') <= LineSize
    BY <1>1, <1>8, <2>1, LineTypes, KernelLineTypes
  <2>3. TypeOK'
    BY <1>1, <1>2, <1>4, <1>8, <2>1, <2>2, HostTypeSplit
  <2> QED
    BY <1>10, <2>1, <2>3
<1> QED
  BY <1>12, <1>13, <1>14, <1>15, <1>16, <1>17, <1>18, <1>19 DEF HostStep

-----------------------------------------------------------------------------
(* The kernel's packets. *)

\* An acknowledgement, or nothing, on the line to the host.
LEMMA KernelPuts ==
  ASSUME Inv, UNCHANGED <<resetting, hostExpected, got, sent>>, KernelSends' => KernelSends /\ next' = next,
         NEW m \in Message, m.kind \in {"ack", "resend"}, toHost' \in {toHost, Put(toHost, m)}
  PROVE  ToHostInv'
<1>1. TypeOK /\ ToHostInv
  BY DEF Inv
<1>2. toHost \in Seq(Message) /\ sent \in Nat /\ LastOf(got) \in Nat /\ next \in Ids /\ hostExpected \in Ids
      /\ m.kind # "data" /\ m.kind # "reset"
  BY <1>1, LastTypes DEF TypeOK, Inv
<1>3. Side(toHost', sent, LastOf(got))
  BY <1>1, <1>2, SidePut DEF ToHostInv
<1>4. ~ resetting => Settled(toHost', LastOf(got), hostExpected)
  BY <1>1, <1>2, SettledPut DEF ToHostInv
<1>5. KernelSends => Sending(toHost', sent, LastOf(got), next)
  BY <1>1, <1>2, SendingPut DEF ToHostInv
<1>6. LastOf(got)' = LastOf(got)
  BY DEF LastOf
<1> QED
  BY <1>1, <1>3, <1>4, <1>5, <1>6 DEF ToHostInv, Increasing

\* A reset on the line to the host, which ends a packet, or nothing.
LEMMA KernelResets ==
  ASSUME Inv, UNCHANGED <<resetting, hostExpected, got, sent>>, ~ KernelSends',
         KdpSendControlPacket("reset", 0)
  PROVE  ToHostInv'
<1>1. TypeOK /\ ToHostInv
  BY DEF Inv
<1>2. toHost \in Seq(Message) /\ sent \in Nat /\ LastOf(got) \in Nat /\ next \in Ids /\ hostExpected \in Ids
  BY <1>1, LastTypes DEF TypeOK, Inv
<1>3. /\ Control("reset", 0) \in Message /\ Control("reset", 0).kind # "data"
      /\ toHost' = Put(toHost, Control("reset", 0))
  BY MessageTypes DEF Ids, KdpSendControlPacket, KdpSendString
<1>4. Side(toHost', sent, LastOf(got))
  BY <1>1, <1>2, <1>3, SidePut DEF ToHostInv
<1>5. ~ resetting => Settled(toHost', LastOf(got), hostExpected)
  BY <1>1, <1>2, <1>3, SettledPut DEF ToHostInv
<1>6. LastOf(got)' = LastOf(got)
  BY DEF LastOf
<1> QED
  BY <1>1, <1>4, <1>5, <1>6 DEF ToHostInv, Increasing

\* A packet that was not sent before.
LEMMA KernelMakes ==
  ASSUME Inv, UNCHANGED <<resetting, hostExpected, got, toHost, next>>, sent' = sent + 1
  PROVE  ToHostInv'
<1>1. TypeOK /\ ToHostInv
  BY DEF Inv
<1>2. toHost \in Seq(Message) /\ sent \in Nat /\ LastOf(got) \in Nat /\ next \in Ids
  BY <1>1, LastTypes DEF TypeOK, Inv
<1>3. Side(toHost, sent + 1, LastOf(got)) /\ Sending(toHost, sent + 1, LastOf(got), next)
      /\ LastOf(got) # sent + 1
  BY <1>1, <1>2, SideNewer DEF ToHostInv
<1>4. LastOf(got)' = LastOf(got)
  BY DEF LastOf
<1> QED
  BY <1>1, <1>3, <1>4 DEF ToHostInv, Agreed, Increasing

LEMMA KernelToHost ==
  ASSUME Inv, KernelStep
  PROVE  ToHostInv'
<1>1. TypeOK /\ Counts /\ ToHostInv
  BY DEF Inv
<1>2. UNCHANGED <<resetting, hostExpected, got>>
  BY KernelKeeps DEF hostVars
<1>3. CASE KdSendPacket
  <2>1. /\ pc = "send" /\ UNCHANGED <<next, sent>>
        /\ toHost' = Put(toHost, Data(next, sent, "query"))
    BY <1>3 DEF KdSendPacket, KdpSendString
  <2>2. KernelSends
    BY <2>1 DEF KernelSends
  <2>3. toHost \in Seq(Message) /\ sent \in Nat /\ sent > 0 /\ LastOf(got) \in Nat
        /\ next \in Ids /\ hostExpected \in Ids
    BY <1>1, <2>2, LastTypes DEF TypeOK, Counts
  <2> DEFINE m == Data(next, sent, "query")
  <2>4. m \in Message /\ m.kind = "data" /\ m.id = next /\ m.n = sent
    BY <2>3, MessageTypes DEF Apis
  <2> HIDE DEF m
  <2>5. Sending(toHost, sent, LastOf(got), next)
    BY <1>1, <2>2 DEF ToHostInv
  <2>6. Side(Put(toHost, m), sent, LastOf(got))
    BY <1>1, <2>3, <2>4, <2>5, SidePut DEF ToHostInv
  <2>7. Sending(Put(toHost, m), sent, LastOf(got), next)
    BY <2>3, <2>4, <2>5, SendingPut
  <2>8. ~ resetting => Settled(Put(toHost, m), LastOf(got), hostExpected)
    BY <1>1, <2>2, <2>3, <2>4, SettledPut DEF ToHostInv, Agreed
  <2>9. toHost' = Put(toHost, m) /\ LastOf(got)' = LastOf(got)
    BY <1>2, <2>1 DEF m, LastOf
  <2> QED
    BY <1>1, <1>2, <2>1, <2>2, <2>6, <2>7, <2>8, <2>9 DEF ToHostInv, Increasing
<1>4. CASE KdpSendStateChange \/ AnswerRequest \/ Continue
  <2>1. UNCHANGED <<toHost, next>> /\ sent' = sent + 1
    BY <1>4 DEF KdpSendStateChange, AnswerRequest, Continue, Answer, lines
  <2> QED
    BY <1>2, <2>1, KernelMakes
<1>5. CASE ReceiveReset \/ KdWakeUpDebugger
  <2>1. /\ KdpSendControlPacket("reset", 0) /\ sent' = sent
        /\ pc' = "reset" \/ (Receiving /\ pc' = Received)
    BY <1>5 DEF ReceiveReset, KdWakeUpDebugger, Read
  <2>2. ~ KernelSends'
    BY <1>1, <2>1, Leads DEF KernelSends
  <2> QED
    BY <1>2, <2>1, <2>2, KernelResets
<1> DEFINE Quiet == /\ sent' = sent /\ (KernelSends' => KernelSends /\ next' = next)
                    /\ \/ toHost' = toHost
                       \/ \E kind \in {"ack", "resend"}, id \in Ids : KdpSendControlPacket(kind, id)
<1>6. ASSUME Quiet PROVE ToHostInv'
  <2>1. CASE toHost' = toHost
    <3>1. Control("ack", 0) \in Message /\ Control("ack", 0).kind = "ack"
      BY MessageTypes DEF Ids
    <3> QED
      BY <1>2, <1>6, <2>1, <3>1, KernelPuts
  <2>2. ASSUME NEW kind \in {"ack", "resend"}, NEW id \in Ids, KdpSendControlPacket(kind, id)
        PROVE  ToHostInv'
    <3>1. Control(kind, id) \in Message /\ Control(kind, id).kind = kind
      BY MessageTypes
    <3>2. toHost' = Put(toHost, Control(kind, id))
      BY <2>2 DEF KdpSendControlPacket, KdpSendString
    <3> QED
      BY <1>2, <1>6, <3>1, <3>2, KernelPuts
  <2> QED
    BY <1>6, <2>1, <2>2
<1>7. ASSUME NEW kind, Read(kind)
      PROVE  Receiving /\ Head(toKernel).id \in Ids
  BY <1>1, <1>7, KernelLineTypes DEF Read
<1>8. CASE TimeOut \/ ReceiveBreakIn \/ ReceiveResend
  <2>1. /\ Receiving /\ pc' \in {NotReceived, Received} /\ UNCHANGED <<sent, next, toHost>>
    BY <1>7, <1>8 DEF TimeOut, ReceiveBreakIn, ReceiveResend, lines
  <2>2. KernelSends' => KernelSends
    BY <1>1, <2>1, Leads DEF KernelSends
  <2> QED
    BY <1>6, <2>1, <2>2
<1>9. CASE ReceiveAcknowledge
  <2>1. /\ Receiving /\ UNCHANGED <<sent, toHost>>
        /\ pc' = Received \/ UNCHANGED <<next, pc>>
    BY <1>7, <1>9 DEF ReceiveAcknowledge, Acknowledged
  <2>2. KernelSends' => KernelSends /\ next' = next
    BY <1>1, <2>1, Leads DEF KernelSends
  <2> QED
    BY <1>6, <2>1, <2>2
<1>10. CASE DataInsteadOfAck
  <2>1. Receiving /\ Head(toKernel).id \in Ids
    BY <1>7, <1>10 DEF DataInsteadOfAck
  <2>2. /\ sent' = sent /\ (pc' = Received \/ UNCHANGED <<next, pc>>)
        /\ KdpSendControlPacket("resend", 0) \/ KdpSendControlPacket("ack", Head(toKernel).id)
    BY <1>10 DEF DataInsteadOfAck
  <2>3. KernelSends' => KernelSends /\ next' = next
    BY <1>1, <2>1, <2>2, Leads DEF KernelSends
  <2>4. 0 \in Ids
    BY DEF Ids
  <2> QED
    BY <1>6, <2>1, <2>2, <2>3, <2>4
<1>11. CASE UnexpectedType \/ ReceiveDamaged
  <2>1. Head(toKernel).id \in Ids /\ 0 \in Ids
    BY <1>7, <1>11 DEF UnexpectedType, ReceiveDamaged, Ids
  <2>2. /\ UNCHANGED <<sent, next, pc>>
        /\ KdpSendControlPacket("resend", 0) \/ KdpSendControlPacket("ack", Head(toKernel).id)
    BY <1>11 DEF UnexpectedType, ReceiveDamaged, kernelVars
  <2> QED
    BY <1>6, <2>1, <2>2 DEF KernelSends
<1>12. CASE ReceiveCommand
  <2>1. Head(toKernel).id \in Ids
    BY <1>7, <1>12 DEF ReceiveCommand, Command
  <2>2. /\ UNCHANGED <<sent, next>> /\ (pc' = pc \/ pc' = "reply")
        /\ KdpSendControlPacket("ack", Head(toKernel).id)
    BY <1>12 DEF ReceiveCommand, Command
  <2> QED
    BY <1>6, <2>1, <2>2 DEF KernelSends
<1>13. CASE CauseBugCheck \/ EndSession \/ KdPollBreakIn
  <2>1. UNCHANGED <<sent, next, toHost>> /\ (pc' = pc \/ pc' \in {"stuck", "idle", "poll"})
    BY <1>13 DEF CauseBugCheck, EndSession, KdPollBreakIn, lines
  <2> QED
    BY <1>6, <2>1 DEF KernelSends
<1> QED
  BY <1>3, <1>4, <1>5, <1>8, <1>9, <1>10, <1>11, <1>12, <1>13 DEF KernelStep

\* A sequence of numbers up to a bound is one of numbers.
LEMMA NumbersOf ==
  ASSUME NEW bound, NEW s \in Seq(1 .. bound)
  PROVE  s \in Seq(Nat)
<1>1. s = [i \in 1 .. Len(s) |-> s[i]] /\ Len(s) \in Nat
  BY LenProperties
<1>2. \A i \in 1 .. Len(s) : s[i] \in 1 .. bound
  BY ElementOfSeq
<1>3. s \in [1 .. Len(s) -> Nat]
  BY <1>1, <1>2
<1> QED
  BY <1>1, <1>3, SeqDef

LEMMA HostToHost ==
  ASSUME Inv, HostStep \/ Lose
  PROVE  ToHostInv'
<1>1. TypeOK /\ Counts /\ ToHostInv
  BY DEF Inv
<1>2. UNCHANGED <<pc, next, sent>>
  BY HostKeeps DEF kernelVars
<1>3. /\ toHost \in Seq(Message) /\ sent \in Nat /\ LastOf(got) \in Nat /\ next \in Ids
      /\ hostExpected \in Ids /\ KernelSends' = KernelSends /\ got \in Seq(Nat)
  <2>1. got \in Seq(Nat)
    BY <1>1, NumbersOf DEF TypeOK
  <2> QED
    BY <1>1, <1>2, <2>1, LastTypes DEF TypeOK, KernelSends
\* The line to the host is as it was or has lost its head; so has the host its ids.
<1>4. ASSUME UNCHANGED <<hostExpected, got>>, resetting' = resetting \/ resetting',
             toHost' = toHost \/ (toHost # <<>> /\ toHost' = Tail(toHost))
      PROVE  ToHostInv'
  <2>1. Side(toHost', sent, LastOf(got))
    BY <1>1, <1>3, <1>4, SideRest DEF ToHostInv
  <2>2. ~ resetting => Settled(toHost', LastOf(got), hostExpected)
    BY <1>1, <1>3, <1>4, SettledRest DEF ToHostInv
  <2>3. KernelSends => Sending(toHost', sent, LastOf(got), next)
    BY <1>1, <1>3, <1>4, SendingRest DEF ToHostInv
  <2>4. LastOf(got)' = LastOf(got)
    BY <1>4 DEF LastOf
  <2> QED
    BY <1>1, <1>2, <1>3, <1>4, <2>1, <2>2, <2>3, <2>4 DEF ToHostInv, Increasing
<1>5. CASE HostReset
  <2>1. resetting' /\ UNCHANGED <<toHost, got>>
    BY <1>5 DEF HostReset
  <2>2. LastOf(got)' = LastOf(got)
    BY <2>1 DEF LastOf
  <2> QED
    BY <1>1, <1>2, <1>3, <2>1, <2>2 DEF ToHostInv, Increasing
<1>6. CASE HostReceiveReset
  <2>1. toHost # <<>> /\ Head(toHost).kind = "reset" /\ toHost' = Tail(toHost) /\ UNCHANGED got
    BY <1>6 DEF HostReceiveReset, HostRead
  <2>2. Side(toHost', sent, LastOf(got))
    BY <1>1, <1>3, <2>1, SideRest DEF ToHostInv
  <2>3. Settled(toHost', LastOf(got), hostExpected')
    BY <1>1, <1>3, <2>1, SettledReset DEF ToHostInv
  <2>4. KernelSends => Sending(toHost', sent, LastOf(got), next)
    BY <1>1, <1>3, <2>1, SendingRest DEF ToHostInv
  <2>5. KernelSends => LastOf(got) # sent
    BY <1>1, <1>3, <2>1, ResetNotLast DEF ToHostInv
  <2>6. LastOf(got)' = LastOf(got)
    BY <2>1 DEF LastOf
  <2> QED
    BY <1>1, <1>2, <1>3, <2>1, <2>2, <2>3, <2>4, <2>5, <2>6 DEF ToHostInv, Increasing, Agreed
<1>7. CASE HostReceiveData
  <2>1. /\ toHost # <<>> /\ Head(toHost).kind = "data" /\ toHost' = Tail(toHost)
        /\ resetting' = resetting
        /\ \/ UNCHANGED <<hostExpected, got>>
           \/ /\ ~ resetting /\ Head(toHost).id = hostExpected
              /\ hostExpected' = 1 - hostExpected /\ got' = Append(got, Head(toHost).n)
    BY <1>7 DEF HostReceiveData, HostRead
  <2>2. CASE UNCHANGED <<hostExpected, got>>
    BY <1>4, <2>1, <2>2
  <2>3. CASE /\ ~ resetting /\ Head(toHost).id = hostExpected
             /\ hostExpected' = 1 - hostExpected /\ got' = Append(got, Head(toHost).n)
    <3>1. /\ Head(toHost).n \in 1 .. sent /\ LastOf(got) < Head(toHost).n
          /\ Side(toHost', sent, Head(toHost).n)
          /\ Settled(toHost', Head(toHost).n, 1 - hostExpected)
      BY <1>1, <1>3, <2>1, <2>3, SideAccept DEF ToHostInv
    <3>2. KernelSends => /\ Sending(toHost', sent, Head(toHost).n, next)
                         /\ Head(toHost).n = sent => Head(toHost).id = next
      BY <1>1, <1>3, <2>1, <2>3, SendingAccept DEF ToHostInv
    <3>3. Head(toHost).n \in Nat
      BY <3>1
    <3>4. Increasing(got') /\ LastOf(got') = Head(toHost).n
      BY <1>1, <1>3, <2>3, <3>1, <3>3, IncreasingAppend DEF ToHostInv
    <3>5. KernelSends => Agreed(sent, Head(toHost).n, next, 1 - hostExpected)
      BY <1>3, <2>3, <3>2 DEF Agreed, Ids
    <3>6. LastOf(got)' = Head(toHost).n /\ Increasing(got)'
      BY <3>4 DEF LastOf, Increasing
    <3> QED
      BY <1>2, <1>3, <2>1, <2>3, <3>1, <3>2, <3>5, <3>6 DEF ToHostInv
  <2> QED
    BY <2>1, <2>2, <2>3
<1>8. CASE HostReceiveDamaged \/ HostReceiveAck
  BY <1>4, <1>8 DEF HostReceiveDamaged, HostReceiveAck, HostRead, hostVars
<1>9. CASE HostRetry
  BY <1>4, <1>9 DEF HostRetry, HostRead, hostVars
<1>10. CASE HostBreakIn \/ Lose
  BY <1>4, <1>10 DEF HostBreakIn, Lose, hostVars
<1>11. ASSUME NEW api \in Apis, HostCommand(api)
       PROVE  ToHostInv'
  BY <1>4, <1>11 DEF HostCommand
<1> QED
  BY <1>5, <1>6, <1>7, <1>8, <1>9, <1>10, <1>11 DEF HostStep

-----------------------------------------------------------------------------
(* The host's commands. *)

LEMMA KernelToKernel ==
  ASSUME Inv, KernelStep
  PROVE  ToKernelInv'
<1>1. TypeOK /\ Counts /\ ToKernelInv
  BY DEF Inv
<1>2. UNCHANGED <<issued, outgoing, hostNext>> /\ HostSends' = HostSends
  BY KernelKeeps DEF hostVars, HostSends
<1>3. /\ toKernel \in Seq(Message) /\ issued \in Nat /\ Accepted \in Nat /\ hostNext \in Ids
      /\ expected \in Ids /\ served \in Seq(Nat)
  <2>1. served \in Seq(Nat)
    BY <1>1, NumbersOf DEF TypeOK
  <2> QED
    BY <1>1, <2>1, LastTypes DEF TypeOK
\* The kernel accepts nothing, and reads or leaves its line.
<1>4. ASSUME UNCHANGED <<expected, served>>, pc # "reply", pc' # "reply",
             toKernel' = toKernel \/ (toKernel # <<>> /\ toKernel' = Tail(toKernel))
      PROVE  ToKernelInv'
  <2>1. Side(toKernel', issued, Accepted)
    BY <1>1, <1>3, <1>4, SideRest DEF ToKernelInv
  <2>2. Settled(toKernel', Accepted, expected)
    BY <1>1, <1>3, <1>4, SettledRest DEF ToKernelInv
  <2>3. HostSends => Sending(toKernel', issued, Accepted, hostNext)
    BY <1>1, <1>3, <1>4, SendingRest DEF ToKernelInv
  <2>4. Accepted' = Accepted
    BY <1>4 DEF Accepted, LastOf
  <2> QED
    BY <1>1, <1>2, <1>4, <2>1, <2>2, <2>3, <2>4 DEF ToKernelInv
<1>5. CASE KdSendPacket \/ KdpSendStateChange \/ KdWakeUpDebugger \/ EndSession \/ KdPollBreakIn
  <2>1. /\ UNCHANGED <<expected, served, toKernel>> /\ pc # "reply"
        /\ pc' = pc \/ pc' \in {"ack", "send", "reset", "idle", "poll"}
    BY <1>5 DEF KdSendPacket, KdpSendStateChange, KdWakeUpDebugger, EndSession, KdPollBreakIn, lines
  <2> QED
    BY <1>4, <2>1
<1>6. CASE \/ TimeOut \/ ReceiveBreakIn \/ ReceiveResend \/ ReceiveAcknowledge \/ UnexpectedType
           \/ ReceiveDamaged
  <2>1. /\ UNCHANGED <<expected, served>> /\ Receiving
        /\ toKernel' = toKernel \/ (toKernel # <<>> /\ toKernel' = Tail(toKernel))
        /\ \/ pc' \in {pc, NotReceived}
           \/ Wanted \in {"breakin", "ack"} /\ pc' = Received
    BY <1>6 DEF TimeOut, ReceiveBreakIn, ReceiveResend, ReceiveAcknowledge, Acknowledged, UnexpectedType,
                ReceiveDamaged, Read, kernelVars, lines
  <2>2. pc # "reply" /\ pc' # "reply"
    BY <1>1, <2>1, Leads
  <2> QED
    BY <1>4, <2>1, <2>2
\* A reset, which may have the command served that a packet has left behind.
<1>7. CASE ReceiveReset
  <2>1. /\ toKernel # <<>> /\ Head(toKernel).kind = "reset" /\ toKernel' = Tail(toKernel)
        /\ expected' = 0 /\ UNCHANGED <<command, served>> /\ Receiving /\ pc' = Received
    BY <1>7 DEF ReceiveReset, Read
  <2>2. Accepted' \in Nat /\ Side(toKernel, issued, Accepted') /\ (HostSends => Accepted' # issued)
    <3>1. CASE pc' = "reply" /\ command.n # 0
      <4>1. pc = "serve" /\ Accepted' = command.n /\ command.n \in Nat
        BY <1>1, <2>1, <3>1, Leads, HeaderTypes DEF Accepted, TypeOK
      <4>2. BeforeReset(command.n)
        BY <3>1, <4>1 DEF Inv, ServedInv
      <4>3. ~ NoReset(toKernel)
        BY <1>3, <2>1, RestOf DEF NoReset
      <4> QED
        BY <1>1, <4>1, <4>2, <4>3 DEF BeforeReset, ToKernelInv, Side
    <3>2. CASE ~ (pc' = "reply" /\ command.n # 0)
      <4>1. Accepted' = Accepted
        BY <1>1, <2>1, <3>2, Leads DEF Accepted, LastOf
      <4>2. HostSends => Accepted # issued
        BY <1>1, <1>3, <2>1, ResetNotLast DEF ToKernelInv
      <4> QED
        BY <1>1, <1>3, <4>1, <4>2 DEF ToKernelInv
    <3> QED
      BY <3>1, <3>2
  <2>3. Side(toKernel', issued, Accepted')
    BY <1>3, <2>1, <2>2, SideRest
  <2>4. Settled(toKernel', Accepted', expected')
    BY <1>3, <2>1, <2>2, SettledReset
  <2>5. HostSends => Sending(toKernel', issued, Accepted, hostNext)
    BY <1>1, <1>3, <2>1, SendingRest DEF ToKernelInv
  <2>6. HostSends => Sending(toKernel', issued, Accepted', hostNext)
    BY <2>2, <2>5 DEF Sending
  <2> QED
    BY <1>2, <2>2, <2>3, <2>4, <2>6 DEF ToKernelInv, Agreed
<1>8. CASE DataInsteadOfAck
  <2>1. /\ toKernel # <<>> /\ Head(toKernel).kind = "data" /\ toKernel' = Tail(toKernel)
        /\ served' = served /\ Receiving /\ Wanted = "ack" /\ pc' \in {pc, Received}
        /\ \/ expected' = expected
           \/ Head(toKernel).id = expected /\ expected' = 1 - expected
    BY <1>8 DEF DataInsteadOfAck, Read
  <2>2. pc # "reply" /\ pc' # "reply"
    BY <1>1, <2>1, Leads
  <2>3. CASE expected' = expected
    BY <1>4, <2>1, <2>2, <2>3
  <2>4. CASE Head(toKernel).id = expected /\ expected' = 1 - expected
    <3>1. Side(toKernel', issued, Accepted)
      BY <1>1, <1>3, <2>1, SideRest DEF ToKernelInv
    <3>2. Settled(toKernel', Accepted, expected') /\ Accepted # issued
      BY <1>1, <1>3, <2>1, <2>4, SettledSkip DEF ToKernelInv
    <3>3. HostSends => Sending(toKernel', issued, Accepted, hostNext)
      BY <1>1, <1>3, <2>1, SendingRest DEF ToKernelInv
    <3>4. Accepted' = Accepted
      BY <2>1, <2>2 DEF Accepted, LastOf
    <3> QED
      BY <1>1, <1>2, <3>1, <3>2, <3>3, <3>4 DEF ToKernelInv, Agreed
  <2> QED
    BY <2>1, <2>3, <2>4
<1>9. CASE ReceiveCommand
  <2>1. /\ toKernel # <<>> /\ Head(toKernel).kind = "data" /\ toKernel' = Tail(toKernel)
        /\ served' = served /\ Receiving /\ command' = HeaderRead
        /\ \/ UNCHANGED <<expected, pc>>
           \/ Head(toKernel).id = expected /\ expected' = 1 - expected /\ pc' = "reply"
    BY <1>9 DEF ReceiveCommand, Command, Read
  <2>2. pc # "reply"
    BY <1>1, <2>1, Leads
  <2>3. CASE UNCHANGED <<expected, pc>>
    BY <1>4, <2>1, <2>2, <2>3
  <2>4. CASE Head(toKernel).id = expected /\ expected' = 1 - expected /\ pc' = "reply"
    <3>1. /\ Head(toKernel).n \in 1 .. issued
          /\ Side(toKernel', issued, Head(toKernel).n)
          /\ Settled(toKernel', Head(toKernel).n, 1 - expected)
      BY <1>1, <1>3, <2>1, <2>4, SideAccept DEF ToKernelInv
    <3>2. HostSends => /\ Sending(toKernel', issued, Head(toKernel).n, hostNext)
                       /\ Head(toKernel).n = issued => Head(toKernel).id = hostNext
      BY <1>1, <1>3, <2>1, <2>4, SendingAccept DEF ToKernelInv
    <3>3. HostSends => Agreed(issued, Head(toKernel).n, hostNext, 1 - expected)
      BY <1>3, <2>4, <3>2 DEF Agreed, Ids
    <3>4. Accepted' = Head(toKernel).n
      BY <1>3, <2>1, <2>4, <3>1 DEF Accepted, HeaderRead
    <3> QED
      BY <1>2, <2>4, <3>1, <3>2, <3>3, <3>4 DEF ToKernelInv
  <2> QED
    BY <2>1, <2>3, <2>4
<1>10. CASE AnswerRequest \/ Continue \/ CauseBugCheck
  <2>1. /\ pc = "reply" /\ pc' # "reply" /\ UNCHANGED <<toKernel, expected>> /\ Serve
    BY <1>10 DEF AnswerRequest, Continue, CauseBugCheck, Answer, lines
  <2>2. Accepted' = Accepted
    <3>1. CASE command.n = 0
      BY <2>1, <3>1 DEF Serve, Accepted, LastOf
    <3>2. CASE command.n # 0
      <4>1. served' = Append(served, command.n) /\ command.n \in Nat \ {0}
        BY <1>1, <2>1, <3>2, HeaderTypes DEF Serve, TypeOK
      <4>2. LastOf(served)' = command.n
        <5>1. LastOf(Append(served, command.n)) = command.n
          BY <1>3, <4>1, LastAppend
        <5> QED
          BY <4>1, <5>1 DEF LastOf
      <4> QED
        BY <2>1, <3>2, <4>2 DEF Accepted
    <3> QED
      BY <3>1, <3>2
  <2> QED
    BY <1>1, <1>2, <2>1, <2>2 DEF ToKernelInv
<1> QED
  BY <1>5, <1>6, <1>7, <1>8, <1>9, <1>10 DEF KernelStep

LEMMA HostToKernel ==
  ASSUME Inv, HostStep \/ Lose
  PROVE  ToKernelInv'
<1>1. TypeOK /\ Counts /\ ToKernelInv
  BY DEF Inv
<1>2. UNCHANGED <<pc, expected, command, served>>
  BY HostKeeps DEF kernelVars
<1>3. /\ toKernel \in Seq(Message) /\ issued \in Nat /\ Accepted \in Nat /\ hostNext \in Ids
      /\ expected \in Ids /\ 0 \in Ids
  BY <1>1, LastTypes DEF TypeOK, Ids
<1>4. Accepted' = Accepted
  BY <1>2 DEF Accepted, LastOf
\* The line as it was, or with a message that is not a command.
<1>5. ASSUME UNCHANGED <<issued, hostNext, outgoing>>, NEW m \in Message, m.kind \notin {"data", "reset"},
             toKernel' \in {toKernel, Put(toKernel, m)}
      PROVE  ToKernelInv'
  <2>1. Side(toKernel', issued, Accepted)
    BY <1>1, <1>3, <1>5, SidePut DEF ToKernelInv
  <2>2. Settled(toKernel', Accepted, expected)
    BY <1>1, <1>3, <1>5, SettledPut DEF ToKernelInv
  <2>3. HostSends => Sending(toKernel', issued, Accepted, hostNext)
    BY <1>1, <1>3, <1>5, SendingPut DEF ToKernelInv
  <2> QED
    BY <1>1, <1>2, <1>4, <1>5, <2>1, <2>2, <2>3 DEF ToKernelInv, HostSends
<1>6. ASSUME NEW kind \in {"ack", "resend", "breakin"}, NEW id \in Ids
      PROVE  Control(kind, id) \in Message /\ Control(kind, id).kind \notin {"data", "reset"}
  BY MessageTypes
<1>7. ASSUME UNCHANGED <<issued, hostNext, outgoing, toKernel>>
      PROVE  ToKernelInv'
  BY <1>3, <1>5, <1>6, <1>7
<1>8. ASSUME outgoing' = NoCommand, issued' = issued,
             toKernel' \in {toKernel, Put(toKernel, Control("reset", 0))}
      PROVE  ToKernelInv'
  <2>1. Control("reset", 0) \in Message /\ Control("reset", 0).kind # "data"
    BY <1>3, MessageTypes
  <2>2. Side(toKernel', issued, Accepted)
    BY <1>1, <1>3, <1>8, <2>1, SidePut DEF ToKernelInv
  <2>3. Settled(toKernel', Accepted, expected)
    BY <1>1, <1>3, <1>8, <2>1, SettledPut DEF ToKernelInv
  <2> QED
    BY <1>2, <1>4, <1>8, <2>2, <2>3 DEF ToKernelInv, HostSends
<1>9. CASE HostReset
  BY <1>8, <1>9 DEF HostReset, Forget, HostSend
<1>10. CASE HostReceiveReset
  <2>1. CASE resetting
    BY <1>7, <1>10, <2>1 DEF HostReceiveReset
  <2>2. CASE ~ resetting
    BY <1>8, <1>10, <2>2 DEF HostReceiveReset, Forget, HostSend
  <2> QED
    BY <2>1, <2>2
<1>11. CASE HostReceiveData
  <2>1. Head(toHost).id \in Ids
    BY <1>1, <1>11, LineTypes DEF HostReceiveData, HostRead
  <2>2. /\ UNCHANGED <<issued, hostNext, outgoing>>
        /\ toKernel' \in {toKernel, Put(toKernel, Control("ack", Head(toHost).id))}
    BY <1>11 DEF HostReceiveData, HostSend
  <2> QED
    BY <1>5, <1>6, <2>1, <2>2
<1>12. CASE HostReceiveDamaged \/ HostBreakIn
  <2>1. /\ UNCHANGED <<issued, hostNext, outgoing>>
        /\ \/ toKernel' = Put(toKernel, Control("resend", 0))
           \/ toKernel' = Put(toKernel, Control("breakin", 0))
    BY <1>12 DEF HostReceiveDamaged, HostBreakIn, HostSend, hostVars
  <2> QED
    BY <1>3, <1>5, <1>6, <2>1
<1>13. CASE HostReceiveAck
  <2>1. UNCHANGED <<issued, toKernel>> /\ (outgoing' = NoCommand \/ UNCHANGED <<outgoing, hostNext>>)
    BY <1>13 DEF HostReceiveAck
  <2> QED
    BY <1>7, <1>8, <2>1
<1>14. CASE HostRetry
  <2>1. UNCHANGED <<issued, hostNext, outgoing>>
    BY <1>14 DEF HostRetry, hostVars
  <2>2. CASE ~ HostSends
    BY <1>7, <1>14, <2>1, <2>2 DEF HostRetry, HostSends
  <2>3. CASE HostSends
    <3> DEFINE m == Data(hostNext, outgoing.n, outgoing.api)
    <3>1. toKernel' = Put(toKernel, m)
      BY <1>14, <2>3 DEF HostRetry, HostSend, HostSends
    <3>2. outgoing.n = issued /\ issued > 0 /\ outgoing.api \in Apis
      BY <1>1, <2>3, HeaderTypes DEF Counts, TypeOK, HostSends
    <3>3. m \in Message /\ m.kind = "data" /\ m.id = hostNext /\ m.n = issued
      BY <1>3, <3>2, MessageTypes
    <3> HIDE DEF m
    <3>4. Sending(toKernel, issued, Accepted, hostNext) /\ Agreed(issued, Accepted, hostNext, expected)
      BY <1>1, <2>3 DEF ToKernelInv
    <3>5. Side(toKernel', issued, Accepted)
      BY <1>1, <1>3, <3>1, <3>2, <3>3, <3>4, SidePut DEF ToKernelInv
    <3>6. Settled(toKernel', Accepted, expected)
      BY <1>1, <1>3, <3>1, <3>3, <3>4, SettledPut DEF ToKernelInv, Agreed
    <3>7. Sending(toKernel', issued, Accepted, hostNext)
      BY <1>3, <3>1, <3>3, <3>4, SendingPut
    <3> QED
      BY <1>1, <1>2, <1>4, <2>1, <3>4, <3>5, <3>6, <3>7 DEF ToKernelInv
  <2> QED
    BY <2>2, <2>3
<1>15. ASSUME NEW api \in Apis, HostCommand(api)
       PROVE  ToKernelInv'
  <2> DEFINE m == Data(hostNext, issued + 1, api)
  <2>1. issued' = issued + 1 /\ toKernel' = Put(toKernel, m) /\ hostNext' = hostNext
    BY <1>15 DEF HostCommand, HostSend
  <2>2. m \in Message /\ m.kind = "data" /\ m.id = hostNext /\ m.n = issued + 1
    BY <1>3, MessageTypes
  <2> HIDE DEF m
  <2>3. /\ Side(toKernel, issued + 1, Accepted) /\ Sending(toKernel, issued + 1, Accepted, hostNext)
        /\ Accepted # issued + 1 /\ issued + 1 \in Nat /\ issued + 1 > 0
    BY <1>1, <1>3, SideNewer DEF ToKernelInv
  <2>4. Side(toKernel', issued + 1, Accepted)
    BY <1>3, <2>1, <2>2, <2>3, SidePut
  <2>5. Settled(toKernel', Accepted, expected)
    BY <1>1, <1>3, <2>1, <2>2, <2>3, SettledPut DEF ToKernelInv
  <2>6. Sending(toKernel', issued + 1, Accepted, hostNext)
    BY <1>3, <2>1, <2>2, <2>3, SendingPut
  <2> QED
    BY <1>2, <1>4, <2>1, <2>3, <2>4, <2>5, <2>6 DEF ToKernelInv, Agreed
<1>16. CASE Lose
  <2>1. UNCHANGED <<issued, hostNext, outgoing>>
    BY <1>16 DEF Lose, hostVars
  <2>2. CASE toKernel' = toKernel
    BY <1>7, <2>1, <2>2
  <2>3. CASE toKernel # <<>> /\ toKernel' = Tail(toKernel)
    <3>1. Side(toKernel', issued, Accepted)
      BY <1>1, <1>3, <2>3, SideRest DEF ToKernelInv
    <3>2. Settled(toKernel', Accepted, expected)
      BY <1>1, <1>3, <2>3, SettledRest DEF ToKernelInv
    <3>3. HostSends => Sending(toKernel', issued, Accepted, hostNext)
      BY <1>1, <1>3, <2>3, SendingRest DEF ToKernelInv
    <3> QED
      BY <1>1, <1>2, <1>4, <2>1, <3>1, <3>2, <3>3 DEF ToKernelInv, HostSends
  <2> QED
    BY <1>16, <2>2, <2>3 DEF Lose
<1> QED
  BY <1>9, <1>10, <1>11, <1>12, <1>13, <1>14, <1>15, <1>16 DEF HostStep

-----------------------------------------------------------------------------
(* The commands that are served. *)

\* What is gone stays gone, and what is before every reset stays so, when messages are read or lost.
LEMMA ServedRest ==
  ASSUME Inv, toKernel # <<>>, toKernel' = Tail(toKernel), UNCHANGED <<issued, HostSends>>,
         NEW n \in Nat
  PROVE  /\ Gone(n) => /\ \A i \in 1 .. Len(toKernel') : IsData(toKernel', i) => n < toKernel'[i].n
                       /\ HostSends' => n < issued'
         /\ BeforeReset(n) => /\ n <= issued' /\ NotBefore(toKernel', n)
                              /\ HostSends' /\ n = issued' => NoReset(toKernel')
<1>1. toKernel \in Seq(Message) /\ issued \in Nat /\ Side(toKernel, issued, Accepted)
  BY DEF Inv, TypeOK, ToKernelInv
<1>2. /\ Len(toKernel') \in Nat
      /\ \A i \in 1 .. Len(toKernel') : i + 1 \in 1 .. Len(toKernel) /\ toKernel'[i] = toKernel[i + 1]
  BY <1>1, RestOf
<1>3. Gone(n) => \A i \in 1 .. Len(toKernel') : IsData(toKernel', i) => n < toKernel'[i].n
  BY <1>2 DEF Gone, IsData
<1>4. BeforeReset(n) => NotBefore(toKernel', n)
  <2>1. BeforeReset(n) => Side(toKernel, issued, n)
    BY <1>1 DEF BeforeReset, Side
  <2> QED
    BY <1>1, <2>1, SideRest DEF Side
<1>5. NoReset(toKernel) => NoReset(toKernel')
  BY <1>2 DEF NoReset
<1> QED
  BY <1>3, <1>4, <1>5 DEF Gone, BeforeReset

\* A reset that is read comes after all copies of the command.
LEMMA ServedReset ==
  ASSUME Inv, toKernel # <<>>, Head(toKernel).kind = "reset", toKernel' = Tail(toKernel),
         UNCHANGED <<issued, HostSends>>, NEW n \in Nat, BeforeReset(n)
  PROVE  /\ \A i \in 1 .. Len(toKernel') : IsData(toKernel', i) => n < toKernel'[i].n
         /\ HostSends' => n < issued'
<1>1. toKernel \in Seq(Message) /\ issued \in Nat
  BY DEF Inv, TypeOK
<1>2. /\ Len(toKernel') \in Nat
      /\ \A i \in 1 .. Len(toKernel') : i + 1 \in 1 .. Len(toKernel) /\ toKernel'[i] = toKernel[i + 1]
      /\ Head(toKernel) = toKernel[1] /\ 1 \in 1 .. Len(toKernel)
  BY <1>1, RestOf
<1>3. \A i \in 1 .. Len(toKernel) : toKernel[i] \in Message /\ toKernel[i].n \in Nat
  <2>1. \A i \in 1 .. Len(toKernel) : toKernel[i] \in Message
    BY <1>1, ElementOfSeq
  <2> QED
    BY <2>1 DEF Message
<1>4. ASSUME NEW i \in 1 .. Len(toKernel'), IsData(toKernel', i)
      PROVE  n < toKernel'[i].n
  <2>1. i + 1 \in 1 .. Len(toKernel) /\ IsData(toKernel, i + 1) /\ 1 \in 1 .. i + 1
    BY <1>2, <1>4 DEF IsData
  <2>2. n <= toKernel[i + 1].n /\ n # toKernel[i + 1].n
    BY <1>2, <2>1 DEF BeforeReset, NotBefore
  <2> QED
    BY <1>2, <1>3, <2>1, <2>2
<1>5. HostSends => n < issued
  BY <1>1, <1>2 DEF BeforeReset, NoReset
<1> QED
  BY <1>4, <1>5

LEMMA KernelServed ==
  ASSUME Inv, KernelStep
  PROVE  ServedInv'
<1>1. TypeOK /\ Counts /\ ToKernelInv /\ ServedInv
  BY DEF Inv
<1>2. UNCHANGED <<issued, outgoing, hostNext>> /\ HostSends' = HostSends
  BY KernelKeeps DEF hostVars, HostSends
<1>3. /\ toKernel \in Seq(Message) /\ issued \in Nat /\ hostNext \in Ids /\ expected \in Ids
      /\ served \in Seq(Nat) /\ LastOf(served) \in Nat /\ command.n \in Nat
      /\ NoCommand.n = 0 /\ \A header \in Garbage : header.n = 0
  <2>1. served \in Seq(Nat)
    BY <1>1, NumbersOf DEF TypeOK
  <2> QED
    BY <1>1, <2>1, LastTypes, HeaderTypes DEF TypeOK
<1> DEFINE GoneThen(n) == /\ \A i \in 1 .. Len(toKernel') : IsData(toKernel', i) => n < toKernel'[i].n
                          /\ HostSends' => n < issued'
           BeforeThen(n) == /\ n <= issued' /\ NotBefore(toKernel', n)
                            /\ HostSends' /\ n = issued' => NoReset(toKernel')
\* Nothing is served: what has to hold of the command that is left or taken.
<1>4. ASSUME served' = served, toKernel' = toKernel \/ (toKernel # <<>> /\ toKernel' = Tail(toKernel)),
             command'.n # 0 =>
                /\ LastOf(served) <= command'.n
                /\ pc' = "serve" => BeforeThen(command'.n)
                /\ command'.n = LastOf(served) => ~ Twice(served) /\ (pc' = "reply" => GoneThen(command'.n))
      PROVE  ServedInv'
  <2>1. Twice(served) => GoneThen(LastOf(served))
    <3>1. CASE toKernel' = toKernel
      BY <1>1, <1>2, <3>1 DEF ServedInv, Gone
    <3>2. CASE toKernel # <<>> /\ toKernel' = Tail(toKernel)
      BY <1>1, <1>2, <1>3, <3>2, ServedRest DEF ServedInv
    <3> QED
      BY <1>4, <3>1, <3>2
  <2>2. LastOf(served)' = LastOf(served) /\ Twice(served)' = Twice(served) /\ Ordered(served)'
    BY <1>1, <1>4 DEF LastOf, Twice, Ordered, ServedInv
  <2>3. \A n : (GoneThen(n) <=> Gone(n)') /\ (BeforeThen(n) <=> BeforeReset(n)')
    BY DEF Gone, BeforeReset
  <2>4. Twice(served)' => Gone(LastOf(served))'
    BY <2>1, <2>2 DEF Gone
  <2>5. pc' = "serve" /\ command'.n # 0 => BeforeReset(command.n)'
    BY <1>4 DEF BeforeReset
  <2>6. pc' = "reply" /\ command'.n # 0 /\ command'.n = LastOf(served)' => Gone(command.n)'
    BY <1>4, <2>2 DEF Gone
  <2> HIDE DEF GoneThen, BeforeThen
  <2> QED
    BY <1>4, <2>2, <2>4, <2>5, <2>6 DEF ServedInv
<1>5. CASE KdSendPacket \/ KdpSendStateChange \/ KdWakeUpDebugger \/ EndSession \/ KdPollBreakIn
  <2>1. UNCHANGED <<command, served, toKernel>> /\ pc \notin {"serve", "reply"}
    BY <1>5 DEF KdSendPacket, KdpSendStateChange, KdWakeUpDebugger, EndSession, KdPollBreakIn, lines
  <2>2. command' = NoCommand
    BY <1>1, <2>1 DEF Counts
  <2> QED
    BY <1>3, <1>4, <2>1, <2>2
<1>6. CASE TimeOut \/ ReceiveBreakIn \/ ReceiveResend
  <2>1. /\ served' = served /\ command' = NoCommand
        /\ toKernel' = toKernel \/ (toKernel # <<>> /\ toKernel' = Tail(toKernel))
    BY <1>6 DEF TimeOut, ReceiveBreakIn, ReceiveResend, Read, lines
  <2> QED
    BY <1>3, <1>4, <2>1
\* A message that leaves the command as it was, or damages it.
<1>7. ASSUME pc # "reply", served' = served, toKernel # <<>>, toKernel' = Tail(toKernel),
             command' \in {command} \cup Garbage, pc' = pc \/ pc # "serve"
      PROVE  ServedInv'
  <2>1. CASE pc = "serve" /\ command' = command
    <3>1. command.n # 0 => BeforeThen(command.n)
      BY <1>1, <1>2, <1>3, <1>7, <2>1, ServedRest DEF ServedInv
    <3> HIDE DEF BeforeThen
    <3> QED
      BY <1>1, <1>3, <1>4, <1>7, <2>1, <3>1 DEF ServedInv
  <2>2. CASE ~ (pc = "serve" /\ command' = command)
    <3>1. command'.n = 0
      BY <1>1, <1>3, <1>7, <2>2 DEF Counts
    <3> QED
      BY <1>4, <1>7, <3>1
  <2> QED
    BY <2>1, <2>2
<1>8. CASE ReceiveAcknowledge \/ DataInsteadOfAck \/ UnexpectedType
  <2>1. /\ Receiving /\ served' = served /\ toKernel # <<>> /\ toKernel' = Tail(toKernel)
        /\ command' = command /\ (pc' = pc \/ Wanted = "ack")
    BY <1>8 DEF ReceiveAcknowledge, Acknowledged, DataInsteadOfAck, UnexpectedType, Read, kernelVars
  <2>2. pc # "reply" /\ (pc' = pc \/ pc # "serve")
    BY <1>1, <2>1, Leads
  <2> QED
    BY <1>7, <2>1, <2>2
\* The header of a command.
<1>9. ASSUME pc = "serve", served' = served, toKernel # <<>>, Head(toKernel).kind = "data",
             toKernel' = Tail(toKernel), command' = HeaderRead,
             \/ pc' = pc
             \/ Head(toKernel).id = expected
      PROVE  ServedInv'
  <2>1. command'.n = Head(toKernel).n /\ Head(toKernel).n \in Nat /\ Accepted = LastOf(served)
    BY <1>1, <1>9, KernelLineTypes DEF HeaderRead, Accepted
  <2>2. /\ LastOf(served) <= Head(toKernel).n /\ Side(toKernel', issued, Head(toKernel).n)
    BY <1>1, <1>3, <1>9, <2>1, SideRead DEF ToKernelInv
  <2>3. BeforeThen(Head(toKernel).n)
    <3>1. HostSends => Sending(toKernel', issued, Head(toKernel).n, hostNext)
      BY <1>1, <1>3, <1>9, <2>1, SendingAccept DEF ToKernelInv
    <3> QED
      BY <1>2, <2>2, <3>1 DEF Side, Sending
  <2>4. Head(toKernel).n = LastOf(served) => ~ Twice(served)
    <3>1. 1 \in 1 .. Len(toKernel) /\ IsData(toKernel, 1) /\ toKernel[1] = Head(toKernel)
      BY <1>3, <1>9, RestOf DEF IsData
    <3>2. Twice(served) => LastOf(served) < Head(toKernel).n
      BY <1>1, <3>1 DEF ServedInv, Gone
    <3> QED
      BY <1>3, <3>2
  <2>5. pc' # pc => Head(toKernel).n # LastOf(served)
    <3>1. pc' # pc => LastOf(served) < Head(toKernel).n
      BY <1>1, <1>3, <1>9, <2>1, SideAccept DEF ToKernelInv
    <3> QED
      BY <1>3, <2>1, <3>1
  <2> HIDE DEF BeforeThen, GoneThen
  <2> QED
    BY <1>4, <1>9, <2>1, <2>2, <2>3, <2>4, <2>5
<1>10. CASE ReceiveCommand
  <2>1. /\ Receiving /\ Wanted = "any" /\ toKernel # <<>> /\ Head(toKernel).kind = "data"
        /\ toKernel' = Tail(toKernel) /\ served' = served /\ command' = HeaderRead
        /\ Head(toKernel).id = expected \/ pc' = pc
    BY <1>10 DEF ReceiveCommand, Command, Read
  <2> QED
    BY <1>1, <1>9, <2>1, Leads
<1>11. CASE ReceiveDamaged
  <2>1. /\ Receiving /\ toKernel # <<>> /\ Head(toKernel).kind = "data"
        /\ toKernel' = Tail(toKernel) /\ served' = served /\ pc' = pc
        /\ command' \in {command} \cup Garbage \/ (Wanted = "any" /\ command' = HeaderRead)
    BY <1>11 DEF ReceiveDamaged, Read
  <2>2. pc # "reply" /\ (Wanted = "any" => pc = "serve")
    BY <1>1, <2>1, Leads
  <2> QED
    BY <1>7, <1>9, <2>1, <2>2
<1>12. CASE ReceiveReset
  <2>1. /\ Receiving /\ toKernel # <<>> /\ Head(toKernel).kind = "reset" /\ toKernel' = Tail(toKernel)
        /\ UNCHANGED <<command, served>> /\ pc' = Received
    BY <1>12 DEF ReceiveReset, Read
  <2>2. CASE command.n = 0
    BY <1>4, <2>1, <2>2
  <2>3. CASE command.n # 0
    <3>1. pc = "serve" /\ pc' = "reply"
      BY <1>1, <1>3, <2>1, <2>3, Leads DEF Counts
    <3>2. GoneThen(command.n)
      BY <1>1, <1>2, <1>3, <2>1, <2>3, <3>1, ServedReset DEF ServedInv
    <3> HIDE DEF BeforeThen, GoneThen
    <3> QED
      BY <1>1, <1>4, <2>1, <2>3, <3>1, <3>2 DEF ServedInv
  <2> QED
    BY <2>2, <2>3
<1>13. CASE AnswerRequest \/ Continue \/ CauseBugCheck
  <2>1. pc = "reply" /\ UNCHANGED toKernel /\ Serve
    BY <1>13 DEF AnswerRequest, Continue, CauseBugCheck, Answer, lines
  <2>2. CASE command.n = 0
    BY <1>3, <1>4, <2>1, <2>2 DEF Serve
  <2>3. CASE command.n # 0
    <3>1. served' = Append(served, command.n) /\ command'.n = 0
      BY <1>3, <2>1, <2>3 DEF Serve
    <3>2. /\ Ordered(served') /\ LastOf(served') = command.n
          /\ Twice(served') => LastOf(served) = command.n
      BY <1>1, <1>3, <2>3, <3>1, OrderedAppend DEF ServedInv
    <3>3. Twice(served') => GoneThen(command.n)
      BY <1>1, <1>2, <2>1, <2>3, <3>2 DEF ServedInv, Gone
    <3>4. Ordered(served)' /\ LastOf(served)' = command.n /\ (Twice(served)' => Gone(LastOf(served))')
      BY <3>2, <3>3 DEF Ordered, LastOf, Twice, Gone
    <3> QED
      BY <3>1, <3>4 DEF ServedInv
  <2> QED
    BY <2>2, <2>3
<1> QED
  BY <1>5, <1>6, <1>8, <1>10, <1>11, <1>12, <1>13 DEF KernelStep

LEMMA HostServed ==
  ASSUME Inv, HostStep \/ Lose
  PROVE  ServedInv'
<1>1. TypeOK /\ Counts /\ ToKernelInv /\ ServedInv
  BY DEF Inv
<1>2. UNCHANGED <<pc, command, served>>
  BY HostKeeps DEF kernelVars
<1>3. /\ toKernel \in Seq(Message) /\ issued \in Nat /\ hostNext \in Ids /\ 0 \in Ids
      /\ LastOf(served) \in Nat /\ command.n \in Nat /\ Accepted \in Nat
      /\ Side(toKernel, issued, Accepted)
  BY <1>1, LastTypes, HeaderTypes DEF TypeOK, ToKernelInv, Ids
<1>4. LastOf(served) <= issued
  <2>1. Accepted <= issued /\ LastOf(served) <= Accepted
    BY <1>1, <1>3 DEF Side, Accepted, ServedInv
  <2> QED
    BY <1>3, <2>1
<1> DEFINE GoneThen(n) == /\ \A i \in 1 .. Len(toKernel') : IsData(toKernel', i) => n < toKernel'[i].n
                          /\ HostSends' => n < issued'
           BeforeThen(n) == /\ n <= issued' /\ NotBefore(toKernel', n)
                            /\ HostSends' /\ n = issued' => NoReset(toKernel')
\* What has to hold of a command that is gone, and of the one that is left.
<1>5. ASSUME \A n \in Nat : n <= issued /\ Gone(n) => GoneThen(n),
             BeforeReset(command.n) => BeforeThen(command.n)
      PROVE  ServedInv'
  <2>1. LastOf(served)' = LastOf(served) /\ Twice(served)' = Twice(served) /\ Ordered(served)'
    BY <1>1, <1>2 DEF LastOf, Twice, Ordered, ServedInv
  <2>2. Twice(served)' => Gone(LastOf(served))'
    <3>1. Twice(served) => GoneThen(LastOf(served))
      BY <1>1, <1>3, <1>4, <1>5 DEF ServedInv
    <3> QED
      BY <2>1, <3>1 DEF Gone
  <2>3. pc' = "serve" /\ command'.n # 0 => BeforeReset(command.n)'
    <3>1. pc = "serve" /\ command.n # 0 => BeforeThen(command.n)
      BY <1>1, <1>5 DEF ServedInv
    <3> QED
      BY <1>2, <3>1 DEF BeforeReset
  <2>4. pc' = "reply" /\ command'.n # 0 /\ command'.n = LastOf(served)' => Gone(command.n)'
    <3>1. pc = "reply" /\ command.n # 0 /\ command.n = LastOf(served) => GoneThen(command.n)
      BY <1>1, <1>3, <1>4, <1>5 DEF ServedInv
    <3> QED
      BY <1>2, <2>1, <3>1 DEF Gone
  <2> HIDE DEF GoneThen, BeforeThen
  <2> QED
    BY <1>1, <1>2, <2>1, <2>2, <2>3, <2>4 DEF ServedInv
\* The line as it was, or with a message that is not a command; a reset comes when nothing is sent.
<1>6. ASSUME issued' = issued, HostSends' => HostSends, NEW m \in Message, m.kind # "data",
             HostSends' => m.kind # "reset", toKernel' \in {toKernel, Put(toKernel, m)}
      PROVE  ServedInv'
  <2>1. ASSUME NEW n \in Nat, Gone(n)
        PROVE  GoneThen(n)
    <3>1. \A i \in 1 .. Len(toKernel') : IsData(toKernel', i) => i \in 1 .. Len(toKernel) /\ toKernel'[i] = toKernel[i]
      BY <1>3, <1>6, PutPlaces DEF IsData
    <3> QED
      BY <1>6, <2>1, <3>1 DEF Gone, IsData
  <2>2. ASSUME BeforeReset(command.n)
        PROVE  BeforeThen(command.n)
    <3>1. Side(toKernel, issued, command.n)
      BY <1>3, <2>2 DEF Side, BeforeReset
    <3>2. Side(toKernel', issued, command.n)
      BY <1>3, <1>6, <3>1, SidePut
    <3>3. HostSends' /\ command.n = issued => NoReset(toKernel')
      <4>1. HostSends' /\ command.n = issued => NoReset(toKernel) /\ m.kind # "reset"
        BY <1>6, <2>2 DEF BeforeReset
      <4>2. \A i \in 1 .. Len(toKernel') : toKernel'[i] = m \/ (i \in 1 .. Len(toKernel) /\ toKernel'[i] = toKernel[i])
        BY <1>3, <1>6, PutPlaces
      <4> QED
        BY <4>1, <4>2 DEF NoReset
    <3> QED
      BY <1>6, <3>2, <3>3 DEF Side
  <2> HIDE DEF GoneThen, BeforeThen
  <2> QED
    BY <1>5, <2>1, <2>2
<1>7. ASSUME NEW kind \in {"ack", "resend", "reset", "breakin"}, NEW id \in Ids
      PROVE  Control(kind, id) \in Message /\ Control(kind, id).kind = kind
  BY MessageTypes
<1>8. ASSUME issued' = issued, HostSends' => HostSends, toKernel' = toKernel
      PROVE  ServedInv'
  <2>1. Control("ack", 0) \in Message /\ Control("ack", 0).kind = "ack"
    BY <1>3, <1>7
  <2> QED
    BY <1>6, <1>8, <2>1
<1>9. CASE HostReset \/ HostReceiveReset
  <2>1. /\ issued' = issued /\ (UNCHANGED <<outgoing, toKernel>> \/ outgoing' = NoCommand)
        /\ toKernel' \in {toKernel, Put(toKernel, Control("reset", 0))}
    BY <1>9 DEF HostReset, HostReceiveReset, Forget, HostSend
  <2>2. issued' = issued
    BY <1>9 DEF HostReset, HostReceiveReset
  <2>3. CASE UNCHANGED <<outgoing, toKernel>>
    BY <1>8, <2>2, <2>3 DEF HostSends
  <2>4. CASE outgoing' = NoCommand
    BY <1>3, <1>6, <1>7, <2>1, <2>2, <2>4 DEF HostSends
  <2> QED
    BY <2>1, <2>3, <2>4
<1>10. CASE HostReceiveData
  <2>1. Head(toHost).id \in Ids
    BY <1>1, <1>10, LineTypes DEF HostReceiveData, HostRead
  <2>2. /\ UNCHANGED <<issued, outgoing>>
        /\ toKernel' \in {toKernel, Put(toKernel, Control("ack", Head(toHost).id))}
    BY <1>10 DEF HostReceiveData, HostSend
  <2>3. HostSends' = HostSends
    BY <2>2 DEF HostSends
  <2> QED
    BY <1>6, <1>7, <2>1, <2>2, <2>3
<1>11. CASE HostReceiveDamaged \/ HostBreakIn
  <2>1. /\ UNCHANGED <<issued, outgoing>>
        /\ \/ toKernel' = Put(toKernel, Control("resend", 0))
           \/ toKernel' = Put(toKernel, Control("breakin", 0))
    BY <1>11 DEF HostReceiveDamaged, HostBreakIn, HostSend, hostVars
  <2>2. HostSends' = HostSends
    BY <2>1 DEF HostSends
  <2> QED
    BY <1>3, <1>6, <1>7, <2>1, <2>2
<1>12. CASE HostReceiveAck
  <2>1. UNCHANGED <<issued, toKernel>> /\ (outgoing' = NoCommand \/ UNCHANGED outgoing)
    BY <1>12 DEF HostReceiveAck
  <2> QED
    BY <1>8, <2>1 DEF HostSends
\* The command is sent, again or for the first time.
<1>13. ASSUME HostSends', NEW m \in Message, m.kind = "data", m.id = hostNext, m.n = issued', issued' > 0,
              toKernel' = Put(toKernel, m),
              \/ HostSends /\ issued' = issued
              \/ issued' = issued + 1
       PROVE  ServedInv'
  <2>1. ASSUME NEW n \in Nat, n <= issued, Gone(n)
        PROVE  GoneThen(n)
    <3>1. n < issued'
      BY <1>3, <1>13, <2>1 DEF Gone
    <3>2. \A i \in 1 .. Len(toKernel') : toKernel'[i] = m \/ (i \in 1 .. Len(toKernel) /\ toKernel'[i] = toKernel[i])
      BY <1>3, <1>13, PutPlaces
    <3> QED
      BY <1>13, <2>1, <3>1, <3>2 DEF Gone, IsData
  <2>2. ASSUME BeforeReset(command.n)
        PROVE  BeforeThen(command.n)
    <3>1. Side(toKernel, issued, command.n)
      BY <1>3, <2>2 DEF Side, BeforeReset
    <3>2. issued' \in Nat /\ Side(toKernel, issued', command.n) /\ Sending(toKernel, issued', command.n, hostNext)
      <4>1. CASE HostSends /\ issued' = issued
        BY <1>1, <1>3, <2>2, <3>1, <4>1 DEF ToKernelInv, Sending, BeforeReset
      <4>2. CASE issued' = issued + 1
        BY <1>3, <3>1, <4>2, SideNewer
      <4> QED
        BY <1>13, <4>1, <4>2
    <3>3. Side(toKernel', issued', command.n)
      BY <1>3, <1>13, <3>2, SidePut
    <3>4. command.n = issued' => NoReset(toKernel')
      <4>1. command.n = issued' => NoReset(toKernel)
        BY <3>2 DEF Sending
      <4> QED
        BY <1>3, <1>13, <4>1, PutPlaces DEF NoReset
    <3> QED
      BY <3>3, <3>4 DEF Side
  <2> HIDE DEF GoneThen, BeforeThen
  <2> QED
    BY <1>5, <2>1, <2>2
<1>14. CASE HostRetry
  <2>1. UNCHANGED <<issued, outgoing>> /\ HostSends' = HostSends
    BY <1>14 DEF HostRetry, hostVars, HostSends
  <2>2. CASE ~ HostSends
    BY <1>8, <1>14, <2>1, <2>2 DEF HostRetry, HostSends
  <2>3. CASE HostSends
    <3> DEFINE m == Data(hostNext, outgoing.n, outgoing.api)
    <3>1. toKernel' = Put(toKernel, m)
      BY <1>14, <2>3 DEF HostRetry, HostSend, HostSends
    <3>2. outgoing.n = issued /\ issued > 0 /\ outgoing.api \in Apis
      BY <1>1, <2>3, HeaderTypes DEF Counts, TypeOK, HostSends
    <3>3. m \in Message /\ m.kind = "data" /\ m.id = hostNext /\ m.n = issued
      BY <1>3, <3>2, MessageTypes
    <3> HIDE DEF m
    <3> QED
      BY <1>13, <2>1, <2>3, <3>1, <3>2, <3>3
  <2> QED
    BY <2>2, <2>3
<1>15. ASSUME NEW api \in Apis, HostCommand(api)
       PROVE  ServedInv'
  <2> DEFINE m == Data(hostNext, issued + 1, api)
  <2>1. issued' = issued + 1 /\ toKernel' = Put(toKernel, m) /\ outgoing' = [n |-> issued + 1, api |-> api]
    BY <1>15 DEF HostCommand, HostSend
  <2>2. m \in Message /\ m.kind = "data" /\ m.id = hostNext /\ m.n = issued + 1
    BY <1>3, MessageTypes
  <2> HIDE DEF m
  <2>3. HostSends' /\ issued' > 0
    <3>1. outgoing'.n # 0
      BY <1>3, <2>1
    <3> QED
      BY <1>3, <2>1, <3>1 DEF HostSends, NoCommand
  <2> QED
    BY <1>13, <2>1, <2>2, <2>3
<1>16. CASE Lose
  <2>1. UNCHANGED <<issued, outgoing>> /\ HostSends' = HostSends
    BY <1>16 DEF Lose, hostVars, HostSends
  <2>2. CASE toKernel' = toKernel
    BY <1>8, <2>1, <2>2
  <2>3. CASE toKernel # <<>> /\ toKernel' = Tail(toKernel)
    <3>1. (\A n \in Nat : Gone(n) => GoneThen(n)) /\ (BeforeReset(command.n) => BeforeThen(command.n))
      BY <1>3, <2>1, <2>3, ServedRest
    <3> HIDE DEF GoneThen, BeforeThen
    <3> QED
      BY <1>5, <3>1
  <2> QED
    BY <1>16, <2>2, <2>3 DEF Lose
<1> QED
  BY <1>9, <1>10, <1>11, <1>12, <1>14, <1>15, <1>16 DEF HostStep

-----------------------------------------------------------------------------
(* Packets come once. *)

LEMMA InitInv == Init => Inv
<1> SUFFICES ASSUME Init
             PROVE  Inv
  OBVIOUS
<1>1. <<>> \in Seq(Message) /\ <<>> \in Seq(1 .. MaxPackets) /\ <<>> \in Seq(1 .. MaxCommands)
      /\ Len(<<>>) = 0
  BY EmptySeq
<1>2. LastOf(got) = 0 /\ LastOf(served) = 0
  BY DEF Init, LastOf
<1>3. TypeOK
  <2>1. /\ LineSize \in Nat /\ 0 <= LineSize /\ 0 \in 0 .. MaxPackets /\ 0 \in 0 .. MaxCommands
        /\ 0 \in 0 .. 0 /\ 0 \in Ids
    BY DebuggerAssumption DEF DebuggerAssumption, Ids
  <2>2. NoCommand \in Headers
    BY HeaderTypes
  <2>3. /\ toHost \in Seq(Message) /\ Len(toHost) <= LineSize
        /\ toKernel \in Seq(Message) /\ Len(toKernel) <= LineSize
        /\ got \in Seq(1 .. MaxPackets) /\ served \in Seq(1 .. MaxCommands)
    BY <1>1, <2>1 DEF Init
  <2> QED
    BY <2>1, <2>2, <2>3 DEF Init, TypeOK
<1>4. Counts
  BY DEF Init, Counts, KernelSends, HostSends
<1>5. /\ Side(<<>>, 0, 0) /\ Increasing(<<>>)
      /\ \A id : Settled(<<>>, 0, id)
  BY <1>1 DEF Side, Numbered, InOrder, NotBefore, Increasing, Settled
<1>6. ToHostInv
  BY <1>2, <1>5 DEF Init, ToHostInv, KernelSends
<1>7. ToKernelInv
  <2>1. Accepted = 0
    BY <1>2 DEF Init, Accepted
  <2> QED
    BY <1>5, <2>1 DEF Init, ToKernelInv, HostSends
<1>8. ServedInv
  <2>1. Ordered(<<>>) /\ ~ Twice(<<>>)
    BY <1>1 DEF Ordered, Twice
  <2>2. command.n = 0
    BY HeaderTypes DEF Init
  <2> QED
    BY <2>1, <2>2 DEF Init, ServedInv
<1> QED
  BY <1>3, <1>4, <1>6, <1>7, <1>8 DEF Inv

LEMMA StepInv == Inv /\ [Next]_vars => Inv'
<1> SUFFICES ASSUME Inv, [Next]_vars
             PROVE  Inv'
  OBVIOUS
<1>1. CASE KernelStep
  BY <1>1, KernelTypes, KernelToHost, KernelToKernel, KernelServed DEF Inv
<1>2. CASE HostStep \/ Lose
  BY <1>2, HostTypes, HostToHost, HostToKernel, HostServed DEF Inv
<1>3. CASE UNCHANGED vars
  <2>1. /\ UNCHANGED <<pc, next, expected, pending, command, after>>
        /\ UNCHANGED <<hostNext, hostExpected, resetting, outgoing, waiting>>
        /\ UNCHANGED <<toHost, toKernel, sent, confirmed, got, issued, served, breakIns, resets, faults>>
    BY <1>3 DEF vars, kernelVars, hostVars, lines, counts
  <2>2. TypeOK'
    BY <2>1 DEF Inv, TypeOK
  <2>3. Counts' /\ ToHostInv' /\ ToKernelInv'
    BY <2>1 DEF Inv, Counts, ToHostInv, ToKernelInv, Accepted, LastOf, KernelSends, HostSends, Increasing
  <2>4. ServedInv'
    BY <2>1 DEF Inv, ServedInv, Ordered, Twice, LastOf, Gone, BeforeReset, HostSends
  <2> QED
    BY <2>2, <2>3, <2>4 DEF Inv
<1> QED
  BY <1>1, <1>2, <1>3 DEF Next

THEOREM InvCorrect == Spec => []Inv
<1>1. Init => Inv
  BY InitInv
<1>2. Inv /\ [Next]_vars => Inv'
  BY StepInv
<1> QED
  BY <1>1, <1>2, PTL DEF Spec

\* The types, and the numbers that both ends' counters stay within.
THEOREM TypeCorrect == Spec => []TypeOK
<1>1. Inv => TypeOK
  BY DEF Inv
<1> QED
  BY <1>1, InvCorrect, PTL

\* The host accepts each data packet of the kernel at most once and in order, although a packet
\* has only one bit of its number, the kernel sends until it is acknowledged (kd.cpp:942-1008),
\* and either end may reset the ids at any time (kd.cpp:733-749).
THEOREM PacketsCorrect == Spec => []PacketsComeOnce
<1>1. Inv => PacketsComeOnce
  BY DEF Inv, ToHostInv, PacketsComeOnce
<1> QED
  BY <1>1, InvCorrect, PTL

-----------------------------------------------------------------------------
(* What is confirmed: what happens on a line. *)

LEMMA RestKeeps ==
  ASSUME NEW line \in Seq(Message), line # <<>>
  PROVE  /\ NoReset(line) => NoReset(Tail(line)) /\ Head(line).kind # "reset"
         /\ OneReset(line) => OneReset(Tail(line))
         /\ QuietAfterReset(line) => QuietAfterReset(Tail(line))
         /\ \A kind, id : Without(line, kind, id)
               => Without(Tail(line), kind, id) /\ ~ (Head(line).kind = kind /\ Head(line).id = id)
         /\ \A id : CommandsLast(line, id) => CommandsLast(Tail(line), id)
         /\ \A id, commandId : AcksLast(line, id, commandId) => AcksLast(Tail(line), id, commandId)
<1> DEFINE rest == Tail(line)
<1>1. /\ Len(rest) \in Nat /\ Len(line) \in Nat \ {0}
      /\ \A i \in 1 .. Len(rest) : i + 1 \in 1 .. Len(line) /\ rest[i] = line[i + 1]
      /\ Head(line) = line[1] /\ 1 \in 1 .. Len(line)
  BY RestOf
<1>2. \A i, j \in 1 .. Len(rest) : (i < j <=> i + 1 < j + 1) /\ (i = j <=> i + 1 = j + 1)
  BY <1>1
<1> HIDE DEF rest
<1>3. NoReset(line) => NoReset(rest) /\ Head(line).kind # "reset"
  BY <1>1 DEF NoReset
<1>4. OneReset(line) => OneReset(rest)
  <2> SUFFICES ASSUME OneReset(line), NEW i \in 1 .. Len(rest), NEW j \in 1 .. Len(rest),
                      rest[i].kind = "reset", rest[j].kind = "reset"
               PROVE  i = j
    BY DEF OneReset
  <2>1. i + 1 = j + 1
    BY <1>1 DEF OneReset
  <2> QED
    BY <1>2, <2>1
<1>5. QuietAfterReset(line) => QuietAfterReset(rest)
  <2> SUFFICES ASSUME QuietAfterReset(line), NEW i \in 1 .. Len(rest), NEW j \in 1 .. Len(rest),
                      rest[i].kind = "reset", i < j
               PROVE  rest[j].kind \notin {"ack", "data", "reset"}
    BY DEF QuietAfterReset
  <2>1. i + 1 < j + 1
    BY <1>2
  <2> QED
    BY <1>1, <2>1 DEF QuietAfterReset
<1>6. \A kind, id : Without(line, kind, id)
         => Without(rest, kind, id) /\ ~ (Head(line).kind = kind /\ Head(line).id = id)
  BY <1>1 DEF Without
<1>7. \A id : CommandsLast(line, id) => CommandsLast(rest, id)
  <2> SUFFICES ASSUME NEW id, CommandsLast(line, id),
                      NEW i \in 1 .. Len(rest), NEW j \in 1 .. Len(rest),
                      i < j, IsData(rest, i), rest[i].id = id, IsData(rest, j)
               PROVE  rest[j].id = id
    BY DEF CommandsLast
  <2>1. i + 1 < j + 1
    BY <1>2
  <2> QED
    BY <1>1, <2>1 DEF CommandsLast, IsData
<1>8. \A id, commandId : AcksLast(line, id, commandId) => AcksLast(rest, id, commandId)
  <2> SUFFICES ASSUME NEW id, NEW commandId, AcksLast(line, id, commandId)
               PROVE  AcksLast(rest, id, commandId)
    OBVIOUS
  <2> SUFFICES ASSUME NEW i \in 1 .. Len(rest), NEW j \in 1 .. Len(rest),
                      i < j, rest[j].kind = "ack",
                      \/ rest[i].kind = "ack" /\ rest[i].id = id
                      \/ IsData(rest, i) /\ rest[i].id = commandId
               PROVE  rest[j].id = id
    BY DEF AcksLast
  <2>1. i + 1 < j + 1 /\ i + 1 \in 1 .. Len(line) /\ j + 1 \in 1 .. Len(line)
    BY <1>1, <1>2
  <2>2. rest[i] = line[i + 1] /\ rest[j] = line[j + 1]
    BY <1>1
  <2> QED
    BY <2>1, <2>2 DEF AcksLast, IsData
<1> QED
  BY <1>3, <1>4, <1>5, <1>6, <1>7, <1>8 DEF rest

\* What the head says of the rest.
LEMMA HeadSays ==
  ASSUME NEW line \in Seq(Message), line # <<>>, NEW id \in Ids, NEW commandId \in Ids
  PROVE  /\ Head(line).kind = "reset" /\ OneReset(line) => NoReset(Tail(line))
         /\ Head(line).kind = "reset" /\ QuietAfterReset(line)
            => NoReset(Tail(line)) /\ \A i : Without(Tail(line), "ack", i) /\ Without(Tail(line), "data", i)
         /\ Head(line).kind = "ack" /\ Head(line).id = id /\ AcksLast(line, id, commandId)
            => Without(Tail(line), "ack", 1 - id)
         /\ Head(line).kind = "data" /\ Head(line).id = commandId /\ AcksLast(line, id, commandId)
            => Without(Tail(line), "ack", 1 - id)
         /\ Head(line).kind = "data" /\ Head(line).id = commandId /\ CommandsLast(line, commandId)
            => Without(Tail(line), "data", 1 - commandId)
<1> DEFINE rest == Tail(line)
<1>1. /\ Len(rest) \in Nat /\ Len(line) \in Nat \ {0}
      /\ \A i \in 1 .. Len(rest) : i + 1 \in 1 .. Len(line) /\ rest[i] = line[i + 1]
      /\ Head(line) = line[1] /\ 1 \in 1 .. Len(line)
  BY RestOf
<1>2. \A i \in 1 .. Len(rest) : 1 < i + 1 /\ 1 # i + 1
  BY <1>1
<1>3. id # 1 - id /\ commandId # 1 - commandId
  BY DEF Ids
<1> HIDE DEF rest
<1>4. Head(line).kind = "reset" /\ OneReset(line) => NoReset(rest)
  BY <1>1, <1>2 DEF OneReset, NoReset
<1>5. Head(line).kind = "reset" /\ QuietAfterReset(line)
      => NoReset(rest) /\ \A i : Without(rest, "ack", i) /\ Without(rest, "data", i)
  <2>1. Head(line).kind = "reset" /\ QuietAfterReset(line)
        => \A i \in 1 .. Len(rest) : rest[i].kind \notin {"ack", "data", "reset"}
    BY <1>1, <1>2 DEF QuietAfterReset
  <2> QED
    BY <2>1 DEF NoReset, Without
<1>6. Head(line).kind = "ack" /\ Head(line).id = id /\ AcksLast(line, id, commandId)
      => Without(rest, "ack", 1 - id)
  BY <1>1, <1>2, <1>3 DEF AcksLast, Without
<1>7. Head(line).kind = "data" /\ Head(line).id = commandId /\ AcksLast(line, id, commandId)
      => Without(rest, "ack", 1 - id)
  BY <1>1, <1>2, <1>3 DEF AcksLast, Without, IsData
<1>8. Head(line).kind = "data" /\ Head(line).id = commandId /\ CommandsLast(line, commandId)
      => Without(rest, "data", 1 - commandId)
  BY <1>1, <1>2, <1>3 DEF CommandsLast, Without, IsData
<1> QED
  BY <1>4, <1>5, <1>6, <1>7, <1>8 DEF rest

LEMMA PutKeeps ==
  ASSUME NEW line \in Seq(Message), NEW m \in Message
  PROVE  /\ NoReset(line) /\ m.kind # "reset" => NoReset(Put(line, m))
         /\ OneReset(line) /\ m.kind # "reset" => OneReset(Put(line, m))
         /\ NoReset(line) => OneReset(Put(line, m)) /\ QuietAfterReset(Put(line, m))
         /\ QuietAfterReset(line) /\ m.kind \notin {"ack", "data", "reset"} => QuietAfterReset(Put(line, m))
         /\ \A kind, id : Without(line, kind, id) /\ ~ (m.kind = kind /\ m.id = id)
                          => Without(Put(line, m), kind, id)
         /\ \A id : /\ CommandsLast(line, id) \/ Without(line, "data", id)
                    /\ m.kind # "data" \/ m.id = id \/ Without(line, "data", id)
                    => CommandsLast(Put(line, m), id)
         /\ \A id, commandId :
               /\ \/ AcksLast(line, id, commandId)
                  \/ Without(line, "ack", id) /\ Without(line, "data", commandId)
               /\ m.kind # "ack" \/ m.id = id
               => AcksLast(Put(line, m), id, commandId)
<1> DEFINE more == Put(line, m)
<1>1. CASE more = line
  <2>1. NoReset(line) => OneReset(line) /\ QuietAfterReset(line)
    BY DEF NoReset, OneReset, QuietAfterReset
  <2>2. \A id : Without(line, "data", id) => CommandsLast(line, id)
    BY DEF Without, CommandsLast, IsData
  <2>3. \A id, commandId : Without(line, "ack", id) /\ Without(line, "data", commandId)
           => AcksLast(line, id, commandId)
    BY DEF Without, AcksLast, IsData
  <2> HIDE DEF more
  <2> QED
    BY <1>1, <2>1, <2>2, <2>3 DEF more
<1>2. CASE more # line
  <2>1. /\ Len(line) \in Nat /\ Len(more) = Len(line) + 1
        /\ \A i \in 1 .. Len(line) : more[i] = line[i]
        /\ more[Len(line) + 1] = m
    BY <1>2, PutOf
  <2> HIDE DEF more
  <2>2. \A i \in 1 .. Len(more) : \/ i \in 1 .. Len(line) /\ more[i] = line[i]
                                  \/ i = Len(line) + 1 /\ more[i] = m
    BY <2>1
  <2>3. \A i, j \in 1 .. Len(more) : i < j => i \in 1 .. Len(line) /\ more[i] = line[i]
    BY <2>1
  <2>4. NoReset(line) /\ m.kind # "reset" => NoReset(more)
    BY <2>2 DEF NoReset
  <2>5. OneReset(line) /\ m.kind # "reset" => OneReset(more)
    BY <2>2 DEF OneReset
  <2>6. NoReset(line) => OneReset(more) /\ QuietAfterReset(more)
    <3>1. NoReset(line) => OneReset(more)
      BY <2>2 DEF NoReset, OneReset
    <3>2. NoReset(line) => QuietAfterReset(more)
      BY <2>3 DEF NoReset, QuietAfterReset
    <3> QED
      BY <3>1, <3>2
  <2>7. QuietAfterReset(line) /\ m.kind \notin {"ack", "data", "reset"} => QuietAfterReset(more)
    BY <2>2, <2>3 DEF QuietAfterReset
  <2>8. \A kind, id : Without(line, kind, id) /\ ~ (m.kind = kind /\ m.id = id) => Without(more, kind, id)
    BY <2>2 DEF Without
  <2>9. ASSUME NEW id, CommandsLast(line, id) \/ Without(line, "data", id),
               m.kind # "data" \/ m.id = id \/ Without(line, "data", id)
        PROVE  CommandsLast(more, id)
    <3> SUFFICES ASSUME NEW i \in 1 .. Len(more), NEW j \in 1 .. Len(more), i < j,
                        IsData(more, i), more[i].id = id, IsData(more, j)
                 PROVE  more[j].id = id
      BY DEF CommandsLast
    <3>1. i \in 1 .. Len(line) /\ more[i] = line[i]
      BY <2>3
    <3>2. ~ Without(line, "data", id)
      BY <3>1 DEF Without, IsData
    <3>3. CASE j \in 1 .. Len(line) /\ more[j] = line[j]
      BY <2>9, <3>1, <3>2, <3>3 DEF CommandsLast, IsData
    <3>4. CASE more[j] = m
      BY <2>9, <3>2, <3>4 DEF IsData
    <3> QED
      BY <2>2, <3>3, <3>4
  <2>10. ASSUME NEW id, NEW commandId,
                \/ AcksLast(line, id, commandId)
                \/ Without(line, "ack", id) /\ Without(line, "data", commandId),
                m.kind # "ack" \/ m.id = id
         PROVE  AcksLast(more, id, commandId)
    <3> SUFFICES ASSUME NEW i \in 1 .. Len(more), NEW j \in 1 .. Len(more), i < j,
                        more[j].kind = "ack",
                        \/ more[i].kind = "ack" /\ more[i].id = id
                        \/ IsData(more, i) /\ more[i].id = commandId
                 PROVE  more[j].id = id
      BY DEF AcksLast
    <3>1. i \in 1 .. Len(line) /\ more[i] = line[i]
      BY <2>3
    <3>2. ~ (Without(line, "ack", id) /\ Without(line, "data", commandId))
      BY <3>1 DEF Without, IsData
    <3>3. CASE j \in 1 .. Len(line) /\ more[j] = line[j]
      BY <2>10, <3>1, <3>2, <3>3 DEF AcksLast, IsData
    <3>4. CASE more[j] = m
      BY <2>10, <3>4
    <3> QED
      BY <2>2, <3>3, <3>4
  <2> QED
    BY <2>4, <2>5, <2>6, <2>7, <2>8, <2>9, <2>10 DEF more
<1> QED
  BY <1>1, <1>2

-----------------------------------------------------------------------------
(* What is confirmed: the kernel's steps. *)

\* The kernel stays where it is in the protocol; it may have read a message that says nothing
\* of what it waits for, and put one that is no reset.
LEMMA KernelSkips ==
  ASSUME Inv, ConfirmInv, resets = 0, UNCHANGED <<hostVars, got, sent, confirmed, resets, next, expected>>,
         \/ pc' = pc
         \/ {pc, pc'} \subseteq {"send", "ack"}
         \/ pc \in {"serve", "idle", "poll", "end"} /\ pc' \in {"idle", "poll", "end"},
         toKernel' = toKernel \/ (toKernel # <<>> /\ toKernel' = Tail(toKernel)),
         NEW m \in Message, m.kind # "reset", toHost' \in {toHost, Put(toHost, m)}
  PROVE  ConfirmInv'
<1>1. /\ toKernel \in Seq(Message) /\ toHost \in Seq(Message)
      /\ UNCHANGED <<hostNext, hostExpected, resetting, outgoing, waiting>>
  BY DEF Inv, TypeOK, hostVars
<1>2. /\ ConfirmedIsReceived /\ Phase /\ (resetting => outgoing = NoCommand)
      /\ KernelSends => confirmed = sent - 1
      /\ ~ KernelSends => confirmed = sent /\ LastOf(got) = sent
  BY DEF ConfirmInv
<1>3. ConfirmedIsReceived' /\ LastOf(got)' = LastOf(got) /\ HostSends' = HostSends
      /\ KernelSends' = KernelSends
  BY <1>1, <1>2 DEF ConfirmedIsReceived, LastOf, HostSends, KernelSends
<1>4. /\ NoReset(toKernel) => NoReset(toKernel')
      /\ QuietAfterReset(toKernel) => QuietAfterReset(toKernel')
      /\ \A kind, id : Without(toKernel, kind, id) => Without(toKernel', kind, id)
      /\ \A id : CommandsLast(toKernel, id) => CommandsLast(toKernel', id)
      /\ \A id, commandId : AcksLast(toKernel, id, commandId) => AcksLast(toKernel', id, commandId)
  <2>1. CASE toKernel' = toKernel
    BY <2>1
  <2>2. CASE toKernel # <<>> /\ toKernel' = Tail(toKernel)
    BY <1>1, <2>2, RestKeeps
  <2> QED
    BY <2>1, <2>2
<1>5. /\ NoReset(toHost) => NoReset(toHost')
      /\ OneReset(toHost) => OneReset(toHost')
  BY <1>1, PutKeeps
<1>6. NotGot => NotGot'
  BY <1>1, <1>3, <1>4 DEF NotGot
<1>7. OneCommand => OneCommand'
  BY <1>1, <1>3, <1>4 DEF OneCommand
<1>8. Got => Got'
  BY <1>1, <1>3, <1>4, <1>7 DEF Got
<1>9. Told => Told' /\ ~ resetting
  BY <1>1, <1>3, <1>4, <1>7 DEF Told
<1>10. Opening => Opening'
  BY <1>1, <1>4, <1>5 DEF Opening
<1>11. Open => Open'
  BY <1>1, <1>4, <1>5 DEF Open
<1>12. Phase'
  <2>1. KernelSends' => (NotGot /\ LastOf(got) = confirmed)' \/ Got'
    BY <1>2, <1>3, <1>6, <1>8 DEF Phase
  <2>2. (pc' = "reset" <=> pc = "reset") /\ (pc' = "change" => pc = "change")
        /\ (pc' = "reply" => pc = "reply") /\ (pc' = "serve" => pc = "serve")
    OBVIOUS
  <2>3. pc' \in {"idle", "poll", "end"} => pc \in {"serve", "idle", "poll", "end"}
    OBVIOUS
  <2>4. pc' \in {"idle", "poll", "end"} => ~ resetting'
    BY <1>1, <1>2, <1>9, <2>3 DEF Phase
  <2>5. (pc' = "reset" => Opening') /\ (pc' # "reset" => Open')
    BY <1>2, <1>10, <1>11, <2>2 DEF Phase
  <2>6. (pc' = "change" => NotGot') /\ (pc' = "reply" => NotGot' /\ ~ resetting') /\ (pc' = "serve" => Told')
    BY <1>1, <1>2, <1>6, <1>9, <2>2 DEF Phase
  <2> QED
    BY <2>1, <2>4, <2>5, <2>6 DEF Phase
<1> QED
  BY <1>1, <1>2, <1>3, <1>12 DEF ConfirmInv

\* KdSendPacket returns: the host has the packet.
LEMMA KernelConfirms ==
  ASSUME Inv, ConfirmInv, resets = 0, UNCHANGED <<hostVars, got, sent, resets>>,
         Got, pc = "ack", pc' \in {"serve", "end"}, next' = 1 - next, confirmed' = sent,
         toKernel # <<>>, toKernel' = Tail(toKernel),
         Without(toKernel', "ack", 1 - next),
         OneCommand',
         NEW m \in Message, m.kind # "reset", toHost' \in {toHost, Put(toHost, m)}
  PROVE  ConfirmInv'
<1>1. /\ toKernel \in Seq(Message) /\ toHost \in Seq(Message)
      /\ UNCHANGED <<hostNext, hostExpected, resetting, outgoing, waiting>>
      /\ sent \in Nat /\ sent > 0 /\ got \in Seq(1 .. MaxPackets)
  BY DEF Inv, TypeOK, hostVars, Counts, KernelSends
<1>2. Open /\ ~ resetting /\ (resetting => outgoing = NoCommand)
  BY DEF ConfirmInv, Phase, Got
<1>3. NoReset(toKernel') /\ OneReset(toHost') /\ NoReset(toHost')
  BY <1>1, <1>2, RestKeeps, PutKeeps DEF Open
<1>4. Open' /\ ~ resetting'
  BY <1>1, <1>2, <1>3 DEF Open
<1>5. Told'
  BY <1>1, <1>4 DEF Got, Told
<1>6. LastOf(got)' = sent
  BY DEF Got, LastOf
<1>7. ConfirmedIsReceived'
  <2>1. got # <<>> /\ got[Len(got)] = sent
    BY <1>1 DEF Got, LastOf
  <2>2. Len(got) \in 1 .. Len(got)
    BY <1>1, <2>1, EmptySeq, LenProperties
  <2> QED
    BY <2>1, <2>2 DEF ConfirmedIsReceived
<1>8. ~ KernelSends'
  BY DEF KernelSends
<1>9. Phase'
  BY <1>4, <1>5, <1>8 DEF Phase
<1> QED
  BY <1>1, <1>2, <1>6, <1>7, <1>8, <1>9 DEF ConfirmInv

LEMMA KernelConfirm ==
  ASSUME Inv, ConfirmInv, KernelStep, resets = 0
  PROVE  ConfirmInv'
<1>1. TypeOK /\ Counts
  BY DEF Inv
<1>2. UNCHANGED <<hostVars, got, resets>>
      /\ UNCHANGED <<hostNext, hostExpected, resetting, outgoing, waiting>>
      /\ HostSends' = HostSends /\ LastOf(got)' = LastOf(got)
  BY KernelKeeps DEF hostVars, HostSends, LastOf
<1>3. /\ ConfirmedIsReceived /\ Phase /\ (resetting => outgoing = NoCommand)
      /\ KernelSends => confirmed = sent - 1
      /\ ~ KernelSends => confirmed = sent /\ LastOf(got) = sent
  BY DEF ConfirmInv
<1>4. /\ toKernel \in Seq(Message) /\ toHost \in Seq(Message) /\ sent \in Nat
      /\ next \in Ids /\ expected \in Ids /\ 0 \in Ids
  BY <1>1 DEF TypeOK, Ids
<1>5. ASSUME NEW kind, Read(kind)
      PROVE  /\ Receiving /\ toKernel # <<>> /\ Head(toKernel).kind = kind
             /\ toKernel' = Tail(toKernel) /\ Head(toKernel).id \in Ids
  BY <1>1, <1>5, KernelLineTypes DEF Read
<1>6. \E m \in Message : m.kind # "reset"
  BY <1>4, MessageTypes
\* The packet that stays under way.
<1>7. CASE KdSendPacket
  <2>1. Data(next, sent, "query") \in Message /\ Data(next, sent, "query").kind # "reset"
    BY <1>4, MessageTypes DEF Apis
  <2>2. /\ UNCHANGED <<next, expected, toKernel, sent, confirmed>> /\ pc = "send" /\ pc' = "ack"
        /\ toHost' = Put(toHost, Data(next, sent, "query"))
    BY <1>7 DEF KdSendPacket, KdpSendString
  <2> HIDE DEF Data
  <2> QED
    BY <1>2, <2>1, <2>2, KernelSkips
<1>8. ASSUME UNCHANGED <<next, expected, sent, confirmed, toHost>>,
             toKernel' = toKernel \/ (toKernel # <<>> /\ toKernel' = Tail(toKernel)),
             \/ pc' = pc
             \/ {pc, pc'} \subseteq {"send", "ack"}
             \/ pc \in {"serve", "idle", "poll", "end"} /\ pc' \in {"idle", "poll", "end"}
      PROVE  ConfirmInv'
  <2>1. PICK m \in Message : m.kind # "reset"
    BY <1>6
  <2> QED
    BY <1>2, <1>8, <2>1, KernelSkips
<1>9. ASSUME UNCHANGED <<next, expected, sent, confirmed, pc>>, toKernel # <<>>, toKernel' = Tail(toKernel),
             NEW kind \in {"ack", "resend"}, NEW id \in Ids, KdpSendControlPacket(kind, id)
      PROVE  ConfirmInv'
  <2>1. Control(kind, id) \in Message /\ Control(kind, id).kind # "reset"
    BY MessageTypes
  <2>2. toHost' = Put(toHost, Control(kind, id))
    BY <1>9 DEF KdpSendControlPacket, KdpSendString
  <2> QED
    BY <1>2, <1>9, <2>1, <2>2, KernelSkips
\* A packet that the host cannot have yet.
<1>10. CASE KdpSendStateChange \/ AnswerRequest \/ Continue
  <2>1. /\ pc \in {"change", "reply"} /\ pc' = "send" /\ sent' = sent + 1
        /\ UNCHANGED <<next, expected, toHost, toKernel, confirmed>>
    BY <1>10 DEF KdpSendStateChange, AnswerRequest, Continue, Answer, lines
  <2>2. ~ KernelSends /\ KernelSends'
    BY <2>1 DEF KernelSends
  <2>3. confirmed = sent /\ LastOf(got) = sent /\ NotGot /\ Open
    BY <1>3, <2>1, <2>2 DEF Phase
  <2>4. NotGot' /\ Open'
    BY <1>2, <2>1, <2>3 DEF NotGot, Open
  <2>5. ConfirmedIsReceived'
    BY <1>2, <1>3, <2>1 DEF ConfirmedIsReceived
  <2>6. confirmed' = sent' - 1 /\ LastOf(got)' = confirmed'
    BY <1>2, <1>4, <2>1, <2>3
  <2>7. Phase'
    BY <2>1, <2>4, <2>6 DEF Phase
  <2> QED
    BY <1>2, <1>3, <2>2, <2>5, <2>6, <2>7 DEF ConfirmInv
<1>11. CASE TimeOut \/ ReceiveBreakIn \/ ReceiveResend
  <2>1. /\ Receiving /\ UNCHANGED <<next, expected, sent, confirmed, toHost>>
        /\ toKernel' = toKernel \/ (toKernel # <<>> /\ toKernel' = Tail(toKernel))
        /\ pc' = NotReceived \/ (Wanted = "breakin" /\ pc' = Received)
    BY <1>11 DEF TimeOut, ReceiveBreakIn, ReceiveResend, Read, lines
  <2>2. \/ pc' = pc
        \/ {pc, pc'} \subseteq {"send", "ack"}
        \/ pc \in {"serve", "idle", "poll", "end"} /\ pc' \in {"idle", "poll", "end"}
    BY <1>1, <2>1 DEF Receiving, TypeOK, NotReceived, Received, Wanted
  <2> QED
    BY <1>8, <2>1, <2>2
<1>12. CASE ReceiveReset
  <2>1. /\ Read("reset") /\ next' = 0 /\ expected' = 0 /\ pc' = Received
        /\ KdpSendControlPacket("reset", 0) /\ UNCHANGED <<sent, confirmed>>
    BY <1>12 DEF ReceiveReset
  <2>2. Receiving /\ toKernel # <<>> /\ Head(toKernel).kind = "reset" /\ toKernel' = Tail(toKernel)
    BY <1>5, <2>1
  <2>3. ~ NoReset(toKernel)
    BY <1>4, <2>2, RestKeeps
  <2>4. pc = "reset" /\ Opening /\ resetting
    BY <1>3, <2>3 DEF Phase, Open, Opening
  <2>5. pc' = "change" /\ ~ KernelSends /\ ~ KernelSends'
    BY <1>1, <2>1, <2>2, <2>4, Leads DEF KernelSends
  <2>6. /\ NoReset(toHost) /\ hostExpected = 0 /\ waiting /\ QuietAfterReset(toKernel)
        /\ outgoing = NoCommand
    BY <1>3, <2>4 DEF Opening
  <2>7. NoReset(toKernel') /\ Without(toKernel', "ack", 0) /\ Without(toKernel', "data", 0)
    BY <1>4, <2>2, <2>6, HeadSays
  <2>8. OneReset(toHost')
    <3>1. Control("reset", 0) \in Message /\ toHost' = Put(toHost, Control("reset", 0))
      BY <1>4, <2>1, MessageTypes DEF KdpSendControlPacket, KdpSendString
    <3> QED
      BY <1>4, <2>6, <3>1, PutKeeps
  <2>9. NotGot' /\ Open'
    BY <1>2, <2>1, <2>4, <2>6, <2>7, <2>8 DEF NotGot, Open, HostSends
  <2>10. ConfirmedIsReceived'
    BY <1>2, <1>3, <2>1 DEF ConfirmedIsReceived
  <2>11. Phase'
    BY <2>5, <2>9 DEF Phase
  <2> QED
    BY <1>2, <1>3, <2>1, <2>5, <2>10, <2>11 DEF ConfirmInv
<1>13. CASE ReceiveAcknowledge
  <2>1. /\ Read("ack") /\ UNCHANGED <<expected, toHost, sent>>
        /\ \/ /\ Wanted = "ack" /\ Head(toKernel).id = next
              /\ next' = 1 - next /\ pc' = Received /\ Confirm
           \/ UNCHANGED <<next, pc, confirmed>>
    BY <1>13 DEF ReceiveAcknowledge, Acknowledged
  <2>2. Receiving /\ toKernel # <<>> /\ Head(toKernel).kind = "ack" /\ toKernel' = Tail(toKernel)
    BY <1>5, <2>1
  <2>3. CASE UNCHANGED <<next, pc, confirmed>>
    BY <1>8, <2>1, <2>2, <2>3
  <2>4. CASE /\ Wanted = "ack" /\ Head(toKernel).id = next
             /\ next' = 1 - next /\ pc' = Received /\ Confirm
    <3>1. pc = "ack" /\ pc' \in {"serve", "end"} /\ confirmed' = sent /\ KernelSends
      BY <1>1, <2>2, <2>4, Leads DEF Confirm, TypeOK, KernelSends
    <3>2. ~ Without(toKernel, "ack", next)
      BY <1>4, <2>2, <2>4, RestKeeps
    <3>3. Got
      BY <1>3, <3>1, <3>2 DEF Phase, NotGot
    <3>4. Without(toKernel', "ack", 1 - next)
      BY <1>4, <2>2, <2>4, <3>3, HeadSays DEF Got
    <3>5. OneCommand'
      <4>1. /\ CommandsLast(toKernel', expected)
            /\ Without(toKernel, "data", expected) => Without(toKernel', "data", expected)
        BY <1>4, <2>2, <3>3, RestKeeps DEF Got, OneCommand
      <4> QED
        BY <1>2, <2>1, <3>3, <4>1 DEF Got, OneCommand
    <3>6. PICK m \in Message : m.kind # "reset"
      BY <1>6
    <3> QED
      BY <1>2, <2>1, <2>2, <2>4, <3>1, <3>3, <3>4, <3>5, <3>6, KernelConfirms
  <2> QED
    BY <2>1, <2>3, <2>4
<1>14. CASE DataInsteadOfAck
  <2>1. /\ Read("data") /\ Wanted = "ack" /\ sent' = sent
        /\ \/ /\ Head(toKernel).id = expected /\ KdpSendControlPacket("resend", 0)
              /\ next' = 1 - next /\ expected' = 1 - expected /\ pc' = Received /\ Confirm
           \/ /\ KdpSendControlPacket("ack", Head(toKernel).id)
              /\ UNCHANGED <<next, expected, pc, confirmed>>
    BY <1>14 DEF DataInsteadOfAck
  <2>2. /\ Receiving /\ toKernel # <<>> /\ Head(toKernel).kind = "data" /\ toKernel' = Tail(toKernel)
        /\ Head(toKernel).id \in Ids
    BY <1>5, <2>1
  <2>3. CASE /\ KdpSendControlPacket("ack", Head(toKernel).id)
             /\ UNCHANGED <<next, expected, pc, confirmed>>
    BY <1>9, <2>1, <2>2, <2>3
  <2>4. CASE /\ Head(toKernel).id = expected /\ KdpSendControlPacket("resend", 0)
             /\ next' = 1 - next /\ expected' = 1 - expected /\ pc' = Received /\ Confirm
    <3>1. pc = "ack" /\ pc' \in {"serve", "end"} /\ confirmed' = sent /\ KernelSends
      BY <1>1, <2>1, <2>2, <2>4, Leads DEF Confirm, TypeOK, KernelSends
    <3>2. ~ Without(toKernel, "data", expected)
      BY <1>4, <2>2, <2>4, RestKeeps
    <3>3. Got
      BY <1>3, <3>1, <3>2 DEF Phase, NotGot
    <3>4. Without(toKernel', "ack", 1 - next) /\ Without(toKernel', "data", 1 - expected)
      BY <1>4, <2>2, <2>4, <3>3, HeadSays DEF Got, OneCommand
    <3>5. OneCommand'
      <4>1. waiting
        BY <3>2, <3>3 DEF Got, OneCommand
      <4>2. CommandsLast(toKernel', 1 - expected)
        BY <3>4 DEF Without, CommandsLast, IsData
      <4> QED
        BY <1>2, <2>4, <3>4, <4>1, <4>2 DEF OneCommand
    <3>6. Control("resend", 0) \in Message /\ Control("resend", 0).kind # "reset"
          /\ toHost' = Put(toHost, Control("resend", 0))
      BY <1>4, <2>4, MessageTypes DEF KdpSendControlPacket, KdpSendString
    <3> QED
      BY <1>2, <2>1, <2>2, <2>4, <3>1, <3>3, <3>4, <3>5, <3>6, KernelConfirms
  <2> QED
    BY <2>1, <2>3, <2>4
<1>15. CASE UnexpectedType \/ ReceiveDamaged
  <2>1. /\ Read("data") /\ UNCHANGED <<next, expected, sent, confirmed, pc>>
        /\ KdpSendControlPacket("ack", Head(toKernel).id) \/ KdpSendControlPacket("resend", 0)
    BY <1>15 DEF UnexpectedType, ReceiveDamaged, kernelVars
  <2>2. toKernel # <<>> /\ toKernel' = Tail(toKernel) /\ Head(toKernel).id \in Ids
    BY <1>5, <2>1
  <2> QED
    BY <1>4, <1>9, <2>1, <2>2
<1>16. CASE ReceiveCommand
  <2>1. /\ Read("data") /\ Wanted = "any" /\ KdpSendControlPacket("ack", Head(toKernel).id)
        /\ UNCHANGED <<next, sent, confirmed>>
        /\ \/ Head(toKernel).id = expected /\ expected' = 1 - expected /\ pc' = "reply"
           \/ UNCHANGED <<expected, pc>>
    BY <1>16 DEF ReceiveCommand, Command
  <2>2. /\ Receiving /\ toKernel # <<>> /\ Head(toKernel).kind = "data" /\ toKernel' = Tail(toKernel)
        /\ Head(toKernel).id \in Ids
    BY <1>5, <2>1
  <2>3. CASE UNCHANGED <<expected, pc>>
    BY <1>9, <2>1, <2>2, <2>3
  <2>4. CASE Head(toKernel).id = expected /\ expected' = 1 - expected /\ pc' = "reply"
    <3>1. pc = "serve" /\ ~ KernelSends /\ ~ KernelSends'
      BY <1>1, <2>1, <2>2, <2>4, Leads DEF KernelSends
    <3>2. Told /\ Open
      BY <1>3, <3>1 DEF Phase
    <3>3. ~ Without(toKernel, "data", expected)
      BY <1>4, <2>2, <2>4, RestKeeps
    <3>4. waiting /\ (HostSends => hostNext = expected)
      BY <3>2, <3>3 DEF Told, OneCommand
    <3>5. Without(toKernel', "ack", next) /\ Without(toKernel', "data", 1 - expected) /\ NoReset(toKernel')
      BY <1>4, <2>2, <2>4, <3>2, RestKeeps, HeadSays DEF Told, OneCommand, Open
    <3>6. NoReset(toHost') /\ OneReset(toHost')
      <4>1. /\ Control("ack", Head(toKernel).id) \in Message /\ Control("ack", Head(toKernel).id).kind # "reset"
            /\ toHost' = Put(toHost, Control("ack", Head(toKernel).id))
        BY <2>1, <2>2, MessageTypes DEF KdpSendControlPacket, KdpSendString
      <4> QED
        BY <1>4, <3>2, <4>1, PutKeeps DEF Open, Told
    <3>7. NotGot' /\ Open' /\ ~ resetting'
      <4>1. expected = 1 - expected'
        BY <1>4, <2>4 DEF Ids
      <4> QED
        BY <1>2, <2>1, <2>4, <3>2, <3>4, <3>5, <3>6, <4>1 DEF NotGot, Open, Told
    <3>8. ConfirmedIsReceived'
      BY <1>2, <1>3, <2>1 DEF ConfirmedIsReceived
    <3>9. Phase'
      BY <2>4, <3>1, <3>7 DEF Phase
    <3> QED
      BY <1>2, <1>3, <2>1, <3>1, <3>8, <3>9 DEF ConfirmInv
  <2> QED
    BY <2>1, <2>3, <2>4
<1>17. CASE KdWakeUpDebugger
  <2>1. /\ pc = "idle" /\ pc' = "reset" /\ KdpSendControlPacket("reset", 0)
        /\ UNCHANGED <<next, expected, toKernel, sent, confirmed>>
    BY <1>17 DEF KdWakeUpDebugger
  <2>2. ~ resetting /\ Open /\ ~ KernelSends /\ ~ KernelSends'
    BY <1>3, <2>1 DEF Phase, KernelSends
  <2>3. OneReset(toHost')
    <3>1. Control("reset", 0) \in Message /\ toHost' = Put(toHost, Control("reset", 0))
      BY <1>4, <2>1, MessageTypes DEF KdpSendControlPacket, KdpSendString
    <3> QED
      BY <1>4, <2>2, <3>1, PutKeeps DEF Open
  <2>4. Opening'
    BY <1>2, <2>1, <2>2, <2>3 DEF Opening, Open
  <2>5. ConfirmedIsReceived'
    BY <1>2, <1>3, <2>1 DEF ConfirmedIsReceived
  <2>6. Phase'
    BY <2>1, <2>2, <2>4 DEF Phase
  <2> QED
    BY <1>2, <1>3, <2>1, <2>2, <2>5, <2>6 DEF ConfirmInv
<1>18. CASE CauseBugCheck
  <2>1. /\ pc = "reply" /\ pc' = "stuck"
        /\ UNCHANGED <<next, expected, toHost, toKernel, sent, confirmed>>
    BY <1>18 DEF CauseBugCheck, lines
  <2>2. Open /\ ~ KernelSends /\ ~ KernelSends'
    BY <1>3, <2>1 DEF Phase, KernelSends
  <2>3. Open' /\ ConfirmedIsReceived'
    BY <1>2, <1>3, <2>1, <2>2 DEF Open, ConfirmedIsReceived
  <2>4. Phase'
    BY <2>1, <2>2, <2>3 DEF Phase
  <2> QED
    BY <1>2, <1>3, <2>1, <2>2, <2>3, <2>4 DEF ConfirmInv
<1>19. CASE EndSession \/ KdPollBreakIn
  <2>1. /\ UNCHANGED <<next, expected, toHost, toKernel, sent, confirmed>>
        /\ pc \in {"end", "idle"} /\ pc' \in {"idle", "poll"}
    BY <1>19 DEF EndSession, KdPollBreakIn, lines
  <2> QED
    BY <1>8, <2>1
<1> QED
  BY <1>7, <1>10, <1>11, <1>12, <1>13, <1>14, <1>15, <1>16, <1>17, <1>18, <1>19 DEF KernelStep

-----------------------------------------------------------------------------
(* What is confirmed: the steps of the host and the line. *)

\* Messages are read or lost, and at most one is put that answers nothing; the host may have
\* no command any more.
LEMMA HostSkips ==
  ASSUME Inv, ConfirmInv, resets = 0, UNCHANGED <<pc, next, expected, sent, confirmed, got, resets>>,
         UNCHANGED <<hostExpected, resetting, waiting>>,
         UNCHANGED <<hostNext, outgoing>> \/ outgoing' = NoCommand,
         toHost' = toHost \/ (toHost # <<>> /\ toHost' = Tail(toHost)),
         NEW m \in Message, m.kind \notin {"ack", "data", "reset"},
         \/ toKernel' = toKernel \/ toKernel' = Put(toKernel, m)
         \/ toKernel # <<>> /\ toKernel' = Tail(toKernel)
  PROVE  ConfirmInv'
<1>1. toKernel \in Seq(Message) /\ toHost \in Seq(Message)
  BY DEF Inv, TypeOK
<1>2. /\ ConfirmedIsReceived /\ Phase /\ (resetting => outgoing = NoCommand)
      /\ KernelSends => confirmed = sent - 1
      /\ ~ KernelSends => confirmed = sent /\ LastOf(got) = sent
  BY DEF ConfirmInv
<1>3. /\ ConfirmedIsReceived' /\ LastOf(got)' = LastOf(got) /\ KernelSends' = KernelSends
      /\ HostSends' => HostSends /\ hostNext' = hostNext
  BY <1>2 DEF ConfirmedIsReceived, LastOf, HostSends, KernelSends
<1>4. /\ NoReset(toKernel) => NoReset(toKernel')
      /\ QuietAfterReset(toKernel) => QuietAfterReset(toKernel')
      /\ \A kind \in {"ack", "data"} : \A id : Without(toKernel, kind, id) => Without(toKernel', kind, id)
      /\ \A id : CommandsLast(toKernel, id) => CommandsLast(toKernel', id)
      /\ \A id, commandId : AcksLast(toKernel, id, commandId) => AcksLast(toKernel', id, commandId)
  <2>1. CASE toKernel' = toKernel
    BY <2>1
  <2>2. CASE toKernel # <<>> /\ toKernel' = Tail(toKernel)
    BY <1>1, <2>2, RestKeeps
  <2>3. CASE toKernel' = Put(toKernel, m)
    <3>1. m.kind # "ack" /\ m.kind # "data" /\ m.kind # "reset"
      OBVIOUS
    <3> QED
      BY <1>1, <2>3, <3>1, PutKeeps
  <2> QED
    BY <2>1, <2>2, <2>3
<1>5. /\ NoReset(toHost) => NoReset(toHost')
      /\ OneReset(toHost) => OneReset(toHost')
  BY <1>1, RestKeeps
<1>6. NotGot => NotGot'
  BY <1>3, <1>4 DEF NotGot
<1>7. OneCommand => OneCommand'
  BY <1>3, <1>4 DEF OneCommand
<1>8. Got => Got'
  BY <1>3, <1>4, <1>7 DEF Got
<1>9. Told => Told'
  BY <1>3, <1>4, <1>7 DEF Told
<1>10. Opening => Opening'
  BY <1>4, <1>5 DEF Opening
<1>11. Open => Open'
  BY <1>4, <1>5 DEF Open
<1>12. Phase'
  BY <1>2, <1>3, <1>6, <1>8, <1>9, <1>10, <1>11 DEF Phase
<1>13. resetting' => outgoing' = NoCommand
  BY <1>2
<1> QED
  BY <1>2, <1>3, <1>12, <1>13 DEF ConfirmInv

\* The host's command, once more or for the first time.
LEMMA HostCommands ==
  ASSUME Inv, ConfirmInv, resets = 0, UNCHANGED <<pc, next, expected, sent, confirmed, got, resets>>,
         UNCHANGED <<hostExpected, hostNext, resetting>>, HostSends', ~ resetting,
         \/ HostSends /\ waiting' = waiting
         \/ ~ waiting /\ waiting',
         toHost' = toHost \/ (toHost # <<>> /\ toHost' = Tail(toHost)),
         NEW m \in Message, m.kind = "data", m.id = hostNext, toKernel' = Put(toKernel, m)
  PROVE  ConfirmInv'
<1>1. /\ toKernel \in Seq(Message) /\ toHost \in Seq(Message)
      /\ expected \in Ids /\ hostNext \in Ids /\ waiting \in BOOLEAN
  BY DEF Inv, TypeOK
<1>2. /\ ConfirmedIsReceived /\ Phase
      /\ KernelSends => confirmed = sent - 1
      /\ ~ KernelSends => confirmed = sent /\ LastOf(got) = sent
  BY DEF ConfirmInv
<1>3. /\ ConfirmedIsReceived' /\ LastOf(got)' = LastOf(got) /\ KernelSends' = KernelSends
  BY <1>2 DEF ConfirmedIsReceived, LastOf, KernelSends
<1>4. m.kind # "ack" /\ m.kind # "reset"
  OBVIOUS
<1>5. /\ NoReset(toKernel) => NoReset(toKernel')
      /\ \A id : Without(toKernel, "ack", id) => Without(toKernel', "ack", id)
      /\ \A id : Without(toKernel, "data", id) /\ hostNext # id => Without(toKernel', "data", id)
      /\ \A id : /\ CommandsLast(toKernel, id)
                 /\ hostNext = id \/ Without(toKernel, "data", id)
                 => CommandsLast(toKernel', id)
      /\ \A id, commandId : AcksLast(toKernel, id, commandId) => AcksLast(toKernel', id, commandId)
  BY <1>1, <1>4, PutKeeps
<1>6. /\ NoReset(toHost) => NoReset(toHost')
      /\ OneReset(toHost) => OneReset(toHost')
  BY <1>1, RestKeeps
<1>7. NotGot => NotGot'
  <2> SUFFICES ASSUME NotGot
               PROVE  NotGot'
    OBVIOUS
  <2>1. waiting /\ HostSends /\ hostNext = 1 - expected /\ waiting' = waiting
    BY DEF NotGot
  <2>2. hostNext # expected
    BY <1>1, <2>1 DEF Ids
  <2> QED
    BY <1>5, <2>1, <2>2 DEF NotGot
<1>8. OneCommand => OneCommand'
  <2> SUFFICES ASSUME OneCommand
               PROVE  OneCommand'
    OBVIOUS
  <2>1. CASE hostNext = expected
    <3>1. waiting'
      BY <2>1 DEF OneCommand
    <3>2. CommandsLast(toKernel', expected)
      BY <1>5, <2>1 DEF OneCommand
    <3> QED
      BY <2>1, <3>1, <3>2 DEF OneCommand
  <2>2. CASE hostNext # expected
    <3>1. Without(toKernel, "data", expected)
      BY <2>2 DEF OneCommand
    <3>2. Without(toKernel', "data", expected) /\ CommandsLast(toKernel', expected)
      BY <1>5, <2>2, <3>1 DEF OneCommand
    <3> QED
      BY <2>2, <3>2 DEF OneCommand
  <2> QED
    BY <2>1, <2>2
<1>9. Got => Got'
  BY <1>3, <1>5, <1>8 DEF Got
<1>10. Told => Told'
  BY <1>5, <1>8 DEF Told
<1>11. Opening => Opening'
  BY <1>5, <1>6 DEF Opening
<1>12. Open => Open'
  BY <1>5, <1>6 DEF Open
<1>13. Phase'
  BY <1>2, <1>3, <1>7, <1>9, <1>10, <1>11, <1>12 DEF Phase
<1> QED
  BY <1>2, <1>3, <1>13 DEF ConfirmInv

\* A reset of the kernel reaches the host.
LEMMA HostResetConfirm ==
  ASSUME Inv, ConfirmInv, HostReceiveReset, resets = 0
  PROVE  ConfirmInv'
<1>1. /\ toKernel \in Seq(Message) /\ toHost \in Seq(Message) /\ 0 \in Ids /\ resetting \in BOOLEAN
  BY DEF Inv, TypeOK, Ids
<1>2. /\ ConfirmedIsReceived /\ Phase
      /\ KernelSends => confirmed = sent - 1
      /\ ~ KernelSends => confirmed = sent /\ LastOf(got) = sent
  BY DEF ConfirmInv
<1>3. /\ UNCHANGED <<pc, next, expected, sent, confirmed, got, resets>>
      /\ toHost # <<>> /\ Head(toHost).kind = "reset" /\ toHost' = Tail(toHost)
      /\ resetting' = ~ resetting
  BY DEF HostReceiveReset, HostRead, kernelVars, counts
<1>4. /\ ConfirmedIsReceived' /\ LastOf(got)' = LastOf(got) /\ KernelSends' = KernelSends
  BY <1>2, <1>3 DEF ConfirmedIsReceived, LastOf, KernelSends
<1>5. ~ NoReset(toHost) /\ OneReset(toHost)
  BY <1>1, <1>2, <1>3, RestKeeps DEF Phase, Opening, Open
<1>6. NoReset(toHost') /\ OneReset(toHost')
  BY <1>1, <1>3, <1>5, HeadSays, RestKeeps
<1>7. CASE resetting
  <2>1. UNCHANGED <<hostNext, hostExpected, outgoing, waiting, toKernel>> /\ ~ resetting'
    BY <1>3, <1>7 DEF HostReceiveReset
  <2>2. pc # "reset" /\ Open
    BY <1>2, <1>5, <1>7 DEF Phase, Opening
  <2>3. Open'
    BY <1>6, <2>1, <2>2 DEF Open
  <2>4. NotGot => NotGot'
    BY <1>3, <2>1 DEF NotGot, HostSends
  <2>5. ~ Got /\ ~ Told
    BY <1>7 DEF Got, Told
  <2>6. Phase'
    BY <1>2, <1>3, <1>4, <1>7, <2>1, <2>2, <2>3, <2>4, <2>5 DEF Phase
  <2> QED
    BY <1>2, <1>3, <1>4, <2>1, <2>6 DEF ConfirmInv
<1>8. CASE ~ resetting
  <2>1. /\ hostExpected' = 0 /\ outgoing' = NoCommand /\ waiting' /\ resetting'
        /\ toKernel' = Put(toKernel, Control("reset", 0))
    BY <1>3, <1>8 DEF HostReceiveReset, Forget, HostSend
  <2>2. pc = "reset" /\ NoReset(toKernel)
    BY <1>2, <1>5, <1>8 DEF Phase, Opening, Open
  <2>3. QuietAfterReset(toKernel')
    <3>1. Control("reset", 0) \in Message
      BY <1>1, MessageTypes
    <3> QED
      BY <1>1, <2>1, <2>2, <3>1, PutKeeps
  <2>4. Opening'
    BY <1>6, <2>1, <2>3 DEF Opening
  <2>5. Phase'
    BY <1>3, <1>4, <2>2, <2>4 DEF Phase, KernelSends
  <2> QED
    BY <1>2, <1>3, <1>4, <2>1, <2>5 DEF ConfirmInv
<1> QED
  BY <1>1, <1>7, <1>8

\* A packet of the kernel reaches the host.
LEMMA HostDataConfirm ==
  ASSUME Inv, ConfirmInv, HostReceiveData, resets = 0
  PROVE  ConfirmInv'
<1>1. /\ toKernel \in Seq(Message) /\ toHost \in Seq(Message) /\ resetting \in BOOLEAN
      /\ sent \in Nat /\ LastOf(got) \in Nat /\ hostExpected \in Ids /\ next \in Ids /\ expected \in Ids
      /\ got \in Seq(1 .. MaxPackets) /\ got \in Seq(Nat)
  BY LastTypes, NumbersOf DEF Inv, TypeOK
<1>2. /\ ConfirmedIsReceived /\ Phase /\ (resetting => outgoing = NoCommand)
      /\ KernelSends => confirmed = sent - 1
      /\ ~ KernelSends => confirmed = sent /\ LastOf(got) = sent
  BY DEF ConfirmInv
<1>3. /\ UNCHANGED <<pc, next, expected, sent, confirmed, resets, hostNext, outgoing, resetting>>
      /\ toHost # <<>> /\ Head(toHost).kind = "data" /\ toHost' = Tail(toHost)
  BY DEF HostReceiveData, HostRead, kernelVars, counts
<1>4. Head(toHost).id \in Ids
  BY <1>3, LineTypes DEF Inv
<1>5. CASE resetting
  <2>1. UNCHANGED <<hostExpected, waiting, got, toKernel>>
    BY <1>5 DEF HostReceiveData
  <2>2. Control("resend", 0) \in Message /\ Control("resend", 0).kind = "resend"
    BY MessageTypes DEF Ids
  <2> QED
    BY <1>3, <2>1, <2>2, HostSkips
<1>6. CASE ~ resetting
  <2> DEFINE m == Control("ack", Head(toHost).id)
  <2>1. toKernel' = Put(toKernel, m)
    BY <1>6 DEF HostReceiveData, HostSend
  <2>2. m \in Message /\ m.kind = "ack" /\ m.id = Head(toHost).id
    BY <1>4, MessageTypes
  <2> HIDE DEF m
  <2>3. m.kind # "reset" /\ m.kind # "data"
    BY <2>2
  <2>4. /\ NoReset(toKernel) => NoReset(toKernel')
        /\ \A id : Without(toKernel, "ack", id) /\ Head(toHost).id # id => Without(toKernel', "ack", id)
        /\ \A id : Without(toKernel, "data", id) => Without(toKernel', "data", id)
        /\ \A id : CommandsLast(toKernel, id) => CommandsLast(toKernel', id)
        /\ \A id, commandId :
              /\ \/ AcksLast(toKernel, id, commandId)
                 \/ Without(toKernel, "ack", id) /\ Without(toKernel, "data", commandId)
              /\ Head(toHost).id = id
              => AcksLast(toKernel', id, commandId)
    BY <1>1, <2>1, <2>2, <2>3, PutKeeps
  <2>5. /\ NoReset(toHost) => NoReset(toHost')
        /\ OneReset(toHost) => OneReset(toHost')
    BY <1>1, <1>3, RestKeeps
  <2>6. (Opening => Opening') /\ (Open => Open')
    BY <1>3, <1>6, <2>4, <2>5 DEF Opening, Open
  <2>7. KernelSends' = KernelSends /\ HostSends' = HostSends
    BY <1>3 DEF KernelSends, HostSends
  <2>8. CASE Head(toHost).id = hostExpected
    <3>1. /\ hostExpected' = 1 - hostExpected /\ ~ waiting' /\ got' = Append(got, Head(toHost).n)
      BY <1>6, <2>8 DEF HostReceiveData
    <3>2. Head(toHost).n \in 1 .. sent /\ LastOf(got) < Head(toHost).n
      BY <1>1, <1>3, <1>6, <2>8, SideAccept DEF Inv, ToHostInv
    <3>3. LastOf(got) # sent
      BY <1>1, <3>2
    <3>4. KernelSends /\ NotGot /\ LastOf(got) = confirmed /\ confirmed = sent - 1
      BY <1>2, <3>3 DEF Phase, Got
    <3>5. Head(toHost).n = sent
      BY <1>1, <3>2, <3>4
    <3>6. LastOf(got') = sent
      BY <1>1, <3>1, <3>2, <3>5, IncreasingAppend DEF Inv, ToHostInv
    <3>7. OneCommand'
      <4>1. Without(toKernel', "data", expected) /\ (HostSends => hostNext # expected)
        BY <1>1, <2>4, <3>4 DEF NotGot, Ids
      <4>2. CommandsLast(toKernel', expected)
        BY <4>1 DEF Without, CommandsLast, IsData
      <4> QED
        BY <1>3, <2>7, <4>1, <4>2 DEF OneCommand
    <3>8. AcksLast(toKernel', next, expected)
      BY <2>4, <2>8, <3>4 DEF NotGot
    <3>9. Got'
      BY <1>3, <1>6, <3>1, <3>4, <3>6, <3>7, <3>8 DEF Got, NotGot, LastOf
    <3>10. ConfirmedIsReceived'
      <4>1. \A i \in 1 .. Len(got) : i \in 1 .. Len(got') /\ got'[i] = got[i]
        <5>1. Len(got) \in Nat /\ Len(got') = Len(got) + 1 /\ \A i \in 1 .. Len(got) : got'[i] = got[i]
          BY <1>1, <3>1, <3>2, AppendProperties, LenProperties
        <5> QED
          BY <5>1
      <4> QED
        BY <1>2, <1>3, <4>1 DEF ConfirmedIsReceived
    <3>11. Phase'
      BY <1>2, <1>3, <2>6, <2>7, <3>4, <3>9 DEF Phase, KernelSends
    <3> QED
      BY <1>2, <1>3, <2>7, <3>4, <3>10, <3>11 DEF ConfirmInv
  <2>9. CASE Head(toHost).id # hostExpected
    <3>1. UNCHANGED <<hostExpected, waiting, got>> /\ LastOf(got)' = LastOf(got)
      BY <1>6, <2>9 DEF HostReceiveData, LastOf
    <3>2. Head(toHost).id = 1 - hostExpected
      BY <1>1, <1>4, <2>9 DEF Ids
    <3>3. NotGot => NotGot'
      BY <1>3, <2>4, <2>7, <2>9, <3>1 DEF NotGot
    <3>4. OneCommand => OneCommand'
      BY <1>3, <2>4, <2>7, <3>1 DEF OneCommand
    <3>5. Got => Got'
      <4>1. Got => Head(toHost).id = next
        BY <1>1, <3>2 DEF Got, Ids
      <4> QED
        BY <1>3, <2>4, <3>1, <3>4, <4>1 DEF Got
    <3>6. Told => Told'
      BY <1>3, <2>4, <2>9, <3>1, <3>4 DEF Told
    <3>7. ConfirmedIsReceived'
      BY <1>2, <1>3, <3>1 DEF ConfirmedIsReceived
    <3>8. Phase'
      BY <1>2, <1>3, <2>6, <2>7, <3>1, <3>3, <3>5, <3>6 DEF Phase
    <3> QED
      BY <1>2, <1>3, <2>7, <3>1, <3>7, <3>8 DEF ConfirmInv
  <2> QED
    BY <2>8, <2>9
<1> QED
  BY <1>1, <1>5, <1>6

LEMMA HostConfirm ==
  ASSUME Inv, ConfirmInv, HostStep \/ Lose, resets = 0, resets' = 0
  PROVE  ConfirmInv'
<1>1. UNCHANGED <<pc, next, expected, sent, confirmed>>
  BY HostKeeps DEF kernelVars
<1>2. /\ hostNext \in Ids /\ issued \in Nat /\ outgoing.n \in Nat /\ 0 \in Ids
      /\ HostSends => outgoing.api \in Apis
      /\ waiting \in BOOLEAN /\ resetting \in BOOLEAN
  BY HeaderTypes DEF Inv, TypeOK, Ids, HostSends
<1>3. ASSUME NEW kind, HostRead(kind)
      PROVE  toHost # <<>> /\ toHost' = Tail(toHost)
  BY <1>3 DEF HostRead
<1>4. ASSUME NEW kind \in {"resend", "breakin"}
      PROVE  Control(kind, 0) \in Message /\ Control(kind, 0).kind \notin {"ack", "data", "reset"}
  BY <1>2, MessageTypes
<1>5. ASSUME UNCHANGED <<got, hostExpected, resetting, waiting>>,
             UNCHANGED <<hostNext, outgoing>> \/ outgoing' = NoCommand,
             toHost' = toHost \/ (toHost # <<>> /\ toHost' = Tail(toHost)),
             toKernel' = toKernel \/ (toKernel # <<>> /\ toKernel' = Tail(toKernel))
      PROVE  ConfirmInv'
  BY <1>1, <1>4, <1>5, HostSkips
<1>6. CASE HostReset
  <2>1. resets' = resets + 1
    BY <1>6 DEF HostReset
  <2> QED
    BY <2>1
<1>7. CASE HostReceiveDamaged \/ HostBreakIn
  <2>1. /\ UNCHANGED <<hostNext, outgoing, got, hostExpected, resetting, waiting>>
        /\ toHost' = toHost \/ (toHost # <<>> /\ toHost' = Tail(toHost))
        /\ toKernel' = Put(toKernel, Control("resend", 0)) \/ toKernel' = Put(toKernel, Control("breakin", 0))
    BY <1>3, <1>7 DEF HostReceiveDamaged, HostBreakIn, HostSend, hostVars
  <2>2. CASE toKernel' = Put(toKernel, Control("resend", 0))
    BY <1>1, <1>4, <2>1, <2>2, HostSkips
  <2>3. CASE toKernel' = Put(toKernel, Control("breakin", 0))
    BY <1>1, <1>4, <2>1, <2>3, HostSkips
  <2> QED
    BY <2>1, <2>2, <2>3
<1>8. CASE HostReceiveAck
  <2>1. /\ UNCHANGED <<got, hostExpected, resetting, waiting, toKernel>>
        /\ UNCHANGED <<hostNext, outgoing>> \/ outgoing' = NoCommand
        /\ toHost # <<>> /\ toHost' = Tail(toHost)
    BY <1>3, <1>8 DEF HostReceiveAck
  <2> QED
    BY <1>5, <2>1
<1>9. CASE HostRetry
  <2>1. /\ UNCHANGED <<hostNext, outgoing, got, hostExpected, resetting, waiting>>
        /\ toHost' = toHost \/ (toHost # <<>> /\ toHost' = Tail(toHost))
    BY <1>3, <1>9 DEF HostRetry, hostVars
  <2>2. CASE ~ HostSends
    <3>1. toKernel' = toKernel
      BY <1>9, <2>2 DEF HostRetry, HostSends
    <3> QED
      BY <1>5, <2>1, <3>1
  <2>3. CASE HostSends
    <3>1. toKernel' = Put(toKernel, Data(hostNext, outgoing.n, outgoing.api))
      BY <1>9, <2>3 DEF HostRetry, HostSend, HostSends
    <3>2. /\ Data(hostNext, outgoing.n, outgoing.api) \in Message
          /\ Data(hostNext, outgoing.n, outgoing.api).kind = "data"
          /\ Data(hostNext, outgoing.n, outgoing.api).id = hostNext
      BY <1>2, <2>3, MessageTypes
    <3>3. ~ resetting /\ HostSends'
      BY <2>1, <2>3 DEF ConfirmInv, HostSends
    <3> HIDE DEF Data
    <3> QED
      BY <1>1, <2>1, <2>3, <3>1, <3>2, <3>3, HostCommands
  <2> QED
    BY <2>2, <2>3
<1>10. ASSUME NEW api \in Apis, HostCommand(api)
       PROVE  ConfirmInv'
  <2>1. /\ UNCHANGED <<hostNext, got, hostExpected, resetting, toHost>>
        /\ ~ resetting /\ ~ waiting /\ waiting'
        /\ toKernel' = Put(toKernel, Data(hostNext, issued + 1, api))
        /\ outgoing' = [n |-> issued + 1, api |-> api]
    BY <1>10 DEF HostCommand, HostSend
  <2>2. /\ Data(hostNext, issued + 1, api) \in Message
        /\ Data(hostNext, issued + 1, api).kind = "data"
        /\ Data(hostNext, issued + 1, api).id = hostNext
    BY <1>2, MessageTypes
  <2>3. HostSends'
    <3>1. outgoing'.n # 0
      BY <1>2, <2>1
    <3> QED
      BY <3>1 DEF HostSends, NoCommand
  <2> HIDE DEF Data
  <2> QED
    BY <1>1, <2>1, <2>2, <2>3, HostCommands
<1>11. CASE Lose
  <2>1. /\ UNCHANGED <<hostNext, outgoing, got, hostExpected, resetting, waiting>>
        /\ toHost' = toHost \/ (toHost # <<>> /\ toHost' = Tail(toHost))
        /\ toKernel' = toKernel \/ (toKernel # <<>> /\ toKernel' = Tail(toKernel))
    BY <1>11 DEF Lose, hostVars
  <2> QED
    BY <1>5, <2>1
<1> QED
  BY <1>6, <1>7, <1>8, <1>9, <1>10, <1>11, HostResetConfirm, HostDataConfirm DEF HostStep

\* A reset of the host ends all that is said about what is confirmed.
LEMMA ResetOnly ==
  ASSUME Inv, ConfirmInv, KernelStep \/ HostStep \/ Lose
  PROVE  /\ resets' \in Nat /\ (resets' = 0 => resets = 0)
         /\ resetting' => outgoing' = NoCommand
<1>1. resets \in Nat /\ (resetting => outgoing = NoCommand) /\ resetting \in BOOLEAN
  BY DEF Inv, TypeOK, ConfirmInv
<1>2. CASE KernelStep
  BY <1>1, <1>2, KernelKeeps DEF hostVars
<1>3. CASE HostReset
  BY <1>1, <1>3 DEF HostReset, Forget
<1>4. CASE HostReceiveReset
  BY <1>1, <1>4 DEF HostReceiveReset, Forget, counts
<1>5. CASE HostReceiveData \/ HostReceiveDamaged \/ HostReceiveAck \/ HostRetry \/ HostBreakIn \/ Lose
  BY <1>1, <1>5 DEF HostReceiveData, HostReceiveDamaged, HostReceiveAck, HostRetry, HostBreakIn,
                    Lose, hostVars, counts
<1>6. ASSUME NEW api \in Apis, HostCommand(api)
      PROVE  /\ resets' \in Nat /\ (resets' = 0 => resets = 0)
             /\ resetting' => outgoing' = NoCommand
  BY <1>1, <1>6 DEF HostCommand, counts
<1> QED
  BY <1>2, <1>3, <1>4, <1>5, <1>6 DEF HostStep

LEMMA ConfirmStep == Inv /\ ConfirmInv /\ [Next]_vars => ConfirmInv'
<1> SUFFICES ASSUME Inv, ConfirmInv, [Next]_vars
             PROVE  ConfirmInv'
  OBVIOUS
<1>1. CASE Next
  <2>1. /\ resets' \in Nat /\ (resets' = 0 => resets = 0)
        /\ resetting' => outgoing' = NoCommand
    BY <1>1, ResetOnly DEF Next
  <2>2. CASE resets' # 0
    BY <2>1, <2>2 DEF ConfirmInv
  <2>3. CASE resets' = 0
    BY <1>1, <2>1, <2>3, KernelConfirm, HostConfirm DEF Next
  <2> QED
    BY <2>2, <2>3
<1>2. CASE UNCHANGED vars
  <2>1. /\ UNCHANGED <<pc, next, expected, pending, command, after>>
        /\ UNCHANGED <<hostNext, hostExpected, resetting, outgoing, waiting>>
        /\ UNCHANGED <<toHost, toKernel, sent, confirmed, got, resets>>
    BY <1>2 DEF vars, kernelVars, hostVars, lines, counts
  <2> QED
    BY <2>1 DEF ConfirmInv, Phase, NotGot, Got, Told, OneCommand, Opening, Open, LastOf,
                KernelSends, HostSends, ConfirmedIsReceived
<1> QED
  BY <1>1, <1>2

LEMMA ConfirmInit == Init => ConfirmInv
<1> SUFFICES ASSUME Init
             PROVE  ConfirmInv
  OBVIOUS
<1>1. LastOf(got) = 0 /\ ~ KernelSends /\ ConfirmedIsReceived
  BY DEF Init, LastOf, KernelSends, ConfirmedIsReceived
<1>2. NoReset(<<>>) /\ OneReset(<<>>)
  BY EmptySeq DEF NoReset, OneReset
<1>3. Phase
  BY <1>1, <1>2 DEF Init, Phase, Open
<1> QED
  BY <1>1, <1>3 DEF Init, ConfirmInv

\* When KdSendPacket returns, the host has the packet (kd.cpp:942-1008), whether the acknowledgement
\* came or the next command (kd.cpp:765-775): unless the host starts a reset, the handshake that
\* opens a session leaves nothing on the line that could be taken for either.
THEOREM ConfirmCorrect == Spec => []ConfirmedIsReceived
<1>1. ConfirmInv => ConfirmedIsReceived
  BY DEF ConfirmInv, ConfirmedIsReceived
<1> QED
  BY <1>1, ConfirmInit, ConfirmStep, InvCorrect, PTL DEF Spec

-----------------------------------------------------------------------------
(* Commands are served in order. *)

\* Only the first packet of a session is a reset, and no command is left then.
LEMMA KernelOnce ==
  ASSUME Inv, ConfirmInv, OnceInv, KernelStep, resets = 0
  PROVE  OnceInv'
<1>1. TypeOK /\ Counts /\ ToKernelInv
  BY DEF Inv
<1>2. Increasing(served) /\ (pc = "reply" /\ command.n # 0 => LastOf(served) < command.n)
  BY DEF OnceInv
<1>3. /\ toKernel \in Seq(Message) /\ issued \in Nat /\ expected \in Ids
      /\ served \in Seq(Nat) /\ LastOf(served) \in Nat /\ command.n \in Nat /\ Accepted \in Nat
  <2>1. served \in Seq(Nat)
    BY <1>1, NumbersOf DEF TypeOK
  <2> QED
    BY <1>1, <2>1, LastTypes, HeaderTypes DEF TypeOK
<1>4. ASSUME served' = served, pc' # "reply"
      PROVE  OnceInv'
  BY <1>2, <1>4 DEF OnceInv, Increasing
<1>5. CASE KdSendPacket \/ KdpSendStateChange \/ KdWakeUpDebugger \/ EndSession \/ KdPollBreakIn
  <2>1. served' = served /\ pc' # "reply"
    BY <1>5 DEF KdSendPacket, KdpSendStateChange, KdWakeUpDebugger, EndSession, KdPollBreakIn
  <2> QED
    BY <1>4, <2>1
<1>6. CASE \/ TimeOut \/ ReceiveBreakIn \/ ReceiveResend \/ ReceiveAcknowledge \/ DataInsteadOfAck
           \/ UnexpectedType \/ ReceiveDamaged
  <2>1. /\ served' = served /\ Receiving
        /\ \/ pc' \in {pc, NotReceived}
           \/ Wanted \in {"breakin", "ack"} /\ pc' = Received
    BY <1>6 DEF TimeOut, ReceiveBreakIn, ReceiveResend, ReceiveAcknowledge, Acknowledged, UnexpectedType,
                DataInsteadOfAck, ReceiveDamaged, Read, kernelVars
  <2>2. pc' # "reply"
    BY <1>1, <2>1, Leads
  <2> QED
    BY <1>4, <2>1, <2>2
<1>7. CASE ReceiveReset
  <2>1. /\ Receiving /\ toKernel # <<>> /\ Head(toKernel).kind = "reset" /\ pc' = Received
        /\ served' = served
    BY <1>7 DEF ReceiveReset, Read
  <2>2. ~ NoReset(toKernel)
    BY <1>3, <2>1, RestKeeps
  <2>3. pc = "reset"
    BY <2>2 DEF ConfirmInv, Phase, Open
  <2>4. pc' # "reply"
    BY <1>1, <2>1, <2>3, Leads
  <2> QED
    BY <1>4, <2>1, <2>4
<1>8. CASE ReceiveCommand
  <2>1. /\ Receiving /\ toKernel # <<>> /\ Head(toKernel).kind = "data" /\ served' = served
        /\ command' = HeaderRead
        /\ pc' = pc \/ Head(toKernel).id = expected
    BY <1>8 DEF ReceiveCommand, Command, Read
  <2>2. pc # "reply" /\ Accepted = LastOf(served)
    BY <1>1, <2>1, Leads DEF Accepted
  <2>3. CASE pc' = pc
    BY <1>4, <2>1, <2>2, <2>3
  <2>4. CASE Head(toKernel).id = expected
    <3>1. LastOf(served) < Head(toKernel).n
      BY <1>1, <1>3, <2>1, <2>2, <2>4, SideAccept DEF ToKernelInv
    <3>2. LastOf(served)' = LastOf(served) /\ command'.n = Head(toKernel).n
      BY <2>1 DEF LastOf, HeaderRead
    <3> QED
      BY <1>2, <2>1, <3>1, <3>2 DEF OnceInv, Increasing
  <2> QED
    BY <2>1, <2>3, <2>4
<1>9. CASE AnswerRequest \/ Continue \/ CauseBugCheck
  <2>1. pc = "reply" /\ pc' # "reply" /\ Serve
    BY <1>9 DEF AnswerRequest, Continue, CauseBugCheck, Answer
  <2>2. CASE command.n = 0
    BY <1>4, <2>1, <2>2 DEF Serve
  <2>3. CASE command.n # 0
    <3>1. served' = Append(served, command.n) /\ LastOf(served) < command.n
      BY <1>2, <2>1, <2>3 DEF Serve
    <3>2. Increasing(served')
      BY <1>2, <1>3, <3>1, IncreasingAppend
    <3> QED
      BY <2>1, <3>2 DEF OnceInv, Increasing
  <2> QED
    BY <2>2, <2>3
<1> QED
  BY <1>5, <1>6, <1>7, <1>8, <1>9 DEF KernelStep

LEMMA OnceStep == Inv /\ ConfirmInv /\ OnceInv /\ [Next]_vars => OnceInv'
<1> SUFFICES ASSUME Inv, ConfirmInv, OnceInv, [Next]_vars
             PROVE  OnceInv'
  OBVIOUS
<1>1. CASE Next
  <2>1. resets' \in Nat /\ (resets' = 0 => resets = 0)
    BY <1>1, ResetOnly DEF Next
  <2>2. CASE resets' # 0
    BY <2>2 DEF OnceInv
  <2>3. CASE resets' = 0 /\ KernelStep
    BY <2>1, <2>3, KernelOnce
  <2>4. CASE resets' = 0 /\ (HostStep \/ Lose)
    <3>1. UNCHANGED <<pc, command, served>>
      BY <2>4, HostKeeps DEF kernelVars
    <3> QED
      BY <2>1, <2>4, <3>1 DEF OnceInv, Increasing, LastOf
  <2> QED
    BY <1>1, <2>2, <2>3, <2>4 DEF Next
<1>2. CASE UNCHANGED vars
  <2>1. UNCHANGED <<pc, command, served, resets>>
    BY <1>2 DEF vars, kernelVars, counts
  <2> QED
    BY <2>1 DEF OnceInv, Increasing, LastOf
<1> QED
  BY <1>1, <1>2 DEF Next

\* KdpReceiveAndReplyPackets serves the commands in their order, over lost acknowledgements, resets
\* and commands taken for acknowledgements, and no command a third time (kd.cpp:742-749, 795, 842-894,
\* 1339-1362): the header that a skipped packet leaves behind is that of the last command or of a newer
\* one, and a reset that has it served comes after all copies of it.  Without a reset of the host, each
\* is served at most once.
THEOREM CommandsCorrect == Spec => []CommandsAreServedInOrder
<1>1. Init => OnceInv
  <2> SUFFICES ASSUME Init
               PROVE  OnceInv
    OBVIOUS
  <2>1. Increasing(<<>>)
    BY EmptySeq DEF Increasing
  <2> QED
    BY <2>1 DEF Init, OnceInv
<1>2. Inv /\ OnceInv => CommandsAreServedInOrder
  BY DEF Inv, ServedInv, OnceInv, CommandsAreServedInOrder
<1> QED
  BY <1>1, <1>2, ConfirmInit, ConfirmStep, OnceStep, InvCorrect, PTL DEF Spec
=============================================================================
