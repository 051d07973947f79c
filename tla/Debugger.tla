------------------------------- MODULE Debugger -------------------------------
(***************************************************************************)
(* The kernel debugger's packet protocol, kd.cpp, over a COM port.  The    *)
(* kernel opens a session with KdWakeUpDebugger: both ends reset their     *)
(* packet ids, the kernel sends a state change and serves commands, each   *)
(* with a reply.  Data packets carry one of two ids and are acknowledged;  *)
(* a receiver asks for a damaged packet again.  KdPollBreakIn looks for a  *)
(* break-in byte between sessions.  KdDebugLock is held, with interrupts   *)
(* off, from the start of a session or a poll to its end.                  *)
(*                                                                         *)
(* The host is external: what the kernel's side of the protocol expects of *)
(* it.  It resets, acknowledges, retries, and sends a command once it has  *)
(* the state change or the reply to the one before.  A message that finds  *)
(* the line full is lost; any other may be lost or damaged, which also     *)
(* stands for a header that is read out of step after a wait for a packet  *)
(* leader that timed out.  Damage is what the checks of the code notice:   *)
(* the checksum does not cover the packet header, so a type or an id that  *)
(* is damaged into another valid one is left out.                          *)
(*                                                                         *)
(* SYNC_PACKET_ID is only set before the first reset, when nothing is      *)
(* sent; the five retries end only for packets that nobody sends.          *)
(***************************************************************************)
EXTENDS Naturals, Sequences

CONSTANTS
    MaxPackets,    \* bound: data packets of the kernel
    MaxCommands,   \* bound: commands of the host
    MaxBreakIns,   \* bound: break-in bytes
    MaxResets,     \* bound: resets the host starts
    MaxFaults,     \* bound: messages lost or damaged on the line
    LineSize       \* messages the line holds in each direction

ASSUME DebuggerAssumption ==
    /\ MaxPackets \in Nat /\ MaxCommands \in Nat
    /\ MaxBreakIns \in Nat /\ MaxResets \in Nat /\ MaxFaults \in Nat
    /\ LineSize \in Nat \ {0}

VARIABLES
    \* kernel
    pc,          \* where the kernel is
    next,        \* KdpNextPacketIdToSend
    expected,    \* KdpPacketIdExpected
    pending,     \* KdControlCPending
    command,     \* the header and packet type in the buffers of KdpReceiveAndReplyPackets
    after,       \* where KdSendPacket returns to
    \* host
    hostNext, hostExpected,
    resetting,   \* a reset of the host is not answered yet
    outgoing,    \* the command that is not acknowledged yet
    waiting,     \* for a state change or a reply
    \* lines
    toHost, toKernel,
    \* histories
    sent,        \* data packets the kernel has made
    confirmed,   \* the last of them that KdSendPacket took for received
    got,         \* those the host accepted, in order
    issued,      \* commands the host has made
    served,      \* those the kernel served, in order
    breakIns, resets, faults

kernelVars == <<pc, next, expected, pending, command, after>>
hostVars == <<hostNext, hostExpected, resetting, outgoing, waiting>>
lines == <<toHost, toKernel>>
counts == <<breakIns, resets, faults>>
vars == <<kernelVars, hostVars, lines, sent, confirmed, got, issued, served, counts>>

Ids == {0, 1}     \* INITIAL_PACKET_ID, INITIAL_PACKET_ID ^ 1
Apis == {"query", "continue", "crash"}
NoCommand == [n |-> 0, api |-> "none"]    \* Type = 0
Garbage == [n : {0}, api : Apis]          \* a damaged header, which is no command of the host
Headers == [n : 0 .. MaxCommands, api : Apis] \cup {NoCommand}

Control(kind, id) == [kind |-> kind, id |-> id, n |-> 0, api |-> "query"]
Data(id, n, api) == [kind |-> "data", id |-> id, n |-> n, api |-> api]
Message == [kind : {"data", "ack", "resend", "reset", "breakin"}, id : Ids, n : Nat, api : Apis]

TypeOK ==
    /\ pc \in {"idle", "reset", "change", "send", "ack", "serve", "reply", "end", "poll", "stuck"}
    /\ next \in Ids /\ expected \in Ids /\ hostNext \in Ids /\ hostExpected \in Ids
    /\ pending \in BOOLEAN /\ resetting \in BOOLEAN /\ waiting \in BOOLEAN
    /\ command \in Headers
    /\ after \in {"serve", "end"}
    /\ outgoing \in Headers
    /\ toHost \in Seq(Message) /\ Len(toHost) <= LineSize
    /\ toKernel \in Seq(Message) /\ Len(toKernel) <= LineSize
    /\ sent \in 0 .. MaxPackets /\ confirmed \in 0 .. sent
    /\ issued \in 0 .. MaxCommands
    /\ resets \in Nat /\ faults \in Nat /\ breakIns \in Nat
    /\ got \in Seq(1 .. MaxPackets) /\ served \in Seq(1 .. MaxCommands)

Init ==
    /\ pc = "idle" /\ next = 0 /\ expected = 0
    /\ pending = FALSE /\ command = NoCommand /\ after = "end"
    /\ hostNext = 0 /\ hostExpected = 0
    /\ resetting = FALSE /\ outgoing = NoCommand /\ waiting = TRUE
    /\ toHost = <<>> /\ toKernel = <<>>
    /\ sent = 0 /\ confirmed = 0 /\ got = <<>> /\ issued = 0 /\ served = <<>>
    /\ breakIns = 0 /\ resets = 0 /\ faults = 0

-----------------------------------------------------------------------------
(* Sending.                                                                  *)

\* A line with one more message; the COM port drops what does not fit.
Put(line, message) == IF Len(line) < LineSize THEN Append(line, message) ELSE line

\* KdpSendString: one packet goes out.
KdpSendString(message) == toHost' = Put(toHost, message)

KdpSendControlPacket(kind, id) == KdpSendString(Control(kind, id))

\* One round of KdSendPacket: the packet goes out and an acknowledgement is waited for.
KdSendPacket ==
    /\ pc = "send"
    /\ KdpSendString(Data(next, sent, "query"))
    /\ pc' = "ack"
    /\ UNCHANGED <<next, expected, pending, command, after, hostVars, toKernel, sent, confirmed,
                   got, issued, served, counts>>

\* KdpSendStateChange makes the packet that opens a session.
KdpSendStateChange ==
    /\ pc = "change"
    /\ sent' = sent + 1
    /\ pc' = "send" /\ after' = "serve"
    /\ UNCHANGED <<next, expected, pending, command, hostVars, lines, confirmed, got, issued,
                   served, counts>>

-----------------------------------------------------------------------------
(* KdReceivePacketWithType: the kernel reads one message.                    *)

Receiving == pc \in {"reset", "ack", "serve", "poll"}

\* The packet type the kernel waits for.
Wanted == CASE pc = "reset" -> "reset" [] pc = "ack" -> "ack" [] pc = "poll" -> "breakin" [] OTHER -> "any"

\* The next message is of a kind, and is read.
Read(kind) ==
    /\ Receiving
    /\ toKernel # <<>> /\ Head(toKernel).kind = kind
    /\ toKernel' = Tail(toKernel)

\* Where KDP_PACKET_RECEIVED, without a new command, leads each caller: the server of commands
\* goes by the type and the header that an earlier packet of the same call has left.
Received ==
    CASE pc = "reset" -> "change" [] pc = "ack" -> after [] pc = "poll" -> "idle"
      [] pc = "serve" /\ command # NoCommand -> "reply" [] OTHER -> "end"

\* Where KDP_PACKET_TIMEOUT and KDP_PACKET_RESEND lead: the wait for a reset goes on, a packet
\* is sent again, a session or a poll ends, and what a skipped packet has left is forgotten.
NotReceived == CASE pc = "reset" -> "reset" [] pc = "ack" -> "send" [] pc = "poll" -> "idle" [] OTHER -> "end"

\* KdSendPacket returns.
Confirm == confirmed' = IF pc = "ack" THEN sent ELSE confirmed

\* A bug for the mutants: the packet that is sent again has a new id.
TimeOutTurnsId ==
    /\ Receiving
    /\ pc' = NotReceived
    /\ next' = IF pc = "ack" THEN 1 - next ELSE next
    /\ command' = NoCommand
    /\ UNCHANGED <<expected, pending, after, hostVars, lines, sent, confirmed, got,
                   issued, served, counts>>

\* No packet leader, or no more bytes, within the time of the port.
TimeOut ==
    /\ Receiving
    /\ pc' = NotReceived
    /\ command' = NoCommand
    /\ UNCHANGED <<next, expected, pending, after, hostVars, lines, sent, confirmed, got,
                   issued, served, counts>>

\* KdpReceivePacketLeader meets the break-in byte.
ReceiveBreakIn ==
    /\ Read("breakin")
    /\ pending' = TRUE
    /\ pc' = IF Wanted = "breakin" THEN Received ELSE NotReceived
    /\ command' = NoCommand
    /\ UNCHANGED <<next, expected, after, hostVars, toHost, sent, confirmed, got, issued, served,
                   counts>>

ReceiveResend ==
    /\ Read("resend")
    /\ pc' = NotReceived
    /\ command' = NoCommand
    /\ UNCHANGED <<next, expected, pending, after, hostVars, toHost, sent, confirmed, got,
                   issued, served, counts>>

\* PACKET_TYPE_KD_RESET resets the ids and is answered, whatever was waited for.
ReceiveReset ==
    /\ Read("reset")
    /\ next' = 0 /\ expected' = 0
    /\ KdpSendControlPacket("reset", 0)
    /\ pc' = Received
    /\ UNCHANGED <<pending, command, after, hostVars, sent, confirmed, got, issued, served, counts>>

\* An acknowledgement of the packet that was sent last, or one that is skipped.
Acknowledged(ids) ==
    /\ Read("ack")
    /\ IF Wanted = "ack" /\ Head(toKernel).id \in ids
       THEN next' = 1 - next /\ pc' = Received /\ Confirm
       ELSE UNCHANGED <<next, pc, confirmed>>
    /\ UNCHANGED <<expected, pending, command, after, hostVars, toHost, sent, got, issued, served, counts>>

\* A bug for the mutants: the id of an acknowledgement is not compared.
AnyAcknowledgement == Acknowledged(Ids)

ReceiveAcknowledge == Acknowledged({next})

\* A data packet while an acknowledgement is waited for: with the id of the next command it
\* counts as one, and is asked for again.
DataInsteadOfAck ==
    /\ Read("data") /\ Wanted = "ack"
    /\ IF Head(toKernel).id = expected
       THEN /\ KdpSendControlPacket("resend", 0)
            /\ next' = 1 - next /\ expected' = 1 - expected
            /\ pc' = Received /\ Confirm
       ELSE /\ KdpSendControlPacket("ack", Head(toKernel).id)
            /\ UNCHANGED <<next, expected, pc, confirmed>>
    /\ UNCHANGED <<pending, command, after, hostVars, sent, got, issued, served, counts>>

\* A data packet of the wrong type is acknowledged and skipped.
UnexpectedType ==
    /\ Read("data") /\ Wanted \in {"reset", "breakin"}
    /\ KdpSendControlPacket("ack", Head(toKernel).id)
    /\ UNCHANGED <<kernelVars, hostVars, sent, confirmed, got, issued, served, counts>>

\* The header of the data packet that is read.
HeaderRead == [n |-> Head(toKernel).n, api |-> Head(toKernel).api]

\* A command: stored and acknowledged in any case, served if its id is the expected one.
Command(ids) ==
    /\ Read("data") /\ Wanted = "any"
    /\ command' = HeaderRead
    /\ KdpSendControlPacket("ack", Head(toKernel).id)
    /\ IF Head(toKernel).id \in ids
       THEN expected' = 1 - expected /\ pc' = "reply"
       ELSE UNCHANGED <<expected, pc>>
    /\ UNCHANGED <<next, pending, after, hostVars, sent, confirmed, got, issued, served, counts>>

\* A bug for the mutants: the id of a command is not compared.
AnyCommand == Command(Ids)

ReceiveCommand == Command({expected})

\* Wrong byte count, trailing byte, id or checksum: the packet is asked for again.  Where a
\* command is waited for, its header may be stored, and its type: all of it, a damaged one, or
\* nothing.  With the id of an earlier command it is acknowledged, as its checksum is not looked at.
ReceiveDamaged ==
    /\ faults < MaxFaults
    /\ Read("data") /\ Wanted # "ack"
    /\ faults' = faults + 1
    /\ \/ /\ KdpSendControlPacket("resend", 0)
          /\ command' \in {command} \cup (IF Wanted = "any" THEN {HeaderRead} \cup Garbage ELSE {})
       \/ /\ Wanted = "any" /\ Head(toKernel).id # expected
          /\ KdpSendControlPacket("ack", Head(toKernel).id)
          /\ command' \in Garbage
    /\ UNCHANGED <<pc, next, expected, pending, after, hostVars, sent, confirmed, got, issued,
                   served, breakIns, resets>>

-----------------------------------------------------------------------------
(* Sessions and polls.                                                       *)

\* KdWakeUpDebugger locks the port and asks for a reset; the answer is waited for for ever.
KdWakeUpDebugger ==
    /\ pc = "idle"
    /\ sent + 1 < MaxPackets
    /\ KdpSendControlPacket("reset", 0)
    /\ pc' = "reset"
    /\ UNCHANGED <<next, expected, pending, command, after, hostVars, toKernel, sent, confirmed,
                   got, issued, served, counts>>

\* The command is served, unless it is a damaged one.
Serve ==
    /\ served' = IF command.n = 0 THEN served ELSE Append(served, command.n)
    /\ command' = NoCommand

\* KdpReceiveAndReplyPackets serves the command with an answer and returns, or goes on.
Answer(return) ==
    /\ pc = "reply"
    /\ sent < MaxPackets
    /\ sent' = sent + 1
    /\ after' = return
    /\ pc' = "send"
    /\ Serve
    /\ UNCHANGED <<next, expected, pending, hostVars, lines, confirmed, got, issued, counts>>

\* A request for the version, for memory, registers or breakpoints, or one that is not known.
AnswerRequest == command.api = "query" /\ Answer("end")

\* DbgKdContinueApi2: the session goes on.
Continue == command.api = "continue" /\ Answer("serve")

\* DbgKdCauseBugCheckApi enters KdWakeUpDebugger again, which waits for the session's own lock.
CauseBugCheck ==
    /\ pc = "reply" /\ command.api = "crash"
    /\ Serve
    /\ pc' = "stuck"
    /\ UNCHANGED <<next, expected, pending, after, hostVars, lines, sent, confirmed, got, issued, counts>>

\* The session ends and the port is unlocked.
EndSession ==
    /\ pc = "end"
    /\ pc' = "idle"
    /\ UNCHANGED <<next, expected, pending, command, after, hostVars, lines, sent, confirmed, got,
                   issued, served, counts>>

\* KdPollBreakIn: a break-in that was met before, or one that is in the port now.
KdPollBreakIn ==
    /\ pc = "idle"
    /\ IF pending
       THEN pending' = FALSE /\ UNCHANGED pc
       ELSE pc' = "poll" /\ UNCHANGED pending
    /\ UNCHANGED <<next, expected, command, after, hostVars, lines, sent, confirmed, got, issued,
                   served, counts>>

KernelStep ==
    \/ KdSendPacket \/ KdpSendStateChange \/ TimeOut
    \/ ReceiveBreakIn \/ ReceiveResend \/ ReceiveReset \/ ReceiveAcknowledge \/ DataInsteadOfAck
    \/ UnexpectedType \/ ReceiveCommand \/ ReceiveDamaged
    \/ KdWakeUpDebugger \/ AnswerRequest \/ Continue \/ CauseBugCheck \/ EndSession \/ KdPollBreakIn

-----------------------------------------------------------------------------
(* The host and the line.                                                    *)

HostSend(message) == toKernel' = Put(toKernel, message)

HostRead(kind) ==
    /\ toHost # <<>> /\ Head(toHost).kind = kind
    /\ toHost' = Tail(toHost)

\* The host forgets its packet and its ids; data counts again once the reset is answered.
Forget == hostNext' = 0 /\ hostExpected' = 0 /\ outgoing' = NoCommand /\ waiting' = TRUE

HostReset ==
    /\ resets < MaxResets
    /\ resets' = resets + 1
    /\ Forget /\ resetting' = TRUE
    /\ HostSend(Control("reset", 0))
    /\ UNCHANGED <<kernelVars, toHost, sent, confirmed, got, issued, served,
                   breakIns, faults>>

\* A reset answers that of the host, or is answered.
HostReceiveReset ==
    /\ HostRead("reset")
    /\ resetting' = ~resetting
    /\ IF resetting THEN UNCHANGED <<hostNext, hostExpected, outgoing, waiting, toKernel>>
                    ELSE Forget /\ HostSend(Control("reset", 0))
    /\ UNCHANGED <<kernelVars, sent, confirmed, got, issued, served, counts>>

HostReceiveData ==
    /\ HostRead("data")
    /\ IF resetting
       THEN UNCHANGED <<hostExpected, waiting, got, toKernel>>
       ELSE /\ HostSend(Control("ack", Head(toHost).id))
            /\ IF Head(toHost).id = hostExpected
               THEN /\ hostExpected' = 1 - hostExpected
                    /\ waiting' = FALSE
                    /\ got' = Append(got, Head(toHost).n)
               ELSE UNCHANGED <<hostExpected, waiting, got>>
    /\ UNCHANGED <<kernelVars, hostNext, resetting, outgoing, sent, confirmed, issued, served, counts>>

\* A damaged packet: the host asks for it again.
HostReceiveDamaged ==
    /\ faults < MaxFaults
    /\ HostRead("data")
    /\ HostSend(Control("resend", 0))
    /\ faults' = faults + 1
    /\ UNCHANGED <<kernelVars, hostVars, sent, confirmed, got, issued, served,
                   breakIns, resets>>

HostReceiveAck ==
    /\ HostRead("ack")
    /\ IF ~resetting /\ outgoing # NoCommand /\ Head(toHost).id = hostNext
       THEN outgoing' = NoCommand /\ hostNext' = 1 - hostNext
       ELSE UNCHANGED <<outgoing, hostNext>>
    /\ UNCHANGED <<kernelVars, hostExpected, resetting, waiting, toKernel, sent, confirmed, got,
                   issued, served, counts>>

\* A packet is sent again when it is asked for, or when its acknowledgement does not come.
HostRetry ==
    /\ \/ HostRead("resend")
       \/ outgoing # NoCommand /\ UNCHANGED toHost
    /\ IF outgoing # NoCommand
       THEN HostSend(Data(hostNext, outgoing.n, outgoing.api))
       ELSE UNCHANGED toKernel
    /\ UNCHANGED <<kernelVars, hostVars, sent, confirmed, got, issued, served, counts>>

HostCommand(api) ==
    /\ ~resetting /\ ~waiting /\ outgoing = NoCommand
    /\ issued < MaxCommands
    /\ issued' = issued + 1
    /\ outgoing' = [n |-> issued + 1, api |-> api]
    /\ waiting' = TRUE
    /\ HostSend(Data(hostNext, issued + 1, api))
    /\ UNCHANGED <<kernelVars, hostNext, hostExpected, resetting, toHost, sent, confirmed, got,
                   served, counts>>

HostBreakIn ==
    /\ breakIns < MaxBreakIns
    /\ breakIns' = breakIns + 1
    /\ HostSend(Control("breakin", 0))
    /\ UNCHANGED <<kernelVars, hostVars, toHost, sent, confirmed, got, issued, served, resets, faults>>

\* A message is lost.
Lose ==
    /\ faults < MaxFaults
    /\ faults' = faults + 1
    /\ \/ toHost # <<>> /\ toHost' = Tail(toHost) /\ UNCHANGED toKernel
       \/ toKernel # <<>> /\ toKernel' = Tail(toKernel) /\ UNCHANGED toHost
    /\ UNCHANGED <<kernelVars, hostVars, sent, confirmed, got, issued, served,
                   breakIns, resets>>

HostStep ==
    \/ HostReset \/ HostReceiveReset \/ HostReceiveData \/ HostReceiveDamaged \/ HostReceiveAck \/ HostRetry
    \/ \E api \in Apis : HostCommand(api)
    \/ HostBreakIn

Next == KernelStep \/ HostStep \/ Lose

Spec == Init /\ [][Next]_vars

-----------------------------------------------------------------------------
(* Properties.                                                               *)

Increasing(s) == \A i, j \in 1 .. Len(s) : i < j => s[i] < s[j]

\* In order, and each at most twice.
Ordered(s) == \A i, j \in 1 .. Len(s) : i < j => s[i] <= s[j] /\ (i + 1 < j => s[i] < s[j])

\* The host gets the kernel's packets in order and none twice, over retries, resets that
\* cross, lost acknowledgements and the packet ids that start again (kd.cpp:733-749, 942-1008).
PacketsComeOnce == Increasing(got)

\* When KdSendPacket returns, the host has the packet, be it that the acknowledgement came or
\* that the next command did; a reset of the host may cross the packet (kd.cpp:733-740, 765-775).
ConfirmedIsReceived == resets = 0 /\ confirmed > 0 => \E i \in 1 .. Len(got) : got[i] = confirmed

\* Commands are served in their order, and none twice, however often it is sent; but for a
\* command that is sent again before the host resets, which the reset can have served a second
\* time, and never a third (kd.cpp:742-749, 795, 842-894, 1339-1362).
CommandsAreServedInOrder == Ordered(served) /\ (resets = 0 => Increasing(served))
=============================================================================
