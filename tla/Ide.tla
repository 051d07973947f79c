--------------------------------- MODULE Ide ----------------------------------
(***************************************************************************)
(* The IDE driver of GR8OS: ide/ide.cpp.  Threads read and write sectors   *)
(* of physical disks and of their partitions through the ports of two      *)
(* channels, each with a master and a slave; an interrupt handler sets     *)
(* IdePulsedIrq.  Nothing serialises the threads: the cache manager locks  *)
(* one file at a time.                                                     *)
(*                                                                         *)
(* The drives are external: they are busy for some time, fail, fall        *)
(* asleep, and raise interrupts that the processor takes later.  Each wait *)
(* loop ends with its condition or, at any moment before, with a timeout.  *)
(***************************************************************************)
EXTENDS Integers, FiniteSets

CONSTANTS
    Threads,
    Loader,        \* the thread that runs DriverEntry
    Physical,      \* \Device\hdX : [channel, device], the drives that are there
    Partition,     \* \Device\hdXn : [disk, start]
    Sectors,       \* sector numbers of requests
    MaxSector      \* the highest number that passes ASSERT ((SectorNumber & 0xFF000000) == 0)

PhysicalDisks == DOMAIN Physical
Disks == PhysicalDisks \cup DOMAIN Partition
Channels == {0, 1}
Drives == {Physical[d] : d \in PhysicalDisks}

ASSUME IdeAssumption ==
    /\ Loader \in Threads
    /\ \A d \in PhysicalDisks : Physical[d] \in [channel : Channels, device : {0, 1}]
    /\ \A p \in DOMAIN Partition : Partition[p] \in [disk : PhysicalDisks, start : Nat]
    /\ PhysicalDisks \cap DOMAIN Partition = {}
    /\ MaxSector \in Nat /\ Sectors \subseteq Nat

VARIABLES
    disk,       \* a disk: not looked for, looked for in vain, found, with a device object,
                \* with its control block filled in
    port,       \* ports of a channel: selected device and sector number
    drive,      \* state of a drive, and the sector and the command it works on
    irq,        \* an interrupt of the channel is pending
    pulsed,     \* IdePulsedIrq
    pc,         \* where a thread is
    request,    \* what it does: operation, device object and sector
    hit,        \* the drive and the sector its transfer reached
    disturbed,  \* history: another thread used its channel, or the channel was reset
    stopped     \* an ASSERT failed

threadVars == <<pc, request, hit, disturbed>>
vars == <<disk, port, drive, irq, pulsed, threadVars, stopped>>

Operations == {"read", "write", "identify", "table"}
Places == {"idle", "select", "busy", "ready", "program", "command", "sent", "irq", "transfer",
           "done", "partitions"}
NoRequest == [op |-> "read", disk |-> CHOOSE d \in PhysicalDisks : TRUE, sector |-> 0]
Idle(state) == [state |-> state, op |-> "read", sector |-> 0]
Nothing == [channel |-> -1, device |-> -1, sector |-> -1]

TypeOK ==
    /\ disk \in [Disks -> {"unknown", "missing", "found", "listed", "ready"}]
    /\ port \in [Channels -> [device : {0, 1}, sector : 0 .. MaxSector]]
    /\ drive \in [Drives -> [state : {"ready", "asleep", "busy", "data", "error"},
                             op : Operations, sector : 0 .. MaxSector]]
    /\ irq \in [Channels -> BOOLEAN]
    /\ pulsed \in [Channels -> BOOLEAN]
    /\ pc \in [Threads -> Places]
    /\ request \in [Threads -> [op : Operations, disk : Disks, sector : Sectors \cup {0}] \cup {NoRequest}]
    /\ \A t \in Threads : pc[t] # "idle" => request[t].disk \in Disks
    /\ hit \in [Threads -> {Nothing} \cup [channel : Channels, device : {0, 1}, sector : 0 .. MaxSector]]
    /\ disturbed \in [Threads -> BOOLEAN]
    /\ stopped \in BOOLEAN

Init ==
    /\ disk = [d \in Disks |-> "unknown"]
    /\ port = [c \in Channels |-> [device |-> 0, sector |-> 0]]
    /\ drive = [d \in Drives |-> Idle("ready")]
    /\ irq = [c \in Channels |-> FALSE]
    /\ pulsed = [c \in Channels |-> FALSE]
    /\ pc = [t \in Threads |-> "idle"]
    /\ request = [t \in Threads |-> NoRequest]
    /\ hit = [t \in Threads |-> Nothing]
    /\ disturbed = [t \in Threads |-> FALSE]
    /\ stopped = FALSE

-----------------------------------------------------------------------------
(* Requests.                                                                 *)

At(t, place) == ~stopped /\ pc[t] = place

Go(t, place) == pc' = [pc EXCEPT ![t] = place]

\* The control block of a device object: a partition leads to its physical disk.
ControlBlock(d) == IF d \in PhysicalDisks THEN Physical[d] ELSE Physical[Partition[d].disk]

Channel(t) == ControlBlock(request[t].disk).channel

\* The sector of the physical disk.  PartitionEnd is not looked at.
PhysicalSector(t) ==
    LET d == request[t].disk
    IN  request[t].sector + (IF d \in PhysicalDisks THEN 0 ELSE Partition[d].start)

\* The drive that answers on the channel of thread t: the one last selected.
Selected(t) == [channel |-> Channel(t), device |-> port[Channel(t)].device]

Present(t) == Selected(t) \in Drives

\* IdeGetState: the status byte of the selected drive.  A drive that is absent is never ready.
IdeGetState(t) == IF Present(t) THEN drive[Selected(t)].state ELSE "asleep"

\* A request returns.
Finish(t) ==
    /\ Go(t, "idle")
    /\ request' = [request EXCEPT ![t] = NoRequest]
    /\ hit' = [hit EXCEPT ![t] = Nothing]
    /\ disturbed' = [disturbed EXCEPT ![t] = FALSE]

\* Thread t starts a request on a channel; whoever uses the channel is disturbed.
Start(t, op, d, s) ==
    LET others == {u \in Threads \ {t} :
                      pc[u] \notin {"idle", "partitions"} /\ Channel(u) = ControlBlock(d).channel}
    IN  /\ Go(t, "select")
        /\ request' = [request EXCEPT ![t] = [op |-> op, disk |-> d, sector |-> s]]
        /\ disturbed' = [u \in Threads |->
               IF u = t THEN others # {} ELSE disturbed[u] \/ u \in others]
        /\ hit' = [hit EXCEPT ![t] = Nothing]

\* The cache calls IdePerformRead or IdePerformWrite for a file on disk d.  A device object
\* without a control block fails ASSERT (pcb->Mask == PHYS_IDE_CB_MASK).
Perform(t, op, d, s) ==
    IF disk[d] = "ready" THEN Start(t, op, d, s) /\ UNCHANGED stopped
                         ELSE stopped' = TRUE /\ UNCHANGED threadVars

\* IRP_READ, aligned and not in the cache.
ReadRequest(t, d, s) ==
    /\ At(t, "idle") /\ t # Loader
    /\ disk[d] \in {"listed", "ready"}
    /\ Perform(t, "read", d, s)
    /\ UNCHANGED <<disk, port, drive, irq, pulsed>>

\* The cache writes a modified page back.
WriteBack(t, d, s) ==
    /\ At(t, "idle") /\ t # Loader
    /\ disk[d] = "ready"
    /\ Perform(t, "write", d, s)
    /\ UNCHANGED <<disk, port, drive, irq, pulsed>>

\* IRP_WRITE: ASSERT (FALSE).
WriteRequest(t, d) ==
    /\ At(t, "idle") /\ t # Loader
    /\ disk[d] \in {"listed", "ready"}
    /\ stopped' = TRUE
    /\ UNCHANGED <<disk, port, drive, irq, pulsed, threadVars>>

-----------------------------------------------------------------------------
(* DriverEntry.                                                              *)

\* IdeCheckDevicePresence: whether the drive answers before the timeout.
IdeCheckDevicePresence(d) == drive[Physical[d]].state = "ready"

\* The four drives are looked for, in order.  Each look leaves its drive selected, but a
\* slave that does not answer in time leaves the master.
DriverEntry(t) ==
    /\ At(t, "idle") /\ t = Loader
    /\ \A d \in PhysicalDisks : disk[d] = "unknown"
    /\ LET answers == {d \in PhysicalDisks : IdeCheckDevicePresence(d)}
       IN  /\ disk' = [d \in Disks |-> IF d \notin PhysicalDisks THEN "unknown"
                                       ELSE IF d \in answers THEN "found" ELSE "missing"]
           /\ port' = [c \in Channels |-> [port[c] EXCEPT !.device =
                  IF \E d \in answers : Physical[d] = [channel |-> c, device |-> 1] THEN 1 ELSE 0]]
    /\ UNCHANGED <<drive, irq, pulsed, threadVars, stopped>>

Number(d) == 2 * Physical[d].channel + Physical[d].device

\* IdeAddDevice: the device object can be opened while its drive is still being identified.
IdeAddDevice(t, d) ==
    /\ At(t, "idle") /\ t = Loader
    /\ disk[d] = "found"
    /\ \A e \in PhysicalDisks : Number(e) < Number(d) => disk[e] # "found"
    /\ disk' = [disk EXCEPT ![d] = "listed"]
    /\ Start(t, "identify", d, 0)
    /\ UNCHANGED <<port, drive, irq, pulsed, stopped>>

\* The drive is identified: its control block is filled in and its first sector is read
\* (of removable media the first extent, which is not told apart from it).
Identified(t) ==
    /\ At(t, "done") /\ request[t].op = "identify"
    /\ disk' = [disk EXCEPT ![request[t].disk] = "ready"]
    /\ Start(t, "table", request[t].disk, 0)
    /\ UNCHANGED <<port, drive, irq, pulsed, stopped>>

\* A partition table that is bad, or of removable media, ends IdeAddDevice.
ParseTable(t) ==
    /\ At(t, "done") /\ request[t].op = "table"
    /\ \/ Go(t, "partitions") /\ UNCHANGED <<request, hit, disturbed>>
       \/ Finish(t)
    /\ UNCHANGED <<disk, port, drive, irq, pulsed, stopped>>

OfDisk(t) == {p \in DOMAIN Partition : Partition[p].disk = request[t].disk}

CreatePartition(t, p) ==
    /\ At(t, "partitions")
    /\ p \in OfDisk(t) /\ disk[p] = "unknown"
    /\ \A q \in OfDisk(t) : disk[q] # "listed"
    /\ disk' = [disk EXCEPT ![p] = "listed"]
    /\ UNCHANGED <<port, drive, irq, pulsed, threadVars, stopped>>

\* The control block of a new partition; a FAT partition is mounted (IoManager).
FillPartition(t, p) ==
    /\ At(t, "partitions")
    /\ p \in OfDisk(t) /\ disk[p] = "listed"
    /\ disk' = [disk EXCEPT ![p] = "ready"]
    /\ UNCHANGED <<port, drive, irq, pulsed, threadVars, stopped>>

\* The loop over the table ends, early when a device or a mount fails.
DeviceAdded(t) ==
    /\ At(t, "partitions")
    /\ \A p \in OfDisk(t) : disk[p] # "listed"
    /\ Finish(t)
    /\ UNCHANGED <<disk, port, drive, irq, pulsed, stopped>>

-----------------------------------------------------------------------------
(* IdePerformRead, IdePerformWrite, IdeIdentifyDevice.                       *)

\* The drive is selected.
SelectDrive(t) ==
    /\ At(t, "select")
    /\ port' = [port EXCEPT ![Channel(t)].device = ControlBlock(request[t].disk).device]
    /\ Go(t, IF request[t].op = "identify" THEN "ready" ELSE "busy")
    /\ UNCHANGED <<disk, drive, irq, pulsed, request, hit, disturbed, stopped>>

WaitNotBusy(t) ==
    /\ At(t, "busy")
    /\ IdeGetState(t) # "busy"
    /\ Go(t, "ready")
    /\ UNCHANGED <<disk, port, drive, irq, pulsed, request, hit, disturbed, stopped>>

\* STATUS_DEVICE_NOT_READY for a drive that stays busy.
TimeOut(t) ==
    /\ request[t].op # "identify" /\ (At(t, "busy") \/ At(t, "sent"))
    /\ IdeGetState(t) = "busy"
    /\ Finish(t)
    /\ UNCHANGED <<disk, port, drive, irq, pulsed, stopped>>

\* IdeIdentifyDevice gives up either wait for a drive that is not ready.
IdeIdentifyDevice(t) ==
    /\ At(t, "ready") \/ At(t, "sent")
    /\ request[t].op = "identify"
    /\ IdeGetState(t) \in {"busy", "asleep"}
    /\ Finish(t)
    /\ UNCHANGED <<disk, port, drive, irq, pulsed, stopped>>

WaitReady(t) ==
    /\ At(t, "ready")
    /\ IdeGetState(t) \notin {"busy", "asleep"}
    /\ Go(t, IF request[t].op = "identify" THEN "command" ELSE "program")
    /\ UNCHANGED <<disk, port, drive, irq, pulsed, request, hit, disturbed, stopped>>

\* IdeControlChannel: the control port of the other channel is written.
IdeControlChannel(c) == 1 - c

\* A drive that is not ready is reset and waited for again, without being selected again.
\* A reset selects the master, aborts commands and raises no interrupt.
Reset(t) ==
    LET c == IdeControlChannel(Channel(t))
    IN  /\ At(t, "ready")
        /\ request[t].op # "identify"
        /\ IdeGetState(t) \in {"busy", "asleep"}
        /\ port' = [port EXCEPT ![c].device = 0]
        /\ drive' = [d \in Drives |-> IF d.channel = c THEN Idle("asleep")
                                                       ELSE drive[d]]
        /\ disturbed' = [u \in Threads |-> disturbed[u] \/ (pc[u] # "idle" /\ Channel(u) = c)]
        /\ Go(t, "busy")
        /\ UNCHANGED <<disk, irq, pulsed, request, hit, stopped>>

Program(t, sector) ==
    /\ At(t, "program")
    /\ IF PhysicalSector(t) <= MaxSector
       THEN /\ pulsed' = [pulsed EXCEPT ![Channel(t)] = FALSE]
            /\ port' = [port EXCEPT ![Channel(t)].sector = sector]
            /\ Go(t, "command")
            /\ UNCHANGED stopped
       ELSE stopped' = TRUE /\ UNCHANGED <<pulsed, port, pc>>
    /\ UNCHANGED <<disk, drive, irq, request, hit, disturbed>>

\* The sector number is looked at, IdePulsedIrq is cleared, then the number is written.
ProgramSector(t) == Program(t, PhysicalSector(t))

SendCommand(t) ==
    /\ At(t, "command")
    /\ drive' = IF Present(t)
                THEN [drive EXCEPT ![Selected(t)] =
                        [state |-> "busy", op |-> request[t].op, sector |-> port[Channel(t)].sector]]
                ELSE drive
    /\ Go(t, "sent")
    /\ UNCHANGED <<disk, port, irq, pulsed, request, hit, disturbed, stopped>>

\* The end of the busy wait: failures return, IDENTIFY reads its data at once, the others
\* wait for the interrupt.
AfterCommand(t) ==
    /\ At(t, "sent")
    /\ IF IdeGetState(t) = "error" /\ request[t].op # "identify"
       THEN Finish(t)
       ELSE /\ Go(t, IF request[t].op = "identify" THEN "transfer" ELSE "irq")
            /\ UNCHANGED <<request, hit, disturbed>>
    /\ UNCHANGED <<disk, port, drive, irq, stopped>>

\* A bug for the mutants: the interrupt alone is waited for.
CommandDoneAtOnce(t) == AfterCommand(t) /\ UNCHANGED pulsed

\* A bug for the mutants: the flag is cleared once more when the drive has answered.
CommandDoneClears(t) ==
    /\ IdeGetState(t) # "busy"
    /\ AfterCommand(t)
    /\ pulsed' = [pulsed EXCEPT ![Channel(t)] = FALSE]

CommandDone(t) ==
    /\ IdeGetState(t) \notin (IF request[t].op = "identify" THEN {"busy", "asleep"} ELSE {"busy"})
    /\ AfterCommand(t)
    /\ UNCHANGED pulsed

\* while (!IdePulsedIrq[CHANNEL]): no timeout.
WaitInterrupt(t) ==
    /\ At(t, "irq")
    /\ pulsed[Channel(t)]
    /\ pulsed' = [pulsed EXCEPT ![Channel(t)] = FALSE]
    /\ IF IdeGetState(t) = "error" THEN Finish(t)
       ELSE Go(t, "transfer") /\ UNCHANGED <<request, hit, disturbed>>
    /\ UNCHANGED <<disk, port, drive, irq, stopped>>

\* IdeRead and IdeWrite: the words of one sector, or whatever the bus shows.
MoveWords(t) ==
    /\ IF IdeGetState(t) = "data"
       THEN /\ hit' = [hit EXCEPT ![t] = [channel |-> Channel(t), device |-> port[Channel(t)].device,
                                          sector |-> drive[Selected(t)].sector]]
            /\ drive' = [drive EXCEPT ![Selected(t)] = Idle("ready")]
       ELSE UNCHANGED <<hit, drive>>
    /\ Go(t, "done")
    /\ UNCHANGED <<disk, port, irq, pulsed, request, disturbed, stopped>>

ReadData(t) == At(t, "transfer") /\ request[t].op # "write" /\ MoveWords(t)

WriteData(t) == At(t, "transfer") /\ request[t].op = "write" /\ MoveWords(t)

Return(t) ==
    /\ At(t, "done") /\ request[t].op \in {"read", "write"}
    /\ Finish(t)
    /\ UNCHANGED <<disk, port, drive, irq, pulsed, stopped>>

-----------------------------------------------------------------------------
(* Drives and interrupts.                                                    *)

\* A command ends with its data, or fails; a drive that can take the data of a write may
\* or may not say so with an interrupt.
DriveAnswers(d) ==
    /\ ~stopped
    /\ drive[d].state = "busy"
    /\ \E state \in {"data", "error"}, signal \in BOOLEAN :
          /\ ~signal => drive[d].op = "write" /\ state = "data"
          /\ drive' = [drive EXCEPT ![d] = IF state = "error" THEN Idle(state) ELSE [@ EXCEPT !.state = state]]
          /\ irq' = [irq EXCEPT ![d.channel] = @ \/ signal]
    /\ UNCHANGED <<disk, port, pulsed, threadVars, stopped>>

DriveSleeps(d) ==
    /\ ~stopped
    /\ drive[d].state = "ready"
    /\ drive' = [drive EXCEPT ![d].state = "asleep"]
    /\ UNCHANGED <<disk, port, irq, pulsed, threadVars, stopped>>

DriveWakes(d) ==
    /\ ~stopped
    /\ drive[d].state = "asleep"
    /\ drive' = [drive EXCEPT ![d].state = "ready"]
    /\ UNCHANGED <<disk, port, irq, pulsed, threadVars, stopped>>

\* Ide0ProcessIrq, Ide1ProcessIrq.
IdeProcessIrq(c) ==
    /\ ~stopped
    /\ irq[c]
    /\ irq' = [irq EXCEPT ![c] = FALSE]
    /\ pulsed' = [pulsed EXCEPT ![c] = TRUE]
    /\ UNCHANGED <<disk, port, drive, threadVars, stopped>>

Next ==
    \/ \E t \in Threads :
        \/ \E d \in Disks, s \in Sectors : ReadRequest(t, d, s) \/ WriteBack(t, d, s)
        \/ \E d \in Disks : WriteRequest(t, d)
        \/ DriverEntry(t)
        \/ \E d \in PhysicalDisks : IdeAddDevice(t, d)
        \/ Identified(t) \/ ParseTable(t) \/ DeviceAdded(t)
        \/ \E p \in DOMAIN Partition : CreatePartition(t, p) \/ FillPartition(t, p)
        \/ SelectDrive(t) \/ WaitNotBusy(t) \/ TimeOut(t) \/ IdeIdentifyDevice(t) \/ WaitReady(t) \/ Reset(t)
        \/ ProgramSector(t) \/ SendCommand(t) \/ CommandDone(t) \/ WaitInterrupt(t)
        \/ ReadData(t) \/ WriteData(t) \/ Return(t)
    \/ \E d \in Drives : DriveAnswers(d) \/ DriveSleeps(d) \/ DriveWakes(d)
    \/ \E c \in Channels : IdeProcessIrq(c)

Spec == Init /\ [][Next]_vars

-----------------------------------------------------------------------------
(* Properties.                                                               *)

\* A request that has its channel to itself transfers the sector it asked for, of the
\* drive it asked for, whatever was going on there before: commands that timed out and
\* are answered late, interrupts left over, drives that failed or slept (ide.cpp:262-448).
TransfersHitTheirSector ==
    \A t \in Threads :
        LET d == request[t].disk
        IN  pc[t] = "done" /\ ~disturbed[t] /\ request[t].op # "identify" =>
                hit[t] = [channel |-> ControlBlock(d).channel, device |-> ControlBlock(d).device,
                          sector |-> PhysicalSector(t)]

\* A read that has its channel to itself never waits for an interrupt that has already
\* been consumed: the wait has no timeout and would hold the thread for ever
\* (ide.cpp:354, 407-408).
InterruptsAreNotLost ==
    \A t \in Threads : pc[t] = "irq" /\ ~disturbed[t] /\ request[t].op # "write" =>
        pulsed[Channel(t)] \/ irq[Channel(t)]
=============================================================================
