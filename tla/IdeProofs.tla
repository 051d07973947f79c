------------------------------- MODULE IdeProofs -------------------------------
(***************************************************************************)
(* Theorems about Ide, for any number of threads and partitions, any       *)
(* drives and any sectors.                                                 *)
(*                                                                         *)
(* ThreadInv says what a thread that has its channel to itself knows of    *)
(* the ports and of its drive at each place of IdePerformRead; Alone, that *)
(* no other thread uses the channel then.  A thread's step changes the     *)
(* ports, the flag and the drives of its own channel only, except for a    *)
(* reset, which disturbs whoever uses the other one.                       *)
(***************************************************************************)
EXTENDS Ide, TLAPS

Working(t) == pc[t] \notin {"idle", "partitions"}

\* The drive that a request is for.
Own(t) == ControlBlock(request[t].disk)

\* Two threads on one channel are disturbed.
Alone ==
    \A t, u \in Threads : t # u /\ Working(t) /\ Working(u) /\ Channel(t) = Channel(u) => disturbed[t]

\* Only disks that were found are used, and partitions only of those.
Known ==
    /\ \A t \in Threads : pc[t] # "idle" => disk[request[t].disk] # "unknown"
    /\ \A p \in DOMAIN Partition : disk[p] # "unknown" => disk[Partition[p].disk] # "unknown"

\* Its drive is the selected one, from its selection to the end of the transfer.
OnDevice(t) ==
    pc[t] \in {"busy", "ready", "program", "command", "sent", "irq", "transfer"}
    => port[Channel(t)].device = Own(t).device

OnSector(t) ==
    pc[t] = "command" /\ request[t].op # "identify" => port[Channel(t)].sector = PhysicalSector(t)

\* Its drive works on its command, until it has the data or has failed.
Commanded(t) ==
    pc[t] \in {"sent", "irq", "transfer"} /\ request[t].op # "identify"
    => /\ drive[Own(t)].state \in {"busy", "data", "error"}
       /\ drive[Own(t)].state # "error" => /\ drive[Own(t)].sector = PhysicalSector(t)
                                           /\ drive[Own(t)].op = request[t].op
       /\ pc[t] # "sent" => drive[Own(t)].state # "busy"
       /\ pc[t] = "transfer" => drive[Own(t)].state = "data"

\* The interrupt of a command that is not a write comes with its answer, and is not consumed.
Signalled(t) ==
    /\ pc[t] = "irq" => request[t].op # "identify"
    /\ pc[t] \in {"sent", "irq"} /\ request[t].op \notin {"identify", "write"}
       => drive[Own(t)].state = "busy" \/ pulsed[Channel(t)] \/ irq[Channel(t)]

Hits(t) ==
    pc[t] = "done" /\ request[t].op # "identify"
    => hit[t] = [channel |-> Own(t).channel, device |-> Own(t).device, sector |-> PhysicalSector(t)]

Undisturbed(t) == OnDevice(t) /\ OnSector(t) /\ Commanded(t) /\ Signalled(t) /\ Hits(t)

ThreadInv(t) == Working(t) /\ ~ disturbed[t] => Undisturbed(t)

Inv == TypeOK /\ Alone /\ Known /\ \A t \in Threads : ThreadInv(t)


-----------------------------------------------------------------------------
(* Control blocks and the selected drive. *)

LEMMA Blocks ==
    ASSUME NEW d \in Disks
    PROVE  ControlBlock(d) \in Drives /\ ControlBlock(d) \in [channel : Channels, device : {0, 1}]
<1>1. CASE d \in PhysicalDisks
    BY <1>1, IdeAssumption DEF ControlBlock, Drives
<1>2. CASE d \notin PhysicalDisks
    <2>1. d \in DOMAIN Partition
        BY <1>2 DEF Disks
    <2>2. Partition[d].disk \in PhysicalDisks
        BY <2>1, IdeAssumption
    <2> QED BY <1>2, <2>2, IdeAssumption DEF ControlBlock, Drives
<1> QED BY <1>1, <1>2

LEMMA DriveType ==
    ASSUME NEW d \in Drives
    PROVE  d \in [channel : Channels, device : {0, 1}]
BY IdeAssumption DEF Drives

\* What a thread that is not idle works on.
LEMMA UseType ==
    ASSUME TypeOK, NEW t \in Threads, pc[t] # "idle"
    PROVE  /\ request[t] \in [op : Operations, disk : Disks, sector : Sectors \cup {0}]
           /\ Own(t) \in Drives
           /\ Own(t).device \in {0, 1}
           /\ Own(t) = [channel |-> Channel(t), device |-> Own(t).device]
           /\ Channel(t) \in Channels
           /\ PhysicalSector(t) \in Nat
<1>1. request[t].disk \in Disks
    BY DEF TypeOK
<1>2. request[t] \in [op : Operations, disk : Disks, sector : Sectors \cup {0}]
    <2>1. CASE request[t] = NoRequest
        <3>1. request[t] = [op |-> "read", disk |-> request[t].disk, sector |-> 0]
            BY <2>1 DEF NoRequest
        <3> QED BY <1>1, <3>1 DEF Operations
    <2> QED BY <2>1 DEF TypeOK
<1>3. Own(t) \in Drives /\ Own(t) \in [channel : Channels, device : {0, 1}]
    BY <1>1, Blocks DEF Own
<1>4. Channel(t) = Own(t).channel
    BY DEF Channel, Own
<1>5. PhysicalSector(t) \in Nat
    <2>1. request[t].sector \in Nat
        <3>1. request[t].sector \in Sectors \cup {0}
            BY <1>2
        <3>2. \A s \in Sectors : s \in Nat
            BY IdeAssumption
        <3>3. CASE request[t].sector \in Sectors
            BY <3>2, <3>3
        <3>4. CASE request[t].sector = 0
            BY <3>4
        <3> QED BY <3>1, <3>3, <3>4
    <2>2. request[t].disk \notin PhysicalDisks => Partition[request[t].disk].start \in Nat
        BY <1>1, IdeAssumption DEF Disks
    <2> QED BY <2>1, <2>2 DEF PhysicalSector
<1> QED BY <1>2, <1>3, <1>4, <1>5

\* Where its own drive is the selected one, a thread looks at the state of that drive.
LEMMA SelectedIsOwn ==
    ASSUME TypeOK, NEW t \in Threads, pc[t] # "idle", port[Channel(t)].device = Own(t).device
    PROVE  Selected(t) = Own(t) /\ Present(t) /\ IdeGetState(t) = drive[Own(t)].state
BY UseType DEF Selected, Present, IdeGetState

LEMMA DeviceWritten ==
    ASSUME TypeOK, NEW c \in Channels, NEW x \in {0, 1}, port' = [port EXCEPT ![c].device = x]
    PROVE  /\ port' \in [Channels -> [device : {0, 1}, sector : 0 .. MaxSector]]
           /\ port'[c].device = x
           /\ \A e \in Channels : e # c => port'[e] = port[e]
<1>1. port \in [Channels -> [device : {0, 1}, sector : 0 .. MaxSector]]
    BY DEF TypeOK
<1>2. [port[c] EXCEPT !.device = x] \in [device : {0, 1}, sector : 0 .. MaxSector]
    BY <1>1
<1>3. port' = [port EXCEPT ![c] = [port[c] EXCEPT !.device = x]]
    BY <1>1
<1>4. [port[c] EXCEPT !.device = x].device = x
    BY <1>1
<1> QED BY <1>1, <1>2, <1>3, <1>4

LEMMA SectorWritten ==
    ASSUME TypeOK, NEW c \in Channels, NEW x \in 0 .. MaxSector, port' = [port EXCEPT ![c].sector = x]
    PROVE  /\ port' \in [Channels -> [device : {0, 1}, sector : 0 .. MaxSector]]
           /\ port'[c].sector = x
           /\ port'[c].device = port[c].device
           /\ \A e \in Channels : e # c => port'[e] = port[e]
<1>1. port \in [Channels -> [device : {0, 1}, sector : 0 .. MaxSector]]
    BY DEF TypeOK
<1>2. [port[c] EXCEPT !.sector = x] \in [device : {0, 1}, sector : 0 .. MaxSector]
    BY <1>1
<1>3. port' = [port EXCEPT ![c] = [port[c] EXCEPT !.sector = x]]
    BY <1>1
<1>4. [port[c] EXCEPT !.sector = x].sector = x /\ [port[c] EXCEPT !.sector = x].device = port[c].device
    BY <1>1
<1> QED BY <1>1, <1>2, <1>3, <1>4

-----------------------------------------------------------------------------
(* What leaves a thread as it is. *)

\* A thread whose ports, flag and drive stay knows what it knew.
LEMMA Keeps ==
    ASSUME NEW t \in Threads, ThreadInv(t),
           pc'[t] = pc[t], request'[t] = request[t], hit'[t] = hit[t],
           disturbed[t] => disturbed'[t],
           Working(t) /\ ~ disturbed[t] =>
               /\ port'[Channel(t)] = port[Channel(t)]
               /\ drive'[Own(t)] = drive[Own(t)]
               /\ pulsed[Channel(t)] \/ irq[Channel(t)] => pulsed'[Channel(t)] \/ irq'[Channel(t)]
    PROVE  ThreadInv(t)'
<1> SUFFICES ASSUME Working(t)', ~ disturbed'[t]
             PROVE  Undisturbed(t)'
    BY DEF ThreadInv
<1>1. Working(t) /\ ~ disturbed[t]
    BY DEF Working
<1>2. Undisturbed(t)
    BY <1>1 DEF ThreadInv
<1>3. Own(t)' = Own(t) /\ Channel(t)' = Channel(t) /\ PhysicalSector(t)' = PhysicalSector(t)
    BY DEF Own, Channel, PhysicalSector
<1>4. OnDevice(t)'
    BY <1>1, <1>2, <1>3 DEF Undisturbed, OnDevice
<1>5. OnSector(t)'
    BY <1>1, <1>2, <1>3 DEF Undisturbed, OnSector
<1>6. Commanded(t)'
    BY <1>1, <1>2, <1>3 DEF Undisturbed, Commanded
<1>7. Signalled(t)'
    BY <1>1, <1>2, <1>3 DEF Undisturbed, Signalled
<1>8. Hits(t)'
    BY <1>1, <1>2, <1>3 DEF Undisturbed, Hits
<1> QED BY <1>4, <1>5, <1>6, <1>7, <1>8 DEF Undisturbed

\* What a step of thread t leaves alone: the other channel, its drives, its flag.
OnlyOn(c) ==
    /\ \A e \in Channels : e # c => port'[e] = port[e] /\ pulsed'[e] = pulsed[e] /\ irq'[e] = irq[e]
    /\ \A d \in Drives : d.channel # c => drive'[d] = drive[d]

\* A step of a thread on its channel does nothing to a thread on the other channel.
LEMMA Elsewhere ==
    ASSUME Inv, NEW t \in Threads, NEW u \in Threads, u # t, Working(t), OnlyOn(Channel(t)),
           pc'[u] = pc[u], request'[u] = request[u], hit'[u] = hit[u], disturbed'[u] = disturbed[u]
    PROVE  ThreadInv(u)'
<1>1. ThreadInv(u)
    BY DEF Inv
<1>2. ASSUME Working(u), ~ disturbed[u]
      PROVE  /\ port'[Channel(u)] = port[Channel(u)]
             /\ drive'[Own(u)] = drive[Own(u)]
             /\ pulsed'[Channel(u)] = pulsed[Channel(u)] /\ irq'[Channel(u)] = irq[Channel(u)]
    <2>1. Channel(u) # Channel(t)
        BY <1>2 DEF Inv, Alone
    <2>2. Channel(u) \in Channels /\ Own(u) \in Drives /\ Own(u).channel = Channel(u)
        <3>1. pc[u] # "idle" /\ TypeOK
            BY <1>2 DEF Working, Inv
        <3> QED BY <3>1, UseType DEF Own, Channel
    <2> QED BY <2>1, <2>2 DEF OnlyOn
<1> QED BY <1>1, <1>2, Keeps


-----------------------------------------------------------------------------
(* The steps that begin and end a request. *)

\* ThreadInv of a thread that does not work, or works on nothing yet.
LEMMA NothingYet ==
    ASSUME NEW t \in Threads, pc'[t] \in {"idle", "partitions", "select"}
    PROVE  ThreadInv(t)'
BY DEF ThreadInv, Working, Undisturbed, OnDevice, OnSector, Commanded, Signalled, Hits

\* An ASSERT that fails: nothing else happens.
LEMMA StoppedStep ==
    ASSUME Inv, UNCHANGED <<disk, port, drive, irq, pulsed, threadVars>>, stopped' \in BOOLEAN
    PROVE  Inv'
<1>1. TypeOK'
    BY DEF Inv, TypeOK, threadVars
<1>2. Alone' /\ Known'
    BY DEF Inv, Alone, Known, Working, Channel, threadVars
<1>3. \A t \in Threads : ThreadInv(t)'
    <2> SUFFICES ASSUME NEW t \in Threads PROVE ThreadInv(t)'
        OBVIOUS
    <2>1. ThreadInv(t)
        BY DEF Inv
    <2> QED BY <2>1, Keeps DEF threadVars
<1> QED BY <1>1, <1>2, <1>3 DEF Inv

\* What a step does to the states of the disks.
DiskStep ==
    /\ disk' \in [Disks -> {"unknown", "missing", "found", "listed", "ready"}]
    /\ \A d \in Disks : disk[d] # "unknown" => disk'[d] # "unknown"
    /\ \A p \in DOMAIN Partition : disk'[p] # "unknown" => disk'[Partition[p].disk] # "unknown"

LEMMA DiskRest ==
    ASSUME Inv, disk' = disk
    PROVE  DiskStep
BY DEF Inv, TypeOK, Known, DiskStep

\* One disk, known already or physical, gets another state.
LEMMA DiskSet ==
    ASSUME Inv, NEW d \in Disks, NEW state \in {"listed", "ready"},
           d \in DOMAIN Partition => disk[Partition[d].disk] # "unknown",
           disk' = [disk EXCEPT ![d] = state]
    PROVE  DiskStep
<1>1. /\ disk' \in [Disks -> {"unknown", "missing", "found", "listed", "ready"}]
      /\ \A e \in Disks : disk'[e] = IF e = d THEN state ELSE disk[e]
    BY DEF Inv, TypeOK
<1>2. \A e \in Disks : disk[e] # "unknown" => disk'[e] # "unknown"
    BY <1>1
<1>3. \A p \in DOMAIN Partition : disk'[p] # "unknown" => disk'[Partition[p].disk] # "unknown"
    <2> SUFFICES ASSUME NEW p \in DOMAIN Partition, disk'[p] # "unknown"
                 PROVE  disk'[Partition[p].disk] # "unknown"
        OBVIOUS
    <2>1. p \in Disks /\ Partition[p].disk \in Disks
        BY IdeAssumption DEF Disks
    <2>2. disk[Partition[p].disk] # "unknown"
        BY <1>1, <2>1 DEF Inv, Known
    <2> QED BY <1>2, <2>1, <2>2
<1> QED BY <1>1, <1>2, <1>3 DEF DiskStep

LEMMA StartStep ==
    ASSUME Inv, NEW t \in Threads, NEW op \in Operations, NEW d \in Disks, NEW s \in Sectors \cup {0},
           Start(t, op, d, s), DiskStep, disk'[d] # "unknown",
           UNCHANGED <<port, drive, irq, pulsed, stopped>>
    PROVE  Inv'
<1> DEFINE Others == {u \in Threads \ {t} :
                         pc[u] \notin {"idle", "partitions"} /\ Channel(u) = ControlBlock(d).channel}
<1>1. /\ pc' = [pc EXCEPT ![t] = "select"]
      /\ request' = [request EXCEPT ![t] = [op |-> op, disk |-> d, sector |-> s]]
      /\ hit' = [hit EXCEPT ![t] = Nothing]
      /\ disturbed' = [u \in Threads |-> IF u = t THEN Others # {} ELSE disturbed[u] \/ u \in Others]
    BY DEF Start, Go
<1>2. /\ pc \in [Threads -> Places]
      /\ request \in [Threads -> [op : Operations, disk : Disks, sector : Sectors \cup {0}] \cup {NoRequest}]
      /\ hit \in [Threads -> {Nothing} \cup [channel : Channels, device : {0, 1}, sector : 0 .. MaxSector]]
      /\ disturbed \in [Threads -> BOOLEAN]
    BY DEF Inv, TypeOK
<1>3. /\ pc'[t] = "select" /\ request'[t] = [op |-> op, disk |-> d, sector |-> s]
      /\ \A u \in Threads \ {t} :
            /\ pc'[u] = pc[u] /\ request'[u] = request[u] /\ hit'[u] = hit[u]
            /\ disturbed'[u] <=> disturbed[u] \/ u \in Others
      /\ disturbed'[t] <=> Others # {}
    BY <1>1, <1>2
<1>4. TypeOK'
    <2>1. pc' \in [Threads -> Places]
        BY <1>1, <1>2 DEF Places
    <2>2. request' \in [Threads -> [op : Operations, disk : Disks, sector : Sectors \cup {0}] \cup {NoRequest}]
        <3> DEFINE R == [op : Operations, disk : Disks, sector : Sectors \cup {0}] \cup {NoRequest}
        <3>1. [op |-> op, disk |-> d, sector |-> s] \in R
            OBVIOUS
        <3> HIDE DEF R
        <3>2. request \in [Threads -> R]
            BY <1>2 DEF R
        <3>3. request' \in [Threads -> R]
            BY <1>1, <3>1, <3>2
        <3> QED BY <3>3 DEF R
    <2>3. \A u \in Threads : pc'[u] # "idle" => request'[u].disk \in Disks
        BY <1>3 DEF Inv, TypeOK
    <2>4. hit' \in [Threads -> {Nothing} \cup [channel : Channels, device : {0, 1}, sector : 0 .. MaxSector]]
        BY <1>1, <1>2
    <2>5. disturbed' \in [Threads -> BOOLEAN]
        <3> HIDE DEF Others
        <3>1. \A u \in Threads : disturbed[u] \in BOOLEAN
            BY <1>2
        <3>2. \A u \in Threads :
                 (IF u = t THEN Others # {} ELSE disturbed[u] \/ u \in Others) \in BOOLEAN
            BY <3>1
        <3> QED BY <1>1, <3>2
    <2> QED BY <2>1, <2>2, <2>3, <2>4, <2>5 DEF Inv, TypeOK, DiskStep
<1>5. Alone'
    <2> SUFFICES ASSUME NEW u \in Threads, NEW v \in Threads, u # v, Working(u)', Working(v)',
                        Channel(u)' = Channel(v)'
                 PROVE  disturbed'[u]
        BY DEF Alone
    <2>1. Channel(t)' = ControlBlock(d).channel
        BY <1>3 DEF Channel
    <2>2. \A w \in Threads \ {t} : (Working(w)' <=> Working(w)) /\ Channel(w)' = Channel(w)
        BY <1>3 DEF Working, Channel
    <2>3. \A w \in Threads \ {t} :
             w \in Others <=> Working(w) /\ Channel(w) = ControlBlock(d).channel
        BY DEF Working
    <2> HIDE DEF Others
    <2>4. CASE u = t
        BY <1>3, <2>1, <2>2, <2>3, <2>4
    <2>5. CASE v = t
        BY <1>3, <2>1, <2>2, <2>3, <2>5
    <2>6. CASE u # t /\ v # t
        BY <1>3, <2>2, <2>6 DEF Inv, Alone
    <2> QED BY <2>4, <2>5, <2>6
<1>6. Known'
    <2>1. \A u \in Threads : pc'[u] # "idle" => disk'[request'[u].disk] # "unknown"
        <3> SUFFICES ASSUME NEW u \in Threads \ {t}, pc'[u] # "idle"
                     PROVE  disk'[request'[u].disk] # "unknown"
            BY <1>3
        <3>1. request[u].disk \in Disks /\ disk[request[u].disk] # "unknown"
            BY <1>3 DEF Inv, TypeOK, Known
        <3> QED BY <1>3, <3>1 DEF DiskStep
    <2> QED BY <2>1 DEF Known, DiskStep
<1>7. \A u \in Threads : ThreadInv(u)'
    <2> SUFFICES ASSUME NEW u \in Threads PROVE ThreadInv(u)'
        OBVIOUS
    <2>1. CASE u = t
        BY <1>3, <2>1, NothingYet
    <2>2. CASE u # t
        <3>1. ThreadInv(u)
            BY DEF Inv
        <3> QED BY <1>3, <2>2, <3>1, Keeps
    <2> QED BY <2>1, <2>2
<1> QED BY <1>4, <1>5, <1>6, <1>7 DEF Inv

LEMMA FinishStep ==
    ASSUME Inv, NEW t \in Threads, Finish(t), pc[t] # "idle",
           UNCHANGED <<disk, port, drive, irq, stopped>>,
           \/ pulsed' = pulsed
           \/ Working(t) /\ pulsed' = [pulsed EXCEPT ![Channel(t)] = FALSE]
    PROVE  Inv'
<1>1. /\ pc' = [pc EXCEPT ![t] = "idle"]
      /\ request' = [request EXCEPT ![t] = NoRequest]
      /\ hit' = [hit EXCEPT ![t] = Nothing]
      /\ disturbed' = [disturbed EXCEPT ![t] = FALSE]
    BY DEF Finish, Go
<1>2. /\ pc \in [Threads -> Places]
      /\ request \in [Threads -> [op : Operations, disk : Disks, sector : Sectors \cup {0}] \cup {NoRequest}]
      /\ hit \in [Threads -> {Nothing} \cup [channel : Channels, device : {0, 1}, sector : 0 .. MaxSector]]
      /\ disturbed \in [Threads -> BOOLEAN]
      /\ pulsed \in [Channels -> BOOLEAN]
    BY DEF Inv, TypeOK
<1>3. /\ pc'[t] = "idle"
      /\ \A u \in Threads \ {t} :
            /\ pc'[u] = pc[u] /\ request'[u] = request[u] /\ hit'[u] = hit[u]
            /\ disturbed'[u] = disturbed[u]
    BY <1>1, <1>2
<1>4. /\ pulsed' \in [Channels -> BOOLEAN]
      /\ \A c \in Channels : c # Channel(t) \/ ~ Working(t) => pulsed'[c] = pulsed[c]
    BY <1>2
<1>5. TypeOK'
    <2>1. pc' \in [Threads -> Places]
        BY <1>1, <1>2 DEF Places
    <2>2. request' \in [Threads -> [op : Operations, disk : Disks, sector : Sectors \cup {0}] \cup {NoRequest}]
        BY <1>1, <1>2
    <2>3. \A u \in Threads : pc'[u] # "idle" => request'[u].disk \in Disks
        BY <1>3 DEF Inv, TypeOK
    <2>4. hit' \in [Threads -> {Nothing} \cup [channel : Channels, device : {0, 1}, sector : 0 .. MaxSector]]
        BY <1>1, <1>2
    <2>5. disturbed' \in [Threads -> BOOLEAN]
        BY <1>1, <1>2
    <2> QED BY <1>4, <2>1, <2>2, <2>3, <2>4, <2>5 DEF Inv, TypeOK
<1>6. Alone'
    <2>1. ~ Working(t)'
        BY <1>3 DEF Working
    <2>2. \A w \in Threads \ {t} : (Working(w)' <=> Working(w)) /\ Channel(w)' = Channel(w)
        BY <1>3 DEF Working, Channel
    <2> QED BY <1>3, <2>1, <2>2 DEF Inv, Alone
<1>7. Known'
    BY <1>3 DEF Inv, Known
<1>8. \A u \in Threads : ThreadInv(u)'
    <2> SUFFICES ASSUME NEW u \in Threads PROVE ThreadInv(u)'
        OBVIOUS
    <2>1. CASE u = t
        BY <1>3, <2>1, NothingYet
    <2>2. CASE u # t /\ Working(t)
        BY <1>3, <1>4, <2>2, Elsewhere DEF OnlyOn
    <2>3. CASE u # t /\ ~ Working(t)
        <3>1. ThreadInv(u)
            BY DEF Inv
        <3>2. pulsed' = pulsed
            BY <2>3
        <3> QED BY <1>3, <2>3, <3>1, <3>2, Keeps
    <2> QED BY <2>1, <2>2, <2>3
<1> QED BY <1>5, <1>6, <1>7, <1>8 DEF Inv


-----------------------------------------------------------------------------
(* The steps of a request. *)

\* A thread goes on with its request, and touches its channel only.
LEMMA OwnStep ==
    ASSUME Inv, NEW t \in Threads, NEW place \in Places \ {"idle"}, Working(t), Go(t, place),
           UNCHANGED <<disk, request, disturbed>>,
           \A u \in Threads : u # t => hit'[u] = hit[u],
           hit' \in [Threads -> {Nothing} \cup [channel : Channels, device : {0, 1}, sector : 0 .. MaxSector]],
           port' \in [Channels -> [device : {0, 1}, sector : 0 .. MaxSector]],
           drive' \in [Drives -> [state : {"ready", "asleep", "busy", "data", "error"},
                                  op : Operations, sector : 0 .. MaxSector]],
           irq' \in [Channels -> BOOLEAN],
           pulsed' \in [Channels -> BOOLEAN],
           stopped' \in BOOLEAN,
           OnlyOn(Channel(t)),
           ThreadInv(t)'
    PROVE  Inv'
<1>1. pc \in [Threads -> Places] /\ pc' = [pc EXCEPT ![t] = place]
    BY DEF Inv, TypeOK, Go
<1>2. pc' \in [Threads -> Places] /\ pc'[t] = place /\ \A u \in Threads : u # t => pc'[u] = pc[u]
    BY <1>1
<1>3. pc[t] # "idle"
    BY DEF Working
<1>4. \A u \in Threads : pc'[u] # "idle" => pc[u] # "idle"
    BY <1>2, <1>3
<1>5. TypeOK'
    BY <1>2, <1>4 DEF Inv, TypeOK
<1>6. Alone'
    <2>1. \A u \in Threads : Working(u)' => Working(u)
        BY <1>2 DEF Working
    <2>2. \A u \in Threads : Channel(u)' = Channel(u)
        BY DEF Channel
    <2> QED BY <2>1, <2>2 DEF Inv, Alone
<1>7. Known'
    BY <1>4 DEF Inv, Known
<1>8. \A u \in Threads : ThreadInv(u)'
    BY <1>2, Elsewhere
<1> QED BY <1>5, <1>6, <1>7, <1>8 DEF Inv

\* Where a thread that has its channel to itself is, its own drive is the one it looks at.
LEMMA Looks ==
    ASSUME Inv, NEW t \in Threads, ~ disturbed[t],
           pc[t] \in {"busy", "ready", "program", "command", "sent", "irq", "transfer"}
    PROVE  /\ Undisturbed(t)
           /\ port[Channel(t)].device = Own(t).device
           /\ Selected(t) = Own(t) /\ Present(t) /\ IdeGetState(t) = drive[Own(t)].state
<1>1. Undisturbed(t) /\ pc[t] # "idle"
    BY DEF Inv, ThreadInv, Working
<1>2. port[Channel(t)].device = Own(t).device
    BY <1>1 DEF Undisturbed, OnDevice
<1> QED BY <1>1, <1>2, SelectedIsOwn DEF Inv

LEMMA Untouched ==
    ASSUME Inv
    PROVE  /\ hit' = hit => hit' \in [Threads -> {Nothing} \cup [channel : Channels, device : {0, 1},
                                                                 sector : 0 .. MaxSector]]
           /\ port' = port => port' \in [Channels -> [device : {0, 1}, sector : 0 .. MaxSector]]
           /\ drive' = drive => drive' \in [Drives -> [state : {"ready", "asleep", "busy", "data", "error"},
                                                       op : Operations, sector : 0 .. MaxSector]]
           /\ irq' = irq => irq' \in [Channels -> BOOLEAN]
           /\ pulsed' = pulsed => pulsed' \in [Channels -> BOOLEAN]
           /\ stopped' = stopped => stopped' \in BOOLEAN
BY DEF Inv, TypeOK

\* The steps that change no port, drive or flag.
LEMMA WaitStep ==
    ASSUME Inv, NEW t \in Threads, NEW place \in Places \ {"idle"}, Working(t), Go(t, place),
           UNCHANGED <<disk, port, drive, irq, pulsed, request, hit, disturbed, stopped>>,
           ThreadInv(t)'
    PROVE  Inv'
<1>1. OnlyOn(Channel(t))
    BY DEF OnlyOn
<1> QED BY <1>1, Untouched, OwnStep

LEMMA Placed ==
    ASSUME Inv, NEW t \in Threads, NEW place \in Places, Go(t, place)
    PROVE  pc'[t] = place
BY DEF Inv, TypeOK, Go

LEMMA SelectDriveStep ==
    ASSUME Inv, NEW t \in Threads, SelectDrive(t)
    PROVE  Inv'
<1> DEFINE place == IF request[t].op = "identify" THEN "ready" ELSE "busy"
<1>1. /\ Working(t) /\ pc[t] # "idle"
      /\ Go(t, place) /\ place \in {"ready", "busy"} /\ place \in Places \ {"idle"}
      /\ port' = [port EXCEPT ![Channel(t)].device = Own(t).device]
      /\ UNCHANGED <<disk, drive, irq, pulsed, request, hit, disturbed, stopped>>
    BY DEF SelectDrive, At, Working, Own, Places
<1> HIDE DEF place
<1>2. pc'[t] = place
    BY <1>1, Placed
<1>3. Channel(t) \in Channels /\ Own(t).device \in {0, 1}
    BY <1>1, UseType DEF Inv
<1>4. /\ port' \in [Channels -> [device : {0, 1}, sector : 0 .. MaxSector]]
      /\ port'[Channel(t)].device = Own(t).device
      /\ \A e \in Channels : e # Channel(t) => port'[e] = port[e]
    BY <1>1, <1>3, DeviceWritten DEF Inv
<1>5. Own(t)' = Own(t) /\ Channel(t)' = Channel(t)
    BY <1>1 DEF Own, Channel
<1>6. ThreadInv(t)'
    BY <1>1, <1>2, <1>4, <1>5 DEF ThreadInv, Undisturbed, OnDevice, OnSector, Commanded, Signalled, Hits
<1>7. OnlyOn(Channel(t))
    BY <1>1, <1>4 DEF OnlyOn
<1> QED BY <1>1, <1>4, <1>6, <1>7, Untouched, OwnStep

LEMMA WaitNotBusyStep ==
    ASSUME Inv, NEW t \in Threads, WaitNotBusy(t) \/ WaitReady(t)
    PROVE  Inv'
<1> DEFINE place == IF pc[t] = "busy" THEN "ready"
                    ELSE IF request[t].op = "identify" THEN "command" ELSE "program"
<1>1. /\ Working(t) /\ pc[t] \in {"busy", "ready"}
      /\ Go(t, place) /\ place \in Places \ {"idle"}
      /\ place \in {"ready", "command", "program"} /\ (place = "command" => request[t].op = "identify")
      /\ UNCHANGED <<disk, port, drive, irq, pulsed, request, hit, disturbed, stopped>>
    BY DEF WaitNotBusy, WaitReady, At, Working, Places
<1> HIDE DEF place
<1>2. pc'[t] = place
    BY <1>1, Placed
<1>3. Own(t)' = Own(t) /\ Channel(t)' = Channel(t)
    BY <1>1 DEF Own, Channel
<1>4. ASSUME ~ disturbed[t]
      PROVE  Undisturbed(t)'
    <2>1. port[Channel(t)].device = Own(t).device
        BY <1>1, <1>4, Looks
    <2>2. OnDevice(t)' /\ OnSector(t)'
        BY <1>1, <1>2, <1>3, <2>1 DEF OnDevice, OnSector
    <2>3. Commanded(t)' /\ Signalled(t)' /\ Hits(t)'
        BY <1>1, <1>2 DEF Commanded, Signalled, Hits
    <2> QED BY <2>2, <2>3 DEF Undisturbed
<1>5. ThreadInv(t)'
    BY <1>1, <1>4 DEF ThreadInv
<1> QED BY <1>1, <1>5, WaitStep

LEMMA ProgramSectorStep ==
    ASSUME Inv, NEW t \in Threads, ProgramSector(t)
    PROVE  Inv'
<1>1. /\ Working(t) /\ pc[t] = "program"
      /\ UNCHANGED <<disk, drive, irq, request, hit, disturbed>>
    BY DEF ProgramSector, Program, At, Working
<1>2. Channel(t) \in Channels /\ PhysicalSector(t) \in Nat
    BY <1>1, UseType DEF Inv
<1>3. CASE PhysicalSector(t) <= MaxSector
    <2>1. /\ pulsed' = [pulsed EXCEPT ![Channel(t)] = FALSE]
          /\ port' = [port EXCEPT ![Channel(t)].sector = PhysicalSector(t)]
          /\ Go(t, "command") /\ stopped' = stopped
        BY <1>3 DEF ProgramSector, Program
    <2>2. PhysicalSector(t) \in 0 .. MaxSector
        BY <1>2, <1>3, IdeAssumption
    <2>3. /\ port' \in [Channels -> [device : {0, 1}, sector : 0 .. MaxSector]]
          /\ port'[Channel(t)].sector = PhysicalSector(t)
          /\ port'[Channel(t)].device = port[Channel(t)].device
          /\ \A e \in Channels : e # Channel(t) => port'[e] = port[e]
        BY <1>2, <2>1, <2>2, SectorWritten DEF Inv
    <2>4. pulsed \in [Channels -> BOOLEAN]
        BY DEF Inv, TypeOK
    <2>5. pulsed' \in [Channels -> BOOLEAN] /\ \A e \in Channels : e # Channel(t) => pulsed'[e] = pulsed[e]
        BY <2>1, <2>4
    <2>6. pc'[t] = "command"
        BY <2>1, Placed DEF Places
    <2>7. Own(t)' = Own(t) /\ Channel(t)' = Channel(t) /\ PhysicalSector(t)' = PhysicalSector(t)
        BY <1>1 DEF Own, Channel, PhysicalSector
    <2>8. ASSUME ~ disturbed[t]
          PROVE  Undisturbed(t)'
        <3>1. port[Channel(t)].device = Own(t).device
            BY <1>1, <2>8, Looks
        <3>2. OnDevice(t)' /\ OnSector(t)'
            BY <2>3, <2>7, <3>1 DEF OnDevice, OnSector
        <3>3. Commanded(t)' /\ Signalled(t)' /\ Hits(t)'
            BY <2>6 DEF Commanded, Signalled, Hits
        <3> QED BY <3>2, <3>3 DEF Undisturbed
    <2>9. ThreadInv(t)'
        BY <1>1, <2>8 DEF ThreadInv
    <2>10. OnlyOn(Channel(t))
        BY <1>1, <2>3, <2>5 DEF OnlyOn
    <2>11. "command" \in Places \ {"idle"}
        BY DEF Places
    <2> QED BY <1>1, <2>1, <2>3, <2>5, <2>9, <2>10, <2>11, Untouched, OwnStep
<1>4. CASE ~ (PhysicalSector(t) <= MaxSector)
    <2>1. UNCHANGED <<pulsed, port, pc>> /\ stopped' = TRUE
        BY <1>4 DEF ProgramSector, Program
    <2> QED BY <1>1, <2>1, StoppedStep DEF threadVars
<1> QED BY <1>3, <1>4

LEMMA DriveWritten ==
    ASSUME TypeOK, NEW d \in Drives,
           NEW x \in [state : {"ready", "asleep", "busy", "data", "error"},
                      op : Operations, sector : 0 .. MaxSector],
           drive' = [drive EXCEPT ![d] = x]
    PROVE  /\ drive' \in [Drives -> [state : {"ready", "asleep", "busy", "data", "error"},
                                     op : Operations, sector : 0 .. MaxSector]]
           /\ drive'[d] = x
           /\ \A e \in Drives : e # d => drive'[e] = drive[e]
<1> DEFINE R == [state : {"ready", "asleep", "busy", "data", "error"}, op : Operations, sector : 0 .. MaxSector]
<1>1. drive \in [Drives -> R] /\ x \in R
    BY DEF TypeOK
<1> HIDE DEF R
<1>2. /\ drive' \in [Drives -> R]
      /\ drive'[d] = x
      /\ \A e \in Drives : e # d => drive'[e] = drive[e]
    BY <1>1
<1> QED BY <1>2 DEF R

LEMMA SendCommandStep ==
    ASSUME Inv, NEW t \in Threads, SendCommand(t)
    PROVE  Inv'
<1> DEFINE x == [state |-> "busy", op |-> request[t].op, sector |-> port[Channel(t)].sector]
<1>1. /\ Working(t) /\ pc[t] = "command" /\ Go(t, "sent")
      /\ drive' = IF Present(t) THEN [drive EXCEPT ![Selected(t)] = x] ELSE drive
      /\ UNCHANGED <<disk, port, irq, pulsed, request, hit, disturbed, stopped>>
    BY DEF SendCommand, At, Working
<1>2. /\ Channel(t) \in Channels /\ request[t].op \in Operations
    <2>1. TypeOK /\ pc[t] # "idle"
        BY <1>1 DEF Inv
    <2> QED BY <2>1, UseType
<1>3. x \in [state : {"ready", "asleep", "busy", "data", "error"}, op : Operations, sector : 0 .. MaxSector]
    <2>1. port[Channel(t)].sector \in 0 .. MaxSector
        BY <1>2 DEF Inv, TypeOK
    <2> QED BY <1>2, <2>1
<1>4. x.state = "busy" /\ x.op = request[t].op /\ x.sector = port[Channel(t)].sector
    OBVIOUS
<1> HIDE DEF x
<1>5. ASSUME Present(t)
      PROVE  /\ drive' \in [Drives -> [state : {"ready", "asleep", "busy", "data", "error"},
                                       op : Operations, sector : 0 .. MaxSector]]
             /\ drive'[Selected(t)] = x
             /\ \A e \in Drives : e # Selected(t) => drive'[e] = drive[e]
    BY <1>1, <1>3, <1>5, DriveWritten DEF Inv, Present
<1>6. drive' \in [Drives -> [state : {"ready", "asleep", "busy", "data", "error"},
                             op : Operations, sector : 0 .. MaxSector]]
    <2>1. CASE Present(t)
        BY <1>5, <2>1
    <2>2. CASE ~ Present(t)
        BY <1>1, <2>2, Untouched
    <2> QED BY <2>1, <2>2
<1>7. pc'[t] = "sent"
    BY <1>1, Placed DEF Places
<1>8. Own(t)' = Own(t) /\ Channel(t)' = Channel(t) /\ PhysicalSector(t)' = PhysicalSector(t)
    BY <1>1 DEF Own, Channel, PhysicalSector
<1>9. ASSUME ~ disturbed[t]
      PROVE  Undisturbed(t)'
    <2>1. /\ Undisturbed(t) /\ port[Channel(t)].device = Own(t).device
          /\ Selected(t) = Own(t) /\ Present(t)
        BY <1>1, <1>9, Looks
    <2>2. drive'[Own(t)] = x
        BY <1>5, <2>1
    <2>3. request[t].op # "identify" => x.sector = PhysicalSector(t)
        BY <1>1, <1>4, <2>1 DEF Undisturbed, OnSector
    <2>4. OnDevice(t)' /\ OnSector(t)' /\ Hits(t)'
        BY <1>1, <1>7, <1>8, <2>1 DEF OnDevice, OnSector, Hits
    <2>5. Commanded(t)'
        BY <1>1, <1>4, <1>7, <1>8, <2>2, <2>3 DEF Commanded
    <2>6. Signalled(t)'
        BY <1>4, <1>7, <1>8, <2>2 DEF Signalled
    <2> QED BY <2>4, <2>5, <2>6 DEF Undisturbed
<1>10. ThreadInv(t)'
    BY <1>1, <1>9 DEF ThreadInv
<1>11. OnlyOn(Channel(t))
    <2>1. Selected(t).channel = Channel(t)
        BY DEF Selected
    <2>2. \A d \in Drives : d.channel # Channel(t) => drive'[d] = drive[d]
        BY <1>1, <1>5, <2>1
    <2> QED BY <1>1, <2>2 DEF OnlyOn
<1>12. "sent" \in Places \ {"idle"}
    BY DEF Places
<1> QED BY <1>1, <1>6, <1>10, <1>11, <1>12, Untouched, OwnStep


LEMMA CommandDoneStep ==
    ASSUME Inv, NEW t \in Threads, CommandDone(t)
    PROVE  Inv'
<1>1. /\ Working(t) /\ pc[t] = "sent" /\ pc[t] # "idle"
      /\ IdeGetState(t) # "busy"
      /\ UNCHANGED <<disk, port, drive, irq, pulsed, stopped>>
    BY DEF CommandDone, AfterCommand, At, Working
<1>2. CASE IdeGetState(t) = "error" /\ request[t].op # "identify"
    BY <1>1, <1>2, FinishStep DEF CommandDone, AfterCommand
<1>3. CASE ~ (IdeGetState(t) = "error" /\ request[t].op # "identify")
    <2> DEFINE place == IF request[t].op = "identify" THEN "transfer" ELSE "irq"
    <2>1. /\ Go(t, place) /\ UNCHANGED <<request, hit, disturbed>>
          /\ place \in Places \ {"idle"} /\ place \in {"transfer", "irq"}
          /\ place = "transfer" <=> request[t].op = "identify"
        BY <1>3 DEF CommandDone, AfterCommand, Places
    <2> HIDE DEF place
    <2>2. pc'[t] = place
        BY <2>1, Placed
    <2>3. Own(t)' = Own(t) /\ Channel(t)' = Channel(t) /\ PhysicalSector(t)' = PhysicalSector(t)
        BY <2>1 DEF Own, Channel, PhysicalSector
    <2>4. ASSUME ~ disturbed[t]
          PROVE  Undisturbed(t)'
        <3>1. /\ Undisturbed(t) /\ port[Channel(t)].device = Own(t).device
              /\ IdeGetState(t) = drive[Own(t)].state
            BY <1>1, <2>4, Looks
        <3>2. OnDevice(t)' /\ OnSector(t)' /\ Hits(t)'
            BY <1>1, <2>1, <2>2, <2>3, <3>1 DEF OnDevice, OnSector, Hits
        <3>3. Commanded(t) /\ Signalled(t) /\ drive[Own(t)].state # "busy"
            BY <1>1, <3>1 DEF Undisturbed
        <3>4. Commanded(t)'
            BY <1>1, <2>1, <2>2, <2>3, <3>3 DEF Commanded
        <3>5. Signalled(t)'
            BY <1>1, <2>1, <2>2, <2>3, <3>3 DEF Signalled
        <3> QED BY <3>2, <3>4, <3>5 DEF Undisturbed
    <2>5. ThreadInv(t)'
        BY <2>1, <2>4 DEF ThreadInv
    <2> QED BY <1>1, <2>1, <2>5, WaitStep
<1> QED BY <1>2, <1>3

LEMMA WaitInterruptStep ==
    ASSUME Inv, NEW t \in Threads, WaitInterrupt(t)
    PROVE  Inv'
<1>1. /\ Working(t) /\ pc[t] = "irq" /\ pc[t] # "idle"
      /\ pulsed' = [pulsed EXCEPT ![Channel(t)] = FALSE]
      /\ UNCHANGED <<disk, port, drive, irq, stopped>>
    BY DEF WaitInterrupt, At, Working
<1>2. CASE IdeGetState(t) = "error"
    BY <1>1, <1>2, FinishStep DEF WaitInterrupt
<1>3. CASE IdeGetState(t) # "error"
    <2>1. Go(t, "transfer") /\ UNCHANGED <<request, hit, disturbed>>
        BY <1>3 DEF WaitInterrupt
    <2>2. pc'[t] = "transfer" /\ "transfer" \in Places \ {"idle"}
        BY <2>1, Placed DEF Places
    <2>3. Own(t)' = Own(t) /\ Channel(t)' = Channel(t) /\ PhysicalSector(t)' = PhysicalSector(t)
        BY <2>1 DEF Own, Channel, PhysicalSector
    <2>4. pulsed \in [Channels -> BOOLEAN]
        BY DEF Inv, TypeOK
    <2>5. pulsed' \in [Channels -> BOOLEAN] /\ \A e \in Channels : e # Channel(t) => pulsed'[e] = pulsed[e]
        BY <1>1, <2>4
    <2>6. ASSUME ~ disturbed[t]
          PROVE  Undisturbed(t)'
        <3>1. /\ Undisturbed(t) /\ port[Channel(t)].device = Own(t).device
              /\ IdeGetState(t) = drive[Own(t)].state
            BY <1>1, <2>6, Looks
        <3>2. OnDevice(t)'
            BY <1>1, <2>3, <3>1 DEF OnDevice
        <3>3. OnSector(t)' /\ Signalled(t)' /\ Hits(t)'
            BY <2>2 DEF OnSector, Signalled, Hits
        <3>4. Commanded(t) /\ drive[Own(t)].state # "error"
            BY <1>3, <3>1 DEF Undisturbed
        <3>5. Commanded(t)'
            BY <1>1, <2>1, <2>2, <2>3, <3>4 DEF Commanded
        <3> QED BY <3>2, <3>3, <3>5 DEF Undisturbed
    <2>7. ThreadInv(t)'
        BY <2>1, <2>6 DEF ThreadInv
    <2>8. OnlyOn(Channel(t))
        BY <1>1, <2>5 DEF OnlyOn
    <2> QED BY <1>1, <2>1, <2>2, <2>5, <2>7, <2>8, Untouched, OwnStep
<1> QED BY <1>2, <1>3

LEMMA MoveWordsStep ==
    ASSUME Inv, NEW t \in Threads, ReadData(t) \/ WriteData(t)
    PROVE  Inv'
<1> DEFINE x == [channel |-> Channel(t), device |-> port[Channel(t)].device,
                 sector |-> drive[Selected(t)].sector]
<1>1. /\ Working(t) /\ pc[t] = "transfer" /\ Go(t, "done")
      /\ IF IdeGetState(t) = "data"
         THEN /\ hit' = [hit EXCEPT ![t] = x]
              /\ drive' = [drive EXCEPT ![Selected(t)] = Idle("ready")]
         ELSE UNCHANGED <<hit, drive>>
      /\ UNCHANGED <<disk, port, irq, pulsed, request, disturbed, stopped>>
    BY DEF ReadData, WriteData, MoveWords, At, Working
<1>2. Channel(t) \in Channels
    <2>1. TypeOK /\ pc[t] # "idle"
        BY <1>1 DEF Inv
    <2> QED BY <2>1, UseType
<1>3. pc'[t] = "done" /\ "done" \in Places \ {"idle"}
    BY <1>1, Placed DEF Places
<1>4. CASE IdeGetState(t) = "data"
    <2>1. Selected(t) \in Drives
        BY <1>4 DEF IdeGetState, Present
    <2>2. x \in [channel : Channels, device : {0, 1}, sector : 0 .. MaxSector]
        <3>1. port[Channel(t)].device \in {0, 1}
            BY <1>2 DEF Inv, TypeOK
        <3>2. drive[Selected(t)].sector \in 0 .. MaxSector
            BY <2>1 DEF Inv, TypeOK
        <3> QED BY <1>2, <3>1, <3>2
    <2>3. /\ x.channel = Channel(t) /\ x.device = port[Channel(t)].device
          /\ x.sector = drive[Selected(t)].sector
          /\ x = [channel |-> x.channel, device |-> x.device, sector |-> x.sector]
        OBVIOUS
    <2>4. hit' = [hit EXCEPT ![t] = x] /\ drive' = [drive EXCEPT ![Selected(t)] = Idle("ready")]
        BY <1>1, <1>4
    <2> HIDE DEF x
    <2>5. /\ hit' \in [Threads -> {Nothing} \cup [channel : Channels, device : {0, 1}, sector : 0 .. MaxSector]]
          /\ hit'[t] = x
          /\ \A u \in Threads : u # t => hit'[u] = hit[u]
        <3> DEFINE H == {Nothing} \cup [channel : Channels, device : {0, 1}, sector : 0 .. MaxSector]
        <3>1. hit \in [Threads -> H] /\ x \in H
            BY <2>2 DEF Inv, TypeOK
        <3> HIDE DEF H
        <3>2. hit' \in [Threads -> H] /\ hit'[t] = x /\ \A u \in Threads : u # t => hit'[u] = hit[u]
            BY <2>4, <3>1
        <3> QED BY <3>2 DEF H
    <2>6. Idle("ready") \in [state : {"ready", "asleep", "busy", "data", "error"},
                             op : Operations, sector : 0 .. MaxSector]
        BY IdeAssumption DEF Idle, Operations
    <2>7. /\ drive' \in [Drives -> [state : {"ready", "asleep", "busy", "data", "error"},
                                     op : Operations, sector : 0 .. MaxSector]]
          /\ \A e \in Drives : e # Selected(t) => drive'[e] = drive[e]
        BY <2>1, <2>4, <2>6, DriveWritten DEF Inv
    <2>8. OnlyOn(Channel(t))
        <3>1. Selected(t).channel = Channel(t)
            BY DEF Selected
        <3> QED BY <1>1, <2>7, <3>1 DEF OnlyOn
    <2>9. ASSUME ~ disturbed[t]
          PROVE  Undisturbed(t)'
        <3>1. /\ Undisturbed(t) /\ port[Channel(t)].device = Own(t).device
              /\ Selected(t) = Own(t) /\ IdeGetState(t) = drive[Own(t)].state
            BY <1>1, <2>9, Looks
        <3>2. OnDevice(t)' /\ OnSector(t)' /\ Commanded(t)' /\ Signalled(t)'
            BY <1>3 DEF OnDevice, OnSector, Commanded, Signalled
        <3>3. request[t].op # "identify" => drive[Own(t)].sector = PhysicalSector(t)
            BY <1>1, <1>4, <3>1 DEF Undisturbed, Commanded
        <3>4. Own(t).channel = Channel(t)
            BY DEF Own, Channel
        <3>5. Own(t)' = Own(t) /\ PhysicalSector(t)' = PhysicalSector(t)
            BY <1>1 DEF Own, PhysicalSector
        <3>6. Hits(t)'
            BY <1>1, <2>3, <2>5, <3>1, <3>3, <3>4, <3>5 DEF Hits
        <3> QED BY <3>2, <3>6 DEF Undisturbed
    <2>10. ThreadInv(t)'
        BY <1>1, <2>9 DEF ThreadInv
    <2> QED BY <1>1, <1>3, <2>5, <2>7, <2>8, <2>10, Untouched, OwnStep
<1>5. CASE IdeGetState(t) # "data"
    <2>1. UNCHANGED <<hit, drive>>
        BY <1>1, <1>5
    <2>2. ASSUME ~ disturbed[t]
          PROVE  Undisturbed(t)'
        <3>1. Undisturbed(t) /\ IdeGetState(t) = drive[Own(t)].state
            BY <1>1, <2>2, Looks
        <3>2. request[t].op = "identify"
            BY <1>1, <1>5, <3>1 DEF Undisturbed, Commanded
        <3> QED BY <1>1, <1>3, <3>2 DEF Undisturbed, OnDevice, OnSector, Commanded, Signalled, Hits
    <2>3. ThreadInv(t)'
        BY <1>1, <2>2 DEF ThreadInv
    <2> QED BY <1>1, <1>3, <2>1, <2>3, WaitStep
<1> QED BY <1>4, <1>5

LEMMA FinishesStep ==
    ASSUME Inv, NEW t \in Threads, TimeOut(t) \/ IdeIdentifyDevice(t) \/ DeviceAdded(t) \/ Return(t)
    PROVE  Inv'
<1>1. /\ Finish(t) /\ pc[t] # "idle"
      /\ UNCHANGED <<disk, port, drive, irq, pulsed, stopped>>
    BY DEF TimeOut, IdeIdentifyDevice, DeviceAdded, Return, At
<1> QED BY <1>1, FinishStep

LEMMA ParseTableStep ==
    ASSUME Inv, NEW t \in Threads, ParseTable(t)
    PROVE  Inv'
<1>1. /\ Working(t) /\ pc[t] # "idle"
      /\ UNCHANGED <<disk, port, drive, irq, pulsed, stopped>>
    BY DEF ParseTable, At, Working
<1>2. CASE Finish(t)
    BY <1>1, <1>2, FinishStep
<1>3. CASE Go(t, "partitions") /\ UNCHANGED <<request, hit, disturbed>>
    <2>1. "partitions" \in Places \ {"idle"} /\ pc'[t] = "partitions"
        BY <1>3, Placed DEF Places
    <2>2. ThreadInv(t)'
        BY <2>1, NothingYet
    <2> QED BY <1>1, <1>3, <2>1, <2>2, WaitStep
<1> QED BY <1>2, <1>3 DEF ParseTable


LEMMA RequestStep ==
    ASSUME Inv, NEW t \in Threads, NEW d \in Disks, NEW s \in Sectors,
           ReadRequest(t, d, s) \/ WriteBack(t, d, s)
    PROVE  Inv'
<1>1. PICK op \in Operations : Perform(t, op, d, s)
    BY DEF ReadRequest, WriteBack, Operations
<1>2. UNCHANGED <<disk, port, drive, irq, pulsed>>
    BY DEF ReadRequest, WriteBack
<1>3. CASE disk[d] = "ready"
    <2>1. Start(t, op, d, s) /\ stopped' = stopped
        BY <1>1, <1>3 DEF Perform
    <2>2. DiskStep /\ disk'[d] # "unknown"
        BY <1>2, <1>3, DiskRest
    <2> QED BY <1>2, <2>1, <2>2, StartStep
<1>4. CASE disk[d] # "ready"
    BY <1>1, <1>2, <1>4, StoppedStep DEF Perform
<1> QED BY <1>3, <1>4

LEMMA WriteRequestStep ==
    ASSUME Inv, NEW t \in Threads, NEW d \in Disks, WriteRequest(t, d)
    PROVE  Inv'
BY StoppedStep DEF WriteRequest

LEMMA DriverEntryStep ==
    ASSUME Inv, NEW t \in Threads, DriverEntry(t)
    PROVE  Inv'
<1> DEFINE answers == {d \in PhysicalDisks : IdeCheckDevicePresence(d)}
<1>1. /\ \A d \in PhysicalDisks : disk[d] = "unknown"
      /\ disk' = [d \in Disks |-> IF d \notin PhysicalDisks THEN "unknown"
                                  ELSE IF d \in answers THEN "found" ELSE "missing"]
      /\ port' = [c \in Channels |-> [port[c] EXCEPT !.device =
                     IF \E d \in answers : Physical[d] = [channel |-> c, device |-> 1] THEN 1 ELSE 0]]
      /\ UNCHANGED <<drive, irq, pulsed, pc, request, hit, disturbed, stopped>>
    BY DEF DriverEntry, threadVars
<1> HIDE DEF answers
<1>2. \A u \in Threads : pc[u] = "idle"
    <2> SUFFICES ASSUME NEW u \in Threads, pc[u] # "idle" PROVE FALSE
        OBVIOUS
    <2>1. request[u].disk \in Disks /\ disk[request[u].disk] # "unknown"
        BY DEF Inv, TypeOK, Known
    <2>2. CASE request[u].disk \in PhysicalDisks
        BY <1>1, <2>1, <2>2
    <2>3. CASE request[u].disk \in DOMAIN Partition
        <3>1. disk[Partition[request[u].disk].disk] # "unknown"
            BY <2>1, <2>3 DEF Inv, Known
        <3>2. Partition[request[u].disk].disk \in PhysicalDisks
            BY <2>3, IdeAssumption
        <3> QED BY <1>1, <3>1, <3>2
    <2> QED BY <2>1, <2>2, <2>3 DEF Disks
<1>3. \A u \in Threads : pc'[u] = "idle"
    BY <1>1, <1>2
<1>4. disk' \in [Disks -> {"unknown", "missing", "found", "listed", "ready"}]
    BY <1>1
<1>5. port' \in [Channels -> [device : {0, 1}, sector : 0 .. MaxSector]]
    <2>1. port \in [Channels -> [device : {0, 1}, sector : 0 .. MaxSector]]
        BY DEF Inv, TypeOK
    <2>2. \A c \in Channels : \A x \in {0, 1} :
             [port[c] EXCEPT !.device = x] \in [device : {0, 1}, sector : 0 .. MaxSector]
        BY <2>1
    <2>3. \A c \in Channels :
             (IF \E d \in answers : Physical[d] = [channel |-> c, device |-> 1] THEN 1 ELSE 0) \in {0, 1}
        OBVIOUS
    <2> QED BY <1>1, <2>2, <2>3
<1>6. TypeOK'
    BY <1>1, <1>3, <1>4, <1>5 DEF Inv, TypeOK
<1>7. Alone' /\ \A u \in Threads : ThreadInv(u)'
    BY <1>3, NothingYet DEF Alone, Working
<1>8. Known'
    <2>1. \A p \in DOMAIN Partition : p \in Disks /\ p \notin PhysicalDisks
        BY IdeAssumption DEF Disks
    <2>2. \A p \in DOMAIN Partition : disk'[p] = "unknown"
        BY <1>1, <2>1
    <2> QED BY <1>3, <2>2 DEF Known
<1> QED BY <1>6, <1>7, <1>8 DEF Inv

LEMMA IdeAddDeviceStep ==
    ASSUME Inv, NEW t \in Threads, NEW d \in PhysicalDisks, IdeAddDevice(t, d)
    PROVE  Inv'
<1>1. /\ disk' = [disk EXCEPT ![d] = "listed"]
      /\ Start(t, "identify", d, 0)
      /\ UNCHANGED <<port, drive, irq, pulsed, stopped>>
    BY DEF IdeAddDevice
<1>2. d \in Disks /\ d \notin DOMAIN Partition
    BY IdeAssumption DEF Disks
<1>3. DiskStep
    BY <1>1, <1>2, DiskSet
<1>4. disk'[d] # "unknown"
    BY <1>1, <1>2 DEF Inv, TypeOK
<1>5. "identify" \in Operations /\ 0 \in Sectors \cup {0}
    BY DEF Operations
<1> QED BY <1>1, <1>2, <1>3, <1>4, <1>5, StartStep

LEMMA IdentifiedStep ==
    ASSUME Inv, NEW t \in Threads, Identified(t)
    PROVE  Inv'
<1> DEFINE d == request[t].disk
<1>1. /\ pc[t] # "idle"
      /\ disk' = [disk EXCEPT ![d] = "ready"]
      /\ Start(t, "table", d, 0)
      /\ UNCHANGED <<port, drive, irq, pulsed, stopped>>
    BY DEF Identified, At
<1>2. d \in Disks /\ disk[d] # "unknown"
    BY <1>1 DEF Inv, TypeOK, Known
<1> HIDE DEF d
<1>3. d \in DOMAIN Partition => disk[Partition[d].disk] # "unknown"
    BY <1>2 DEF Inv, Known
<1>4. DiskStep
    BY <1>1, <1>2, <1>3, DiskSet
<1>5. disk'[d] # "unknown"
    BY <1>1, <1>2 DEF Inv, TypeOK
<1>6. "table" \in Operations /\ 0 \in Sectors \cup {0}
    BY DEF Operations
<1> QED BY <1>1, <1>2, <1>4, <1>5, <1>6, StartStep

LEMMA PartitionStep ==
    ASSUME Inv, NEW t \in Threads, NEW p \in DOMAIN Partition, CreatePartition(t, p) \/ FillPartition(t, p)
    PROVE  Inv'
<1>1. PICK state \in {"listed", "ready"} : disk' = [disk EXCEPT ![p] = state]
    BY DEF CreatePartition, FillPartition
<1>2. /\ pc[t] # "idle" /\ p \in OfDisk(t)
      /\ UNCHANGED <<port, drive, irq, pulsed, pc, request, hit, disturbed, stopped>>
    BY DEF CreatePartition, FillPartition, At, threadVars
<1>3. disk[Partition[p].disk] # "unknown"
    BY <1>2 DEF OfDisk, Inv, Known
<1>4. DiskStep
    BY <1>1, <1>3, DiskSet DEF Disks
<1>5. TypeOK'
    BY <1>2, <1>4 DEF Inv, TypeOK, DiskStep
<1>6. Alone'
    BY <1>2 DEF Inv, Alone, Working, Channel
<1>7. Known'
    <2>1. \A u \in Threads : pc'[u] # "idle" => disk'[request'[u].disk] # "unknown"
        BY <1>2, <1>4 DEF Inv, TypeOK, Known, DiskStep
    <2> QED BY <1>4, <2>1 DEF Known, DiskStep
<1>8. \A u \in Threads : ThreadInv(u)'
    <2> SUFFICES ASSUME NEW u \in Threads PROVE ThreadInv(u)'
        OBVIOUS
    <2>1. ThreadInv(u)
        BY DEF Inv
    <2> QED BY <1>2, <2>1, Keeps
<1> QED BY <1>5, <1>6, <1>7, <1>8 DEF Inv

LEMMA ResetStep ==
    ASSUME Inv, NEW t \in Threads, Reset(t)
    PROVE  Inv'
<1> DEFINE c == IdeControlChannel(Channel(t))
<1>1. /\ Working(t) /\ pc[t] = "ready" /\ pc[t] # "idle"
      /\ port' = [port EXCEPT ![c].device = 0]
      /\ drive' = [d \in Drives |-> IF d.channel = c THEN Idle("asleep") ELSE drive[d]]
      /\ disturbed' = [u \in Threads |-> disturbed[u] \/ (pc[u] # "idle" /\ Channel(u) = c)]
      /\ Go(t, "busy")
      /\ UNCHANGED <<disk, irq, pulsed, request, hit, stopped>>
    BY DEF Reset, At, Working
<1>2. Channel(t) \in Channels /\ Own(t) \in Drives /\ Own(t).channel = Channel(t)
    <2>1. TypeOK
        BY DEF Inv
    <2>2. Own(t) \in Drives /\ Channel(t) \in Channels
        BY <1>1, <2>1, UseType
    <2> QED BY <2>2 DEF Own, Channel
<1>3. c \in Channels /\ c # Channel(t)
    BY <1>2 DEF IdeControlChannel, Channels
<1> HIDE DEF c
<1>4. /\ port' \in [Channels -> [device : {0, 1}, sector : 0 .. MaxSector]]
      /\ \A e \in Channels : e # c => port'[e] = port[e]
    <2>1. TypeOK /\ 0 \in {0, 1}
        BY DEF Inv
    <2> QED BY <1>1, <1>3, <2>1, DeviceWritten
<1>5. drive' \in [Drives -> [state : {"ready", "asleep", "busy", "data", "error"},
                             op : Operations, sector : 0 .. MaxSector]]
    <2> DEFINE R == [state : {"ready", "asleep", "busy", "data", "error"},
                     op : Operations, sector : 0 .. MaxSector]
    <2>1. drive \in [Drives -> R]
        BY DEF Inv, TypeOK
    <2>2. Idle("asleep") \in R
        BY IdeAssumption DEF Idle, Operations
    <2> HIDE DEF R
    <2>3. drive' \in [Drives -> R]
        BY <1>1, <2>1, <2>2
    <2> QED BY <2>3 DEF R
<1>6. \A d \in Drives : d.channel # c => drive'[d] = drive[d]
    BY <1>1
<1>7. pc \in [Threads -> Places] /\ pc' = [pc EXCEPT ![t] = "busy"]
    BY <1>1 DEF Inv, TypeOK, Go
<1>8. pc' \in [Threads -> Places] /\ pc'[t] = "busy" /\ \A u \in Threads : u # t => pc'[u] = pc[u]
    BY <1>7 DEF Places
<1>9. /\ disturbed' \in [Threads -> BOOLEAN]
      /\ \A u \in Threads : /\ disturbed[u] => disturbed'[u]
                            /\ pc[u] # "idle" /\ Channel(u) = c => disturbed'[u]
    <2>1. \A u \in Threads : (disturbed[u] \/ (pc[u] # "idle" /\ Channel(u) = c)) \in BOOLEAN
        OBVIOUS
    <2> QED BY <1>1, <2>1
<1>10. \A u \in Threads : pc'[u] # "idle" => pc[u] # "idle"
    BY <1>1, <1>8
<1>11. TypeOK'
    BY <1>1, <1>4, <1>5, <1>8, <1>9, <1>10 DEF Inv, TypeOK
<1>12. Alone'
    <2>1. \A u \in Threads : Working(u)' => Working(u)
        BY <1>1, <1>8 DEF Working
    <2>2. \A u \in Threads : Channel(u)' = Channel(u)
        BY <1>1 DEF Channel
    <2> QED BY <1>9, <2>1, <2>2 DEF Inv, Alone
<1>13. Known'
    BY <1>1, <1>10 DEF Inv, Known
<1>14. \A u \in Threads : ThreadInv(u)'
    <2> SUFFICES ASSUME NEW u \in Threads PROVE ThreadInv(u)'
        OBVIOUS
    <2>1. ThreadInv(u)
        BY DEF Inv
    <2>2. CASE u = t
        <3>1. ASSUME ~ disturbed[t]
              PROVE  Undisturbed(t)'
            <4>1. port[Channel(t)].device = Own(t).device
                BY <1>1, <3>1, Looks
            <4>2. Own(t)' = Own(t) /\ Channel(t)' = Channel(t)
                BY <1>1 DEF Own, Channel
            <4>3. port'[Channel(t)] = port[Channel(t)]
                BY <1>2, <1>3, <1>4
            <4>4. OnDevice(t)'
                BY <4>1, <4>2, <4>3 DEF OnDevice
            <4> QED BY <1>8, <4>4 DEF Undisturbed, OnSector, Commanded, Signalled, Hits
        <3> QED BY <1>9, <2>2, <3>1 DEF ThreadInv
    <2>3. CASE u # t /\ (disturbed'[u] \/ ~ Working(u))
        <3>1. ~ Working(u)' \/ disturbed'[u]
            BY <1>8, <2>3 DEF Working
        <3> QED BY <3>1 DEF ThreadInv
    <2>4. CASE u # t /\ ~ disturbed'[u] /\ Working(u)
        <3>1. pc[u] # "idle" /\ TypeOK
            BY <2>4 DEF Working, Inv
        <3>2. Channel(u) # c
            BY <1>9, <2>4, <3>1
        <3>3. Channel(u) \in Channels /\ Own(u) \in Drives /\ Own(u).channel = Channel(u)
            BY <3>1, UseType DEF Own, Channel
        <3>4. /\ port'[Channel(u)] = port[Channel(u)]
              /\ drive'[Own(u)] = drive[Own(u)]
            BY <1>4, <1>6, <3>2, <3>3
        <3> QED BY <1>1, <1>8, <1>9, <2>1, <2>4, <3>4, Keeps
    <2> QED BY <2>2, <2>3, <2>4
<1> QED BY <1>11, <1>12, <1>13, <1>14 DEF Inv

-----------------------------------------------------------------------------
(* Drives and interrupts. *)

\* A step of the hardware changes drives and flags.
LEMMA HardwareStep ==
    ASSUME Inv, UNCHANGED <<disk, port, threadVars, stopped>>,
           drive' \in [Drives -> [state : {"ready", "asleep", "busy", "data", "error"},
                                  op : Operations, sector : 0 .. MaxSector]],
           irq' \in [Channels -> BOOLEAN], pulsed' \in [Channels -> BOOLEAN],
           \A u \in Threads : Working(u) /\ ~ disturbed[u] /\ Undisturbed(u)
                              => Commanded(u)' /\ Signalled(u)'
    PROVE  Inv'
<1>1. TypeOK'
    BY DEF Inv, TypeOK, threadVars
<1>2. Alone' /\ Known'
    BY DEF Inv, Alone, Known, Working, Channel, threadVars
<1>3. \A u \in Threads : ThreadInv(u)'
    <2> SUFFICES ASSUME NEW u \in Threads, Working(u), ~ disturbed[u] PROVE Undisturbed(u)'
        BY DEF ThreadInv, Working, threadVars
    <2>1. Undisturbed(u)
        BY DEF Inv, ThreadInv
    <2>2. Own(u)' = Own(u) /\ Channel(u)' = Channel(u) /\ PhysicalSector(u)' = PhysicalSector(u)
        BY DEF Own, Channel, PhysicalSector, threadVars
    <2>3. OnDevice(u)' /\ OnSector(u)' /\ Hits(u)'
        BY <2>1, <2>2 DEF Undisturbed, OnDevice, OnSector, Hits, threadVars
    <2> QED BY <2>1, <2>3 DEF Undisturbed
<1> QED BY <1>1, <1>2, <1>3 DEF Inv

LEMMA DriveAnswersStep ==
    ASSUME Inv, NEW d \in Drives, DriveAnswers(d)
    PROVE  Inv'
<1>1. PICK state \in {"data", "error"}, signal \in BOOLEAN :
          /\ ~ signal => drive[d].op = "write" /\ state = "data"
          /\ drive' = [drive EXCEPT ![d] = IF state = "error" THEN Idle(state) ELSE [@ EXCEPT !.state = state]]
          /\ irq' = [irq EXCEPT ![d.channel] = @ \/ signal]
    BY DEF DriveAnswers
<1>2. drive[d].state = "busy" /\ UNCHANGED <<disk, port, pulsed, threadVars, stopped>>
    BY DEF DriveAnswers
<1> DEFINE x == IF state = "error" THEN Idle(state) ELSE [drive[d] EXCEPT !.state = state]
           R == [state : {"ready", "asleep", "busy", "data", "error"}, op : Operations, sector : 0 .. MaxSector]
<1>3. d.channel \in Channels
    BY DriveType
<1>4. drive[d] \in R
    BY DEF Inv, TypeOK
<1>5. x \in R
    <2>1. CASE state = "error"
        BY <2>1, IdeAssumption DEF Idle, Operations
    <2>2. CASE state # "error"
        BY <1>4, <2>2
    <2> QED BY <2>1, <2>2
<1>6. x.state = state /\ (state # "error" => x.op = drive[d].op /\ x.sector = drive[d].sector)
    BY <1>4 DEF Idle
<1>7. drive' = [drive EXCEPT ![d] = x]
    BY <1>1
<1> HIDE DEF x
<1>8. drive' \in [Drives -> R] /\ drive'[d] = x /\ \A e \in Drives : e # d => drive'[e] = drive[e]
    BY <1>5, <1>7, DriveWritten DEF Inv
<1>9. /\ irq' \in [Channels -> BOOLEAN]
      /\ \A c \in Channels : irq[c] => irq'[c]
      /\ signal => irq'[d.channel]
    <2>1. irq \in [Channels -> BOOLEAN]
        BY DEF Inv, TypeOK
    <2>2. \A c \in Channels : irq'[c] = IF c = d.channel THEN irq[c] \/ signal ELSE irq[c]
        BY <1>1, <1>3, <2>1
    <2>3. irq' \in [Channels -> BOOLEAN]
        BY <1>1, <1>3, <2>1
    <2> QED BY <1>3, <2>2, <2>3
<1>10. ASSUME NEW u \in Threads, Working(u), Undisturbed(u)
       PROVE  Commanded(u)' /\ Signalled(u)'
    <2>1. Own(u)' = Own(u) /\ Channel(u)' = Channel(u) /\ PhysicalSector(u)' = PhysicalSector(u)
        BY <1>2 DEF Own, Channel, PhysicalSector, threadVars
    <2>2. Own(u) \in Drives /\ Channel(u) \in Channels /\ Channel(u) = Own(u).channel
        <3>1. TypeOK /\ pc[u] # "idle"
            BY <1>10 DEF Working, Inv
        <3> QED BY <3>1, UseType DEF Own, Channel
    <2>3. pc'[u] = pc[u] /\ request'[u] = request[u] /\ pulsed' = pulsed
        BY <1>2 DEF threadVars
    <2>4. Commanded(u) /\ Signalled(u)
        BY <1>10 DEF Undisturbed
    <2>5. CASE Own(u) # d
        <3>1. drive'[Own(u)] = drive[Own(u)]
            BY <1>8, <2>2, <2>5
        <3>2. Commanded(u)'
            BY <2>1, <2>3, <2>4, <3>1 DEF Commanded
        <3>3. Signalled(u)'
            BY <1>9, <2>1, <2>2, <2>3, <2>4, <3>1 DEF Signalled
        <3> QED BY <3>2, <3>3
    <2>6. CASE Own(u) = d
        <3>1. Commanded(u)'
            BY <1>2, <1>6, <1>8, <2>1, <2>3, <2>4, <2>6 DEF Commanded
        <3>2. Signalled(u)'
            <4> SUFFICES ASSUME pc[u] \in {"sent", "irq"}, request[u].op \notin {"identify", "write"}
                         PROVE  irq'[Channel(u)]
                BY <2>1, <2>3, <2>4 DEF Signalled
            <4>1. drive[d].op = request[u].op
                BY <1>2, <2>4, <2>6 DEF Commanded
            <4>2. signal
                BY <1>1, <4>1
            <4> QED BY <1>9, <2>2, <2>6, <4>2
        <3> QED BY <3>1, <3>2
    <2> QED BY <2>5, <2>6
<1>11. pulsed' \in [Channels -> BOOLEAN]
    BY <1>2 DEF Inv, TypeOK
<1> QED BY <1>2, <1>8, <1>9, <1>10, <1>11, HardwareStep

LEMMA SleepStep ==
    ASSUME Inv, NEW d \in Drives, DriveSleeps(d) \/ DriveWakes(d)
    PROVE  Inv'
<1>1. PICK state \in {"ready", "asleep"} : drive' = [drive EXCEPT ![d].state = state]
    BY DEF DriveSleeps, DriveWakes
<1>2. /\ drive[d].state \in {"ready", "asleep"}
      /\ UNCHANGED <<disk, port, irq, pulsed, threadVars, stopped>>
    BY DEF DriveSleeps, DriveWakes
<1> DEFINE R == [state : {"ready", "asleep", "busy", "data", "error"}, op : Operations, sector : 0 .. MaxSector]
<1>3. drive \in [Drives -> R] /\ drive[d] \in R
    BY DEF Inv, TypeOK
<1>4. [drive[d] EXCEPT !.state = state] \in R
    BY <1>3
<1>5. drive' = [drive EXCEPT ![d] = [drive[d] EXCEPT !.state = state]]
    BY <1>1
<1>6. drive' \in [Drives -> R] /\ \A e \in Drives : e # d => drive'[e] = drive[e]
    BY <1>4, <1>5, DriveWritten DEF Inv
<1>7. irq' \in [Channels -> BOOLEAN] /\ pulsed' \in [Channels -> BOOLEAN]
    BY <1>2 DEF Inv, TypeOK
<1>8. ASSUME NEW u \in Threads, Working(u), Undisturbed(u)
      PROVE  Commanded(u)' /\ Signalled(u)'
    <2>1. Own(u)' = Own(u) /\ Channel(u)' = Channel(u) /\ PhysicalSector(u)' = PhysicalSector(u)
        BY <1>2 DEF Own, Channel, PhysicalSector, threadVars
    <2>2. Own(u) \in Drives
        <3>1. TypeOK /\ pc[u] # "idle"
            BY <1>8 DEF Working, Inv
        <3> QED BY <3>1, UseType
    <2>3. /\ pc'[u] = pc[u] /\ request'[u] = request[u] /\ pulsed' = pulsed /\ irq' = irq
          /\ Commanded(u) /\ Signalled(u)
        BY <1>2, <1>8 DEF threadVars, Undisturbed
    <2>4. CASE Own(u) # d
        <3>1. drive'[Own(u)] = drive[Own(u)]
            BY <1>6, <2>2, <2>4
        <3> QED BY <2>1, <2>3, <3>1 DEF Commanded, Signalled
    <2>5. CASE Own(u) = d
        <3>1. ~ (pc[u] \in {"sent", "irq", "transfer"} /\ request[u].op # "identify")
            BY <1>2, <2>3, <2>5 DEF Commanded
        <3> QED BY <2>3, <3>1 DEF Commanded, Signalled
    <2> QED BY <2>4, <2>5
<1> QED BY <1>2, <1>6, <1>7, <1>8, HardwareStep

LEMMA IdeProcessIrqStep ==
    ASSUME Inv, NEW c \in Channels, IdeProcessIrq(c)
    PROVE  Inv'
<1>1. /\ irq' = [irq EXCEPT ![c] = FALSE] /\ pulsed' = [pulsed EXCEPT ![c] = TRUE]
      /\ UNCHANGED <<disk, port, drive, threadVars, stopped>>
    BY DEF IdeProcessIrq
<1>2. irq \in [Channels -> BOOLEAN] /\ pulsed \in [Channels -> BOOLEAN]
    BY DEF Inv, TypeOK
<1>3. irq' \in [Channels -> BOOLEAN] /\ pulsed' \in [Channels -> BOOLEAN]
    BY <1>1, <1>2
<1>4. \A e \in Channels : pulsed[e] \/ irq[e] => pulsed'[e] \/ irq'[e]
    BY <1>1, <1>2
<1>5. ASSUME NEW u \in Threads, Working(u), Undisturbed(u)
      PROVE  Commanded(u)' /\ Signalled(u)'
    <2>1. Own(u)' = Own(u) /\ Channel(u)' = Channel(u) /\ PhysicalSector(u)' = PhysicalSector(u)
        BY <1>1 DEF Own, Channel, PhysicalSector, threadVars
    <2>2. Channel(u) \in Channels
        <3>1. TypeOK /\ pc[u] # "idle"
            BY <1>5 DEF Working, Inv
        <3> QED BY <3>1, UseType
    <2>3. /\ pc'[u] = pc[u] /\ request'[u] = request[u] /\ drive' = drive
          /\ Commanded(u) /\ Signalled(u)
        BY <1>1, <1>5 DEF threadVars, Undisturbed
    <2>4. Commanded(u)'
        BY <2>1, <2>3 DEF Commanded
    <2>5. Signalled(u)'
        BY <1>4, <2>1, <2>2, <2>3 DEF Signalled
    <2> QED BY <2>4, <2>5
<1>6. drive' \in [Drives -> [state : {"ready", "asleep", "busy", "data", "error"},
                             op : Operations, sector : 0 .. MaxSector]]
    BY <1>1 DEF Inv, TypeOK
<1> QED BY <1>1, <1>3, <1>5, <1>6, HardwareStep

-----------------------------------------------------------------------------
(* Theorems. *)

LEMMA Initially ==
    ASSUME Init
    PROVE  Inv
<1>1. 0 \in 0 .. MaxSector
    BY IdeAssumption
<1>2. port \in [Channels -> [device : {0, 1}, sector : 0 .. MaxSector]]
    <2>1. [device |-> 0, sector |-> 0] \in [device : {0, 1}, sector : 0 .. MaxSector]
        BY <1>1
    <2> QED BY <2>1 DEF Init
<1>3. drive \in [Drives -> [state : {"ready", "asleep", "busy", "data", "error"},
                            op : Operations, sector : 0 .. MaxSector]]
    <2>1. Idle("ready") \in [state : {"ready", "asleep", "busy", "data", "error"},
                             op : Operations, sector : 0 .. MaxSector]
        BY <1>1 DEF Idle, Operations
    <2> QED BY <2>1 DEF Init
<1>4. hit \in [Threads -> {Nothing} \cup [channel : Channels, device : {0, 1}, sector : 0 .. MaxSector]]
    BY DEF Init
<1>5. request \in [Threads -> [op : Operations, disk : Disks, sector : Sectors \cup {0}] \cup {NoRequest}]
    BY DEF Init
<1>6. \A t \in Threads : pc[t] = "idle"
    BY DEF Init
<1>7. pc \in [Threads -> Places]
    BY DEF Init, Places
<1>8. disk \in [Disks -> {"unknown", "missing", "found", "listed", "ready"}]
    BY DEF Init
<1>9. irq \in [Channels -> BOOLEAN] /\ pulsed \in [Channels -> BOOLEAN]
    BY DEF Init
<1>10. disturbed \in [Threads -> BOOLEAN] /\ stopped \in BOOLEAN
    BY DEF Init
<1>11. TypeOK
    BY <1>2, <1>3, <1>4, <1>5, <1>6, <1>7, <1>8, <1>9, <1>10 DEF TypeOK
<1>12. Alone /\ \A t \in Threads : ThreadInv(t)
    BY <1>6 DEF Alone, ThreadInv, Working
<1>13. Known
    <2>1. \A p \in DOMAIN Partition : disk[p] = "unknown"
        BY DEF Init, Disks
    <2> QED BY <1>6, <2>1 DEF Known
<1> QED BY <1>11, <1>12, <1>13 DEF Inv

LEMMA Stuttering ==
    ASSUME Inv, UNCHANGED vars
    PROVE  Inv'
<1>1. UNCHANGED <<disk, port, drive, irq, pulsed, threadVars>> /\ stopped' \in BOOLEAN
    BY DEF vars, Inv, TypeOK
<1> QED BY <1>1, StoppedStep

LEMMA Step ==
    ASSUME Inv, Next
    PROVE  Inv'
<1>1. ASSUME NEW t \in Threads, NEW d \in Disks, NEW s \in Sectors,
             ReadRequest(t, d, s) \/ WriteBack(t, d, s)
      PROVE  Inv'
    BY <1>1, RequestStep
<1>2. ASSUME NEW t \in Threads, NEW d \in Disks, WriteRequest(t, d)
      PROVE  Inv'
    BY <1>2, WriteRequestStep
<1>3. ASSUME NEW t \in Threads, DriverEntry(t)
      PROVE  Inv'
    BY <1>3, DriverEntryStep
<1>4. ASSUME NEW t \in Threads, NEW d \in PhysicalDisks, IdeAddDevice(t, d)
      PROVE  Inv'
    BY <1>4, IdeAddDeviceStep
<1>5. ASSUME NEW t \in Threads, NEW p \in DOMAIN Partition, CreatePartition(t, p) \/ FillPartition(t, p)
      PROVE  Inv'
    BY <1>5, PartitionStep
<1>6. ASSUME NEW t \in Threads, Identified(t) \/ ParseTable(t)
      PROVE  Inv'
    BY <1>6, IdentifiedStep, ParseTableStep
<1>7. ASSUME NEW t \in Threads, SelectDrive(t) \/ WaitNotBusy(t) \/ WaitReady(t) \/ Reset(t)
      PROVE  Inv'
    BY <1>7, SelectDriveStep, WaitNotBusyStep, ResetStep
<1>8. ASSUME NEW t \in Threads, ProgramSector(t) \/ SendCommand(t) \/ CommandDone(t) \/ WaitInterrupt(t)
      PROVE  Inv'
    BY <1>8, ProgramSectorStep, SendCommandStep, CommandDoneStep, WaitInterruptStep
<1>9. ASSUME NEW t \in Threads, ReadData(t) \/ WriteData(t)
      PROVE  Inv'
    BY <1>9, MoveWordsStep
<1>10. ASSUME NEW t \in Threads, TimeOut(t) \/ IdeIdentifyDevice(t) \/ DeviceAdded(t) \/ Return(t)
       PROVE  Inv'
    BY <1>10, FinishesStep
<1>11. ASSUME NEW d \in Drives, DriveAnswers(d) \/ DriveSleeps(d) \/ DriveWakes(d)
       PROVE  Inv'
    BY <1>11, DriveAnswersStep, SleepStep
<1>12. ASSUME NEW c \in Channels, IdeProcessIrq(c)
       PROVE  Inv'
    BY <1>12, IdeProcessIrqStep
<1> QED BY <1>1, <1>2, <1>3, <1>4, <1>5, <1>6, <1>7, <1>8, <1>9, <1>10, <1>11, <1>12 DEF Next

\* What a thread that has its channel to itself knows of the ports and of its drive, at each
\* place of IdePerformRead and IdePerformWrite, is true (ide.cpp:262-448).
THEOREM InvCorrect == Spec => []Inv
<1>1. Inv /\ [Next]_vars => Inv'
    BY Step, Stuttering
<1> QED BY <1>1, Initially, PTL DEF Spec

\* The ports, drives and requests keep their types; the number written to the ports is one
\* that passed the ASSERT on its high byte (ide.cpp:283, 377).
THEOREM TypeCorrect == Spec => []TypeOK
<1>1. Inv => TypeOK
    BY DEF Inv
<1> QED BY <1>1, InvCorrect, PTL

\* A request that has its channel to itself transfers the sector that it asked for, of the drive
\* that it asked for, whatever the channel was used for before (ide.cpp:262-448).
THEOREM TransfersCorrect == Spec => []TransfersHitTheirSector
<1>1. Inv => TransfersHitTheirSector
    BY DEF Inv, ThreadInv, Working, Undisturbed, Hits, Own, TransfersHitTheirSector
<1> QED BY <1>1, InvCorrect, PTL

\* A read that has its channel to itself never waits for an interrupt that was already consumed:
\* IdePulsedIrq is cleared before the command is sent, never after (ide.cpp:354, 407-408).
THEOREM InterruptsCorrect == Spec => []InterruptsAreNotLost
<1>1. Inv => InterruptsAreNotLost
    <2> SUFFICES ASSUME Inv, NEW t \in Threads, pc[t] = "irq", ~ disturbed[t], request[t].op # "write"
                 PROVE  pulsed[Channel(t)] \/ irq[Channel(t)]
        BY DEF InterruptsAreNotLost
    <2>1. Signalled(t) /\ Commanded(t)
        BY DEF Inv, ThreadInv, Working, Undisturbed
    <2> QED BY <2>1 DEF Signalled, Commanded
<1> QED BY <1>1, InvCorrect, PTL
=============================================================================
