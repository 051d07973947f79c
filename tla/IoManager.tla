------------------------------ MODULE IoManager ------------------------------
(***************************************************************************)
(* The I/O manager of GR8OS: kernel/io.cpp, with the FAT and floppy        *)
(* drivers it calls (kernel/builtin/fsfat/fsfat.cpp, builtin/floppy).      *)
(*                                                                         *)
(* Device objects with their stacks and references, file objects, IRPs and *)
(* the volumes that are mounted over disks.  Every driver of the           *)
(* repository answers an IRP in the thread that sent it, so a request is   *)
(* the list of steps its thread still has to run; threads are preempted    *)
(* between any two steps.  Data, offsets and buffers are left out.         *)
(***************************************************************************)
EXTENDS Integers, Sequences, FiniteSets, SequencesExt

CONSTANTS
    Threads,
    Mounter,     \* the thread that initialises drivers: it creates devices and mounts
    Disks,       \* named devices of DEVICE_TYPE_DISK
    FsDevice,    \* FsDeviceObject, the control device \FileSystem\Fat
    Volumes,     \* addresses for the unnamed devices of mounted volumes
    Files,       \* addresses for file objects
    LetterCount, \* 26
    Null

Devices == Disks \cup Volumes \cup {FsDevice}
Letters == 1 .. LetterCount

ASSUME IoManagerAssumption ==
    /\ Mounter \in Threads
    /\ FsDevice \notin Disks \cup Volumes /\ Disks \cap Volumes = {}
    /\ Null \notin Devices \cup Files
    /\ IsFiniteSet(Devices)
    /\ LetterCount \in Nat

VARIABLES
    device,      \* device objects, by address
    fs,          \* VPB.FsDeviceObject of a disk: non-NULL while VPB_MOUNTED
    registered,  \* FsDevice is in IopFileSystemListHead
    driverRefs,  \* references of the FAT driver object
    mask,        \* IopMountedDrivesMask
    file,        \* file objects, by address
    irps,        \* THREAD.IrpList
    todo,        \* the steps a thread still has to run
    status,      \* whether the last IoCallDriver or nested call of a thread succeeded
    fault        \* why the kernel stopped, or ""

mountVars == <<fs, registered, mask>>
vars == <<device, mountVars, driverRefs, file, irps, todo, status, fault>>

Faults == {"", "no stack location", "freed device", "unloaded volume", "closed volume", "null irp",
           "boot failed"}
Majors == {"create", "close", "read", "write", "ioctl", "mount", "dismount"}
Steps == {"mount boot volume", "boot", "attached", "reference", "dispatch", "created", "closed", "return", "initialise",
          "mount", "attach", "publish", "open", "read boot sector", "load", "undo", "detach"}

Step(name, f, d) == [step |-> name, file |-> f, device |-> d]

NoDevice ==
    [state |-> "none", owned |-> FALSE, refs |-> 0, next |-> Null, attached |-> Null,
     stack |-> 0, vpb |-> Null, letter |-> 0, vcb |-> "none", raw |-> Null]

\* Fields set by IoCreateDevice; the object memory was zeroed.
NewDevice == [NoDevice EXCEPT !.state = "ready", !.owned = TRUE, !.refs = 1, !.stack = 1]

NoFile == [state |-> "none", device |-> Null, path |-> "raw"]

TypeOK ==
    /\ device \in [Devices ->
          [state : {"none", "listed", "ready", "freed"}, owned : BOOLEAN, refs : Nat,
           next : Devices \cup {Null}, attached : Devices \cup {Null}, stack : Nat,
           vpb : Disks \cup {Null}, letter : 0 .. LetterCount,
           vcb : {"none", "loaded", "closed"}, raw : Files \cup {Null}]]
    /\ fs \in [Disks -> Volumes \cup {Null}]
    /\ registered \in BOOLEAN
    /\ driverRefs \in Nat
    /\ mask \subseteq Letters
    /\ file \in [Files -> [state : {"none", "opening", "open", "closing", "lost"},
                           device : Devices \cup {Null}, path : {"raw", "named"}]]
    /\ irps \in [Threads -> Seq([major : Majors, device : Devices, size : Nat, location : Nat,
                                 file : Files \cup {Null}, disk : Disks \cup {Null}])]
    /\ todo \in [Threads -> Seq([step : Steps, file : Files \cup {Null},
                                 device : Devices \cup {Null}])]
    /\ status \in [Threads -> BOOLEAN]
    /\ fault \in Faults

Init ==
    /\ device = [d \in Devices |-> NoDevice]
    /\ fs = [d \in Disks |-> Null]
    /\ registered = FALSE
    /\ driverRefs = 0
    /\ mask = {}
    /\ file = [f \in Files |-> NoFile]
    /\ irps = [t \in Threads |-> << >>]
    /\ todo = [t \in Threads |-> << >>]
    /\ status = [t \in Threads |-> TRUE]
    /\ fault = ""

-----------------------------------------------------------------------------
(* References.  ObDereferenceObject deletes a device whose count reaches     *)
(* zero; IopDeleteDevice then releases the driver.                           *)

\* The devices after one reference of d is released.
Release(devs, d) ==
    [devs EXCEPT ![d].refs = @ - 1,
                 ![d].state = IF devs[d].refs = 1 THEN "freed" ELSE @]

\* ObpDeleteObject: the reference of the creator is released.
ObpDeleteObject(devs, d) == Release([devs EXCEPT ![d].owned = FALSE], d)

IopDeleteDevice(devs) ==
    driverRefs' = driverRefs - Cardinality({v \in Volumes :
                      device[v].state = "ready" /\ devs[v].state = "freed"})

-----------------------------------------------------------------------------
(* Requests.                                                                 *)

Idle(t) == fault = "" /\ todo[t] = << >>

At(t, name) == fault = "" /\ todo[t] # << >> /\ Head(todo[t]).step = name

\* The step of thread t that is running, and its most recent IRP.
This(t) == Head(todo[t])

Irp(t) == Last(irps[t])

\* Thread t goes on with these steps instead of the current one.
Continue(t, steps) == todo' = [todo EXCEPT ![t] = steps \o Tail(@)]

Return(t, ok) ==
    /\ status' = [status EXCEPT ![t] = ok]
    /\ Continue(t, << >>)

Stop(why) ==
    /\ fault' = why
    /\ UNCHANGED <<device, mountVars, driverRefs, file, irps, todo, status>>

IopQueueThreadIrp(t, irp) == irps' = [irps EXCEPT ![t] = Append(@, irp)]

\* IoBuildDeviceRequest and IoBuildDeviceIoControlRequest: one stack location per device
\* of the stack, CurrentLocation 0, queued to the calling thread.
IoBuildDeviceRequest(t, major, d, f, disk) ==
    IopQueueThreadIrp(t, [major |-> major, device |-> d, size |-> device[d].stack,
                          location |-> 0, file |-> f, disk |-> disk])

\* A bug for the mutants: the IRP stays in the list of its thread.
DequeueNothing(t) == irps' = irps

IopDequeueThreadIrp(t) == irps' = [irps EXCEPT ![t] = Front(@)]

\* IoCompleteRequest: the status is returned, the IRP leaves its thread and is freed.
IoCompleteRequest(t, ok) ==
    /\ status' = [status EXCEPT ![t] = ok]
    /\ IopDequeueThreadIrp(t)

\* A handler completes the IRP and returns its status to IoCallDriver.
Complete(t, ok) ==
    /\ IoCompleteRequest(t, ok)
    /\ Continue(t, << >>)
    /\ UNCHANGED fault

\* IoSkipCurrentIrpStackLocation and IoCallDriver (RealDevice, Irp).
PassDown(t) ==
    /\ irps' = [irps EXCEPT ![t][Len(irps[t])].location = @ + 1,
                            ![t][Len(irps[t])].device = device[@].vpb]
    /\ UNCHANGED <<device, mountVars, driverRefs, file, todo, status, fault>>

\* An IRP or a step of some thread refers to file object f.
InRequest(f) ==
    \E t \in Threads : \/ \E i \in DOMAIN irps[t] : irps[t][i].file = f
                       \/ \E i \in DOMAIN todo[t] : todo[t][i].file = f

HasLocation(t) == Irp(t).location < Irp(t).size

\* A dismount has closed the raw file that the IRP reads.
FileIsGone(t) == Irp(t).file # Null /\ file[Irp(t).file].state = "none"

UseClosedFile(t) ==
    /\ At(t, "dispatch")
    /\ FileIsGone(t)
    /\ Stop("closed volume")

\* IoCallDriver finds a stack location and calls the handler of the device.
IoCallDriver(t, majors, devices) ==
    /\ At(t, "dispatch")
    /\ Irp(t).major \in majors /\ Irp(t).device \in devices
    /\ HasLocation(t)
    /\ ~FileIsGone(t)

NoMoreIrpStackLocations(t) ==
    /\ At(t, "dispatch")
    /\ ~HasLocation(t)
    /\ Stop("no stack location")

-----------------------------------------------------------------------------
(* Files.                                                                    *)

\* IoCreateFile up to the lookup of the device by its name, then the steps of rest.  When
\* no device is found the file object is lost: ObpDeleteObjectInternal does not delete
\* what still has the reference of its creator.
OpenFile(t, f, d, path, rest) ==
    /\ file[f].state = "none" /\ ~InRequest(f)
    /\ IF device[d].state \in {"listed", "ready"}
       THEN /\ device' = [device EXCEPT ![d].refs = @ + 1]
            /\ file' = [file EXCEPT ![f] = [state |-> "opening", device |-> Null, path |-> path]]
            /\ todo' = [todo EXCEPT ![t] = <<Step("attached", f, d)>> \o rest]
            /\ UNCHANGED status
       ELSE /\ file' = [file EXCEPT ![f].state = "lost"]
            /\ status' = [status EXCEPT ![t] = FALSE]
            /\ todo' = [todo EXCEPT ![t] = rest]
            /\ UNCHANGED device
    /\ UNCHANGED <<mountVars, driverRefs, irps, fault>>

IoCreateFile(t, f, d, path) ==
    /\ Idle(t) /\ t # Mounter
    /\ OpenFile(t, f, d, path, << >>)

\* The highest device of the stack of d, read without IoDatabaseLock.
IoGetAttachedDevice(d) ==
    LET up[n \in 0 .. Cardinality(Devices)] ==
            IF n = 0 THEN d
            ELSE IF device[up[n - 1]].attached = Null THEN up[n - 1]
            ELSE device[up[n - 1]].attached
    IN  up[Cardinality(Devices)]

FindAttachedDevice(t) ==
    /\ At(t, "attached")
    /\ file' = [file EXCEPT ![This(t).file].device = IoGetAttachedDevice(This(t).device)]
    /\ Continue(t, <<Step("reference", This(t).file, This(t).device)>>)
    /\ UNCHANGED <<device, mountVars, driverRefs, irps, status, fault>>

\* A bug for the mutants: the device that was looked up keeps its reference.
ReferenceKeepsLookup(t) ==
    LET f == This(t).file
        top == file[f].device
    IN  /\ At(t, "reference")
        /\ device[top].state # "freed"
        /\ device' = [device EXCEPT ![top].refs = @ + 1]
        /\ IoBuildDeviceRequest(t, "create", top, f, Null)
        /\ Continue(t, <<Step("dispatch", f, Null), Step("created", f, Null)>>)
        /\ UNCHANGED <<mountVars, driverRefs, file, status, fault>>

\* The reference moves from the named device to the highest one; then the IRP is built.
\* By now the volume that was found may be dismounted and deleted.
ReferenceDevice(t) ==
    LET f == This(t).file
        top == file[f].device
        moved == Release([device EXCEPT ![top].refs = @ + 1], This(t).device)
    IN  /\ At(t, "reference")
        /\ IF device[top].state = "freed" THEN Stop("freed device")
           ELSE \/ /\ device' = moved
                   /\ IoBuildDeviceRequest(t, "create", top, f, Null)
                   /\ Continue(t, <<Step("dispatch", f, Null), Step("created", f, Null)>>)
                   /\ UNCHANGED <<mountVars, driverRefs, file, status, fault>>
                \/ /\ device' = Release(moved, top)
                   /\ IopDeleteDevice(device')
                   /\ file' = [file EXCEPT ![f].state = "lost"]
                   /\ Return(t, FALSE)
                   /\ UNCHANGED <<mountVars, irps, fault>>

\* The end of IoCreateFile.  After a failure the device is dereferenced and the file
\* object, which ObpDeleteObjectInternal refuses to delete, is lost.
FileCreated(t) ==
    LET f == This(t).file
    IN  /\ At(t, "created")
        /\ IF status[t]
           THEN /\ file' = [file EXCEPT ![f].state = "open"]
                /\ UNCHANGED device
           ELSE /\ file' = [file EXCEPT ![f].state = "lost"]
                /\ device' = Release(device, file[f].device)
        /\ IopDeleteDevice(device')
        /\ Continue(t, << >>)
        /\ UNCHANGED <<mountVars, irps, status, fault>>

\* A call for an open file: one at a time, and the raw files of volumes belong to the
\* thread that mounts.
Usable(t, f) ==
    /\ Idle(t) /\ t # Mounter
    /\ file[f].state = "open"
    /\ \A v \in Volumes : device[v].raw # f
    /\ ~InRequest(f)

\* IoCloseFile, up to the call of the driver.  The IRP is used without a test for NULL.
CloseFile(t, f, rest) ==
    \/ /\ file' = [file EXCEPT ![f].state = "closing"]
       /\ IoBuildDeviceRequest(t, "close", file[f].device, f, Null)
       /\ todo' = [todo EXCEPT ![t] = <<Step("dispatch", f, Null), Step("closed", f, Null)>> \o rest]
       /\ UNCHANGED <<mountVars, driverRefs, status, fault>>
    \/ /\ fault' = "null irp"
       /\ UNCHANGED <<mountVars, driverRefs, file, irps, todo, status>>

IoCloseFile(t, f) ==
    /\ Usable(t, f)
    /\ CloseFile(t, f, << >>)
    /\ UNCHANGED device

\* The file object is deleted: its device is released.
IopDeleteFile(f) ==
    /\ file' = [file EXCEPT ![f] = NoFile]
    /\ device' = Release(device, file[f].device)

\* The end of IoCloseFile: ObpDeleteObject after the driver has agreed.
FileClosed(t) ==
    LET f == This(t).file
    IN  /\ At(t, "closed")
        /\ IF status[t]
           THEN IopDeleteFile(f)
           ELSE /\ file' = [file EXCEPT ![f].state = "open"]
                /\ UNCHANGED device
        /\ IopDeleteDevice(device')
        /\ Continue(t, << >>)
        /\ UNCHANGED <<mountVars, irps, status, fault>>

\* IoReadFile, IoWriteFile and IoDeviceIoControlFile.  A call that is refused for its
\* access or finds no memory returns and changes nothing.
Transfer(t, f, major) ==
    /\ Usable(t, f)
    /\ IoBuildDeviceRequest(t, major, file[f].device, f, Null)
    /\ todo' = [todo EXCEPT ![t] = <<Step("dispatch", f, Null)>>]
    /\ UNCHANGED <<device, mountVars, driverRefs, file, status, fault>>

IoReadFile(t, f) == Transfer(t, f, "read")

IoWriteFile(t, f) == Transfer(t, f, "write")

IoDeviceIoControlFile(t, f) == Transfer(t, f, "ioctl")

-----------------------------------------------------------------------------
(* Handlers of the drivers.                                                  *)

\* The floppy driver: FdCreateClose, FdRead, FdDeviceIoControl, and
\* IopInvalidDeviceRequest for what it does not handle.
FdCreateClose(t, ok) ==
    /\ IoCallDriver(t, {"create", "close"}, Disks)
    /\ Irp(t).major = "close" => ok
    /\ Complete(t, ok)
    /\ UNCHANGED <<device, mountVars, driverRefs, file>>

FdRead(t, ok) ==
    /\ IoCallDriver(t, {"read"}, Disks)
    /\ Complete(t, ok)
    /\ UNCHANGED <<device, mountVars, driverRefs, file>>

FdDeviceIoControl(t) ==
    /\ IoCallDriver(t, {"ioctl"}, Disks)
    /\ Complete(t, FALSE)
    /\ UNCHANGED <<device, mountVars, driverRefs, file>>

IopInvalidDeviceRequest(t) ==
    /\ \/ IoCallDriver(t, {"write"}, Devices)
       \/ IoCallDriver(t, {"ioctl"}, Volumes \cup {FsDevice})
    /\ Complete(t, FALSE)
    /\ UNCHANGED <<device, mountVars, driverRefs, file>>

\* Requests to the control device: opening and closing is allowed, reading is not.
FsDeviceRequest(t) ==
    /\ IoCallDriver(t, {"create", "close", "read"}, {FsDevice})
    /\ Complete(t, Irp(t).major # "read")
    /\ UNCHANGED <<device, mountVars, driverRefs, file>>

\* A file without a name is the disk itself.
IsRaw(t) == file[Irp(t).file].path = "raw"

\* The volume of the IRP is used: the VCB must have been loaded and not been closed.
UseVcb(t, outcome) ==
    CASE device[Irp(t).device].vcb = "none"   -> Stop("unloaded volume")
      [] device[Irp(t).device].vcb = "closed" -> Stop("closed volume")
      [] OTHER -> outcome

FsFatCreate(t, ok) ==
    /\ IoCallDriver(t, {"create"}, Volumes)
    /\ IF IsRaw(t) THEN PassDown(t)
       ELSE UseVcb(t, Complete(t, ok) /\ UNCHANGED <<device, mountVars, driverRefs, file>>)

FsFatClose(t) ==
    /\ IoCallDriver(t, {"close"}, Volumes)
    /\ IF IsRaw(t) THEN PassDown(t)
       ELSE Complete(t, TRUE) /\ UNCHANGED <<device, mountVars, driverRefs, file>>

\* What the cache holds is returned at once.
FsFatRead(t) ==
    /\ IoCallDriver(t, {"read"}, Volumes)
    /\ IF IsRaw(t) THEN PassDown(t)
       ELSE Complete(t, TRUE) /\ UNCHANGED <<device, mountVars, driverRefs, file>>

\* A cluster that is not in the cache: FsFatPerformRead looks at the FAT, and
\* FsFatReadCluster reads the raw file of the volume before the IRP is completed.
FsFatPerformRead(t) ==
    LET raw == device[Irp(t).device].raw
    IN  /\ IoCallDriver(t, {"read"}, Volumes)
        /\ ~IsRaw(t)
        /\ UseVcb(t,
             /\ \/ /\ IoBuildDeviceRequest(t, "read", file[raw].device, raw, Null)
                   /\ Continue(t, <<Step("dispatch", raw, Null), Step("return", Null, Null)>>)
                   /\ UNCHANGED status
                \/ /\ IoCompleteRequest(t, FALSE)
                   /\ Continue(t, << >>)
             /\ UNCHANGED <<device, mountVars, driverRefs, file, fault>>)

\* CcCacheReadFile returns to FsFatRead, which completes the IRP of its caller.
FsFatReadDone(t) ==
    /\ At(t, "return")
    /\ Complete(t, status[t])
    /\ UNCHANGED <<device, mountVars, driverRefs, file>>

-----------------------------------------------------------------------------
(* Devices and volumes: the thread that initialises drivers.                 *)

\* IoCreateDevice puts a named device into its directory ...
IoCreateDevice(t, d) ==
    /\ Idle(t) /\ t = Mounter
    /\ device[d].state = "none"
    /\ device' = [device EXCEPT ![d] = [NoDevice EXCEPT !.state = "listed", !.owned = TRUE, !.refs = 1]]
    /\ todo' = [todo EXCEPT ![t] = <<Step("initialise", Null, d)>>]
    /\ UNCHANGED <<mountVars, driverRefs, file, irps, status, fault>>

\* The VPB of a disk, or NULL when there is no memory for it.
IopCreateVpb(d) == {d, Null}

\* ... before it sets its driver and its StackSize.  Without memory for a VPB the device
\* stays in its directory: ObpDeleteObjectInternal does not delete it.
InitialiseDevice(t) ==
    LET d == This(t).device
    IN  /\ At(t, "initialise")
        /\ \E vpb \in IopCreateVpb(d) :
              device' = [device EXCEPT ![d].state = "ready", ![d].stack = 1, ![d].vpb = vpb]
        /\ Continue(t, << >>)
        /\ UNCHANGED <<mountVars, driverRefs, file, irps, status, fault>>

IoRegisterFileSystem(t) ==
    /\ Idle(t) /\ t = Mounter
    /\ ~registered /\ device[FsDevice].state = "ready"
    /\ registered' = TRUE
    /\ device' = [device EXCEPT ![FsDevice].refs = @ + 1]
    /\ UNCHANGED <<fs, mask, driverRefs, file, irps, todo, status, fault>>

IoUnregisterFileSystem(t) ==
    /\ Idle(t) /\ t = Mounter
    /\ registered
    /\ registered' = FALSE
    /\ device' = Release(device, FsDevice)
    /\ UNCHANGED <<fs, mask, driverRefs, file, irps, todo, status, fault>>

\* IoRequestMount and IoRequestDismount: a request with the disk in its parameters.
RequestMount(t, major, d) ==
    /\ Idle(t) /\ t = Mounter
    /\ device[FsDevice].state = "ready" /\ device[d].state = "ready"
    /\ IoBuildDeviceRequest(t, major, FsDevice, Null, d)
    /\ todo' = [todo EXCEPT ![t] = <<Step("dispatch", Null, Null)>>]
    /\ UNCHANGED <<device, mountVars, driverRefs, file, status, fault>>

IoRequestMount(t, d) == device[d].attached = Null /\ RequestMount(t, "mount", d)

IoRequestDismount(t, d) == device[d].attached # Null /\ RequestMount(t, "dismount", d)

\* FsFatDriverEntry: the driver object of FAT gets the reference of its creator and one for
\* the control device, which is created and registered; then the boot disk is mounted.
FsFatDriverEntry(t, d) ==
    /\ Idle(t) /\ t = Mounter
    /\ device[FsDevice].state = "none" /\ device[d].state = "ready"
    /\ device' = [device EXCEPT ![FsDevice] = [NewDevice EXCEPT !.refs = 2], ![d].refs = @ + 1]
    /\ registered' = TRUE
    /\ driverRefs' = 2
    /\ todo' = [todo EXCEPT ![t] = <<Step("mount boot volume", Null, d), Step("boot", Null, d)>>]
    /\ UNCHANGED <<fs, mask, file, irps, status, fault>>

MountBootVolume(t) ==
    /\ At(t, "mount boot volume")
    /\ \/ /\ IoBuildDeviceRequest(t, "mount", FsDevice, Null, This(t).device)
          /\ Continue(t, <<Step("dispatch", Null, Null)>>)
          /\ UNCHANGED status
       \/ /\ Return(t, FALSE)
          /\ UNCHANGED irps
    /\ UNCHANGED <<device, mountVars, driverRefs, file, fault>>

\* The boot volume is mounted and \SystemRoot links to it, or IoInitSystem stops.
BootVolumeMounted(t) ==
    /\ At(t, "boot")
    /\ \/ /\ status[t]
          /\ device' = Release(device, This(t).device)
          /\ Continue(t, << >>)
          /\ UNCHANGED <<mountVars, driverRefs, file, irps, status, fault>>
       \/ Stop("boot failed")

\* The disk that thread t mounts or dismounts.
Disk(t) == irps[t][1].disk

\* The lowest letter that is not in the mask, or 0.
IoAllocateMountDriveLetter ==
    LET free == Letters \ mask
    IN  IF free = {} THEN 0 ELSE CHOOSE l \in free : \A k \in free : l <= k

\* IRP_MN_MOUNT: a device object for the volume and a drive letter.  The letter may be
\* missing: its status is overwritten.  (An open that still holds the address of a freed
\* volume stops the kernel when it goes on, whatever is at the address by then.)
FsFatMount(t) ==
    LET letter == IoAllocateMountDriveLetter
    IN  /\ IoCallDriver(t, {"mount"}, {FsDevice})
        /\ UNCHANGED <<fs, registered, file, fault>>
        /\ \/ \E v \in Volumes :
                /\ device[v].state \in {"none", "freed"}
                /\ \A f \in Files : file[f].state = "opening" => file[f].device # v
                /\ device' = [device EXCEPT ![v] = [NewDevice EXCEPT !.letter = letter]]
                /\ driverRefs' = driverRefs + 1
                /\ mask' = mask \cup ({letter} \ {0})
                /\ Continue(t, <<Step("mount", Null, v)>>)
                /\ UNCHANGED <<irps, status>>
           \/ /\ IoCompleteRequest(t, FALSE)
              /\ Continue(t, << >>)
              /\ UNCHANGED <<device, driverRefs, mask>>

\* IoMountVolume.  A disk without a VPB cannot be mounted: the volume is deleted, its
\* letter stays taken.
IoMountVolume(t) ==
    LET v == This(t).device
        d == Disk(t)
    IN  /\ At(t, "mount")
        /\ IF device[d].vpb # Null
           THEN /\ fs' = [fs EXCEPT ![d] = v]
                /\ device' = [device EXCEPT ![v].vpb = d]
                /\ Continue(t, <<Step("attach", Null, v)>>)
                /\ UNCHANGED <<driverRefs, irps, status>>
           ELSE /\ device' = ObpDeleteObject(device, v)
                /\ IopDeleteDevice(device')
                /\ IoCompleteRequest(t, FALSE)
                /\ Continue(t, << >>)
                /\ UNCHANGED fs
        /\ UNCHANGED <<registered, mask, file, fault>>

\* A bug for the mutants: the volume can be found before its stack size is known.
AttachPublishes(t) ==
    LET v == This(t).device
    IN  /\ At(t, "attach")
        /\ device' = [device EXCEPT ![v].next = Disk(t), ![Disk(t)].attached = v]
        /\ Continue(t, <<Step("publish", Null, v)>>)
        /\ UNCHANGED <<mountVars, driverRefs, file, irps, status, fault>>

\* IoAttachDevice: first the links and the stack size of the volume ...
IoAttachDevice(t) ==
    LET v == This(t).device
    IN  /\ At(t, "attach")
        /\ device' = [device EXCEPT ![v].next = Disk(t), ![v].stack = device[Disk(t)].stack + 1]
        /\ Continue(t, <<Step("publish", Null, v)>>)
        /\ UNCHANGED <<mountVars, driverRefs, file, irps, status, fault>>

\* ... then the link that opens follow.
PublishVolume(t) ==
    LET v == This(t).device
    IN  /\ At(t, "publish")
        /\ device' = [device EXCEPT ![Disk(t)].attached = v]
        /\ Continue(t, <<Step("open", Null, v)>>)
        /\ UNCHANGED <<mountVars, driverRefs, file, irps, status, fault>>

\* FsFatCreateVcb opens the disk by its name and finds the volume on top of it.
OpenVolume(t) ==
    LET v == This(t).device
    IN  /\ At(t, "open")
        /\ \/ \E f \in Files :
                OpenFile(t, f, Disk(t), "raw", <<Step("read boot sector", f, v)>> \o Tail(todo[t]))
           \/ /\ status' = [status EXCEPT ![t] = FALSE]
              /\ Continue(t, <<Step("undo", Null, v)>>)
              /\ UNCHANGED <<device, mountVars, driverRefs, file, irps, fault>>

\* The boot sector, the FAT and the root directory are read from the raw file.
ReadBootSector(t) ==
    LET f == This(t).file
        v == This(t).device
    IN  /\ At(t, "read boot sector")
        /\ IF status[t]
           THEN \/ /\ IoBuildDeviceRequest(t, "read", file[f].device, f, Null)
                   /\ Continue(t, <<Step("dispatch", f, Null), Step("load", f, v)>>)
                   /\ UNCHANGED <<mountVars, driverRefs, file, status, fault>>
                \/ CloseFile(t, f, <<Step("undo", Null, v)>> \o Tail(todo[t]))
           ELSE /\ Continue(t, <<Step("undo", Null, v)>>)
                /\ UNCHANGED <<mountVars, driverRefs, file, irps, status, fault>>
        /\ UNCHANGED device

\* FsFatCreateVcb succeeds and with it the mount, or closes the raw file.
FsFatCreateVcb(t) ==
    LET f == This(t).file
        v == This(t).device
    IN  /\ At(t, "load")
        /\ \/ /\ status[t]
              /\ device' = [device EXCEPT ![v].vcb = "loaded", ![v].raw = f]
              /\ Complete(t, TRUE)
              /\ UNCHANGED <<mountVars, driverRefs, file>>
           \/ /\ CloseFile(t, f, <<Step("undo", Null, v)>> \o Tail(todo[t]))
              /\ UNCHANGED device

\* IoDetachDevice (d).
IoDetachDevice(devs, d) == [devs EXCEPT ![devs[d].attached].next = Null, ![d].attached = Null]

IoDismountVolume(d) == fs' = [fs EXCEPT ![d] = Null]

\* The mount failed after the volume was attached.
FsFatUndoMount(t) ==
    LET d == Disk(t)
    IN  /\ At(t, "undo")
        /\ device' = ObpDeleteObject(IoDetachDevice(device, d), This(t).device)
        /\ IopDeleteDevice(device')
        /\ IoDismountVolume(d)
        /\ Complete(t, FALSE)
        /\ UNCHANGED <<registered, mask, file>>

\* IRP_MN_DISMOUNT: FsFatCloseVcb frees what the volume has loaded, whoever uses it.
FsFatCloseVcb(t) ==
    LET v == device[Irp(t).disk].attached
    IN  /\ IoCallDriver(t, {"dismount"}, {FsDevice})
        /\ device' = [device EXCEPT ![v].vcb = "closed", ![v].raw = Null]
        /\ CloseFile(t, device[v].raw, <<Step("detach", Null, v)>> \o Tail(todo[t]))

IoFreeMountedDriveLetter(letter) == mask' = mask \ {letter}

\* The rest of the dismount: IoDetachDevice, IoFreeMountedDriveLetter, ObpDeleteObject
\* and IoDismountVolume.
FsFatDismount(t) ==
    LET v == This(t).device
        d == Disk(t)
    IN  /\ At(t, "detach")
        /\ device' = ObpDeleteObject(IoDetachDevice(device, d), v)
        /\ IopDeleteDevice(device')
        /\ IoFreeMountedDriveLetter(device[v].letter)
        /\ IoDismountVolume(d)
        /\ Complete(t, TRUE)
        /\ UNCHANGED <<registered, file>>

-----------------------------------------------------------------------------
Call(t) ==
    \/ \E f \in Files, d \in Disks \cup {FsDevice}, path \in {"raw", "named"} : IoCreateFile(t, f, d, path)
    \/ \E f \in Files :
        \/ IoCloseFile(t, f) \/ IoReadFile(t, f) \/ IoWriteFile(t, f)
        \/ IoDeviceIoControlFile(t, f)
    \/ \E d \in Disks : IoCreateDevice(t, d) \/ IoRequestMount(t, d) \/ IoRequestDismount(t, d)
                      \/ FsFatDriverEntry(t, d)
    \/ IoRegisterFileSystem(t) \/ IoUnregisterFileSystem(t)

Run(t) ==
    \/ FindAttachedDevice(t) \/ ReferenceDevice(t) \/ FileCreated(t) \/ FileClosed(t)
    \/ NoMoreIrpStackLocations(t) \/ UseClosedFile(t)
    \/ \E ok \in BOOLEAN : FdCreateClose(t, ok) \/ FdRead(t, ok) \/ FsFatCreate(t, ok)
    \/ FdDeviceIoControl(t) \/ IopInvalidDeviceRequest(t) \/ FsDeviceRequest(t)
    \/ FsFatClose(t) \/ FsFatRead(t) \/ FsFatPerformRead(t) \/ FsFatReadDone(t)
    \/ InitialiseDevice(t) \/ MountBootVolume(t) \/ BootVolumeMounted(t) \/ FsFatMount(t) \/ IoMountVolume(t) \/ IoAttachDevice(t)
    \/ PublishVolume(t) \/ OpenVolume(t) \/ ReadBootSector(t) \/ FsFatCreateVcb(t)
    \/ FsFatUndoMount(t) \/ FsFatCloseVcb(t) \/ FsFatDismount(t)

Next == \E t \in Threads : Call(t) \/ Run(t)

Spec == Init /\ [][Next]_vars

-----------------------------------------------------------------------------
(* Properties.                                                               *)

\* The references that something holds on device d: its creator, the list of file systems,
\* open files, and opens and the mount of the boot volume that are under way.
Holders(d) ==
    (IF device[d].owned THEN 1 ELSE 0) + (IF d = FsDevice /\ registered THEN 1 ELSE 0)
    + Cardinality({f \in Files : file[f].device = d
                     /\ \/ file[f].state \in {"open", "closing"}
                        \/ /\ file[f].state = "opening"
                           /\ \E t \in Threads : \E i \in DOMAIN irps[t] : irps[t][i].file = f
                        \/ /\ file[f].state = "opening"
                           /\ \E t \in Threads : At(t, "created") /\ This(t).file = f})
    + Cardinality({t \in Threads : todo[t] # << >> /\ Last(todo[t]) = Step("boot", Null, d)})
    + Cardinality({t \in Threads : (At(t, "attached") \/ At(t, "reference")) /\ This(t).device = d})

\* A device has exactly as many references as holders, through every failed open, mount
\* and dismount, is deleted when the last one goes and not before, and the FAT driver
\* has one reference for each of its devices (io.cpp:642-728, 102-165, fsfat.cpp:400-553).
ReferencesAreCounted ==
    fault = "" =>
      /\ \A d \in Devices :
            IF device[d].state \in {"none", "freed"} THEN Holders(d) = 0
            ELSE device[d].refs = Holders(d) /\ device[d].refs > 0
      /\ device[FsDevice].state # "none" => driverRefs = 1 + Cardinality({d \in Volumes \cup {FsDevice} :
                                         device[d].state \in {"listed", "ready"}})

\* A request runs out of stack locations only on a device that IoCreateDevice has put into
\* its directory and not yet initialised: a volume that opens can find is always deep
\* enough for the IRPs sent to it and for the raw ones it passes to its disk
\* (io.cpp:484-492, 1124-1136, fsfat.cpp:651).
StacksAreDeepEnough ==
    /\ \A d \in Disks : device[d].attached # Null =>
          LET v == device[d].attached
          IN  device[v].next = d /\ device[v].stack = device[d].stack + 1
              /\ device[v].vpb = d /\ fs[d] = v
    /\ fault = "" => \A t \in Threads : \A i \in DOMAIN irps[t] :
          LET irp == irps[t][i]
          IN  ~ irp.location < irp.size => irp.device \in Disks /\ irp.size = 0

\* Every IRP is completed exactly once before the call that sent it returns: a thread has
\* as many IRPs queued as requests it waits for, none when it is idle, and no file is left
\* half open or half closed (io.cpp:1266-1423).
RequestsAreCompleted ==
    fault = "" =>
      /\ \A t \in Threads :
            /\ Len(irps[t]) = Cardinality({i \in DOMAIN todo[t] : todo[t][i].step
                  \in {"dispatch", "return", "mount", "attach", "publish", "open",
                       "read boot sector", "load", "undo", "detach"}})
      /\ \A f \in Files : file[f].state \in {"opening", "closing"} =>
            \E t \in Threads : \E i \in DOMAIN todo[t] : todo[t][i].file = f
=============================================================================
