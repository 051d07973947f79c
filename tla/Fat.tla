--------------------------------- MODULE Fat ---------------------------------
(***************************************************************************)
(* How the FAT driver, builtin/fsfat, finds its way through a volume: the  *)
(* layout and the type it computes from the boot sector, the root          *)
(* directory it loads at the mount, the name it looks for, and the chain   *)
(* of clusters it follows for a read.  What surrounds this (requests,      *)
(* devices, mounts) is in IoManager.                                       *)
(*                                                                         *)
(* The volume is what a formatter has written: a boot sector, an           *)
(* allocation table of which the first entries are in memory, and one file *)
(* of the root directory.  The table may hold any chain, also a broken one.*)
(* Only a few entries are told apart, and only those are loaded; the code  *)
(* loads three pages, more than a FAT12 volume has and less than FAT16 and *)
(* FAT32 volumes may have.  On these an entry that is not loaded is read   *)
(* from the memory after the buffer, whatever it holds; there may be none. *)
(* The device serves every sector of the volume, and what comes after a    *)
(* volume, if anything does.                                               *)
(*                                                                         *)
(* Names are sequences of letters; BaseLength and ExtensionLength are 8    *)
(* and 3 in the code, and every byte of a directory entry's name is        *)
(* compared.  Subdirectories, attributes and dates are left out.           *)
(***************************************************************************)
EXTENDS Integers, Sequences, FiniteSets

CONSTANTS
    Headers,          \* boot sectors, with two FATs
    LastCluster,      \* the clusters that chains are made of are 2 .. LastCluster
    FileSizes, Names, \* of the file
    BaseLength, ExtensionLength,
    MaxSteps          \* bound: entries of a chain that are followed

ASSUME FatAssumption ==
    /\ LastCluster \in Nat /\ LastCluster >= 2
    /\ FileSizes \subseteq Nat
    /\ {BaseLength, ExtensionLength} \subseteq Nat \ {0}
    /\ MaxSteps \in Nat

VARIABLES
    header,           \* FSFAT_HEADER
    table,            \* what the entries of the FAT say
    file,             \* its FSFATDIR_ENT: Filename, StartCluster, FileSize
    pc,
    name,             \* the file that is asked for
    chain,            \* a walk: its Head, the position wanted, the Cluster it is at, its steps
    buffer,           \* clusters of the buffer of the root directory
    result            \* of the read: its status, sector and nBytesRead

disk == <<header, table, file>>
vars == <<disk, pc, name, chain, buffer, result>>

-----------------------------------------------------------------------------
(* The boot sector.                                                          *)

SizeOfEntry == 32    \* sizeof(FSFATDIR_ENT)

RootDirSectors(fh) == (fh.DirectoryEntries * SizeOfEntry + fh.SectorSize - 1) \div fh.SectorSize

FatSectors(fh) == IF fh.FatSectors # 0 THEN fh.FatSectors ELSE fh.FatSectors32

FsFatGetFatType(fh) ==
    LET TotalSectors == IF fh.Sectors # 0 THEN fh.Sectors ELSE fh.SectorsLong
        DataSec == TotalSectors - (fh.ReservedSectors + fh.NumberOfFats * FatSectors(fh) + RootDirSectors(fh))
        CountOfClusters == DataSec \div fh.SectorsPerCluster IN
    CASE CountOfClusters < 4085 -> 12
      [] CountOfClusters >= 4085 /\ CountOfClusters < 65525 -> 16
      [] OTHER -> 32

FatType == FsFatGetFatType(header)

\* FsFatCreateVcb: two FATs, the root directory, the clusters.
DirStartSector(fh) == fh.ReservedSectors + FatSectors(fh) + FatSectors(fh)
Cluster2StartSector(fh) == DirStartSector(fh) + RootDirSectors(fh)

ClusterSize == header.SectorsPerCluster * header.SectorSize

\* FsFatReadCluster.
StartSector(Cluster) == Cluster2StartSector(header) + (Cluster - 2) * header.SectorsPerCluster

-----------------------------------------------------------------------------
(* The allocation table on the disk: 12, 16 or 32 bits an entry, the high    *)
(* byte last, and of 32 bits the highest four mean nothing.                  *)

Clusters == 2 .. LastCluster
Entries == 0 .. LastCluster + 1 + (LastCluster % 2)    \* an even number of them

\* What a formatter and other systems write for the end of a chain, a bad and a reserved cluster.
Last == CASE FatType = 12 -> 4095 [] FatType = 16 -> 65535 [] OTHER -> 268435455
Bad == Last - 8
Reserved == Last - 15

Byte(n) ==
    CASE FatType = 12 ->
           LET even == table[2 * (n \div 3)]
               odd == table[2 * (n \div 3) + 1] IN
           CASE n % 3 = 0 -> even % 256
             [] n % 3 = 1 -> (even \div 256) + 16 * (odd % 16)
             [] OTHER -> odd \div 16
      [] FatType = 16 -> IF n % 2 = 0 THEN table[n \div 2] % 256 ELSE table[n \div 2] \div 256
      [] OTHER ->
           CASE n % 4 = 0 -> table[n \div 4] % 256
             [] n % 4 = 1 -> (table[n \div 4] \div 256) % 256
             [] n % 4 = 2 -> (table[n \div 4] \div 65536) % 256
             [] OTHER -> (table[n \div 4] \div 16777216) + 240

USHORT(n) == Byte(n) + 256 * Byte(n + 1)

\* A bug for the mutants: the entries of a FAT12 all start at a whole byte.
ReadWholeBytes(Index) ==
    CASE FatType = 12 -> USHORT((Index * 3) \div 2) % 4096
      [] FatType = 16 -> USHORT(Index * 2)
      [] OTHER -> USHORT(Index * 4) + 65536 * (USHORT(Index * 4 + 2) % 4096)

FsFatReadFatEntry(Index) ==
    CASE FatType = 12 -> IF Index % 2 = 0
                         THEN USHORT((Index * 3) \div 2) % 4096
                         ELSE USHORT((((Index + 1) * 3) \div 2) - 2) \div 16
      [] FatType = 16 -> USHORT(Index * 2)
      [] OTHER -> USHORT(Index * 4) + 65536 * (USHORT(Index * 4 + 2) % 4096)

\* The marks the driver compares entries with; those for 16 bits have 20.
FsFatClusters ==
    CASE FatType = 12 -> [Mask |-> 4096, ReservedStart |-> 4080, BadCluster |-> 4087, LastClusterStart |-> 4088]
      [] FatType = 16 -> [Mask |-> 65536, ReservedStart |-> 1048560, BadCluster |-> 1048567,
                          LastClusterStart |-> 1048568]
      [] OTHER -> [Mask |-> 268435456, ReservedStart |-> 268435440, BadCluster |-> 268435447,
                   LastClusterStart |-> 268435448]

IsLast(c) == c >= FsFatClusters.LastClusterStart
IsBad(c) == c = FsFatClusters.BadCluster
IsReserved(c) == c >= FsFatClusters.ReservedStart /\ c < FsFatClusters.BadCluster

\* What FsFatReadFatEntry may return; behind the table, any value of the width.
EntryOf(Cluster) ==
    IF Cluster \in Entries THEN {FsFatReadFatEntry(Cluster)} ELSE Entries \cup {Reserved, Bad, Last}

-----------------------------------------------------------------------------

Volumes ==
    {fh \in Headers : fh.NumberOfFats = 2}

NoResult == [status |-> "none", sector |-> 0, nBytesRead |-> 0]
NoChain == [Head |-> 0, Pos |-> 0, Cluster |-> 0, i |-> 0]

\* A name of eight and three letters, filled up with blanks, as a directory has it.
Filled(s, length) == [i \in 1 .. length |-> IF i <= Len(s) THEN s[i] ELSE " "]
Filename(n) == Filled(n.base, BaseLength) \o Filled(n.extension, ExtensionLength)

Init ==
    /\ header \in Volumes
    /\ \E chains \in [Clusters -> Clusters \cup {0, Reserved, Bad, Last}] :
           table = [e \in Entries |-> CASE e \in Clusters -> chains[e]
                                        [] e = 0 -> Last - 7
                                        [] e = 1 -> Last
                                        [] OTHER -> 0]
    /\ \E n \in Names, size \in FileSizes :
           file = [Filename |-> Filename(n), StartCluster |-> IF size = 0 THEN 0 ELSE 2, FileSize |-> size]
    /\ pc = IF header.DirectoryEntries = 0 THEN "size" ELSE "mounted"
    /\ name = [base |-> <<>>, extension |-> <<>>]
    /\ chain = [NoChain EXCEPT !.Head = LastCluster, !.Cluster = LastCluster, !.i = 1]
    /\ buffer = [size |-> 0, read |-> 0]
    /\ result = NoResult

-----------------------------------------------------------------------------
(* The root directory of a FAT32 volume.                                     *)

\* A bug for the mutants: the count starts at the first entry, not at the first cluster.
SizeWithoutHead ==
    /\ pc = "size"
    /\ chain.i <= MaxSteps
    /\ chain.Cluster \in Entries
    /\ LET next == FsFatReadFatEntry(chain.Cluster) IN
       IF IsLast(next) \/ IsReserved(next) \/ IsBad(next)
       THEN /\ buffer' = [buffer EXCEPT !.size = chain.i - 1]
            /\ pc' = "root"
            /\ chain' = [chain EXCEPT !.Cluster = chain.Head]
       ELSE /\ chain' = [chain EXCEPT !.Cluster = next, !.i = @ + 1]
            /\ UNCHANGED <<buffer, pc>>
    /\ UNCHANGED <<disk, name, result>>

\* FsFatSizeOfClusterChain: one entry.
FsFatSizeOfClusterChain ==
    /\ pc = "size"
    /\ chain.i <= MaxSteps
    /\ chain.Cluster \in Entries
    /\ LET next == FsFatReadFatEntry(chain.Cluster) IN
       IF IsLast(next) \/ IsReserved(next) \/ IsBad(next)
       THEN /\ buffer' = [buffer EXCEPT !.size = chain.i]
            /\ pc' = "root"
            /\ chain' = [chain EXCEPT !.Cluster = chain.Head]
       ELSE /\ chain' = [chain EXCEPT !.Cluster = next, !.i = @ + 1]
            /\ UNCHANGED <<buffer, pc>>
    /\ UNCHANGED <<disk, name, result>>

\* FsFatCreateVcb reads the clusters into the buffer, one after the other.
ReadRootDirectory ==
    /\ pc = "root"
    /\ IF chain.Cluster >= 2 /\ chain.Cluster < 4080
       THEN /\ buffer' = [buffer EXCEPT !.read = @ + 1]
            /\ chain' = [chain EXCEPT !.Cluster = FsFatReadFatEntry(@)]
            /\ UNCHANGED pc
       ELSE /\ pc' = "mounted"
            /\ UNCHANGED <<buffer, chain>>
    /\ UNCHANGED <<disk, name, result>>

-----------------------------------------------------------------------------
(* FsFatCreate.                                                              *)

\* strncpy of the kernel: it copies the final zero, if there is room, and fills nothing up.
strncpy(to, at, s, count) ==
    [i \in DOMAIN to |-> CASE i > at /\ i <= at + count /\ i <= at + Len(s) -> s[i - at]
                           [] i = at + Len(s) + 1 /\ i <= at + count -> "NUL"
                           [] OTHER -> to[i]]

Blanks == [i \in 1 .. BaseLength + ExtensionLength + 1 |-> " "]

\* A bug for the mutants: the extension follows the name at once.
NameWithoutFill(n) ==
    strncpy(strncpy(Blanks, 0, n.base, Len(n.base)), Len(n.base), n.extension, ExtensionLength)

\* A name without an extension has no dot.
FsFatNtNameToDosName(n) ==
    LET base == strncpy(Blanks, 0, n.base, Len(n.base)) IN
    IF n.extension = <<>> THEN base ELSE strncpy(base, BaseLength, n.extension, ExtensionLength)

\* strncmp of the eleven bytes.
SameName(dosname) == \A i \in 1 .. BaseLength + ExtensionLength : dosname[i] = file.Filename[i]

FsFatCreate(n) ==
    /\ pc = "mounted"
    /\ name' = n
    /\ pc' = IF SameName(FsFatNtNameToDosName(n)) THEN "open" ELSE "not found"
    /\ UNCHANGED <<disk, chain, buffer, result>>

-----------------------------------------------------------------------------
(* FsFatPerformRead.                                                         *)

Return(status) == pc' = "open" /\ result' = [NoResult EXCEPT !.status = status]

\* A cluster of the file, given by its position.
FsFatPerformRead(pos) ==
    /\ pc = "open"
    /\ LET head == file.StartCluster % FsFatClusters.Mask IN
       chain' = [Head |-> head, Pos |-> pos, Cluster |-> head, i |-> 0]
    /\ pc' = "walk"
    /\ result' = NoResult
    /\ UNCHANGED <<disk, name, buffer>>

\* One round of FsFatFileClusterByPos.
FsFatFileClusterByPos ==
    /\ pc = "walk"
    /\ chain.i < chain.Pos
    /\ \E next \in EntryOf(chain.Cluster) :
           /\ chain' = [chain EXCEPT !.Cluster = next, !.i = @ + 1]
           /\ CASE IsLast(next) -> Return("end of file")
                [] IsReserved(next) \/ IsBad(next) -> Return("partial")
                [] OTHER -> UNCHANGED <<pc, result>>
    /\ UNCHANGED <<disk, name, buffer>>

\* The cluster at the position is read, and its entry is looked at again: the end of the file
\* shortens the last cluster.
ReadCluster ==
    /\ pc' = "open"
    /\ \E next \in EntryOf(chain.Cluster) :
           result' = [status |-> "success", sector |-> StartSector(chain.Cluster),
                      nBytesRead |-> IF IsLast(next) THEN file.FileSize % ClusterSize ELSE ClusterSize]

\* Any number from 2 on is read, be it a mark that was not told from a cluster; a device that
\* has nothing there fails the read.
FsFatReadCluster ==
    /\ pc = "walk"
    /\ chain.i = chain.Pos
    /\ IF chain.Cluster < 2
       THEN Return("invalid")
       ELSE ReadCluster \/ (chain.Cluster \notin Entries /\ Return("device error"))
    /\ UNCHANGED <<disk, name, chain, buffer>>

\* There is no page behind the table: the exception ends in a bug check.
FsFatReadBehindTable ==
    /\ pc = "walk"
    /\ chain.Cluster \notin Entries
    /\ pc' = "stopped"
    /\ UNCHANGED <<disk, name, chain, buffer, result>>

Next ==
    \/ FsFatSizeOfClusterChain \/ ReadRootDirectory
    \/ \E n \in Names : FsFatCreate(n)
    \/ \E pos \in 0 .. LastCluster : FsFatPerformRead(pos)
    \/ FsFatFileClusterByPos \/ FsFatReadCluster \/ FsFatReadBehindTable

Spec == Init /\ [][Next]_vars

-----------------------------------------------------------------------------
(* Properties.                                                               *)

\* The chain of the file as the table has it, up to its first entry that is no cluster.
ChainAt(pos) ==
    LET at[k \in 0 .. pos] ==
            IF k = 0 THEN file.StartCluster
            ELSE IF at[k - 1] \in Clusters THEN table[at[k - 1]] ELSE at[k - 1] IN
    at[pos]

\* The clusters a file of this size has, when its chain is whole.
Needed == (file.FileSize + ClusterSize - 1) \div ClusterSize
Whole ==
    /\ Needed <= LastCluster
    /\ \A k \in 0 .. LastCluster : (ChainAt(k) \in Clusters) <=> (k < Needed)
    /\ ChainAt(LastCluster) = IF file.FileSize = 0 THEN 0 ELSE Last

\* Where a formatter puts the cluster.
SectorOf(c) ==
    header.ReservedSectors + header.NumberOfFats * FatSectors(header) + RootDirSectors(header)
      + (c - 2) * header.SectorsPerCluster

Least(a, b) == IF a < b THEN a ELSE b

\* A cluster of the file is read from its sector, on all three widths of entries.  On FAT12 and
\* FAT32 volumes nothing else is read with success, the end of the file is told, and all of a
\* whole file is read, but for a last cluster that is full, of which 0 bytes are.  On FAT16 volumes
\* nothing holds behind the last cluster (fsfat.cpp:858-958, 973, 1192-1210).
ReadsAreOfTheFile ==
    LET c == ChainAt(chain.Pos) IN
    pc = "open" /\ result.status # "none" =>
        /\ c \in Clusters => result.status = "success" /\ result.sector = SectorOf(c)
        /\ FatType # 16 =>
              /\ result.status = "success" => c \in Clusters
              /\ c = Last => result.status = "end of file"
              /\ result.status = "success" /\ Whole /\ file.FileSize % ClusterSize # 0 =>
                    result.nBytesRead = Least(ClusterSize, file.FileSize - chain.Pos * ClusterSize)

\* The clusters of a root directory that are read fit the buffer, although one loop counts them
\* and another reads them, with other ends (fsfat.cpp:269-293, 1041-1085).
RootDirectoryFits == pc = "root" => buffer.read <= buffer.size

\* The driver opens the file under its own name alone, and does find it, unless its extension
\* is shorter than three letters: the zero that ends it is copied too (fsfat.cpp:580-612).
NamesAreFound ==
    /\ pc = "open" => Filename(name) = file.Filename
    /\ pc = "not found" /\ Len(name.extension) \in {0, ExtensionLength} => Filename(name) # file.Filename
=============================================================================
