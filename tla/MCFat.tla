-------------------------------- MODULE MCFat --------------------------------
(* An instance of Fat for TLC: volumes of the three types, one of them at    *)
(* the edge between two, and names of up to two letters and two.             *)
EXTENDS Fat

Volume(spc, reserved, entries, sectors, sectorsLong, fatSectors, fatSectors32) ==
    [SectorSize |-> 512, SectorsPerCluster |-> spc, ReservedSectors |-> reserved, NumberOfFats |-> 2,
     DirectoryEntries |-> entries, Sectors |-> sectors, SectorsLong |-> sectorsLong,
     FatSectors |-> fatSectors, FatSectors32 |-> fatSectors32]

MCHeaders == {
    Volume(1, 1, 224, 2880, 0, 9, 0),           \* a floppy
    Volume(2, 1, 17, 8203, 0, 15, 0),           \* 4085 clusters, and a directory that ends in a sector
    Volume(1, 32, 0, 0, 70000, 0, 520) }        \* FAT32

MCNames == [base : {<<"A">>, <<"A", "B">>}, extension : {<<>>, <<"B">>, <<"A", "B">>}]
=============================================================================
