------------------------------ MODULE PetitFat -------------------------------
(***************************************************************************)
(* The file system of the boot loader, pff.c: one volume, one file, no     *)
(* buffer.  An action reads the card once, where a call of disk_readp may  *)
(* fail; only check_fs is one action.                                      *)
(*                                                                         *)
(* A unit is 32 bytes: an entry of a directory, or a piece of the file,    *)
(* named by its position.  Left out: names (a segment of the path is a     *)
(* value), the widths of FAT entries, writing (not compiled).              *)
(***************************************************************************)
EXTENDS Integers, Sequences

CONSTANTS
  SU,       \* units of a sector: 16
  Indices,  \* values of a directory's index: 65536
  Path,     \* the segments of the file's name
  Cards,    \* cards: see MCElfLoad
  Faults    \* bound: accesses that fail

ASSUME PetitAssumption ==
  SU \in Nat \ {0} /\ Indices \in Nat \ {0} /\ Len(Path) \in Nat \ {0} /\ Faults \in Nat

-----------------------------------------------------------------------------
(* What is asked of a card, of a wrong one too: chain, size and dirs say    *)
(* which clusters the file has, its units, and the sectors of each          *)
(* directory of the path.                                                   *)

DataStart(cd) == cd.base + cd.rsvd + cd.fatsz + cd.nroot \div SU
FatEnd(cd) == (cd.tsect - cd.rsvd - cd.fatsz - cd.nroot \div SU) \div cd.csize + 2

ClustersOf(cd) == 2 .. FatEnd(cd) - 1
SectorOf(cd, c, i) == (c - 2) * cd.csize + DataStart(cd) + i
SectorsOf(cd, c) == {SectorOf(cd, c, i) : i \in 0 .. cd.csize - 1}

\* The root is a table behind the FAT, or a chain.
Root(cd) == IF cd.fat32 THEN SectorsOf(cd, cd.rootclust)
            ELSE {cd.base + cd.rsvd + cd.fatsz + i : i \in 0 .. cd.nroot \div SU - 1}

DirSectors(cd, c) == IF c = 0 THEN Root(cd) ELSE SectorsOf(cd, c)

NoPartition == -1

\* first is the sector that the place of the partition table in sector 0 leads
\* to, also where sector 0 is a volume; base is the one of the volume.
Sized(cd) ==
  /\ cd.signed \in BOOLEAN /\ cd.first \in Nat \union {NoPartition}
  /\ cd.csize \in Nat \ {0} /\ {cd.base, cd.rsvd, cd.fatsz, cd.nroot, cd.tsect} \subseteq Nat
  /\ cd.fat32 \in BOOLEAN /\ cd.nroot % SU = 0 /\ (~cd.fat32 => cd.nroot > 0)
  /\ cd.fat32 => cd.rootclust \in ClustersOf(cd)
  /\ cd.fat \in [ClustersOf(cd) -> Nat]

\* The clusters of the file are linked, and hold its units in their order.
\* Behind the file the FAT may lead anywhere; a chain that ends too early is
\* a wrong card.
FileStored(cd) ==
  /\ cd.size \in Nat /\ cd.chain \in Seq(ClustersOf(cd))
  /\ \A i \in DOMAIN cd.chain :
       IF i < Len(cd.chain) THEN cd.fat[cd.chain[i]] = cd.chain[i + 1]
       ELSE cd.size <= i * (cd.csize * SU) \/ cd.fat[cd.chain[i]] \notin ClustersOf(cd)
  /\ \A u \in 0 .. cd.size - 1 :
       LET i == u \div (cd.csize * SU) + 1 IN
       i \in DOMAIN cd.chain =>
         cd.units[SectorOf(cd, cd.chain[i], (u \div SU) % cd.csize)][(u % SU) + 1] = u

\* What has the name of a segment in the directory before it is the
\* next directory, or the file.
Leads(cd, seg, e) ==
  IF seg < Len(Path)
  THEN e.dir /\ e.clust \in ClustersOf(cd) \union {0} => DirSectors(cd, e.clust) \subseteq cd.dirs[seg + 1]
  ELSE ~e.dir => e.size = cd.size /\ e.clust = IF cd.chain = << >> THEN 0 ELSE cd.chain[1]

PathStored(cd) ==
  /\ Root(cd) \subseteq cd.dirs[1]
  /\ \A seg \in 1 .. Len(Path) :
       /\ \A s \in cd.dirs[seg], u \in 1 .. SU :
            LET e == cd.units[s][u] IN
            e.name = Path[seg] /\ ~e.volume => e.clust \in Nat /\ Leads(cd, seg, e)
       /\ \A c \in ClustersOf(cd) :
            SectorsOf(cd, c) \subseteq cd.dirs[seg] /\ cd.fat[c] \in ClustersOf(cd)
              => SectorsOf(cd, cd.fat[c]) \subseteq cd.dirs[seg]

ASSUME CardsAssumption == \A cd \in Cards : Sized(cd) /\ FileStored(cd) /\ PathStored(cd)

-----------------------------------------------------------------------------
VARIABLES
  card,     \* what is on the card
  fs,       \* FATFS, the volume and the file: see NoVolume
  dj,       \* DIR, and the segment of the path that is looked for
  call,     \* the function that runs, or what it returned
  faults,   \* accesses that failed, but for
  typeFaults  \* reads of the type of a boot record that failed

NoVolume ==
  [bsect |-> 0, csize |-> 1, fatent |-> 2, dirbase |-> 0, database |-> 0,
   opened |-> FALSE, fptr |-> 0, fsize |-> 0, org |-> 0, curr |-> 0, dsect |-> 0]

NoDir == [seg |-> 1, index |-> 0, clust |-> 0, sect |-> 0]

LesserOf(a, b) == IF a < b THEN a ELSE b

\* Units of a cluster.
CU == fs.csize * SU

Running(op, n) == [op |-> op, left |-> n, linked |-> FALSE, buff |-> << >>]
Returned(res)  == [op |-> "none", res |-> res, buff |-> << >>]

Calls(op, n) == call' = Running(op, n)
Returns(res) == call' = Returned(res)

\* disk_readp succeeds, or does not.
Reads == UNCHANGED <<card, faults, typeFaults>>
Fails == faults + typeFaults < Faults /\ faults' = faults + 1 /\ UNCHANGED <<card, typeFaults>>

-----------------------------------------------------------------------------
(* Clusters.                                                               *)

Clusters == 2 .. fs.fatent - 1

\* clust2sect
FirstSector(c) == IF c \in Clusters THEN (c - 2) * fs.csize + fs.database ELSE 0

\* get_fat, when the card can be read
GetFat(c) == IF c \in Clusters THEN card.fat[c] ELSE 1

-----------------------------------------------------------------------------
(* pf_mount                                                                *)

\* 0 for a volume, 1 for another boot record, 2 for none.
Kind(sect) ==
  CASE card.signed /\ sect = card.base -> 0
    [] card.signed /\ sect = 0 /\ sect # card.base -> 1
    [] OTHER -> 2

TypeFails(n) ==
  /\ faults + typeFaults + n <= Faults
  /\ typeFaults' = typeFaults + n /\ UNCHANGED <<card, faults>>

\* check_fs.  The type is looked for in two places, that of FAT32 last; one that
\* cannot be read is no type, and the failure is forgotten.
CheckFs(sect, fmt) ==
  \/ fmt = 3 /\ Fails
  \/ fmt = Kind(sect) /\ Reads
  \/ fmt = 0 /\ Kind(sect) = 0 /\ card.fat32 /\ TypeFails(1)
  \/ fmt = 1 /\ Kind(sect) \in {0, 1} /\ \E n \in {1, 2} : TypeFails(n)

Mounts(fmt) ==
  CASE fmt = 0 -> Calls("parameters", 0)
    [] fmt = 3 -> Returns("DISK_ERR")
    [] OTHER   -> Returns("NO_FILESYSTEM")

\* disk_initialize, and what sector 0 is.
MountChecks ==
  /\ call.op = "mount" /\ UNCHANGED dj
  /\ fs' = NoVolume
  /\ \/ Fails /\ Returns("NOT_READY")
     \/ \E fmt \in 0 .. 3 : CheckFs(0, fmt) /\ IF fmt = 1 THEN Calls("table", 0) ELSE Mounts(fmt)

\* The first partition, if there is one.
MountTable ==
  /\ call.op = "table" /\ UNCHANGED dj
  /\ \/ Fails /\ Returns("DISK_ERR") /\ UNCHANGED fs
     \/ Reads /\ card.first = NoPartition /\ Mounts(1) /\ UNCHANGED fs
     \/ /\ Reads /\ card.first # NoPartition /\ Calls("partition", 0)
        /\ fs' = [fs EXCEPT !.bsect = card.first]

MountPartition ==
  /\ call.op = "partition" /\ UNCHANGED <<fs, dj>>
  /\ \E fmt \in 0 .. 3 : CheckFs(fs.bsect, fmt) /\ Mounts(fmt)

MountParameters ==
  LET fatbase == fs.bsect + card.rsvd
      root    == card.nroot \div SU
  IN
  /\ call.op = "parameters" /\ UNCHANGED dj
  /\ \/ Fails /\ Returns("DISK_ERR") /\ UNCHANGED fs
     \/ /\ Reads /\ Returns("OK")
        /\ fs' = [fs EXCEPT
                   !.csize    = card.csize,
                   !.fatent   = (card.tsect - card.rsvd - card.fatsz - root) \div card.csize + 2,
                   !.dirbase  = IF card.fat32 THEN card.rootclust ELSE fatbase + card.fatsz,
                   !.database = fatbase + card.fatsz + root]

-----------------------------------------------------------------------------
(* pf_open: follow_path and dir_find.                                      *)

\* dir_rewind, for the next segment of the path.
Rewound(seg, sclust) ==
  LET c == IF sclust = 0 /\ card.fat32 THEN fs.dirbase ELSE sclust IN
  [seg |-> seg, index |-> 0, clust |-> c,
   sect |-> IF c = 0 THEN fs.dirbase ELSE FirstSector(c)]

Finds(seg, sclust) ==
  IF sclust = 1 \/ sclust >= fs.fatent
  THEN Returns("DISK_ERR") /\ UNCHANGED dj
  ELSE Calls("find", 0) /\ dj' = Rewound(seg, sclust)

Open == fs' = [fs EXCEPT !.opened = FALSE] /\ Finds(1, 0)

Missing == Returns(IF dj.seg = Len(Path) THEN "NO_FILE" ELSE "NO_PATH") /\ UNCHANGED dj

\* The end of a table that is not a chain of clusters.
TableEnds(i) == dj.clust = 0 /\ i >= card.nroot

\* dir_next, as far as the card is not read.
Advance(i) ==
  CASE i % SU # 0 -> dj' = [dj EXCEPT !.index = i] /\ UNCHANGED call
    [] i % SU = 0 /\ TableEnds(i) -> Missing
    [] i % SU = 0 /\ ~TableEnds(i) /\ dj.clust # 0 /\ (i \div SU) % fs.csize = 0 ->
         Calls("follow", 0) /\ UNCHANGED dj
    [] OTHER -> dj' = [dj EXCEPT !.index = i, !.sect = @ + 1] /\ UNCHANGED call

\* An index that is 0 again ends a directory, a chain without an end too.
NextEntry ==
  LET i == (dj.index + 1) % Indices IN IF i = 0 THEN Missing ELSE Advance(i)

Found(entry) ==
  CASE dj.seg < Len(Path) /\ entry.dir -> Finds(dj.seg + 1, entry.clust) /\ UNCHANGED fs
    [] dj.seg < Len(Path) /\ ~entry.dir -> Returns("NO_PATH") /\ UNCHANGED <<fs, dj>>
    [] dj.seg = Len(Path) /\ entry.dir -> Returns("NO_FILE") /\ UNCHANGED <<fs, dj>>
    [] OTHER -> /\ Returns("OK") /\ UNCHANGED dj
                /\ fs' = [fs EXCEPT !.opened = TRUE, !.fptr = 0,
                                    !.org = entry.clust, !.fsize = entry.size]

FindEntry ==
  LET entry == card.units[dj.sect][(dj.index % SU) + 1] IN
  /\ call.op = "find"
  /\ \/ Fails /\ Returns("DISK_ERR") /\ UNCHANGED <<fs, dj>>
     \/ /\ Reads
        /\ CASE entry.name = "end" -> Missing /\ UNCHANGED fs
             [] entry.name = Path[dj.seg] /\ ~entry.volume -> Found(entry)
             [] OTHER -> NextEntry /\ UNCHANGED fs

FindCluster ==
  LET c == GetFat(dj.clust) IN
  /\ call.op = "follow" /\ UNCHANGED fs
  /\ \/ Fails /\ Returns("DISK_ERR") /\ UNCHANGED dj
     \/ /\ Reads
        /\ CASE c <= 1 -> Returns("DISK_ERR") /\ UNCHANGED dj
             [] c >= fs.fatent -> Missing
             [] OTHER -> /\ Calls("find", 0)
                         /\ dj' = [dj EXCEPT !.index = @ + 1, !.clust = c, !.sect = FirstSector(c)]

-----------------------------------------------------------------------------
(* pf_lseek                                                                *)

Aborts == Returns("DISK_ERR") /\ fs' = [fs EXCEPT !.opened = FALSE]

\* Fault: the place behind a cluster is taken for one of the next.
AheadOrBefore(o) == fs.fptr > 0 /\ o \div CU >= (fs.fptr - 1) \div CU

\* A place in the cluster of the pointer, or behind it.
Ahead(o) == fs.fptr > 0 /\ (o - 1) \div CU >= (fs.fptr - 1) \div CU

Seek(ofs) ==
  LET o    == LesserOf(ofs, fs.fsize)
      from == IF Ahead(o) THEN ((fs.fptr - 1) \div CU) * CU ELSE 0
  IN
  CASE ~fs.opened -> Returns("NOT_OPENED") /\ UNCHANGED fs
    [] fs.opened /\ o = 0 -> fs' = [fs EXCEPT !.fptr = 0] /\ Returns("OK")
    [] OTHER -> /\ fs' = [fs EXCEPT !.fptr = from, !.curr = IF Ahead(o) THEN @ ELSE fs.org]
                /\ Calls("seek", o - from)

SeekFollows ==
  LET c == GetFat(fs.curr) IN
  /\ call.op = "seek" /\ call.left > CU /\ UNCHANGED dj
  /\ \/ Fails /\ Aborts
     \/ Reads /\ c \notin Clusters /\ Aborts
     \/ /\ Reads /\ c \in Clusters
        /\ fs' = [fs EXCEPT !.curr = c, !.fptr = @ + CU]
        /\ call' = [call EXCEPT !.left = @ - CU]

SectorAt(p, c) == FirstSector(c) + ((p \div SU) % fs.csize)

SeekEnds ==
  LET p == fs.fptr + call.left IN
  /\ call.op = "seek" /\ call.left <= CU /\ UNCHANGED <<card, dj, faults, typeFaults>>
  /\ IF fs.curr \in Clusters
     THEN fs' = [fs EXCEPT !.fptr = p, !.dsect = SectorAt(p, fs.curr)] /\ Returns("OK")
     ELSE Aborts

-----------------------------------------------------------------------------
(* pf_read                                                                 *)

Read(btr) ==
  /\ UNCHANGED fs
  /\ IF fs.opened THEN Calls("read", LesserOf(btr, fs.fsize - fs.fptr)) ELSE Returns("NOT_OPENED")

\* A cluster begins.
Boundary == fs.fptr % CU = 0 /\ ~call.linked

ReadCluster ==
  LET c == IF fs.fptr = 0 THEN fs.org ELSE GetFat(fs.curr) IN
  /\ call.op = "read" /\ call.left > 0 /\ Boundary /\ UNCHANGED dj
  /\ \/ fs.fptr > 0 /\ Fails /\ Aborts
     \/ Reads /\ c \notin Clusters /\ Aborts
     \/ /\ Reads /\ c \in Clusters
        /\ fs' = [fs EXCEPT !.curr = c] /\ call' = [call EXCEPT !.linked = TRUE]

\* Fault: the sector is only looked for where a cluster begins.
SectorOfCluster == IF fs.fptr % CU = 0 THEN SectorAt(fs.fptr, fs.curr) ELSE fs.dsect

SectorToRead == IF fs.fptr % SU = 0 THEN SectorAt(fs.fptr, fs.curr) ELSE fs.dsect

ReadSector ==
  LET at   == fs.fptr % SU
      rcnt == LesserOf(SU - at, call.left)
      sect == SectorToRead
  IN
  /\ call.op = "read" /\ call.left > 0 /\ ~Boundary /\ UNCHANGED dj
  /\ \/ Fails /\ Aborts
     \/ /\ Reads
        /\ fs' = [fs EXCEPT !.dsect = sect, !.fptr = @ + rcnt]
        /\ call' = [call EXCEPT !.left = @ - rcnt, !.linked = FALSE,
                                !.buff = @ \o SubSeq(card.units[sect], at + 1, at + rcnt)]

ReadEnds ==
  /\ call.op = "read" /\ call.left = 0
  /\ call' = [Returned("OK") EXCEPT !.buff = call.buff]
  /\ UNCHANGED <<card, fs, dj, faults, typeFaults>>

PetitStep ==
  \/ MountChecks \/ MountTable \/ MountPartition \/ MountParameters
  \/ FindEntry \/ FindCluster
  \/ SeekFollows \/ SeekEnds
  \/ ReadCluster \/ ReadSector \/ ReadEnds

PetitInit ==
  /\ card \in Cards
  /\ fs = NoVolume /\ dj = NoDir /\ call = Running("mount", 0)
  /\ faults = 0 /\ typeFaults = 0

-----------------------------------------------------------------------------
(* Property.                                                               *)

\* Between two calls the file object knows the place of the pointer: the
\* cluster of the unit before it, and the sector of the unit that is next in
\* a sector that is begun, however it came there.
PlaceTrue ==
  call.op = "none" /\ fs.opened /\ fs.fptr > 0 =>
    LET c == card.chain[(fs.fptr - 1) \div CU + 1] IN
    fs.curr = c /\ (fs.fptr % SU # 0 => fs.dsect = SectorAt(fs.fptr, c))
=============================================================================
