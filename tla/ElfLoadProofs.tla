---------------------------- MODULE ElfLoadProofs ----------------------------
(***************************************************************************)
(* The place in the file belongs to its chain, and a program that is       *)
(* started is in the memory: PlaceTrue and ProgramLoaded, for cards,       *)
(* clusters, files and programs of any size and any number of faults.      *)
(*                                                                         *)
(* The invariant follows a call of the file system through its steps       *)
(* (MountInv, DirInv, SeekInv, ReadInv), says which units the caller gets  *)
(* (PosInv), that no fault is forgotten but those that pf_mount forgets    *)
(* (FaultInv), and which part of the program is in the memory (LoadInv).   *)
(* Of typeFaults nothing is asked: whatever is forgotten, what is mounted  *)
(* is the volume on the card.                                              *)
(***************************************************************************)
EXTENDS ElfLoad, SequenceTheorems, TLAPS

-----------------------------------------------------------------------------
(* The inductive invariant.                                                *)

Header == [load : BOOLEAN, offset : Nat, addr : Int, size : Nat]
Ops == {"mount", "table", "partition", "parameters", "find", "follow", "seek", "read"}
Results == {"OK", "NOT_READY", "DISK_ERR", "NO_FILESYSTEM", "NO_FILE", "NO_PATH", "NOT_OPENED"}
Seeks == {"seekelf", "seekheader", "seeksegment"}
Reading == {"readelf", "readheader", "readsegment"}

Volume ==
  [bsect : Nat, csize : Nat \ {0}, fatent : Int, dirbase : Nat, database : Nat,
   opened : BOOLEAN, fptr : Nat, fsize : Nat, org : Nat, curr : Nat, dsect : Int]

Directories == [seg : 1 .. Len(Path), index : 0 .. Indices - 1, clust : Nat, sect : Int]

CallType ==
  [op : Ops, left : Nat, linked : BOOLEAN, buff : Seq(Nat)]
    \union [op : {"none"}, res : Results, buff : Seq(Nat)]

TypeOK ==
  /\ card \in Cards /\ fs \in Volume /\ dj \in Directories /\ call \in CallType
  /\ faults \in Nat /\ mem \in [Memory -> Int]
  /\ at \in {"mount", "open", "run", "failed"} \union Seeks \union Reading
  /\ load \in [phnum : Nat, pos : Nat, ph : Header, addr : Int, size : Nat]

Ended == call.op = "none"
Well  == Ended => call.res = "OK"

\* Which function the loader waits for.
OpInv ==
  call.op \in
    CASE at = "mount"   -> {"none", "mount", "table", "partition", "parameters"}
      [] at = "open"    -> {"none", "find", "follow"}
      [] at \in Seeks   -> {"none", "seek"}
      [] at \in Reading -> {"none", "read"}
      [] OTHER          -> {"none"}

\* The volume is the one on the card.
OnCard ==
  /\ fs.csize = card.csize /\ fs.fatent = FatEnd(card) /\ fs.database = DataStart(card)
  /\ fs.dirbase = IF card.fat32 THEN card.rootclust ELSE card.base + card.rsvd + card.fatsz

MountInv ==
  /\ at = "mount" =>
       /\ ~fs.opened
       /\ call.op = "parameters" => fs.bsect = card.base
       /\ Ended /\ call.res = "OK" => OnCard
  /\ at \notin {"mount", "failed"} => OnCard

\* The sector that is searched belongs to the directory of the segment.
DirInv ==
  at = "open" /\ ~Ended =>
    /\ ~fs.opened
    /\ IF dj.clust = 0
       THEN /\ ~card.fat32 /\ Root(card) \subseteq card.dirs[dj.seg]
            /\ dj.index < card.nroot /\ dj.sect = fs.dirbase + dj.index \div SU
       ELSE /\ dj.clust \in ClustersOf(card) /\ SectorsOf(card, dj.clust) \subseteq card.dirs[dj.seg]
            /\ dj.sect = SectorOf(card, dj.clust, (dj.index \div SU) % card.csize)
    /\ call.op = "follow" =>
         /\ dj.clust # 0 /\ (dj.index + 1) % SU = 0 /\ dj.index + 1 < Indices
         /\ ((dj.index + 1) \div SU) % card.csize = 0

\* The units of a cluster, and which of the chain the unit u is in.
PerCluster == card.csize * SU
Index(u)   == u \div PerCluster + 1

\* The cluster in hand is that of the unit u.
InCluster(u) == Index(u) \in DOMAIN card.chain /\ fs.curr = card.chain[Index(u)]

\* PlaceTrue: the place of the pointer is known.
Stands ==
  fs.fptr > 0 =>
    /\ InCluster(fs.fptr - 1)
    /\ fs.fptr % SU # 0 => fs.dsect = SectorAt(fs.fptr, fs.curr)

\* The pointer goes on from the beginning of a cluster.
SeekInv ==
  call.op = "seek" =>
    /\ call.left > 0 /\ fs.fptr % PerCluster = 0
    /\ IF card.chain = << >> THEN fs.curr = 0 ELSE InCluster(fs.fptr)

ReadInv ==
  call.op = "read" =>
    /\ call.left <= card.size - fs.fptr
    /\ IF call.linked THEN call.left > 0 /\ fs.fptr % PerCluster = 0 /\ InCluster(fs.fptr) ELSE Stands

FileInv ==
  fs.opened =>
    /\ OnCard
    /\ fs.fsize = card.size /\ fs.fptr <= card.size
    /\ fs.org = IF card.chain = << >> THEN 0 ELSE card.chain[1]
    /\ Ended => Stands
    /\ SeekInv /\ ReadInv

OpenInv == at \in {"open", "run"} \union Seeks \union Reading /\ Well /\ (at = "open" => Ended) => fs.opened

\* What was read is what stands before the pointer.
BuffInv ==
  /\ fs.opened /\ call.op # "seek" =>
       /\ Len(call.buff) <= fs.fptr
       /\ \A i \in DOMAIN call.buff : call.buff[i] = fs.fptr - Len(call.buff) + i - 1

\* The place that the loader wants, how many units from there, and how many it
\* will still get.
Target ==
  CASE at \in {"seekelf", "readelf"}         -> 0
    [] at \in {"seekheader", "readheader"}   -> load.pos
    [] OTHER                                   -> load.ph.offset + (load.ph.size - load.size)

Wanted  == IF at = "readsegment" THEN LoadByte ELSE 1
Missed  == IF Ended THEN 0 ELSE call.left
Start   == LesserOf(Target, card.size)

PosInv ==
  /\ at \in Seeks /\ Well => fs.fptr + Missed = Start
  /\ at \in Reading /\ Well =>
       /\ fs.fptr - Len(call.buff) = Start
       /\ Missed + Len(call.buff) = LesserOf(Wanted, card.size - Start)

\* An access that failed ends in an error.
FaultInv ==
  faults > 0 => at = "failed" \/ ~Well

\* The header that is used as the nth: the last one that the file has.
HeaderOf(n) ==
  LET p == LesserOf(n, card.size - 1) IN IF p < 1 THEN NoHeader ELSE card.ph[p]

\* The first n units of a segment are in the memory.
InMemory(ph, n) ==
  \A k \in 0 .. n - 1 : ph.offset + k < card.size => mem[ph.addr + k] = ph.offset + k

InMemoryTo(n) ==
  \A p \in Headers : p <= n /\ Loaded(p) => InMemory(card.ph[p], card.ph[p].size)

Segments == {"seeksegment", "readsegment"}

LoadInv ==
  /\ at \in {"mount", "open", "seekelf", "readelf"} =>
       load = [phnum |-> 0, pos |-> 0, ph |-> NoHeader, addr |-> 0, size |-> 0]
  /\ at \in {"seekheader", "readheader"} =>
       /\ load.pos = load.phnum /\ load.phnum \in 1 .. card.phnum
       /\ load.ph = HeaderOf(load.phnum - 1) /\ InMemoryTo(load.phnum - 1)
  /\ at \in Segments =>
       /\ load.pos = load.phnum + 1 /\ load.phnum \in 1 .. card.phnum
       /\ load.ph = HeaderOf(load.phnum) /\ load.ph.load /\ load.size \in 1 .. load.ph.size
       /\ load.addr = load.ph.addr + (load.ph.size - load.size)
       /\ InMemoryTo(load.phnum - 1) /\ InMemory(load.ph, load.ph.size - load.size)
  /\ at = "run" => Ended /\ call.res = "OK" /\ InMemoryTo(card.phnum)

BootInv ==
  /\ TypeOK /\ OpInv /\ MountInv /\ DirInv /\ FileInv /\ OpenInv /\ BuffInv
  /\ PosInv /\ FaultInv /\ LoadInv

-----------------------------------------------------------------------------
(* Places.                                                                 *)

\* Division.
LEMMA Quotient ==
  ASSUME NEW n \in Int, NEW q \in Nat \ {0}
  PROVE  n % q \in 0 .. q - 1 /\ n = q * (n \div q) + (n % q) /\ n \div q \in Int
OBVIOUS

\* The quotient is the one with a remainder.
LEMMA QuotientIs ==
  ASSUME NEW n \in Int, NEW q \in Nat \ {0}, NEW k \in Int, NEW r \in 0 .. q - 1, n = q * k + r
  PROVE  n \div q = k /\ n % q = r
<1> DEFINE d == n \div q
<1>1. d \in Int /\ n = q * d + (n % q) /\ n % q \in 0 .. q - 1  BY Quotient
<1> HIDE DEF d
<1>2. ASSUME d < k PROVE FALSE
  <2>1. q * (d + 1) <= q * k  BY <1>1, <1>2
  <2>2. q * (d + 1) = q * d + q  BY <1>1
  <2> QED BY <1>1, <2>1, <2>2
<1>3. ASSUME k < d PROVE FALSE
  <2>1. q * (k + 1) <= q * d  BY <1>1, <1>3
  <2>2. q * (k + 1) = q * k + q  BY <1>1
  <2> QED BY <1>1, <2>1, <2>2
<1>4. d = k  BY <1>1, <1>2, <1>3
<1> QED BY <1>1, <1>4 DEF d

\* One more: the quotient changes at a multiple, and nowhere else.
LEMMA Onward ==
  ASSUME NEW n \in Nat, NEW q \in Nat \ {0}
  PROVE  /\ n \div q \in Nat /\ n % q \in 0 .. q - 1
         /\ (n + 1) % q = 0 => (n + 1) \div q = n \div q + 1
         /\ (n + 1) % q # 0 => (n + 1) \div q = n \div q /\ (n + 1) % q = (n % q) + 1
<1>1. n % q \in 0 .. q - 1 /\ n = q * (n \div q) + (n % q) /\ n \div q \in Int  BY Quotient
<1>2. PICK k \in Int, r \in 0 .. q - 1 : k = n \div q /\ r = n % q /\ n = q * k + r  BY <1>1
<1>3. k \in Nat
  <2>1. ASSUME k < 0 PROVE FALSE
    <3>1. q * (k + 1) <= 0  BY <2>1
    <3>2. q * (k + 1) = q * k + q  OBVIOUS
    <3> QED BY <1>2, <3>1, <3>2
  <2> QED BY <2>1
<1>4. CASE r + 1 < q
  <2>1. (n + 1) \div q = k /\ (n + 1) % q = r + 1
    <3> DEFINE m == n + 1
    <3> DEFINE t == r + 1
    <3>1. m \in Int /\ t \in 0 .. q - 1 /\ m = q * k + t  BY <1>2, <1>4
    <3> HIDE DEF m, t
    <3>2. m \div q = k /\ m % q = t  BY <1>2, <3>1, QuotientIs
    <3> QED BY <3>2 DEF m, t
  <2> QED BY <1>2, <1>3, <2>1
<1>5. CASE r + 1 = q
  <2>1. n + 1 = q * (k + 1) + 0  BY <1>2, <1>5
  <2>2. n + 1 \in Int /\ k + 1 \in Int /\ 0 \in 0 .. q - 1  BY <1>2
  <2>3. (n + 1) \div q = k + 1 /\ (n + 1) % q = 0
    <3> DEFINE m == n + 1
    <3> DEFINE l == k + 1
    <3>1. m \in Int /\ l \in Int /\ m = q * l + 0  BY <2>1, <2>2
    <3> HIDE DEF m, l
    <3>2. m \div q = l /\ m % q = 0  BY <2>2, <3>1, QuotientIs
    <3> QED BY <3>2 DEF m, l
  <2> QED BY <1>2, <1>3, <2>3
<1> QED BY <1>2, <1>4, <1>5

\* A place is a multiple and a remainder.
LEMMA Division ==
  ASSUME NEW n \in Nat, NEW q \in Nat \ {0}
  PROVE  /\ n \div q \in Nat /\ n % q \in 0 .. q - 1 /\ n = q * (n \div q) + (n % q)
         /\ \E k \in Nat : \E r \in 0 .. q - 1 : k = n \div q /\ r = n % q /\ n = q * k + r
<1>1. n \div q \in Nat  BY Onward
<1>2. n % q \in 0 .. q - 1 /\ n = q * (n \div q) + (n % q)  BY Quotient
<1> QED BY <1>1, <1>2

\* Places between two multiples have one quotient.
LEMMA Within ==
  ASSUME NEW n \in Nat, NEW q \in Nat \ {0}, NEW d \in 0 .. q - 1 - (n % q)
  PROVE  (n + d) \div q = n \div q /\ (n + d) % q = (n % q) + d
<1>1. n % q \in 0 .. q - 1 /\ n = q * (n \div q) + (n % q) /\ n \div q \in Int  BY Quotient
<1>2. PICK k \in Int, r \in 0 .. q - 1 : k = n \div q /\ r = n % q /\ n = q * k + r  BY <1>1
<1>3. d \in Nat /\ d + r <= q - 1  BY <1>2
<1>6. r + d \in 0 .. q - 1 /\ n + d \in Int  BY <1>2, <1>3
<1>7. n + d = q * k + (r + d)
  <2> DEFINE m == q * k
  <2>1. m \in Int /\ n = m + r  BY <1>2
  <2> HIDE DEF m
  <2>2. n + d = m + (r + d)  BY <1>3, <2>1
  <2> QED BY <2>2 DEF m
<1>4. n + d = q * k + (r + d) /\ r + d \in 0 .. q - 1 /\ n + d \in Int  BY <1>6, <1>7
<1>5. (n + d) \div q = k /\ (n + d) % q = r + d
  <2> DEFINE m == n + d
  <2> DEFINE t == r + d
  <2>1. m \in Int /\ t \in 0 .. q - 1 /\ m = q * k + t  BY <1>4
  <2> HIDE DEF m, t
  <2>2. m \div q = k /\ m % q = t  BY <1>2, <2>1, QuotientIs, ZenonT(40)
  <2> QED BY <2>2 DEF m, t
<1> QED BY <1>2, <1>5

\* What is known of a card.
LEMMA CardForm ==
  ASSUME card \in Cards
  PROVE  /\ Sized(card) /\ FileStored(card) /\ PathStored(card)
         /\ card.csize \in Nat \ {0} /\ SU \in Nat \ {0} /\ PerCluster \in Nat \ {0}
         /\ DataStart(card) \in Nat /\ FatEnd(card) \in Int /\ ClustersOf(card) \subseteq Nat \ {0, 1}
         /\ card.size \in Nat /\ card.chain \in Seq(ClustersOf(card))
         /\ card.base \in Nat /\ card.rsvd \in Nat /\ card.fatsz \in Nat /\ card.nroot \in Nat
         /\ card.tsect \in Nat /\ card.fat32 \in BOOLEAN
<1>1. Sized(card) /\ FileStored(card) /\ PathStored(card)  BY CardsAssumption
<1>2. card.csize \in Nat \ {0} /\ SU \in Nat \ {0} /\ card.size \in Nat /\ card.chain \in Seq(ClustersOf(card))
  BY <1>1, PetitAssumption DEF Sized, FileStored
<1>3. PerCluster \in Nat \ {0}
  <2>1. \A x, y \in Nat \ {0} : x * y \in Nat \ {0}  OBVIOUS
  <2> QED BY <1>2, <2>1 DEF PerCluster
<1>4. card.base \in Nat /\ card.rsvd \in Nat /\ card.fatsz \in Nat /\ card.nroot \in Nat
      /\ card.tsect \in Nat /\ card.fat32 \in BOOLEAN
  BY <1>1 DEF Sized
<1>5. card.nroot \div SU \in Nat  BY <1>2, <1>4, Onward
<1>6. DataStart(card) \in Nat  BY <1>4, <1>5 DEF DataStart
<1>7. FatEnd(card) \in Int
  <2> DEFINE x == card.tsect - card.rsvd - card.fatsz - card.nroot \div SU
  <2>1. x \in Int  BY <1>4, <1>5
  <2> HIDE DEF x
  <2>2. x \div card.csize \in Int  BY <1>2, <2>1, Quotient
  <2> QED BY <2>2 DEF FatEnd, x
<1>8. ClustersOf(card) \subseteq Nat \ {0, 1}  BY <1>7 DEF ClustersOf
<1> QED BY <1>1, <1>2, <1>3, <1>4, <1>6, <1>7, <1>8

\* A sector is in one cluster, and a cluster begins with a sector.
LEMMA SectorsInClusters ==
  ASSUME card \in Cards, NEW p \in Nat
  PROVE  /\ p \div PerCluster = (p \div SU) \div card.csize
         /\ p % PerCluster = 0 => p % SU = 0
<1>1. card.csize \in Nat \ {0} /\ SU \in Nat \ {0} /\ PerCluster \in Nat \ {0}  BY CardForm
<1>2. PICK k \in Nat : \E r \in 0 .. SU - 1 : k = p \div SU /\ r = p % SU /\ p = SU * k + r
  BY <1>1, Division
<1>8. PICK r \in 0 .. SU - 1 : k = p \div SU /\ r = p % SU /\ p = SU * k + r  BY <1>2
<1>3. PICK m \in Nat : \E t \in 0 .. card.csize - 1 :
            m = k \div card.csize /\ t = k % card.csize /\ k = card.csize * m + t
  BY <1>1, Division
<1>9. PICK t \in 0 .. card.csize - 1 :
            m = k \div card.csize /\ t = k % card.csize /\ k = card.csize * m + t
  BY <1>3
<1>4. p = PerCluster * m + (SU * t + r)
  <2> DEFINE z == card.csize
  <2>1. z \in Nat /\ k = z * m + t /\ p = SU * k + r /\ t \in Nat /\ PerCluster = z * SU
    BY <1>1, <1>8, <1>9 DEF PerCluster
  <2> HIDE DEF z
  <2>2. SU * (z * m + t) = (z * SU) * m + SU * t  BY <1>1, <2>1
  <2>3. p = (z * SU) * m + SU * t + r  BY <2>1, <2>2
  <2>4. SU * t \in Nat /\ (z * SU) * m \in Nat /\ r \in Nat  BY <1>1, <2>1
  <2> QED BY <2>1, <2>3, <2>4
<1>5. SU * t + r \in 0 .. PerCluster - 1
  <2>1. SU * t <= SU * (card.csize - 1)  BY <1>1
  <2>2. SU * (card.csize - 1) = PerCluster - SU  BY <1>1 DEF PerCluster
  <2>3. SU * t \in Nat  BY <1>1
  <2> QED BY <1>1, <2>1, <2>2, <2>3
<1>6. p \div PerCluster = m /\ p % PerCluster = SU * t + r
  <2> DEFINE d == SU * t + r
  <2>1. d \in 0 .. PerCluster - 1 /\ p = PerCluster * m + d  BY <1>4, <1>5
  <2> HIDE DEF d
  <2>2. p \div PerCluster = m /\ p % PerCluster = d  BY <1>1, <2>1, QuotientIs
  <2> QED BY <2>2 DEF d
<1>7. p % PerCluster = 0 => r = 0
  <2>1. SU * t \in Nat  BY <1>1
  <2> QED BY <1>6, <2>1
<1> QED BY <1>6, <1>7, <1>8, <1>9

\* Where the pointer may go.
LEMMA ClusterPlaces ==
  ASSUME card \in Cards, NEW p \in Nat
  PROVE  /\ Index(p) \in Nat \ {0} /\ Index(0) = 1
         /\ p % PerCluster = 0 =>
              /\ \A d \in 0 .. PerCluster - 1 : Index(p + d) = Index(p)
              /\ (p + PerCluster) % PerCluster = 0 /\ Index(p + PerCluster) = Index(p) + 1
              /\ p > 0 => Index(p) = Index(p - 1) + 1
         /\ p % PerCluster # 0 => p > 0 /\ Index(p) = Index(p - 1)
         /\ p \div PerCluster \in Nat /\ (p \div PerCluster) * PerCluster \in 0 .. p
         /\ Index((p \div PerCluster) * PerCluster) = Index(p)
         /\ ((p \div PerCluster) * PerCluster) % PerCluster = 0
<1> DEFINE q == PerCluster
<1>1. q \in Nat \ {0}  BY CardForm
<1> HIDE DEF q
<1>2. p \div q \in Nat /\ p % q \in 0 .. q - 1 /\ p = q * (p \div q) + (p % q)  BY <1>1, Division
<1>3. ASSUME p % q = 0
      PROVE  /\ \A d \in 0 .. q - 1 : (p + d) \div q = p \div q
             /\ (p + q) % q = 0 /\ (p + q) \div q = p \div q + 1
  <2>1. ASSUME NEW d \in 0 .. q - 1 PROVE (p + d) \div q = p \div q
    <3>1. d \in 0 .. q - 1 - (p % q)  BY <1>1, <1>3
    <3> QED BY <1>1, <3>1, Within
  <2>2. PICK k \in Nat : k = p \div q /\ p = q * k + (p % q)  BY <1>2
  <2>3. p + q = q * (k + 1) + 0  BY <1>1, <1>3, <2>2
  <2>4. (p + q) \div q = k + 1 /\ (p + q) % q = 0
    <3> DEFINE m == p + q
    <3> DEFINE l == k + 1
    <3>1. m \in Int /\ l \in Int /\ m = q * l + 0 /\ 0 \in 0 .. q - 1  BY <1>1, <2>3
    <3> HIDE DEF m, l
    <3>2. m \div q = l /\ m % q = 0  BY <1>1, <3>1, QuotientIs
    <3> QED BY <3>2 DEF m, l
  <2> QED BY <2>1, <2>2, <2>4
<1>4. 0 \div q = 0 /\ 0 % q = 0
  <2>1. 0 = q * 0 + 0  BY <1>1
  <2> QED BY <1>1, <2>1, QuotientIs
<1>5. ASSUME p > 0 PROVE  /\ p % q = 0 => p \div q = (p - 1) \div q + 1
                          /\ p % q # 0 => p \div q = (p - 1) \div q
  <2>1. p - 1 \in Nat /\ (p - 1) + 1 = p  BY <1>5
  <2> QED BY <1>1, <2>1, Onward
<1>6. /\ (p \div q) * q \in 0 .. p /\ ((p \div q) * q) \div q = p \div q
      /\ ((p \div q) * q) % q = 0
  <2>1. PICK k \in Nat : k = p \div q /\ p = q * k + (p % q)  BY <1>2
  <2> DEFINE m == k * q
  <2>2. m = q * k + 0 /\ m \in Nat  BY <1>1
  <2>3. (p \div q) * q = m  BY <2>1
  <2>4. p = m + (p % q)
    <3>1. q * k = m  BY <1>1
    <3> QED BY <2>1, <3>1
  <2> HIDE DEF m
  <2>5. m \div q = k /\ m % q = 0  BY <1>1, <2>2, QuotientIs
  <2>6. m <= p  BY <1>2, <2>2, <2>4
  <2> QED BY <2>1, <2>2, <2>3, <2>5, <2>6
<1>7. p % q # 0 => p > 0  BY <1>4
<1> QED BY <1>1, <1>2, <1>3, <1>4, <1>5, <1>6, <1>7 DEF Index, q

\* Where a cluster of the file ends, from its beginning and from its last unit.
LEMMA ClusterEnds ==
  ASSUME card \in Cards, NEW p \in Nat, p % PerCluster = 0
  PROVE  /\ PerCluster * Index(p) = p + PerCluster
         /\ p > 0 => PerCluster * Index(p - 1) = p
<1> DEFINE q == PerCluster
<1>1. q \in Nat \ {0}  BY CardForm
<1>2. p > 0 => Index(p) = Index(p - 1) + 1  BY ClusterPlaces
<1>3. p \div q \in Nat /\ p = q * (p \div q) + (p % q)
  <2> HIDE DEF q
  <2> QED BY <1>1, Division
<1>4. PICK k \in Nat : k = p \div q /\ p = q * k  BY <1>1, <1>3
<1>5. Index(p) = k + 1  BY <1>4 DEF Index
<1> HIDE DEF q
<1>6. q * (k + 1) = p + q  BY <1>1, <1>4
<1>7. ASSUME p > 0 PROVE q * Index(p - 1) = p
  <2>1. p - 1 \in Nat /\ Index(p - 1) \in Int  BY <1>7, ClusterPlaces
  <2>2. Index(p - 1) = k  BY <1>2, <1>5, <1>7, <2>1
  <2> QED BY <1>4, <2>2
<1> QED BY <1>5, <1>6, <1>7 DEF q

\* Units of one sector.
LEMMA SectorPlaces ==
  ASSUME card \in Cards, NEW p \in Nat, NEW n \in 1 .. SU - (p % SU)
  PROVE  /\ p % SU \in 0 .. SU - 1
         /\ Index(p + n - 1) = Index(p)
         /\ \A i \in 0 .. n - 1 : /\ (p + i) \div SU = p \div SU /\ (p + i) % SU = (p % SU) + i
                                  /\ Index(p + i) = Index(p)
         /\ (p + n) % SU # 0 => (p + n) \div SU = p \div SU
<1>1. SU \in Nat \ {0} /\ p % SU \in 0 .. SU - 1  BY PetitAssumption, Division
<1>2. ASSUME NEW i \in 0 .. n - 1
      PROVE  (p + i) \div SU = p \div SU /\ (p + i) % SU = (p % SU) + i
  <2>1. i \in 0 .. SU - 1 - (p % SU)  BY <1>1
  <2> QED BY <1>1, <2>1, Within
<1>3. ASSUME NEW i \in 0 .. n - 1 PROVE Index(p + i) = Index(p)
  BY <1>2, SectorsInClusters DEF Index
<1>4. ASSUME (p + n) % SU # 0 PROVE (p + n) \div SU = p \div SU
  <2>1. p + n - 1 \in Nat /\ (p + n - 1) + 1 = p + n /\ p + n - 1 = p + (n - 1) /\ n - 1 \in 0 .. n - 1  BY <1>1
  <2>2. (p + n) \div SU = (p + n - 1) \div SU  BY <1>1, <1>4, <2>1, Onward
  <2> QED BY <1>2, <2>1, <2>2
<1>5. p + n - 1 = p + (n - 1) /\ n - 1 \in 0 .. n - 1  BY <1>1
<1> QED BY <1>1, <1>2, <1>3, <1>4, <1>5

-----------------------------------------------------------------------------
(* Calls.                                                                  *)

Stays == UNCHANGED <<at, load, mem>>

\* What is known of a call, whether it runs or has returned.
LEMMA CallForm ==
  ASSUME call \in CallType
  PROVE  /\ call.buff \in Seq(Nat) /\ call.op \in Ops \union {"none"}
         /\ Ended => call.res \in Results
         /\ ~Ended => call.left \in Nat /\ call.linked \in BOOLEAN /\ call.op \in Ops
         /\ ~Ended => call \in [op : Ops, left : Nat, linked : BOOLEAN, buff : Seq(Nat)]
BY DEF CallType, Ended, Ops

\* Calls that begin and end.
LEMMA CallBegins ==
  ASSUME NEW op \in Ops, NEW n \in Nat, Calls(op, n)
  PROVE  /\ call' \in CallType /\ call'.op = op /\ call'.left = n /\ ~call'.linked
         /\ call'.buff = << >> /\ ~Ended' /\ Well'
<1>1. << >> \in Seq(Nat)  OBVIOUS
<1>3. op # "none"  BY DEF Ops
<1>2. call' = [op |-> op, left |-> n, linked |-> FALSE, buff |-> << >>]  BY DEF Calls, Running
<1> QED BY <1>1, <1>2, <1>3 DEF CallType, Ended, Well

\* A call that returns.
LEMMA CallReturns ==
  ASSUME NEW res \in Results, Returns(res)
  PROVE  /\ call' \in CallType /\ call'.op = "none" /\ call'.res = res
         /\ call'.buff = << >> /\ Ended' /\ (Well' <=> res = "OK")
<1>1. << >> \in Seq(Nat)  OBVIOUS
<1>2. call' = [op |-> "none", res |-> res, buff |-> << >>]  BY DEF Returns, Returned
<1> QED BY <1>1, <1>2 DEF CallType, Ended, Well

\* Where the loader is while a function runs.
LEMMA Waits ==
  ASSUME TypeOK, OpInv
  PROVE  /\ call.op \in {"mount", "table", "partition", "parameters"} => at = "mount"
         /\ call.op \in {"find", "follow"} => at = "open"
         /\ call.op = "seek" => at \in Seeks
         /\ call.op = "read" => at \in Reading
BY DEF TypeOK, OpInv, Seeks, Reading

\* Nothing is asked of a file that is not open.
LEMMA NoFile ==
  ASSUME ~fs.opened
  PROVE  FileInv /\ BuffInv
BY DEF FileInv, BuffInv

-----------------------------------------------------------------------------
(* pf_mount.                                                               *)

\* While the card is mounted no other part of the invariant says anything.
LEMMA MountStays ==
  ASSUME BootInv, at = "mount", Stays, UNCHANGED <<card, dj>>, fs' \in Volume, ~fs'.opened,
         call' \in CallType, faults' \in Nat, FaultInv',
         call'.op \in {"none", "table", "partition", "parameters"},
         call'.op = "parameters" => fs'.bsect = card.base,
         call'.op = "none" /\ call'.res = "OK" => OnCard'
  PROVE  BootInv'
<1> USE DEF Stays
<1>1. at' = "mount"  OBVIOUS
<1>2. TypeOK'  BY DEF BootInv, TypeOK
<1>3. OpInv'  BY <1>1 DEF OpInv, Seeks, Reading
<1>4. MountInv'  BY <1>1 DEF MountInv, Ended
<1>5. DirInv'  BY <1>1 DEF DirInv
<1>6. FileInv' /\ BuffInv'  BY DEF FileInv, BuffInv
<1>7. OpenInv' /\ PosInv'  BY <1>1 DEF OpenInv, PosInv, Seeks, Reading
<1>8. LoadInv'  BY <1>1 DEF BootInv, LoadInv, Seeks, Reading, Segments
<1> QED BY <1>2, <1>3, <1>4, <1>5, <1>6, <1>7, <1>8 DEF BootInv

\* What CheckFs finds.
LEMMA CheckForm ==
  ASSUME BootInv, at = "mount", ~Ended, NEW sect \in Nat, NEW fmt \in 0 .. 3, CheckFs(sect, fmt)
  PROVE  /\ card' = card /\ faults = 0 /\ faults' \in Nat
         /\ fmt # 3 => faults' = 0
         /\ fmt = 0 => sect = card.base
<1>1. faults \in Nat /\ faults = 0  BY DEF BootInv, TypeOK, FaultInv, Well
<1>2. Kind(sect) = 0 => sect = card.base  BY DEF Kind
<1>3. CASE fmt = 3 /\ Fails  BY <1>1, <1>3 DEF Fails
<1>4. CASE fmt = Kind(sect) /\ Reads  BY <1>1, <1>2, <1>4 DEF Reads
<1>5. CASE fmt = 0 /\ Kind(sect) = 0 /\ card.fat32 /\ TypeFails(1)
  BY <1>1, <1>2, <1>5 DEF TypeFails
<1>6. CASE fmt = 1 /\ Kind(sect) \in {0, 1} /\ \E n \in {1, 2} : TypeFails(n)
  BY <1>1, <1>6 DEF TypeFails
<1> QED BY <1>3, <1>4, <1>5, <1>6 DEF CheckFs

\* A mount that ends with an error.
LEMMA MountErrs ==
  ASSUME BootInv, at = "mount", Stays, UNCHANGED <<card, dj>>, fs' \in Volume, ~fs'.opened,
         faults' \in Nat, NEW res \in Results \ {"OK"}, Returns(res)
  PROVE  BootInv'
<1>1. call' \in CallType /\ call'.op = "none" /\ call'.res # "OK" /\ ~Well'  BY CallReturns
<1>2. FaultInv'  BY <1>1 DEF FaultInv
<1> QED BY <1>1, <1>2, MountStays

\* A mount that goes on.
LEMMA MountGoesOn ==
  ASSUME BootInv, at = "mount", Stays, UNCHANGED <<card, dj>>, fs' \in Volume, ~fs'.opened,
         faults' = 0, NEW op \in {"table", "partition", "parameters"}, Calls(op, 0),
         op = "parameters" => fs'.bsect = card.base
  PROVE  BootInv'
<1>1. call' \in CallType /\ call'.op = op  BY CallBegins DEF Ops
<1>2. FaultInv'  BY DEF FaultInv
<1> QED BY <1>1, <1>2, MountStays

\* The first sector is a volume, a table of partitions, or nothing.
LEMMA MountChecksKeeps == ASSUME BootInv, MountChecks, Stays PROVE BootInv'
<1>1. at = "mount" /\ ~Ended  BY Waits DEF BootInv, MountChecks, Ended
<1>2. fs' \in Volume /\ ~fs'.opened /\ fs'.bsect = 0 /\ dj' = dj  BY DEF MountChecks, NoVolume, Volume
<1>3. CASE Fails /\ Returns("NOT_READY")
  <2>1. card' = card /\ faults' \in Nat  BY <1>3 DEF Fails, BootInv, TypeOK
  <2> QED BY <1>1, <1>2, <1>3, <2>1, MountErrs DEF Results
<1>4. ASSUME NEW fmt \in 0 .. 3, CheckFs(0, fmt), IF fmt = 1 THEN Calls("table", 0) ELSE Mounts(fmt)
      PROVE  BootInv'
  <2>1. /\ card' = card /\ faults' \in Nat
        /\ fmt # 3 => faults' = 0
        /\ fmt = 0 => 0 = card.base
    BY <1>1, <1>4, CheckForm
  <2>2. CASE fmt = 1  BY <1>1, <1>2, <1>4, <2>1, <2>2, MountGoesOn
  <2>3. CASE fmt = 0
    <3>1. Calls("parameters", 0)  BY <1>4, <2>3 DEF Mounts
    <3> QED BY <1>1, <1>2, <2>1, <2>3, <3>1, MountGoesOn
  <2>4. CASE fmt \in {2, 3}
    <3>1. PICK res \in Results \ {"OK"} : Returns(res)  BY <1>4, <2>4 DEF Mounts, Results
    <3> QED BY <1>1, <1>2, <2>1, <3>1, MountErrs
  <2> QED BY <1>4, <2>2, <2>3, <2>4
<1> QED BY <1>3, <1>4 DEF MountChecks

\* The table leads to a sector, or to none.
LEMMA MountTableKeeps == ASSUME BootInv, MountTable, Stays PROVE BootInv'
<1>1. at = "mount" /\ ~Ended  BY Waits DEF BootInv, MountTable, Ended
<1>2. /\ card' = card /\ dj' = dj /\ faults = 0 /\ faults' \in Nat /\ card \in Cards
      /\ fs \in Volume /\ ~fs.opened
  BY <1>1 DEF BootInv, TypeOK, MountInv, MountTable, Reads, Fails, FaultInv, Well
<1>3. CASE Fails /\ Returns("DISK_ERR") /\ UNCHANGED fs
  BY <1>1, <1>2, <1>3, MountErrs DEF Results
<1>4. CASE Reads /\ card.first = NoPartition /\ Mounts(1) /\ UNCHANGED fs
  <2>1. Returns("NO_FILESYSTEM")  BY <1>4 DEF Mounts
  <2> QED BY <1>1, <1>2, <1>4, <2>1, MountErrs DEF Results
<1>5. CASE Reads /\ card.first # NoPartition /\ Calls("partition", 0)
           /\ fs' = [fs EXCEPT !.bsect = card.first]
  <2>1. card.first \in Nat  BY <1>2, <1>5, CardForm DEF Sized
  <2>2. fs' \in Volume /\ ~fs'.opened  BY <1>2, <1>5, <2>1 DEF Volume
  <2>3. faults' = 0  BY <1>2, <1>5 DEF Reads
  <2> QED BY <1>1, <1>2, <1>5, <2>2, <2>3, MountGoesOn
<1> QED BY <1>3, <1>4, <1>5 DEF MountTable

\* The partition is a volume or nothing.
LEMMA MountPartitionKeeps == ASSUME BootInv, MountPartition, Stays PROVE BootInv'
<1>1. at = "mount" /\ call.op = "partition" /\ ~Ended  BY Waits DEF BootInv, MountPartition, Ended
<1>2. dj' = dj /\ fs' = fs /\ fs \in Volume /\ ~fs.opened /\ fs.bsect \in Nat
  BY <1>1 DEF BootInv, TypeOK, MountInv, MountPartition, Volume
<1>3. PICK fmt \in 0 .. 3 : CheckFs(fs.bsect, fmt) /\ Mounts(fmt)  BY DEF MountPartition
<1>4. /\ card' = card /\ faults' \in Nat
      /\ fmt # 3 => faults' = 0
      /\ fmt = 0 => fs.bsect = card.base
  BY <1>1, <1>2, <1>3, CheckForm
<1>5. CASE fmt = 0
  <2>1. Calls("parameters", 0)  BY <1>3, <1>5 DEF Mounts
  <2> QED BY <1>1, <1>2, <1>4, <1>5, <2>1, MountGoesOn
<1>6. CASE fmt # 0
  <2>1. PICK res \in Results \ {"OK"} : Returns(res)  BY <1>3, <1>6 DEF Mounts, Results
  <2> QED BY <1>1, <1>2, <1>4, <2>1, MountErrs
<1> QED BY <1>5, <1>6

\* The volume is the one on the card.
LEMMA MountParametersKeeps == ASSUME BootInv, MountParameters, Stays PROVE BootInv'
<1>1. at = "mount" /\ call.op = "parameters"  BY Waits DEF BootInv, MountParameters
<1>2. /\ card' = card /\ dj' = dj /\ card \in Cards /\ fs \in Volume /\ ~fs.opened
      /\ fs.bsect = card.base /\ faults = 0 /\ faults' \in Nat
  BY <1>1 DEF BootInv, TypeOK, MountInv, MountParameters, Reads, Fails, FaultInv, Well, Ended
<1>3. CASE Fails /\ Returns("DISK_ERR") /\ UNCHANGED fs
  <2>1. call' \in CallType /\ call'.op = "none" /\ call'.res # "OK" /\ ~Well'
    BY <1>3, CallReturns DEF Results
  <2>2. FaultInv'  BY <2>1 DEF FaultInv
  <2> QED BY <1>1, <1>2, <1>3, <2>1, <2>2, MountStays
<1>4. ASSUME Reads, Returns("OK"),
             fs' = [fs EXCEPT !.csize = card.csize, !.fatent = FatEnd(card),
                         !.dirbase = IF card.fat32 THEN card.rootclust ELSE card.base + card.rsvd + card.fatsz,
                         !.database = DataStart(card)]
      PROVE  BootInv'
  <2>1. call' \in CallType /\ call'.op = "none"  BY <1>4, CallReturns DEF Results
  <2>2. FaultInv'  BY <1>2, <1>4 DEF FaultInv, Reads
  <2>3. card.fat32 => card.rootclust \in Nat  BY <1>2, CardForm DEF Sized
  <2>4. PICK d \in Nat : d = IF card.fat32 THEN card.rootclust ELSE card.base + card.rsvd + card.fatsz
    BY <1>2, <2>3, CardForm
  <2>5. fs' \in Volume /\ ~fs'.opened
    <3>1. card.csize \in Nat \ {0} /\ FatEnd(card) \in Int /\ DataStart(card) \in Nat  BY <1>2, CardForm
    <3> QED BY <1>2, <1>4, <2>4, <3>1 DEF Volume
  <2>6. OnCard'  BY <1>2, <1>4 DEF OnCard, Volume, FatEnd, DataStart
  <2> QED BY <1>1, <1>2, <2>1, <2>2, <2>5, <2>6, MountStays
<1>5. CASE Fails /\ Returns("DISK_ERR") /\ UNCHANGED fs  BY <1>3, <1>5
<1>6. CASE Reads /\ Returns("OK") /\ ~(Fails /\ Returns("DISK_ERR") /\ UNCHANGED fs)
  BY <1>1, <1>2, <1>4, <1>6 DEF MountParameters, FatEnd, DataStart
<1> QED BY <1>5, <1>6 DEF MountParameters

-----------------------------------------------------------------------------
(* pf_open.                                                                *)

\* A volume on the card has the card's clusters and sectors.
LEMMA VolumeSectors ==
  ASSUME card \in Cards, OnCard
  PROVE  /\ Clusters = ClustersOf(card) /\ CU = PerCluster
         /\ \A c \in ClustersOf(card) :
              /\ FirstSector(c) = SectorOf(card, c, 0)
              /\ GetFat(c) = card.fat[c] /\ card.fat[c] \in Nat
              /\ \A i \in Nat : SectorOf(card, c, i) \in Int
              /\ \A p : SectorAt(p, c) = SectorOf(card, c, (p \div SU) % card.csize)
         /\ \A c : c \notin ClustersOf(card) => GetFat(c) = 1
<1>1. Clusters = ClustersOf(card) /\ CU = PerCluster
  BY DEF OnCard, Clusters, ClustersOf, CU, PerCluster
<1>2. ASSUME NEW c \in ClustersOf(card)
      PROVE  /\ FirstSector(c) = SectorOf(card, c, 0)
             /\ GetFat(c) = card.fat[c] /\ card.fat[c] \in Nat
             /\ \A i \in Nat : SectorOf(card, c, i) \in Int
             /\ \A p : SectorAt(p, c) = SectorOf(card, c, (p \div SU) % card.csize)
  <2>1. c \in Nat /\ card.csize \in Nat \ {0} /\ DataStart(card) \in Nat  BY CardForm
  <2>2. (c - 2) * card.csize \in Int  BY <2>1
  <2>3. FirstSector(c) = (c - 2) * card.csize + DataStart(card)  BY <1>1 DEF FirstSector, OnCard
  <2>4. FirstSector(c) = SectorOf(card, c, 0)  BY <2>1, <2>2, <2>3 DEF SectorOf
  <2>5. \A i \in Nat : SectorOf(card, c, i) \in Int  BY <2>1, <2>2 DEF SectorOf
  <2>6. \A p : SectorAt(p, c) = SectorOf(card, c, (p \div SU) % card.csize)
    BY <2>3 DEF SectorAt, SectorOf, OnCard
  <2>7. card.fat[c] \in Nat  BY CardForm DEF Sized
  <2> QED BY <1>1, <2>4, <2>5, <2>6, <2>7 DEF GetFat
<1> QED BY <1>1, <1>2 DEF GetFat

\* The beginning.
LEMMA Zero ==
  ASSUME NEW q \in Nat \ {0}
  PROVE  0 \div q = 0 /\ 0 % q = 0
<1>1. 0 = q * 0 + 0  OBVIOUS
<1> QED BY <1>1, QuotientIs

\* While a directory is searched the rest of the invariant says little.
LEMMA OpenStays ==
  ASSUME BootInv, at' = "open", at \in {"mount", "open"}, UNCHANGED <<load, mem, card>>, OnCard',
         fs' \in Volume, dj' \in Directories, call' \in CallType, faults' \in Nat, FaultInv',
         call'.op \in {"none", "find", "follow"}, DirInv', FileInv', BuffInv',
         Ended' /\ Well' => fs'.opened
  PROVE  BootInv'
<1>1. TypeOK'  BY DEF BootInv, TypeOK
<1>2. OpInv'  BY DEF OpInv, Seeks, Reading
<1>3. MountInv'  BY DEF MountInv
<1>4. OpenInv' /\ PosInv'  BY DEF OpenInv, PosInv, Seeks, Reading
<1>5. LoadInv'  BY DEF BootInv, LoadInv, Seeks, Reading, Segments
<1> QED BY <1>1, <1>2, <1>3, <1>4, <1>5 DEF BootInv

\* The search of a directory begins in its first sector.
LEMMA FindsForm ==
  ASSUME TypeOK, OnCard, NEW seg \in 1 .. Len(Path), NEW sclust \in Nat, Finds(seg, sclust),
         sclust \in ClustersOf(card) \union {0} => DirSectors(card, sclust) \subseteq card.dirs[seg],
         card' = card, OnCard', ~fs'.opened
  PROVE  /\ dj' \in Directories /\ DirInv' /\ call' \in CallType
         /\ \/ call'.op = "find" /\ Well' /\ ~Ended'
            \/ call'.op = "none" /\ ~Well'
<1>1. CASE sclust = 1 \/ sclust >= fs.fatent
  <2>1. Returns("DISK_ERR") /\ dj' = dj  BY <1>1 DEF Finds
  <2>2. call' \in CallType /\ call'.op = "none" /\ ~Well' /\ Ended'  BY <2>1, CallReturns DEF Results
  <2> QED BY <2>1, <2>2 DEF TypeOK, DirInv
<1>2. CASE ~(sclust = 1 \/ sclust >= fs.fatent)
  <2>1. Calls("find", 0) /\ dj' = Rewound(seg, sclust)  BY <1>2 DEF Finds
  <2>2. call' \in CallType /\ call'.op = "find" /\ Well' /\ ~Ended'  BY <2>1, CallBegins DEF Ops
  <2>3. card \in Cards /\ fs \in Volume /\ fs.dirbase \in Nat  BY DEF TypeOK, Volume
  <2>4. sclust \in ClustersOf(card) \union {0}
    BY <1>2, <2>3, CardForm DEF ClustersOf, OnCard
  <2> DEFINE c == IF sclust = 0 /\ card.fat32 THEN fs.dirbase ELSE sclust
  <2>5. dj' = [seg |-> seg, index |-> 0, clust |-> c, sect |-> IF c = 0 THEN fs.dirbase ELSE FirstSector(c)]
    BY <2>1 DEF Rewound
  <2>6. 0 \div SU = 0 /\ 0 % card.csize = 0  BY <2>3, CardForm, Zero
  <2>7. Len(Path) \in Nat /\ 0 \in 0 .. Indices - 1  BY PetitAssumption
  <2>8. CASE sclust = 0 /\ ~card.fat32
    <3>1. c = 0 /\ card.nroot > 0 /\ fs'.dirbase = fs.dirbase
      BY <2>3, <2>8, CardForm DEF Sized, OnCard
    <3>2. dj' = [seg |-> seg, index |-> 0, clust |-> 0, sect |-> fs.dirbase]  BY <2>5, <3>1
    <3>3. dj' \in Directories  BY <2>3, <2>7, <3>2 DEF Directories
    <3>4. Root(card) \subseteq card.dirs[seg]  BY <2>8 DEF DirSectors
    <3>5. fs.dirbase = fs'.dirbase + 0 \div SU  BY <2>3, <2>6, <3>1
    <3>6. DirInv'  BY <2>2, <2>8, <3>1, <3>2, <3>4, <3>5 DEF DirInv
    <3> QED BY <2>2, <3>3, <3>6
  <2>9. CASE sclust # 0 \/ card.fat32
    <3>1. c \in ClustersOf(card) /\ c \in Nat \ {0} /\ SectorsOf(card, c) \subseteq card.dirs[seg]
      <4>1. CASE sclust # 0  BY <2>3, <2>4, <4>1, CardForm DEF DirSectors
      <4>2. CASE sclust = 0 /\ card.fat32
        BY <2>3, <4>2, CardForm DEF DirSectors, Root, Sized, OnCard
      <4> QED BY <2>9, <4>1, <4>2
    <3>2. FirstSector(c) = SectorOf(card, c, (0 \div SU) % card.csize) /\ FirstSector(c) \in Int
      BY <2>3, <2>6, <3>1, VolumeSectors
    <3> HIDE DEF c
    <3>3. dj' = [seg |-> seg, index |-> 0, clust |-> c, sect |-> FirstSector(c)]  BY <2>5, <3>1
    <3>4. dj' \in Directories  BY <2>7, <3>1, <3>2, <3>3 DEF Directories
    <3>5. DirInv'  BY <2>2, <3>1, <3>2, <3>3 DEF DirInv
    <3> QED BY <2>2, <3>4, <3>5
  <2> QED BY <2>8, <2>9
<1> QED BY <1>1, <1>2

\* The entry that is looked at is one of the directory.
LEMMA EntryForm ==
  ASSUME TypeOK, OnCard, DirInv, at = "open", ~Ended
  PROVE  /\ dj.sect \in card.dirs[dj.seg] /\ (dj.index % SU) + 1 \in 1 .. SU
         /\ dj.seg \in 1 .. Len(Path) /\ dj.index \in Nat /\ dj.clust \in Nat
<1>1. card \in Cards /\ dj.seg \in 1 .. Len(Path) /\ dj.index \in Nat /\ dj.clust \in Nat
  BY PetitAssumption DEF TypeOK, Directories
<1>2. SU \in Nat \ {0} /\ card.csize \in Nat \ {0} /\ card.nroot \in Nat  BY <1>1, CardForm
<1>3. dj.index \div SU \in Nat /\ dj.index % SU \in 0 .. SU - 1 /\ dj.index = SU * (dj.index \div SU) + (dj.index % SU)
  BY <1>1, <1>2, Division
<1>4. ASSUME dj.clust = 0 PROVE dj.sect \in card.dirs[dj.seg]
  <2>1. /\ ~card.fat32 /\ Root(card) \subseteq card.dirs[dj.seg]
        /\ dj.index < card.nroot /\ dj.sect = fs.dirbase + dj.index \div SU
    BY <1>4 DEF DirInv
  <2>2. card.nroot \div SU \in Nat /\ card.nroot = SU * (card.nroot \div SU)
    <3>1. card.nroot % SU = 0  BY <1>1, CardForm DEF Sized
    <3>2. card.nroot \div SU \in Nat /\ card.nroot = SU * (card.nroot \div SU) + (card.nroot % SU)
      BY <1>2, Division
    <3> QED BY <1>2, <3>1, <3>2
  <2>3. PICK k \in Nat, n \in Nat, r \in Nat :
          k = dj.index \div SU /\ n = card.nroot \div SU /\ SU * k + r = dj.index /\ card.nroot = SU * n
    BY <1>3, <2>2
  <2>4. ASSUME n <= k PROVE FALSE
    <3>1. SU * n <= SU * k  BY <1>2, <2>3, <2>4
    <3> QED BY <1>1, <1>2, <2>1, <2>3, <3>1
  <2>5. k \in 0 .. n - 1  BY <2>4
  <2>6. dj.sect = card.base + card.rsvd + card.fatsz + k  BY <2>1, <2>3 DEF OnCard
  <2>7. dj.sect \in Root(card)  BY <2>1, <2>3, <2>5, <2>6 DEF Root
  <2> QED BY <2>1, <2>7
<1>5. ASSUME dj.clust # 0 PROVE dj.sect \in card.dirs[dj.seg]
  <2>1. /\ SectorsOf(card, dj.clust) \subseteq card.dirs[dj.seg]
        /\ dj.sect = SectorOf(card, dj.clust, (dj.index \div SU) % card.csize)
    BY <1>5 DEF DirInv
  <2>2. (dj.index \div SU) % card.csize \in 0 .. card.csize - 1  BY <1>2, <1>3, Division
  <2> QED BY <2>1, <2>2 DEF SectorsOf
<1>6. (dj.index % SU) + 1 \in 1 .. SU
  <2> DEFINE r == dj.index % SU
  <2>1. r \in 0 .. SU - 1  BY <1>3
  <2> HIDE DEF r
  <2>2. r + 1 \in 1 .. SU  BY <1>2, <2>1
  <2> QED BY <2>2 DEF r
<1> QED BY <1>1, <1>4, <1>5, <1>6

\* While a directory is searched.
LEMMA Searching ==
  ASSUME BootInv, at = "open", ~Ended
  PROVE  /\ card \in Cards /\ fs \in Volume /\ dj \in Directories /\ call \in CallType
         /\ TypeOK /\ OnCard /\ DirInv /\ ~fs.opened /\ faults = 0
         /\ call.op \in {"find", "follow"}
<1>1. TypeOK /\ OnCard /\ DirInv /\ ~fs.opened  BY DEF BootInv, MountInv, DirInv
<1>2. card \in Cards /\ fs \in Volume /\ dj \in Directories /\ call \in CallType /\ faults \in Nat
  BY <1>1 DEF TypeOK
<1>3. call.op \in {"find", "follow"}  BY DEF BootInv, OpInv, Ended, Seeks, Reading
<1>4. faults = 0  BY <1>2, <1>3 DEF BootInv, FaultInv, Well, Ended
<1> QED BY <1>1, <1>2, <1>3, <1>4

\* A search that ends with an error.
LEMMA FindErrs ==
  ASSUME BootInv, at = "open", ~Ended, Stays, UNCHANGED <<card, fs, dj>>, faults' \in Nat,
         NEW res \in Results \ {"OK"}, Returns(res)
  PROVE  BootInv'
<1>1. call' \in CallType /\ call'.op = "none" /\ Ended' /\ ~Well'  BY CallReturns
<1>2. ~fs'.opened /\ fs' \in Volume /\ dj' \in Directories /\ OnCard'
  BY DEF BootInv, TypeOK, DirInv, MountInv, OnCard, FatEnd, DataStart
<1>3. FaultInv' /\ DirInv'  BY <1>1 DEF FaultInv, DirInv
<1>4. FileInv' /\ BuffInv'  BY <1>2 DEF FileInv, BuffInv
<1> QED BY <1>1, <1>2, <1>3, <1>4, OpenStays DEF Stays

\* A search that goes on.
LEMMA FindGoesOn ==
  ASSUME BootInv, at = "open", ~Ended, Stays, UNCHANGED fs, Reads, dj' \in Directories, DirInv',
         call' \in CallType, call'.op \in {"find", "follow"}
  PROVE  BootInv'
<1>1. Well' /\ ~Ended'  BY DEF Well, Ended
<1>2. /\ ~fs'.opened /\ fs' \in Volume /\ OnCard' /\ card' = card /\ faults' = faults
      /\ faults = 0
  BY Searching DEF OnCard, Reads, FatEnd, DataStart
<1>3. FaultInv'  BY <1>2 DEF FaultInv
<1>4. FileInv' /\ BuffInv'  BY <1>2 DEF FileInv, BuffInv
<1> QED BY <1>1, <1>2, <1>3, <1>4, OpenStays DEF Stays

\* The next entry of a directory is in the same sector or in the next one.
LEMMA AdvanceKeeps ==
  ASSUME BootInv, call.op = "find", Stays, UNCHANGED fs, Reads, Advance(dj.index + 1),
         dj.index + 1 < Indices
  PROVE  BootInv'
<1> DEFINE i == dj.index + 1
<1>1. /\ at = "open" /\ ~Ended /\ card' = card /\ TypeOK /\ OnCard /\ DirInv
      /\ card \in Cards /\ fs \in Volume /\ dj \in Directories /\ call \in CallType
  BY Waits DEF BootInv, TypeOK, MountInv, Reads, Ended
<1>2. /\ dj.sect \in card.dirs[dj.seg] /\ (dj.index % SU) + 1 \in 1 .. SU
      /\ dj.seg \in 1 .. Len(Path) /\ dj.index \in Nat /\ dj.clust \in Nat
  BY <1>1, EntryForm
<1>3. SU \in Nat \ {0} /\ card.csize \in Nat \ {0} /\ card.nroot \in Nat  BY <1>1, CardForm
<1>4. /\ dj.index \div SU \in Nat
      /\ i % SU = 0 => i \div SU = dj.index \div SU + 1
      /\ i % SU # 0 => i \div SU = dj.index \div SU
  BY <1>2, <1>3, Onward
<1>5. PICK k \in Nat : k = dj.index \div SU  BY <1>4
<1>6. /\ k % card.csize \in 0 .. card.csize - 1
      /\ (k + 1) % card.csize # 0 => (k + 1) % card.csize = (k % card.csize) + 1
  BY <1>3, Onward
<1>7. card.nroot % SU = 0  BY <1>1, CardForm DEF Sized
<1>8. i \in Nat /\ i \in 0 .. Indices - 1 /\ dj.sect \in Int
  BY <1>1, <1>2, PetitAssumption DEF Directories
<1>9. /\ ~fs.opened
      /\ IF dj.clust = 0
         THEN /\ ~card.fat32 /\ Root(card) \subseteq card.dirs[dj.seg]
              /\ dj.index < card.nroot /\ dj.sect = fs.dirbase + k
         ELSE /\ dj.clust \in ClustersOf(card) /\ SectorsOf(card, dj.clust) \subseteq card.dirs[dj.seg]
              /\ dj.sect = SectorOf(card, dj.clust, k % card.csize)
  BY <1>1, <1>5 DEF DirInv
<1> HIDE DEF i
<1>10. CASE i % SU # 0
  <2>1. dj' = [dj EXCEPT !.index = i] /\ call' = call  BY <1>10 DEF Advance, i
  <2>2. dj' \in Directories  BY <1>1, <1>8, <2>1 DEF Directories
  <2>3. dj' = [seg |-> dj.seg, index |-> i, clust |-> dj.clust, sect |-> dj.sect]
    BY <1>1, <2>1 DEF Directories
  <2>4. i < card.nroot \/ dj.clust # 0
    <3>1. CASE i = card.nroot  BY <1>7, <1>10, <3>1
    <3>2. CASE i # card.nroot  BY <1>2, <1>3, <1>9, <3>2 DEF i
    <3> QED BY <3>1, <3>2
  <2>5. DirInv'  BY <1>1, <1>4, <1>5, <1>9, <1>10, <2>1, <2>3, <2>4 DEF DirInv, Root, SectorsOf, SectorOf, DataStart, ClustersOf, FatEnd
  <2> QED BY <1>1, <2>1, <2>2, <2>5, FindGoesOn
<1>11. CASE i % SU = 0 /\ TableEnds(i)
  <2>1. Missing  BY <1>11 DEF Advance, i
  <2>2. PICK res \in Results \ {"OK"} : Returns(res) /\ dj' = dj  BY <2>1 DEF Missing, Results
  <2> QED BY <1>1, <2>2, FindErrs DEF Reads, BootInv, TypeOK
<1>12. CASE i % SU = 0 /\ ~TableEnds(i) /\ dj.clust # 0 /\ (i \div SU) % fs.csize = 0
  <2>1. Calls("follow", 0) /\ dj' = dj  BY <1>12 DEF Advance, i
  <2>2. call' \in CallType /\ call'.op = "follow"  BY <2>1, CallBegins DEF Ops
  <2>3. fs.csize = card.csize  BY <1>1 DEF OnCard
  <2>4. DirInv'
    <3>1. (i % SU)' = 0 /\ ((i \div SU) % card.csize)' = 0  BY <1>1, <1>12, <2>1, <2>3 DEF i
    <3>2. (dj.index + 1 < Indices)'  BY <2>1
    <3> QED BY <1>1, <1>9, <1>12, <2>1, <2>2, <1>5, <3>1, <3>2 DEF DirInv, i
  <2> QED BY <1>1, <2>1, <2>2, <2>4, FindGoesOn
<1>13. CASE i % SU = 0 /\ ~TableEnds(i) /\ ~(dj.clust # 0 /\ (i \div SU) % fs.csize = 0)
  <2>1. dj' = [dj EXCEPT !.index = i, !.sect = @ + 1] /\ call' = call
    BY <1>13 DEF Advance, i
  <2>2. dj' = [seg |-> dj.seg, index |-> i, clust |-> dj.clust, sect |-> dj.sect + 1]
    BY <1>1, <2>1 DEF Directories
  <2>3. dj' \in Directories  BY <1>1, <1>8, <2>2 DEF Directories
  <2>4. fs.csize = card.csize /\ i \div SU = k + 1 /\ fs.dirbase \in Nat  BY <1>1, <1>4, <1>5, <1>13 DEF OnCard, Volume
  <2>5. CASE dj.clust = 0
    <3>1. i < card.nroot  BY <1>3, <1>8, <1>13, <2>5 DEF TableEnds
    <3>2. dj.sect + 1 = fs.dirbase + (k + 1)  BY <1>9, <2>4, <2>5
    <3>3. DirInv'  BY <1>1, <1>9, <2>1, <2>2, <2>4, <2>5, <3>1, <3>2 DEF DirInv
    <3> QED BY <1>1, <2>1, <2>3, <3>3, FindGoesOn
  <2>6. CASE dj.clust # 0
    <3>1. (k + 1) % card.csize = (k % card.csize) + 1  BY <1>6, <1>13, <2>4, <2>6
    <3>2. dj.clust \in ClustersOf(card) /\ dj.sect = SectorOf(card, dj.clust, k % card.csize)  BY <1>9, <2>6
    <3>3. dj.sect + 1 = SectorOf(card, dj.clust, (k % card.csize) + 1)
      <4>1. DataStart(card) \in Nat /\ (dj.clust - 2) * card.csize \in Int  BY <1>1, <1>2, <1>3, CardForm
      <4> QED BY <1>6, <3>2, <4>1 DEF SectorOf
    <3>4. DirInv'  BY <1>1, <1>9, <2>1, <2>2, <2>4, <2>6, <3>1, <3>3 DEF DirInv
    <3> QED BY <1>1, <2>1, <2>3, <3>4, FindGoesOn
  <2> QED BY <2>5, <2>6
<1> QED BY <1>10, <1>11, <1>12, <1>13

\* The index goes on, or has no further value.
LEMMA NextEntryKeeps ==
  ASSUME BootInv, call.op = "find", Stays, UNCHANGED fs, Reads, NextEntry
  PROVE  BootInv'
<1> DEFINE i == (dj.index + 1) % Indices
<1>1. /\ at = "open" /\ ~Ended /\ card' = card /\ TypeOK /\ dj \in Directories /\ faults' \in Nat
  BY Waits DEF BootInv, TypeOK, Reads, Ended
<1>2. CASE i = 0
  <2>1. Missing  BY <1>2 DEF NextEntry
  <2>2. PICK res \in Results \ {"OK"} : Returns(res) /\ dj' = dj  BY <2>1 DEF Missing, Results
  <2> QED BY <1>1, <2>2, FindErrs
<1>3. CASE i # 0
  <2>1. dj.index + 1 \in 1 .. Indices  BY <1>1, PetitAssumption DEF Directories
  <2>2. i = dj.index + 1 /\ dj.index + 1 < Indices
    <3>1. PICK n \in 1 .. Indices : n = dj.index + 1  BY <2>1
    <3>2. Indices \in Nat \ {0}  BY PetitAssumption
    <3>3. CASE n = Indices
      <4>1. n = Indices * 1 + 0 /\ 0 \in 0 .. Indices - 1  BY <3>2, <3>3
      <4>2. n % Indices = 0  BY <3>1, <3>2, <4>1, QuotientIs
      <4> QED BY <1>3, <3>1, <4>2
    <3>4. CASE n # Indices
      <4>1. n = Indices * 0 + n /\ n \in 0 .. Indices - 1  BY <3>1, <3>2, <3>4
      <4>2. n % Indices = n  BY <3>1, <3>2, <4>1, QuotientIs
      <4>3. n < Indices  BY <3>2, <4>1
      <4> QED BY <3>1, <4>2, <4>3
    <3> QED BY <3>3, <3>4
  <2> HIDE DEF i
  <2>3. Advance(dj.index + 1)  BY <1>3, <2>2 DEF NextEntry, i
  <2> QED BY <2>2, <2>3, AdvanceKeeps
<1> QED BY <1>2, <1>3

\* The file is open, and its pointer at its beginning.
LEMMA FileOpened ==
  ASSUME BootInv, at = "open", ~Ended, Stays, UNCHANGED dj, Reads, Returns("OK"), NEW e,
         e.size = card.size, e.clust = IF card.chain = << >> THEN 0 ELSE card.chain[1],
         fs' = [fs EXCEPT !.opened = TRUE, !.fptr = 0, !.org = e.clust, !.fsize = e.size]
  PROVE  BootInv'
<1>1. call' \in CallType /\ call'.op = "none" /\ call'.buff = << >> /\ Ended' /\ Well'
  BY CallReturns DEF Results
<1>2. card \in Cards /\ card' = card /\ fs \in Volume /\ OnCard /\ call.op \in {"find", "follow"}
  BY Searching DEF Reads
<1>3. e.size \in Nat /\ e.clust \in Nat
  <2>1. card.chain \in Seq(ClustersOf(card))  BY <1>2, CardForm
  <2>2. card.chain # << >> => card.chain[1] \in ClustersOf(card)
    <3> DEFINE C == ClustersOf(card)
    <3> DEFINE ch == card.chain
    <3>1. ch \in Seq(C)  BY <2>1
    <3> HIDE DEF C, ch
    <3>2. ch # << >> => ch[1] \in C  BY <3>1
    <3> QED BY <3>2 DEF C, ch
  <2>3. card.size \in Nat /\ ClustersOf(card) \subseteq Nat  BY <1>2, CardForm
  <2> QED BY <2>2, <2>3
<1>4. /\ fs' \in Volume /\ fs'.opened /\ fs'.fptr = 0 /\ fs'.fsize = card.size
      /\ fs'.org = IF card.chain = << >> THEN 0 ELSE card.chain[1]
  BY <1>2, <1>3 DEF Volume
<1>5. OnCard'  BY <1>2 DEF OnCard, Volume, FatEnd, DataStart
<1>6. faults' = faults /\ faults = 0  BY Searching DEF Reads
<1>7. FaultInv' /\ DirInv'  BY <1>1, <1>6 DEF FaultInv, DirInv
<1>11. card.size \in Nat  BY <1>2, CardForm
<1>8. FileInv'  BY <1>1, <1>2, <1>4, <1>5, <1>11 DEF FileInv, SeekInv, ReadInv, Stands
<1>9. BuffInv'  BY <1>1, <1>4 DEF BuffInv
<1>10. dj' \in Directories /\ faults' \in Nat  BY <1>6 DEF BootInv, TypeOK
<1> QED BY <1>1, <1>2, <1>4, <1>5, <1>7, <1>8, <1>9, <1>10, OpenStays DEF Stays

\* An entry with the name leads to the next directory, or is the file.
LEMMA FoundKeeps ==
  ASSUME BootInv, at = "open", ~Ended, Stays, Reads, NEW e, Found(e),
         e.clust \in Nat, Leads(card, dj.seg, e)
  PROVE  BootInv'
<1>1. /\ card' = card /\ TypeOK /\ OnCard /\ card \in Cards /\ fs \in Volume /\ ~fs.opened
      /\ faults' = faults /\ faults = 0
      /\ dj \in Directories /\ dj.seg \in 1 .. Len(Path) /\ Len(Path) \in Nat
  BY Searching, PetitAssumption DEF Reads, Directories
<1>2. CASE dj.seg < Len(Path) /\ e.dir
  <2>1. Finds(dj.seg + 1, e.clust) /\ fs' = fs  BY <1>2 DEF Found
  <2>2. dj.seg + 1 \in 1 .. Len(Path)  BY <1>1, <1>2
  <2>3. e.clust \in ClustersOf(card) \union {0} => DirSectors(card, e.clust) \subseteq card.dirs[dj.seg + 1]
    BY <1>2 DEF Leads
  <2>4. OnCard' /\ at' = "open"  BY <1>1, <2>1 DEF OnCard, FatEnd, DataStart, Stays
  <2>5. /\ dj' \in Directories /\ DirInv' /\ call' \in CallType
        /\ \/ call'.op = "find" /\ Well' /\ ~Ended'
           \/ call'.op = "none" /\ ~Well'
    BY <1>1, <2>1, <2>2, <2>3, <2>4, FindsForm
  <2>6. FaultInv' /\ fs' \in Volume  BY <1>1, <2>1, <2>4 DEF FaultInv
  <2>7. FileInv' /\ BuffInv'  BY <1>1, <2>1 DEF FileInv, BuffInv
  <2> QED BY <1>1, <2>4, <2>5, <2>6, <2>7, OpenStays DEF Stays, Ended
<1>3. CASE dj.seg < Len(Path) /\ ~e.dir
  BY <1>1, <1>3, FindErrs DEF Found, Results
<1>4. CASE dj.seg = Len(Path) /\ e.dir
  BY <1>1, <1>4, FindErrs DEF Found, Results
<1>5. CASE dj.seg = Len(Path) /\ ~e.dir
  <2>1. e.size = card.size /\ e.clust = IF card.chain = << >> THEN 0 ELSE card.chain[1]
    BY <1>1, <1>5 DEF Leads
  <2>2. Returns("OK") /\ dj' = dj /\ fs' = [fs EXCEPT !.opened = TRUE, !.fptr = 0, !.org = e.clust, !.fsize = e.size]
    BY <1>1, <1>5 DEF Found
  <2> QED BY <2>1, <2>2, FileOpened
<1> QED BY <1>1, <1>2, <1>3, <1>4, <1>5

\* An entry is looked at.
LEMMA FindEntryKeeps == ASSUME BootInv, FindEntry, Stays PROVE BootInv'
<1> DEFINE e == card.units[dj.sect][(dj.index % SU) + 1]
<1>1. at = "open" /\ ~Ended /\ card \in Cards /\ TypeOK /\ OnCard /\ DirInv /\ faults \in Nat
  BY Waits DEF BootInv, TypeOK, MountInv, FindEntry, Ended
<1>2. dj.sect \in card.dirs[dj.seg] /\ (dj.index % SU) + 1 \in 1 .. SU /\ dj.seg \in 1 .. Len(Path)
  BY <1>1, EntryForm
<1>3. e.name = Path[dj.seg] /\ ~e.volume => e.clust \in Nat /\ Leads(card, dj.seg, e)
  BY <1>1, <1>2, CardForm DEF PathStored
<1> HIDE DEF e
<1>4. CASE Fails /\ Returns("DISK_ERR") /\ UNCHANGED <<fs, dj>>
  BY <1>1, <1>4, FindErrs DEF Fails, Results
<1>5. CASE Reads /\ e.name = "end" /\ Missing /\ UNCHANGED fs
  <2>1. PICK res \in Results \ {"OK"} : Returns(res) /\ dj' = dj  BY <1>5 DEF Missing, Results
  <2> QED BY <1>1, <1>5, <2>1, FindErrs DEF Reads
<1>6. CASE Reads /\ e.name = Path[dj.seg] /\ ~e.volume /\ Found(e)
  BY <1>1, <1>3, <1>6, FoundKeeps
<1>7. CASE Reads /\ NextEntry /\ UNCHANGED fs
  BY <1>7, NextEntryKeeps DEF FindEntry
<1> QED BY <1>4, <1>5, <1>6, <1>7 DEF FindEntry, e

\* A directory goes on in the next cluster of its chain.
LEMMA FindClusterKeeps == ASSUME BootInv, FindCluster, Stays PROVE BootInv'
<1> DEFINE c == GetFat(dj.clust)
<1>1. /\ at = "open" /\ ~Ended /\ card \in Cards /\ TypeOK /\ OnCard /\ DirInv /\ faults \in Nat
      /\ fs' = fs /\ dj \in Directories /\ fs.fatent = FatEnd(card) /\ call.op = "follow"
  BY Waits DEF BootInv, TypeOK, MountInv, FindCluster, Ended, OnCard
<1>2. dj.seg \in 1 .. Len(Path) /\ dj.index \in Nat /\ dj.clust \in Nat  BY <1>1, EntryForm
<1>3. /\ ~fs.opened /\ dj.clust \in ClustersOf(card) /\ SectorsOf(card, dj.clust) \subseteq card.dirs[dj.seg]
      /\ (dj.index + 1) % SU = 0 /\ ((dj.index + 1) \div SU) % card.csize = 0
      /\ dj.index + 1 < Indices
  BY <1>1 DEF DirInv
<1>4. c = card.fat[dj.clust] /\ c \in Nat  BY <1>1, <1>3, VolumeSectors
<1> HIDE DEF c
<1>5. CASE Fails /\ Returns("DISK_ERR") /\ UNCHANGED dj
  BY <1>1, <1>5, FindErrs DEF Fails, Results
<1>6. CASE Reads /\ c <= 1 /\ Returns("DISK_ERR") /\ UNCHANGED dj
  BY <1>1, <1>6, FindErrs DEF Reads, Results
<1>7. CASE Reads /\ Missing
  <2>1. PICK res \in Results \ {"OK"} : Returns(res) /\ dj' = dj  BY <1>7 DEF Missing, Results
  <2> QED BY <1>1, <1>7, <2>1, FindErrs DEF Reads
<1>8. CASE /\ Reads /\ ~(c <= 1) /\ ~(c >= fs.fatent) /\ Calls("find", 0)
           /\ dj' = [dj EXCEPT !.index = @ + 1, !.clust = c, !.sect = FirstSector(c)]
  <2>8. FatEnd(card) \in Int  BY <1>1, CardForm
  <2>1. c \in ClustersOf(card) /\ c # 0  BY <1>1, <1>4, <1>8, <2>8 DEF ClustersOf
  <2>2. SectorsOf(card, c) \subseteq card.dirs[dj.seg]
    BY <1>1, <1>2, <1>3, <1>4, <2>1, CardForm DEF PathStored
  <2>3. FirstSector(c) = SectorOf(card, c, ((dj.index + 1) \div SU) % card.csize) /\ FirstSector(c) \in Int
    BY <1>1, <1>3, <2>1, VolumeSectors
  <2>4. dj' = [seg |-> dj.seg, index |-> dj.index + 1, clust |-> c, sect |-> FirstSector(c)]
    BY <1>1, <1>8 DEF Directories
  <2>5. dj' \in Directories  BY <1>2, <1>3, <1>4, <2>3, <2>4, PetitAssumption DEF Directories
  <2>6. call' \in CallType /\ call'.op = "find"  BY <1>8, CallBegins DEF Ops
  <2>7. DirInv'
    BY <1>1, <1>3, <1>8, <2>1, <2>2, <2>3, <2>4, <2>6 DEF DirInv, Reads
  <2> QED BY <1>1, <1>8, <2>5, <2>6, <2>7, FindGoesOn
<1> QED BY <1>5, <1>6, <1>7, <1>8 DEF FindCluster, c

-----------------------------------------------------------------------------
(* pf_lseek.                                                               *)

\* While a function works on the file.
LEMMA Working ==
  ASSUME BootInv, call.op \in {"seek", "read"}
  PROVE  /\ card \in Cards /\ fs \in Volume /\ call \in CallType /\ TypeOK /\ OnCard
         /\ at \in Seeks \union Reading /\ fs.opened /\ faults = 0 /\ ~Ended /\ Well
         /\ fs.fsize = card.size /\ fs.fptr \in 0 .. card.size /\ card.size \in Nat
         /\ fs.org = IF card.chain = << >> THEN 0 ELSE card.chain[1]
<1>1. TypeOK /\ at \in Seeks \union Reading /\ ~Ended /\ Well
  BY Waits DEF BootInv, Ended, Well
<1>2. card \in Cards /\ fs \in Volume /\ call \in CallType /\ faults \in Nat /\ fs.fptr \in Nat
  BY <1>1 DEF TypeOK, Volume
<1>3. fs.opened  BY <1>1 DEF BootInv, OpenInv, Seeks, Reading
<1>4. faults = 0  BY <1>1, <1>2 DEF BootInv, FaultInv, Seeks, Reading
<1>5. card.size \in Nat  BY <1>2, CardForm
<1> QED BY <1>1, <1>2, <1>3, <1>4, <1>5 DEF BootInv, FileInv

\* While a function works on the file nothing is loaded.
LEMMA FileStays ==
  ASSUME BootInv, at \in Seeks \union Reading, Stays, UNCHANGED <<card, dj>>,
         fs' \in Volume, call' \in CallType, faults' \in Nat, call'.op \in {"none", call.op},
         OnCard', FaultInv', FileInv', BuffInv', PosInv', Well' => fs'.opened
  PROVE  BootInv'
<1>1. at' = at /\ at # "mount" /\ at # "open" /\ at # "failed" /\ at # "run"
  BY DEF Stays, Seeks, Reading
<1>2. TypeOK'  BY DEF BootInv, TypeOK, Stays
<1>3. OpInv'  BY <1>1 DEF BootInv, OpInv, Seeks, Reading
<1>4. MountInv' /\ DirInv' /\ OpenInv'  BY <1>1 DEF MountInv, DirInv, OpenInv
<1>5. card' = card /\ load' = load /\ mem' = mem  BY DEF Stays
<1>6. LoadInv'
  <2>1. LoadInv  BY DEF BootInv
  <2> QED BY <1>1, <1>5, <2>1 DEF LoadInv, HeaderOf, InMemoryTo, InMemory, Headers, Loaded
<1> QED BY <1>2, <1>3, <1>4, <1>6 DEF BootInv

\* After an error the file is closed.
LEMMA AbortKeeps ==
  ASSUME BootInv, call.op \in {"seek", "read"}, Stays, UNCHANGED <<card, dj>>, faults' \in Nat, Aborts
  PROVE  BootInv'
<1>1. fs \in Volume /\ OnCard /\ at \in Seeks \union Reading  BY Working
<1>2. fs' \in Volume /\ ~fs'.opened  BY <1>1 DEF Aborts, Volume
<1>3. OnCard'  BY <1>1 DEF OnCard, Aborts, Volume, FatEnd, DataStart
<1>4. call' \in CallType /\ call'.op = "none" /\ ~Well'  BY CallReturns DEF Aborts, Results
<1>5. FaultInv' /\ FileInv' /\ BuffInv' /\ PosInv'
  BY <1>2, <1>4 DEF FaultInv, FileInv, BuffInv, PosInv
<1> QED BY <1>1, <1>2, <1>3, <1>4, <1>5, FileStays

\* The FAT leads from a cluster of the file to the next one, if the file goes on.
LEMMA ChainGoesOn ==
  ASSUME card \in Cards, OnCard, NEW u \in Nat, InCluster(u), GetFat(fs.curr) \in Clusters,
         PerCluster * Index(u) < card.size
  PROVE  Index(u) + 1 \in DOMAIN card.chain /\ GetFat(fs.curr) = card.chain[Index(u) + 1]
<1> DEFINE i == Index(u)
<1> DEFINE ch == card.chain
<1> DEFINE C == ClustersOf(card)
<1>1. ch \in Seq(C)  BY CardForm
<1>2. i \in DOMAIN ch /\ fs.curr = ch[i]  BY DEF InCluster
<1>3. IF i < Len(ch) THEN card.fat[ch[i]] = ch[i + 1] ELSE card.fat[ch[i]] \notin C
  <2> DEFINE m == card.csize * SU
  <2>1. IF i < Len(ch) THEN card.fat[ch[i]] = ch[i + 1]
        ELSE card.size <= i * m \/ card.fat[ch[i]] \notin C
    BY <1>2, CardForm DEF FileStored
  <2>2. m = PerCluster /\ i = Index(u)  BY DEF PerCluster
  <2>3. i \in Nat
    <3> HIDE DEF i, ch, C
    <3> QED BY <1>1, <1>2
  <2> HIDE DEF i, m
  <2>4. m \in Nat /\ card.size \in Nat  BY <2>2, CardForm
  <2>5. m * i < card.size  BY <2>2
  <2>6. ~(card.size <= i * m)
    <3>1. i * m = m * i /\ m * i \in Nat  BY <2>3, <2>4
    <3> QED BY <2>4, <2>5, <3>1
  <2> QED BY <2>1, <2>6
<1>6. Clusters = C  BY VolumeSectors
<1>7. ch[i] \in C
  <2> HIDE DEF i, ch, C
  <2> QED BY <1>1, <1>2
<1>4. GetFat(fs.curr) = card.fat[ch[i]]  BY <1>2, <1>7, VolumeSectors
<1>5. i < Len(ch)  BY <1>3, <1>4, <1>6
<1> HIDE DEF i, ch
<1> QED
  <2>1. i + 1 \in DOMAIN ch
    <3> HIDE DEF C
    <3> QED BY <1>1, <1>2, <1>5
  <2>2. GetFat(fs.curr) = ch[i + 1]  BY <1>3, <1>4, <1>5
  <2> QED BY <2>1, <2>2 DEF i, ch

\* A cluster is passed.
LEMMA SeekFollowsKeeps == ASSUME BootInv, SeekFollows, Stays PROVE BootInv'
<1> DEFINE c == GetFat(fs.curr)
<1>1. /\ call.op = "seek" /\ call.left > CU /\ dj' = dj /\ at \in Seeks
      /\ card' = card /\ faults' \in Nat /\ call.left \in Nat
      /\ call \in [op : Ops, left : Nat, linked : BOOLEAN, buff : Seq(Nat)]
  BY Waits, Working, CallForm DEF SeekFollows, BootInv, Reads, Fails
<1>2. /\ card \in Cards /\ fs \in Volume /\ OnCard /\ fs.opened /\ faults = 0 /\ Well /\ ~Ended
      /\ fs.fsize = card.size /\ fs.fptr \in 0 .. card.size /\ card.size \in Nat
  BY <1>1, Working
<1>3. CASE Aborts  BY <1>1, <1>3, AbortKeeps
<1>4. CASE /\ Reads /\ c \in Clusters
           /\ fs' = [fs EXCEPT !.curr = c, !.fptr = @ + CU]
           /\ call' = [call EXCEPT !.left = @ - CU]
  <2>1. /\ fs.fptr % PerCluster = 0
        /\ IF card.chain = << >> THEN fs.curr = 0 ELSE InCluster(fs.fptr)
    BY <1>1, <1>2 DEF BootInv, FileInv, SeekInv
  <2>2. CU = PerCluster /\ PerCluster \in Nat \ {0} /\ Clusters = ClustersOf(card) /\ ClustersOf(card) \subseteq Nat \ {0, 1}
    BY <1>2, VolumeSectors, CardForm
  <2>3. card.chain # << >>
    <3>1. ASSUME fs.curr = 0 PROVE c = 1  BY <1>2, <2>2, <3>1, VolumeSectors
    <3> QED BY <1>4, <2>1, <2>2, <3>1
  <2>4. fs.fptr + PerCluster \in Nat /\ (fs.fptr + PerCluster) % PerCluster = 0
        /\ Index(fs.fptr + PerCluster) = Index(fs.fptr) + 1
    <3>1. fs.fptr \in Nat  BY <1>2
    <3>2. fs.fptr + PerCluster \in Nat  BY <2>2, <3>1
    <3> QED BY <1>2, <2>1, <3>1, <3>2, ClusterPlaces
  <2>5. Index(fs.fptr) + 1 \in DOMAIN card.chain /\ c = card.chain[Index(fs.fptr) + 1]
    <3>1. fs.fptr + call.left <= card.size
      <4>1. fs.fptr + call.left = Start
        BY <1>1, <1>2 DEF BootInv, PosInv, Missed
      <4>2. Start = card.size \/ (Start = Target /\ Target < card.size)  BY DEF Start, LesserOf
      <4>3. fs.fptr \in Nat /\ call.left \in Nat  BY <1>1, <1>2
      <4> QED BY <1>2, <4>1, <4>2, <4>3
    <3>2. PerCluster * Index(fs.fptr) = fs.fptr + PerCluster  BY <1>2, <2>1, ClusterEnds
    <3>3. PerCluster * Index(fs.fptr) < card.size  BY <1>1, <1>2, <2>2, <3>1, <3>2
    <3> QED BY <1>2, <1>4, <2>1, <2>3, <3>3, ChainGoesOn
  <2> HIDE DEF c
  <2>6. c \in Nat  BY <1>4, <2>2
  <2>7. /\ fs' \in Volume /\ fs'.opened /\ fs'.curr = c /\ fs'.fptr = fs.fptr + PerCluster
        /\ fs'.fsize = fs.fsize /\ fs'.org = fs.org
    <3> DEFINE n == fs.fptr + PerCluster
    <3>1. fs' = [fs EXCEPT !.curr = c, !.fptr = n] /\ n \in Nat  BY <1>4, <2>2, <2>4
    <3> HIDE DEF n
    <3>2. /\ fs' \in Volume /\ fs'.opened /\ fs'.curr = c /\ fs'.fptr = n
          /\ fs'.fsize = fs.fsize /\ fs'.org = fs.org
      BY <1>2, <2>6, <3>1 DEF Volume
    <3> QED BY <3>2 DEF n
  <2>8. OnCard'  BY <1>1, <1>2, <1>4 DEF OnCard, Volume, FatEnd, DataStart
  <2>9. call'.op = "seek" /\ call'.left = call.left - PerCluster /\ call'.left \in Nat \ {0}
    BY <1>1, <1>4, <2>2
  <2>10. call' \in CallType  BY <1>1, <1>4, <2>9 DEF CallType
  <2>11. ~Ended' /\ Well'  BY <2>9 DEF Ended, Well
  <2>12. faults' = 0  BY <1>2, <1>4 DEF Reads
  <2>13. Start \in Nat /\ fs.fptr + call.left = Start /\ Start <= card.size /\ Start' = Start
    <3>1. fs.fptr + call.left = Start
      BY <1>1, <1>2 DEF BootInv, PosInv, Missed
    <3>2. Target' = Target  BY DEF Target, Stays
    <3>3. Start' = Start  BY <1>1, <3>2 DEF Start
    <3>4. Start <= card.size
      <4>1. fs.fptr \in Nat /\ call.left \in Nat  BY <1>1, <1>2
      <4>2. Start = card.size \/ (Start = Target /\ Target < card.size)  BY DEF Start, LesserOf
      <4> QED BY <1>2, <4>1, <4>2, <3>1
    <3> QED BY <1>1, <1>2, <3>1, <3>3, <3>4
  <2>14. PosInv'
    <3>1. fs'.fptr + Missed' = Start'  BY <1>1, <1>2, <2>2, <2>7, <2>9, <2>11, <2>13 DEF Missed
    <3> QED BY <1>1, <3>1 DEF PosInv, Stays, Seeks, Reading
  <2>15. fs'.fptr <= card'.size  BY <1>1, <1>2, <2>2, <2>7, <2>9, <2>13
  <2>16. SeekInv'
    <3>2. (fs.fptr % PerCluster = 0)'  BY <1>1, <2>4, <2>7 DEF PerCluster
    <3>3. InCluster(fs.fptr)'  BY <1>1, <2>4, <2>5, <2>7 DEF InCluster, Index, PerCluster
    <3> QED BY <1>1, <2>3, <2>9, <3>2, <3>3 DEF SeekInv
  <2>17. FileInv'
    BY <1>1, <1>2, <2>7, <2>8, <2>9, <2>11, <2>15, <2>16, Working DEF FileInv, ReadInv
  <2>18. BuffInv' /\ FaultInv'  BY <2>9, <2>12 DEF BuffInv, FaultInv
  <2> QED BY <1>1, <2>7, <2>8, <2>9, <2>10, <2>12, <2>14, <2>17, <2>18, FileStays
<1> QED BY <1>3, <1>4 DEF SeekFollows, c

\* What the loader wants does not change while it waits.
LEMMA StartStays ==
  ASSUME Stays, card' = card
  PROVE  Target' = Target /\ Start' = Start /\ Wanted' = Wanted
BY DEF Stays, Target, Start, Wanted, LoadByte

\* The sector of the place is known.
LEMMA SeekEndsKeeps == ASSUME BootInv, SeekEnds, Stays PROVE BootInv'
<1> DEFINE p == fs.fptr + call.left
<1>1. /\ call.op = "seek" /\ call.left <= CU /\ dj' = dj /\ at \in Seeks
      /\ card' = card /\ faults' \in Nat /\ faults' = faults /\ call.left \in Nat
  BY Waits, Working, CallForm DEF SeekEnds, BootInv, TypeOK
<1>2. /\ card \in Cards /\ fs \in Volume /\ OnCard /\ fs.opened /\ faults = 0 /\ Well /\ ~Ended
      /\ fs.fsize = card.size /\ fs.fptr \in 0 .. card.size /\ card.size \in Nat
      /\ fs.org = IF card.chain = << >> THEN 0 ELSE card.chain[1]
  BY <1>1, Working
<1>3. CASE Aborts  BY <1>1, <1>3, AbortKeeps
<1>4. CASE /\ fs.curr \in Clusters /\ Returns("OK")
           /\ fs' = [fs EXCEPT !.fptr = p, !.dsect = SectorAt(p, fs.curr)]
  <2>1. /\ fs.fptr % PerCluster = 0 /\ call.left > 0
        /\ IF card.chain = << >> THEN fs.curr = 0 ELSE InCluster(fs.fptr)
    BY <1>1, <1>2 DEF BootInv, FileInv, SeekInv
  <2>2. CU = PerCluster /\ PerCluster \in Nat \ {0} /\ Clusters = ClustersOf(card) /\ ClustersOf(card) \subseteq Nat \ {0, 1}
    BY <1>2, VolumeSectors, CardForm
  <2>3. InCluster(fs.fptr)  BY <1>4, <2>1, <2>2
  <2>4. Index(fs.fptr + (call.left - 1)) = Index(fs.fptr)
    <3>1. fs.fptr \in Nat /\ call.left - 1 \in 0 .. PerCluster - 1  BY <1>1, <1>2, <2>1, <2>2
    <3> QED BY <1>2, <2>1, <3>1, ClusterPlaces
  <2>5. p \in Nat /\ p > 0 /\ p - 1 = fs.fptr + (call.left - 1)  BY <1>1, <1>2, <2>1
  <2>6. InCluster(p - 1)  BY <2>3, <2>4, <2>5 DEF InCluster
  <2>7. p = Start
    <3>1. fs.fptr + Missed = Start  BY <1>1, <1>2 DEF BootInv, PosInv
    <3> QED BY <1>2, <3>1 DEF Missed
  <2>8. SectorAt(p, fs.curr) \in Int
    <3>1. (p \div SU) % card.csize \in Nat
      <4>1. SU \in Nat \ {0} /\ card.csize \in Nat \ {0}  BY <1>2, CardForm
      <4>2. PICK k \in Nat : k = p \div SU  BY <2>5, <4>1, Division
      <4>3. k % card.csize \in 0 .. card.csize - 1  BY <4>1, Division
      <4> QED BY <4>1, <4>2, <4>3
    <3> QED BY <1>2, <1>4, <2>2, <3>1, VolumeSectors
  <2>9. PICK s \in Int : s = SectorAt(p, fs.curr)  BY <2>8
  <2>10. p <= card.size
    <3>1. Start = card.size \/ (Start = Target /\ Target < card.size)  BY DEF Start, LesserOf
    <3> QED BY <1>2, <2>5, <2>7, <3>1
  <2> HIDE DEF p
  <2>11. /\ fs' \in Volume /\ fs'.opened /\ fs'.curr = fs.curr /\ fs'.fptr = p /\ fs'.dsect = s
         /\ fs'.fsize = fs.fsize /\ fs'.org = fs.org
    BY <1>2, <1>4, <2>5, <2>9 DEF Volume
  <2>12. OnCard'  BY <1>1, <1>2, <1>4 DEF OnCard, Volume, FatEnd, DataStart
  <2>13. call' \in CallType /\ call'.op = "none" /\ call'.buff = << >> /\ Ended' /\ Well'
    BY <1>4, CallReturns DEF Results
  <2>14. PosInv'
    <3>1. Start' = Start  BY <1>1, StartStays
    <3>2. fs'.fptr + Missed' = Start'  BY <2>5, <2>7, <2>11, <2>13, <3>1 DEF Missed
    <3> QED BY <1>1, <3>2 DEF PosInv, Stays, Seeks, Reading
  <2>15. Stands'
    <3>1. (InCluster(fs.fptr - 1))'  BY <1>1, <2>6, <2>11 DEF InCluster, Index, PerCluster
    <3>2. SectorAt(fs.fptr, fs.curr)' = SectorAt(p, fs.curr)
      <4>1. fs'.csize = fs.csize /\ fs'.database = fs.database /\ fs'.fatent = fs.fatent
        BY <1>2, <1>4 DEF Volume
      <4> QED BY <2>11, <4>1 DEF SectorAt, FirstSector, Clusters
    <3> QED BY <2>9, <2>11, <3>1, <3>2 DEF Stands
  <2>16. FileInv'
    BY <1>1, <1>2, <2>10, <2>11, <2>12, <2>13, <2>15 DEF FileInv, ReadInv, SeekInv
  <2>17. BuffInv' /\ FaultInv'  BY <1>1, <1>2, <2>5, <2>11, <2>13 DEF BuffInv, FaultInv
  <2> QED BY <1>1, <2>11, <2>12, <2>13, <2>14, <2>16, <2>17, FileStays
<1> QED BY <1>3, <1>4 DEF SeekEnds, p

-----------------------------------------------------------------------------
(* pf_read.                                                                *)

\* What is known while the file is read.
LEMMA ReadingForm ==
  ASSUME BootInv, call.op = "read"
  PROVE  /\ call \in [op : Ops, left : Nat, linked : BOOLEAN, buff : Seq(Nat)]
         /\ at \in Reading /\ ReadInv
         /\ Len(call.buff) \in 0 .. fs.fptr
         /\ \A i \in DOMAIN call.buff : call.buff[i] = fs.fptr - Len(call.buff) + i - 1
         /\ fs.fptr - Len(call.buff) = Start
         /\ call.left + Len(call.buff) = LesserOf(Wanted, card.size - Start)
<1>1. /\ call \in [op : Ops, left : Nat, linked : BOOLEAN, buff : Seq(Nat)]
      /\ at \in Reading /\ fs.opened /\ Well /\ ~Ended /\ fs.fptr \in Nat
  BY Waits, Working, CallForm DEF BootInv
<1>2. ReadInv /\ BuffInv /\ PosInv  BY <1>1 DEF BootInv, FileInv
<1>3. Len(call.buff) \in Nat  BY <1>1, LenProperties
<1>4. /\ Len(call.buff) <= fs.fptr
      /\ \A i \in DOMAIN call.buff : call.buff[i] = fs.fptr - Len(call.buff) + i - 1
  BY <1>1, <1>2 DEF BuffInv
<1> QED BY <1>1, <1>2, <1>3, <1>4 DEF PosInv, Missed

\* The cluster that begins is the next one of the chain.
LEMMA ReadClusterKeeps == ASSUME BootInv, ReadCluster, Stays PROVE BootInv'
<1> DEFINE c == IF fs.fptr = 0 THEN fs.org ELSE GetFat(fs.curr)
<1>1. /\ call.op = "read" /\ call.left > 0 /\ Boundary /\ dj' = dj /\ at \in Reading
      /\ card' = card /\ faults' \in Nat
  BY Waits, Working DEF ReadCluster, BootInv, TypeOK, Reads, Fails
<1>2. /\ card \in Cards /\ fs \in Volume /\ OnCard /\ fs.opened /\ faults = 0 /\ Well /\ ~Ended
      /\ fs.fsize = card.size /\ fs.fptr \in 0 .. card.size /\ card.size \in Nat
      /\ fs.org = IF card.chain = << >> THEN 0 ELSE card.chain[1]
  BY <1>1, Working
<1>3. CASE Aborts  BY <1>1, <1>3, AbortKeeps
<1>4. CASE /\ Reads /\ c \in Clusters
           /\ fs' = [fs EXCEPT !.curr = c] /\ call' = [call EXCEPT !.linked = TRUE]
  <2>1. CU = PerCluster /\ PerCluster \in Nat \ {0} /\ Clusters = ClustersOf(card) /\ ClustersOf(card) \subseteq Nat \ {0, 1}
    BY <1>2, VolumeSectors, CardForm
  <2>2. /\ call \in [op : Ops, left : Nat, linked : BOOLEAN, buff : Seq(Nat)] /\ ReadInv
        /\ Len(call.buff) \in 0 .. fs.fptr
        /\ \A i \in DOMAIN call.buff : call.buff[i] = fs.fptr - Len(call.buff) + i - 1
        /\ fs.fptr - Len(call.buff) = Start
        /\ call.left + Len(call.buff) = LesserOf(Wanted, card.size - Start)
    BY <1>1, ReadingForm
  <2>3. fs.fptr % PerCluster = 0 /\ ~call.linked  BY <1>1, <2>1 DEF Boundary
  <2>4. Stands /\ call.left <= card.size - fs.fptr  BY <1>1, <2>2, <2>3 DEF ReadInv
  <2>5. Index(fs.fptr) \in DOMAIN card.chain /\ c = card.chain[Index(fs.fptr)]
    <3>1. CASE fs.fptr = 0
      <4>1. card.chain # << >> /\ c = card.chain[1]  BY <1>2, <1>4, <2>1, <3>1
      <4>2. 1 \in DOMAIN card.chain
        <5> DEFINE C == ClustersOf(card)
        <5> DEFINE ch == card.chain
        <5>1. ch \in Seq(C) /\ ch # << >>  BY <1>2, <4>1, CardForm
        <5> HIDE DEF C, ch
        <5>2. 1 \in DOMAIN ch  BY <5>1
        <5> QED BY <5>2 DEF ch
      <4>3. Index(0) = 1  BY <1>2, ClusterPlaces
      <4> QED BY <3>1, <4>1, <4>2, <4>3
    <3>2. CASE fs.fptr > 0
      <4>1. fs.fptr - 1 \in Nat /\ fs.fptr \in Nat  BY <1>2, <3>2
      <4>2. Index(fs.fptr) = Index(fs.fptr - 1) + 1  BY <1>2, <2>3, <3>2, <4>1, ClusterPlaces
      <4>3. c = GetFat(fs.curr)  BY <3>2
      <4>4. InCluster(fs.fptr - 1)  BY <2>4, <3>2 DEF Stands
      <4>5. PerCluster * Index(fs.fptr - 1) = fs.fptr  BY <1>2, <2>3, <3>2, <4>1, ClusterEnds
      <4>6. PerCluster * Index(fs.fptr - 1) < card.size  BY <1>1, <1>2, <2>2, <2>4, <4>5
      <4> QED BY <1>2, <1>4, <4>1, <4>2, <4>3, <4>4, <4>6, ChainGoesOn
    <3> QED BY <1>2, <3>1, <3>2
  <2> HIDE DEF c
  <2>6. c \in Nat  BY <1>4, <2>1
  <2>7. /\ fs' \in Volume /\ fs'.opened /\ fs'.curr = c /\ fs'.fptr = fs.fptr
        /\ fs'.fsize = fs.fsize /\ fs'.org = fs.org
    BY <1>2, <1>4, <2>6 DEF Volume
  <2>8. OnCard'  BY <1>1, <1>2, <1>4 DEF OnCard, Volume, FatEnd, DataStart
  <2>9. /\ call' \in CallType /\ call'.op = "read" /\ call'.left = call.left /\ call'.linked
        /\ call'.buff = call.buff /\ ~Ended' /\ Well'
    BY <1>1, <1>4, <2>2 DEF CallType, Ended, Well
  <2>10. faults' = 0  BY <1>2, <1>4 DEF Reads
  <2>11. PosInv'
    <3>1. Start' = Start /\ Wanted' = Wanted  BY <1>1, StartStays
    <3>2. /\ fs'.fptr - Len(call'.buff) = Start'
          /\ Missed' + Len(call'.buff) = LesserOf(Wanted', card'.size - Start')
      BY <1>1, <2>2, <2>7, <2>9, <3>1 DEF Missed
    <3> QED BY <1>1, <3>2 DEF PosInv, Stays, Seeks, Reading
  <2>12. ReadInv'
    <3>1. (InCluster(fs.fptr))'  BY <1>1, <2>5, <2>7 DEF InCluster, Index, PerCluster
    <3>2. (fs.fptr % PerCluster = 0)'  BY <1>1, <2>3, <2>7 DEF PerCluster
    <3> QED BY <1>1, <2>4, <2>7, <2>9, <3>1, <3>2 DEF ReadInv
  <2>13. FileInv'
    BY <1>1, <1>2, <2>7, <2>8, <2>9, <2>12 DEF FileInv, SeekInv
  <2>14. BuffInv' /\ FaultInv'  BY <1>1, <2>2, <2>7, <2>9, <2>10 DEF BuffInv, FaultInv
  <2> QED BY <1>1, <2>7, <2>8, <2>9, <2>10, <2>11, <2>13, <2>14, FileStays
<1> QED BY <1>3, <1>4 DEF ReadCluster, c

\* Everything is read.
LEMMA ReadEndsKeeps == ASSUME BootInv, ReadEnds, Stays PROVE BootInv'
<1>1. /\ call.op = "read" /\ call.left = 0 /\ dj' = dj /\ at \in Reading /\ fs' = fs
      /\ card' = card /\ faults' = faults
  BY Waits DEF ReadEnds, BootInv
<1>2. /\ card \in Cards /\ fs \in Volume /\ OnCard /\ fs.opened /\ faults = 0
      /\ fs.fsize = card.size /\ fs.fptr \in 0 .. card.size
      /\ fs.org = IF card.chain = << >> THEN 0 ELSE card.chain[1]
  BY <1>1, Working
<1>3. /\ call \in [op : Ops, left : Nat, linked : BOOLEAN, buff : Seq(Nat)] /\ ReadInv
      /\ Len(call.buff) \in 0 .. fs.fptr
      /\ \A i \in DOMAIN call.buff : call.buff[i] = fs.fptr - Len(call.buff) + i - 1
      /\ fs.fptr - Len(call.buff) = Start
      /\ call.left + Len(call.buff) = LesserOf(Wanted, card.size - Start)
  BY <1>1, ReadingForm
<1>4. call' = [op |-> "none", res |-> "OK", buff |-> call.buff]  BY DEF ReadEnds, Returned
<1>5. call' \in CallType /\ call'.op = "none" /\ call'.buff = call.buff /\ Ended' /\ Well'
  BY <1>3, <1>4 DEF CallType, Ended, Well, Results
<1>6. OnCard'  BY <1>1, <1>2 DEF OnCard, FatEnd, DataStart
<1>7. Stands'
  <2>1. Stands  BY <1>1, <1>3 DEF ReadInv
  <2> QED BY <1>1, <2>1 DEF Stands, InCluster, Index, PerCluster, SectorAt, FirstSector, Clusters
<1>8. FileInv'  BY <1>1, <1>2, <1>5, <1>6, <1>7 DEF FileInv, SeekInv, ReadInv
<1>9. BuffInv' /\ FaultInv'  BY <1>1, <1>2, <1>3, <1>5 DEF BuffInv, FaultInv
<1>10. PosInv'
  <2>1. Start' = Start /\ Wanted' = Wanted  BY <1>1, StartStays
  <2>2. /\ fs'.fptr - Len(call'.buff) = Start'
        /\ Missed' + Len(call'.buff) = LesserOf(Wanted', card'.size - Start')
    BY <1>1, <1>3, <1>5, <2>1 DEF Missed
  <2> QED BY <1>1, <2>2 DEF PosInv, Stays, Seeks, Reading
<1>11. faults' \in Nat  BY <1>1, <1>2
<1> QED BY <1>1, <1>2, <1>5, <1>6, <1>8, <1>9, <1>10, <1>11, FileStays

\* A piece of what is read.
LEMMA Piece ==
  ASSUME NEW s, NEW m \in Nat, NEW n \in Nat
  PROVE  SubSeq(s, m + 1, m + n) = [i \in 1 .. n |-> s[m + i]]
BY DEF SubSeq

\* What is read goes on with what follows it in the file.
LEMMA BuffGrows ==
  ASSUME NEW buff \in Seq(Nat), NEW p \in Nat, Len(buff) <= p, NEW n \in Nat, NEW more,
         more = [i \in 1 .. n |-> p + i - 1],
         \A i \in DOMAIN buff : buff[i] = p - Len(buff) + i - 1
  PROVE  /\ buff \o more \in Seq(Nat) /\ Len(buff \o more) = Len(buff) + n
         /\ \A i \in DOMAIN (buff \o more) :
              (buff \o more)[i] = (p + n) - Len(buff \o more) + i - 1
<1>1. more \in Seq(Nat) /\ Len(more) = n
  <2>1. more \in [1 .. n -> Nat]  OBVIOUS
  <2>2. more \in Seq(Nat)  BY <2>1, SeqDef
  <2>3. Len(more) \in Nat /\ DOMAIN more = 1 .. Len(more)  BY <2>2, LenProperties
  <2>4. DOMAIN more = 1 .. n  OBVIOUS
  <2> QED BY <2>2, <2>3, <2>4
<1>2. Len(buff) \in Nat /\ DOMAIN buff = 1 .. Len(buff)  BY LenProperties
<1>3. /\ buff \o more \in Seq(Nat) /\ Len(buff \o more) = Len(buff) + n
      /\ \A i \in 1 .. Len(buff) + n :
           (buff \o more)[i] = IF i <= Len(buff) THEN buff[i] ELSE more[i - Len(buff)]
  BY <1>1, <1>2, ConcatProperties
<1>4. DOMAIN (buff \o more) = 1 .. Len(buff) + n  BY <1>3, LenProperties
<1>5. ASSUME NEW i \in 1 .. Len(buff) + n
      PROVE  (buff \o more)[i] = (p + n) - (Len(buff) + n) + i - 1
  <2>1. CASE i <= Len(buff)
    <3>1. (buff \o more)[i] = buff[i] /\ i \in DOMAIN buff  BY <1>2, <1>3, <2>1
    <3>2. buff[i] = p - Len(buff) + i - 1  BY <3>1
    <3> QED BY <1>2, <3>1, <3>2
  <2>2. CASE i > Len(buff)
    <3>1. (buff \o more)[i] = more[i - Len(buff)] /\ i - Len(buff) \in 1 .. n  BY <1>2, <1>3, <2>2
    <3>2. more[i - Len(buff)] = p + (i - Len(buff)) - 1  BY <3>1
    <3> QED BY <1>2, <3>1, <3>2
  <2> QED BY <1>2, <2>1, <2>2
<1> QED BY <1>3, <1>4, <1>5

\* A piece of a sector is what the file has there.
LEMMA ReadSectorKeeps == ASSUME BootInv, ReadSector, Stays PROVE BootInv'
<1> DEFINE p == fs.fptr
<1> DEFINE z == p % SU
<1> DEFINE n == LesserOf(SU - z, call.left)
<1> DEFINE sect == SectorToRead
<1> DEFINE more == SubSeq(card.units[sect], z + 1, z + n)
<1>1. /\ call.op = "read" /\ call.left > 0 /\ ~Boundary /\ dj' = dj /\ at \in Reading
      /\ card' = card /\ faults' \in Nat
  BY Waits, Working DEF ReadSector, BootInv, TypeOK, Reads, Fails
<1>2. /\ card \in Cards /\ fs \in Volume /\ OnCard /\ fs.opened /\ faults = 0 /\ Well /\ ~Ended
      /\ fs.fsize = card.size /\ fs.fptr \in 0 .. card.size /\ card.size \in Nat
      /\ fs.org = IF card.chain = << >> THEN 0 ELSE card.chain[1]
  BY <1>1, Working
<1>3. CASE Aborts  BY <1>1, <1>3, AbortKeeps
<1>4. CASE /\ Reads
           /\ fs' = [fs EXCEPT !.dsect = sect, !.fptr = @ + n]
           /\ call' = [call EXCEPT !.left = @ - n, !.linked = FALSE, !.buff = @ \o more]
  <2>1. /\ CU = PerCluster /\ PerCluster \in Nat \ {0} /\ SU \in Nat \ {0} /\ card.csize \in Nat \ {0}
    BY <1>2, VolumeSectors, CardForm
  <2>2. /\ call \in [op : Ops, left : Nat, linked : BOOLEAN, buff : Seq(Nat)] /\ ReadInv
        /\ Len(call.buff) \in 0 .. fs.fptr
        /\ \A i \in DOMAIN call.buff : call.buff[i] = fs.fptr - Len(call.buff) + i - 1
        /\ fs.fptr - Len(call.buff) = Start
        /\ call.left + Len(call.buff) = LesserOf(Wanted, card.size - Start)
    BY <1>1, ReadingForm
  <2>3. p \in Nat /\ z \in 0 .. SU - 1 /\ call.left \in Nat \ {0} /\ call.left <= card.size - p
    <3>1. p \in Nat  BY <1>2
    <3>2. z \in 0 .. SU - 1  BY <2>1, <3>1, Division
    <3>3. call.left \in Nat \ {0} /\ call.left <= card.size - fs.fptr  BY <1>1, <2>2 DEF ReadInv
    <3> QED BY <3>1, <3>2, <3>3
  <2>4. n \in 1 .. SU - z /\ n <= call.left
    <3> HIDE DEF z, p
    <3> QED BY <2>1, <2>3 DEF LesserOf
  <2>5. Index(p) \in DOMAIN card.chain /\ fs.curr = card.chain[Index(p)]
    <3>1. CASE call.linked  BY <1>1, <2>2, <3>1 DEF ReadInv, InCluster
    <3>2. CASE ~call.linked
      <4>1. p % PerCluster # 0 /\ Stands  BY <1>1, <2>1, <2>2, <3>2 DEF Boundary, ReadInv
      <4>2. p > 0 /\ Index(p) = Index(p - 1)  BY <1>2, <2>3, <4>1, ClusterPlaces
      <4> QED BY <4>1, <4>2 DEF Stands, InCluster
    <3> QED BY <2>2, <3>1, <3>2
  <2>6. fs.curr \in ClustersOf(card)
    <3> DEFINE C == ClustersOf(card)
    <3> DEFINE ch == card.chain
    <3> DEFINE i == Index(p)
    <3>1. ch \in Seq(C) /\ i \in DOMAIN ch /\ fs.curr = ch[i]  BY <1>2, <2>5, CardForm
    <3> HIDE DEF C, ch, i
    <3>2. ch[i] \in C  BY <3>1
    <3> QED BY <3>1, <3>2 DEF C
  <2>7. sect = SectorOf(card, card.chain[Index(p)], (p \div SU) % card.csize) /\ sect = SectorAt(p, fs.curr)
    <3>1. SectorAt(p, fs.curr) = SectorOf(card, fs.curr, (p \div SU) % card.csize)
      BY <1>2, <2>6, VolumeSectors
    <3>2. CASE p % SU = 0  BY <2>5, <3>1, <3>2 DEF SectorToRead
    <3>3. CASE p % SU # 0
      <4>1. p % PerCluster # 0  BY <1>2, <2>3, <3>3, SectorsInClusters
      <4>2. Stands  BY <1>1, <2>2, <4>1 DEF ReadInv
      <4>3. p > 0  BY <1>2, <2>3, <4>1, ClusterPlaces
      <4> QED BY <2>5, <3>1, <3>3, <4>2, <4>3 DEF SectorToRead, Stands
    <3> QED BY <3>2, <3>3
  <2>8. sect \in Int
    <3>1. PICK k \in Nat : k = p \div SU  BY <2>1, <2>3, Division
    <3>2. k % card.csize \in Nat  BY <2>1, Division
    <3> QED BY <1>2, <2>5, <2>6, <2>7, <3>1, <3>2, VolumeSectors
  <2>9. /\ Index(p + n - 1) = Index(p)
        /\ \A i \in 0 .. n - 1 : /\ (p + i) \div SU = p \div SU /\ (p + i) % SU = z + i
                                 /\ Index(p + i) = Index(p)
        /\ (p + n) % SU # 0 => (p + n) \div SU = p \div SU
    BY <1>2, <2>3, <2>4, SectorPlaces
  <2>10. ASSUME NEW i \in 0 .. n - 1 PROVE card.units[sect][z + (i + 1)] = p + i
    <3>1. p + i \in 0 .. card.size - 1
      <4> HIDE DEF z, p, n
      <4> QED BY <1>2, <2>3, <2>4
    <3>2. (p + i) \div PerCluster + 1 = Index(p)  BY <2>9 DEF Index
    <3>3. card.units[SectorOf(card, card.chain[Index(p)], ((p + i) \div SU) % card.csize)][((p + i) % SU) + 1] = p + i
      <4>1. FileStored(card)  BY <1>2, CardForm
      <4> HIDE DEF p, z, n, sect, more
      <4> DEFINE u == p + i
      <4>2. u \in 0 .. card.size - 1 /\ u \div (card.csize * SU) + 1 = Index(p)  BY <3>1, <3>2 DEF PerCluster
      <4> HIDE DEF u
      <4>3. card.units[SectorOf(card, card.chain[u \div (card.csize * SU) + 1], (u \div SU) % card.csize)][(u % SU) + 1] = u
        BY <2>5, <4>1, <4>2 DEF FileStored
      <4>4. card.units[SectorOf(card, card.chain[Index(p)], (u \div SU) % card.csize)][(u % SU) + 1] = u
        BY <4>2, <4>3
      <4> QED BY <4>4 DEF u
    <3>4. (z + i) + 1 = z + (i + 1)
      <4> HIDE DEF z
      <4> QED BY <2>3
    <3> HIDE DEF p, z, n, sect, more
    <3> QED BY <2>7, <2>9, <3>3, <3>4
  <2>11. more = [i \in 1 .. n |-> p + i - 1]
    <3> HIDE DEF p, z, n, sect
    <3>1. z \in Nat /\ n \in Nat /\ p \in Nat  BY <2>1, <2>3, <2>4
    <3>2. more = [i \in 1 .. n |-> card.units[sect][z + i]]  BY <3>1, Piece
    <3>3. ASSUME NEW i \in 1 .. n PROVE card.units[sect][z + i] = p + i - 1
      <4>1. i - 1 \in 0 .. n - 1 /\ (i - 1) + 1 = i /\ p + (i - 1) = p + i - 1  BY <3>1
      <4> QED BY <2>10, <4>1
    <3> QED BY <3>2, <3>3
  <2> HIDE DEF p, z, n, sect, more
  <2>12. p = fs.fptr  BY DEF p
  <2>13. /\ call.buff \o more \in Seq(Nat) /\ Len(call.buff \o more) = Len(call.buff) + n
         /\ \A i \in DOMAIN (call.buff \o more) :
              (call.buff \o more)[i] = (p + n) - Len(call.buff \o more) + i - 1
    <3> DEFINE b == call.buff
    <3>1. b \in Seq(Nat) /\ Len(b) <= p /\ n \in Nat  BY <2>2, <2>3, <2>4, <2>12
    <3>2. p \in Nat /\ \A i \in DOMAIN b : b[i] = p - Len(b) + i - 1
      BY <2>2, <2>3, <2>12
    <3> HIDE DEF b
    <3>3. /\ b \o more \in Seq(Nat) /\ Len(b \o more) = Len(b) + n
          /\ \A i \in DOMAIN (b \o more) : (b \o more)[i] = (p + n) - Len(b \o more) + i - 1
      BY <2>11, <3>1, <3>2, BuffGrows
    <3> QED BY <3>3 DEF b
  <2>14. p + n \in Nat \ {0} /\ call.left - n \in Nat /\ Len(call.buff) \in Nat  BY <2>2, <2>3, <2>4
  <2>15. /\ fs' \in Volume /\ fs'.opened /\ fs'.curr = fs.curr /\ fs'.fptr = p + n /\ fs'.dsect = sect
         /\ fs'.fsize = fs.fsize /\ fs'.org = fs.org
    <3> DEFINE m == p + n
    <3>1. fs' = [fs EXCEPT !.dsect = sect, !.fptr = m] /\ m \in Nat  BY <1>4, <2>12, <2>14
    <3> HIDE DEF m
    <3>2. /\ fs' \in Volume /\ fs'.opened /\ fs'.curr = fs.curr /\ fs'.fptr = m /\ fs'.dsect = sect
          /\ fs'.fsize = fs.fsize /\ fs'.org = fs.org
      BY <1>2, <2>8, <3>1 DEF Volume
    <3> QED BY <3>2 DEF m
  <2>16. OnCard'  BY <1>1, <1>2, <1>4 DEF OnCard, Volume, FatEnd, DataStart
  <2>17. /\ call' \in CallType /\ call'.op = "read" /\ call'.left = call.left - n /\ ~call'.linked
         /\ call'.buff = call.buff \o more /\ ~Ended' /\ Well'
    <3> DEFINE l == call.left - n
    <3> DEFINE b == call.buff \o more
    <3>1. call' = [call EXCEPT !.left = l, !.linked = FALSE, !.buff = b] /\ l \in Nat /\ b \in Seq(Nat)
      BY <1>4, <2>13, <2>14
    <3> HIDE DEF l, b
    <3>2. /\ call' \in CallType /\ call'.op = "read" /\ call'.left = l /\ ~call'.linked /\ call'.buff = b
      BY <1>1, <2>2, <3>1 DEF CallType
    <3> QED BY <3>2 DEF l, b, Ended, Well
  <2>18. faults' = 0  BY <1>2, <1>4 DEF Reads
  <2>19. PosInv'
    <3>1. Start' = Start /\ Wanted' = Wanted  BY <1>1, StartStays
    <3>2. Len(call'.buff) = Len(call.buff) + n  BY <2>13, <2>17
    <3>3. fs'.fptr - Len(call'.buff) = Start'
      BY <2>2, <2>3, <2>4, <2>12, <2>14, <2>15, <3>1, <3>2
    <3>4. Missed' + Len(call'.buff) = call.left + Len(call.buff)
      BY <2>3, <2>4, <2>14, <2>17, <3>2 DEF Missed
    <3>5. Missed' + Len(call'.buff) = LesserOf(Wanted', card'.size - Start')
      BY <1>1, <2>2, <3>1, <3>4
    <3> QED BY <1>1, <3>3, <3>5 DEF PosInv, Stays, Seeks, Reading
  <2>20. Stands'
    <3>1. InCluster(p + n - 1)  BY <2>5, <2>9 DEF InCluster
    <3>2. (InCluster(fs.fptr - 1))'
      <4>1. fs'.fptr - 1 = p + n - 1
        <5>1. fs'.fptr = p + n /\ p \in Nat /\ n \in Nat  BY <2>3, <2>4, <2>15
        <5> QED BY <5>1
      <4> QED BY <1>1, <2>15, <3>1, <4>1 DEF InCluster, Index, PerCluster
    <3>3. (p + n) % SU # 0 => SectorAt(p + n, fs.curr) = sect  BY <2>7, <2>9 DEF SectorAt
    <3>4. fs'.csize = fs.csize /\ fs'.database = fs.database /\ fs'.fatent = fs.fatent
      BY <1>2, <1>4 DEF Volume
    <3>5. SectorAt(fs.fptr, fs.curr)' = SectorAt(p + n, fs.curr)
      BY <2>15, <3>4 DEF SectorAt, FirstSector, Clusters
    <3> QED BY <2>15, <3>2, <3>3, <3>5 DEF Stands
  <2>21. ReadInv'
    <3>1. call'.left <= card'.size - fs'.fptr
      BY <1>1, <1>2, <2>3, <2>4, <2>14, <2>15, <2>17
    <3> QED BY <2>17, <2>20, <3>1 DEF ReadInv
  <2>22. fs'.fptr <= card'.size  BY <1>1, <1>2, <2>3, <2>4, <2>15
  <2>23. FileInv'
    BY <1>1, <1>2, <2>15, <2>16, <2>17, <2>21, <2>22 DEF FileInv, SeekInv
  <2>24. BuffInv'
    <3>1. Len(call'.buff) <= fs'.fptr  BY <2>2, <2>3, <2>4, <2>12, <2>13, <2>14, <2>15, <2>17
    <3>2. \A i \in DOMAIN call'.buff : call'.buff[i] = fs'.fptr - Len(call'.buff) + i - 1
      BY <2>13, <2>15, <2>17
    <3> QED BY <3>1, <3>2 DEF BuffInv
  <2>25. FaultInv'  BY <2>18 DEF FaultInv
  <2> QED BY <1>1, <2>15, <2>16, <2>17, <2>18, <2>19, <2>23, <2>24, <2>25, FileStays
<1> QED BY <1>3, <1>4 DEF ReadSector, p, z, n, sect, more

-----------------------------------------------------------------------------
(* The loader.                                                             *)

LoadType == [phnum : Nat, pos : Nat, ph : Header, addr : Int, size : Nat]

\* When a function has returned the file is open, and its place known.
LEMMA Ready ==
  ASSUME BootInv, NEW from \in {"open"} \union Seeks \union Reading, Good(from)
  PROVE  /\ card \in Cards /\ fs \in Volume /\ dj \in Directories /\ OnCard /\ fs.opened /\ faults = 0
         /\ at = from /\ card' = card /\ faults' = faults /\ Ended /\ Well
         /\ fs.fsize = card.size /\ fs.fptr \in 0 .. card.size /\ card.size \in Nat
         /\ fs.org = IF card.chain = << >> THEN 0 ELSE card.chain[1]
         /\ Stands
<1>1. at = from /\ card' = card /\ faults' = faults /\ Ended /\ Well
  BY DEF Good, Back, Ended, Well
<1>2. card \in Cards /\ fs \in Volume /\ dj \in Directories /\ faults \in Nat  BY DEF BootInv, TypeOK
<1>3. fs.opened  BY <1>1 DEF BootInv, OpenInv
<1>4. faults = 0  BY <1>1, <1>2 DEF BootInv, FaultInv, Seeks, Reading, Ended
<1>5. card.size \in Nat /\ fs.fptr \in Nat  BY <1>2, CardForm DEF Volume
<1> QED BY <1>1, <1>2, <1>3, <1>4, <1>5 DEF BootInv, FileInv

\* The next call of the loader begins.
LEMMA NextCall ==
  ASSUME BootInv, card' = card, faults' = 0, UNCHANGED dj, at' \in Seeks \union Reading,
         fs' \in Volume, call' \in CallType, mem' \in [Memory -> Int], load' \in LoadType,
         call'.op \in {"none", IF at' \in Seeks THEN "seek" ELSE "read"},
         OnCard', FileInv', BuffInv', PosInv', LoadInv', fs'.opened
  PROVE  BootInv'
<1>1. at' # "mount" /\ at' # "open" /\ at' # "failed" /\ at' # "run"  BY DEF Seeks, Reading
<1>2. TypeOK'  BY DEF BootInv, TypeOK, LoadType
<1>3. OpInv'  BY <1>1 DEF OpInv, Seeks, Reading
<1>4. MountInv' /\ DirInv' /\ OpenInv' /\ FaultInv'
  BY <1>1 DEF MountInv, DirInv, OpenInv, FaultInv
<1> QED BY <1>2, <1>3, <1>4 DEF BootInv

\* A place is looked for.
LEMMA SeekToKeeps ==
  ASSUME BootInv, NEW from \in {"open"} \union Seeks \union Reading, Good(from),
         NEW pos \in Nat, NEW where \in Seeks, SeekTo(pos, where), Target' = pos,
         mem' \in [Memory -> Int], load' \in LoadType, LoadInv'
  PROVE  BootInv'
<1> DEFINE o == LesserOf(pos, fs.fsize)
<1> DEFINE k == (fs.fptr - 1) \div CU
<1> DEFINE begin == IF Ahead(o) THEN k * CU ELSE 0
<1>1. /\ card \in Cards /\ fs \in Volume /\ dj \in Directories /\ OnCard /\ fs.opened /\ faults = 0
      /\ at = from /\ card' = card /\ faults' = faults /\ Ended /\ Well
      /\ fs.fsize = card.size /\ fs.fptr \in 0 .. card.size /\ card.size \in Nat
      /\ fs.org = IF card.chain = << >> THEN 0 ELSE card.chain[1]
      /\ Stands
  BY Ready
<1>2. at' = where /\ Seek(pos) /\ dj' = dj /\ faults' = 0 /\ at' \in Seeks  BY <1>1 DEF SeekTo
<1>3. o \in 0 .. card.size /\ Start' = o
  <2>1. o \in 0 .. card.size  BY <1>1 DEF LesserOf
  <2> QED BY <1>1, <2>1 DEF Start
<1>4. CU = PerCluster /\ PerCluster \in Nat \ {0}  BY <1>1, VolumeSectors, CardForm
<1>5. CASE o = 0 /\ fs' = [fs EXCEPT !.fptr = 0] /\ Returns("OK")
  <2>1. call' \in CallType /\ call'.op = "none" /\ call'.buff = << >> /\ Ended' /\ Well'
    BY <1>5, CallReturns DEF Results
  <2>2. /\ fs' \in Volume /\ fs'.opened /\ fs'.fptr = 0 /\ fs'.fsize = fs.fsize /\ fs'.org = fs.org
    BY <1>1, <1>5 DEF Volume
  <2>3. OnCard'  BY <1>1, <1>5 DEF OnCard, Volume, FatEnd, DataStart
  <2>4. FileInv'
    BY <1>1, <2>1, <2>2, <2>3 DEF FileInv, Stands, SeekInv, ReadInv
  <2>5. BuffInv'  BY <2>1, <2>2 DEF BuffInv
  <2>6. PosInv'  BY <1>2, <1>3, <1>5, <2>1, <2>2 DEF PosInv, Missed, Seeks, Reading
  <2> QED BY <1>1, <1>2, <2>1, <2>2, <2>3, <2>4, <2>5, <2>6, NextCall
<1>6. CASE /\ o # 0 /\ Calls("seek", o - begin)
           /\ fs' = [fs EXCEPT !.fptr = begin, !.curr = IF Ahead(o) THEN @ ELSE fs.org]
  <2>1. /\ begin \in 0 .. o - 1 /\ begin % PerCluster = 0
        /\ IF card.chain = << >> THEN fs'.curr = 0
           ELSE Index(begin) \in DOMAIN card.chain /\ fs'.curr = card.chain[Index(begin)]
    <3>1. CASE Ahead(o)
      <4> DEFINE u == fs.fptr - 1
      <4> DEFINE v == o - 1
      <4>1. u \in Nat /\ v \in Nat /\ fs.fptr > 0 /\ v \div CU >= u \div CU
        BY <1>1, <1>3, <1>6, <3>1 DEF Ahead
      <4>2. fs'.curr = fs.curr /\ begin = (u \div CU) * CU  BY <1>1, <1>6, <3>1 DEF Volume
      <4> HIDE DEF u, v
      <4>3. /\ (u \div PerCluster) * PerCluster \in 0 .. u
            /\ Index((u \div PerCluster) * PerCluster) = Index(u)
            /\ ((u \div PerCluster) * PerCluster) % PerCluster = 0 /\ u \div PerCluster \in Nat
        BY <1>1, <4>1, ClusterPlaces
      <4>4. (v \div PerCluster) * PerCluster \in 0 .. v /\ v \div PerCluster \in Nat
        BY <1>1, <4>1, ClusterPlaces
      <4>5. (u \div PerCluster) * PerCluster <= (v \div PerCluster) * PerCluster
        <5>1. PICK a \in Nat, b \in Nat : a = u \div PerCluster /\ b = v \div PerCluster
          BY <4>3, <4>4
        <5>2. a <= b  BY <1>4, <4>1, <5>1
        <5>3. a * PerCluster <= b * PerCluster  BY <1>4, <5>2
        <5> QED BY <5>1, <5>3
      <4>6. begin \in 0 .. v  BY <1>4, <4>1, <4>2, <4>3, <4>4, <4>5
      <4>7. v = o - 1  BY DEF v
      <4>8. InCluster(u)  BY <1>1, <4>1 DEF Stands, u
      <4>9. card.chain # << >>
        <5> DEFINE C == ClustersOf(card)
        <5> DEFINE ch == card.chain
        <5>1. ch \in Seq(C) /\ Index(u) \in DOMAIN ch  BY <1>1, <4>8, CardForm DEF InCluster
        <5> HIDE DEF C, ch
        <5>2. ch # << >>  BY <5>1
        <5> QED BY <5>2 DEF ch
      <4>10. Index(begin) = Index(u) /\ begin % PerCluster = 0  BY <1>4, <4>2, <4>3
      <4> HIDE DEF begin, o
      <4> QED BY <4>2, <4>6, <4>7, <4>8, <4>9, <4>10 DEF InCluster
    <3>2. CASE ~Ahead(o)
      <4>1. begin = 0 /\ fs'.curr = fs.org  BY <1>1, <1>6, <3>2 DEF Volume
      <4>2. 0 % PerCluster = 0 /\ Index(0) = 1  BY <1>1, <1>4, Zero, ClusterPlaces
      <4>3. card.chain # << >> => 1 \in DOMAIN card.chain
        <5> DEFINE C == ClustersOf(card)
        <5> DEFINE ch == card.chain
        <5>1. ch \in Seq(C)  BY <1>1, CardForm
        <5> HIDE DEF C, ch
        <5>2. ch # << >> => 1 \in DOMAIN ch  BY <5>1
        <5> QED BY <5>2 DEF ch
      <4>4. 0 \in 0 .. o - 1  BY <1>3, <1>6
      <4> HIDE DEF begin, o
      <4> QED BY <1>1, <4>1, <4>2, <4>3, <4>4
    <3> QED BY <3>1, <3>2
  <2> HIDE DEF k, begin, o
  <2>2. fs'.curr \in Nat
    <3>1. fs.org \in Nat /\ fs.curr \in Nat  BY <1>1 DEF Volume
    <3> QED BY <1>1, <1>6, <3>1 DEF Volume
  <2>3. /\ fs' \in Volume /\ fs'.opened /\ fs'.fptr = begin /\ fs'.fsize = fs.fsize /\ fs'.org = fs.org
    <3>1. PICK c \in Nat : c = IF Ahead(o) THEN fs.curr ELSE fs.org  BY <1>1 DEF Volume
    <3>2. fs' = [fs EXCEPT !.fptr = begin, !.curr = c] /\ begin \in Nat  BY <1>6, <2>1, <3>1
    <3> QED BY <1>1, <3>2 DEF Volume
  <2>4. OnCard'  BY <1>1, <1>6 DEF OnCard, Volume, FatEnd, DataStart
  <2>5. o - begin \in Nat /\ o - begin > 0  BY <1>3, <2>1
  <2>6. /\ call' \in CallType /\ call'.op = "seek" /\ call'.left = o - begin /\ ~Ended' /\ Well'
    BY <1>6, <2>5, CallBegins DEF Ops
  <2>7. SeekInv'
    <3>1. (fs.fptr % PerCluster = 0)'  BY <1>1, <2>1, <2>3 DEF PerCluster
    <3>2. card.chain # << >> => (InCluster(fs.fptr))'
      BY <1>1, <2>1, <2>3 DEF InCluster, Index, PerCluster
    <3>3. card.chain = << >> => fs'.curr = 0  BY <2>1
    <3> QED BY <1>1, <2>5, <2>6, <3>1, <3>2, <3>3 DEF SeekInv
  <2>8. FileInv'
    <3>1. fs'.fptr <= card'.size  BY <1>1, <1>3, <2>1, <2>3
    <3> QED BY <1>1, <2>3, <2>4, <2>6, <2>7, <3>1 DEF FileInv, ReadInv
  <2>9. BuffInv'  BY <2>6 DEF BuffInv
  <2>10. PosInv'
    <3>1. fs'.fptr + Missed' = Start'  BY <1>3, <2>1, <2>3, <2>6 DEF Missed
    <3> QED BY <1>2, <3>1 DEF PosInv, Seeks, Reading
  <2> QED BY <1>1, <1>2, <2>3, <2>4, <2>6, <2>8, <2>9, <2>10, NextCall
<1> QED BY <1>1, <1>2, <1>5, <1>6 DEF Seek

\* What follows the pointer is read.
LEMMA ReadToKeeps ==
  ASSUME BootInv, NEW from \in {"open"} \union Seeks \union Reading, Good(from),
         NEW n \in Nat, NEW where \in Reading, ReadTo(n, where), Wanted' = n, fs.fptr = Start',
         mem' \in [Memory -> Int], load' \in LoadType, LoadInv'
  PROVE  BootInv'
<1>1. /\ card \in Cards /\ fs \in Volume /\ dj \in Directories /\ OnCard /\ fs.opened /\ faults = 0
      /\ at = from /\ card' = card /\ faults' = faults /\ Ended /\ Well
      /\ fs.fsize = card.size /\ fs.fptr \in 0 .. card.size /\ card.size \in Nat
      /\ fs.org = IF card.chain = << >> THEN 0 ELSE card.chain[1]
      /\ Stands
  BY Ready
<1>2. at' = where /\ dj' = dj /\ faults' = 0 /\ at' \in Reading /\ at' \notin Seeks
  BY <1>1 DEF ReadTo, Reading, Seeks
<1>3. fs' = fs /\ Calls("read", LesserOf(n, card.size - fs.fptr))  BY <1>1 DEF ReadTo, Read
<1>4. LesserOf(n, card.size - fs.fptr) \in 0 .. card.size - fs.fptr  BY <1>1 DEF LesserOf
<1>5. /\ call' \in CallType /\ call'.op = "read" /\ call'.left = LesserOf(n, card.size - fs.fptr)
      /\ ~call'.linked /\ call'.buff = << >> /\ ~Ended' /\ Well'
  BY <1>3, <1>4, CallBegins DEF Ops
<1>6. OnCard'  BY <1>1, <1>3 DEF OnCard, FatEnd, DataStart
<1>7. Stands'
  BY <1>1, <1>3 DEF Stands, InCluster, Index, PerCluster, SectorAt, FirstSector, Clusters
<1>8. FileInv'
  <2>1. call'.left <= card'.size - fs'.fptr  BY <1>1, <1>3, <1>4, <1>5
  <2> QED BY <1>1, <1>3, <1>5, <1>6, <1>7, <2>1 DEF FileInv, SeekInv, ReadInv
<1>9. BuffInv'  BY <1>1, <1>3, <1>5 DEF BuffInv
<1>10. PosInv'
  <2>1. Missed' = LesserOf(Wanted', card'.size - Start')  BY <1>1, <1>3, <1>5 DEF Missed
  <2>2. Len(call'.buff) = 0 /\ Missed' \in Nat  BY <1>4, <1>5 DEF Missed
  <2>3. fs'.fptr - Len(call'.buff) = Start' /\ Missed' + Len(call'.buff) = LesserOf(Wanted', card'.size - Start')
    BY <1>1, <1>3, <2>1, <2>2
  <2> QED BY <1>2, <2>3 DEF PosInv
<1> QED BY <1>1, <1>2, <1>3, <1>5, <1>6, <1>8, <1>9, <1>10, NextCall

\* The loader has come to an end.
LEMMA StopsKeeps ==
  ASSUME BootInv, NEW where \in {"run", "failed"}, Stops(where), UNCHANGED <<card, faults>>, Ended,
         at # "failed", mem' \in [Memory -> Int], load' \in LoadType,
         where = "run" => OnCard /\ fs.opened /\ call.res = "OK" /\ InMemoryTo(card.phnum)'
  PROVE  BootInv'
<1>1. at' = where /\ fs' = fs /\ dj' = dj /\ call' = call /\ card' = card /\ faults' = faults
  BY DEF Stops
<1>2. TypeOK'  BY <1>1 DEF BootInv, TypeOK, LoadType
<1>3. Ended' /\ (Well' <=> Well) /\ OpInv'  BY <1>1 DEF Ended, Well, OpInv, Seeks, Reading
<1>4. MountInv'  BY <1>1 DEF MountInv, OnCard, FatEnd, DataStart
<1>5. DirInv' /\ PosInv' /\ OpenInv'  BY <1>1, <1>3 DEF DirInv, PosInv, OpenInv, Seeks, Reading
<1>6. FileInv'
  <2>1. FileInv  BY DEF BootInv
  <2>2. Stands => Stands'
    BY <1>1 DEF Stands, InCluster, Index, PerCluster, SectorAt, FirstSector, Clusters
  <2>3. OnCard => OnCard'  BY <1>1 DEF OnCard, FatEnd, DataStart
  <2> QED BY <1>1, <1>3, <2>1, <2>2, <2>3 DEF FileInv, SeekInv, ReadInv, Ended
<1>7. BuffInv'  BY <1>1 DEF BootInv, BuffInv
<1>8. FaultInv'
  <2>1. CASE where = "failed"  BY <1>1, <2>1 DEF FaultInv
  <2>2. CASE where = "run"
    <3>1. call.op = "none"  BY DEF Ended
    <3> QED BY <1>1, <1>3, <2>2, <3>1 DEF BootInv, FaultInv, Well
  <2> QED BY <2>1, <2>2
<1>9. LoadInv'  BY <1>1, <1>3 DEF LoadInv, Seeks, Reading, Segments
<1> QED BY <1>2, <1>3, <1>4, <1>5, <1>6, <1>7, <1>8, <1>9 DEF BootInv

\* A call that failed ends the loader.
LEMMA CallFailedKeeps == ASSUME BootInv, CallFailed PROVE BootInv'
<1>1. /\ Stops("failed") /\ card' = card /\ faults' = faults /\ load' = load /\ mem' = mem /\ Ended
      /\ at # "failed"
  BY DEF CallFailed, Fail, Ended
<1>2. mem' \in [Memory -> Int] /\ load' \in LoadType  BY <1>1 DEF BootInv, TypeOK, LoadType
<1> QED BY <1>1, <1>2, StopsKeeps

\* The card is mounted.
LEMMA MountedKeeps == ASSUME BootInv, Mounted PROVE BootInv'
<1>1. /\ at = "mount" /\ at' = "open" /\ card' = card /\ faults' = faults /\ load' = load /\ mem' = mem
      /\ Ended /\ Well /\ OnCard /\ TypeOK /\ card \in Cards /\ fs \in Volume /\ faults \in Nat
  BY DEF BootInv, TypeOK, MountInv, Mounted, Good, Back, Ended, Well
<1>2. faults = 0  BY <1>1 DEF BootInv, FaultInv, Ended
<1>3. fs' = [fs EXCEPT !.opened = FALSE] /\ Finds(1, 0)  BY DEF Mounted, Open
<1>4. fs' \in Volume /\ ~fs'.opened  BY <1>1, <1>3 DEF Volume
<1>5. OnCard'  BY <1>1, <1>3 DEF OnCard, Volume, FatEnd, DataStart
<1>6. DirSectors(card, 0) \subseteq card.dirs[1]
  <2>1. Root(card) \subseteq card.dirs[1]  BY <1>1, CardForm DEF PathStored
  <2> QED BY <2>1 DEF DirSectors
<1>7. 1 \in 1 .. Len(Path)  BY PetitAssumption
<1>8. /\ dj' \in Directories /\ DirInv' /\ call' \in CallType
      /\ \/ call'.op = "find" /\ Well' /\ ~Ended'
         \/ call'.op = "none" /\ ~Well'
  BY <1>1, <1>3, <1>4, <1>5, <1>6, <1>7, FindsForm
<1>9. FaultInv' /\ FileInv' /\ BuffInv'  BY <1>1, <1>2, <1>4 DEF FaultInv, FileInv, BuffInv
<1> QED BY <1>1, <1>4, <1>5, <1>8, <1>9, OpenStays

\* The loader waits for a place, and then for what stands there.
LEMMA OpenedKeeps == ASSUME BootInv, Opened PROVE BootInv'
<1>1. at = "open" /\ Good("open") /\ SeekTo(0, "seekelf") /\ at' = "seekelf" /\ load' = load /\ mem' = mem
  BY DEF Opened, Good, Back, SeekTo
<1>2. mem' \in [Memory -> Int] /\ load' \in LoadType  BY <1>1 DEF BootInv, TypeOK, LoadType
<1>3. Target' = 0  BY <1>1 DEF Target
<1>4. LoadInv'  BY <1>1 DEF BootInv, LoadInv, Segments
<1> QED BY <1>1, <1>2, <1>3, <1>4, SeekToKeeps DEF Seeks

\* The pointer is where the loader wants it.
LEMMA AtPlace ==
  ASSUME BootInv, NEW from \in Seeks, Good(from)
  PROVE  fs.fptr = Start /\ fs.fptr \in Nat
<1>1. at \in Seeks /\ Ended /\ Well /\ fs.fptr \in Nat
  BY DEF BootInv, TypeOK, Volume, Good, Back, Ended, Well
<1>2. fs.fptr + Missed = Start /\ Missed = 0  BY <1>1 DEF BootInv, PosInv, Missed
<1> QED BY <1>1, <1>2

\* The ELF header is read.
LEMMA AtElfKeeps == ASSUME BootInv, AtElf PROVE BootInv'
<1>1. /\ at = "seekelf" /\ Good("seekelf") /\ ReadTo(1, "readelf") /\ at' = "readelf" /\ load' = load
      /\ mem' = mem /\ card' = card
  BY DEF AtElf, Good, Back, ReadTo
<1>2. mem' \in [Memory -> Int] /\ load' \in LoadType  BY <1>1 DEF BootInv, TypeOK, LoadType
<1>3. Target' = Target /\ Wanted' = 1  BY <1>1 DEF Target, Wanted
<1>4. fs.fptr = Start'  BY <1>1, <1>3, AtPlace DEF Start, Seeks
<1>5. LoadInv'  BY <1>1 DEF BootInv, LoadInv, Segments
<1> QED BY <1>1, <1>2, <1>3, <1>4, <1>5, ReadToKeeps DEF Seeks, Reading

\* A program header is read.
LEMMA AtHeaderKeeps == ASSUME BootInv, AtHeader PROVE BootInv'
<1>1. /\ at = "seekheader" /\ Good("seekheader") /\ ReadTo(1, "readheader") /\ at' = "readheader"
      /\ load' = load /\ mem' = mem /\ card' = card
  BY DEF AtHeader, Good, Back, ReadTo
<1>2. mem' \in [Memory -> Int] /\ load' \in LoadType  BY <1>1 DEF BootInv, TypeOK, LoadType
<1>3. Target' = Target /\ Wanted' = 1  BY <1>1 DEF Target, Wanted
<1>4. fs.fptr = Start'  BY <1>1, <1>3, AtPlace DEF Start, Seeks
<1>5. LoadInv'
  BY <1>1 DEF BootInv, LoadInv, Segments, HeaderOf, InMemoryTo, InMemory, Headers, Loaded
<1> QED BY <1>1, <1>2, <1>3, <1>4, <1>5, ReadToKeeps DEF Seeks, Reading

\* The first piece of a segment is read.
LEMMA AtSegmentKeeps == ASSUME BootInv, AtSegment PROVE BootInv'
<1>1. /\ at = "seeksegment" /\ Good("seeksegment") /\ ReadTo(LoadByte, "readsegment")
      /\ at' = "readsegment" /\ load' = load /\ mem' = mem /\ card' = card
  BY DEF AtSegment, Good, Back, NextPiece, ReadTo, LoadByte
<1>2. mem' \in [Memory -> Int] /\ load' \in LoadType  BY <1>1 DEF BootInv, TypeOK, LoadType
<1>3. Target' = Target /\ Wanted' = LoadByte  BY <1>1 DEF Target, Wanted, LoadByte
<1>4. fs.fptr = Start'  BY <1>1, <1>3, AtPlace DEF Start, Seeks
<1>5. LoadInv'
  BY <1>1 DEF BootInv, LoadInv, Segments, HeaderOf, InMemoryTo, InMemory, Headers, Loaded
<1>6. LoadByte \in Nat
  BY <1>1, LoadAssumption DEF BootInv, TypeOK, LoadByte, LesserOf
<1> QED BY <1>1, <1>2, <1>3, <1>4, <1>5, <1>6, ReadToKeeps DEF Seeks, Reading

\* What the loader got when it had read.
LEMMA WasRead ==
  ASSUME BootInv, NEW from \in Reading, Good(from)
  PROVE  /\ call.buff \in Seq(Nat) /\ DOMAIN call.buff = 1 .. Len(call.buff)
         /\ fs.fptr - Len(call.buff) = Start /\ fs.fptr \in 0 .. card.size /\ card.size \in Nat
         /\ Len(call.buff) \in Nat /\ Len(call.buff) = LesserOf(Wanted, card.size - Start)
         /\ \A i \in DOMAIN call.buff : call.buff[i] = Start + i - 1
<1>1. /\ at \in Reading /\ Ended /\ Well /\ fs.opened /\ fs.fptr \in 0 .. card.size /\ card.size \in Nat
  BY Ready DEF Good, Back
<1>2. call \in CallType  BY DEF BootInv, TypeOK
<1>3. call.buff \in Seq(Nat) /\ DOMAIN call.buff = 1 .. Len(call.buff) /\ Len(call.buff) \in Nat
  BY <1>2, CallForm, LenProperties
<1>4. /\ fs.fptr - Len(call.buff) = Start
      /\ Missed + Len(call.buff) = LesserOf(Wanted, card.size - Start) /\ Missed = 0
  BY <1>1 DEF BootInv, PosInv, Missed
<1>5. \A i \in DOMAIN call.buff : call.buff[i] = fs.fptr - Len(call.buff) + i - 1
  BY <1>1 DEF BootInv, BuffInv, Ended
<1> QED BY <1>1, <1>3, <1>4, <1>5

\* The next header, or the end.
LEMMA NextHeaderKeeps ==
  ASSUME BootInv, NEW from \in Reading, Good(from), NEW n \in Nat \ {0}, NextHeader(n, n),
         mem' \in [Memory -> Int], load' \in LoadType, load'.phnum = n, load'.pos = n,
         load'.ph = HeaderOf(n - 1), InMemoryTo(n - 1)'
  PROVE  BootInv'
<1>1. /\ card \in Cards /\ OnCard /\ fs.opened /\ at = from /\ card' = card /\ faults' = faults
      /\ Ended /\ Well /\ call.res = "OK"
  BY Ready DEF Good
<1>2. card.phnum \in Nat  BY <1>1, ProgramsAssumption
<1>3. CASE n <= card.phnum
  <2>1. SeekTo(n, "seekheader") /\ at' = "seekheader"  BY <1>3 DEF NextHeader, SeekTo
  <2>2. Target' = n  BY <2>1 DEF Target
  <2>3. (HeaderOf(n - 1))' = HeaderOf(n - 1)  BY <1>1 DEF HeaderOf
  <2>4. load'.ph = (HeaderOf(n - 1))'  BY <2>3
  <2>5. n \in 1 .. card'.phnum  BY <1>1, <1>2, <1>3
  <2>7. (HeaderOf(load.phnum - 1))' = (HeaderOf(n - 1))' /\ (InMemoryTo(load.phnum - 1)' <=> InMemoryTo(n - 1)')
    BY DEF HeaderOf, InMemoryTo, InMemory
  <2>6. LoadInv'  BY <2>1, <2>4, <2>5, <2>7 DEF LoadInv, Segments
  <2> QED BY <2>1, <2>2, <2>6, SeekToKeeps DEF Seeks
<1>4. CASE n > card.phnum
  <2>1. Stops("run")  BY <1>2, <1>4 DEF NextHeader
  <2>2. InMemoryTo(card.phnum)'
    <3>1. card' = card  BY <1>1
    <3>2. \A p \in Headers' : p <= card'.phnum => p <= n - 1
      BY <1>1, <1>2, <1>4 DEF Headers, HeadersOf
    <3> QED BY <3>2 DEF InMemoryTo
  <2>3. at # "failed"  BY <1>1 DEF Reading
  <2> QED BY <1>1, <2>1, <2>2, <2>3, StopsKeeps
<1> QED BY <1>2, <1>3, <1>4

\* The ELF header is right, or not.
LEMMA ElfReadKeeps == ASSUME BootInv, ElfRead PROVE BootInv'
<1>1. /\ at = "readelf" /\ Good("readelf") /\ card' = card /\ faults' = faults /\ Ended
      /\ mem \in [Memory -> Int] /\ load \in LoadType
  BY DEF BootInv, TypeOK, LoadType, ElfRead, Good, Back, Ended
<1>2. CASE Fail
  BY <1>1, <1>2, StopsKeeps DEF Fail
<1>3. CASE /\ NextHeader(1, 1) /\ mem' = mem /\ load' = [load EXCEPT !.phnum = 1, !.pos = 1]
  <2>1. load.ph = NoHeader  BY <1>1 DEF BootInv, LoadInv
  <2>2. load' \in LoadType /\ load'.phnum = 1 /\ load'.pos = 1 /\ load'.ph = NoHeader
    BY <1>1, <1>3, <2>1 DEF LoadType
  <2>3. card.size \in Nat  BY <1>1, WasRead DEF Reading
  <2>4. HeaderOf(1 - 1) = NoHeader
    <3>1. LesserOf(1 - 1, card.size - 1) < 1  BY <2>3 DEF LesserOf
    <3> QED BY <3>1 DEF HeaderOf
  <2>5. InMemoryTo(1 - 1)'
    <3>1. \A p \in Headers' : ~(p <= 1 - 1)  BY DEF Headers, HeadersOf
    <3> QED BY <3>1 DEF InMemoryTo
  <2>6. 1 \in Nat \ {0} /\ mem' \in [Memory -> Int]  BY <1>1, <1>3
  <2> QED BY <1>1, <1>3, <2>2, <2>4, <2>5, <2>6, NextHeaderKeeps DEF Reading
<1> QED BY <1>2, <1>3 DEF ElfRead

\* The header that is used is one of the program's, or none.
LEMMA HeaderForm ==
  ASSUME card \in Cards, NEW n \in Nat, n <= card.phnum
  PROVE  /\ HeaderOf(n) \in Header
         /\ n \in Headers => HeaderOf(n) = card.ph[n]
         /\ HeaderOf(n).load => \E p \in Headers : p <= n /\ HeaderOf(n) = card.ph[p]
<1>1. card.phnum \in Nat /\ card.size \in Nat  BY ProgramsAssumption, CardForm
<1>2. \A p \in Headers : card.ph[p] \in Header  BY ProgramsAssumption DEF Headers, Header
<1> DEFINE q == LesserOf(n, card.size - 1)
<1>3. q \in Int /\ q <= n /\ (q >= 1 => q \in Headers)  BY <1>1 DEF Headers, HeadersOf, LesserOf
<1>4. n \in Headers => q = n /\ q >= 1  BY <1>1 DEF Headers, HeadersOf, LesserOf
<1>5. HeaderOf(n) = IF q < 1 THEN NoHeader ELSE card.ph[q]  BY DEF HeaderOf
<1> HIDE DEF q
<1>6. NoHeader \in Header /\ ~NoHeader.load  BY DEF NoHeader, Header
<1> QED BY <1>2, <1>3, <1>4, <1>5, <1>6

\* One header is used, and then the next one or its segment.
LEMMA HeaderReadKeeps == ASSUME BootInv, HeaderRead PROVE BootInv'
<1> DEFINE ph == IF call.buff = << >> THEN load.ph ELSE card.ph[call.buff[1]]
<1>1. /\ at = "readheader" /\ Good("readheader") /\ card' = card /\ faults' = faults /\ Ended
      /\ mem \in [Memory -> Int] /\ load \in LoadType /\ card \in Cards
  BY DEF BootInv, TypeOK, LoadType, HeaderRead, Good, Back, Ended
<1>9. PICK n \in Nat : n = load.phnum  BY <1>1 DEF LoadType
<1>2. load.pos = n /\ n \in 1 .. card.phnum /\ load.ph = HeaderOf(n - 1) /\ InMemoryTo(n - 1)
  BY <1>1, <1>9 DEF BootInv, LoadInv
<1>3. card.phnum \in Nat /\ card.size \in Nat  BY <1>1, ProgramsAssumption, CardForm
<1>4. ph = HeaderOf(n) /\ HeaderOf(n) \in Header
  <2>1. Target = n /\ Wanted = 1  BY <1>1, <1>2 DEF Target, Wanted
  <2>2. /\ Len(call.buff) \in Nat /\ Len(call.buff) = LesserOf(1, card.size - Start)
        /\ DOMAIN call.buff = 1 .. Len(call.buff) /\ call.buff \in Seq(Nat)
        /\ \A i \in DOMAIN call.buff : call.buff[i] = Start + i - 1
    BY <1>1, <2>1, WasRead DEF Reading
  <2>3. Start = LesserOf(n, card.size)  BY <2>1 DEF Start
  <2>4. CASE n < card.size
    <3>1. Start = n /\ Len(call.buff) = 1  BY <1>2, <1>3, <2>2, <2>3, <2>4 DEF LesserOf
    <3>2. call.buff # << >> /\ call.buff[1] = n
      <4> DEFINE b == call.buff
      <4>1. DOMAIN b = 1 .. Len(b) /\ Len(b) = 1 /\ \A i \in DOMAIN b : b[i] = Start + i - 1
        BY <2>2, <3>1
      <4> HIDE DEF b
      <4>2. 1 \in DOMAIN b /\ b # << >>  BY <4>1
      <4>3. b[1] = n  BY <1>2, <1>3, <3>1, <4>1, <4>2
      <4> QED BY <4>2, <4>3 DEF b
    <3>3. n \in Headers  BY <1>2, <1>3, <2>4 DEF Headers, HeadersOf, LesserOf
    <3> QED BY <1>1, <1>2, <1>3, <3>2, <3>3, HeaderForm
  <2>5. CASE n >= card.size
    <3>1. Len(call.buff) = 0  BY <1>2, <1>3, <2>2, <2>3, <2>5 DEF LesserOf
    <3>2. call.buff = << >>  BY <2>2, <3>1, EmptySeq
    <3>3. LesserOf(n, card.size - 1) = LesserOf(n - 1, card.size - 1)  BY <1>2, <1>3, <2>5 DEF LesserOf
    <3>4. HeaderOf(n) = HeaderOf(n - 1)  BY <3>3 DEF HeaderOf
    <3> QED BY <1>1, <1>2, <1>3, <3>2, <3>4, HeaderForm
  <2> QED BY <1>2, <1>3, <2>4, <2>5
<1> HIDE DEF ph
<1>5. n \in Nat \ {0} /\ load.phnum = n /\ ph \in Header /\ load.pos = n
  BY <1>2, <1>3, <1>4, <1>9
<1>6. CASE /\ ~(ph.load /\ ph.size > 0) /\ NextHeader(n + 1, n + 1) /\ mem' = mem
           /\ load' = [load EXCEPT !.phnum = n + 1, !.pos = n + 1, !.ph = ph]
  <2> DEFINE m == n + 1
  <2>1. m \in Nat \ {0} /\ m - 1 = n  BY <1>5
  <2>2. load' \in LoadType /\ load'.phnum = m /\ load'.pos = m /\ load'.ph = ph
    <3>1. load' = [load EXCEPT !.phnum = m, !.pos = m, !.ph = ph]  BY <1>6
    <3> HIDE DEF m
    <3> QED BY <1>1, <1>5, <2>1, <3>1 DEF LoadType
  <2>3. load'.ph = HeaderOf(m - 1)  BY <1>4, <2>1, <2>2
  <2>4. InMemoryTo(m - 1)'
    <3> SUFFICES ASSUME NEW p \in Headers, p <= n, Loaded(p) PROVE InMemory(card.ph[p], card.ph[p].size)
      BY <1>1, <1>6, <2>1 DEF InMemoryTo, InMemory, Headers, Loaded
    <3>1. p \in Nat /\ p >= 1  BY DEF Headers, HeadersOf
    <3>2. CASE p <= n - 1  BY <1>2, <3>2 DEF InMemoryTo
    <3>3. CASE p = n
      <4>1. card.ph[p] = ph  BY <1>1, <1>2, <1>3, <1>4, <1>5, <3>3, HeaderForm
      <4>2. ph.size = 0 /\ ph.load  BY <1>5, <1>6, <4>1 DEF Loaded, Header
      <4> QED BY <4>1, <4>2 DEF InMemory
    <3> QED BY <1>5, <3>1, <3>2, <3>3
  <2>5. mem' \in [Memory -> Int] /\ NextHeader(m, m)  BY <1>1, <1>6
  <2> HIDE DEF m
  <2> QED BY <1>1, <2>1, <2>2, <2>3, <2>4, <2>5, NextHeaderKeeps DEF Reading
<1>7. CASE Fail
  BY <1>1, <1>7, StopsKeeps DEF Fail
<1>8. CASE /\ ph.load /\ ph.size > 0 /\ SeekTo(ph.offset, "seeksegment") /\ mem' = mem
           /\ load' = [load EXCEPT !.pos = n + 1, !.ph = ph, !.addr = ph.addr, !.size = ph.size]
  <2>1. ph.offset \in Nat /\ ph.addr \in Int /\ ph.size \in Nat \ {0}  BY <1>5, <1>8 DEF Header
  <2>2. /\ load' \in LoadType /\ load'.phnum = n /\ load'.pos = n + 1 /\ load'.ph = ph
        /\ load'.addr = ph.addr /\ load'.size = ph.size
    <3> DEFINE m == n + 1
    <3>1. m \in Nat /\ load' = [load EXCEPT !.pos = m, !.ph = ph, !.addr = ph.addr, !.size = ph.size]
      BY <1>5, <1>8
    <3> HIDE DEF m
    <3>2. /\ load' \in LoadType /\ load'.phnum = n /\ load'.pos = m /\ load'.ph = ph
          /\ load'.addr = ph.addr /\ load'.size = ph.size
      BY <1>1, <1>5, <2>1, <3>1 DEF LoadType
    <3> QED BY <3>2 DEF m
  <2>3. at' = "seeksegment"  BY <1>8 DEF SeekTo
  <2>4. Target' = ph.offset  BY <2>1, <2>2, <2>3 DEF Target
  <2>5. LoadInv'
    <3>1. HeaderOf(load.phnum)' = ph  BY <1>1, <1>4, <2>2 DEF HeaderOf
    <3>2. InMemoryTo(load.phnum - 1)'
      BY <1>1, <1>2, <1>8, <2>2 DEF InMemoryTo, InMemory, Headers, Loaded
    <3>3. InMemory(load.ph, load.ph.size - load.size)'  BY <2>1, <2>2 DEF InMemory
    <3>4. load'.phnum \in 1 .. card'.phnum  BY <1>1, <1>2, <2>2
    <3>5. load'.size \in 1 .. load'.ph.size /\ load'.addr = load'.ph.addr + (load'.ph.size - load'.size)
      BY <2>1, <2>2
    <3> QED BY <1>8, <2>2, <2>3, <3>1, <3>2, <3>3, <3>4, <3>5 DEF LoadInv, Segments
  <2>6. mem' \in [Memory -> Int]  BY <1>1, <1>8
  <2> QED BY <1>1, <1>8, <2>1, <2>2, <2>3, <2>4, <2>5, <2>6, SeekToKeeps DEF Seeks, Reading
<1> QED BY <1>5, <1>6, <1>7, <1>8, <1>9 DEF HeaderRead, ph

\* A piece is in the memory.
LEMMA PieceReadKeeps == ASSUME BootInv, PieceRead PROVE BootInv'
<1>1. /\ at = "readsegment" /\ Good("readsegment") /\ card' = card /\ faults' = faults /\ Ended
      /\ mem \in [Memory -> Int] /\ load \in LoadType /\ card \in Cards
  BY DEF BootInv, TypeOK, LoadType, PieceRead, Good, Back, Ended
<1>2. PICK n \in Nat : n = load.phnum  BY <1>1 DEF LoadType
<1>3. PICK ph \in Header : ph = load.ph  BY <1>1 DEF LoadType
<1>4. PICK b : b = call.buff  OBVIOUS
<1>5. PICK r \in Nat : r = load.size  BY <1>1 DEF LoadType
<1>6. /\ load.pos = n + 1 /\ n \in 1 .. card.phnum /\ ph = HeaderOf(n) /\ ph.load /\ r \in 1 .. ph.size
      /\ load.addr = ph.addr + (ph.size - r) /\ InMemoryTo(n - 1) /\ InMemory(ph, ph.size - r)
  BY <1>1, <1>2, <1>3, <1>5 DEF BootInv, LoadInv, Segments
<1>7. card.phnum \in Nat /\ card.size \in Nat  BY <1>1, ProgramsAssumption, CardForm
<1>8. ph.offset \in Nat /\ ph.addr \in Int /\ ph.size \in Nat  BY DEF Header
<1>9. PICK d \in Nat : d = ph.size - r  BY <1>6, <1>8
<1>10. PICK l \in Nat : l = LoadByte  BY <1>5, LoadAssumption DEF LoadByte, LesserOf
<1>11. l \in 1 .. r /\ (r <= l => l = r)  BY <1>5, <1>6, <1>10, LoadAssumption DEF LoadByte, LesserOf
\* What was read.
<1>12. PICK t \in Nat : t = ph.offset + d  BY <1>8, <1>9
<1>13. Target = t /\ Wanted = l
  BY <1>1, <1>3, <1>5, <1>9, <1>10, <1>12 DEF Target, Wanted
<1>14. /\ DOMAIN b = 1 .. Len(b) /\ Len(b) \in Nat /\ Len(b) = LesserOf(l, card.size - Start)
       /\ fs.fptr - Len(b) = Start /\ fs.fptr \in 0 .. card.size
       /\ \A i \in DOMAIN b : b[i] = Start + i - 1
  BY <1>1, <1>4, <1>13, WasRead DEF Reading
<1>15. Start = LesserOf(t, card.size)  BY <1>13 DEF Start
<1>16. Len(b) <= l /\ (t < card.size => Start = t) /\ (t >= card.size => Len(b) = 0)
       /\ fs.fptr = LesserOf(t + l, card.size)
  BY <1>7, <1>11, <1>14, <1>15 DEF LesserOf
\* The memory.
<1>17. PICK a0 \in Int : a0 = load.addr  BY <1>1 DEF LoadType
<1>18. mem' = [a \in Memory |-> IF a - a0 + 1 \in DOMAIN b THEN b[a - a0 + 1] ELSE mem[a]]
  BY <1>4, <1>17 DEF PieceRead
<1>19. a0 = ph.addr + d  BY <1>5, <1>6, <1>9, <1>17
<1>20. mem' \in [Memory -> Int]
  <2>1. ASSUME NEW a \in Memory
        PROVE  (IF a - a0 + 1 \in DOMAIN b THEN b[a - a0 + 1] ELSE mem[a]) \in Int
    <3>1. mem[a] \in Int  BY <1>1
    <3>2. Start \in Int  BY <1>14
    <3>3. \A i \in DOMAIN b : b[i] \in Int  BY <1>14, <3>2
    <3> QED BY <3>1, <3>3
  <2> QED BY <1>18, <2>1
<1>21. PICK q \in Headers : q <= n /\ ph = card.ph[q]  BY <1>1, <1>6, HeaderForm
<1>22. ASSUME NEW k \in 0 .. ph.size - 1
       PROVE  /\ ph.addr + k \in Memory
              /\ mem'[ph.addr + k] = mem[ph.addr + k] \/ mem'[ph.addr + k] = ph.offset + k
              /\ k < d => mem'[ph.addr + k] = mem[ph.addr + k]
              /\ k \in d .. d + l - 1 /\ ph.offset + k < card.size => mem'[ph.addr + k] = ph.offset + k
  <2>1. ph.addr + k \in Memory
    <3>1. Extent(card.ph[q]) \subseteq Memory  BY <1>1, ProgramsAssumption DEF Headers
    <3>2. Extent(ph) = ph.addr .. ph.addr + ph.size - 1  BY <1>6 DEF Extent
    <3> QED BY <1>8, <1>21, <3>1, <3>2, SMTT(30)
  <2> DEFINE i == k - d + 1
  <2>2. (ph.addr + k) - a0 + 1 = i  BY <1>8, <1>9, <1>19
  <2>3. mem'[ph.addr + k] = IF i \in DOMAIN b THEN b[i] ELSE mem[ph.addr + k]  BY <1>18, <2>1, <2>2
  <2>4. i \in DOMAIN b => b[i] = ph.offset + k
    <3> SUFFICES ASSUME i \in DOMAIN b PROVE b[i] = ph.offset + k  OBVIOUS
    <3>1. b[i] = Start + i - 1 /\ i \in 1 .. Len(b)  BY <1>14
    <3>2. Start = t  BY <1>7, <1>16, <3>1
    <3>3. t + (k - d + 1) - 1 = ph.offset + k  BY <1>8, <1>9, <1>12
    <3> QED BY <3>1, <3>2, <3>3
  <2>5. k < d => i \notin DOMAIN b  BY <1>9, <1>14
  <2>6. ASSUME k \in d .. d + l - 1, ph.offset + k < card.size PROVE i \in DOMAIN b
    <3>1. t + i <= card.size /\ i \in 1 .. l  BY <1>7, <1>8, <1>9, <1>12, <2>6
    <3>2. t < card.size  BY <1>7, <1>12, <3>1
    <3>3. Start = t /\ Len(b) = LesserOf(l, card.size - t)  BY <1>14, <1>16, <3>2
    <3>4. i <= Len(b)  BY <1>7, <1>12, <3>1, <3>3 DEF LesserOf
    <3> QED BY <1>14, <3>1, <3>4
  <2> HIDE DEF i
  <2> QED BY <2>1, <2>3, <2>4, <2>5, <2>6
<1>23. ASSUME NEW p \in Headers, Loaded(p), NEW k \in 0 .. card.ph[p].size - 1
       PROVE  \/ mem'[card.ph[p].addr + k] = mem[card.ph[p].addr + k]
              \/ mem'[card.ph[p].addr + k] = card.ph[p].offset + k
  <2>1. CASE p = q  BY <1>21, <1>22, <1>23, <2>1
  <2>2. CASE p # q
    <3>1. PICK h \in Header : h = card.ph[p]  BY <1>1, ProgramsAssumption DEF Headers, Header
    <3>2. h.addr \in Int /\ h.size \in Nat /\ h.load /\ k \in 0 .. h.size - 1
      BY <1>23, <3>1 DEF Header, Loaded
    <3>3. Extent(h) \intersect Extent(ph) = {} /\ Extent(h) \subseteq Memory
      BY <1>1, <1>21, <2>2, <3>1, ProgramsAssumption DEF Headers
    <3>4. PICK a \in Int : a = h.addr + k  BY <3>2
    <3>5. a \in Extent(h)  BY <3>2, <3>4 DEF Extent
    <3>6. a \notin ph.addr .. ph.addr + ph.size - 1  BY <1>6, <3>3, <3>5 DEF Extent
    <3>7. a - a0 + 1 \notin DOMAIN b
      <4>1. ASSUME a - a0 + 1 \in 1 .. Len(b) PROVE FALSE
        <5>1. a - a0 + 1 <= l /\ a - a0 + 1 >= 1  BY <1>11, <1>14, <1>16, <4>1
        <5>2. a >= ph.addr + d /\ a <= ph.addr + d + l - 1  BY <1>8, <1>19, <5>1
        <5>3. d + l <= ph.size  BY <1>6, <1>8, <1>9, <1>11
        <5> QED BY <1>8, <1>9, <3>6, <5>2, <5>3
      <4> QED BY <1>14, <4>1
    <3>8. mem'[a] = mem[a]  BY <1>18, <3>3, <3>5, <3>7
    <3> QED BY <3>1, <3>4, <3>8
  <2> QED BY <2>1, <2>2
<1>24. InMemoryTo(n - 1)'
  <2> SUFFICES ASSUME NEW p \in Headers, p <= n - 1, Loaded(p), NEW k \in 0 .. card.ph[p].size - 1,
                      card.ph[p].offset + k < card.size
               PROVE  mem'[card.ph[p].addr + k] = card.ph[p].offset + k
    BY <1>1 DEF InMemoryTo, InMemory, Headers, Loaded
  <2>1. mem[card.ph[p].addr + k] = card.ph[p].offset + k  BY <1>6 DEF InMemoryTo, InMemory
  <2> QED BY <1>23, <2>1
<1>25. InMemory(ph, d + l)'
  <2> SUFFICES ASSUME NEW k \in 0 .. d + l - 1, ph.offset + k < card.size
               PROVE  mem'[ph.addr + k] = ph.offset + k
    BY <1>1 DEF InMemory
  <2>1. k \in 0 .. ph.size - 1  BY <1>6, <1>8, <1>9, <1>11
  <2>2. CASE k < d
    <3>1. k \in 0 .. ph.size - r - 1  BY <1>8, <1>9, <2>2
    <3>2. mem[ph.addr + k] = ph.offset + k  BY <1>6, <3>1 DEF InMemory
    <3> QED BY <1>22, <2>1, <2>2, <3>2
  <2>3. CASE k >= d  BY <1>9, <1>11, <1>22, <2>1, <2>3
  <2> QED BY <1>9, <2>2, <2>3
<1>26. CASE /\ r > l /\ NextPiece(r - l) /\ load' = [load EXCEPT !.addr = @ + l, !.size = @ - l]
  <2>1. PICK m \in Nat : m = r - l  BY <1>11, <1>26
  <2>2. PICK a1 \in Int : a1 = a0 + l  BY <1>11
  <2>3. load' = [load EXCEPT !.addr = a1, !.size = m]  BY <1>5, <1>17, <1>26, <2>1, <2>2
  <2>4. /\ load' \in LoadType /\ load'.phnum = n /\ load'.pos = n + 1 /\ load'.ph = ph
        /\ load'.addr = a1 /\ load'.size = m
    BY <1>1, <1>2, <1>3, <1>6, <2>3 DEF LoadType
  <2>5. ReadTo(LesserOf(m, Chunk), "readsegment") /\ at' = "readsegment"
    BY <1>26, <2>1 DEF NextPiece, ReadTo
  <2>6. PICK g \in Nat : g = LesserOf(m, Chunk)  BY LoadAssumption DEF LesserOf
  <2>7. Wanted' = g  BY <2>4, <2>5, <2>6 DEF Wanted, LoadByte
  <2>8. ph.size - m = d + l  BY <1>8, <1>9, <1>11, <2>1
  <2>9. Start' = LesserOf(t + l, card.size)
    <3>1. Target' = ph.offset + (ph.size - m)  BY <2>4, <2>5 DEF Target
    <3>2. Target' = t + l  BY <1>8, <1>9, <1>11, <1>12, <2>8, <3>1
    <3> QED BY <1>1, <3>2 DEF Start
  <2>10. LoadInv'
    <3>1. HeaderOf(load.phnum)' = ph  BY <1>1, <1>6, <2>4 DEF HeaderOf
    <3>2. InMemoryTo(load.phnum - 1)'  BY <1>24, <2>4 DEF InMemoryTo, InMemory
    <3>3. InMemory(load.ph, load.ph.size - load.size)'  BY <1>25, <2>4, <2>8 DEF InMemory
    <3>4. load'.phnum \in 1 .. card'.phnum  BY <1>1, <1>6, <2>4
    <3>5. load'.size \in 1 .. load'.ph.size /\ load'.addr = load'.ph.addr + (load'.ph.size - load'.size)
      <4>1. m \in 1 .. ph.size  BY <1>6, <1>8, <1>11, <1>26, <2>1
      <4>2. a1 = ph.addr + (ph.size - m)  BY <1>8, <1>9, <1>11, <1>19, <2>2, <2>8
      <4> QED BY <2>4, <4>1, <4>2
    <3> QED BY <1>6, <2>4, <2>5, <3>1, <3>2, <3>3, <3>4, <3>5 DEF LoadInv, Segments
  <2> QED BY <1>1, <1>16, <1>20, <2>4, <2>5, <2>6, <2>7, <2>9, <2>10, ReadToKeeps DEF Reading
<1>27. CASE /\ ~(r > l) /\ NextHeader(n + 1, n + 1)
            /\ load' = [load EXCEPT !.phnum = n + 1, !.addr = @ + l, !.size = 0]
  <2>1. PICK m \in Nat \ {0} : m = n + 1  BY <1>6
  <2>2. PICK a1 \in Int : a1 = a0 + l  BY <1>11
  <2>3. load' = [load EXCEPT !.phnum = m, !.addr = a1, !.size = 0]  BY <1>17, <1>27, <2>1, <2>2
  <2>4. load' \in LoadType /\ load'.phnum = m /\ load'.pos = m /\ load'.ph = ph
    BY <1>1, <1>3, <1>6, <2>1, <2>3 DEF LoadType
  <2>5. load'.ph = HeaderOf(m - 1)
    <3>1. m - 1 = n  BY <2>1
    <3> QED BY <1>6, <2>4, <3>1
  <2>6. InMemoryTo(m - 1)'
    <3> SUFFICES ASSUME NEW p \in Headers, p <= n, Loaded(p) PROVE InMemory(card.ph[p], card.ph[p].size)'
      BY <1>1, <2>1 DEF InMemoryTo, InMemory, Headers, Loaded
    <3>1. p \in Nat /\ p >= 1  BY DEF Headers, HeadersOf
    <3>2. CASE p <= n - 1  BY <1>1, <1>24, <3>2 DEF InMemoryTo, InMemory, Headers, Loaded
    <3>3. CASE p = n
      <4>1. card.ph[p] = ph  BY <1>1, <1>6, <1>7, <3>3, HeaderForm
      <4>2. d + l = ph.size  BY <1>6, <1>8, <1>9, <1>11, <1>27
      <4> QED BY <1>1, <1>25, <4>1, <4>2 DEF InMemory
    <3> QED BY <3>1, <3>2, <3>3
  <2>7. NextHeader(m, m)  BY <1>27, <2>1
  <2> QED BY <1>1, <1>20, <2>4, <2>5, <2>6, <2>7, NextHeaderKeeps DEF Reading
<1> QED BY <1>2, <1>5, <1>6, <1>10, <1>26, <1>27 DEF PieceRead

-----------------------------------------------------------------------------
(* The theorems.                                                           *)

\* The invariant holds in the beginning.
LEMMA InitHolds == Init => BootInv
<1> SUFFICES ASSUME Init PROVE BootInv  OBVIOUS
<1>1. /\ card \in Cards /\ fs = NoVolume /\ dj = NoDir /\ call = Running("mount", 0) /\ faults = 0
      /\ at = "mount" /\ mem = [a \in Memory |-> Older]
      /\ load = [phnum |-> 0, pos |-> 0, ph |-> NoHeader, addr |-> 0, size |-> 0]
  BY DEF Init, PetitInit
<1>2. call \in CallType /\ call.op = "mount"  BY <1>1 DEF Running, CallType, Ops
<1>3. fs \in Volume /\ ~fs.opened  BY <1>1 DEF NoVolume, Volume
<1>4. dj \in Directories  BY <1>1, PetitAssumption DEF NoDir, Directories
<1>5. mem \in [Memory -> Int]  BY <1>1 DEF Older
<1>6. load \in LoadType  BY <1>1 DEF LoadType, NoHeader, Header
<1>7. TypeOK  BY <1>1, <1>2, <1>3, <1>4, <1>5, <1>6 DEF TypeOK, LoadType
<1>8. OpInv /\ MountInv /\ DirInv /\ FileInv /\ BuffInv
  <2>1. OpInv  BY <1>1, <1>2 DEF OpInv, Seeks, Reading
  <2>2. MountInv /\ DirInv  BY <1>1, <1>2, <1>3 DEF MountInv, DirInv, Ended
  <2> QED BY <1>3, <2>1, <2>2, NoFile
<1>9. OpenInv /\ PosInv /\ FaultInv  BY <1>1 DEF OpenInv, PosInv, FaultInv, Seeks, Reading
<1>10. LoadInv  BY <1>1 DEF LoadInv, Segments
<1> QED BY <1>7, <1>8, <1>9, <1>10 DEF BootInv

\* Every step keeps it.
LEMMA BootInvKept == BootInv /\ [Next]_vars => BootInv'
<1> SUFFICES ASSUME BootInv, [Next]_vars PROVE BootInv'  OBVIOUS
<1>1. CASE PetitStep /\ UNCHANGED <<at, load, mem>>
  BY <1>1, MountChecksKeeps, MountTableKeeps, MountPartitionKeeps, MountParametersKeeps,
     FindEntryKeeps, FindClusterKeeps, SeekFollowsKeeps, SeekEndsKeeps,
     ReadClusterKeeps, ReadSectorKeeps, ReadEndsKeeps
  DEF PetitStep, Stays
<1>2. CASE Loader
  BY <1>2, CallFailedKeeps, MountedKeeps, OpenedKeeps, AtElfKeeps, ElfReadKeeps, AtHeaderKeeps,
     HeaderReadKeeps, AtSegmentKeeps, PieceReadKeeps
  DEF Loader
<1>3. CASE UNCHANGED vars
  BY <1>3 DEF vars, BootInv, TypeOK, OpInv, MountInv, OnCard, DataStart, FatEnd, DirInv, Root,
     SectorsOf, SectorOf, ClustersOf, FileInv, Stands, InCluster, Index, PerCluster, SectorAt,
     FirstSector, Clusters, SeekInv, ReadInv, OpenInv, BuffInv, PosInv, Target, Wanted, LoadByte,
     Missed, Start, FaultInv, Ended, Well, LoadInv, HeaderOf, InMemoryTo, InMemory, Headers, Loaded
<1> QED BY <1>1, <1>2, <1>3 DEF Next

\* The invariant of the boot loader and its file system: which function
\* runs, which unit it is at, and which part of the program is loaded.
THEOREM BootInvHolds == Spec => []BootInv
<1> QED BY InitHolds, BootInvKept, PTL DEF Spec

\* PlaceTrue: after pf_lseek and pf_read have returned the file object has
\* the cluster and the sector of its pointer, however it came there.
THEOREM PlaceTrueHolds == Spec => []PlaceTrue
<1>1. BootInv => PlaceTrue
  <2> SUFFICES ASSUME BootInv, call.op = "none", fs.opened, fs.fptr > 0
               PROVE  LET c == card.chain[(fs.fptr - 1) \div CU + 1] IN
                      fs.curr = c /\ (fs.fptr % SU # 0 => fs.dsect = SectorAt(fs.fptr, c))
    BY DEF PlaceTrue
  <2>1. OnCard /\ Stands /\ card \in Cards  BY DEF BootInv, TypeOK, FileInv, Ended
  <2>2. CU = PerCluster  BY <2>1, VolumeSectors
  <2>3. fs.curr = card.chain[(fs.fptr - 1) \div CU + 1]  BY <2>1, <2>2 DEF Stands, InCluster, Index
  <2>4. fs.fptr % SU # 0 => fs.dsect = SectorAt(fs.fptr, fs.curr)  BY <2>1 DEF Stands
  <2> QED BY <2>3, <2>4
<1> QED BY <1>1, BootInvHolds, PTL

\* ProgramLoaded: the program that the loader jumps to is in the memory as
\* its headers say, as far as the file goes, and no access has failed but a
\* read of the type of a boot record, which pf_mount forgets.
THEOREM ProgramLoadedHolds == Spec => []ProgramLoaded
<1>1. BootInv => ProgramLoaded
  <2> SUFFICES ASSUME BootInv, at = "run" PROVE
        /\ faults = 0
        /\ \A p \in Headers : Loaded(p) =>
             \A k \in 0 .. card.ph[p].size - 1 :
               card.ph[p].offset + k < card.size => mem[card.ph[p].addr + k] = card.ph[p].offset + k
    BY DEF ProgramLoaded
  <2>1. call.op = "none" /\ call.res = "OK" /\ InMemoryTo(card.phnum) /\ card \in Cards /\ faults \in Nat
    BY DEF BootInv, TypeOK, LoadInv, Ended
  <2>2. faults = 0  BY <2>1 DEF BootInv, FaultInv, Well
  <2>3. \A p \in Headers : p <= card.phnum
    <3>1. card.phnum \in Nat /\ card.size \in Nat  BY <2>1, ProgramsAssumption, CardForm
    <3> QED BY <3>1 DEF Headers, HeadersOf, LesserOf
  <2> QED BY <2>1, <2>2, <2>3 DEF InMemoryTo, InMemory
<1> QED BY <1>1, BootInvHolds, PTL

=============================================================================
