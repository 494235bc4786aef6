----------------------------- MODULE MmcfsProofs -----------------------------
(***************************************************************************)
(* Theorems about module Mmcfs: no file of a card that was exchanged is    *)
(* used again, no file pointer is used behind the end, and the slots of    *)
(* the device have one owner each.                                         *)
(*                                                                         *)
(* SlotInv is about the descriptors and the stack.  Its part that is not   *)
(* in SlotsDisjoint is that fd_flags and priv of an open descriptor name   *)
(* the same slot: close takes the number that it gives back from the one   *)
(* and the object that it closes from the other.                           *)
(*                                                                         *)
(* FileInv is about the objects.  No identity is ahead of Fsid, so a mount *)
(* makes every object stale; an object that is not stale was opened on the *)
(* card that is in the socket, because a card that is put in is not live.  *)
(***************************************************************************)
EXTENDS Mmcfs, FiniteSetTheorems, TLAPS

TableType ==
  /\ fdtab \in [Fds -> [open : BOOLEAN, flags : Nat, slot : Slots]]
  /\ slotfd \in [Slots -> Slots]
  /\ nfree \in 0..MaxFd

SlotInv ==
  /\ TableType
  /\ \A fd \in Fds : fdtab[fd].open => fdtab[fd].flags = fdtab[fd].slot
  /\ \A fd \in Fds : fdtab[fd].open =>
       \A i \in 0 .. nfree - 1 : slotfd[i] # fdtab[fd].slot
  /\ \A fd, g \in Fds : fdtab[fd].open /\ fdtab[g].open
                        /\ fdtab[fd].slot = fdtab[g].slot => fd = g
  /\ \A i, j \in 0 .. nfree - 1 : slotfd[i] = slotfd[j] => i = j

VolumeType ==
  /\ fil \in [Slots -> FilType]
  /\ fstype \in {0, 1} /\ fsid \in 0..MaxMounts
  /\ live \in BOOLEAN /\ noinit \in BOOLEAN
  /\ card \in Cards \cup {Nil}
  /\ view \in [Names -> 0..Absent]
  /\ dir \in [Cards -> [Names -> 0..Absent]]

FileInv ==
  /\ VolumeType
  /\ card = Nil => ~live
  /\ \A s \in Slots :
       fil[s].open =>
         /\ fil[s].id <= fsid
         /\ fil[s].id = fsid /\ fstype # 0 /\ live => fil[s].card = card
  /\ \A s \in Slots : fil[s].err \/ fil[s].fptr <= fil[s].fsize

IInv == SlotInv /\ FileInv

USE MmcfsAssumption DEF MmcfsAssumption

\* A descriptor is open, so the stack of free slots is not full.
LEMMA RoomOnStack ==
  ASSUME SlotInv, NEW fd \in Fds, fdtab[fd].open
  PROVE  nfree < MaxFd
<1> DEFINE rest == Slots \ {fdtab[fd].slot}
           top  == [i \in 0 .. nfree - 1 |-> slotfd[i]]
<1>1. nfree \in 0..MaxFd /\ MaxFd \in Nat \ {0} /\ fdtab[fd].slot \in Slots
  BY DEF SlotInv, TableType
<1>2. top \in Injection(0 .. nfree - 1, rest)
  <2>1. \A i \in 0 .. nfree - 1 : i \in Slots /\ slotfd[i] \in rest
    BY <1>1 DEF SlotInv, TableType, Slots
  <2>2. top \in [0 .. nfree - 1 -> rest]
    BY <2>1
  <2>3. \A i, j \in 0 .. nfree - 1 : top[i] = top[j] => i = j
    BY DEF SlotInv
  <2> QED BY <2>2, <2>3 DEF Injection, IsInjective
<1>3. IsFiniteSet(Slots) /\ Cardinality(Slots) = MaxFd
  <2>1. 0 \in Int /\ MaxFd - 1 \in Int
    BY <1>1
  <2>2. /\ IsFiniteSet(0 .. MaxFd - 1)
        /\ Cardinality(0 .. MaxFd - 1) = IF 0 > MaxFd - 1 THEN 0 ELSE MaxFd - 1 - 0 + 1
    BY <2>1, FS_Interval
  <2> QED BY <1>1, <2>2 DEF Slots
<1>4. IsFiniteSet(rest) /\ Cardinality(rest) = MaxFd - 1
  BY <1>1, <1>3, FS_RemoveElement, SMTT(30)
<1>5. Cardinality(0 .. nfree - 1) = nfree
  BY <1>1, FS_Interval
<1>6. Cardinality(0 .. nfree - 1) <= Cardinality(rest)
  BY <1>2, <1>4, FS_Injection
<1> QED BY <1>1, <1>4, <1>5, <1>6

-----------------------------------------------------------------------------
(* The descriptors and the stack.                                          *)

\* An open takes its slot from the top of the stack.
LEMMA OpenKeepsSlots ==
  ASSUME SlotInv, NEW fd, NEW m, NEW name, NEW v, Open(fd, m, name, v)
  PROVE  SlotInv'
<1> DEFINE slot == slotfd[nfree - 1]
<1>1. /\ fd \in Fds /\ ~fdtab[fd].open /\ nfree > 0
      /\ nfree' = nfree - 1 /\ slotfd' = slotfd
      /\ fdtab' = [fdtab EXCEPT ![fd] = [open |-> TRUE, flags |-> slot, slot |-> slot]]
  BY DEF Open, FirstFree, OpenFds
<1>2. nfree - 1 \in Slots /\ nfree' \in 0..MaxFd /\ slot \in Slots /\ slot \in Nat
  BY <1>1 DEF SlotInv, TableType, Slots
<1>3. TableType'
  BY <1>1, <1>2 DEF SlotInv, TableType
<1>4. \A g \in Fds : fdtab'[g] = IF g = fd THEN [open |-> TRUE, flags |-> slot, slot |-> slot]
                                ELSE fdtab[g]
  BY <1>1 DEF SlotInv, TableType
<1>5. \A i \in 0 .. nfree' - 1 : i \in 0 .. nfree - 1 /\ slotfd[i] # slot
  BY <1>1, <1>2 DEF SlotInv, TableType
<1>6. \A g \in Fds : fdtab[g].open => fdtab[g].slot # slot
  BY <1>1, <1>2 DEF SlotInv, TableType
<1> QED BY <1>1, <1>3, <1>4, <1>5, <1>6 DEF SlotInv

\* A close gives back the slot of the descriptor, which nobody else has.
LEMMA CloseKeepsSlots ==
  ASSUME SlotInv, NEW fd \in Fds, Close(fd)
  PROVE  SlotInv'
<1> DEFINE slot == fdtab[fd].slot
<1>1. /\ fdtab[fd].open
      /\ slotfd' = [slotfd EXCEPT ![nfree] = slot] /\ nfree' = nfree + 1
      /\ fdtab' = [fdtab EXCEPT ![fd] = Free]
  <2>1. /\ fd \in OpenFds
        /\ Push(fdtab[fd].flags)
        /\ Release(fd)
    BY Zenon DEF Close
  <2>2. fdtab[fd].open /\ fdtab[fd].flags = slot
    BY <2>1 DEF OpenFds, SlotInv
  <2> QED BY <2>1, <2>2 DEF Push, Release
<1>2. nfree < MaxFd
  BY <1>1, RoomOnStack
<1>3. nfree \in Slots /\ nfree' \in 0..MaxFd /\ slot \in Slots
  BY <1>1, <1>2 DEF SlotInv, TableType, Slots
<1>4. Free \in [open : BOOLEAN, flags : Nat, slot : Slots]
  BY <1>3 DEF Free, Slots
<1>5. TableType'
  BY <1>1, <1>3, <1>4 DEF SlotInv, TableType
<1>6. \A g \in Fds : fdtab'[g].open => g # fd /\ fdtab'[g] = fdtab[g]
  BY <1>1 DEF SlotInv, TableType, Free
<1>7. \A i \in 0 .. nfree' - 1 :
        /\ i \in Slots
        /\ slotfd'[i] = IF i = nfree THEN slot ELSE slotfd[i]
        /\ i # nfree => i \in 0 .. nfree - 1
  BY <1>1, <1>2, <1>3 DEF SlotInv, TableType, Slots
<1>8. \A i \in 0 .. nfree - 1 : slotfd[i] # slot
  BY <1>1 DEF SlotInv
<1>9. \A g \in Fds : fdtab'[g].open => fdtab[g].slot # slot
  BY <1>1, <1>6 DEF SlotInv
<1>10. \A g \in Fds : fdtab'[g].open =>
         \A i \in 0 .. nfree' - 1 : slotfd'[i] # fdtab'[g].slot
  BY <1>6, <1>7, <1>9 DEF SlotInv
<1>11. \A i, j \in 0 .. nfree' - 1 : slotfd'[i] = slotfd'[j] => i = j
  BY <1>7, <1>8 DEF SlotInv
<1> QED BY <1>5, <1>6, <1>10, <1>11 DEF SlotInv

\* A failed close gives nothing back.
LEMMA CloseFailsKeepsSlots ==
  ASSUME SlotInv, NEW fd \in Fds, CloseFails(fd)
  PROVE  SlotInv'
<1>1. /\ slotfd' = slotfd /\ nfree' = nfree
      /\ fdtab' = [fdtab EXCEPT ![fd] = Free]
      /\ fdtab[fd].open
  BY DEF CloseFails, Release, OpenFds
<1>2. Free \in [open : BOOLEAN, flags : Nat, slot : Slots]
  BY <1>1 DEF SlotInv, TableType, Free, Slots
<1>3. TableType'
  BY <1>1, <1>2 DEF SlotInv, TableType
<1>4. \A g \in Fds : fdtab'[g].open => fdtab'[g] = fdtab[g]
  BY <1>1 DEF SlotInv, TableType, Free
<1> QED BY <1>1, <1>3, <1>4 DEF SlotInv

\* The other calls leave both alone.
LEMMA UpdateKeepsTable ==
  ASSUME NEW fd, NEW f, Update(fd, f)
  PROVE  UNCHANGED <<fdtab, slotfd, nfree>>
BY DEF Update

LEMMA AccessKeepsTable ==
  ASSUME NEW fd, NEW n, Read(fd, n) \/ Write(fd, n) \/ Seek(fd, n)
  PROVE  UNCHANGED <<fdtab, slotfd, nfree>>
<1>1. \A at : Abort(fd, at) => UNCHANGED <<fdtab, slotfd, nfree>>
  BY UpdateKeepsTable DEF Abort
<1>2. CASE Read(fd, n)
  BY <1>1, <1>2, UpdateKeepsTable, Zenon DEF Read
<1>3. CASE Write(fd, n)
  BY <1>1, <1>3, UpdateKeepsTable, Zenon DEF Write
<1>4. CASE Seek(fd, n)
  BY <1>1, <1>4, UpdateKeepsTable, Zenon DEF Seek
<1> QED BY <1>2, <1>3, <1>4

LEMMA SlotStep ==
  ASSUME SlotInv, [Next]_mmcvars
  PROVE  SlotInv'
<1> SUFFICES ASSUME ~ UNCHANGED <<fdtab, slotfd, nfree>>
             PROVE  SlotInv'
  BY DEF SlotInv, TableType
<1>1. ASSUME NEW m, NEW name, NEW v
      PROVE  ~OpenFails(m, name, v)
  BY DEF OpenFails
<1>2. ASSUME NEW fd
      PROVE  ~Refused(fd)
  BY DEF Refused
<1>3. ~PullOut /\ (\A c : ~PutIn(c)) /\ ~UNCHANGED mmcvars
  BY DEF PullOut, PutIn, mmcvars
<1>4. \/ \E fd \in Fds, m \in Modes, name \in Names, v \in Directories : Open(fd, m, name, v)
      \/ \E fd \in Fds : Close(fd) \/ CloseFails(fd)
  BY <1>1, <1>2, <1>3, AccessKeepsTable, Zenon DEF Next
<1> QED BY <1>4, OpenKeepsSlots, CloseKeepsSlots, CloseFailsKeepsSlots

LEMMA SlotInit ==
  ASSUME Init
  PROVE  SlotInv
<1>1. Slots = {} \/ 0 \in Slots
  BY DEF Slots
<1>2. TableType
  BY <1>1 DEF Init, TableType, Free, Fds, Slots
<1> QED BY <1>2 DEF Init, SlotInv, Free, Slots, TableType

LEMMA DirectoriesTyped ==
  ASSUME VolumeType, NEW v \in Directories
  PROVE  v \in [Names -> 0..Absent]
BY DEF VolumeType, Directories

LEMMA SyncTyped ==
  ASSUME VolumeType, view' \in [Names -> 0..Absent], MaybeSync
  PROVE  dir' \in [Cards -> [Names -> 0..Absent]]
BY DEF VolumeType, MaybeSync, Sync

\* A mount leaves an object that is still valid on the card in the socket,
\* and what it opens next is on that card too.
LEMMA MountKeepsFiles ==
  ASSUME FileInv, NEW v \in Directories, Mounted(v), card' = card
  PROVE  /\ fstype' \in {0, 1} /\ fsid' \in 0..MaxMounts /\ live' \in BOOLEAN
         /\ card # Nil /\ card \in Cards
         /\ \A s \in Slots :
              fil[s].open =>
                /\ fil[s].id <= fsid'
                /\ fil[s].id = fsid' /\ fstype' # 0 /\ live' => fil[s].card = card
<1>1. /\ fstype \in {0, 1} /\ fsid \in 0..MaxMounts /\ live \in BOOLEAN
      /\ card \in Cards \cup {Nil}
  BY DEF FileInv, VolumeType
<1>2. \A s \in Slots : fil[s].id \in 0..MaxMounts
  BY DEF FileInv, VolumeType, FilType
<1>3. CASE Ready /\ UNCHANGED <<fstype, fsid, live>>
  BY <1>1, <1>2, <1>3 DEF FileInv, Ready
<1>4. CASE card # Nil /\ fsid < MaxMounts /\ fstype' = 1 /\ live' = TRUE /\ fsid' = fsid + 1
  BY <1>1, <1>2, <1>4 DEF FileInv
<1> QED BY <1>3, <1>4 DEF Mounted

LEMMA AloneOnly ==
  ASSUME NEW f \in FilType, NEW g, g = [f EXCEPT !.alone = FALSE]
  PROVE  /\ g \in FilType
         /\ g.open = f.open /\ g.id = f.id /\ g.card = f.card
         /\ g.err = f.err /\ g.fptr = f.fptr /\ g.fsize = f.fsize
BY DEF FilType

\* The new object has the identity of the volume and the card of the socket.
LEMMA OpenKeepsFiles ==
  ASSUME FileInv, NEW fd, NEW m \in Modes, NEW name \in Names,
         NEW v \in Directories, Open(fd, m, name, v)
  PROVE  FileInv'
<1> DEFINE slot == slotfd[nfree - 1]
           f    == Opened(m, name, v)
<1>1. /\ Mounted(v) /\ noinit' = FALSE /\ card' = card /\ MaybeSync
      /\ view' = IF f.written THEN [v EXCEPT ![name] = 0] ELSE v
      /\ fil' = [Share(name) EXCEPT ![slot] = f]
  BY Zenon DEF Open
<1>2. v \in [Names -> 0..Absent]
  BY DirectoriesTyped DEF FileInv
<1>3. view' \in [Names -> 0..Absent]
  BY <1>1, <1>2 DEF Absent
<1>4. dir' \in [Cards -> [Names -> 0..Absent]]
  BY <1>1, <1>3, SyncTyped DEF FileInv
<1>5. /\ fstype' \in {0, 1} /\ fsid' \in 0..MaxMounts /\ live' \in BOOLEAN
      /\ card # Nil /\ card \in Cards
  BY <1>1, MountKeepsFiles
<1>6. m.rd \in BOOLEAN /\ m.wr \in BOOLEAN
  <2>1. PICK acc, app, creat : m = OpenMode(acc, app, creat)
    BY DEF Modes
  <2> QED BY <2>1 DEF OpenMode
<1>7. f \in FilType /\ f.open /\ f.id = fsid' /\ f.card = card /\ f.fptr <= f.fsize
  <2> DEFINE fresh == m.create = "createalways" \/ v[name] = Absent
             len   == IF fresh THEN 0 ELSE v[name]
             alone == \A g \in OpenFds : ~SameFile(FileOf(g), name)
  <2>1. len \in Size /\ 0 \in Size /\ fresh \in BOOLEAN /\ alone \in BOOLEAN
    BY <1>2 DEF Size, Absent
  <2>2. f = [open |-> TRUE, id |-> fsid', rd |-> m.rd, wr |-> m.wr,
             written |-> fresh, err |-> FALSE, fptr |-> 0, fsize |-> len,
             card |-> card, name |-> name, acked |-> 0, alone |-> alone]
    BY DEF Opened
  <2> HIDE DEF f, fresh, len, alone
  <2> QED BY <1>5, <1>6, <2>1, <2>2 DEF FilType, Size
<1> HIDE DEF f
<1>8. \A s \in Slots : /\ Share(name)[s] \in FilType
                      /\ Share(name)[s].open = fil[s].open
                      /\ Share(name)[s].id = fil[s].id
                      /\ Share(name)[s].card = fil[s].card
                      /\ Share(name)[s].err = fil[s].err
                      /\ Share(name)[s].fptr = fil[s].fptr
                      /\ Share(name)[s].fsize = fil[s].fsize
  <2> SUFFICES ASSUME NEW s \in Slots
               PROVE  /\ Share(name)[s] \in FilType
                      /\ Share(name)[s].open = fil[s].open
                      /\ Share(name)[s].id = fil[s].id
                      /\ Share(name)[s].card = fil[s].card
                      /\ Share(name)[s].err = fil[s].err
                      /\ Share(name)[s].fptr = fil[s].fptr
                      /\ Share(name)[s].fsize = fil[s].fsize
    OBVIOUS
  <2>1. fil[s] \in FilType
    BY DEF FileInv, VolumeType
  <2>2. \/ Share(name)[s] = [fil[s] EXCEPT !.alone = FALSE]
        \/ Share(name)[s] = fil[s]
    BY Zenon DEF Share
  <2> QED BY <2>1, <2>2, AloneOnly
<1>9. \A s \in Slots : fil'[s] = IF s = slot THEN f ELSE Share(name)[s]
  BY <1>1 DEF Share
<1>10. fil' \in [Slots -> FilType]
  BY <1>1, <1>7, <1>8 DEF Share
<1>11. VolumeType'
  BY <1>1, <1>3, <1>4, <1>5, <1>10 DEF VolumeType
<1>12. ASSUME NEW s \in Slots
       PROVE  /\ fil'[s].open =>
                   /\ fil'[s].id <= fsid'
                   /\ fil'[s].id = fsid' /\ fstype' # 0 /\ live' => fil'[s].card = card'
              /\ fil'[s].err \/ fil'[s].fptr <= fil'[s].fsize
  <2>1. CASE s = slot
    BY <1>1, <1>5, <1>7, <1>9, <2>1
  <2>2. CASE s # slot
    BY <1>1, <1>8, <1>9, <1>12, <2>2, MountKeepsFiles DEF FileInv
  <2> QED BY <2>1, <2>2
<1> QED BY <1>1, <1>5, <1>11, <1>12 DEF FileInv

\* A failed open or mount touches no object.
LEMMA OpenFailsKeepsFiles ==
  ASSUME FileInv, NEW m, NEW name, NEW v \in Directories, OpenFails(m, name, v)
  PROVE  FileInv'
<1>1. fil' = fil /\ card' = card
  BY DEF OpenFails
<1>2. CASE MountFails
  <2>1. view' \in [Names -> 0..Absent]
    BY <1>2 DEF MountFails, NoView, Absent
  <2>2. live' \in BOOLEAN /\ noinit' \in BOOLEAN /\ fstype' = 0 /\ (card = Nil => ~live')
        /\ fsid' = fsid /\ dir' = dir
    BY <1>2 DEF MountFails
  <2>3. VolumeType'
    BY <1>1, <2>1, <2>2 DEF FileInv, VolumeType
  <2> QED BY <1>1, <2>2, <2>3 DEF FileInv
<1>3. CASE /\ Mounted(v) /\ noinit' \in BOOLEAN /\ MaybeSync
           /\ view' = v \/ view' = [v EXCEPT ![name] = 0]
  <2>1. view' \in [Names -> 0..Absent]
    BY <1>3, DirectoriesTyped DEF FileInv, Absent
  <2>2. dir' \in [Cards -> [Names -> 0..Absent]]
    BY <1>3, <2>1, SyncTyped DEF FileInv
  <2> QED BY <1>1, <1>3, <2>1, <2>2, MountKeepsFiles DEF FileInv, VolumeType
<1> QED BY <1>2, <1>3, Zenon DEF OpenFails

\* A step that changes one object, and leaves it closed or the same file of
\* the same volume, with its pointer inside or aborted.
LEMMA ObjectStep ==
  ASSUME FileInv, NEW s \in Slots, NEW f \in FilType,
         fil' = [fil EXCEPT ![s] = f],
         f.open => fil[s].open /\ f.id = fil[s].id /\ f.card = fil[s].card,
         f.err \/ f.fptr <= f.fsize,
         noinit' \in BOOLEAN,
         view' \in [Names -> 0..Absent],
         dir' \in [Cards -> [Names -> 0..Absent]],
         UNCHANGED <<fstype, fsid, live, card>>
  PROVE  FileInv'
<1>1. VolumeType'
  BY DEF FileInv, VolumeType
<1>2. \A t \in Slots : fil'[t] = IF t = s THEN f ELSE fil[t]
  BY DEF FileInv, VolumeType
<1> QED BY <1>1, <1>2 DEF FileInv

LEMMA FileTyped ==
  ASSUME IInv, NEW fd \in OpenFds
  PROVE  fd \in Fds /\ fdtab[fd].slot \in Slots /\ FileOf(fd) \in FilType
BY DEF IInv, SlotInv, TableType, FileInv, VolumeType, OpenFds, FileOf

LEMMA FailsTyped ==
  ASSUME FileInv, NEW f, Fails(f)
  PROVE  noinit' \in BOOLEAN
BY DEF Fails, FileInv, VolumeType

\* A closed object is of no interest; the entry that is written has a size.
LEMMA CloseKeepsFiles ==
  ASSUME IInv, NEW fd \in Fds, Close(fd) \/ CloseFails(fd)
  PROVE  FileInv'
<1> DEFINE f == FileOf(fd)
<1>1. /\ fd \in OpenFds
      /\ fil' = [fil EXCEPT ![fdtab[fd].slot] = Closed]
      /\ UNCHANGED <<fstype, fsid, live, card>>
  BY Zenon DEF Close, CloseFails
<1>2. noinit' \in BOOLEAN
  <2>1. Valid(f) \/ Fails(f)
    BY Zenon DEF Close, CloseFails
  <2>2. Valid(f) => noinit' \in BOOLEAN
    BY DEF Valid
  <2> QED BY <2>1, <2>2, FailsTyped DEF IInv
<1>3. fdtab[fd].slot \in Slots /\ f \in FilType
  BY <1>1, FileTyped
<1>4. Closed \in FilType /\ ~Closed.open /\ Closed.fptr <= Closed.fsize
  BY DEF Closed, FilType, Size
<1>5. /\ \/ UNCHANGED <<view, dir>>
         \/ view' = [view EXCEPT ![f.name] = f.fsize] /\ MaybeSync
  BY Zenon DEF Close, CloseFails, MaybeSync
<1>6. f.fsize \in 0..Absent /\ VolumeType
  BY <1>3 DEF FilType, Size, Absent, IInv, FileInv
<1>7. view' \in [Names -> 0..Absent]
  BY <1>5, <1>6 DEF VolumeType
<1>8. dir' \in [Cards -> [Names -> 0..Absent]]
  <2>1. CASE UNCHANGED <<view, dir>>
    BY <1>6, <2>1 DEF VolumeType
  <2>2. CASE MaybeSync
    BY <1>6, <1>7, <2>2, SyncTyped
  <2> QED BY <1>5, <2>1, <2>2
<1> QED BY <1>1, <1>2, <1>3, <1>4, <1>7, <1>8, ObjectStep DEF IInv

\* Read, write and seek: the object stays the same file.
LEMMA UpdateKeepsFiles ==
  ASSUME IInv, NEW fd \in OpenFds, NEW f \in FilType, Update(fd, f),
         noinit' \in BOOLEAN,
         f.id = FileOf(fd).id, f.card = FileOf(fd).card, f.open = FileOf(fd).open,
         f.err \/ f.fptr <= f.fsize
  PROVE  FileInv'
<1>1. fdtab[fd].slot \in Slots
  BY FileTyped
<1>2. view' \in [Names -> 0..Absent] /\ dir' \in [Cards -> [Names -> 0..Absent]]
  BY DEF Update, IInv, FileInv, VolumeType
<1> QED BY <1>1, <1>2, ObjectStep DEF Update, FileOf, IInv

LEMMA AbortKeepsFiles ==
  ASSUME IInv, NEW fd \in OpenFds, NEW at \in Size, Abort(fd, at)
  PROVE  FileInv'
<1> DEFINE f == FileOf(fd)
           g == [f EXCEPT !.err = TRUE, !.fptr = at]
<1>1. f \in FilType
  BY FileTyped
<1>2. /\ g \in FilType /\ g.err
      /\ g.id = f.id /\ g.card = f.card /\ g.open = f.open
  BY <1>1 DEF FilType
<1>3. noinit' \in BOOLEAN /\ Update(fd, g)
  BY Zenon DEF Abort
<1> HIDE DEF g
<1> QED BY <1>2, <1>3, UpdateKeepsFiles

\* An object that is not aborted has its pointer inside the file.
LEMMA PointerOf ==
  ASSUME IInv, NEW fd \in OpenFds, ~FileOf(fd).err
  PROVE  FileOf(fd).fptr <= FileOf(fd).fsize
BY FileTyped DEF IInv, FileInv, FileOf

LEMMA ReadKeepsFiles ==
  ASSUME IInv, NEW fd \in Fds, NEW len \in 1..MaxSize, Read(fd, len)
  PROVE  FileInv'
<1> DEFINE f == FileOf(fd)
           n == Least(len, Remain(f))
           g == [f EXCEPT !.fptr = f.fptr + n]
<1>1. /\ fd \in OpenFds /\ ~f.err /\ Belongs(f)
      /\ \/ noinit' = FALSE /\ Update(fd, g)
         \/ \E k \in 0 .. n - 1 : Abort(fd, f.fptr + k)
  BY Zenon DEF Read, CanRead
<1>2. f \in FilType /\ f.fptr \in Size /\ f.fsize \in Size
  BY <1>1, FileTyped DEF FilType
<1>3. f.fptr <= f.fsize
  BY <1>1, PointerOf
<1>4. n \in Nat /\ f.fptr + n <= f.fsize
  BY <1>2, <1>3 DEF Least, Remain, Size
<1>5. /\ g \in FilType /\ g.fptr = f.fptr + n /\ g.fsize = f.fsize
      /\ g.id = f.id /\ g.card = f.card /\ g.open = f.open
  BY <1>2, <1>4 DEF FilType, Size
<1> HIDE DEF n, g
<1>6. ASSUME NEW k \in 0 .. n - 1, Abort(fd, f.fptr + k)
      PROVE  FileInv'
  BY <1>1, <1>2, <1>4, <1>6, AbortKeepsFiles DEF Size
<1>7. CASE noinit' = FALSE /\ Update(fd, g)
  BY <1>1, <1>4, <1>5, <1>7, UpdateKeepsFiles
<1> QED BY <1>1, <1>6, <1>7

LEMMA WriteKeepsFiles ==
  ASSUME IInv, NEW fd \in Fds, NEW len \in 1..MaxSize, Write(fd, len)
  PROVE  FileInv'
<1> DEFINE f    == FileOf(fd)
           g(n) == [f EXCEPT !.fptr = f.fptr + n, !.written = TRUE,
                             !.fsize = IF f.fptr + n > f.fsize
                                       THEN f.fptr + n ELSE f.fsize,
                             !.acked = IF n > 0 /\ f.fptr + n > f.acked
                                       THEN f.fptr + n ELSE f.acked]
<1>1. fd \in OpenFds
  BY DEF Write, CanWrite
<1>2. PICK n \in 0..len :
        /\ f.fptr + n <= MaxSize
        /\ \/ noinit' = FALSE /\ Update(fd, g(n))
           \/ Abort(fd, f.fptr + n)
  BY Zenon DEF Write
<1>3. f \in FilType /\ f.fptr \in Size /\ f.fsize \in Size /\ f.acked \in Size
  BY <1>1, FileTyped DEF FilType
<1>4. /\ g(n) \in FilType /\ g(n).fptr <= g(n).fsize
      /\ g(n).id = f.id /\ g(n).card = f.card /\ g(n).open = f.open
  <2> DEFINE size  == IF f.fptr + n > f.fsize THEN f.fptr + n ELSE f.fsize
             acked == IF n > 0 /\ f.fptr + n > f.acked THEN f.fptr + n ELSE f.acked
  <2>1. size \in Size /\ acked \in Size /\ f.fptr + n \in Size /\ f.fptr + n <= size
    BY <1>2, <1>3 DEF Size
  <2>2. g(n) = [f EXCEPT !.fptr = f.fptr + n, !.written = TRUE,
                         !.fsize = size, !.acked = acked]
    OBVIOUS
  <2> HIDE DEF size, acked, f, g
  <2> QED BY <1>3, <2>1, <2>2 DEF FilType
<1> HIDE DEF g
<1>5. CASE Abort(fd, f.fptr + n)
  BY <1>1, <1>2, <1>3, <1>5, AbortKeepsFiles DEF Size
<1>6. CASE noinit' = FALSE /\ Update(fd, g(n))
  BY <1>1, <1>4, <1>6, UpdateKeepsFiles
<1> QED BY <1>2, <1>5, <1>6

LEMMA SeekKeepsFiles ==
  ASSUME IInv, NEW fd \in Fds, NEW ofs \in 0 .. MaxSize + 1, Seek(fd, ofs)
  PROVE  FileInv'
<1> DEFINE f     == FileOf(fd)
           to    == IF ofs > f.fsize /\ ~f.wr THEN f.fsize ELSE ofs
           g(at) == [f EXCEPT !.fptr = at,
                              !.fsize = IF at > f.fsize THEN at ELSE f.fsize,
                              !.written = f.written \/ at > f.fsize]
<1>1. fd \in OpenFds
  BY Zenon DEF Seek
<1>2. \/ \E at \in Size : noinit' = FALSE /\ Update(fd, g(at))
      \/ \E at \in 0 .. Least(to, MaxSize) : Abort(fd, at)
  BY Zenon DEF Seek
<1>3. f \in FilType /\ f.fsize \in Size
  BY <1>1, FileTyped DEF FilType
<1>4. ASSUME NEW at \in Size
      PROVE  /\ g(at) \in FilType /\ g(at).fptr <= g(at).fsize
             /\ g(at).id = f.id /\ g(at).card = f.card /\ g(at).open = f.open
  <2> DEFINE size    == IF at > f.fsize THEN at ELSE f.fsize
             written == f.written \/ at > f.fsize
  <2>1. size \in Size /\ written \in BOOLEAN /\ at <= size
    BY <1>3 DEF Size
  <2>2. g(at) = [f EXCEPT !.fptr = at, !.fsize = size, !.written = written]
    OBVIOUS
  <2> HIDE DEF size, written, f, g
  <2> QED BY <1>3, <2>1, <2>2 DEF FilType
<1>5. \A at \in 0 .. Least(to, MaxSize) : at \in Size
  BY <1>3 DEF Least, Size
<1> HIDE DEF g, to
<1>6. ASSUME NEW at \in Size, noinit' = FALSE, Update(fd, g(at))
      PROVE  FileInv'
  BY <1>1, <1>4, <1>6, UpdateKeepsFiles
<1> QED BY <1>1, <1>2, <1>5, <1>6, AbortKeepsFiles

LEMMA FileStep ==
  ASSUME IInv, [Next]_mmcvars
  PROVE  FileInv'
<1> USE DEF IInv
<1>1. ASSUME NEW fd \in Fds, Refused(fd)
      PROVE  FileInv'
  <2>1. noinit' \in BOOLEAN
    BY <1>1, FailsTyped, Zenon DEF Refused
  <2>2. UNCHANGED <<fil, fstype, fsid, live, view, card, dir>>
    BY <1>1 DEF Refused
  <2> QED BY <2>1, <2>2 DEF FileInv, VolumeType
<1>2. CASE PullOut
  BY <1>2 DEF PullOut, FileInv, VolumeType
<1>3. ASSUME NEW c \in Cards, PutIn(c)
      PROVE  FileInv'
  BY <1>3 DEF PutIn, FileInv, VolumeType, fsvars
<1>4. CASE UNCHANGED mmcvars
  BY <1>4 DEF mmcvars, fsvars, FileInv, VolumeType
<1> HIDE DEF IInv
<1>5. ASSUME NEW m \in Modes, NEW name \in Names, NEW v \in Directories,
             \/ \E fd \in Fds : Open(fd, m, name, v)
             \/ OpenFails(m, name, v)
      PROVE  FileInv'
  BY <1>5, OpenKeepsFiles, OpenFailsKeepsFiles DEF IInv
<1>6. ASSUME NEW fd \in Fds, Close(fd) \/ CloseFails(fd)
      PROVE  FileInv'
  BY <1>6, CloseKeepsFiles
<1>7. ASSUME NEW fd \in Fds, NEW len \in 1..MaxSize, Read(fd, len) \/ Write(fd, len)
      PROVE  FileInv'
  BY <1>7, ReadKeepsFiles, WriteKeepsFiles
<1>8. ASSUME NEW fd \in Fds, NEW ofs \in 0 .. MaxSize + 1, Seek(fd, ofs)
      PROVE  FileInv'
  BY <1>8, SeekKeepsFiles
<1> QED
  BY <1>1, <1>2, <1>3, <1>4, <1>5, <1>6, <1>7, <1>8, Zenon DEF Next

LEMMA ZeroBelow ==
  ASSUME NEW n \in Nat
  PROVE  0 \in 0..n
OBVIOUS

LEMMA FileInit ==
  ASSUME Init
  PROVE  FileInv
<1>1. Closed \in FilType /\ ~Closed.open /\ Closed.fptr <= Closed.fsize
  BY DEF Closed, FilType, Size
<1>2. VolumeType
  <2>1. dir \in [Cards -> [Names -> {MaxSize, Absent}]]
    BY DEF Init
  <2>2. MaxSize \in 0..Absent /\ Absent \in 0..Absent
    BY DEF Absent
  <2>3. dir \in [Cards -> [Names -> 0..Absent]]
    BY <2>1, <2>2
  <2>4. view \in [Names -> 0..Absent]
    BY <2>2 DEF Init, NoView
  <2>5. fil \in [Slots -> FilType]
    BY <1>1 DEF Init
  <2>6. /\ fstype \in {0, 1} /\ fsid \in 0..MaxMounts
        /\ live \in BOOLEAN /\ noinit \in BOOLEAN /\ card \in Cards \cup {Nil}
    BY Zenon, MmcfsAssumption, ZeroBelow DEF Init
  <2> QED BY <2>3, <2>4, <2>5, <2>6 DEF VolumeType
<1> QED BY <1>1, <1>2 DEF Init, FileInv

LEMMA Inductive == Spec => []IInv
<1>1. Init => IInv
  BY SlotInit, FileInit DEF IInv
<1>2. IInv /\ [Next]_mmcvars => IInv'
  BY SlotStep, FileStep DEF IInv
<1> QED BY <1>1, <1>2, PTL DEF Spec

\* The slots of the device have one owner each, whatever opens and closes
\* succeed and fail: mmcfs_open and mmcfs_close never hand one file object to
\* two descriptors and never write past the end of dev_mmcfs_fd.
THEOREM SlotsSafe == Spec => []SlotsDisjoint
<1>1. IInv => SlotsDisjoint
  <2> SUFFICES ASSUME SlotInv PROVE SlotsDisjoint
    BY DEF IInv
  <2>1. \A fd \in OpenFds : fdtab[fd].slot \notin FreeSlots
    BY DEF SlotInv, OpenFds, FreeSlots
  <2>2. OpenFds # {} => nfree < MaxFd
    BY RoomOnStack DEF OpenFds
  <2> QED BY <2>1, <2>2 DEF SlotInv, SlotsDisjoint, OpenFds
<1> QED BY <1>1, Inductive, PTL

\* After a card was exchanged no file of the old one passes validate(): the
\* identity of the volume and the answer of the card together tell them
\* apart, whatever fails in between.
THEOREM CardSafe == Spec => []NoForeignCard
<1>1. IInv => NoForeignCard
  <2> SUFFICES ASSUME IInv, NEW fd \in OpenFds, Belongs(FileOf(fd)), Ready
               PROVE  FileOf(fd).card = card
    BY DEF NoForeignCard
  <2> QED BY FileTyped DEF IInv, FileInv, FileOf, Belongs, Ready
<1> QED BY <1>1, Inductive, PTL

\* The file pointer is behind the end of the file only in an aborted object,
\* so the unsigned fsize - fptr of f_read never wraps.
THEOREM PointerSafe == Spec => []PointerInside
<1>1. IInv => PointerInside
  BY FileTyped DEF IInv, FileInv, FileOf, PointerInside
<1> QED BY <1>1, Inductive, PTL

\* Every variable of the device keeps to its range: in particular the stack
\* of free slots holds slot numbers and the stack pointer stays inside it.
THEOREM TypesKept == Spec => []TypeOK
<1>1. IInv => TypeOK
  BY DEF IInv, SlotInv, TableType, FileInv, VolumeType, TypeOK, Flags, Slots
<1> QED BY <1>1, Inductive, PTL
=============================================================================
