-------------------------------- MODULE Mmcfs --------------------------------
(***************************************************************************)
(* The "mmcfs:" file system device (nano_bmpwav/mmcfs/mmcfs.c): open,      *)
(* close, read, write and lseek of the HAL, over the file functions of     *)
(* FatFs (mmcfs/fatfs/ff.c) and the disk status of mmcbb.c, with a card    *)
(* that can be pulled out and exchanged between two calls.                 *)
(*                                                                         *)
(* One action is one call of the HAL, with every call it makes below.  A   *)
(* disk access fails whenever it likes, and a failed one may or may not    *)
(* leave the disk marked as not initialised (see DiskStatus).              *)
(*                                                                         *)
(* A file is its size and its place in the one directory of the volume;    *)
(* the bytes in it, the cluster chains and the path are abstracted.        *)
(***************************************************************************)
EXTENDS Naturals, FiniteSets

CONSTANTS
  MaxFd,       \* ALT_MAX_FD, the size of the HAL's table and of the slots
  Std,         \* descriptors kept for standard in, out and error: 3
  Names,       \* files of the directory
  Cards,       \* memory cards
  Nil,         \* no card in the socket; no file
  Protected,   \* cards with the write protect switch on
  MaxSize,     \* bound: bytes a file can grow to before the card is full
  MaxMounts    \* bound: mounts in a run; Fsid wraps at 65536

Absent == MaxSize + 1          \* size of a file that is not there

ASSUME MmcfsAssumption ==
  /\ MaxFd \in Nat \ {0} /\ Std \in 0..MaxFd
  /\ MaxSize \in Nat /\ MaxMounts \in Nat
  /\ Protected \subseteq Cards
  /\ Nil \notin Cards \cup Names

VARIABLES
  fdtab,    \* alt_fd_list: who is open, fd_flags, and priv as an index
  slotfd,   \* dev_mmcfs_fd: the stack of free slots
  nfree,    \* dev_mmcfs_fd_num
  fil,      \* dev_mmcfs_table: the FIL object of each slot
  fstype,   \* fs_type of the volume, 0 when it is not mounted
  fsid,     \* id of the volume, the last value of Fsid
  noinit,   \* STA_NOINIT of Stat in mmcbb.c
  card,     \* the card in the socket
  live,     \* that card has been initialised since it was put in
  view,     \* the directory as the mounted volume sees it, cache included
  dir       \* the directory on each card

fsvars  == <<fstype, fsid, noinit, live, view>>
mmcvars == <<fdtab, slotfd, nfree, fil, fsvars, card, dir>>

Fds   == Std .. MaxFd - 1
Slots == 0 .. MaxFd - 1
Size  == 0 .. MaxSize

\* fd_flags is an alt_u32, of which the HAL reads the two low bits as the
\* access mode.
Flags     == Nat
AccMode(f) == f % 4
O_RDONLY  == 0
O_WRONLY  == 1
O_RDWR    == 2

Free == [open |-> FALSE, flags |-> 0, slot |-> 0]

Closed == [open |-> FALSE, id |-> 0, rd |-> FALSE, wr |-> FALSE,
           written |-> FALSE, err |-> FALSE, fptr |-> 0, fsize |-> 0,
           card |-> Nil, name |-> Nil,
           acked |-> 0, alone |-> TRUE]

\* open: fs # NULL.  err: FA__ERROR.  written: FA__WRITTEN.  The last four
\* are what an observer notes: the card and the name the file was opened
\* on, the end of the last write that was reported as done, and whether no
\* other object was open on the same file.
FilType ==
  [open : BOOLEAN, id : 0..MaxMounts, rd : BOOLEAN, wr : BOOLEAN,
   written : BOOLEAN, err : BOOLEAN, fptr : Size, fsize : Size,
   card : Cards \cup {Nil}, name : Names \cup {Nil}, acked : Size, alone : BOOLEAN]

OpenFds   == {fd \in Fds : fdtab[fd].open}
FileOf(fd) == fil[fdtab[fd].slot]
FreeSlots == {slotfd[i] : i \in 0 .. nfree - 1}

TypeOK ==
  /\ fdtab \in [Fds -> [open : BOOLEAN, flags : Flags, slot : Slots]]
  /\ slotfd \in [Slots -> Flags]
  /\ nfree \in 0..MaxFd
  /\ fil \in [Slots -> FilType]
  /\ fstype \in {0, 1}
  /\ fsid \in 0..MaxMounts
  /\ noinit \in BOOLEAN
  /\ card \in Cards \cup {Nil}
  /\ live \in BOOLEAN
  /\ view \in [Names -> 0..Absent]
  /\ dir \in [Cards -> [Names -> 0..Absent]]

-----------------------------------------------------------------------------
(* The disk and the volume.                                                *)

\* Fault: the card is not asked whether it is still initialised.
ReadySilent == card # Nil /\ ~noinit

\* What disk_status finds out: there is a card, the disk has been
\* initialised, and the card answers CMD58 as an initialised one does.
Ready == card # Nil /\ ~noinit /\ live

\* The first half of validate(): the object is one of the mounted volume.
Belongs(f) == f.open /\ fstype # 0 /\ f.id = fsid

\* The other half is disk_status.  An access that succeeds finds the disk
\* ready; one that fails may be the one that notices that it is not, and
\* even a card that is ready can fail to answer.
Valid(f) == Belongs(f) /\ Ready /\ noinit' = FALSE

Fails(f) == noinit' \in IF ~Belongs(f) THEN {noinit}
                        ELSE IF Ready THEN BOOLEAN ELSE {TRUE}

\* chk_mounted(): the volume, with the directory v, is still mounted, or the
\* disk is initialised again and the volume gets a new identity.
Mounted(v) ==
  \/ /\ fstype # 0 /\ Ready
     /\ v = view
     /\ UNCHANGED <<fstype, fsid, live>>
  \/ /\ card # Nil /\ fsid < MaxMounts
     /\ fstype' = 1 /\ live' = TRUE
     /\ fsid' = fsid + 1
     /\ v = dir[card]

NoView == [n \in Names |-> Absent]

\* disk_initialize fails, or what is on the card is no volume, cannot be
\* read, or is protected against the writing that is asked for.
MountFails ==
  /\ fstype' = 0
  /\ live' \in IF card = Nil THEN {FALSE} ELSE BOOLEAN
  /\ noinit' \in IF live' THEN BOOLEAN ELSE {TRUE}
  /\ view' = NoView
  /\ UNCHANGED <<fsid, dir>>

\* The directory sector stays in the window of the volume until another
\* sector is needed; sync() writes it to the card in any case.
Sync      == dir' = [dir EXCEPT ![card] = view']
MaybeSync == Sync \/ UNCHANGED dir

-----------------------------------------------------------------------------
(* Open.  A call that is refused (no descriptor, no slot, a bad mode) is no *)
(* step: it changes nothing.                                               *)

FirstFree(fd) ==
  /\ fd \in Fds \ OpenFds
  /\ \A g \in Fds : g < fd => g \in OpenFds

\* The FatFs mode for an access mode, O_APPEND and O_CREAT.
OpenMode(acc, app, creat) ==
  [rd |-> acc # O_WRONLY, wr |-> acc # O_RDONLY,
   create |-> IF acc = O_RDONLY THEN "existing"
              ELSE IF app THEN "openalways"
              ELSE IF acc = O_WRONLY \/ creat THEN "createalways"
              ELSE "existing"]

Modes == {OpenMode(acc, app, creat) : acc \in {O_RDONLY, O_WRONLY, O_RDWR},
                                      app \in BOOLEAN, creat \in BOOLEAN}

SameFile(f, name) == f.open /\ f.card = card /\ f.name = name

\* The object that f_open fills in, in a volume with the directory v.
Opened(m, name, v) ==
  LET fresh == m.create = "createalways" \/ v[name] = Absent IN
  [open |-> TRUE, id |-> fsid', rd |-> m.rd, wr |-> m.wr,
   written |-> fresh, err |-> FALSE,
   fptr |-> 0, fsize |-> IF fresh THEN 0 ELSE v[name],
   card |-> card, name |-> name, acked |-> 0,
   alone |-> \A g \in OpenFds : ~SameFile(FileOf(g), name)]

Share(name) ==
  [s \in Slots |-> IF SameFile(fil[s], name) THEN [fil[s] EXCEPT !.alone = FALSE]
                   ELSE fil[s]]

\* The slot is taken from the top of the stack, and its number is kept in
\* fd_flags, where the HAL had put the flags of the call.
Open(fd, m, name, v) ==
  LET slot == slotfd[nfree - 1]
      f    == Opened(m, name, v) IN
  /\ FirstFree(fd) /\ nfree > 0 /\ slot \in Slots
  /\ Mounted(v) /\ noinit' = FALSE
  /\ ~(m.wr /\ card \in Protected)
  /\ m.create = "existing" => v[name] # Absent
  /\ view' = IF f.written THEN [v EXCEPT ![name] = 0] ELSE v
  /\ MaybeSync
  /\ nfree' = nfree - 1
  /\ fil' = [Share(name) EXCEPT ![slot] = f]
  /\ fdtab' = [fdtab EXCEPT ![fd] = [open |-> TRUE, flags |-> slot, slot |-> slot]]
  /\ UNCHANGED <<slotfd, card>>

\* The file is not there, the directory is full, a sector cannot be read or
\* written: the file may have been created or cut to nothing by then.
OpenFails(m, name, v) ==
  /\ OpenFds # Fds /\ nfree > 0
  /\ \/ MountFails
     \/ /\ Mounted(v) /\ noinit' \in BOOLEAN
        /\ \/ view' = v
           \/ /\ m.create # "existing" /\ card \notin Protected
              /\ view' = [v EXCEPT ![name] = 0]
        /\ MaybeSync
  /\ UNCHANGED <<fdtab, slotfd, nfree, fil, card>>

-----------------------------------------------------------------------------
(* Close.                                                                  *)

\* alt_release_fd
Release(fd) == fdtab' = [fdtab EXCEPT ![fd] = Free]

\* Fault: the number is not stored.
PushOnlyCounts(n) == nfree' = nfree + 1 /\ UNCHANGED slotfd

\* The slot goes back to the top of the stack.
Push(n) == slotfd' = [slotfd EXCEPT ![nfree] = n] /\ nfree' = nfree + 1

\* Fault: the window is not written to the card.
CloseLazy(fd) ==
  LET f == FileOf(fd) IN
  /\ fd \in OpenFds
  /\ Valid(f)
  /\ IF f.written
     THEN view' = [view EXCEPT ![f.name] = f.fsize] /\ MaybeSync
     ELSE UNCHANGED <<view, dir>>
  /\ fil' = [fil EXCEPT ![fdtab[fd].slot] = Closed]
  /\ Push(fdtab[fd].flags)
  /\ Release(fd)
  /\ UNCHANGED <<fstype, fsid, live, card>>

\* f_close succeeds: if the file was written, its last sector, its entry and
\* the window are on the card.
Close(fd) ==
  LET f == FileOf(fd) IN
  /\ fd \in OpenFds
  /\ Valid(f)
  /\ IF f.written
     THEN view' = [view EXCEPT ![f.name] = f.fsize] /\ Sync
     ELSE UNCHANGED <<view, dir>>
  /\ fil' = [fil EXCEPT ![fdtab[fd].slot] = Closed]
  /\ Push(fdtab[fd].flags)
  /\ Release(fd)
  /\ UNCHANGED <<fstype, fsid, live, card>>

\* f_close fails: the HAL frees its descriptor all the same, and the slot is
\* not given back.  Nothing can reach its object any more, so it is dropped
\* from the state.
CloseFails(fd) ==
  LET f == FileOf(fd) IN
  /\ fd \in OpenFds
  /\ Fails(f)
  /\ \/ UNCHANGED <<view, dir>>
     \/ /\ Belongs(f) /\ Ready /\ f.written
        /\ view' = [view EXCEPT ![f.name] = f.fsize]
        /\ MaybeSync
  /\ fil' = [fil EXCEPT ![fdtab[fd].slot] = Closed]
  /\ Release(fd)
  /\ UNCHANGED <<slotfd, nfree, fstype, fsid, live, card>>

-----------------------------------------------------------------------------
(* Read, write and seek.  The HAL compares fd_flags with the access mode    *)
(* first; f_read and f_write refuse an aborted object and one that was not  *)
(* opened for the access.                                                  *)

HalReads(fd)  == AccMode(fdtab[fd].flags) # O_WRONLY
HalWrites(fd) == AccMode(fdtab[fd].flags) # O_RDONLY

\* The object of fd becomes f; nothing else changes but what the disk said.
Update(fd, f) ==
  /\ fil' = [fil EXCEPT ![fdtab[fd].slot] = f]
  /\ UNCHANGED <<fdtab, slotfd, nfree, fstype, fsid, live, view, card, dir>>

\* Fault: the error flag is not set.
AbortUnmarked(fd, at) ==
  LET f == FileOf(fd) IN
  /\ noinit' \in BOOLEAN
  /\ Update(fd, [f EXCEPT !.fptr = at])

\* ABORT: the object is marked, and where the pointer has come to it stays.
Abort(fd, at) ==
  LET f == FileOf(fd) IN
  /\ noinit' \in BOOLEAN
  /\ Update(fd, [f EXCEPT !.err = TRUE, !.fptr = at])

\* A call that validate() refuses.
Refused(fd) ==
  /\ fd \in OpenFds
  /\ Fails(FileOf(fd))
  /\ UNCHANGED <<fdtab, slotfd, nfree, fil, fstype, fsid, live, view, card,
                 dir>>

CanRead(fd) ==
  fd \in OpenFds /\ HalReads(fd) /\ FileOf(fd).rd /\ ~FileOf(fd).err

CanWrite(fd) ==
  fd \in OpenFds /\ HalWrites(fd) /\ FileOf(fd).wr /\ ~FileOf(fd).err

\* remain = fsize - fptr, without a sign.
Remain(f) == IF f.fptr <= f.fsize THEN f.fsize - f.fptr ELSE MaxSize + 1

Least(a, b) == IF a < b THEN a ELSE b

Read(fd, len) ==
  LET f == FileOf(fd)
      n == Least(len, Remain(f)) IN
  /\ CanRead(fd) /\ Belongs(f) /\ Ready
  /\ \/ noinit' = FALSE /\ Update(fd, [f EXCEPT !.fptr = @ + n])
     \/ \E k \in 0 .. n - 1 : Abort(fd, f.fptr + k)

\* n < len bytes are written when the card is full.  An abort leaves the
\* size as it was, even if bytes were stored beyond it.
Write(fd, len) ==
  LET f == FileOf(fd) IN
  /\ CanWrite(fd) /\ Belongs(f) /\ Ready
  /\ \E n \in 0..len :
       /\ f.fptr + n <= MaxSize
       /\ \/ /\ noinit' = FALSE
             /\ Update(fd, [f EXCEPT !.fptr = @ + n, !.written = TRUE,
                                     !.fsize = IF f.fptr + n > @
                                               THEN f.fptr + n ELSE @,
                                     !.acked = IF n > 0 /\ f.fptr + n > @
                                               THEN f.fptr + n ELSE @])
          \/ n < len /\ Abort(fd, f.fptr + n)

\* f_lseek() to ofs, which is unsigned: a target before the start of the file
\* is far behind its end (MaxSize + 1).  Behind the end, a file opened for
\* writing is stretched, as far as the card has room; any other is left at
\* its end.
Seek(fd, ofs) ==
  LET f  == FileOf(fd)
      to == IF ofs > f.fsize /\ ~f.wr THEN f.fsize ELSE ofs IN
  /\ fd \in OpenFds /\ ~f.err /\ Belongs(f) /\ Ready
  /\ \/ \E at \in Size :
          /\ IF to <= f.fsize THEN at = to ELSE at \in f.fsize .. to
          /\ noinit' = FALSE
          /\ Update(fd, [f EXCEPT !.fptr = at,
                                  !.fsize = IF at > @ THEN at ELSE @,
                                  !.written = @ \/ at > f.fsize])
     \/ \E at \in 0 .. Least(to, MaxSize) : Abort(fd, at)

-----------------------------------------------------------------------------
(* The card (external).                                                    *)

PullOut ==
  /\ card # Nil
  /\ card' = Nil /\ live' = FALSE
  /\ UNCHANGED <<fdtab, slotfd, nfree, fil, fstype, fsid, noinit, view, dir>>

PutIn(c) ==
  /\ card = Nil
  /\ card' = c
  /\ UNCHANGED <<fdtab, slotfd, nfree, fil, fsvars, dir>>

\* mmcfs_setup.  The cards hold any files.
Init ==
  /\ fdtab = [fd \in Fds |-> Free]
  /\ slotfd = [i \in Slots |-> i] /\ nfree = MaxFd
  /\ fil = [s \in Slots |-> Closed]
  /\ fstype = 0 /\ fsid = 0
  /\ noinit = TRUE
  /\ card = Nil /\ live = FALSE
  /\ view = NoView
  /\ dir \in [Cards -> [Names -> {MaxSize, Absent}]]

Directories == {view} \cup {dir[c] : c \in Cards}

Next ==
  \/ \E m \in Modes, name \in Names, v \in Directories :
       \/ \E fd \in Fds : Open(fd, m, name, v)
       \/ OpenFails(m, name, v)
  \/ \E fd \in Fds :
       \/ Close(fd) \/ CloseFails(fd) \/ Refused(fd)
       \/ \E len \in 1..MaxSize : Read(fd, len) \/ Write(fd, len)
       \/ \E ofs \in 0 .. MaxSize + 1 : Seek(fd, ofs)
  \/ PullOut
  \/ \E c \in Cards : PutIn(c)

Spec == Init /\ [][Next]_mmcvars

-----------------------------------------------------------------------------
(* Properties.                                                             *)

\* Every slot has at most one owner: it is on the stack of free slots once,
\* or one open descriptor points to it, however often opens and closes
\* succeed and fail.  Two descriptors never share a file object, and the
\* stack is never written past its end.
SlotsDisjoint ==
  /\ \A i, j \in 0 .. nfree - 1 : slotfd[i] = slotfd[j] => i = j
  /\ \A fd \in OpenFds : fdtab[fd].slot \notin FreeSlots
  /\ \A fd, g \in OpenFds : fdtab[fd].slot = fdtab[g].slot => fd = g
  /\ OpenFds # {} => nfree < MaxFd

\* After a card was exchanged, no operation on a file of the old card passes
\* validate(): what passes is a file of the card in the socket, opened since
\* that card was put in.
NoForeignCard ==
  \A fd \in OpenFds :
    Belongs(FileOf(fd)) /\ Ready => FileOf(fd).card = card

\* The unsigned subtraction fsize - fptr of f_read never wraps: where the
\* pointer is behind the end, the object has been aborted and is refused.
PointerInside ==
  \A fd \in OpenFds : FileOf(fd).err \/ FileOf(fd).fptr <= FileOf(fd).fsize

\* When close returns 0, the bytes that write() had reported as done are in
\* the file on the card it was opened on, as its directory says, unless
\* another descriptor was open on the same file.
ClosedIsStored ==
  [][\A fd \in OpenFds :
       LET f == FileOf(fd) IN
       fd \notin OpenFds' /\ nfree' > nfree /\ f.alone /\ f.acked > 0 =>
         dir'[f.card][f.name] # Absent /\ dir'[f.card][f.name] >= f.acked]_mmcvars

=============================================================================
