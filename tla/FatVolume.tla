------------------------------ MODULE FatVolume ------------------------------
(***************************************************************************)
(* The volume layer of FatFs (nano_bmpwav/mmcfs/fatfs/ff.c): the one       *)
(* sector window through which the FAT and the directory are read and      *)
(* written, cluster chains, and the file functions on top of them, an      *)
(* access to the disk per step.  Any access may fail, and the power may go *)
(* or the card be pulled out between any two of them.                      *)
(*                                                                         *)
(* Abstracted: a cluster is one sector of SS bytes, of which only matters  *)
(* whether they are the last that a program wrote to that place of a file; *)
(* the directory is one sector with room for all the names; the second     *)
(* FAT, which nothing reads, and the counter of free clusters are left     *)
(* out.  A file is open once at a time: with _FS_SHARE = 0 that is the     *)
(* caller's duty.                                                          *)
(***************************************************************************)
EXTENDS Integers, Sequences, FiniteSets

CONSTANTS
  NFatent,   \* n_fatent: one more than the last cluster number
  PerSect,   \* FAT entries in a sector
  SS,        \* bytes in a sector
  Names,     \* files of the directory
  Nobody,    \* no name
  Bounds     \* bounds, one of which a run keeps to: room, the bytes each file
             \* grows to; lens of reads and writes; targets of seeks; hints, the
             \* values of last_clust after a mount; faults, the failed accesses
             \* and restarts

ASSUME FatAssumption ==
  /\ NFatent \in Nat \ 0..2 /\ PerSect \in Nat \ {0} /\ SS \in Nat \ {0}
  /\ \A x \in Bounds :
       /\ x.room \in [Names -> Nat] /\ x.faults \in Nat
       /\ x.lens \subseteq Nat \ {0} /\ x.targets \subseteq Nat /\ x.hints \subseteq Nat
  /\ Nobody \notin Names

VARIABLES
  card,      \* what the card holds once it has programmed everything
  safe,      \* what it holds if the power goes now: the last block written
             \* may be in the card's buffer still
  win,       \* winsect, win[] and wflag
  last,      \* last_clust
  obj,       \* the FIL object of each name; an observer's note, good
  call,      \* the call in progress: its place and its locals
  kept,      \* observer: the bytes that the last close of each file promised
  faults,    \* failed accesses and restarts so far
  bound      \* the bound of this run

vars == <<card, safe, win, last, obj, call, kept, faults, bound>>

Clusters == 2 .. NFatent - 1
EOC      == NFatent          \* 0x0FFFFFFF: any number from n_fatent on
DiskErr  == NFatent + 1      \* 0xFFFFFFFF
None     == -1        \* no promise

NoSect  == 0
DirSect == NFatent + 1       \* a number no sector of the FAT has
FatSect(c) == 1 + c \div PerSect
InSect(s)  == {c \in Clusters : FatSect(c) = s}

NoEntry  == [used |-> FALSE, start |-> 0, size |-> 0]
NewEntry == [used |-> TRUE, start |-> 0, size |-> 0]

Closed ==
  [open |-> FALSE, wr |-> FALSE, err |-> FALSE, written |-> FALSE,
   dirty |-> FALSE, fptr |-> 0, fsize |-> 0, sclust |-> 0, clust |-> 0,
   dsect |-> 0, bufv |-> Nobody, good |-> 0]

\* bufv: whose newest bytes are in buf[].  good: the first bytes of the file are
\* known to the program, as they were written or promised.
\* at: the place in the code, or "idle".  op: the function.  n: the file.
\* m: how it is opened.  left: btw, btr or ofs.  c, k, scl: clst, ncl and scl
\* of the chain functions.  v: the bytes read.  from: the file
\* pointer at the start.
Idle == [at |-> "idle", op |-> "none", n |-> Nobody,
         m |-> "none", wr |-> FALSE, left |-> 0, c |-> 0, k |-> 0, scl |-> 0,
         v |-> Nobody, from |-> 0]

SectorStart(p) == (p \div SS) * SS
LesserOf(a, b)  == IF a < b THEN a ELSE b
GreaterOf(a, b) == IF a > b THEN a ELSE b

-----------------------------------------------------------------------------
(* The disk.  Each access waits until the card has programmed the block of *)
(* the one before, which is how mmcbb.c starts a command.                  *)

DiskRead       == safe' = card /\ UNCHANGED card
DiskWrite(new) == safe' = card /\ card' = new
DiskSync       == safe' = card /\ UNCHANGED card

\* A write that is reported as failed may have been done.
WriteFails(new) == DiskWrite(new) \/ UNCHANGED <<card, safe>>

Contents(cd, s) == IF s = DirSect THEN cd.ent ELSE [c \in InSect(s) |-> cd.fat[c]]

Stored(cd, s, copy) ==
  IF s = DirSect THEN [cd EXCEPT !.ent = copy]
  ELSE [cd EXCEPT !.fat = [c \in Clusters |-> IF c \in InSect(s) THEN copy[c] ELSE @[c]]]

WithData(cd, c, v) == IF c \in Clusters THEN [cd EXCEPT !.data[c] = v] ELSE cd

\* What the card has there is not, or no longer, the newest bytes of a file.
Outdate(c) ==
  card' = WithData(card, c, Nobody) /\ safe' = WithData(safe, c, Nobody)

\* The volume as FatFs sees it: the card with the window over it.
View == IF win.sect = NoSect THEN card ELSE Stored(card, win.sect, win.copy)

-----------------------------------------------------------------------------
(* move_window() and the FAT entries in the window.                        *)

\* The sector that the next step of the call must have in the window.
Need ==
  CASE call.at \in {"find", "back", "entry"}      -> DirSect
    [] call.at = "free"                           -> FatSect(call.c)
    [] call.at \in {"stretch", "link", "follow"} /\ call.c \in Clusters
                                                  -> FatSect(call.c)
    [] call.at = "scan"                           -> FatSect(call.k)
    [] call.at = "sync"                           -> NoSect
    [] OTHER                                      -> win.sect

\* A dirty window is written back before another sector is read.
FlushWindow ==
  /\ Need # win.sect /\ win.dirty
  /\ DiskWrite(Stored(card, win.sect, win.copy))
  /\ win' = [win EXCEPT !.dirty = FALSE]
  /\ UNCHANGED <<last, obj, call, kept, faults>>

\* Fault: the new sector is read over changes that were not written back.
LoadOverDirty ==
  /\ Need \notin {win.sect, NoSect}
  /\ DiskRead
  /\ win' = [sect |-> Need, dirty |-> FALSE, copy |-> Contents(card, Need)]
  /\ UNCHANGED <<last, obj, call, kept, faults>>

LoadWindow ==
  /\ Need \notin {win.sect, NoSect} /\ ~win.dirty
  /\ DiskRead
  /\ win' = [sect |-> Need, dirty |-> FALSE, copy |-> Contents(card, Need)]
  /\ UNCHANGED <<last, obj, call, kept, faults>>

\* The sector is there: the call goes on.
InWindow(at) == call.at = at /\ win.sect = Need

FatEntry(c) == IF c \in Clusters THEN win.copy[c] ELSE 1      \* get_fat
PutWin(i, x) == win' = [win EXCEPT !.dirty = TRUE, !.copy[i] = x]

-----------------------------------------------------------------------------
(* How a call ends.                                                        *)

Goes(o, cl) == obj' = [obj EXCEPT ![cl.n] = o] /\ call' = cl
Return(o)   == obj' = [obj EXCEPT ![call.n] = o] /\ call' = Idle

\* After an error nothing is known of the bytes this call was to write.
Forget(o) ==
  IF call.op = "write" THEN [o EXCEPT !.good = LesserOf(@, SectorStart(call.from))] ELSE o

\* ABORT.  f_write has put what create_chain returned into sclust by then.
Abort(r) ==
  Return([Forget(obj[call.n]) EXCEPT
            !.err = TRUE,
            !.sclust = IF call.op = "write" /\ call.at = "scan" /\ call.c = 0 THEN r ELSE @])

\* An access of the call fails.  mmcfs.c has no way to an object whose open
\* or close has failed.
Failed(r) ==
  /\ faults < bound.faults /\ faults' = faults + 1
  /\ IF call.op \in {"open", "close"} THEN Return(Closed) ELSE Abort(r)
  /\ UNCHANGED <<last, kept>>

\* The window keeps its sector and, when it could not be written, its mark:
\* a failed read leaves the buffer as it was (BlockDelivered, ErrorReported).
WindowFails ==
  /\ Need # win.sect
  /\ IF win.dirty THEN WriteFails(Stored(card, win.sect, win.copy))
     ELSE Need # NoSect /\ UNCHANGED <<card, safe>>
  /\ UNCHANGED win
  /\ Failed(DiskErr)

-----------------------------------------------------------------------------
(* f_open.                                                                 *)

Opened(e, fresh) ==
  [Closed EXCEPT !.open = TRUE, !.wr = call.wr, !.written = fresh,
                 !.fsize = e.size, !.sclust = e.start,
                 !.good = IF kept[call.n] = None THEN 0 ELSE kept[call.n]]

\* A mode that empties the file ends the promise of its last close.
StartOpen(n, m, wr) ==
  /\ call.at = "idle" /\ ~obj[n].open
  /\ m # "existing" => wr
  /\ call' = [Idle EXCEPT !.at = "find", !.op = "open", !.n = n, !.m = m, !.wr = wr]
  /\ kept' = IF m = "createalways" THEN [kept EXCEPT ![n] = None] ELSE kept
  /\ UNCHANGED <<card, safe, win, last, obj, faults>>

\* The file is there and is not to be emptied, or is not there.
FindExisting ==
  LET e == win.copy[call.n] IN
  /\ InWindow("find")
  /\ \/ /\ e.used /\ call.m # "createalways"
        /\ Return(Opened(e, FALSE))
     \/ /\ ~e.used /\ call.m = "existing"
        /\ Return(Closed)
  /\ UNCHANGED <<card, safe, win, last, kept, faults>>

\* Fault: the chain is freed while its entry on the card still points to it, as
\* f_truncate does.
FindFreesFirst ==
  LET e == win.copy[call.n] IN
  /\ InWindow("find")
  /\ IF e.used THEN call.m = "createalways" ELSE call.m # "existing"
  /\ IF e.start \in Clusters
     THEN /\ call' = [call EXCEPT !.at = "free", !.c = e.start, !.k = e.start]
          /\ UNCHANGED <<win, obj>>
     ELSE PutWin(call.n, NewEntry) /\ Return(Opened(NewEntry, TRUE))
  /\ UNCHANGED <<card, safe, last, kept, faults>>

\* dir_register, or an empty entry in place of the old one.
FindCreates ==
  LET e == win.copy[call.n] IN
  /\ InWindow("find")
  /\ IF e.used THEN call.m = "createalways" ELSE call.m # "existing"
  /\ PutWin(call.n, NewEntry)
  /\ CASE e.start = 0           -> Return(Opened(NewEntry, TRUE))
       [] e.start \in Clusters  -> /\ call' = [call EXCEPT !.at = "free", !.c = e.start,
                                                           !.k = e.start]
                                   /\ UNCHANGED obj
       [] OTHER                 -> Return(Closed)        \* FR_INT_ERR
  /\ UNCHANGED <<card, safe, last, kept, faults>>

\* remove_chain: a cluster of the old chain.
Free ==
  LET nxt == win.copy[call.c] IN
  /\ InWindow("free")
  /\ IF nxt = 0 THEN UNCHANGED <<win, card, safe>>
     ELSE PutWin(call.c, 0) /\ Outdate(call.c)
  /\ IF nxt \in Clusters
     THEN call' = [call EXCEPT !.c = nxt] /\ UNCHANGED last
     ELSE /\ call' = [call EXCEPT !.at = "back"]
          /\ last' = call.k - 1              \* reuse the cluster hole
  /\ UNCHANGED <<obj, kept, faults>>

\* The directory sector is brought back for the entry.
BackToEntry ==
  /\ InWindow("back")
  /\ Return(Opened(win.copy[call.n], TRUE))
  /\ UNCHANGED <<card, safe, win, last, kept, faults>>

-----------------------------------------------------------------------------
(* What the file functions do with the chain.                              *)

\* Fault: the object is not marked.
WrittenUnmarked(o) == [o EXCEPT !.fsize = GreaterOf(@, o.fptr)]

Written(o) == [o EXCEPT !.fsize = GreaterOf(@, o.fptr), !.written = TRUE]

\* The end of f_lseek: a pointer behind the end stretches the file.
Sought(o) ==
  IF o.fptr <= o.fsize THEN o
  ELSE [o EXCEPT !.fsize = o.fptr, !.written = TRUE]

\* The search of create_chain for a free cluster, for a chain that ends at c.
Next1(k)         == IF k + 1 = NFatent THEN 2 ELSE k + 1
ScanFor(cl, c, scl) == [cl EXCEPT !.at = "scan", !.c = c, !.scl = scl, !.k = Next1(scl)]

\* Where the search for a new chain starts.
Hint == IF last \in 1 .. NFatent - 1 THEN last ELSE 1

Place(cl, at, c) == [cl EXCEPT !.at = at, !.c = c, !.k = 0, !.scl = 0]

\* The loop of f_write.  At the start of a cluster: the first one of the file,
\* the next one, or a new one.
WriteOn(o, cl) ==
  IF cl.left = 0 THEN obj' = [obj EXCEPT ![cl.n] = Written(o)] /\ call' = Idle
  ELSE IF o.fptr % SS # 0 THEN Goes(o, Place(cl, "inside", 0))
  ELSE IF o.fptr > 0      THEN Goes(o, Place(cl, "stretch", o.clust))
  ELSE IF o.sclust = 0    THEN Goes(o, ScanFor(cl, 0, Hint))
  ELSE IF o.sclust \in Clusters
       THEN Goes([o EXCEPT !.clust = o.sclust], Place(cl, "store", 0))
  ELSE obj' = [obj EXCEPT ![cl.n] = [o EXCEPT !.err = TRUE]] /\ call' = Idle

\* The loop of f_read.
ReadOn(o, cl) ==
  IF cl.left = 0 THEN obj' = [obj EXCEPT ![cl.n] = o] /\ call' = Idle
  ELSE IF o.fptr % SS # 0 THEN Goes(o, [cl EXCEPT !.at = "inside"])
  ELSE IF o.fptr > 0      THEN Goes(o, [cl EXCEPT !.at = "follow", !.c = o.clust])
  ELSE IF o.sclust \in Clusters
       THEN Goes([o EXCEPT !.clust = o.sclust], [cl EXCEPT !.at = "fetch"])
  ELSE obj' = [obj EXCEPT ![cl.n] = [o EXCEPT !.err = TRUE]] /\ call' = Idle

\* The loop of f_lseek: another cluster after c, or the last part of the way.
SeekOn(o, cl, c) ==
  IF cl.left > SS
  THEN Goes(o, Place(cl, IF o.wr THEN "stretch" ELSE "follow", c))
  ELSE Goes([o EXCEPT !.fptr = @ + cl.left], Place([cl EXCEPT !.left = 0], "fill", c))

\* create_chain returns to f_write: 0 is a full disk, 1 an error.
ChainToWrite(r) ==
  LET o == obj[call.n] IN
  CASE r = 0 -> Return(Written(o))
    [] r = 1 -> Abort(1)
    [] OTHER -> Goes([o EXCEPT !.clust = r, !.sclust = IF o.fptr = 0 THEN r ELSE @],
                     Place(call, "store", 0))

\* To f_lseek: a full disk cuts the way short.
ChainToSeek(r) ==
  LET o == obj[call.n]
      further == [call EXCEPT !.left = @ - SS] IN
  CASE r = 1 -> Abort(1)
    [] r = 0 /\ call.c = 0 -> Return([o EXCEPT !.clust = 0])
    [] r = 0 /\ call.c # 0 -> SeekOn(o, [call EXCEPT !.left = SS], call.c)
    [] r > 1 /\ call.c = 0 -> SeekOn([o EXCEPT !.clust = r, !.sclust = r], call, r)
    [] OTHER               -> SeekOn([o EXCEPT !.clust = r, !.fptr = @ + SS], further, r)

ChainReturns(r) == IF call.op = "write" THEN ChainToWrite(r) ELSE ChainToSeek(r)

-----------------------------------------------------------------------------
(* create_chain.                                                           *)

\* The chain goes on already, or its last cluster is to be followed by one.
Stretch ==
  LET cs == FatEntry(call.c) IN
  /\ InWindow("stretch")
  /\ IF cs \in Clusters \cup {0, 1}
     THEN ChainReturns(IF cs < 2 THEN 1 ELSE cs)
     ELSE call' = ScanFor(call, call.c, call.c) /\ UNCHANGED obj
  /\ UNCHANGED <<card, safe, win, last, kept, faults>>

\* A free cluster: it is marked as the last one before anything points to it.
ScanFinds ==
  /\ InWindow("scan")
  /\ win.copy[call.k] = 0
  /\ PutWin(call.k, EOC)
  /\ IF call.c = 0
     THEN last' = call.k /\ ChainReturns(call.k)
     ELSE call' = [call EXCEPT !.at = "link"] /\ UNCHANGED <<last, obj>>
  /\ Outdate(call.k)
  /\ UNCHANGED <<kept, faults>>

\* Fault: the search looks for the place it came from only.
ScanNeverFull ==
  /\ InWindow("scan")
  /\ win.copy[call.k] # 0
  /\ IF call.k = call.scl
     THEN ChainReturns(0)
     ELSE call' = [call EXCEPT !.k = Next1(@)] /\ UNCHANGED obj
  /\ UNCHANGED <<card, safe, win, last, kept, faults>>

\* Not a free one: on to the next, round to where the search began.
ScanPasses ==
  /\ InWindow("scan")
  /\ win.copy[call.k] # 0
  /\ IF call.k = call.scl \/ (Next1(call.k) = 2 /\ 2 > call.scl)
     THEN ChainReturns(0)
     ELSE call' = [call EXCEPT !.k = Next1(@)] /\ UNCHANGED obj
  /\ UNCHANGED <<card, safe, win, last, kept, faults>>

Link ==
  /\ InWindow("link")
  /\ PutWin(call.c, call.k)
  /\ last' = call.k
  /\ ChainReturns(call.k)
  /\ UNCHANGED <<card, safe, kept, faults>>

-----------------------------------------------------------------------------
(* The sector buffer of a file object.                                     *)

\* Whether the buffer must be written before the place can go on.
BufferInWay(o) ==
  /\ \/ call.at \in {"store", "flush"}
     \/ call.at = "fetch" /\ call.left < SS /\ o.dsect # o.clust
     \/ call.at = "fill" /\ o.fptr % SS # 0 /\ o.dsect # call.c
  /\ o.dirty

FlushBuffer ==
  LET o == obj[call.n] IN
  /\ BufferInWay(o)
  /\ DiskWrite(WithData(card, o.dsect, o.bufv))
  /\ Goes([o EXCEPT !.dirty = FALSE],
          IF call.at = "flush" THEN [call EXCEPT !.at = "entry"] ELSE call)
  /\ UNCHANGED <<win, last, kept, faults>>

BufferFails ==
  LET o == obj[call.n] IN
  /\ BufferInWay(o)
  /\ WriteFails(WithData(card, o.dsect, o.bufv))
  /\ UNCHANGED win
  /\ Failed(DiskErr)

-----------------------------------------------------------------------------
(* f_write.                                                                *)

CanStart(n) == call.at = "idle" /\ obj[n].open /\ ~obj[n].err

Begin(n, op, left) == [Idle EXCEPT !.op = op, !.n = n, !.left = left]

\* What it writes over is no longer promised.
StartWrite(n, len) ==
  LET o == obj[n] IN
  /\ CanStart(n) /\ o.wr
  /\ o.fptr + len <= bound.room[n]
  /\ WriteOn(o, [Begin(n, "write", len) EXCEPT !.from = o.fptr])
  /\ kept' = [kept EXCEPT ![n] = IF @ = None THEN None
                                 ELSE LesserOf(@, SectorStart(o.fptr))]
  /\ UNCHANGED <<card, safe, win, last, faults>>

\* The pointer goes on over bytes that have been written.
Advance(o, n) ==
  [o EXCEPT !.fptr = @ + n,
            !.good = IF @ >= o.fptr THEN GreaterOf(@, o.fptr + n) ELSE @]

\* n bytes more in the buffer of the object, which are newer than the card's.
PutBuffer(o, n) ==
  WriteOn([Advance(o, n) EXCEPT !.dirty = TRUE, !.bufv = call.n],
          [call EXCEPT !.left = @ - n])

WriteInside ==
  LET o == obj[call.n] IN
  /\ call.at = "inside" /\ call.op = "write"
  /\ PutBuffer(o, LesserOf(call.left, SS - (o.fptr % SS)))
  /\ Outdate(o.dsect)
  /\ UNCHANGED <<win, last, kept, faults>>

\* A whole sector goes to the card directly.
WriteSector ==
  LET o == obj[call.n] IN
  /\ call.at = "store" /\ ~o.dirty /\ call.left >= SS
  /\ card' = WithData(card, o.clust, call.n)
  /\ safe' = WithData(card, o.clust, Nobody)
  /\ WriteOn([Advance(o, SS) EXCEPT !.bufv = IF o.dsect = o.clust THEN call.n ELSE @],
             [call EXCEPT !.left = @ - SS])
  /\ UNCHANGED <<win, last, kept, faults>>

\* Part of one goes to the buffer, which is read first unless it lies behind
\* the end of the file or is there already.
WritePart ==
  LET o == obj[call.n] IN
  /\ call.at = "store" /\ ~o.dirty /\ call.left < SS
  /\ IF o.dsect # o.clust /\ o.fptr < o.fsize
     THEN DiskWrite(WithData(card, o.clust, Nobody)) ELSE Outdate(o.clust)
  /\ PutBuffer([o EXCEPT !.dsect = o.clust], call.left)
  /\ UNCHANGED <<win, last, kept, faults>>

\* The sector cannot be written, or not be read into the buffer.
StoreFails ==
  LET o == obj[call.n] IN
  /\ call.at = "store" /\ ~o.dirty
  /\ IF call.left >= SS THEN Outdate(o.clust)
     ELSE o.dsect # o.clust /\ o.fptr < o.fsize /\ UNCHANGED <<card, safe>>
  /\ UNCHANGED win
  /\ Failed(DiskErr)

-----------------------------------------------------------------------------
(* f_read.  v is the sector's value that the caller got last, and scl its   *)
(* number in the file.                                                     *)

StartRead(n, len) ==
  /\ CanStart(n) /\ len <= obj[n].fsize - obj[n].fptr
  /\ ReadOn(obj[n], Begin(n, "read", len))
  /\ UNCHANGED <<card, safe, win, last, kept, faults>>

\* n bytes of value v for the caller.
Deliver(o, n, v) ==
  LET got == [call EXCEPT !.left = @ - n, !.v = v, !.c = 0, !.scl = 1 + o.fptr \div SS] IN
  IF got.left > 0 THEN ReadOn([o EXCEPT !.fptr = @ + n], got)
  ELSE Goes([o EXCEPT !.fptr = @ + n], [got EXCEPT !.at = "got"])

ReadInside ==
  LET o == obj[call.n] IN
  /\ call.at = "inside" /\ call.op = "read"
  /\ Deliver(o, LesserOf(call.left, SS - (o.fptr % SS)), o.bufv)
  /\ UNCHANGED <<card, safe, win, last, kept, faults>>

\* Fault: what is in the buffer and not on the card is not looked for.
ReadSectorAsStored ==
  LET o == obj[call.n] IN
  /\ call.at = "fetch" /\ call.left >= SS
  /\ DiskRead
  /\ Deliver(o, SS, card.data[o.clust])
  /\ UNCHANGED <<win, last, kept, faults>>

\* A whole sector, with what the buffer has of it.
ReadSector ==
  LET o == obj[call.n] IN
  /\ call.at = "fetch" /\ call.left >= SS
  /\ DiskRead
  /\ Deliver(o, SS, IF o.dirty /\ o.dsect = o.clust THEN o.bufv
                    ELSE card.data[o.clust])
  /\ UNCHANGED <<win, last, kept, faults>>

\* Part of one, through the buffer.
ReadPart ==
  LET o == obj[call.n] IN
  /\ call.at = "fetch" /\ call.left < SS /\ ~BufferInWay(o)
  /\ IF o.dsect = o.clust
     THEN Deliver(o, call.left, o.bufv) /\ UNCHANGED <<card, safe>>
     ELSE LET v == card.data[o.clust] IN
          DiskRead /\ Deliver([o EXCEPT !.dsect = o.clust, !.bufv = v], call.left, v)
  /\ UNCHANGED <<win, last, kept, faults>>

ReadFails ==
  LET o == obj[call.n] IN
  /\ call.at = "fetch"
  /\ call.left >= SS \/ (o.dsect # o.clust /\ ~o.dirty)
  /\ UNCHANGED <<card, safe, win>>
  /\ Failed(DiskErr)

ReadEnds ==
  /\ call.at = "got"
  /\ Return(obj[call.n])
  /\ UNCHANGED <<card, safe, win, last, kept, faults>>

\* get_fat, for f_read and for f_lseek in a file that is not written.
Follow ==
  LET o == obj[call.n]
      r == FatEntry(call.c) IN
  /\ InWindow("follow")
  /\ IF r \notin Clusters THEN Abort(1)
     ELSE IF call.op = "read" THEN Goes([o EXCEPT !.clust = r], [call EXCEPT !.at = "fetch"])
     ELSE SeekOn([o EXCEPT !.clust = r, !.fptr = @ + SS], [call EXCEPT !.left = @ - SS], r)
  /\ UNCHANGED <<card, safe, win, last, kept, faults>>

-----------------------------------------------------------------------------
(* f_lseek.                                                                *)

StartSeek(n, ofs) ==
  LET o  == obj[n]
      to == IF o.wr THEN ofs ELSE LesserOf(ofs, o.fsize)
      at == SectorStart(o.fptr - 1)
      cl == Begin(n, "seek", to) IN
  /\ CanStart(n) /\ ofs <= bound.room[n]
  /\ IF to = 0
     THEN obj' = [obj EXCEPT ![n].fptr = 0] /\ UNCHANGED call
     ELSE IF o.fptr > 0 /\ to > at           \* the same cluster or one behind
     THEN SeekOn([o EXCEPT !.fptr = at], [cl EXCEPT !.left = to - at], o.clust)
     ELSE IF o.sclust # 0
     THEN SeekOn([o EXCEPT !.fptr = 0, !.clust = o.sclust], cl, o.sclust)
     ELSE Goes([o EXCEPT !.fptr = 0], ScanFor(cl, 0, Hint))
  /\ UNCHANGED <<card, safe, win, last, kept, faults>>

\* Inside a sector its contents are read into the buffer.
SeekEnds ==
  LET o == obj[call.n] IN
  /\ call.at = "fill" /\ ~BufferInWay(o)
  /\ IF o.fptr % SS = 0 \/ o.dsect = call.c
     THEN Return(Sought(o)) /\ UNCHANGED <<card, safe>>
     ELSE IF call.c \notin Clusters THEN Abort(1) /\ UNCHANGED <<card, safe>>
     ELSE /\ DiskRead
          /\ Return(Sought([o EXCEPT !.dsect = call.c, !.bufv = card.data[call.c]]))
  /\ UNCHANGED <<win, last, kept, faults>>

FillFails ==
  LET o == obj[call.n] IN
  /\ call.at = "fill" /\ ~BufferInWay(o)
  /\ o.fptr % SS # 0 /\ o.dsect # call.c /\ call.c \in Clusters
  /\ UNCHANGED <<card, safe, win>>
  /\ Failed(DiskErr)

-----------------------------------------------------------------------------
(* f_close.                                                                *)

StartClose(n) ==
  LET o == obj[n] IN
  /\ call.at = "idle" /\ o.open
  /\ IF o.written
     THEN /\ call' = [Begin(n, "close", 0) EXCEPT !.at = IF o.dirty THEN "flush" ELSE "entry"]
          /\ UNCHANGED obj
     ELSE obj' = [obj EXCEPT ![n] = Closed] /\ UNCHANGED call
  /\ UNCHANGED <<card, safe, win, last, kept, faults>>

Entry ==
  LET o == obj[call.n] IN
  /\ InWindow("entry")
  /\ PutWin(call.n, [used |-> TRUE, start |-> o.sclust, size |-> o.fsize])
  /\ Goes([o EXCEPT !.written = FALSE], [call EXCEPT !.at = "sync"])
  /\ UNCHANGED <<card, safe, last, kept, faults>>

\* What has been written from the start of the file is promised.
Promise(o) == LesserOf(o.good, o.fsize)

\* Fault: what the card has buffered is not waited for.
SyncLazy ==
  /\ call.at = "sync" /\ ~win.dirty
  /\ kept' = [kept EXCEPT ![call.n] = Promise(obj[call.n])]
  /\ Return(Closed)
  /\ UNCHANGED <<card, safe, win, last, faults>>

\* sync(): the window is clean, the sector of FSInfo may go through it, and
\* the card has programmed everything.
Sync ==
  /\ call.at = "sync" /\ ~win.dirty
  /\ DiskSync
  /\ win' \in {win, [sect |-> NoSect, dirty |-> FALSE, copy |-> <<>>]}
  /\ kept' = [kept EXCEPT ![call.n] = Promise(obj[call.n])]
  /\ Return(Closed)
  /\ UNCHANGED <<last, faults>>

SyncFails ==
  /\ call.at = "sync" /\ ~win.dirty
  /\ UNCHANGED <<card, safe>>
  /\ win' \in {win, [sect |-> NoSect, dirty |-> FALSE, copy |-> <<>>]}
  /\ Failed(DiskErr)

-----------------------------------------------------------------------------
(* The power goes, or the card is pulled out and put in again: everything   *)
(* but the card is lost.  The next mount takes last_clust from the card,    *)
(* where it may be any number.                                             *)

Restart(hint) ==
  /\ card' \in {card, safe} /\ safe' = card'
  /\ win' = [sect |-> NoSect, dirty |-> FALSE, copy |-> <<>>]
  /\ last' = hint
  /\ obj' = [n \in Names |-> Closed]
  /\ call' = Idle
  /\ faults < bound.faults /\ faults' = faults + 1
  /\ UNCHANGED kept

Blank == [fat |-> [c \in Clusters |-> 0], ent |-> [n \in Names |-> NoEntry],
          data |-> [c \in Clusters |-> Nobody]]

Init ==
  /\ card = Blank /\ safe = Blank
  /\ win = [sect |-> NoSect, dirty |-> FALSE, copy |-> <<>>]
  /\ obj = [n \in Names |-> Closed]
  /\ call = Idle
  /\ kept = [n \in Names |-> None]
  /\ faults = 0
  /\ bound \in Bounds /\ last \in bound.hints

Calls ==
  \E n \in {x \in Names : bound.room[x] > 0} :
    \/ \E m \in {"existing", "openalways", "createalways"}, wr \in BOOLEAN :
         StartOpen(n, m, wr)
    \/ \E len \in bound.lens : StartRead(n, len)
    \/ \E len \in bound.lens : StartWrite(n, len)
    \/ \E ofs \in bound.targets : StartSeek(n, ofs)
    \/ StartClose(n)

Proceed ==
  \/ FlushWindow \/ LoadWindow
  \/ FindExisting \/ FindCreates \/ Free \/ BackToEntry
  \/ Stretch \/ ScanFinds \/ ScanPasses \/ Link
  \/ FlushBuffer
  \/ WriteInside \/ WriteSector \/ WritePart
  \/ ReadInside \/ ReadSector \/ ReadPart \/ ReadEnds
  \/ Follow \/ SeekEnds
  \/ Entry \/ Sync

Fails ==
  WindowFails \/ BufferFails \/ StoreFails \/ ReadFails \/ FillFails \/ SyncFails

Next == (Calls \/ Proceed \/ Fails \/ \E hint \in bound.hints : Restart(hint)) /\ UNCHANGED bound

Spec == Init /\ [][Next]_vars
FairSpec == Spec /\ WF_vars(Proceed /\ UNCHANGED bound)

-----------------------------------------------------------------------------
(* Properties.                                                             *)

\* The chain from s in the FAT f, as far as it is one.
Walk(f, s) ==
  LET step[k \in 1 .. Cardinality(Clusters) + 1] ==
        IF k = 1 THEN s
        ELSE IF step[k - 1] \in Clusters THEN f[step[k - 1]] ELSE step[k - 1]
  IN step

Chain(f, s) == {Walk(f, s)[k] : k \in 1 .. Cardinality(Clusters) + 1} \cap Clusters
Ends(f, s)  == Walk(f, s)[Cardinality(Clusters) + 1] = EOC

\* A file of that first cluster and size is whole.
Whole(f, start, size) ==
  \/ start = 0 /\ size = 0
  \/ start \in Clusters /\ Ends(f, start) /\ size <= SS * Cardinality(Chain(f, start))

\* Whatever fails and wherever the power goes, the volume on the card is
\* sound: the chain of every entry ends, is allocated and long enough for the
\* size, and no two entries share a cluster.  Entries with the error code for
\* a first cluster (see StartIfNotEmpty) are excepted.
CardSound ==
  LET used == {n \in Names : card.ent[n].used /\ card.ent[n].start # DiskErr} IN
  /\ \A n \in used : Whole(card.fat, card.ent[n].start, card.ent[n].size)
  /\ \A n, m \in used :
       n # m => Chain(card.fat, card.ent[n].start) \cap Chain(card.fat, card.ent[m].start) = {}

\* What an open file may write to is its own: the chain of its object, as the
\* volume stands with the window, is whole, and no other open file and no
\* entry of another file has a cluster of it.
ObjectsApart ==
  LET files == {n \in Names : obj[n].open /\ obj[n].sclust \in Clusters}
      mine(n) == Chain(View.fat, obj[n].sclust) IN
  \A n \in files :
    /\ Ends(View.fat, obj[n].sclust)
    /\ \A m \in Names \ {n} :
         mine(n) \cap (Chain(View.fat, View.ent[m].start) \cup Chain(View.fat, obj[m].sclust)) = {}

\* When close has returned without an error, the file stays on the card as it
\* was closed, through failures, crashes and all work on other files, until it
\* is emptied or those sectors are written again.
KeptOnCard ==
  \A n \in Names :
    LET e == safe.ent[n]
        w == Walk(safe.fat, e.start) IN
    kept[n] # None =>
      /\ e.used /\ e.size >= kept[n]
      /\ \A i \in 1 .. (kept[n] + SS - 1) \div SS : safe.data[w[i]] = n

\* A read returns what was last written, wherever it is at the moment: in
\* the buffer, on the card, or half in each.
ReadsBack ==
  call.at = "got" /\ SS * (call.scl - 1) < obj[call.n].good => call.v = call.n

\* Without a failure no cluster is lost: between two calls each one is free
\* or in the chain of a file.
NothingLost ==
  faults = 0 /\ call.at = "idle" =>
    \A c \in Clusters :
      View.fat[c] # 0 =>
        \E n \in Names : c \in Chain(View.fat, View.ent[n].start)
                               \cup Chain(View.fat, obj[n].sclust)

\* Every call returns, on a full volume and from any last_clust too.
CallsEnd == call.at # "idle" ~> call.at = "idle"

\* "File start cluster (0 when fsize==0)" (ff.h:120).
StartIfNotEmpty ==
  \A n \in Names : card.ent[n].used /\ card.ent[n].size = 0 => card.ent[n].start = 0
=============================================================================
