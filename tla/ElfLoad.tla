------------------------------- MODULE ElfLoad -------------------------------
(***************************************************************************)
(* The boot loader, nd_elf3.c: it mounts the card, opens the program's     *)
(* file, loads the segments that its headers name and jumps to it, or      *)
(* blinks for ever.                                                        *)
(*                                                                         *)
(* The ELF header and each program header take a unit of the file.  Left   *)
(* out: the type and machine of the file (a header is right or not).       *)
(***************************************************************************)
EXTENDS PetitFat

CONSTANTS
  Chunk,    \* units that are read at once: 32768 bytes
  Section,  \* the address of the loader itself
  Memory    \* addresses

ASSUME LoadAssumption == Chunk \in Nat \ {0} /\ Section \in Memory

\* The program headers that the file has.
HeadersOf(cd) == 1 .. LesserOf(cd.phnum, cd.size - 1)

\* Where a segment goes.
Extent(ph) == IF ph.load THEN ph.addr .. ph.addr + ph.size - 1 ELSE {}

\* A program fits in the memory, and no segment is laid over another.
ASSUME ProgramsAssumption ==
  \A cd \in Cards :
    /\ cd.elf \in BOOLEAN /\ cd.phnum \in Nat
    /\ \A p \in HeadersOf(cd) :
         /\ cd.ph[p] \in [load : BOOLEAN, offset : Nat, addr : Int, size : Nat]
         /\ Extent(cd.ph[p]) \subseteq Memory
         /\ \A q \in HeadersOf(cd) \ {p} : Extent(cd.ph[p]) \intersect Extent(cd.ph[q]) = {}

VARIABLES
  at,       \* the call that the loader is in
  load,     \* phnum, f_pos, the header read last, phy_addr, sec_size
  mem       \* the memory: units of the file, or something older

vars == <<card, fs, dj, call, faults, typeFaults, at, load, mem>>

Older == -1
NoHeader == [load |-> FALSE, offset |-> 0, addr |-> 0, size |-> 0]

\* A function of the file system has returned.
Back(from) == call.op = "none" /\ at = from /\ UNCHANGED <<card, faults, typeFaults>>
Good(from) == Back(from) /\ call.res = "OK"

Stops(where) == at' = where /\ UNCHANGED <<fs, dj, call>>

SeekTo(pos, where) == at' = where /\ Seek(pos) /\ UNCHANGED dj
ReadTo(n, where)   == at' = where /\ Read(n) /\ UNCHANGED dj

\* The program header phnum, or, behind the last one, the program.
NextHeader(phnum, pos) ==
  IF phnum <= card.phnum THEN SeekTo(pos, "seekheader") ELSE Stops("run")

\* The rest of a segment.
NextPiece(size) == ReadTo(LesserOf(size, Chunk), "readsegment")

Fail == Stops("failed") /\ UNCHANGED <<load, mem>>

CallFailed ==
  /\ call.op = "none" /\ call.res # "OK" /\ at \notin {"run", "failed"}
  /\ UNCHANGED <<card, faults, typeFaults>> /\ Fail

Mounted == Good("mount") /\ at' = "open" /\ Open /\ UNCHANGED <<load, mem>>

Opened == Good("open") /\ SeekTo(0, "seekelf") /\ UNCHANGED <<load, mem>>

AtElf == Good("seekelf") /\ ReadTo(1, "readelf") /\ UNCHANGED <<load, mem>>

\* A header that was not read is not right.
ElfRead ==
  /\ Good("readelf")
  /\ IF call.buff # << >> /\ card.elf
     THEN /\ NextHeader(1, 1) /\ UNCHANGED mem
          /\ load' = [load EXCEPT !.phnum = 1, !.pos = 1]
     ELSE Fail

AtHeader == Good("seekheader") /\ ReadTo(1, "readheader") /\ UNCHANGED <<load, mem>>

\* A header that was not read is the one before.
HeaderRead ==
  LET ph == IF call.buff = << >> THEN load.ph ELSE card.ph[call.buff[1]] IN
  /\ Good("readheader")
  /\ CASE ~(ph.load /\ ph.size > 0) ->
            /\ NextHeader(load.phnum + 1, load.pos + 1) /\ UNCHANGED mem
            /\ load' = [load EXCEPT !.phnum = @ + 1, !.pos = @ + 1, !.ph = ph]
       [] ph.load /\ ph.size > 0 /\ ph.addr = Section -> Fail
       [] OTHER ->
            /\ SeekTo(ph.offset, "seeksegment") /\ UNCHANGED mem
            /\ load' = [load EXCEPT !.pos = @ + 1, !.ph = ph, !.addr = ph.addr, !.size = ph.size]

AtSegment ==
  Good("seeksegment") /\ NextPiece(load.size) /\ UNCHANGED <<load, mem>>

\* Fault: what was read counts, which may be nothing.
LoadByteRead == Len(call.buff)

LoadByte == LesserOf(load.size, Chunk)

\* What was read is in the memory; how much that is nobody asks.
PieceRead ==
  LET n == LoadByte IN
  /\ Good("readsegment")
  /\ mem' = [a \in Memory |-> IF a - load.addr + 1 \in DOMAIN call.buff
                              THEN call.buff[a - load.addr + 1] ELSE mem[a]]
  /\ IF load.size > n
     THEN NextPiece(load.size - n) /\ load' = [load EXCEPT !.addr = @ + n, !.size = @ - n]
     ELSE /\ NextHeader(load.phnum + 1, load.pos)
          /\ load' = [load EXCEPT !.phnum = @ + 1, !.addr = @ + n, !.size = 0]

Init ==
  /\ PetitInit
  /\ at = "mount" /\ mem = [a \in Memory |-> Older]
  /\ load = [phnum |-> 0, pos |-> 0, ph |-> NoHeader, addr |-> 0, size |-> 0]

Loader ==
  \/ CallFailed \/ Mounted \/ Opened \/ AtElf \/ ElfRead \/ AtHeader \/ HeaderRead
  \/ AtSegment \/ PieceRead

Next == (PetitStep /\ UNCHANGED <<at, load, mem>>) \/ Loader

Spec == Init /\ [][Next]_vars

\* Every access to the card ends.
FairSpec == Spec /\ WF_vars(Next)

-----------------------------------------------------------------------------
(* Properties.                                                             *)

Headers == HeadersOf(card)

Loaded(p) == card.ph[p].load

\* The program that is jumped to is in the memory as its headers say, as
\* far as the file goes, wherever its clusters, segments and pieces begin, and
\* no access has failed but a read of the type of a boot record, which
\* pf_mount forgets.
ProgramLoaded ==
  at = "run" =>
    /\ faults = 0
    /\ \A p \in Headers : Loaded(p) =>
         \A k \in 0 .. card.ph[p].size - 1 :
           card.ph[p].offset + k < card.size => mem[card.ph[p].addr + k] = card.ph[p].offset + k

\* A card that is right, with segments that are not where the loader is.
Startable == card.good /\ \A p \in Headers : Loaded(p) /\ card.ph[p].size > 0 => card.ph[p].addr # Section

\* The loader comes to an end, and starts the program if the card is right
\* and no access fails.
Boots == <>(at = "run" \/ (at = "failed" /\ (Startable => faults + typeFaults > 0)))
=============================================================================
