------------------------------- MODULE MmcDma -------------------------------
(***************************************************************************)
(* The read DMA in front of the MMC/SD byte engine, entity avalonif_mmcdma *)
(* of boards/Cineraria_DE0nano_DVI/mmcdma/avalonif_mmcdma.vhd.             *)
(*                                                                         *)
(* Everything here happens at the rising edge of one clock, so one step is *)
(* one edge: DmaClock(bus, rx) takes the register write bus that the CPU   *)
(* presents in the cycle and the byte rx the card is shifting out, and     *)
(* gives every register of both entities its next value.  The actions      *)
(* below are the branches of the two processes and of the multiplexer that *)
(* hands the byte engine to the state machine while dmadone is 0.          *)
(*                                                                         *)
(* Spec lets the CPU write any register in any cycle.  PoliteSpec adds the *)
(* rules the driver (module MmcDriver, which is shown to keep them) obeys. *)
(***************************************************************************)
EXTENDS MmcSpi

CONSTANTS
  MemMax,     \* the last index of the read buffer: 511 in the code
  Accesses,   \* the register writes the CPU makes, NoWrite among them
  RxBytes     \* the bytes the card answers

VARIABLES
  dmastate,       \* the state of the transfer
  dmastart,       \* a transfer was asked for and has not begun
  dmaread_count,  \* index of the byte being received
  dmarefcount,    \* index of the last byte of the transfer
  dmadone,        \* 1 when no transfer is in progress
  dmadataerr,     \* the transfer ended on a byte that is no start token
  dmatimout,      \* the transfer ended because the timer had run out
  dmairqena,      \* interrupt enable
  mmcifwr,        \* write strobe of the state machine to the byte engine
  mem             \* the read buffer

dmavars == <<dmastate, dmastart, dmaread_count, dmarefcount, dmadone,
             dmadataerr, dmatimout, dmairqena, mmcifwr, mem>>
vars == <<spivars, dmavars>>

DmaState == {"IDLE", "RESSET", "RESWAIT", "READSET", "READWAIT"}
Token    == 254      \* X"FE", the start token of a data block
Busy     == 255      \* X"FF", the card has nothing to send yet

\* The values a write can carry are as wide as the register it goes to.
LegalAccess ==
  {a \in Access :
     /\ a.reg = "status" => a.val \in Byte
     /\ a.reg = "clkdiv" => a.val \in 0..DivMax
     /\ a.reg = "timer"  => a.val \in 0..FrcMax
     /\ a.reg = "dma"    => a.val \in 0..MemMax}

ASSUME DmaAssumption ==
  /\ MemMax \in Nat
  /\ NoWrite \in Accesses
  /\ Accesses \subseteq LegalAccess
  /\ RxBytes \subseteq Byte

DmaTypeOK ==
  /\ dmastate \in DmaState
  /\ dmastart \in Bit
  /\ dmaread_count \in 0..MemMax
  /\ dmarefcount \in 0..MemMax
  /\ dmadone \in Bit
  /\ dmadataerr \in Bit
  /\ dmatimout \in Bit
  /\ dmairqena \in Bit
  /\ mmcifwr \in Bit
  /\ mem \in [0..MemMax -> Byte \cup {Mixed}]

\* Every register of the two entities holds a value of its width.
TypeOK == SpiTypeOK /\ DmaTypeOK

\* The reset branches.  The RAM has none; its content is arbitrary, and zero
\* here.
DmaReset ==
  /\ dmastate = "IDLE"
  /\ dmastart = 0
  /\ dmaread_count = 0
  /\ dmarefcount = 0
  /\ dmadone = 1
  /\ dmadataerr = 0
  /\ dmatimout = 0
  /\ dmairqena = 0
  /\ mmcifwr = 0
  /\ mem = [i \in 0..MemMax |-> 0]

Init == SpiReset /\ DmaReset

-----------------------------------------------------------------------------
(* The register process.                                                   *)

\* The irq enable and the byte count follow every write of the register, the
\* start bit only one that finds it clear; once set it is cleared when the
\* state machine has left IDLE.
DmaRegs(bus) ==
  LET w == bus.reg = "dma" IN
  /\ dmairqena' = IF w THEN bus.irq ELSE dmairqena
  /\ dmarefcount' = IF w THEN bus.val ELSE dmarefcount
  /\ dmastart' = IF dmastart = 0
                 THEN IF w THEN bus.start ELSE 0
                 ELSE IF dmadone = 0 THEN 0 ELSE 1

-----------------------------------------------------------------------------
(* The state machine: one alternative per branch.                          *)

StayIdle ==
  /\ dmastate = "IDLE"
  /\ dmastart = 0
  /\ dmaread_count' = 0
  /\ UNCHANGED <<dmastate, mmcifwr, dmadone, dmadataerr, dmatimout, mem>>

\* The transfer begins: from the next cycle on the byte engine is cut off
\* from the CPU.
BeginTransfer ==
  /\ dmastate = "IDLE"
  /\ dmastart = 1
  /\ dmaread_count' = 0
  /\ dmastate' = "RESSET"
  /\ mmcifwr' = 1
  /\ dmadone' = 0
  /\ dmadataerr' = 0
  /\ dmatimout' = 0
  /\ UNCHANGED mem

\* RESSET and READSET: the strobe for one byte lasts one cycle.
DropStrobe ==
  /\ dmastate \in {"RESSET", "READSET"}
  /\ dmastate' = IF dmastate = "RESSET" THEN "RESWAIT" ELSE "READWAIT"
  /\ mmcifwr' = 0
  /\ UNCHANGED <<dmaread_count, dmadone, dmadataerr, dmatimout, mem>>

AwaitByte ==
  /\ dmastate \in {"RESWAIT", "READWAIT"}
  /\ exit = 0
  /\ UNCHANGED <<dmastate, mmcifwr, dmaread_count, dmadone, dmadataerr,
                 dmatimout, mem>>

\* RESWAIT: a byte is in and the timer runs.
TokenArrives ==
  /\ dmastate = "RESWAIT"
  /\ exit = 1 /\ frczero = 0 /\ rxddata = Token
  /\ dmastate' = "READSET"
  /\ mmcifwr' = 1
  /\ UNCHANGED <<dmaread_count, dmadone, dmadataerr, dmatimout, mem>>

PollAgain ==
  /\ dmastate = "RESWAIT"
  /\ exit = 1 /\ frczero = 0 /\ rxddata = Busy
  /\ dmastate' = "RESSET"
  /\ mmcifwr' = 1
  /\ UNCHANGED <<dmaread_count, dmadone, dmadataerr, dmatimout, mem>>

\* Fault: an error leaves the engine with the state machine.
DataErrorHolds ==
  /\ dmastate = "RESWAIT"
  /\ exit = 1 /\ frczero = 0 /\ rxddata \notin {Token, Busy}
  /\ dmastate' = "IDLE"
  /\ dmadataerr' = 1
  /\ UNCHANGED <<mmcifwr, dmaread_count, dmadone, dmatimout, mem>>

DataError ==
  /\ dmastate = "RESWAIT"
  /\ exit = 1 /\ frczero = 0 /\ rxddata \notin {Token, Busy}
  /\ dmastate' = "IDLE"
  /\ dmadone' = 1
  /\ dmadataerr' = 1
  /\ UNCHANGED <<mmcifwr, dmaread_count, dmatimout, mem>>

\* The timer has run out: whatever the byte was, even a token.
TimeOut ==
  /\ dmastate = "RESWAIT"
  /\ exit = 1 /\ frczero = 1
  /\ dmastate' = "IDLE"
  /\ dmadone' = 1
  /\ dmatimout' = 1
  /\ UNCHANGED <<mmcifwr, dmaread_count, dmadataerr, mem>>

\* Fault: the end is tested after the counter has moved on.
StoreByteLong ==
  /\ dmastate = "READWAIT"
  /\ exit = 1
  /\ mem' = [mem EXCEPT ![dmaread_count] = rxddata]
  /\ dmaread_count' = IF dmaread_count = MemMax THEN 0
                      ELSE dmaread_count + 1
  /\ \/ /\ dmaread_count > dmarefcount
        /\ dmastate' = "IDLE"
        /\ dmadone' = 1
        /\ UNCHANGED mmcifwr
     \/ /\ dmaread_count <= dmarefcount
        /\ dmastate' = "READSET"
        /\ mmcifwr' = 1
        /\ UNCHANGED dmadone
  /\ UNCHANGED <<dmadataerr, dmatimout>>

\* READWAIT: a byte of the block is in, and is stored.  The counter is as
\* wide as the buffer's address and wraps.
StoreByte ==
  /\ dmastate = "READWAIT"
  /\ exit = 1
  /\ mem' = [mem EXCEPT ![dmaread_count] = rxddata]
  /\ \/ /\ dmaread_count = dmarefcount
        /\ dmastate' = "IDLE"
        /\ dmadone' = 1
        /\ UNCHANGED <<mmcifwr, dmaread_count>>
     \/ /\ dmaread_count # dmarefcount
        /\ dmastate' = "READSET"
        /\ mmcifwr' = 1
        /\ dmaread_count' = IF dmaread_count = MemMax THEN 0
                      ELSE dmaread_count + 1
        /\ UNCHANGED dmadone
  /\ UNCHANGED <<dmadataerr, dmatimout>>

DmaFsm ==
  \/ StayIdle \/ BeginTransfer \/ DropStrobe \/ AwaitByte
  \/ TokenArrives \/ PollAgain \/ DataError \/ TimeOut \/ StoreByte

-----------------------------------------------------------------------------
(* The multiplexer in front of the byte engine, and the clock edge.        *)

\* X"000000FF" at address "00": send FF, chip select low, no interrupt.
DmaByte == [reg |-> "status", start |-> 1, irq |-> 0, ncs |-> 0, val |-> 255]

\* Fault: the CPU's writes get through during a transfer.
SpiWriteShared(bus) ==
  IF dmadone = 0 /\ mmcifwr = 1 THEN DmaByte
  ELSE IF bus.reg = "dma" THEN NoWrite ELSE bus

SpiWrite(bus) ==
  IF dmadone = 0
  THEN IF mmcifwr = 1 THEN DmaByte ELSE NoWrite
  ELSE IF bus.reg = "dma" THEN NoWrite ELSE bus

DmaClock(bus, rx) ==
  /\ DmaRegs(bus)
  /\ DmaFsm
  /\ SpiClock(SpiWrite(bus), rx)

Next == \E bus \in Accesses, rx \in RxBytes : DmaClock(bus, rx)

Spec == Init /\ [][Next]_vars

\* What the driver keeps to: no write before the last transfer is over, and
\* none that starts a byte or a transfer while a byte is in flight.
Polite(bus) ==
  /\ bus.reg # "none" => dmadone = 1 /\ dmastart = 0
  /\ bus.reg = "dma" \/ (bus.reg = "status" /\ bus.start = 1) => exit = 1

PoliteNext ==
  \E bus \in Accesses, rx \in RxBytes : Polite(bus) /\ DmaClock(bus, rx)

\* The clock runs, so the fairness is that of time: edges keep coming.
PoliteSpec == Init /\ [][PoliteNext]_vars /\ WF_vars(PoliteNext)

-----------------------------------------------------------------------------
(* Properties that hold whatever the CPU does.                             *)

\* The state machine and the byte engine agree on who owns the engine: the
\* multiplexer points at the state machine exactly while a transfer runs, an
\* error flag belongs to a transfer that is over, at most one is set, and the
\* byte engine's own state is coherent (exit, SCK, bit counter).
Ownership ==
  /\ dmadone = 0 <=> dmastate # "IDLE"
  /\ mmcifwr = 1 <=> dmastate \in {"RESSET", "READSET"}
  /\ dmadataerr = 1 => dmadone = 1 /\ dmatimout = 0
  /\ dmatimout = 1 => dmadone = 1
  /\ SpiConsistent

\* Once the token is in, no request for a byte of the block is lost: the
\* engine is free whenever READSET strobes it, even if the CPU wrote its
\* registers in the same cycle or just before.
BurstRequestAccepted == dmastate = "READSET" => exit = 1

\* A buffer cell never takes a byte that is only partly shifted in.
NoTornByte == \A i \in 0..MemMax : mem[i] # Mixed

\* While a transfer runs the CPU cannot touch the timer that bounds it nor
\* the clock divider: the timer only counts down.
TimeoutUndisturbed ==
  [][dmadone = 0 => /\ frc' = IF frc = 0 THEN 0 ELSE frc - 1
                    /\ divref' = divref]_vars

-----------------------------------------------------------------------------
(* Properties that need a CPU that keeps the rules.                        *)

\* Every strobe of the state machine finds the byte engine free, the first
\* one included: no poll for the token is lost.
RequestAccepted == mmcifwr = 1 => exit = 1

\* The counter never runs past the last byte asked for: the transfer writes
\* no cell beyond it and cannot wrap.
CountBounded == dmadone = 0 => dmaread_count <= dmarefcount

\* "Starting a read DMA overwrites the MMC I/F registers with irq_ena='0',
\* nCS='0', TxD=0xFF" (header comment, avalonif_mmcdma.vhd:13-15): from the
\* first byte of the transfer on, that is what the registers hold.
RegistersOverwritten ==
  dmastate \in {"RESWAIT", "READSET", "READWAIT"} =>
    irqena = 0 /\ ncs = 0 /\ txddata = 255

\* The promise made to the software.
InProgress == dmastart = 1 \/ dmadone = 0

Reader == INSTANCE BlockReader WITH
  Cell   <- Byte,
  status <- IF InProgress THEN "busy"
            ELSE IF dmatimout = 1 THEN "timeout"
            ELSE IF dmadataerr = 1 THEN "dataerr" ELSE "ready",
  want   <- IF InProgress THEN dmarefcount ELSE 0,
  got    <- IF dmastate \in {"READSET", "READWAIT"} THEN dmaread_count ELSE 0,
  buf    <- mem

\* The cycle-level transfer implements the promise of BlockReader: all the
\* bytes asked for in order, or an error and an untouched buffer.
ImplementsReader == Reader!ReaderSpec
=============================================================================
