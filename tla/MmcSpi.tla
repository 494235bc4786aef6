------------------------------- MODULE MmcSpi -------------------------------
(***************************************************************************)
(* The byte engine of the MMC/SD card interface, entity avalonif_mmc of    *)
(* boards/Cineraria_DE0nano_DVI/mmcdma/avalonif_mmc.vhd: a full-duplex SPI *)
(* shifter with a clock divider, the chip select, and the free-running     *)
(* down counter (FRC) that the software and the read DMA use as a timeout. *)
(*                                                                         *)
(* The module has no Next of its own: SpiClock(wr, rx) is one rising edge  *)
(* of clk, given the register write wr presented in that cycle and the     *)
(* byte rx that the card is shifting out.  The registers of the entity are *)
(* the variables, under their own names; a bit is 0 or 1.                  *)
(*                                                                         *)
(* Abstracted: a byte travels whole (txddata is the byte being sent and    *)
(* rxddata becomes rx at the last bit), so sdo and the bits of SDI are not *)
(* variables; the card-detect and write-protect inputs, which the entity   *)
(* only samples, are left to the disk layer.                               *)
(***************************************************************************)
EXTENDS Naturals

CONSTANTS
  LastBit,    \* the last value of bitcount: 7 in the code
  DivMax,     \* the largest value of divref: 255 in the code
  FrcMax      \* the largest value of frc: 2^32 - 1 in the code

ASSUME SpiAssumption ==
  /\ LastBit \in Nat
  /\ DivMax \in Nat
  /\ FrcMax \in Nat

VARIABLES
  spistate,   \* the state of the shifter
  bitcount,   \* bits sampled so far in this byte
  divcount,   \* clocks left in the current half period of SCK
  divref,     \* clock divider register
  txddata,    \* byte being sent
  rxddata,    \* byte received; Mixed while a byte is partly shifted in
  irqena,     \* interrupt enable
  exit,       \* 1 when no byte is in flight
  ncs,        \* chip select, active low
  sck,        \* serial clock
  frc,        \* timeout counter
  frczero     \* 1 when frc was zero in the last cycle

spivars == <<spistate, bitcount, divcount, divref, txddata, rxddata,
             irqena, exit, ncs, sck, frc, frczero>>

Bit  == {0, 1}
Byte == 0..255

\* What rxddata holds between the first and the last bit of a byte: neither
\* the old byte nor the new one.
Mixed == 256

SpiState == {"IDLE", "SDO", "SDI", "DONE"}

(***************************************************************************)
(* A register write as the entity sees it.  "none" is a cycle without one. *)
(* start is the negation of bit 9; val is the byte to send, the divider or *)
(* the timer value, according to reg.                                      *)
(***************************************************************************)
Access == [reg : {"none", "status", "clkdiv", "timer", "dma"},
           start : Bit, irq : Bit, ncs : Bit, val : Nat]

NoWrite == [reg |-> "none", start |-> 0, irq |-> 0, ncs |-> 0, val |-> 0]

SpiTypeOK ==
  /\ spistate \in SpiState
  /\ bitcount \in 0..LastBit
  /\ divcount \in 0..DivMax
  /\ divref \in 0..DivMax
  /\ txddata \in Byte
  /\ rxddata \in Byte \cup {Mixed}
  /\ irqena \in Bit
  /\ exit \in Bit
  /\ ncs \in Bit
  /\ sck \in Bit
  /\ frc \in 0..FrcMax
  /\ frczero \in Bit

\* The reset branch.  bitcount, divcount, txddata and rxddata have no reset:
\* they hold whatever the device powered up with, which the first byte
\* overwrites.
SpiReset ==
  /\ spistate = "IDLE"
  /\ bitcount = 0
  /\ divcount = 0
  /\ divref = DivMax
  /\ txddata = 0
  /\ rxddata = Mixed
  /\ irqena = 0
  /\ exit = 1
  /\ ncs = 1
  /\ sck = 1
  /\ frc = 0
  /\ frczero = 1

-----------------------------------------------------------------------------
(* The shifter: one alternative per branch of "case state is".             *)

\* IDLE, no write to the status or divider register.
Rest(wr) ==
  /\ spistate = "IDLE"
  /\ wr.reg \notin {"status", "clkdiv"}
  /\ UNCHANGED <<spistate, bitcount, divcount, divref, txddata, rxddata,
                 irqena, exit, ncs, sck>>

\* IDLE, the status register is written with bit 9 clear: a byte starts.
StartByte(wr) ==
  /\ spistate = "IDLE"
  /\ wr.reg = "status"
  /\ wr.start = 1
  /\ spistate' = "SDO"
  /\ bitcount' = 0
  /\ divcount' = divref
  /\ exit' = 0
  /\ irqena' = wr.irq
  /\ ncs' = wr.ncs
  /\ txddata' = wr.val
  /\ UNCHANGED <<divref, rxddata, sck>>

\* IDLE, the status register is written with bit 9 set: only the chip select
\* and the interrupt enable change.
SelectOnly(wr) ==
  /\ spistate = "IDLE"
  /\ wr.reg = "status"
  /\ wr.start = 0
  /\ irqena' = wr.irq
  /\ ncs' = wr.ncs
  /\ txddata' = wr.val
  /\ UNCHANGED <<spistate, bitcount, divcount, divref, rxddata, exit, sck>>

\* IDLE, the divider register is written.
SetDivider(wr) ==
  /\ spistate = "IDLE"
  /\ wr.reg = "clkdiv"
  /\ divref' = wr.val
  /\ UNCHANGED <<spistate, bitcount, divcount, txddata, rxddata, irqena,
                 exit, ncs, sck>>

\* A half period of SCK is not over.  A write to the status or divider
\* register in this or any later branch is lost.
Hold ==
  /\ spistate # "IDLE"
  /\ divcount # 0
  /\ divcount' = divcount - 1
  /\ UNCHANGED <<spistate, bitcount, divref, txddata, rxddata, irqena, exit,
                 ncs, sck>>

\* SDO: the next bit is put on the line with the falling edge of SCK.
DriveBit ==
  /\ spistate = "SDO"
  /\ divcount = 0
  /\ spistate' = "SDI"
  /\ divcount' = divref
  /\ sck' = 1 - sck
  /\ UNCHANGED <<bitcount, divref, txddata, rxddata, irqena, exit, ncs>>

\* SDI: a bit is sampled with the rising edge of SCK.  bitcount is three
\* bits wide and wraps.
SampleBit(rx) ==
  /\ spistate = "SDI"
  /\ divcount = 0
  /\ spistate' = IF bitcount = LastBit THEN "DONE" ELSE "SDO"
  /\ rxddata' = IF bitcount = LastBit THEN rx ELSE Mixed
  /\ bitcount' = IF bitcount = LastBit THEN 0 ELSE bitcount + 1
  /\ divcount' = divref
  /\ sck' = 1 - sck
  /\ UNCHANGED <<divref, txddata, irqena, exit, ncs>>

\* Fault: exit is not raised at the end of a byte.
FinishSilently ==
  /\ spistate = "DONE"
  /\ divcount = 0
  /\ spistate' = "IDLE"
  /\ sck' = 1
  /\ UNCHANGED <<bitcount, divcount, divref, txddata, rxddata, irqena, exit,
                 ncs>>

\* DONE: the byte is complete and exit rises.
Finish ==
  /\ spistate = "DONE"
  /\ divcount = 0
  /\ spistate' = "IDLE"
  /\ sck' = 1
  /\ exit' = 1
  /\ UNCHANGED <<bitcount, divcount, divref, txddata, rxddata, irqena, ncs>>

Shifter(wr, rx) ==
  \/ Rest(wr) \/ StartByte(wr) \/ SelectOnly(wr) \/ SetDivider(wr)
  \/ Hold \/ DriveBit \/ SampleBit(rx) \/ Finish

\* The timeout counter, which runs and can be written in every state, and
\* its zero flag, which lags it by one cycle.
Timer(wr) ==
  /\ frc' = IF wr.reg = "timer" THEN wr.val
            ELSE IF frc # 0 THEN frc - 1 ELSE 0
  /\ frczero' = IF frc = 0 THEN 1 ELSE 0

SpiClock(wr, rx) == Shifter(wr, rx) /\ Timer(wr)

-----------------------------------------------------------------------------
(* The shifter's own invariant.                                            *)

\* exit reports idleness exactly, SCK rests high and is low only between the
\* two edges of a bit (SPI mode 3): a byte is LastBit + 1 whole clock pulses
\* and the engine is never abandoned halfway through one.
SpiConsistent ==
  /\ exit = 1 <=> spistate = "IDLE"
  /\ sck = 0 <=> spistate = "SDI"
  /\ spistate = "DONE" => bitcount = 0
=============================================================================
