--------------------------- MODULE MmcDriverProofs ---------------------------
(***************************************************************************)
(* Theorems about MmcDma, the host controller, for every width of the      *)
(* byte, divider, timer and buffer, every set of CPU writes and every set  *)
(* of card bytes; and about MmcDriver: the device functions of mmc_spi.c   *)
(* keep the rules that the controller's theorems need, and what they       *)
(* return is what the card sent, for every size of the buffer, every block *)
(* and timer, and whatever the program does between two accesses.          *)
(***************************************************************************)
EXTENDS MmcDriver, SequenceTheorems, TLAPS

(***************************************************************************)
(* The host controller.                                                    *)
(***************************************************************************)

-----------------------------------------------------------------------------
(* What reaches the byte engine.                                           *)

\* A write that the multiplexer passes on fits the register it goes to.
LEMMA SpiWriteLegal ==
  ASSUME NEW bus \in Accesses
  PROVE  /\ bus \in LegalAccess
         /\ SpiWrite(bus) \in LegalAccess
         /\ SpiWrite(bus).reg # "dma"
<1>1. bus \in LegalAccess
  BY DmaAssumption
<1>2. NoWrite \in LegalAccess /\ DmaByte \in LegalAccess
  BY DEF NoWrite, DmaByte, LegalAccess, Access, Bit, Byte
<1>3. SpiWrite(bus) \in {bus, NoWrite, DmaByte}
  BY DEF SpiWrite
<1>4. SpiWrite(bus).reg # "dma"
  BY DEF SpiWrite, NoWrite, DmaByte
<1> QED BY <1>1, <1>2, <1>3, <1>4

\* The shifter keeps its registers within their widths.
LEMMA ShifterType ==
  ASSUME SpiTypeOK, NEW wr \in LegalAccess, NEW rx \in RxBytes,
         Shifter(wr, rx)
  PROVE  /\ spistate' \in SpiState /\ bitcount' \in 0..LastBit
         /\ divcount' \in 0..DivMax /\ divref' \in 0..DivMax
         /\ txddata' \in Byte /\ rxddata' \in Byte \cup {Mixed}
         /\ irqena' \in Bit /\ exit' \in Bit /\ ncs' \in Bit /\ sck' \in Bit
<1> USE SpiAssumption, DmaAssumption
<1> USE DEF SpiTypeOK, SpiState, Bit
<1>1. CASE Rest(wr)
  BY <1>1 DEF Rest
<1>2. CASE StartByte(wr)
  BY <1>2 DEF StartByte, LegalAccess, Access
<1>3. CASE SelectOnly(wr)
  BY <1>3 DEF SelectOnly, LegalAccess, Access
<1>4. CASE SetDivider(wr)
  BY <1>4 DEF SetDivider, LegalAccess, Access
<1>5. CASE Hold
  BY <1>5 DEF Hold
<1>6. CASE DriveBit
  BY <1>6 DEF DriveBit
<1>7. CASE SampleBit(rx)
  BY <1>7 DEF SampleBit
<1>8. CASE Finish
  BY <1>8 DEF Finish
<1> QED
  BY <1>1, <1>2, <1>3, <1>4, <1>5, <1>6, <1>7, <1>8 DEF Shifter

\* The timer stays within its width.
LEMMA TimerType ==
  ASSUME SpiTypeOK, NEW wr \in LegalAccess, Timer(wr)
  PROVE  frc' \in 0..FrcMax /\ frczero' \in Bit
BY SpiAssumption DEF SpiTypeOK, Timer, LegalAccess, Access, Bit

\* So does the DMA: its counter wraps at the end of the buffer.
LEMMA DmaType ==
  ASSUME TypeOK, NEW bus \in LegalAccess, DmaRegs(bus), DmaFsm
  PROVE  DmaTypeOK'
<1> USE DmaAssumption
<1> USE DEF TypeOK, DmaTypeOK, DmaState, Bit
<1>1. dmairqena' \in Bit /\ dmarefcount' \in 0..MemMax /\ dmastart' \in Bit
  BY DEF DmaRegs, LegalAccess, Access
<1>2. CASE StayIdle
  BY <1>1, <1>2 DEF StayIdle
<1>3. CASE BeginTransfer
  BY <1>1, <1>3 DEF BeginTransfer
<1>4. CASE DropStrobe
  BY <1>1, <1>4 DEF DropStrobe
<1>5. CASE AwaitByte
  BY <1>1, <1>5 DEF AwaitByte
<1>6. CASE TokenArrives
  BY <1>1, <1>6 DEF TokenArrives
<1>7. CASE PollAgain
  BY <1>1, <1>7 DEF PollAgain
<1>8. CASE DataError
  BY <1>1, <1>8 DEF DataError
<1>9. CASE TimeOut
  BY <1>1, <1>9 DEF TimeOut
<1>10. CASE StoreByte
  BY <1>1, <1>10 DEF StoreByte, SpiTypeOK
<1> QED
  BY <1>2, <1>3, <1>4, <1>5, <1>6, <1>7, <1>8, <1>9, <1>10 DEF DmaFsm

\* One clock edge.
LEMMA ClockType ==
  ASSUME TypeOK, NEW bus \in Accesses, NEW rx \in RxBytes, DmaClock(bus, rx)
  PROVE  TypeOK'
<1>1. SpiTypeOK'
  <2>1. SpiWrite(bus) \in LegalAccess
    BY SpiWriteLegal
  <2>2. Shifter(SpiWrite(bus), rx) /\ Timer(SpiWrite(bus))
    BY DEF DmaClock, SpiClock
  <2>3. SpiTypeOK
    BY DEF TypeOK
  <2> QED
    BY <2>1, <2>2, <2>3, ShifterType, TimerType DEF SpiTypeOK
<1>2. DmaTypeOK'
  BY SpiWriteLegal, DmaType DEF DmaClock
<1> QED BY <1>1, <1>2 DEF TypeOK

LEMMA InitType == Init => TypeOK
BY SpiAssumption, DmaAssumption
   DEF Init, SpiReset, DmaReset, TypeOK, SpiTypeOK, DmaTypeOK, SpiState,
       DmaState, Bit, Byte, Mixed

LEMMA StutterType == ASSUME TypeOK, UNCHANGED vars PROVE TypeOK'
BY DEF TypeOK, SpiTypeOK, DmaTypeOK, vars, spivars, dmavars

\* Every register of the interface holds a value of its width, whatever the
\* CPU writes and whatever the card answers.
THEOREM TypeCorrect == Spec => []TypeOK
<1>1. ASSUME TypeOK, [Next]_vars PROVE TypeOK'
  BY <1>1, ClockType, StutterType DEF Next
<1> QED BY <1>1, InitType, PTL DEF Spec

-----------------------------------------------------------------------------
(* Any CPU.                                                                *)

\* What is missing from the invariants of Spec to be inductive: between the
\* strobe and the end of its byte the engine is not idle, unless the byte is
\* whole.
WholeByte ==
  /\ spistate = "DONE" => rxddata # Mixed
  /\ dmastate \in {"RESWAIT", "READWAIT"} /\ exit = 1 => rxddata # Mixed

SafeInv ==
  TypeOK /\ Ownership /\ BurstRequestAccepted /\ NoTornByte /\ WholeByte

LEMMA InitSafe == Init => SafeInv
<1> SUFFICES ASSUME Init PROVE SafeInv
  OBVIOUS
<1>1. TypeOK
  BY InitType
<1>2. Ownership
  BY DEF Init, SpiReset, DmaReset, Ownership, SpiConsistent
<1>3. NoTornByte
  BY DEF Init, DmaReset, NoTornByte, Mixed
<1> QED
  BY <1>1, <1>2, <1>3
     DEF Init, SpiReset, DmaReset, SafeInv, BurstRequestAccepted, WholeByte

\* The shifter keeps exit, SCK and the bit counter in step with its state.
LEMMA ShifterConsistent ==
  ASSUME SpiTypeOK, SpiConsistent, NEW wr, NEW rx, Shifter(wr, rx)
  PROVE  SpiConsistent'
<1> USE SpiAssumption DEF SpiConsistent, SpiTypeOK, Bit
<1>1. CASE Rest(wr) \/ StartByte(wr) \/ SelectOnly(wr) \/ SetDivider(wr)
  BY <1>1 DEF Rest, StartByte, SelectOnly, SetDivider
<1>2. CASE Hold \/ DriveBit \/ Finish
  BY <1>2 DEF Hold, DriveBit, Finish
<1>3. CASE SampleBit(rx)
  BY <1>3 DEF SampleBit
<1> QED BY <1>1, <1>2, <1>3 DEF Shifter

\* A byte that ends is whole, and one that starts keeps the engine busy.
LEMMA ShifterWhole ==
  ASSUME SpiTypeOK, SpiConsistent, NEW wr, NEW rx \in RxBytes, Shifter(wr, rx),
         spistate = "DONE" => rxddata # Mixed
  PROVE  /\ spistate' = "DONE" => rxddata' # Mixed
         /\ exit = 0 /\ exit' = 1 => rxddata' # Mixed
         /\ exit = 1 /\ wr.reg = "status" /\ wr.start = 1 => exit' = 0
         /\ exit = 1 /\ exit' = 1 => rxddata' = rxddata
         /\ exit = 1 /\ wr = NoWrite => exit' = 1
<1> USE DmaAssumption DEF SpiConsistent, SpiTypeOK, Bit, Byte, Mixed
<1>1. CASE Rest(wr) \/ StartByte(wr) \/ SelectOnly(wr) \/ SetDivider(wr)
  BY <1>1 DEF Rest, StartByte, SelectOnly, SetDivider, NoWrite
<1>2. CASE Hold \/ DriveBit \/ Finish
  BY <1>2 DEF Hold, DriveBit, Finish
<1>3. CASE SampleBit(rx)
  BY <1>3 DEF SampleBit
<1> QED BY <1>1, <1>2, <1>3 DEF Shifter

\* The state machine keeps dmadone and the strobe in step with its state.
LEMMA FsmOwnership ==
  ASSUME DmaTypeOK, Ownership, DmaFsm
  PROVE  /\ dmadone' = 0 <=> dmastate' # "IDLE"
         /\ mmcifwr' = 1 <=> dmastate' \in {"RESSET", "READSET"}
         /\ dmadataerr' = 1 => dmadone' = 1 /\ dmatimout' = 0
         /\ dmatimout' = 1 => dmadone' = 1
<1> USE DEF Ownership, DmaTypeOK, DmaState, Bit
<1>1. CASE StayIdle \/ BeginTransfer
  BY <1>1 DEF StayIdle, BeginTransfer
<1>2. CASE DropStrobe \/ AwaitByte
  BY <1>2 DEF DropStrobe, AwaitByte
<1>3. CASE TokenArrives \/ PollAgain
  BY <1>3 DEF TokenArrives, PollAgain
<1>4. CASE DataError \/ TimeOut
  BY <1>4 DEF DataError, TimeOut
<1>5. CASE StoreByte
  BY <1>5 DEF StoreByte
<1> QED BY <1>1, <1>2, <1>3, <1>4, <1>5 DEF DmaFsm

\* One clock edge, any CPU.
LEMMA ClockSafe ==
  ASSUME SafeInv, NEW bus \in Accesses, NEW rx \in RxBytes, DmaClock(bus, rx)
  PROVE  SafeInv'
<1> DEFINE wr == SpiWrite(bus)
<1>0. /\ SpiTypeOK /\ DmaTypeOK /\ SpiConsistent
      /\ Shifter(wr, rx) /\ DmaFsm
  BY DEF SafeInv, TypeOK, Ownership, DmaClock, SpiClock
<1>1. TypeOK'
  BY ClockType DEF SafeInv
<1>2. Ownership'
  BY <1>0, ShifterConsistent, FsmOwnership DEF SafeInv, Ownership
<1>3. /\ spistate' = "DONE" => rxddata' # Mixed
      /\ exit = 0 /\ exit' = 1 => rxddata' # Mixed
      /\ exit = 1 /\ wr.reg = "status" /\ wr.start = 1 => exit' = 0
      /\ exit = 1 /\ exit' = 1 => rxddata' = rxddata
      /\ exit = 1 /\ wr = NoWrite => exit' = 1
  BY <1>0, ShifterWhole DEF SafeInv, WholeByte
<1>4. exit \in Bit /\ exit' \in Bit
  BY <1>0, <1>1 DEF TypeOK, SpiTypeOK
<1>5. dmadone = 0 /\ mmcifwr = 1 => wr = DmaByte
  BY DEF SpiWrite
<1>6. dmadone = 0 /\ mmcifwr = 0 => wr = NoWrite
  BY DEF SpiWrite
<1>7. BurstRequestAccepted'
  <2> SUFFICES ASSUME dmastate' = "READSET" PROVE exit' = 1
    BY DEF BurstRequestAccepted
  <2>1. TokenArrives \/ StoreByte
    BY <1>0 DEF DmaFsm, StayIdle, BeginTransfer, DropStrobe, AwaitByte,
                PollAgain, DataError, TimeOut
  <2>2. exit = 1 /\ dmastate \in {"RESWAIT", "READWAIT"}
    BY <2>1 DEF TokenArrives, StoreByte
  <2>3. dmadone = 0 /\ mmcifwr = 0
    BY <2>2, <1>0 DEF SafeInv, Ownership, DmaTypeOK, Bit
  <2> QED BY <2>2, <2>3, <1>3, <1>6
<1>8. NoTornByte'
  <2>1. CASE StoreByte
    <3>1. rxddata # Mixed
      BY <2>1 DEF StoreByte, SafeInv, WholeByte
    <3> QED
      BY <2>1, <3>1, <1>0
         DEF StoreByte, NoTornByte, SafeInv, DmaTypeOK
  <2>2. CASE ~StoreByte
    <3>1. mem' = mem
      BY <2>2, <1>0 DEF DmaFsm, StayIdle, BeginTransfer, DropStrobe, AwaitByte,
                        TokenArrives, PollAgain, DataError, TimeOut
    <3> QED BY <3>1 DEF SafeInv, NoTornByte
  <2> QED BY <2>1, <2>2
<1>9. WholeByte'
  <2> SUFFICES ASSUME dmastate' \in {"RESWAIT", "READWAIT"}, exit' = 1
               PROVE  rxddata' # Mixed
    BY <1>3 DEF WholeByte
  <2>1. CASE exit = 0
    BY <2>1, <1>3
  <2>2. CASE exit = 1
    <3>1. DropStrobe
      BY <2>2, <1>0 DEF DmaFsm, StayIdle, BeginTransfer, AwaitByte,
                  TokenArrives, PollAgain, DataError, TimeOut, StoreByte
    <3>2. dmadone = 0 /\ mmcifwr = 1
      BY <3>1, <1>0 DEF DropStrobe, SafeInv, Ownership, DmaTypeOK, Bit
    <3>3. exit' = 0
      BY <2>2, <3>2, <1>3, <1>5 DEF DmaByte
    <3> QED BY <3>3
  <2> QED BY <2>1, <2>2, <1>4 DEF Bit
<1> QED BY <1>1, <1>2, <1>7, <1>8, <1>9 DEF SafeInv

LEMMA StutterSafe == ASSUME SafeInv, UNCHANGED vars PROVE SafeInv'
BY StutterType
   DEF SafeInv, Ownership, SpiConsistent, BurstRequestAccepted, NoTornByte,
       WholeByte, vars, spivars, dmavars

LEMMA SafeInvariant == Spec => []SafeInv
<1>1. ASSUME SafeInv, [Next]_vars PROVE SafeInv'
  BY <1>1, ClockSafe, StutterSafe DEF Next
<1> QED BY <1>1, InitSafe, PTL DEF Spec

\* Whatever the CPU writes and whenever, the state machine and the byte
\* engine agree on who owns the engine, no request for a byte of a block is
\* lost, and no byte is stored before its last bit.
THEOREM AnyCpuSafe ==
  Spec => [](Ownership /\ BurstRequestAccepted /\ NoTornByte)
<1>1. SafeInv => Ownership /\ BurstRequestAccepted /\ NoTornByte
  BY DEF SafeInv
<1> QED BY <1>1, SafeInvariant, PTL

\* While a transfer runs nothing disturbs the timer that bounds it.
THEOREM TimeoutIsUndisturbed == Spec => TimeoutUndisturbed
<1>1. ASSUME SafeInv, [Next]_vars
      PROVE  [dmadone = 0 => /\ frc' = IF frc = 0 THEN 0 ELSE frc - 1
                             /\ divref' = divref]_vars
  <2> SUFFICES ASSUME Next, dmadone = 0
               PROVE  /\ frc' = IF frc = 0 THEN 0 ELSE frc - 1
                      /\ divref' = divref
    BY <1>1 DEF vars
  <2>1. PICK bus \in Accesses, rx \in RxBytes : DmaClock(bus, rx)
    BY DEF Next
  <2>2. SpiWrite(bus) \in {DmaByte, NoWrite}
    BY DEF SpiWrite
  <2>3. SpiWrite(bus).reg \notin {"timer", "clkdiv"}
    BY <2>2 DEF DmaByte, NoWrite
  <2>4. frc' = IF frc = 0 THEN 0 ELSE frc - 1
    BY <2>1, <2>3 DEF DmaClock, SpiClock, Timer
  <2>5. divref' = divref
    BY <2>1, <2>3 DEF DmaClock, SpiClock, Shifter, Rest, StartByte,
                      SelectOnly, SetDivider, Hold, DriveBit, SampleBit, Finish
  <2> QED BY <2>4, <2>5
<1> QED BY <1>1, SafeInvariant, PTL DEF Spec, TimeoutUndisturbed

-----------------------------------------------------------------------------
(* A CPU that keeps the rules.                                             *)

\* Between the request and its first byte nothing else starts, and no byte
\* has been counted.
Settled ==
  /\ dmastart = 1 /\ dmadone = 1 => exit = 1
  /\ dmastate \in {"RESSET", "RESWAIT"} => dmaread_count = 0

PoliteInv ==
  SafeInv /\ RequestAccepted /\ CountBounded /\ RegistersOverwritten /\ Settled

LEMMA InitPolite == Init => PoliteInv
BY InitSafe
   DEF Init, SpiReset, DmaReset, PoliteInv, RequestAccepted, CountBounded,
       RegistersOverwritten, Settled

\* What the shifter does with the two writes a transfer makes, and with
\* writes that start nothing.
LEMMA ShifterWrites ==
  ASSUME SpiTypeOK, SpiConsistent, NEW wr, NEW rx, Shifter(wr, rx)
  PROVE  /\ exit = 1 /\ wr = DmaByte =>
              irqena' = 0 /\ ncs' = 0 /\ txddata' = 255
         /\ wr = NoWrite => UNCHANGED <<irqena, ncs, txddata>>
         /\ exit = 1 /\ ~(wr.reg = "status" /\ wr.start = 1) => exit' = 1
<1> USE DEF SpiConsistent, SpiTypeOK, Bit
<1>1. CASE Rest(wr) \/ StartByte(wr) \/ SelectOnly(wr) \/ SetDivider(wr)
  BY <1>1 DEF Rest, StartByte, SelectOnly, SetDivider, NoWrite, DmaByte
<1>2. CASE Hold \/ DriveBit \/ Finish \/ SampleBit(rx)
  BY <1>2 DEF Hold, DriveBit, Finish, SampleBit
<1> QED BY <1>1, <1>2 DEF Shifter

\* While a transfer is in progress the request register does not move: the
\* length stays and no second request is taken.
LEMMA PoliteRegs ==
  ASSUME TypeOK, NEW bus, Polite(bus), DmaRegs(bus)
  PROVE  /\ InProgress => dmarefcount' = dmarefcount
         /\ dmadone = 0 => dmastart' = 0
         /\ dmastart = 1 /\ dmadone = 1 => dmastart' = 1
         /\ ~InProgress /\ bus.reg # "dma" => dmastart' = 0
         /\ dmastart' = 1 /\ dmastart = 0 =>
              bus.reg = "dma" /\ dmadone = 1 /\ exit = 1
BY DEF Polite, DmaRegs, InProgress, TypeOK, DmaTypeOK, Bit

\* One clock edge, a CPU that keeps the rules.
LEMMA ClockPolite ==
  ASSUME PoliteInv, NEW bus \in Accesses, NEW rx \in RxBytes,
         Polite(bus), DmaClock(bus, rx)
  PROVE  PoliteInv'
<1> DEFINE wr == SpiWrite(bus)
<1>0. /\ SafeInv /\ TypeOK /\ SpiTypeOK /\ DmaTypeOK
      /\ Ownership /\ SpiConsistent
      /\ Shifter(wr, rx) /\ DmaFsm /\ DmaRegs(bus)
  BY DEF PoliteInv, SafeInv, TypeOK, Ownership, DmaClock, SpiClock
<1>1. SafeInv'
  BY <1>0, ClockSafe
<1>2. /\ TypeOK' /\ SpiTypeOK' /\ DmaTypeOK' /\ Ownership'
      /\ BurstRequestAccepted'
  BY <1>1 DEF SafeInv, TypeOK
<1>3. /\ exit = 1 /\ wr = DmaByte => irqena' = 0 /\ ncs' = 0 /\ txddata' = 255
      /\ wr = NoWrite => UNCHANGED <<irqena, ncs, txddata>>
      /\ exit = 1 /\ ~(wr.reg = "status" /\ wr.start = 1) => exit' = 1
  BY <1>0, ShifterWrites
<1>4. /\ InProgress => dmarefcount' = dmarefcount
      /\ dmadone = 0 => dmastart' = 0
      /\ dmastart' = 1 /\ dmastart = 0 =>
           bus.reg = "dma" /\ dmadone = 1 /\ exit = 1
  BY <1>0, PoliteRegs
<1>5. /\ dmadone = 0 /\ mmcifwr = 1 => wr = DmaByte
      /\ dmadone = 0 /\ mmcifwr = 0 => wr = NoWrite
      /\ dmadone = 1 /\ bus.reg \in {"dma", "none"} =>
           ~(wr.reg = "status" /\ wr.start = 1)
  BY DEF SpiWrite, NoWrite
<1>6. dmastate' = "RESSET" => exit' = 1
  <2> SUFFICES ASSUME dmastate' = "RESSET" PROVE exit' = 1
    OBVIOUS
  <2>1. CASE BeginTransfer
    <3>1. dmadone = 1 /\ exit = 1 /\ bus.reg = "none"
      BY <2>1, <1>0
         DEF BeginTransfer, PoliteInv, Settled, Polite, Ownership, DmaTypeOK, Bit
    <3> QED BY <3>1, <1>3, <1>5
  <2>2. CASE ~BeginTransfer
    <3>1. PollAgain
      BY <2>2, <1>0
         DEF DmaFsm, StayIdle, DropStrobe, AwaitByte, TokenArrives, DataError,
             TimeOut, StoreByte
    <3>2. exit = 1 /\ wr = NoWrite
      BY <3>1, <1>0, <1>5 DEF PollAgain, Ownership, DmaTypeOK, Bit
    <3> QED BY <3>2, <1>3 DEF NoWrite
  <2> QED BY <2>1, <2>2
<1>7. RequestAccepted'
  BY <1>6, <1>2 DEF RequestAccepted, Ownership, BurstRequestAccepted
<1>8. CountBounded'
  <2> SUFFICES ASSUME dmadone' = 0 PROVE dmaread_count' <= dmarefcount'
    BY DEF CountBounded
  <2>1. CASE BeginTransfer
    BY <2>1, <1>2 DEF BeginTransfer, DmaTypeOK
  <2>2. CASE ~BeginTransfer
    <3>1. dmadone = 0
      BY <2>2, <1>0, <1>2
         DEF DmaFsm, StayIdle, DropStrobe, AwaitByte, TokenArrives, PollAgain,
             DataError, TimeOut, StoreByte, Ownership, DmaTypeOK, Bit
    <3>2. dmarefcount' = dmarefcount /\ dmaread_count <= dmarefcount
      BY <3>1, <1>4 DEF InProgress, PoliteInv, CountBounded
    <3>3. CASE StoreByte
      BY <3>2, <3>3, <1>0 DEF StoreByte, DmaTypeOK
    <3>4. CASE ~StoreByte
      <4>1. dmaread_count' = dmaread_count
        BY <2>2, <3>1, <3>4, <1>0
           DEF DmaFsm, StayIdle, DropStrobe, AwaitByte, TokenArrives,
               PollAgain, DataError, TimeOut, Ownership
      <4> QED BY <4>1, <3>2
    <3> QED BY <3>3, <3>4
  <2> QED BY <2>1, <2>2
<1>9. RegistersOverwritten'
  <2> SUFFICES ASSUME dmastate' \in {"RESWAIT", "READSET", "READWAIT"}
               PROVE  irqena' = 0 /\ ncs' = 0 /\ txddata' = 255
    BY DEF RegistersOverwritten
  <2>1. dmadone = 0
    BY <1>0 DEF DmaFsm, StayIdle, BeginTransfer, DropStrobe, AwaitByte,
                TokenArrives, PollAgain, DataError, TimeOut, StoreByte,
                Ownership, DmaTypeOK, Bit
  <2>2. CASE mmcifwr = 1
    BY <2>1, <2>2, <1>3, <1>5 DEF PoliteInv, RequestAccepted
  <2>3. CASE mmcifwr = 0
    <3>1. dmastate \in {"RESWAIT", "READWAIT"}
      BY <2>1, <2>3, <1>0 DEF Ownership, DmaTypeOK, DmaState
    <3> QED
      BY <2>1, <2>3, <3>1, <1>3, <1>5 DEF PoliteInv, RegistersOverwritten
  <2> QED BY <2>2, <2>3, <1>0 DEF DmaTypeOK, Bit
<1>10. Settled'
  <2>1. dmastart' = 1 /\ dmadone' = 1 => exit' = 1
    <3> SUFFICES ASSUME dmastart' = 1, dmadone' = 1 PROVE exit' = 1
      OBVIOUS
    <3>1. dmadone = 1
      BY <1>0, <1>4 DEF DmaTypeOK, Bit
    <3>2. dmastart = 0
      BY <3>1, <1>0
         DEF DmaFsm, BeginTransfer, StayIdle, DropStrobe, AwaitByte,
             TokenArrives, PollAgain, DataError, TimeOut, StoreByte,
             Ownership, DmaTypeOK, Bit
    <3>3. bus.reg = "dma" /\ exit = 1
      BY <3>2, <1>4
    <3> QED BY <3>1, <3>3, <1>3, <1>5
  <2>2. dmastate' \in {"RESSET", "RESWAIT"} => dmaread_count' = 0
    BY <1>0 DEF PoliteInv, Settled, DmaFsm, StayIdle, BeginTransfer,
                DropStrobe, AwaitByte, TokenArrives, PollAgain, DataError,
                TimeOut, StoreByte
  <2> QED BY <2>1, <2>2 DEF Settled
<1> QED BY <1>1, <1>7, <1>8, <1>9, <1>10 DEF PoliteInv

LEMMA StutterPolite == ASSUME PoliteInv, UNCHANGED vars PROVE PoliteInv'
BY StutterSafe
   DEF PoliteInv, RequestAccepted, CountBounded, RegistersOverwritten, Settled,
       vars, spivars, dmavars

LEMMA PoliteInvariant == PoliteSpec => []PoliteInv
<1>1. ASSUME PoliteInv, [PoliteNext]_vars PROVE PoliteInv'
  BY <1>1, ClockPolite, StutterPolite DEF PoliteNext
<1> QED BY <1>1, InitPolite, PTL DEF PoliteSpec

\* With a CPU that keeps the rules no poll and no byte is lost, the counter
\* stays within the bytes asked for, and the registers of the byte engine
\* hold what the header comment of avalonif_mmcdma.vhd says.
THEOREM PoliteCpuSafe ==
  PoliteSpec => [](RequestAccepted /\ CountBounded /\ RegistersOverwritten)
<1>1. PoliteInv => RequestAccepted /\ CountBounded /\ RegistersOverwritten
  BY DEF PoliteInv
<1> QED BY <1>1, PoliteInvariant, PTL

-----------------------------------------------------------------------------
(* The transfer implements BlockReader.                                    *)

\* The variables of BlockReader, as PoliteSpec sees them.
Status == IF InProgress THEN "busy"
          ELSE IF dmatimout = 1 THEN "timeout"
          ELSE IF dmadataerr = 1 THEN "dataerr" ELSE "ready"
Want   == IF InProgress THEN dmarefcount ELSE 0
Got    == IF dmastate \in {"READSET", "READWAIT"} THEN dmaread_count ELSE 0

LEMMA ReaderStutter ==
  ASSUME Status' = Status, Want' = Want, Got' = Got, mem' = mem
  PROVE  [Reader!ReaderNext]_(Reader!readervars)
BY DEF Status, Want, Got, Reader!readervars

\* A step with no transfer in progress: nothing, or the request of one.
LEMMA IdleStep ==
  ASSUME PoliteInv, NEW bus \in Accesses, NEW rx \in RxBytes,
         Polite(bus), DmaClock(bus, rx), ~InProgress
  PROVE  [Reader!ReaderNext]_(Reader!readervars)
<1>1. TypeOK /\ Ownership /\ DmaTypeOK /\ DmaFsm /\ DmaRegs(bus)
  BY DEF PoliteInv, SafeInv, TypeOK, DmaClock
<1>2. dmastart = 0 /\ dmadone = 1 /\ dmastate = "IDLE"
  BY <1>1 DEF InProgress, Ownership, DmaTypeOK, Bit
<1>3. StayIdle
  BY <1>1, <1>2 DEF DmaFsm, BeginTransfer, DropStrobe, AwaitByte, TokenArrives,
                    PollAgain, DataError, TimeOut, StoreByte
<1>4. /\ dmadone' = 1 /\ dmastate' = "IDLE" /\ mem' = mem
      /\ dmatimout' = dmatimout /\ dmadataerr' = dmadataerr
  BY <1>2, <1>3 DEF StayIdle
<1>5. CASE dmastart' = 0
  <2>1. Status' = Status /\ Want' = Want /\ Got' = Got
    BY <1>2, <1>4, <1>5 DEF Status, Want, Got, InProgress
  <2> QED BY <2>1, <1>4, ReaderStutter
<1>6. CASE dmastart' # 0
  <2>1. bus.reg = "dma" /\ dmarefcount' = bus.val
    BY <1>1, <1>2, <1>6 DEF DmaRegs
  <2>2. bus.val \in 0..MemMax
    BY <2>1, SpiWriteLegal DEF LegalAccess
  <2>3. dmastart' = 1
    BY <1>6, ClockPolite DEF PoliteInv, SafeInv, TypeOK, DmaTypeOK, Bit
  <2>4. Status # "busy" /\ Status' = "busy"
    BY <1>2, <2>3 DEF Status, InProgress
  <2>5. Want' = bus.val /\ Got' = 0
    BY <1>4, <2>1, <2>3 DEF Want, Got, InProgress
  <2>6. Reader!Begin(bus.val)
    BY <2>4, <2>5, <1>4 DEF Status, Want, Got, Reader!Begin
  <2> QED BY <2>2, <2>6 DEF Reader!ReaderNext
<1> QED BY <1>5, <1>6

\* A step while a transfer waits for the token, or takes a byte.
LEMMA BusyStep ==
  ASSUME PoliteInv, NEW bus \in Accesses, NEW rx \in RxBytes,
         Polite(bus), DmaClock(bus, rx), InProgress
  PROVE  [Reader!ReaderNext]_(Reader!readervars)
<1>1. TypeOK /\ Ownership /\ SpiTypeOK /\ DmaTypeOK /\ DmaFsm /\ DmaRegs(bus)
  BY DEF PoliteInv, SafeInv, TypeOK, DmaClock
<1>2. /\ dmarefcount' = dmarefcount
      /\ dmadone = 0 => dmastart' = 0
      /\ dmastart = 1 /\ dmadone = 1 => dmastart' = 1
  BY <1>1, PoliteRegs
<1>3. Status = "busy" /\ Want = dmarefcount
  BY DEF Status, Want
<1>4. CASE StayIdle \/ BeginTransfer
  <2>1. dmadone = 1 /\ dmastart = 1 /\ BeginTransfer
    BY <1>4, <1>1 DEF StayIdle, BeginTransfer, Ownership, InProgress,
                      DmaTypeOK, Bit
  <2>2. InProgress' /\ Got = 0 /\ Got' = 0 /\ mem' = mem
    BY <2>1, <1>2 DEF BeginTransfer, InProgress, Got
  <2> QED BY <2>2, <1>2, ReaderStutter DEF Status, Want
<1>5. CASE DropStrobe \/ AwaitByte \/ TokenArrives \/ PollAgain
  <2>1. dmadone = 0 /\ dmadone' = 0 /\ mem' = mem
        /\ dmaread_count' = dmaread_count
    BY <1>5, <1>1 DEF DropStrobe, AwaitByte, TokenArrives, PollAgain,
                      Ownership, DmaTypeOK, Bit
  <2>2. Got' = Got
    BY <1>5, <2>1 DEF DropStrobe, AwaitByte, TokenArrives, PollAgain, Got,
                      PoliteInv, Settled
  <2>3. InProgress'
    BY <2>1 DEF InProgress
  <2> QED BY <2>1, <2>2, <2>3, <1>2, ReaderStutter DEF Status, Want
<1>6. CASE DataError \/ TimeOut
  <2>1. /\ dmadone = 0 /\ dmadone' = 1 /\ mem' = mem
        /\ dmastate = "RESWAIT" /\ dmastate' = "IDLE"
    BY <1>6, <1>1 DEF DataError, TimeOut, Ownership, DmaTypeOK, Bit
  <2>2. ~InProgress'
    BY <2>1, <1>2 DEF InProgress
  <2>3. Got = 0 /\ Got' = 0 /\ Want' = 0
    BY <2>1, <2>2 DEF Got, Want
  <2>4. PICK e \in {"dataerr", "timeout"} : Status' = e
    BY <1>6, <1>1, <2>1, <2>2
       DEF DataError, TimeOut, Status, Ownership, DmaTypeOK, Bit
  <2>5. Reader!Fail(e)
    BY <1>3, <2>1, <2>3, <2>4 DEF Status, Want, Got, Reader!Fail
  <2> QED BY <2>5 DEF Reader!ReaderNext, Reader!Failure
<1>7. CASE StoreByte
  <2>1. dmadone = 0 /\ dmastate = "READWAIT" /\ rxddata \in Byte
    BY <1>7, <1>1 DEF StoreByte, Ownership, PoliteInv, SafeInv, WholeByte,
                      SpiTypeOK, DmaTypeOK, Bit
  <2>2. /\ Got = dmaread_count /\ mem' = [mem EXCEPT ![Got] = rxddata]
        /\ dmatimout' = 0 /\ dmadataerr' = 0
    BY <1>7, <2>1, <1>1 DEF Got, StoreByte, Ownership, DmaTypeOK, Bit
  <2>3. dmaread_count <= dmarefcount
    BY <2>1 DEF PoliteInv, CountBounded
  <2>4. CASE dmaread_count = dmarefcount
    <3>1. dmadone' = 1 /\ dmastate' = "IDLE" /\ dmastart' = 0
      BY <1>7, <2>1, <2>4, <1>2 DEF StoreByte
    <3>2. Status' = "ready" /\ Want' = 0 /\ Got' = 0
      BY <3>1, <2>2 DEF Status, Want, Got, InProgress
    <3>3. Reader!Complete(rxddata)
      BY <1>3, <2>2, <2>4, <3>2 DEF Status, Want, Got, Reader!Complete
    <3> QED BY <2>1, <3>3 DEF Reader!ReaderNext
  <2>5. CASE dmaread_count # dmarefcount
    <3>1. dmadone' = 0 /\ dmastate' = "READSET"
      BY <1>7, <2>1, <2>5, <1>1 DEF StoreByte, DmaTypeOK, Bit
    <3>2. dmaread_count' = dmaread_count + 1
      BY <1>7, <2>3, <2>5, <1>1 DEF StoreByte, DmaTypeOK
    <3>3. Status' = "busy" /\ Want' = Want /\ Got' = Got + 1
      BY <3>1, <3>2, <2>2, <1>2, <1>3 DEF Status, Want, Got, InProgress
    <3>4. Got < Want
      BY <2>2, <2>3, <2>5, <1>3, <1>1 DEF DmaTypeOK
    <3>5. Reader!Store(rxddata)
      BY <1>3, <2>2, <3>3, <3>4 DEF Status, Want, Got, Reader!Store
    <3> QED BY <2>1, <3>5 DEF Reader!ReaderNext
  <2> QED BY <2>4, <2>5
<1> QED BY <1>1, <1>4, <1>5, <1>6, <1>7 DEF DmaFsm

\* The cycle-level transfer implements the promise of BlockReader, for every
\* buffer length: the software gets all the bytes it asked for, in order and
\* in their places, or an error and a buffer that was not written.
THEOREM TransferImplementsReader == PoliteSpec => ImplementsReader
<1>1. Init => Reader!ReaderInit
  BY DmaAssumption
     DEF Init, DmaReset, Reader!ReaderInit, InProgress, Byte
<1>2. ASSUME PoliteInv, [PoliteNext]_vars
      PROVE  [Reader!ReaderNext]_(Reader!readervars)
  <2>1. CASE PoliteNext
    BY <1>2, <2>1, IdleStep, BusyStep DEF PoliteNext
  <2>2. CASE UNCHANGED vars
    <3>1. Status' = Status /\ Want' = Want /\ Got' = Got /\ mem' = mem
      BY <2>2 DEF vars, dmavars, Status, Want, Got, InProgress
    <3> QED BY <3>1, ReaderStutter
  <2> QED BY <1>2, <2>1, <2>2
<1> QED
  BY <1>1, <1>2, PoliteInvariant, PTL
     DEF PoliteSpec, ImplementsReader, Reader!ReaderSpec

(***************************************************************************)
(* The device functions.                                                   *)
(***************************************************************************)

-----------------------------------------------------------------------------
(* The inductive invariant.                                                *)

RecvPlaces == {"RecvPoll", "RecvWrite", "RecvWait"}
DmaPlaces  == {"DmaPoll", "DmaTimer", "DmaStart", "DmaWait", "DmaCheck",
               "DmaCopy"}
Elsewhere  == {"SelectWrite", "SendPoll", "SendWrite", "TimerWrite",
               "TimerRead", "WaitWrite", "WaitRead", "ClockWrite",
               "InitPoll", "InitSelect"}
PollPlaces == {"SendPoll", "RecvPoll", "RecvWait", "DmaPoll", "InitPoll"}
ReadPlaces == PollPlaces \cup {"DmaWait", "DmaCheck", "DmaCopy", "TimerRead",
                               "WaitRead"}

\* Where in which function the program is.
PlaceInv ==
  /\ pc \in {"idle"} \cup RecvPlaces \cup DmaPlaces \cup Elsewhere
  /\ pc \in RecvPlaces => op = "Recvbyte"
  /\ pc \in DmaPlaces => op = "DmaRecv"
  /\ pc \in Elsewhere => op \notin {"Recvbyte", "DmaRecv"}
  /\ softncs \in Bit

\* A word of the buffer is being read.
LoadsWord == cycle > 0 /\ ((aligned /\ cycle > 3) \/ cycle % WordBytes = 0)

\* A read is made where the program reads.
PhaseInv ==
  /\ rdphase \in 0 .. ReadWait
  /\ rdphase > 0 => pc \in ReadPlaces
  /\ rdphase > 0 /\ pc = "DmaCopy" => LoadsWord

\* What a poll saw is still true: the engine is free where the program starts
\* a byte or a transfer, and a transfer is in progress only where the program
\* waits for it.
FreeInv ==
  /\ InProgress => pc = "DmaWait"
  /\ pc \in {"SendWrite", "RecvWrite", "DmaTimer", "DmaStart", "InitSelect"} =>
       exit = 1
  /\ pc \in PollPlaces /\ rdphase = ReadWait /\ readdara.exit = 1 =>
       exit = 1 /\ readdara.rx = rxddata
  /\ pc \in {"DmaWait", "DmaCheck", "DmaCopy"} /\ ~InProgress => exit = 1
  /\ pc = "idle" /\ op \in {"Recvbyte", "DmaRecv"} => exit = 1

\* The byte that is being exchanged has bits to come.
Shifting == spistate \in {"SDO", "SDI"}

\* The bytes since the last start.
OneByte == IF Shifting THEN bytes = 0 ELSE bytes = 1 /\ rxddata = answer

RecvInv ==
  /\ pc = "RecvWait" => ncs = softncs /\ OneByte
  /\ pc = "idle" /\ op = "Recvbyte" => bytes = 1 /\ ret = answer

\* The first n bytes of the buffer are those of the block.
Filled(n) == \A i \in 0..MemMax : i < n => mem[i] = BlockByte(i)

\* The card and the state machine agree on the byte of the block, if the card
\* was in none when the transfer was asked for.
BlockInv ==
  /\ cardpos \in Nat
  /\ dmastate = "RESWAIT" /\ ~Shifting => rxddata = answer
  /\ before # "data" =>
       /\ InProgress /\ dmastate \in {"IDLE", "RESSET"} => card # "data"
       /\ dmastate = "RESWAIT" =>
            IF Shifting \/ answer # Token THEN card # "data"
            ELSE card = "data" /\ cardpos = 0
       /\ dmastate \in {"READSET", "READWAIT"} =>
            card = "data" /\ Filled(dmaread_count)
       /\ dmastate = "READSET" => cardpos = dmaread_count
       /\ dmastate = "READWAIT" =>
            IF Shifting THEN cardpos = dmaread_count
            ELSE /\ cardpos = dmaread_count + 1
                 /\ rxddata = BlockByte(dmaread_count)

\* The timer measures the time since it was set, and its flag belongs to it.
TimeInv ==
  /\ elapsed \in 0..DmaTime
  /\ pc = "DmaStart" \/ InProgress => elapsed + frc = DmaTime
  /\ InProgress /\ frczero = 1 => frc = 0

\* A transfer that is over has filled the buffer, or an error has a reason.
Finished ==
  /\ dmatimout = 1 => elapsed = DmaTime
  /\ dmadataerr = 1 => answer \notin {Token, Busy}
  /\ dmatimout = 0 /\ dmadataerr = 0 /\ before # "data" =>
       Filled(dmarefcount + 1)

\* DmaRecv sees the end of its own transfer, never that of the one before.
WaitInv ==
  /\ pc = "DmaWait" /\ rdphase > 0 => ~(dmastart = 1 /\ dmadone = 1)
  /\ pc = "DmaWait" /\ rdphase = ReadWait /\ readdara.done = 1 => ~InProgress
  /\ pc = "DmaCheck" /\ rdphase = ReadWait =>
       readdara.err = dmadataerr + dmatimout
  /\ pc \in {"DmaWait", "DmaCheck", "DmaCopy"} /\ ~InProgress => Finished
  /\ pc = "DmaCopy" => dmatimout = 0 /\ dmadataerr = 0

\* The local variables of DmaRecv before the copy.
Fresh ==
  /\ cycle \in 1..BlockLen /\ cycle % WordBytes = 0
  /\ pos = 0 /\ dnum = 0 /\ buff = NoBytes

\* The buffer of the caller holds the first n bytes of the read buffer.
Copied(n) ==
  buff = [i \in 0..MemMax |-> IF i < n THEN mem[i] ELSE Junk]

\* Bytes of the word read last that are still to be stored.
Left == IF aligned THEN 0 ELSE cycle % WordBytes

CopyInv ==
  /\ pos \in Nat /\ cycle \in Nat /\ dnum \in Nat
  /\ pos + cycle = dmarefcount + 1
  /\ aligned => cycle % WordBytes = 0
  /\ WordBytes * dnum = pos + Left
  /\ Left > 0 => \E w \in [1..WordBytes -> Int] :
                   data32 = w /\ \A k \in 1..Left : w[k] = mem[pos + k - 1]
  /\ Copied(pos)

\* The two registers on the way of a word of the buffer.
WordInv ==
  /\ rdphase > 0 => memq = MemWord(dnum)
  /\ rdphase = ReadWait => readdara.data = MemWord(dnum)

CallInv ==
  /\ pc \in {"DmaPoll", "DmaTimer", "DmaStart", "DmaWait", "DmaCheck"} => Fresh
  /\ pc \in {"DmaWait", "DmaCheck"} => cycle = dmarefcount + 1
  /\ pc = "DmaCopy" => CopyInv /\ WordInv

DoneInv ==
  pc = "idle" /\ op = "DmaRecv" =>
    \/ /\ ret = 0 /\ pos = dmarefcount + 1 /\ Copied(pos)
       /\ before # "data" => Filled(pos)
    \/ /\ ret = 1 /\ buff = NoBytes
       /\ elapsed = DmaTime \/ answer \notin {Token, Busy}

DriverInv ==
  PlaceInv /\ PhaseInv /\ FreeInv /\ RecvInv /\ BlockInv /\ TimeInv /\ WaitInv
    /\ CallInv /\ DoneInv

-----------------------------------------------------------------------------
(* Words and sizes.                                                        *)

\* The sizes that the assumptions leave.
LEMMA Sizes ==
  /\ MemMax \in Nat /\ BlockLen = MemMax + 1 /\ BlockLen \in Nat
  /\ BlockLen % WordBytes = 0 /\ BlockLen > 0
  /\ DmaTime \in Nat /\ DmaTime > 0
  /\ WordBytes = 4 /\ ReadWait = 2
  /\ Token # Busy
BY DmaAssumption, SpiAssumption, DriverAssumption
   DEF BlockLen, WordBytes, ReadWait, Token, Busy

\* Counting words.
LEMMA InWords ==
  ASSUME NEW n \in Nat
  PROVE  /\ n % WordBytes \in 0..3
         /\ n >= 4 => n - 4 \in Nat /\ (n - 4) % WordBytes = n % WordBytes
         /\ n % WordBytes # 0 =>
              n - 1 \in Nat /\ (n - 1) % WordBytes = (n % WordBytes) - 1
         /\ n % WordBytes = 0 /\ n > 0 => n >= 4 /\ (n - 1) % WordBytes = 3
BY DEF WordBytes

\* A word from which the lowest byte was shifted out.
LEMMA ShiftedOut ==
  ASSUME NEW w \in [1..WordBytes -> Int]
  PROVE  /\ Append(Tail(w), 0) \in [1..WordBytes -> Int]
         /\ \A k \in 1..3 : Append(Tail(w), 0)[k] = w[k + 1]
<1>1. w \in Seq(Int)
  BY SeqDef DEF WordBytes
<1>2. Len(w) = 4
  BY <1>1, LenProperties DEF WordBytes
<1>3. w # <<>>
  BY <1>2, EmptySeq
<1>4. /\ Tail(w) \in Seq(Int) /\ Len(Tail(w)) = Len(w) - 1
      /\ \A i \in 1..Len(Tail(w)) : Tail(w)[i] = w[i + 1]
  BY <1>1, <1>3, HeadTailProperties, Zenon
<1>5. Len(w) - 1 = 3 /\ 3 + 1 = 4
  BY <1>2
<1>6. /\ Append(Tail(w), 0) \in Seq(Int)
      /\ Len(Append(Tail(w), 0)) = Len(Tail(w)) + 1
      /\ \A i \in 1..Len(Tail(w)) : Append(Tail(w), 0)[i] = Tail(w)[i]
  <2> DEFINE t == Tail(w)
  <2>1. t \in Seq(Int)
    BY <1>4
  <2> HIDE DEF t
  <2>2. /\ Append(t, 0) \in Seq(Int) /\ Len(Append(t, 0)) = Len(t) + 1
        /\ \A i \in 1..Len(t) : Append(t, 0)[i] = t[i]
    BY <2>1, AppendProperties, SMT
  <2> QED BY <2>2, Zenon DEF t
<1>7. Len(Tail(w)) = 3 /\ Len(Append(Tail(w), 0)) = 4
  BY <1>4, <1>5, <1>6, Zenon
<1>8. Append(Tail(w), 0) \in [1..4 -> Int]
  BY <1>6, <1>7, LenProperties, Zenon
<1>9. \A k \in 1..3 : Append(Tail(w), 0)[k] = w[k + 1]
  BY <1>4, <1>6, <1>7, Zenon
<1> QED BY <1>8, <1>9, Zenon DEF WordBytes

\* What the read data register takes.
LEMMA BusWord ==
  /\ BusData("status") => readdara'.exit = exit /\ readdara'.rx = rxddata
  /\ BusData("dma") => /\ readdara'.done = dmadone
                       /\ readdara'.err = dmadataerr + dmatimout
  /\ BusData("mem") => readdara'.data = memq /\ memq' = MemWord(dnum)
BY DEF BusData, StatusWord, DmaWord, DataWord, ZeroWord

\* The writes that the functions make are among those of MmcDma.
LEMMA WritesMade ==
  /\ NoWrite \in Accesses
  /\ \A n \in Bit : StatusWrite(0, n, 255) \in Accesses
  /\ \A n \in Bit : StatusWrite(1, n, 7) \in Accesses
  /\ \A n \in Bit : StatusWrite(1, n, 255) \in Accesses
  /\ TimerWrite(DmaTime) \in Accesses /\ TimerWrite(WaitTime) \in Accesses
  /\ DivWrite(IdentDiv) \in Accesses /\ DivWrite(TransDiv) \in Accesses
  /\ \A n \in 0..MemMax : DmaWrite(n) \in Accesses
<1>1. \A w \in DriverWrites : w \in Accesses
  BY AccessesAssumption
<1>2. NoWrite \in DriverWrites
  BY DEF DriverWrites
<1>3. ASSUME NEW n \in Bit PROVE StatusWrite(0, n, 255) \in DriverWrites
  BY DEF DriverWrites
<1>4. ASSUME NEW n \in Bit, NEW b \in {7, 255}
      PROVE  StatusWrite(1, n, b) \in DriverWrites
  BY DEF DriverWrites
<1>5. ASSUME NEW t \in {DmaTime, WaitTime} PROVE TimerWrite(t) \in DriverWrites
  BY DEF DriverWrites
<1>6. ASSUME NEW d \in {IdentDiv, TransDiv} PROVE DivWrite(d) \in DriverWrites
  BY DEF DriverWrites
<1>7. ASSUME NEW n \in 0..MemMax PROVE DmaWrite(n) \in DriverWrites
  BY DEF DriverWrites
<1> QED BY <1>1, <1>2, <1>3, <1>4, <1>5, <1>6, <1>7

\* Their fields.
LEMMA WriteFields ==
  /\ NoWrite.reg = "none" /\ NoWrite.start = 0
  /\ \A s, n, b : /\ StatusWrite(s, n, b).reg = "status"
                  /\ StatusWrite(s, n, b).start = s
                  /\ StatusWrite(s, n, b).ncs = n
  /\ \A t : TimerWrite(t).reg = "timer" /\ TimerWrite(t).val = t
  /\ \A d : DivWrite(d).reg = "clkdiv"
  /\ \A n : /\ DmaWrite(n).reg = "dma" /\ DmaWrite(n).val = n
            /\ DmaWrite(n).start = 1
BY DEF NoWrite, StatusWrite, TimerWrite, DivWrite, DmaWrite

-----------------------------------------------------------------------------
(* One clock edge of the peripheral, seen from the bus.                    *)

Starts(bus) == bus.reg = "status" /\ bus.start = 1

\* What an edge does with the byte that is being exchanged.
LEMMA ByteEdge ==
  ASSUME SpiTypeOK, SpiConsistent, NEW wr, NEW rx, Shifter(wr, rx), Card(rx)
  PROVE  /\ LastSample => Shifting /\ ~Shifting' /\ rxddata' = rx /\ answer' = rx
         /\ Shifting /\ ~LastSample => Shifting'
         /\ ~LastSample => UNCHANGED cardvars
         /\ ~Shifting => ~LastSample /\ rxddata' = rxddata
         /\ ~Shifting /\ ~(exit = 1 /\ Starts(wr)) => ~Shifting'
         /\ exit = 1 => ~Shifting
         /\ exit = 1 /\ Starts(wr) => Shifting' /\ ncs' = wr.ncs
<1> USE DEF Shifting, LastSample, Starts, SpiConsistent, SpiTypeOK, SpiState, Bit
<1>1. CASE Rest(wr) \/ StartByte(wr) \/ SelectOnly(wr) \/ SetDivider(wr)
  BY <1>1 DEF Rest, StartByte, SelectOnly, SetDivider, Card
<1>2. CASE Hold \/ DriveBit \/ Finish
  BY <1>2 DEF Hold, DriveBit, Finish, Card
<1>3. CASE SampleBit(rx)
  BY <1>3 DEF SampleBit, Card
<1> QED BY <1>1, <1>2, <1>3 DEF Shifter

\* What a selected card sends with the last bit of a byte.
LEMMA CardByte ==
  ASSUME cardpos \in Nat, NEW rx, Card(rx), LastSample, ncs = 0
  PROVE  /\ card # "data" =>
              IF rx = Token THEN card' = "data" /\ cardpos' = 0
              ELSE card' # "data"
         /\ card = "data" /\ cardpos < BlockLen =>
              rx = BlockByte(cardpos) /\ card' = "data" /\ cardpos' = cardpos + 1
<1>1. CASE card = "listen"
  <2>1. rx \in Answers /\ card' = "listen"
    BY <1>1 DEF Card
  <2>2. rx # Token
    BY <2>1, DriverAssumption
  <2> QED BY <1>1, <2>1, <2>2
<1>2. CASE card = "seek"
  <2>1. \/ rx = Busy /\ card' = "seek"
        \/ rx = Token /\ card' = "data"
        \/ rx \in Answers /\ card' = "listen"
    BY <1>2 DEF Card
  <2>2. IF rx = Token THEN card' = "data" ELSE card' # "data"
    BY <2>1, DriverAssumption, Sizes
  <2>3. cardpos' = 0
    BY <1>2 DEF Card
  <2> QED BY <1>2, <2>2, <2>3
<1>3. CASE card = "data"
  BY <1>3, Sizes DEF Card
<1> QED BY <1>1, <1>2, <1>3 DEF Card

LEMMA CardCounts ==
  ASSUME cardpos \in Nat, NEW rx, Card(rx)
  PROVE  cardpos' \in Nat
BY DEF Card, cardvars

\* An edge of a driver that keeps the rules is one of PoliteNext.
LEMMA PoliteEdge ==
  ASSUME PoliteInv, cardpos \in Nat, NEW bus \in Accesses, Polite(bus), NEW sel,
         Clock(bus, sel)
  PROVE  PoliteNext /\ PoliteInv' /\ cardpos' \in Nat
<1>1. PICK rx \in RxBytes : Card(rx) /\ DmaClock(bus, rx)
  BY DEF Clock
<1> QED BY <1>1, ClockPolite, CardCounts DEF PoliteNext

\* What the invariant of the peripheral says when no transfer is in progress.
LEMMA AtRest ==
  ASSUME PoliteInv, ~InProgress
  PROVE  /\ SpiTypeOK /\ DmaTypeOK /\ SpiConsistent /\ Ownership
         /\ dmastart = 0 /\ dmadone = 1 /\ dmastate = "IDLE"
BY DEF PoliteInv, SafeInv, TypeOK, Ownership, InProgress, DmaTypeOK, Bit

\* An edge without a transfer in progress, and without the request of one.
LEMMA QuietEdge ==
  ASSUME PoliteInv, cardpos \in Nat, ~InProgress, NEW bus \in Accesses,
         bus.reg # "dma", Polite(bus), NEW sel, Clock(bus, sel)
  PROVE  /\ ~InProgress' /\ dmastate' = "IDLE"
         /\ UNCHANGED <<mem, dmarefcount, dmadataerr, dmatimout>>
         /\ exit = 1 /\ ~Starts(bus) =>
              /\ exit' = 1 /\ rxddata' = rxddata /\ bytes' = bytes
              /\ UNCHANGED cardvars
<1>1. PICK rx \in RxBytes : Card(rx) /\ DmaClock(bus, rx)
  BY DEF Clock
<1>2. /\ SpiTypeOK /\ DmaTypeOK /\ SpiConsistent
      /\ dmastart = 0 /\ dmadone = 1 /\ dmastate = "IDLE"
  BY AtRest
<1>3. Shifter(bus, rx) /\ DmaFsm /\ DmaRegs(bus)
  BY <1>1, <1>2 DEF DmaClock, SpiClock, SpiWrite
<1>4. StayIdle
  BY <1>2, <1>3 DEF DmaFsm, BeginTransfer, DropStrobe, AwaitByte, TokenArrives,
                    PollAgain, DataError, TimeOut, StoreByte
<1>5. ~InProgress' /\ dmastate' = "IDLE" /\ dmarefcount' = dmarefcount
  BY <1>2, <1>3, <1>4 DEF StayIdle, DmaRegs, InProgress
<1>6. UNCHANGED <<mem, dmadataerr, dmatimout>>
  BY <1>4 DEF StayIdle
<1>7. ASSUME exit = 1, ~Starts(bus)
      PROVE  /\ exit' = 1 /\ rxddata' = rxddata /\ bytes' = bytes
             /\ UNCHANGED cardvars
  <2>1. ~LastSample /\ rxddata' = rxddata /\ UNCHANGED cardvars
    BY <1>1, <1>2, <1>3, <1>7, ByteEdge
  <2>2. exit' = 1
    BY <1>2, <1>3, <1>7, ShifterWrites DEF Starts
  <2>3. bytes' = bytes
    BY <2>1, <1>7 DEF Clock, Starts
  <2> QED BY <2>1, <2>2, <2>3
<1> QED BY <1>5, <1>6, <1>7

\* The byte of Recvbyte on its way.
LEMMA RecvEdge ==
  ASSUME PoliteInv, ~InProgress, OneByte, NEW sel, Clock(NoWrite, sel)
  PROVE  OneByte' /\ ncs' = ncs
<1>1. PICK rx \in RxBytes : Card(rx) /\ DmaClock(NoWrite, rx)
  BY DEF Clock
<1>2. SpiTypeOK /\ SpiConsistent /\ dmadone = 1
  BY AtRest
<1>3. Shifter(NoWrite, rx)
  BY <1>1, <1>2, WriteFields DEF DmaClock, SpiClock, SpiWrite
<1>4. ~Starts(NoWrite)
  BY WriteFields DEF Starts
<1>5. bytes' = IF LastSample /\ bytes < 2 THEN bytes + 1 ELSE bytes
  BY <1>4 DEF Clock, Starts
<1>6. /\ LastSample => Shifting /\ ~Shifting' /\ rxddata' = rx /\ answer' = rx
      /\ Shifting /\ ~LastSample => Shifting'
      /\ ~LastSample => answer' = answer
      /\ ~Shifting => ~LastSample /\ rxddata' = rxddata /\ ~Shifting'
  BY <1>1, <1>2, <1>3, <1>4, ByteEdge DEF cardvars
<1>7. OneByte'
  BY <1>5, <1>6 DEF OneByte
<1> QED BY <1>2, <1>3, <1>7, ShifterWrites

\* Its start.
LEMMA StartEdge ==
  ASSUME PoliteInv, ~InProgress, exit = 1, NEW n \in Bit, NEW b,
         Clock(StatusWrite(1, n, b), "status")
  PROVE  OneByte' /\ ncs' = n
<1> DEFINE w == StatusWrite(1, n, b)
<1>1. PICK rx \in RxBytes : Card(rx) /\ DmaClock(w, rx)
  BY DEF Clock
<1>2. SpiTypeOK /\ SpiConsistent /\ dmadone = 1
  BY AtRest
<1>3. Starts(w) /\ w.reg # "dma" /\ w.ncs = n
  BY WriteFields DEF Starts
<1>4. Shifter(w, rx)
  BY <1>1, <1>2, <1>3 DEF DmaClock, SpiClock, SpiWrite
<1>5. Shifting' /\ ncs' = n
  BY <1>1, <1>2, <1>3, <1>4, ByteEdge
<1>6. bytes' = 0
  BY <1>3 DEF Clock, Starts
<1> QED BY <1>5, <1>6 DEF OneByte

-----------------------------------------------------------------------------
(* An edge while a transfer is in progress.                                *)

\* What the peripheral and the card do in such an edge.
Transfers(rx) ==
  /\ Card(rx) /\ DmaFsm /\ Shifter(SpiWrite(NoWrite), rx)
  /\ dmarefcount' = dmarefcount /\ before' = before

LEMMA TransferParts ==
  ASSUME PoliteInv, InProgress
  PROVE  /\ SpiTypeOK /\ DmaTypeOK /\ SpiConsistent /\ Ownership
         /\ dmadone = 0 /\ mmcifwr = 1 => SpiWrite(NoWrite) = DmaByte
         /\ dmadone = 0 /\ mmcifwr = 0 => SpiWrite(NoWrite) = NoWrite
         /\ dmadone = 1 => SpiWrite(NoWrite) = NoWrite
BY WriteFields DEF PoliteInv, SafeInv, TypeOK, Ownership, SpiWrite

\* A byte goes on: the state machine waits for it.
LEMMA AwaitBlock ==
  ASSUME PoliteInv, InProgress, BlockInv, NEW rx, Transfers(rx), AwaitByte
  PROVE  BlockInv'
<1>1. /\ SpiTypeOK /\ DmaTypeOK /\ SpiConsistent /\ Ownership
      /\ dmadone = 0 /\ mmcifwr = 0 /\ SpiWrite(NoWrite) = NoWrite
  <2>1. dmadone = 0 /\ mmcifwr = 0
    BY TransferParts DEF AwaitByte, Ownership, DmaTypeOK, Bit
  <2> QED BY <2>1, TransferParts
<1>2. ~Starts(NoWrite)
  BY WriteFields DEF Starts
<1>3. /\ LastSample => Shifting /\ ~Shifting' /\ rxddata' = rx /\ answer' = rx
      /\ Shifting /\ ~LastSample => Shifting'
      /\ ~LastSample => UNCHANGED cardvars
      /\ ~Shifting => ~LastSample /\ rxddata' = rxddata /\ ~Shifting'
  BY <1>1, <1>2, ByteEdge DEF Transfers
<1>4. ncs = 0
  BY DEF AwaitByte, PoliteInv, RegistersOverwritten
<1>5. /\ LastSample /\ card # "data" =>
           IF rx = Token THEN card' = "data" /\ cardpos' = 0
           ELSE card' # "data"
      /\ LastSample /\ card = "data" /\ cardpos < BlockLen =>
           rx = BlockByte(cardpos) /\ card' = "data" /\ cardpos' = cardpos + 1
  BY <1>4, CardByte DEF Transfers, BlockInv
<1>6. cardpos' \in Nat
  BY CardCounts DEF Transfers, BlockInv
<1>7. UNCHANGED <<dmastate, dmaread_count, mem>>
  BY DEF AwaitByte
<1>8. dmaread_count \in 0..MemMax /\ dmaread_count < BlockLen
  BY <1>1, Sizes DEF DmaTypeOK
<1>9. before' = before
  BY DEF Transfers
<1>10. CASE dmastate = "RESWAIT"
  <2>1. CASE LastSample
    BY <1>3, <1>5, <1>6, <1>7, <1>9, <1>10, <2>1 DEF BlockInv
  <2>2. CASE ~LastSample
    BY <1>3, <1>6, <1>7, <1>9, <1>10, <2>2 DEF BlockInv, cardvars
  <2> QED BY <2>1, <2>2
<1>11. CASE dmastate = "READWAIT"
  <2>1. before # "data" => Filled(dmaread_count)'
    BY <1>7, <1>11 DEF BlockInv, Filled
  <2>2. CASE LastSample
    BY <1>3, <1>5, <1>6, <1>7, <1>8, <1>9, <1>11, <2>1, <2>2 DEF BlockInv
  <2>3. CASE ~LastSample
    BY <1>3, <1>6, <1>7, <1>9, <1>11, <2>1, <2>3 DEF BlockInv, cardvars
  <2> QED BY <2>2, <2>3
<1> QED BY <1>10, <1>11 DEF AwaitByte

\* The other branches find the engine free: nothing is sampled.
LEMMA FreeEdge ==
  ASSUME PoliteInv, InProgress, NEW rx, Transfers(rx), exit = 1
  PROVE  /\ rxddata' = rxddata /\ UNCHANGED cardvars
         /\ ~Shifting
         /\ dmadone = 0 /\ mmcifwr = 1 => Shifting'
         /\ dmadone = 0 /\ mmcifwr = 0 => ~Shifting' /\ exit' = 1
<1>1. /\ SpiTypeOK /\ DmaTypeOK /\ SpiConsistent /\ Ownership
      /\ dmadone = 0 /\ mmcifwr = 1 => SpiWrite(NoWrite) = DmaByte
      /\ dmadone = 0 /\ mmcifwr = 0 => SpiWrite(NoWrite) = NoWrite
  BY TransferParts
<1>2. Starts(DmaByte) /\ ~Starts(NoWrite)
  BY WriteFields DEF Starts, DmaByte
<1>3. /\ ~Shifting /\ rxddata' = rxddata /\ UNCHANGED cardvars
      /\ Starts(SpiWrite(NoWrite)) => Shifting'
      /\ ~Starts(SpiWrite(NoWrite)) => ~Shifting'
  BY <1>1, ByteEdge DEF Transfers
<1>4. SpiWrite(NoWrite) = NoWrite => exit' = 1
  BY <1>1, <1>2, ShifterWrites DEF Transfers, Starts
<1> QED BY <1>1, <1>2, <1>3, <1>4

LEMMA TransferBlock ==
  ASSUME PoliteInv, InProgress, BlockInv, NEW rx, Transfers(rx),
         dmadone = 0 => dmastart' = 0
  PROVE  BlockInv'
<1>1. /\ SpiTypeOK /\ DmaTypeOK /\ SpiConsistent /\ Ownership
      /\ cardpos' \in Nat /\ before' = before
  BY TransferParts, CardCounts DEF Transfers, BlockInv
<1>2. CASE DataError \/ TimeOut
  <2>1. dmastate' = "IDLE" /\ ~InProgress'
    BY <1>1, <1>2 DEF DataError, TimeOut, Ownership, DmaTypeOK, Bit,
                      InProgress
  <2> QED BY <1>1, <2>1 DEF BlockInv
<1>3. CASE AwaitByte
  BY <1>3, AwaitBlock
<1>4. CASE DropStrobe
  <2>1. dmadone = 0 /\ mmcifwr = 1 /\ exit = 1
    BY <1>1, <1>4 DEF DropStrobe, Ownership, DmaTypeOK, Bit, PoliteInv,
                      RequestAccepted
  <2>2. Shifting' /\ UNCHANGED cardvars
    BY <2>1, FreeEdge
  <2>3. UNCHANGED <<dmaread_count, mem>>
    BY <1>4 DEF DropStrobe
  <2>4. \/ dmastate = "RESSET" /\ dmastate' = "RESWAIT"
        \/ dmastate = "READSET" /\ dmastate' = "READWAIT"
    BY <1>4 DEF DropStrobe
  <2>5. dmastate = "READSET" /\ before # "data" => Filled(dmaread_count)'
    BY <2>3 DEF BlockInv, Filled
  <2> QED BY <1>1, <2>2, <2>3, <2>4, <2>5 DEF BlockInv, cardvars
<1>5. CASE TokenArrives
  <2>1. dmadone = 0 /\ exit = 1 /\ rxddata = Token /\ dmastate = "RESWAIT"
    BY <1>1, <1>5 DEF TokenArrives, Ownership, DmaTypeOK, Bit
  <2>2. ~Shifting /\ UNCHANGED cardvars
    BY <2>1, FreeEdge
  <2>3. before # "data" => card = "data" /\ cardpos = 0
    BY <2>1, <2>2 DEF BlockInv
  <2>4. dmastate' = "READSET" /\ dmaread_count' = 0
    BY <1>5 DEF TokenArrives, PoliteInv, Settled
  <2>5. Filled(dmaread_count)'
    BY <2>4 DEF Filled
  <2> QED BY <1>1, <2>2, <2>3, <2>4, <2>5 DEF BlockInv, cardvars
<1>6. CASE StoreByte
  <2>1. dmadone = 0 /\ exit = 1 /\ dmastate = "READWAIT"
    BY <1>1, <1>6 DEF StoreByte, Ownership, DmaTypeOK, Bit
  <2>2. ~Shifting /\ UNCHANGED cardvars
    BY <2>1, FreeEdge
  <2>3. before # "data" =>
          /\ card = "data" /\ cardpos = dmaread_count + 1
          /\ rxddata = BlockByte(dmaread_count) /\ Filled(dmaread_count)
    BY <2>1, <2>2 DEF BlockInv
  <2>4. CASE dmaread_count = dmarefcount
    <3>1. dmastate' = "IDLE" /\ ~InProgress'
      BY <1>1, <1>6, <2>1, <2>4 DEF StoreByte, InProgress
    <3> QED BY <1>1, <3>1 DEF BlockInv
  <2>5. CASE dmaread_count # dmarefcount
    <3>1. dmaread_count < dmarefcount
      BY <1>1, <2>1, <2>5 DEF PoliteInv, CountBounded, DmaTypeOK
    <3>2. dmaread_count' = dmaread_count + 1 /\ dmastate' = "READSET"
      BY <1>1, <1>6, <2>5, <3>1 DEF StoreByte, DmaTypeOK
    <3>3. mem' = [mem EXCEPT ![dmaread_count] = rxddata]
      BY <1>6 DEF StoreByte
    <3>4. before # "data" => Filled(dmaread_count)'
      BY <1>1, <2>3, <3>2, <3>3 DEF Filled, DmaTypeOK
    <3> QED BY <1>1, <2>2, <2>3, <3>2, <3>4 DEF BlockInv, cardvars
  <2> QED BY <2>4, <2>5
<1>7. CASE BeginTransfer \/ PollAgain
  <2>1. /\ exit = 1 /\ dmastate' = "RESSET"
        /\ \/ dmastate = "IDLE"
           \/ dmastate = "RESWAIT" /\ rxddata = Busy
    BY <1>1, <1>7 DEF BeginTransfer, PollAgain, PoliteInv, Settled, Ownership,
                      DmaTypeOK, Bit
  <2>2. ~Shifting /\ UNCHANGED cardvars
    BY <2>1, FreeEdge
  <2>3. before # "data" => card # "data"
    BY <2>1, <2>2, Sizes DEF BlockInv
  <2> QED BY <1>1, <2>1, <2>2, <2>3 DEF BlockInv, cardvars
<1>8. ~StayIdle
  BY <1>1 DEF StayIdle, Ownership, InProgress, DmaTypeOK, Bit
<1> QED
  BY <1>2, <1>3, <1>4, <1>5, <1>6, <1>7, <1>8 DEF Transfers, DmaFsm

\* The end of a transfer.
LEMMA TransferEnds ==
  ASSUME PoliteInv, InProgress, BlockInv, TimeInv, NEW rx, Transfers(rx),
         elapsed' = IF elapsed < DmaTime THEN elapsed + 1 ELSE elapsed,
         dmadone = 0 => dmastart' = 0,
         dmastart = 1 /\ dmadone = 1 => dmastart' = 1
  PROVE  /\ ~InProgress' => exit' = 1 /\ Finished'
         /\ dmastart' = 0 \/ dmadone' = 0
<1>1. /\ SpiTypeOK /\ DmaTypeOK /\ SpiConsistent /\ Ownership
  BY TransferParts
<1>2. CASE StayIdle \/ BeginTransfer
  <2>1. dmadone' = 0
    BY <1>1, <1>2 DEF StayIdle, BeginTransfer, Ownership, InProgress, DmaTypeOK,
                      Bit
  <2> QED BY <2>1 DEF InProgress
<1>3. CASE DropStrobe \/ AwaitByte \/ TokenArrives \/ PollAgain
  <2>1. dmadone = 0 /\ dmadone' = 0
    BY <1>1, <1>3 DEF DropStrobe, AwaitByte, TokenArrives, PollAgain, Ownership,
                      DmaTypeOK, Bit
  <2> QED BY <2>1 DEF InProgress
<1>4. CASE DataError
  <2>1. /\ dmadone = 0 /\ dmastart' = 0 /\ exit = 1 /\ mmcifwr = 0
        /\ dmatimout = 0 /\ dmatimout' = 0 /\ dmadataerr' = 1
        /\ rxddata \notin {Token, Busy} /\ dmastate = "RESWAIT"
    BY <1>1, <1>4 DEF DataError, Ownership, DmaTypeOK, Bit
  <2>2. ~Shifting /\ exit' = 1 /\ answer' = answer
    BY <2>1, FreeEdge DEF cardvars
  <2>3. answer' \notin {Token, Busy}
    BY <2>1, <2>2 DEF BlockInv
  <2> QED BY <2>1, <2>2, <2>3 DEF Finished
<1>5. CASE TimeOut
  <2>1. /\ dmadone = 0 /\ dmastart' = 0 /\ exit = 1 /\ mmcifwr = 0
        /\ frczero = 1 /\ dmatimout' = 1 /\ dmadataerr' = 0
    BY <1>1, <1>5 DEF TimeOut, Ownership, DmaTypeOK, Bit
  <2>2. elapsed = DmaTime
    BY <2>1, Sizes DEF TimeInv
  <2>3. elapsed' = DmaTime
    BY <2>2, Sizes
  <2> QED BY <2>1, <2>3, FreeEdge DEF Finished
<1>6. CASE StoreByte
  <2>1. /\ dmadone = 0 /\ dmastart' = 0 /\ exit = 1 /\ mmcifwr = 0
        /\ dmatimout' = 0 /\ dmadataerr' = 0 /\ dmastate = "READWAIT"
    BY <1>1, <1>6 DEF StoreByte, Ownership, DmaTypeOK, Bit
  <2>2. ~Shifting /\ exit' = 1
    BY <2>1, FreeEdge
  <2>3. before # "data" =>
          rxddata = BlockByte(dmaread_count) /\ Filled(dmaread_count)
    BY <2>1, <2>2 DEF BlockInv
  <2>4. CASE dmaread_count # dmarefcount
    BY <1>1, <1>6, <2>1, <2>2, <2>4 DEF StoreByte, InProgress
  <2>5. CASE dmaread_count = dmarefcount
    <3>1. mem' = [mem EXCEPT ![dmaread_count] = rxddata]
      BY <1>6 DEF StoreByte
    <3>2. dmarefcount' = dmaread_count /\ before' = before
      BY <2>5 DEF Transfers
    <3>3. before # "data" => Filled(dmarefcount + 1)'
      BY <1>1, <2>3, <3>1, <3>2 DEF Filled, DmaTypeOK
    <3> QED BY <2>1, <2>2, <3>2, <3>3 DEF Finished
  <2> QED BY <2>4, <2>5
<1> QED BY <1>2, <1>3, <1>4, <1>5, <1>6 DEF Transfers, DmaFsm

\* Altogether.
LEMMA TransferEdge ==
  ASSUME PoliteInv, InProgress, BlockInv, TimeInv, pc = "DmaWait",
         op = "DmaRecv", NEW sel,
         Clock(NoWrite, sel)
  PROVE  /\ BlockInv' /\ dmarefcount' = dmarefcount
         /\ elapsed' \in 0..DmaTime
         /\ InProgress' => elapsed' + frc' = DmaTime /\ (frczero' = 1 => frc' = 0)
         /\ ~InProgress' => exit' = 1 /\ Finished'
         /\ dmastart' = 0 \/ dmadone' = 0
<1>1. PICK rx \in RxBytes : Card(rx) /\ DmaClock(NoWrite, rx)
  BY DEF Clock
<1>2. Polite(NoWrite) /\ TypeOK /\ SpiTypeOK
  BY WriteFields DEF Polite, PoliteInv, SafeInv, TypeOK
<1>3. /\ dmarefcount' = dmarefcount
      /\ dmadone = 0 => dmastart' = 0
      /\ dmastart = 1 /\ dmadone = 1 => dmastart' = 1
  BY <1>1, <1>2, PoliteRegs DEF DmaClock
<1>4. Transfers(rx)
  BY <1>1, <1>3, WriteFields DEF Clock, Transfers, DmaClock, SpiClock
<1>5. elapsed' = IF elapsed < DmaTime THEN elapsed + 1 ELSE elapsed
  BY DEF Clock
<1>6. BlockInv'
  BY <1>3, <1>4, TransferBlock
<1>7. /\ ~InProgress' => exit' = 1 /\ Finished'
      /\ dmastart' = 0 \/ dmadone' = 0
  BY <1>3, <1>4, <1>5, TransferEnds
<1>8. SpiWrite(NoWrite).reg # "timer"
  BY WriteFields DEF SpiWrite, DmaByte
<1>9. /\ frc' = IF frc # 0 THEN frc - 1 ELSE 0
      /\ frczero' = IF frc = 0 THEN 1 ELSE 0
  BY <1>1, <1>8 DEF DmaClock, SpiClock, Timer
<1>10. frc \in Nat /\ elapsed \in 0..DmaTime /\ elapsed + frc = DmaTime
  BY <1>2, SpiAssumption DEF SpiTypeOK, TimeInv
<1>11. /\ elapsed' \in 0..DmaTime
       /\ elapsed' + frc' = DmaTime /\ (frczero' = 1 => frc' = 0)
  BY <1>5, <1>9, <1>10, Sizes
<1> QED BY <1>3, <1>6, <1>7, <1>11

-----------------------------------------------------------------------------
(* The steps of the program.                                               *)

\* An edge without a transfer in progress, in a state of the driver.
LEMMA QuietStep ==
  ASSUME PoliteInv, DriverInv, ~InProgress, NEW bus \in Accesses,
         bus.reg # "dma", Starts(bus) => exit = 1, NEW sel, Clock(bus, sel)
  PROVE  /\ PoliteNext /\ PoliteInv' /\ ~InProgress' /\ BlockInv'
         /\ UNCHANGED <<mem, dmarefcount, dmadataerr, dmatimout>>
         /\ exit = 1 /\ ~Starts(bus) =>
              /\ exit' = 1 /\ rxddata' = rxddata /\ bytes' = bytes
              /\ UNCHANGED cardvars
         /\ elapsed' \in 0..DmaTime
         /\ op = "DmaRecv" => before' = before
         /\ op = "DmaRecv" /\ pc \notin {"DmaTimer", "DmaStart"} =>
              elapsed' = elapsed
<1>1. Polite(bus)
  BY AtRest DEF Polite, Starts
<1>2. cardpos \in Nat /\ elapsed \in 0..DmaTime
  BY DEF DriverInv, BlockInv, TimeInv
<1>3. PoliteNext /\ PoliteInv' /\ cardpos' \in Nat
  BY <1>1, <1>2, PoliteEdge
<1>4. /\ ~InProgress' /\ dmastate' = "IDLE"
      /\ UNCHANGED <<mem, dmarefcount, dmadataerr, dmatimout>>
      /\ exit = 1 /\ ~Starts(bus) =>
           /\ exit' = 1 /\ rxddata' = rxddata /\ bytes' = bytes
           /\ UNCHANGED cardvars
  BY <1>1, <1>2, QuietEdge
<1>5. BlockInv'
  BY <1>3, <1>4 DEF BlockInv
<1>6. /\ elapsed' \in 0..DmaTime
      /\ op = "DmaRecv" => before' = before
      /\ op = "DmaRecv" /\ pc \notin {"DmaTimer", "DmaStart"} =>
           elapsed' = elapsed
  BY <1>2, Sizes DEF Clock
<1> QED BY <1>3, <1>4, <1>5, <1>6

\* The same without a write.
LEMMA IdleEdge ==
  ASSUME PoliteInv, DriverInv, ~InProgress, NEW sel, Clock(NoWrite, sel)
  PROVE  /\ PoliteNext /\ PoliteInv' /\ ~InProgress' /\ BlockInv'
         /\ UNCHANGED <<mem, dmarefcount, dmadataerr, dmatimout>>
         /\ exit = 1 =>
              /\ exit' = 1 /\ rxddata' = rxddata /\ bytes' = bytes
              /\ UNCHANGED cardvars
         /\ elapsed' \in 0..DmaTime
         /\ op = "DmaRecv" => before' = before
         /\ op = "DmaRecv" /\ pc \notin {"DmaTimer", "DmaStart"} =>
              elapsed' = elapsed
<1>1. NoWrite \in Accesses /\ NoWrite.reg # "dma" /\ ~Starts(NoWrite)
  BY WritesMade, WriteFields DEF Starts
<1> QED BY <1>1, QuietStep

\* The timer before the transfer.
LEMMA TimerEdge ==
  ASSUME PoliteInv, DriverInv, ~InProgress, pc = "DmaStart",
         NEW bus \in Accesses, bus.reg # "timer", NEW sel, Clock(bus, sel)
  PROVE  /\ elapsed' \in 0..DmaTime /\ elapsed' + frc' = DmaTime
         /\ frczero' = 1 => frc' = 0
<1>1. PICK rx \in RxBytes : DmaClock(bus, rx)
  BY DEF Clock
<1>2. SpiWrite(bus).reg # "timer"
  BY WriteFields DEF SpiWrite, DmaByte
<1>3. /\ frc' = IF frc # 0 THEN frc - 1 ELSE 0
      /\ frczero' = IF frc = 0 THEN 1 ELSE 0
  BY <1>1, <1>2 DEF DmaClock, SpiClock, Timer
<1>4. frc \in Nat
  BY SpiAssumption, AtRest DEF SpiTypeOK
<1>5. elapsed \in 0..DmaTime /\ elapsed + frc = DmaTime
  BY DEF DriverInv, TimeInv
<1>6. elapsed' = IF elapsed < DmaTime THEN elapsed + 1 ELSE elapsed
  BY DEF Clock, DriverInv, PlaceInv, DmaPlaces
<1> QED BY <1>3, <1>4, <1>5, <1>6, Sizes

\* Where nothing is at stake but the place.
LEMMA Passing ==
  ASSUME PlaceInv', rdphase' = 0, BlockInv', ~InProgress',
         elapsed' \in 0..DmaTime,
         pc' \notin DmaPlaces \cup {"RecvWait"},
         pc' = "idle" => op' \notin {"Recvbyte", "DmaRecv"},
         pc' \in {"SendWrite", "RecvWrite", "InitSelect"} => exit' = 1
  PROVE  DriverInv'
<1>1. PhaseInv'
  BY Sizes DEF PhaseInv
<1>2. FreeInv'
  BY Sizes DEF FreeInv, DmaPlaces
<1>3. RecvInv'
  BY DEF RecvInv
<1>4. TimeInv'
  BY DEF TimeInv, DmaPlaces
<1>5. WaitInv'
  BY DEF WaitInv, DmaPlaces
<1>6. CallInv'
  BY DEF CallInv, DmaPlaces
<1>7. DoneInv'
  BY DEF DoneInv
<1> QED BY <1>1, <1>2, <1>3, <1>4, <1>5, <1>6, <1>7 DEF DriverInv

\* What a read is of.
Source ==
  IF pc \in PollPlaces THEN "status"
  ELSE IF pc \in {"DmaWait", "DmaCheck"} THEN "dma"
  ELSE IF pc = "DmaCopy" THEN "mem" ELSE "timer"

\* The program waits, or reads and has not got its word, or polls again.
Waits(sel) ==
  /\ Clock(NoWrite, sel)
  /\ UNCHANGED cpuvars
  /\ \/ rdphase' = 0
     \/ /\ rdphase \in 0..1 /\ rdphase' = rdphase + 1
        /\ pc \in ReadPlaces /\ sel = Source
        /\ pc = "DmaCopy" => LoadsWord

LEMMA WaitsPlaces ==
  ASSUME DriverInv, NEW sel, Waits(sel)
  PROVE  PlaceInv' /\ PhaseInv'
<1>1. PlaceInv'
  BY DEF DriverInv, PlaceInv, Waits, cpuvars
<1>2. LoadsWord' = LoadsWord
  BY DEF LoadsWord, Waits, cpuvars
<1>3. PhaseInv'
  BY <1>2, Sizes DEF PhaseInv, Waits, cpuvars
<1> QED BY <1>1, <1>3

\* In a transfer.
LEMMA WaitsTransfer ==
  ASSUME PoliteInv, DriverInv, InProgress, NEW sel, Waits(sel)
  PROVE  PoliteNext /\ PoliteInv' /\ DriverInv'
<1>1. pc = "DmaWait" /\ pc' = "DmaWait" /\ op' = op /\ op = "DmaRecv"
  BY DEF DriverInv, FreeInv, PlaceInv, DmaPlaces, Waits, cpuvars
<1>2. Polite(NoWrite) /\ NoWrite \in Accesses
  BY WriteFields, WritesMade DEF Polite
<1>3. PoliteNext /\ PoliteInv'
  BY <1>2, PoliteEdge DEF Waits, DriverInv, BlockInv
<1>4. /\ BlockInv' /\ dmarefcount' = dmarefcount
      /\ elapsed' \in 0..DmaTime
      /\ InProgress' => elapsed' + frc' = DmaTime /\ (frczero' = 1 => frc' = 0)
      /\ ~InProgress' => exit' = 1 /\ Finished'
      /\ dmastart' = 0 \/ dmadone' = 0
  BY <1>1, TransferEdge DEF Waits, DriverInv
<1>5. FreeInv'
  BY <1>1, <1>4 DEF FreeInv, PollPlaces
<1>6. RecvInv' /\ DoneInv'
  BY <1>1 DEF RecvInv, DoneInv
<1>7. TimeInv'
  BY <1>1, <1>4 DEF TimeInv
<1>8. WaitInv'
  <2>1. ASSUME rdphase' = 2, readdara'.done = 1 PROVE ~InProgress'
    <3>1. rdphase = 1 /\ sel = "dma"
      BY <1>1, <2>1 DEF Waits, Source, PollPlaces
    <3>2. readdara'.done = dmadone
      BY <3>1, BusWord DEF Waits, Clock
    <3>3. dmadone = 1 /\ dmastart = 0
      BY <1>1, <2>1, <3>1, <3>2 DEF DriverInv, WaitInv, PoliteInv, SafeInv,
                                    TypeOK, DmaTypeOK, Bit
    <3> QED BY <3>3 DEF InProgress
  <2> QED BY <1>1, <1>4, <2>1, Sizes DEF WaitInv
<1>9. CallInv'
  BY <1>1, <1>4 DEF DriverInv, CallInv, Fresh, Waits, cpuvars
<1> QED
  BY <1>3, <1>4, <1>5, <1>6, <1>7, <1>8, <1>9, WaitsPlaces DEF DriverInv

\* Without one.
LEMMA WaitsStill ==
  ASSUME PoliteInv, DriverInv, ~InProgress, NEW sel, Waits(sel)
  PROVE  PoliteNext /\ PoliteInv' /\ DriverInv'
<1>1. /\ PoliteNext /\ PoliteInv' /\ ~InProgress' /\ BlockInv'
      /\ UNCHANGED <<mem, dmarefcount, dmadataerr, dmatimout>>
      /\ exit = 1 =>
           /\ exit' = 1 /\ rxddata' = rxddata /\ bytes' = bytes
           /\ UNCHANGED cardvars
      /\ elapsed' \in 0..DmaTime
      /\ op = "DmaRecv" => before' = before
      /\ op = "DmaRecv" /\ pc \notin {"DmaTimer", "DmaStart"} =>
           elapsed' = elapsed
  BY IdleEdge DEF Waits
<1>2. /\ pc' = pc /\ op' = op /\ softncs' = softncs /\ ret' = ret
      /\ cycle' = cycle /\ dnum' = dnum /\ pos' = pos /\ data32' = data32
      /\ buff' = buff /\ aligned' = aligned
  BY DEF Waits, cpuvars
<1>3. PlaceInv' /\ PhaseInv'
  BY WaitsPlaces
<1>4. FreeInv'
  <2>1. pc \in {"SendWrite", "RecvWrite", "DmaTimer", "DmaStart", "InitSelect"}
          => exit' = 1
    BY <1>1 DEF DriverInv, FreeInv
  <2>2. ASSUME pc \in PollPlaces, rdphase' = 2, readdara'.exit = 1
        PROVE  exit' = 1 /\ readdara'.rx = rxddata'
    <3>1. sel = "status"
      BY <2>2 DEF Waits, Source
    <3>2. readdara'.exit = exit /\ readdara'.rx = rxddata
      BY <3>1, BusWord DEF Waits, Clock
    <3> QED BY <1>1, <2>2, <3>2
  <2>3. pc \in {"DmaWait", "DmaCheck", "DmaCopy"} => exit' = 1
    BY <1>1 DEF DriverInv, FreeInv
  <2>4. pc = "idle" /\ op \in {"Recvbyte", "DmaRecv"} => exit' = 1
    BY <1>1 DEF DriverInv, FreeInv
  <2> QED BY <1>1, <1>2, <2>1, <2>2, <2>3, <2>4, Sizes DEF FreeInv
<1>5. RecvInv'
  <2>1. ASSUME pc = "RecvWait" PROVE ncs' = softncs /\ OneByte'
    BY <2>1, RecvEdge DEF DriverInv, RecvInv, Waits
  <2>2. ASSUME pc = "idle", op = "Recvbyte" PROVE bytes' = 1 /\ ret = answer'
    BY <1>1, <2>2 DEF DriverInv, FreeInv, RecvInv, cardvars
  <2> QED BY <1>2, <2>1, <2>2 DEF RecvInv
<1>6. TimeInv'
  <2>1. ASSUME pc = "DmaStart" PROVE elapsed' + frc' = DmaTime
    BY <2>1, TimerEdge, WriteFields, WritesMade DEF Waits
  <2> QED BY <1>1, <1>2, <2>1 DEF TimeInv
<1>7. WaitInv'
  <2>1. ASSUME pc = "DmaCheck", rdphase' = 2
        PROVE  readdara'.err = dmadataerr' + dmatimout'
    <3>1. sel = "dma"
      BY <2>1 DEF Waits, Source, PollPlaces
    <3> QED BY <1>1, <3>1, BusWord DEF Waits, Clock
  <2>2. ASSUME pc \in {"DmaWait", "DmaCheck", "DmaCopy"} PROVE Finished'
    <3>1. exit = 1 /\ Finished /\ elapsed' = elapsed /\ before' = before
      BY <1>1, <2>2 DEF DriverInv, FreeInv, WaitInv, PlaceInv, DmaPlaces
    <3>2. answer' = answer
      BY <1>1, <3>1 DEF cardvars
    <3> QED BY <1>1, <3>1, <3>2 DEF Finished, Filled
  <2>3. pc = "DmaCopy" => dmatimout' = 0 /\ dmadataerr' = 0
    BY <1>1 DEF DriverInv, WaitInv
  <2> QED BY <1>1, <1>2, <2>1, <2>2, <2>3, Sizes DEF WaitInv, InProgress
<1>8. CallInv'
  <2>1. ASSUME pc = "DmaCopy" PROVE CopyInv' /\ WordInv'
    <3>1. CopyInv /\ WordInv
      BY <2>1 DEF DriverInv, CallInv
    <3>2. CopyInv'
      BY <1>1, <1>2, <3>1 DEF CopyInv, Copied, Left
    <3>3. MemWord(dnum)' = MemWord(dnum)
      BY <1>1, <1>2 DEF MemWord
    <3>4. ASSUME rdphase' # 0
          PROVE  /\ rdphase \in 0..1 /\ rdphase' = rdphase + 1
                 /\ readdara'.data = memq /\ memq' = MemWord(dnum)
      <4>1. sel = "mem"
        BY <2>1, <3>4 DEF Waits, Source, PollPlaces
      <4> QED BY <3>4, <4>1, BusWord DEF Waits, Clock
    <3>5. WordInv'
      BY <3>1, <3>3, <3>4, Sizes DEF WordInv
    <3> QED BY <3>2, <3>5
  <2>2. Fresh' = Fresh
    BY <1>2 DEF Fresh
  <2> QED BY <1>1, <1>2, <2>1, <2>2 DEF DriverInv, CallInv
<1>9. DoneInv'
  <2>1. ASSUME pc = "idle", op = "DmaRecv"
        PROVE  /\ answer' = answer /\ elapsed' = elapsed
               /\ before' = before
    BY <1>1, <2>1 DEF DriverInv, FreeInv, cardvars
  <2>2. Filled(pos)' = Filled(pos) /\ Copied(pos)' = Copied(pos)
    BY <1>1, <1>2 DEF Filled, Copied
  <2> QED BY <1>1, <1>2, <2>1, <2>2 DEF DriverInv, DoneInv
<1> QED
  BY <1>1, <1>3, <1>4, <1>5, <1>6, <1>7, <1>8, <1>9 DEF DriverInv

LEMMA WaitsKeep ==
  ASSUME PoliteInv, DriverInv, NEW sel, Waits(sel)
  PROVE  PoliteNext /\ PoliteInv' /\ DriverInv'
BY WaitsStill, WaitsTransfer

\* What every step is shown to do.
Keeps == [PoliteNext]_vars /\ PoliteInv' /\ DriverInv'

\* A step that is a wait keeps everything.
LEMMA WaitsAreKept ==
  ASSUME PoliteInv, DriverInv, NEW sel, Waits(sel) PROVE Keeps
BY WaitsKeep DEF Keeps

LEMMA NotBusy == ASSUME DriverInv, pc # "DmaWait" PROVE ~InProgress
BY DEF DriverInv, FreeInv

\* A read either goes on, or has got its word.
LEMMA ReadGoesOn ==
  ASSUME DriverInv, NEW sel, sel = Source, Clock(NoWrite, sel),
         pc \in ReadPlaces, pc = "DmaCopy" => LoadsWord,
         rdphase < ReadWait, rdphase' = rdphase + 1, UNCHANGED cpuvars
  PROVE  Waits(sel)
<1>1. rdphase \in 0..1
  BY Sizes DEF DriverInv, PhaseInv
<1> QED BY <1>1 DEF Waits

\* Before the transfer.
LEMMA BeforeTransfer ==
  ASSUME PlaceInv', BlockInv', TimeInv', ~InProgress', rdphase' = 0,
         op' = "DmaRecv", pc' \in {"DmaPoll", "DmaTimer", "DmaStart"}, Fresh',
         pc' \in {"DmaTimer", "DmaStart"} => exit' = 1
  PROVE  DriverInv'
<1>1. PhaseInv' /\ FreeInv'
  BY Sizes DEF PhaseInv, FreeInv
<1>2. RecvInv' /\ WaitInv' /\ CallInv' /\ DoneInv'
  BY DEF RecvInv, WaitInv, CallInv, DoneInv
<1> QED BY <1>1, <1>2 DEF DriverInv

\* Behind it.
LEMMA AfterTransfer ==
  ASSUME PlaceInv', BlockInv', elapsed' \in 0..DmaTime, ~InProgress',
         rdphase' = 0, op' = "DmaRecv", exit' = 1,
         \/ /\ pc' = "DmaCheck" /\ Finished'
            /\ Fresh' /\ cycle' = dmarefcount' + 1
         \/ /\ pc' = "DmaCopy" /\ Finished'
            /\ dmatimout' = 0 /\ dmadataerr' = 0 /\ CopyInv'
         \/ pc' = "idle" /\ DoneInv'
  PROVE  DriverInv'
<1>1. PhaseInv' /\ FreeInv'
  BY Sizes DEF PhaseInv, FreeInv, PollPlaces
<1>2. RecvInv'
  BY DEF RecvInv
<1>3. TimeInv'
  BY DEF TimeInv
<1>4. WaitInv'
  BY Sizes DEF WaitInv
<1>5. CallInv'
  BY Sizes DEF CallInv, WordInv
<1>6. DoneInv'
  BY DEF DoneInv
<1> QED BY <1>1, <1>2, <1>3, <1>4, <1>5, <1>6 DEF DriverInv

-----------------------------------------------------------------------------
(* The polls.                                                              *)

LEMMA PollStep ==
  ASSUME PoliteInv, DriverInv, NEW next, PollExit(next), pc \in PollPlaces
  PROVE  \/ Waits("status")
         \/ /\ Clock(NoWrite, "status") /\ rdphase' = 0 /\ exit = 1
            /\ pc' = next /\ UNCHANGED <<op, softncs, ret, locals>>
<1>1. Source = "status" /\ pc \in ReadPlaces /\ pc # "DmaCopy"
  BY DEF Source, ReadPlaces, PollPlaces
<1>2. CASE rdphase < ReadWait /\ rdphase' = rdphase + 1 /\ UNCHANGED cpuvars
  BY <1>1, <1>2, ReadGoesOn DEF PollExit, Read
<1>3. CASE rdphase = ReadWait /\ rdphase' = 0 /\ readdara.exit = 1
  <2>1. exit = 1
    BY <1>3 DEF DriverInv, FreeInv
  <2> QED BY <1>3, <2>1, Sizes DEF PollExit, Read
<1>4. CASE rdphase = ReadWait /\ rdphase' = 0 /\ readdara.exit # 1
  <2>1. UNCHANGED cpuvars
    BY <1>4, Sizes DEF PollExit, Read, cpuvars, locals
  <2> QED BY <1>4, <2>1 DEF PollExit, Read, Waits
<1> QED BY <1>2, <1>3, <1>4 DEF PollExit, Read

LEMMA KeepsPoll ==
  ASSUME PoliteInv, DriverInv, SendPoll \/ RecvPoll \/ InitPoll
  PROVE  Keeps
<1>1. PICK next \in {"SendWrite", "RecvWrite", "InitSelect"} :
        /\ PollExit(next) /\ pc \in PollPlaces /\ pc # "DmaWait"
        /\ next = "RecvWrite" => pc = "RecvPoll"
        /\ next # "RecvWrite" => pc \in Elsewhere
  BY DEF SendPoll, RecvPoll, InitPoll, PollPlaces, Elsewhere
<1>2. CASE Waits("status")
  BY <1>2, WaitsAreKept
<1>3. CASE /\ Clock(NoWrite, "status") /\ rdphase' = 0 /\ exit = 1
           /\ pc' = next /\ UNCHANGED <<op, softncs, ret, locals>>
  <2>1. /\ PoliteNext /\ PoliteInv' /\ ~InProgress' /\ BlockInv'
        /\ exit' = 1 /\ elapsed' \in 0..DmaTime
    BY <1>1, <1>3, NotBusy, IdleEdge
  <2>2. PlaceInv'
    BY <1>1, <1>3 DEF DriverInv, PlaceInv, RecvPlaces, DmaPlaces, Elsewhere
  <2>3. pc' \notin DmaPlaces \cup {"RecvWait", "idle"}
    BY <1>3 DEF DmaPlaces
  <2> QED BY <1>3, <2>1, <2>2, <2>3, Passing DEF Keeps
<1> QED BY <1>1, <1>2, <1>3, PollStep

LEMMA KeepsDmaPoll == ASSUME PoliteInv, DriverInv, DmaPoll PROVE Keeps
<1>1. PollExit("DmaTimer") /\ pc = "DmaPoll" /\ pc \in PollPlaces
  BY DEF DmaPoll, PollPlaces
<1>2. CASE Waits("status")
  BY <1>2, WaitsAreKept
<1>3. CASE /\ Clock(NoWrite, "status") /\ rdphase' = 0 /\ exit = 1
           /\ pc' = "DmaTimer" /\ UNCHANGED <<op, softncs, ret, locals>>
  <2>1. /\ PoliteNext /\ PoliteInv' /\ ~InProgress' /\ BlockInv'
        /\ exit' = 1 /\ elapsed' \in 0..DmaTime
    BY <1>1, <1>3, NotBusy, IdleEdge
  <2>2. PlaceInv' /\ op' = "DmaRecv"
    BY <1>1, <1>3 DEF DriverInv, PlaceInv, RecvPlaces, DmaPlaces, Elsewhere
  <2>3. TimeInv'
    BY <1>3, <2>1 DEF TimeInv
  <2>4. Fresh'
    BY <1>1, <1>3 DEF DriverInv, CallInv, Fresh, locals
  <2> QED BY <1>3, <2>1, <2>2, <2>3, <2>4, BeforeTransfer DEF Keeps
<1> QED BY <1>1, <1>2, <1>3, PollStep

\* Recvbyte takes the byte.
LEMMA KeepsRecvWait == ASSUME PoliteInv, DriverInv, RecvWait PROVE Keeps
<1>1. /\ pc = "RecvWait" /\ op = "Recvbyte" /\ Clock(NoWrite, "status")
      /\ Source = "status" /\ pc \in ReadPlaces
  BY DEF RecvWait, Read, Source, ReadPlaces, PollPlaces, DriverInv, PlaceInv,
         RecvPlaces
<1>2. CASE rdphase < ReadWait /\ rdphase' = rdphase + 1 /\ UNCHANGED cpuvars
  BY <1>1, <1>2, ReadGoesOn, WaitsAreKept
<1>3. CASE rdphase = ReadWait /\ rdphase' = 0 /\ readdara.exit # 1
  <2>1. UNCHANGED cpuvars
    BY <1>3, Sizes DEF RecvWait, Read, cpuvars, locals
  <2> QED BY <1>1, <1>3, <2>1, WaitsAreKept DEF Waits
<1>4. CASE rdphase = ReadWait /\ rdphase' = 0 /\ readdara.exit = 1
  <2>1. exit = 1 /\ readdara.rx = rxddata
    BY <1>1, <1>4 DEF DriverInv, FreeInv, PollPlaces
  <2>2. /\ PoliteNext /\ PoliteInv' /\ ~InProgress' /\ BlockInv'
        /\ exit' = 1 /\ bytes' = bytes /\ answer' = answer
        /\ elapsed' \in 0..DmaTime
    BY <1>1, <2>1, NotBusy, IdleEdge DEF cardvars
  <2>3. pc' = "idle" /\ ret' = readdara.rx /\ op' = op /\ softncs' = softncs
    BY <1>4, Sizes DEF RecvWait, Read
  <2>4. ~Shifting
    BY <2>1, <1>1, NotBusy, AtRest DEF Shifting, SpiConsistent
  <2>5. bytes = 1 /\ rxddata = answer
    BY <1>1, <2>4 DEF DriverInv, RecvInv, OneByte
  <2>6. PlaceInv'
    BY <2>3 DEF DriverInv, PlaceInv, RecvPlaces, DmaPlaces, Elsewhere
  <2>7. RecvInv'
    BY <2>1, <2>2, <2>3, <2>5 DEF RecvInv
  <2>8. FreeInv' /\ PhaseInv'
    BY <1>4, <2>2, <2>3, Sizes DEF FreeInv, PhaseInv
  <2>9. TimeInv' /\ WaitInv' /\ CallInv' /\ DoneInv'
    BY <1>1, <2>2, <2>3 DEF TimeInv, WaitInv, CallInv, DoneInv
  <2> QED BY <2>2, <2>6, <2>7, <2>8, <2>9 DEF DriverInv, Keeps
<1> QED BY <1>2, <1>3, <1>4 DEF RecvWait, Read

-----------------------------------------------------------------------------
(* DmaRecv.                                                                *)

\* The wait for the end of the transfer.
LEMMA KeepsDmaWait == ASSUME PoliteInv, DriverInv, DmaWait PROVE Keeps
<1>1. /\ pc = "DmaWait" /\ op = "DmaRecv" /\ Clock(NoWrite, "dma")
      /\ Source = "dma" /\ pc \in ReadPlaces
  BY DEF DmaWait, Read, Source, ReadPlaces, PollPlaces, DriverInv, PlaceInv,
         DmaPlaces
<1>2. CASE rdphase < ReadWait /\ rdphase' = rdphase + 1 /\ UNCHANGED cpuvars
  BY <1>1, <1>2, ReadGoesOn, WaitsAreKept
<1>3. CASE rdphase = ReadWait /\ rdphase' = 0 /\ readdara.done # 1
  <2>1. UNCHANGED cpuvars
    BY <1>1, <1>3, Sizes DEF DmaWait, Read, cpuvars, locals
  <2> QED BY <1>1, <1>3, <2>1, WaitsAreKept DEF Waits
<1>4. CASE rdphase = ReadWait /\ rdphase' = 0 /\ readdara.done = 1
  <2>1. ~InProgress
    BY <1>1, <1>4 DEF DriverInv, WaitInv
  <2>2. exit = 1 /\ Finished /\ Fresh /\ cycle = dmarefcount + 1
    BY <1>1, <2>1 DEF DriverInv, FreeInv, WaitInv, CallInv
  <2>3. /\ PoliteNext /\ PoliteInv' /\ ~InProgress' /\ BlockInv'
        /\ exit' = 1 /\ answer' = answer
        /\ elapsed' \in 0..DmaTime /\ elapsed' = elapsed
        /\ before' = before
        /\ UNCHANGED <<mem, dmarefcount, dmadataerr, dmatimout>>
    BY <1>1, <2>1, <2>2, IdleEdge DEF cardvars
  <2>4. /\ pc' = "DmaCheck" /\ op' = op /\ softncs' = softncs
        /\ UNCHANGED locals
    BY <1>4, Sizes DEF DmaWait, Read
  <2>5. PlaceInv' /\ op' = "DmaRecv"
    BY <1>1, <2>4 DEF DriverInv, PlaceInv, RecvPlaces, DmaPlaces, Elsewhere
  <2>6. Finished'
    BY <2>2, <2>3 DEF Finished, Filled
  <2>7. Fresh' /\ cycle' = dmarefcount' + 1
    BY <2>2, <2>3, <2>4 DEF Fresh, locals
  <2> QED BY <1>4, <2>3, <2>4, <2>5, <2>6, <2>7, AfterTransfer DEF Keeps
<1> QED BY <1>2, <1>3, <1>4 DEF DmaWait, Read

\* Nothing is copied yet.
LEMMA CopyBegins ==
  ASSUME Fresh, cycle = dmarefcount + 1 PROVE CopyInv
<1>1. pos = 0 /\ dnum = 0 /\ cycle \in Nat /\ cycle % WordBytes = 0
  BY Sizes DEF Fresh
<1>2. Left = 0
  BY <1>1 DEF Left
<1>3. Copied(pos)
  BY <1>1 DEF Copied, Fresh, NoBytes
<1> QED BY <1>1, <1>2, <1>3, Sizes DEF CopyInv

\* The look at the errors.
LEMMA KeepsDmaCheck == ASSUME PoliteInv, DriverInv, DmaCheck PROVE Keeps
<1>1. /\ pc = "DmaCheck" /\ op = "DmaRecv" /\ Clock(NoWrite, "dma")
      /\ Source = "dma" /\ pc \in ReadPlaces
  BY DEF DmaCheck, Read, Source, ReadPlaces, PollPlaces, DriverInv, PlaceInv,
         DmaPlaces
<1>2. CASE rdphase < ReadWait /\ rdphase' = rdphase + 1 /\ UNCHANGED cpuvars
  BY <1>1, <1>2, ReadGoesOn, WaitsAreKept
<1>3. CASE rdphase = ReadWait /\ rdphase' = 0
  <2>1. ~InProgress
    BY <1>1, NotBusy
  <2>2. /\ exit = 1 /\ Finished /\ Fresh /\ cycle = dmarefcount + 1
        /\ readdara.err = dmadataerr + dmatimout
    BY <1>1, <1>3, <2>1 DEF DriverInv, FreeInv, WaitInv, CallInv
  <2>3. /\ PoliteNext /\ PoliteInv' /\ ~InProgress' /\ BlockInv'
        /\ exit' = 1 /\ answer' = answer
        /\ elapsed' \in 0..DmaTime /\ elapsed' = elapsed
        /\ before' = before
        /\ UNCHANGED <<mem, dmarefcount, dmadataerr, dmatimout>>
    BY <1>1, <2>1, <2>2, IdleEdge DEF cardvars
  <2>4. op' = op /\ softncs' = softncs /\ UNCHANGED locals
    BY <1>3, Sizes DEF DmaCheck, Read
  <2>5. dmadataerr \in Bit /\ dmatimout \in Bit
    BY <2>1, AtRest DEF DmaTypeOK
  <2>6. CASE readdara.err # 0
    <3>1. pc' = "idle" /\ ret' = 1
      BY <1>3, <2>6, Sizes DEF DmaCheck, Read
    <3>2. PlaceInv' /\ op' = "DmaRecv"
      BY <1>1, <2>4, <3>1 DEF DriverInv, PlaceInv, RecvPlaces, DmaPlaces,
                              Elsewhere
    <3>3. dmadataerr = 1 \/ dmatimout = 1
      BY <2>2, <2>5, <2>6 DEF Bit
    <3>4. elapsed = DmaTime \/ answer \notin {Token, Busy}
      BY <2>2, <3>3 DEF Finished
    <3>5. buff' = NoBytes
      BY <2>2, <2>4 DEF Fresh, locals
    <3>6. DoneInv'
      BY <2>3, <3>1, <3>4, <3>5 DEF DoneInv
    <3> QED BY <1>3, <2>3, <3>1, <3>2, <3>6, AfterTransfer DEF Keeps
  <2>7. CASE readdara.err = 0
    <3>1. pc' = "DmaCopy"
      BY <1>3, <2>7, Sizes DEF DmaCheck, Read
    <3>2. PlaceInv' /\ op' = "DmaRecv"
      BY <1>1, <2>4, <3>1 DEF DriverInv, PlaceInv, RecvPlaces, DmaPlaces,
                              Elsewhere
    <3>3. dmadataerr' = 0 /\ dmatimout' = 0
      BY <2>2, <2>3, <2>5, <2>7 DEF Bit
    <3>4. CopyInv
      BY <2>2, CopyBegins
    <3>5. CopyInv'
      BY <2>3, <2>4, <3>4 DEF CopyInv, Copied, Left, locals
    <3>6. Finished'
      BY <2>2, <2>3 DEF Finished, Filled
    <3> QED BY <1>3, <2>3, <3>1, <3>2, <3>3, <3>5, <3>6, AfterTransfer DEF Keeps
  <2> QED BY <2>6, <2>7
<1> QED BY <1>2, <1>3 DEF DmaCheck, Read

\* The word that a read of the buffer gives.
LEMMA WordRead ==
  ASSUME PoliteInv, CopyInv, Left = 0, cycle >= 4
  PROVE  /\ MemWord(dnum) \in [1..WordBytes -> Int]
         /\ \A k \in 1..WordBytes : MemWord(dnum)[k] = mem[pos + k - 1]
         /\ pos + 3 \in 0..MemMax
<1>1. mem \in [0..MemMax -> Byte \cup {Mixed}] /\ dmarefcount \in 0..MemMax
  BY DEF PoliteInv, SafeInv, TypeOK, DmaTypeOK
<1>2. /\ pos \in Nat /\ cycle \in Nat /\ WordBytes * dnum = pos
      /\ pos + cycle = dmarefcount + 1
  BY DEF CopyInv
<1>3. pos + 3 \in 0..MemMax
  BY <1>1, <1>2, Sizes
<1>4. ASSUME NEW k \in 1..WordBytes
      PROVE  /\ pos + k - 1 \in 0..MemMax
             /\ WordBytes * dnum + k - 1 = pos + k - 1
  BY <1>1, <1>2, <1>3, Sizes
<1>5. ASSUME NEW k \in 1..WordBytes
      PROVE  MemWord(dnum)[k] = mem[pos + k - 1]
  BY <1>4 DEF MemWord
<1>6. ASSUME NEW k \in 1..WordBytes
      PROVE  mem[pos + k - 1] \in Int
  <2>1. \A i \in 0..MemMax : mem[i] \in Byte \cup {Mixed}
    BY <1>1
  <2>2. mem[pos + k - 1] \in Byte \cup {Mixed}
    BY <1>4, <2>1
  <2> QED BY <2>2 DEF Byte, Mixed
<1>7. MemWord(dnum) \in [1..WordBytes -> Int]
  BY <1>4, <1>6 DEF MemWord
<1> QED BY <1>3, <1>5, <1>7

\* What the three steps of the copy have in common.
LEMMA CopyStep ==
  ASSUME PoliteInv, DriverInv, pc = "DmaCopy", NEW sel, Clock(NoWrite, sel),
         rdphase' = 0, UNCHANGED <<pc, op, softncs>>, CopyInv'
  PROVE  Keeps
<1>1. ~InProgress /\ exit = 1 /\ op = "DmaRecv"
  BY NotBusy DEF DriverInv, FreeInv, PlaceInv, DmaPlaces
<1>2. Finished /\ dmatimout = 0 /\ dmadataerr = 0
  BY <1>1 DEF DriverInv, WaitInv
<1>3. /\ PoliteNext /\ PoliteInv' /\ ~InProgress' /\ BlockInv'
      /\ exit' = 1 /\ answer' = answer
      /\ elapsed' \in 0..DmaTime /\ elapsed' = elapsed
      /\ before' = before
      /\ UNCHANGED <<mem, dmarefcount, dmadataerr, dmatimout>>
  BY <1>1, IdleEdge DEF cardvars
<1>4. PlaceInv' /\ op' = "DmaRecv"
  BY DEF DriverInv, PlaceInv, DmaPlaces
<1>5. Finished'
  BY <1>2, <1>3 DEF Finished, Filled
<1> QED BY <1>2, <1>3, <1>4, <1>5, AfterTransfer DEF Keeps

\* A word is copied.
LEMMA KeepsCopyWord == ASSUME PoliteInv, DriverInv, CopyWord PROVE Keeps
<1>1. /\ pc = "DmaCopy" /\ Clock(NoWrite, "mem") /\ Source = "mem"
      /\ pc \in ReadPlaces /\ aligned /\ cycle > 3
  BY DEF CopyWord, Read, Source, ReadPlaces, PollPlaces
<1>2. CASE rdphase < ReadWait /\ rdphase' = rdphase + 1 /\ UNCHANGED cpuvars
  <2>1. LoadsWord
    BY <1>1, Sizes DEF LoadsWord, DriverInv, CallInv, CopyInv
  <2> QED BY <1>1, <1>2, <2>1, ReadGoesOn, WaitsAreKept
<1>3. CASE rdphase = ReadWait /\ rdphase' = 0
  <2>1. CopyInv /\ readdara.data = MemWord(dnum)
    BY <1>1, <1>3 DEF DriverInv, CallInv, WordInv
  <2>2. dmarefcount' = dmarefcount /\ mem' = mem
    BY <1>1, NotBusy, IdleEdge
  <2>3. /\ pos \in Nat /\ cycle \in Nat /\ dnum \in Nat /\ Left = 0
        /\ cycle >= 4 /\ cycle % WordBytes = 0 /\ WordBytes * dnum = pos
        /\ pos + cycle = dmarefcount + 1 /\ Copied(pos)
    BY <1>1, <2>1 DEF CopyInv, Left
  <2>4. /\ \A k \in 1..WordBytes : MemWord(dnum)[k] = mem[pos + k - 1]
        /\ pos + 3 \in 0..MemMax
    BY <2>1, <2>3, WordRead
  <2>5. /\ buff' = [i \in 0..MemMax |->
                      IF i \in pos .. pos + WordBytes - 1
                      THEN readdara.data[i - pos + 1] ELSE buff[i]]
        /\ dnum' = dnum + 1 /\ pos' = pos + 4 /\ cycle' = cycle - 4
        /\ aligned' = aligned /\ UNCHANGED <<pc, op, softncs>>
    BY <1>3, Sizes DEF CopyWord, Read
  <2>6. ASSUME NEW i \in 0..MemMax
        PROVE  buff'[i] = IF i < pos + 4 THEN mem[i] ELSE Junk
    <3>1. CASE i \in pos .. pos + WordBytes - 1
      <4>1. /\ i - pos + 1 \in 1..WordBytes /\ pos + (i - pos + 1) - 1 = i
            /\ i < pos + 4
        BY <2>3, <3>1, Sizes
      <4>2. buff'[i] = MemWord(dnum)[i - pos + 1]
        BY <2>1, <2>5, <3>1
      <4> QED BY <2>4, <4>1, <4>2
    <3>2. CASE i \notin pos .. pos + WordBytes - 1
      <4>1. buff'[i] = buff[i]
        BY <2>5, <3>2
      <4>2. i < pos + 4 <=> i < pos
        BY <2>3, <3>2, Sizes
      <4>3. buff[i] = IF i < pos THEN mem[i] ELSE Junk
        BY <2>3 DEF Copied
      <4> QED BY <4>1, <4>2, <4>3
    <3> QED BY <3>1, <3>2
  <2>7. Copied(pos)'
    <3>1. buff' = [i \in 0..MemMax |-> buff'[i]]
      BY <2>5
    <3> QED BY <2>2, <2>5, <2>6, <3>1 DEF Copied
  <2>8. cycle' % WordBytes = 0 /\ cycle' \in Nat
    BY <2>3, <2>5, InWords
  <2>9. Left' = 0
    BY <1>1, <2>5 DEF Left
  <2>10. CopyInv'
    BY <1>1, <2>2, <2>3, <2>5, <2>7, <2>8, <2>9, Sizes DEF CopyInv
  <2> QED BY <1>1, <1>3, <2>5, <2>10, CopyStep
<1> QED BY <1>2, <1>3 DEF CopyWord, Read

\* A byte is taken from a word and stored.
LEMMA CopyLow ==
  ASSUME NEW w \in [1..WordBytes -> Int], NEW r \in 1..4,
         pos \in Nat, pos <= MemMax, cycle \in Nat, Copied(pos),
         \A k \in 1..r : w[k] = mem[pos + k - 1], StoreLow(w), mem' = mem
  PROVE  /\ Copied(pos)' /\ pos' = pos + 1 /\ cycle' = cycle - 1
         /\ \E v \in [1..WordBytes -> Int] :
              data32' = v /\ \A k \in 1..(r - 1) : v[k] = mem[pos' + k - 1]
<1>1. /\ buff' = [buff EXCEPT ![pos] = w[1]] /\ data32' = Append(Tail(w), 0)
      /\ pos' = pos + 1 /\ cycle' = cycle - 1
  BY DEF StoreLow
<1>2. w[1] = mem[pos]
  BY Sizes
<1>3. buff = [i \in 0..MemMax |-> IF i < pos THEN mem[i] ELSE Junk]
  BY DEF Copied
<1>4. Copied(pos)'
  <2>1. buff' = [i \in 0..MemMax |->
                   IF i = pos THEN mem[pos]
                   ELSE IF i < pos THEN mem[i] ELSE Junk]
    BY <1>1, <1>2, <1>3
  <2>2. \A i \in 0..MemMax :
          (IF i = pos THEN mem[pos]
           ELSE IF i < pos THEN mem[i] ELSE Junk)
          = IF i < pos + 1 THEN mem[i] ELSE Junk
    BY Sizes
  <2> QED BY <1>1, <2>1, <2>2 DEF Copied
<1>5. ASSUME NEW k \in 1..(r - 1)
      PROVE  Append(Tail(w), 0)[k] = mem[pos' + k - 1]
  <2>1. k \in 1..3 /\ k + 1 \in 1..r /\ pos + (k + 1) - 1 = pos' + k - 1
    BY <1>1
  <2>2. Append(Tail(w), 0)[k] = w[k + 1]
    BY <2>1, ShiftedOut
  <2> QED BY <2>1, <2>2
<1>6. Append(Tail(w), 0) \in [1..WordBytes -> Int]
  BY ShiftedOut
<1> QED BY <1>1, <1>4, <1>5, <1>6

\* A word is read and its first byte is copied.
LEMMA KeepsCopyLoad == ASSUME PoliteInv, DriverInv, CopyLoad PROVE Keeps
<1>1. /\ pc = "DmaCopy" /\ Clock(NoWrite, "mem") /\ Source = "mem"
      /\ pc \in ReadPlaces /\ cycle > 0 /\ ~(aligned /\ cycle > 3)
      /\ cycle % WordBytes = 0
  BY DEF CopyLoad, InByteLoop, Read, Source, ReadPlaces, PollPlaces
<1>2. CASE rdphase < ReadWait /\ rdphase' = rdphase + 1 /\ UNCHANGED cpuvars
  BY <1>1, <1>2, ReadGoesOn, WaitsAreKept DEF LoadsWord
<1>3. CASE rdphase = ReadWait /\ rdphase' = 0
  <2>1. CopyInv /\ readdara.data = MemWord(dnum)
    BY <1>1, <1>3 DEF DriverInv, CallInv, WordInv
  <2>2. /\ dmarefcount' = dmarefcount /\ mem' = mem
        /\ dmarefcount \in 0..MemMax
    BY <1>1, NotBusy, IdleEdge, AtRest DEF DmaTypeOK
  <2>3. /\ pos \in Nat /\ cycle \in Nat /\ dnum \in Nat /\ cycle >= 4
        /\ (cycle - 1) % WordBytes = 3 /\ cycle - 1 \in Nat
    BY <1>1, <2>1, InWords DEF CopyInv
  <2>4. ~aligned /\ Left = 0
    BY <1>1, <2>3 DEF Left
  <2>5. /\ WordBytes * dnum = pos /\ pos + cycle = dmarefcount + 1
        /\ Copied(pos)
    BY <2>1, <2>3, <2>4 DEF CopyInv
  <2>6. /\ MemWord(dnum) \in [1..WordBytes -> Int]
        /\ \A k \in 1..4 : MemWord(dnum)[k] = mem[pos + k - 1]
    BY <2>1, <2>3, <2>4, WordRead, Sizes
  <2>7. /\ StoreLow(MemWord(dnum)) /\ dnum' = dnum + 1 /\ aligned' = aligned
        /\ UNCHANGED <<pc, op, softncs>>
    BY <1>3, <2>1, Sizes DEF CopyLoad, Read
  <2>8. pos <= MemMax
    BY <2>2, <2>3, <2>5, Sizes
  <2>9. PICK w \in [1..WordBytes -> Int], r \in 1..4 :
          w = MemWord(dnum) /\ r = 4
    BY <2>6
  <2>10. /\ Copied(pos)' /\ pos' = pos + 1 /\ cycle' = cycle - 1
         /\ \E v \in [1..WordBytes -> Int] :
              data32' = v /\ \A k \in 1..(r - 1) : v[k] = mem[pos' + k - 1]
    <3>1. StoreLow(w) /\ \A k \in 1..r : w[k] = mem[pos + k - 1]
      BY <2>6, <2>7, <2>9, Zenon
    <3> QED BY <2>2, <2>3, <2>5, <2>8, <3>1, CopyLow, Zenon
  <2>11. Left' = 3
    BY <2>3, <2>4, <2>7, <2>10 DEF Left
  <2>12. CopyInv'
    BY <2>2, <2>3, <2>4, <2>5, <2>7, <2>9, <2>10, <2>11, Sizes DEF CopyInv
  <2> QED BY <1>1, <1>3, <2>7, <2>12, CopyStep
<1> QED BY <1>2, <1>3 DEF CopyLoad, Read

\* The next byte of the word is copied.
LEMMA KeepsCopyByte == ASSUME PoliteInv, DriverInv, CopyByte PROVE Keeps
<1>1. /\ pc = "DmaCopy" /\ Clock(NoWrite, "none") /\ rdphase' = rdphase
      /\ cycle > 0 /\ cycle % WordBytes # 0 /\ StoreLow(data32)
      /\ dnum' = dnum /\ aligned' = aligned /\ UNCHANGED <<pc, op, softncs>>
  BY DEF CopyByte, InByteLoop
<1>2. CopyInv
  BY <1>1 DEF DriverInv, CallInv
<1>3. /\ dmarefcount' = dmarefcount /\ mem' = mem
      /\ dmarefcount \in 0..MemMax
  BY <1>1, NotBusy, IdleEdge, AtRest DEF DmaTypeOK
<1>4. ~aligned /\ Left = cycle % WordBytes
  BY <1>1, <1>2 DEF CopyInv, Left
<1>5. rdphase' = 0
  BY <1>1, <1>4, Sizes DEF DriverInv, PhaseInv, LoadsWord
<1>6. /\ pos \in Nat /\ cycle \in Nat /\ dnum \in Nat /\ Left \in 1..3
      /\ cycle - 1 \in Nat /\ (cycle - 1) % WordBytes = Left - 1
  BY <1>1, <1>2, <1>4, InWords DEF CopyInv
<1>7. /\ WordBytes * dnum = pos + Left /\ pos + cycle = dmarefcount + 1
      /\ Copied(pos)
  BY <1>2 DEF CopyInv
<1>8. PICK w \in [1..WordBytes -> Int] :
        data32 = w /\ \A k \in 1..Left : w[k] = mem[pos + k - 1]
  BY <1>2, <1>6 DEF CopyInv
<1>9. PICK r \in 1..4 : r = Left
  BY <1>6
<1>10. pos <= MemMax
  BY <1>1, <1>3, <1>6, <1>7, Sizes
<1>11. /\ Copied(pos)' /\ pos' = pos + 1 /\ cycle' = cycle - 1
       /\ \E v \in [1..WordBytes -> Int] :
            data32' = v /\ \A k \in 1..(r - 1) : v[k] = mem[pos' + k - 1]
  <2>1. StoreLow(w) /\ \A k \in 1..r : w[k] = mem[pos + k - 1]
    BY <1>1, <1>8, <1>9, Zenon
  <2> QED BY <1>3, <1>6, <1>7, <1>10, <2>1, CopyLow, Zenon
<1>12. Left' = r - 1
  BY <1>1, <1>4, <1>6, <1>9, <1>11 DEF Left
<1>13. CopyInv'
  BY <1>1, <1>3, <1>4, <1>6, <1>7, <1>9, <1>11, <1>12, Sizes DEF CopyInv
<1> QED BY <1>1, <1>5, <1>13, CopyStep

LEMMA KeepsCopyDone == ASSUME PoliteInv, DriverInv, CopyDone PROVE Keeps
<1>1. /\ pc = "DmaCopy" /\ Clock(NoWrite, "none") /\ rdphase' = rdphase
      /\ cycle = 0 /\ pc' = "idle" /\ ret' = 0
      /\ UNCHANGED <<op, softncs, locals>>
  BY DEF CopyDone
<1>2. /\ CopyInv /\ exit = 1 /\ op = "DmaRecv"
      /\ Finished /\ dmatimout = 0 /\ dmadataerr = 0
  BY <1>1, NotBusy DEF DriverInv, CallInv, FreeInv, WaitInv, PlaceInv, DmaPlaces
<1>3. /\ PoliteNext /\ PoliteInv' /\ ~InProgress' /\ BlockInv'
      /\ exit' = 1 /\ elapsed' \in 0..DmaTime /\ before' = before
      /\ dmarefcount' = dmarefcount /\ mem' = mem
  BY <1>1, <1>2, NotBusy, IdleEdge
<1>4. rdphase' = 0
  BY <1>1, Sizes DEF DriverInv, PhaseInv, LoadsWord
<1>5. PlaceInv' /\ op' = "DmaRecv"
  BY <1>1 DEF DriverInv, PlaceInv, RecvPlaces, DmaPlaces, Elsewhere
<1>6. /\ pos = dmarefcount + 1 /\ Copied(pos)
      /\ before # "data" => Filled(pos)
  BY <1>1, <1>2 DEF CopyInv, Finished
<1>7. pos' = pos /\ Copied(pos)' /\ (before # "data" => Filled(pos)')
  BY <1>1, <1>3, <1>6 DEF Copied, Filled, locals
<1>8. DoneInv'
  BY <1>1, <1>3, <1>6, <1>7 DEF DoneInv
<1> QED BY <1>1, <1>3, <1>4, <1>5, <1>8, AfterTransfer DEF Keeps

-----------------------------------------------------------------------------
(* The timer, the writes and the calls.                                    *)

LEMMA KeepsTimerRead ==
  ASSUME PoliteInv, DriverInv, CheckTimer \/ WaitRead PROVE Keeps
<1>1. /\ pc \in {"TimerRead", "WaitRead"} /\ Clock(NoWrite, "timer")
      /\ Source = "timer" /\ pc \in ReadPlaces /\ pc # "DmaCopy"
  BY DEF CheckTimer, WaitRead, Read, Source, ReadPlaces, PollPlaces
<1>2. CASE rdphase < ReadWait /\ rdphase' = rdphase + 1 /\ UNCHANGED cpuvars
  BY <1>1, <1>2, ReadGoesOn, WaitsAreKept
<1>3. CASE rdphase = ReadWait /\ rdphase' = 0 /\ pc' = pc /\ WaitRead
  <2>1. UNCHANGED cpuvars
    BY <1>3, Sizes DEF WaitRead, Read, cpuvars, locals
  <2> QED BY <1>1, <1>3, <2>1, WaitsAreKept DEF Waits
<1>4. CASE rdphase = ReadWait /\ rdphase' = 0 /\ pc' = "idle"
  <2>1. op' = op /\ softncs' = softncs
    BY <1>1, <1>4, Sizes DEF CheckTimer, WaitRead, Read
  <2>2. op \notin {"Recvbyte", "DmaRecv"}
    BY <1>1 DEF DriverInv, PlaceInv, Elsewhere
  <2>3. PlaceInv'
    BY <1>4, <2>1 DEF DriverInv, PlaceInv, RecvPlaces, DmaPlaces, Elsewhere
  <2>4. /\ PoliteNext /\ PoliteInv' /\ ~InProgress' /\ BlockInv'
        /\ elapsed' \in 0..DmaTime
    BY <1>1, NotBusy, IdleEdge
  <2>5. pc' \notin DmaPlaces \cup {"RecvWait", "SendWrite", "RecvWrite",
                                   "InitSelect"}
    BY <1>4 DEF DmaPlaces
  <2> QED BY <1>4, <2>1, <2>2, <2>3, <2>4, <2>5, Passing DEF Keeps
<1>5. \/ rdphase < ReadWait /\ rdphase' = rdphase + 1 /\ UNCHANGED cpuvars
      \/ /\ rdphase = ReadWait /\ rdphase' = 0
         /\ pc' = "idle" \/ (pc' = pc /\ WaitRead)
  BY Sizes DEF CheckTimer, WaitRead, Read
<1> QED BY <1>2, <1>3, <1>4, <1>5

\* A write that starts neither a byte that is awaited nor a transfer.
LEMMA PlainWrite ==
  ASSUME PoliteInv, DriverInv, NEW bus \in Accesses, bus.reg # "dma",
         Starts(bus) => exit = 1, NEW next, Write(bus, next),
         pc \in Elsewhere, pc \notin ReadPlaces,
         next \in {"idle", "WaitRead", "ClockWrite"},
         op' = op, softncs' \in Bit
  PROVE  Keeps
<1>1. /\ Clock(bus, bus.reg) /\ pc' = next /\ rdphase' = rdphase
      /\ pc # "DmaWait"
  BY DEF Write, Elsewhere
<1>2. /\ PoliteNext /\ PoliteInv' /\ ~InProgress' /\ BlockInv'
      /\ elapsed' \in 0..DmaTime
  BY <1>1, NotBusy, QuietStep
<1>3. rdphase' = 0
  BY <1>1, Sizes DEF DriverInv, PhaseInv
<1>4. op \notin {"Recvbyte", "DmaRecv"}
  BY DEF DriverInv, PlaceInv
<1>5. PlaceInv'
  BY <1>1, <1>4 DEF PlaceInv, RecvPlaces, DmaPlaces, Elsewhere
<1>6. pc' \notin DmaPlaces \cup {"RecvWait", "SendWrite", "RecvWrite",
                                 "InitSelect"}
  BY <1>1 DEF DmaPlaces
<1> QED BY <1>2, <1>3, <1>4, <1>5, <1>6, Passing DEF Keeps

LEMMA KeepsPlainWrite ==
  ASSUME PoliteInv, DriverInv,
         \/ SelectWrite \/ SendWrite \/ InitSelect \/ SetTimer \/ WaitWrite
         \/ ClockWrite
  PROVE  Keeps
<1>0. PICK n \in Bit : n = softncs
  BY DEF DriverInv, PlaceInv
<1>1. CASE SelectWrite
  <2>1. PICK bus \in Accesses : bus = StatusWrite(0, n, 255)
    BY WritesMade
  <2>2. Write(bus, "idle") /\ op' = op /\ softncs' \in Bit /\ pc = "SelectWrite"
    BY <1>0, <1>1, <2>1 DEF SelectWrite
  <2>3. bus.reg # "dma" /\ ~Starts(bus)
    BY <2>1, WriteFields DEF Starts
  <2> QED
    BY <2>2, <2>3, PlainWrite DEF Elsewhere, ReadPlaces, PollPlaces
<1>2. CASE SendWrite
  <2>1. PICK bus \in Accesses : bus = StatusWrite(1, n, 7)
    BY WritesMade
  <2>2. Write(bus, "idle") /\ op' = op /\ softncs' \in Bit /\ pc = "SendWrite"
    BY <1>0, <1>2, <2>1 DEF SendWrite
  <2>3. bus.reg # "dma" /\ exit = 1
    BY <2>1, <2>2, WriteFields DEF DriverInv, FreeInv
  <2> QED
    BY <2>2, <2>3, PlainWrite DEF Elsewhere, ReadPlaces, PollPlaces
<1>3. CASE InitSelect
  <2>1. PICK bus \in Accesses : bus = StatusWrite(0, 1, 255)
    BY WritesMade DEF Bit
  <2>2. /\ Write(bus, "ClockWrite") /\ op' = op /\ softncs' \in Bit
        /\ pc = "InitSelect"
    BY <1>3, <2>1 DEF InitSelect, Bit
  <2>3. bus.reg # "dma" /\ ~Starts(bus)
    BY <2>1, WriteFields DEF Starts
  <2> QED
    BY <2>2, <2>3, PlainWrite DEF Elsewhere, ReadPlaces, PollPlaces
<1>4. CASE SetTimer \/ WaitWrite
  <2>1. PICK bus \in Accesses : bus = TimerWrite(WaitTime)
    BY WritesMade
  <2>2. PICK next \in {"idle", "WaitRead"} : Write(bus, next)
    BY <1>4, <2>1 DEF SetTimer, WaitWrite
  <2>3. op' = op /\ softncs' \in Bit /\ pc \in {"TimerWrite", "WaitWrite"}
    BY <1>0, <1>4 DEF SetTimer, WaitWrite
  <2>4. bus.reg # "dma" /\ ~Starts(bus)
    BY <2>1, WriteFields DEF Starts
  <2> QED
    BY <2>2, <2>3, <2>4, PlainWrite DEF Elsewhere, ReadPlaces, PollPlaces
<1>5. CASE ClockWrite
  <2>1. PICK bus \in Accesses :
          bus = DivWrite(IF op = "SetTransClock" THEN TransDiv ELSE IdentDiv)
    BY WritesMade
  <2>2. Write(bus, "idle") /\ op' = op /\ softncs' \in Bit /\ pc = "ClockWrite"
    BY <1>0, <1>5, <2>1 DEF ClockWrite
  <2>3. bus.reg # "dma" /\ ~Starts(bus)
    BY <2>1, WriteFields DEF Starts
  <2> QED
    BY <2>2, <2>3, PlainWrite DEF Elsewhere, ReadPlaces, PollPlaces
<1> QED BY <1>1, <1>2, <1>3, <1>4, <1>5

\* Recvbyte starts its byte.
LEMMA KeepsRecvWrite == ASSUME PoliteInv, DriverInv, RecvWrite PROVE Keeps
<1>0. PICK n \in Bit : n = softncs
  BY DEF DriverInv, PlaceInv
<1>1. PICK bus \in Accesses : bus = StatusWrite(1, n, 255)
  BY WritesMade
<1>2. /\ pc = "RecvWrite" /\ Clock(bus, "status") /\ pc' = "RecvWait"
      /\ rdphase' = rdphase /\ op' = op /\ softncs' = softncs
  BY <1>0, <1>1, WriteFields DEF RecvWrite, Write
<1>3. exit = 1 /\ ~InProgress
  BY <1>2, NotBusy DEF DriverInv, FreeInv
<1>4. bus.reg # "dma"
  BY <1>1, WriteFields
<1>5. /\ PoliteNext /\ PoliteInv' /\ ~InProgress' /\ BlockInv'
      /\ elapsed' \in 0..DmaTime
  BY <1>2, <1>3, <1>4, QuietStep
<1>6. OneByte' /\ ncs' = softncs'
  BY <1>0, <1>1, <1>2, <1>3, StartEdge
<1>7. rdphase' = 0
  BY <1>2, Sizes DEF DriverInv, PhaseInv, ReadPlaces, PollPlaces
<1>8. PlaceInv'
  BY <1>2 DEF DriverInv, PlaceInv, RecvPlaces, DmaPlaces, Elsewhere
<1>9. PhaseInv' /\ FreeInv' /\ RecvInv'
  BY <1>2, <1>5, <1>6, <1>7, Sizes DEF PhaseInv, FreeInv, RecvInv
<1>10. TimeInv' /\ WaitInv' /\ CallInv' /\ DoneInv'
  BY <1>2, <1>5 DEF TimeInv, WaitInv, CallInv, DoneInv
<1> QED BY <1>5, <1>8, <1>9, <1>10 DEF DriverInv, Keeps

\* The time that the transfer is given.
LEMMA KeepsDmaTimer == ASSUME PoliteInv, DriverInv, DmaTimer PROVE Keeps
<1>1. PICK bus \in Accesses : bus = TimerWrite(DmaTime)
  BY WritesMade
<1>2. /\ pc = "DmaTimer" /\ Clock(bus, "timer") /\ pc' = "DmaStart"
      /\ rdphase' = rdphase /\ op' = op /\ softncs' = softncs
      /\ UNCHANGED locals
  BY <1>1, WriteFields DEF DmaTimer, Write
<1>3. exit = 1 /\ ~InProgress
  BY <1>2, NotBusy DEF DriverInv, FreeInv
<1>4. bus.reg = "timer" /\ bus.val = DmaTime /\ ~Starts(bus)
  BY <1>1, WriteFields DEF Starts
<1>5. /\ PoliteNext /\ PoliteInv' /\ ~InProgress' /\ BlockInv' /\ exit' = 1
  BY <1>2, <1>3, <1>4, QuietStep
<1>6. elapsed' = 0
  BY <1>2 DEF Clock
<1>7. frc' = DmaTime
  <2>1. PICK rx \in RxBytes : DmaClock(bus, rx)
    BY <1>2 DEF Clock
  <2>2. SpiWrite(bus) = bus
    BY <1>3, <1>4, AtRest DEF SpiWrite
  <2> QED BY <1>4, <2>1, <2>2 DEF DmaClock, SpiClock, Timer
<1>8. rdphase' = 0
  BY <1>2, Sizes DEF DriverInv, PhaseInv, ReadPlaces, PollPlaces
<1>9. PlaceInv' /\ op' = "DmaRecv"
  BY <1>2 DEF DriverInv, PlaceInv, RecvPlaces, DmaPlaces, Elsewhere
<1>10. TimeInv'
  BY <1>5, <1>6, <1>7, Sizes DEF TimeInv
<1>11. Fresh'
  BY <1>2 DEF DriverInv, CallInv, Fresh, locals
<1> QED
  BY <1>2, <1>5, <1>8, <1>9, <1>10, <1>11, BeforeTransfer DEF Keeps

\* Its start.
LEMMA KeepsDmaStart == ASSUME PoliteInv, DriverInv, DmaStart PROVE Keeps
<1>1. /\ pc = "DmaStart" /\ Fresh /\ exit = 1 /\ ~InProgress
  BY NotBusy DEF DmaStart, DriverInv, CallInv, FreeInv
<1>2. PICK last \in 0..MemMax : last = cycle - 1
  BY <1>1, Sizes DEF Fresh
<1>3. PICK bus \in Accesses : bus = DmaWrite(last)
  BY WritesMade
<1>4. /\ Clock(bus, "dma") /\ pc' = "DmaWait" /\ rdphase' = rdphase
      /\ op' = op /\ softncs' = softncs /\ UNCHANGED locals
  BY <1>2, <1>3, WriteFields DEF DmaStart, Write
<1>5. bus.reg = "dma" /\ bus.val = last /\ bus.start = 1 /\ ~Starts(bus)
  BY <1>3, WriteFields DEF Starts
<1>6. /\ dmastart = 0 /\ dmadone = 1 /\ dmastate = "IDLE"
  BY <1>1, AtRest
<1>7. Polite(bus)
  BY <1>1, <1>6 DEF Polite
<1>8. PoliteNext /\ PoliteInv' /\ cardpos' \in Nat
  BY <1>4, <1>7, PoliteEdge DEF DriverInv, BlockInv
<1>9. PICK rx \in RxBytes : DmaClock(bus, rx)
  BY <1>4 DEF Clock
<1>10. dmastart' = 1 /\ dmarefcount' = last
  BY <1>5, <1>6, <1>9 DEF DmaClock, DmaRegs
<1>11. StayIdle
  BY <1>6, <1>9 DEF DmaClock, DmaFsm, BeginTransfer, DropStrobe, AwaitByte,
                    TokenArrives, PollAgain, DataError, TimeOut, StoreByte
<1>12. BlockInv'
  <2>1. dmastate' = "IDLE" /\ before' = card
    BY <1>4, <1>5, <1>6, <1>11 DEF StayIdle, Clock
  <2>2. card' = card
    <3>1. PICK r \in RxBytes : Card(r) /\ DmaClock(bus, r)
      BY <1>4 DEF Clock
    <3>2. SpiTypeOK /\ SpiConsistent /\ Shifter(SpiWrite(bus), r)
      BY <1>1, <3>1, AtRest DEF DmaClock, SpiClock
    <3>3. ~LastSample
      BY <1>1, <3>1, <3>2, ByteEdge
    <3> QED BY <3>1, <3>3 DEF Card, cardvars
  <2> QED BY <1>8, <2>1, <2>2 DEF BlockInv
<1>13. TimeInv'
  BY <1>1, <1>4, <1>5, TimerEdge DEF TimeInv
<1>14. rdphase' = 0
  BY <1>1, <1>4, Sizes DEF DriverInv, PhaseInv, ReadPlaces, PollPlaces
<1>15. PlaceInv'
  BY <1>1, <1>4 DEF DriverInv, PlaceInv, RecvPlaces, DmaPlaces, Elsewhere
<1>16. InProgress'
  BY <1>10 DEF InProgress
<1>17. PhaseInv' /\ FreeInv'
  BY <1>4, <1>14, <1>16, Sizes DEF PhaseInv, FreeInv, PollPlaces
<1>18. RecvInv' /\ DoneInv'
  BY <1>4 DEF RecvInv, DoneInv
<1>19. WaitInv'
  BY <1>4, <1>14, <1>16, Sizes DEF WaitInv
<1>20. CallInv'
  <2>1. Fresh'
    BY <1>1, <1>4 DEF Fresh, locals
  <2>2. cycle' = dmarefcount' + 1
    BY <1>1, <1>2, <1>4, <1>10, Sizes DEF Fresh, locals
  <2> QED BY <1>4, <2>1, <2>2 DEF CallInv
<1> QED
  BY <1>8, <1>12, <1>13, <1>15, <1>17, <1>18, <1>19, <1>20 DEF DriverInv, Keeps

\* The CPU does something else.
LEMMA KeepsStall == ASSUME PoliteInv, DriverInv, Stall PROVE Keeps
<1>1. Waits("none")
  BY DEF Stall, Waits
<1> QED BY <1>1, WaitsAreKept

\* A function is called.
LEMMA EnterStep ==
  ASSUME PoliteInv, DriverInv, NEW f, NEW first, Enter(f, first)
  PROVE  /\ PoliteNext /\ PoliteInv' /\ ~InProgress' /\ BlockInv'
         /\ elapsed' \in 0..DmaTime /\ rdphase' = 0
         /\ pc' = first /\ op' = f
<1>1. pc = "idle" /\ Clock(NoWrite, "none") /\ rdphase' = rdphase
  BY DEF Enter
<1>2. rdphase' = 0
  BY <1>1, Sizes DEF DriverInv, PhaseInv, ReadPlaces, PollPlaces
<1>3. /\ PoliteNext /\ PoliteInv' /\ ~InProgress' /\ BlockInv'
      /\ elapsed' \in 0..DmaTime
  BY <1>1, NotBusy, IdleEdge
<1> QED BY <1>2, <1>3 DEF Enter

LEMMA KeepsCall ==
  ASSUME PoliteInv, DriverInv,
         \/ CallSelect \/ CallSend \/ CallRecv \/ CallSetTimer
         \/ CallCheckTimer \/ CallWait100us \/ CallSetClock \/ CallInitSocket
  PROVE  Keeps
<1>1. softncs' \in Bit
  BY DEF CallSelect, CallSend, CallRecv, CallSetTimer, CallCheckTimer,
         CallWait100us, CallSetClock, CallInitSocket, DriverInv, PlaceInv
<1>2. PICK f \in {"SetCardSelect", "SetCardDeselect", "Sendbyte", "Recvbyte",
                  "SetTimer", "CheckTimer", "Wait100us", "SetIdentClock",
                  "SetTransClock", "InitSocket"},
           first \in {"SelectWrite", "SendPoll", "RecvPoll", "TimerWrite",
                      "TimerRead", "WaitWrite", "ClockWrite", "InitPoll"} :
        /\ Enter(f, first)
        /\ f = "Recvbyte" <=> first = "RecvPoll"
  BY DEF CallSelect, CallSend, CallRecv, CallSetTimer, CallCheckTimer,
         CallWait100us, CallSetClock, CallInitSocket, Call
<1>3. /\ PoliteNext /\ PoliteInv' /\ ~InProgress' /\ BlockInv'
      /\ elapsed' \in 0..DmaTime /\ rdphase' = 0
      /\ pc' = first /\ op' = f
  BY <1>2, EnterStep
<1>4. PlaceInv'
  BY <1>1, <1>2, <1>3 DEF PlaceInv, RecvPlaces, DmaPlaces, Elsewhere
<1>5. pc' \notin DmaPlaces \cup {"RecvWait", "idle", "SendWrite", "RecvWrite",
                                 "InitSelect"}
  BY <1>3 DEF DmaPlaces
<1> QED BY <1>3, <1>4, <1>5, Passing DEF Keeps

\* The bytes that a call of DmaRecv asks for.
LEMMA AskedBytes ==
  ASSUME NEW wc \in WordCounts
  PROVE  LET n == IF wc # 0 THEN 2 * wc ELSE BlockLen
         IN  n \in 1..BlockLen /\ n % WordBytes = 0
<1>1. wc \in 0..((MemMax + 1) \div 2) /\ (2 * wc) % WordBytes = 0
  BY DriverAssumption
<1>2. wc \in Nat /\ 2 * wc <= MemMax + 1
  BY <1>1, Sizes
<1>3. CASE wc = 0
  BY <1>3, Sizes
<1>4. CASE wc # 0
  <2>1. 2 * wc \in 1..BlockLen
    BY <1>2, <1>4, Sizes
  <2> QED BY <1>1, <1>4, <2>1
<1> QED BY <1>3, <1>4

LEMMA KeepsCallDmaRecv == ASSUME PoliteInv, DriverInv, CallDmaRecv PROVE Keeps
<1>1. PICK wc \in WordCounts, al \in BOOLEAN :
        Locals(IF wc # 0 THEN 2 * wc ELSE BlockLen, al)
  BY DEF CallDmaRecv
<1>2. Fresh'
  BY <1>1, AskedBytes DEF Locals, Fresh
<1>3. /\ PoliteNext /\ PoliteInv' /\ ~InProgress' /\ BlockInv'
      /\ elapsed' \in 0..DmaTime /\ rdphase' = 0
      /\ pc' = "DmaPoll" /\ op' = "DmaRecv"
  BY EnterStep DEF CallDmaRecv
<1>4. PlaceInv'
  BY <1>3 DEF CallDmaRecv, DriverInv, PlaceInv, RecvPlaces, DmaPlaces,
              Elsewhere
<1>5. TimeInv'
  BY <1>3 DEF TimeInv
<1> QED BY <1>2, <1>3, <1>4, <1>5, BeforeTransfer DEF Keeps

\* The card alone.
LEMMA KeepsCommand == ASSUME PoliteInv, DriverInv, Command PROVE Keeps
<1>1. /\ pc = "idle" /\ UNCHANGED vars /\ UNCHANGED cpuvars
      /\ rdphase' = rdphase /\ cardpos' = cardpos /\ answer' = answer
      /\ bytes' = bytes /\ elapsed' = elapsed /\ before' = before
  BY DEF Command, busvars, obsvars
<1>2. /\ pc' = pc /\ op' = op /\ softncs' = softncs /\ ret' = ret
      /\ pos' = pos /\ buff' = buff
  BY <1>1 DEF cpuvars
<1>3. /\ dmastate' = dmastate /\ dmastart' = dmastart /\ dmadone' = dmadone
      /\ dmarefcount' = dmarefcount /\ exit' = exit /\ mem' = mem
  BY <1>1 DEF vars, spivars, dmavars
<1>4. PoliteInv' /\ [PoliteNext]_vars
  BY <1>1, StutterPolite
<1>5. ~InProgress /\ ~InProgress' /\ dmastate' = "IDLE"
  BY <1>1, <1>3, NotBusy, AtRest DEF InProgress
<1>6. PlaceInv' /\ PhaseInv'
  BY <1>1, <1>2, Sizes DEF DriverInv, PlaceInv, PhaseInv
<1>7. FreeInv' /\ RecvInv' /\ DoneInv'
  BY <1>1, <1>2, <1>3, <1>5
     DEF DriverInv, FreeInv, RecvInv, DoneInv, PollPlaces, Copied, Filled
<1>8. BlockInv' /\ TimeInv'
  BY <1>1, <1>2, <1>5 DEF DriverInv, BlockInv, TimeInv
<1>9. WaitInv' /\ CallInv'
  BY <1>1, <1>2 DEF WaitInv, CallInv
<1> QED BY <1>4, <1>6, <1>7, <1>8, <1>9 DEF DriverInv, Keeps

LEMMA DriverStep ==
  ASSUME PoliteInv, DriverInv, [DriverNext]_drvvars
  PROVE  Keeps
<1>1. CASE Calls
  BY <1>1, KeepsCall, KeepsCallDmaRecv DEF Calls
<1>2. CASE Resume
  BY <1>2, KeepsPoll, KeepsDmaPoll, KeepsRecvWait, KeepsDmaWait,
     KeepsDmaCheck, KeepsCopyWord, KeepsCopyLoad, KeepsCopyByte,
     KeepsCopyDone, KeepsTimerRead, KeepsPlainWrite, KeepsRecvWrite,
     KeepsDmaTimer, KeepsDmaStart
     DEF Resume
<1>3. CASE Stall \/ Command
  BY <1>3, KeepsStall, KeepsCommand
<1>4. CASE UNCHANGED drvvars
  <2>1. UNCHANGED vars /\ UNCHANGED <<cpuvars, busvars, cardvars, obsvars>>
    BY <1>4 DEF drvvars
  <2>2. PoliteInv' /\ [PoliteNext]_vars
    BY <2>1, StutterPolite
  <2>3. PlaceInv' /\ PhaseInv' /\ FreeInv' /\ RecvInv' /\ BlockInv'
    BY <2>1 DEF DriverInv, PlaceInv, PhaseInv, FreeInv, RecvInv, BlockInv,
                LoadsWord, InProgress, OneByte, Shifting, Filled, vars,
                spivars, dmavars, cpuvars, busvars, cardvars, obsvars
  <2>4. TimeInv' /\ WaitInv'
    BY <2>1 DEF DriverInv, TimeInv, WaitInv, Finished, Filled, InProgress,
                vars, spivars, dmavars, cpuvars, busvars, cardvars, obsvars
  <2>5. CallInv'
    BY <2>1 DEF DriverInv, CallInv, Fresh, CopyInv, WordInv, Copied, Left,
                MemWord, vars, dmavars, cpuvars, busvars
  <2>6. DoneInv'
    BY <2>1 DEF DriverInv, DoneInv, Copied, Filled, vars, dmavars, cpuvars,
                cardvars, obsvars
  <2> QED BY <2>2, <2>3, <2>4, <2>5, <2>6 DEF DriverInv, Keeps
<1> QED BY <1>1, <1>2, <1>3, <1>4 DEF DriverNext

LEMMA DriverStart == DriverInit => PoliteInv /\ DriverInv
<1> SUFFICES ASSUME DriverInit PROVE PoliteInv /\ DriverInv
  OBVIOUS
<1>1. PoliteInv
  BY InitPolite DEF DriverInit
<1>2. /\ dmastart = 0 /\ dmadone = 1 /\ dmastate = "IDLE"
      /\ pc = "InitPoll" /\ op = "InitSocket" /\ rdphase = 0
      /\ softncs = 0 /\ cardpos = 0 /\ elapsed = 0
  BY DEF DriverInit, Init, DmaReset
<1>3. ~InProgress
  BY <1>2 DEF InProgress
<1>4. PlaceInv /\ PhaseInv
  BY <1>2, Sizes DEF PlaceInv, PhaseInv, RecvPlaces, DmaPlaces, Elsewhere, Bit
<1>5. FreeInv /\ RecvInv
  BY <1>2, <1>3, Sizes DEF FreeInv, RecvInv
<1>6. BlockInv /\ TimeInv
  BY <1>2, <1>3, Sizes DEF BlockInv, TimeInv
<1>7. WaitInv /\ CallInv /\ DoneInv
  BY <1>2 DEF WaitInv, CallInv, DoneInv
<1> QED BY <1>1, <1>4, <1>5, <1>6, <1>7 DEF DriverInv

LEMMA DriverInvariant == DriverSpec => [](PoliteInv /\ DriverInv)
<1>1. ASSUME PoliteInv /\ DriverInv, [DriverNext]_drvvars
      PROVE  (PoliteInv /\ DriverInv)'
  BY <1>1, DriverStep DEF Keeps
<1> QED BY <1>1, DriverStart, PTL DEF DriverSpec

-----------------------------------------------------------------------------
(* What the functions promise.                                             *)

\* Every step of mmc_spi.c is one that PoliteSpec allows: no transfer and no
\* byte starts while a byte is in flight, and nothing is written before a
\* transfer is over.
THEOREM DriverKeepsRules == DriverSpec => KeepsRules
<1>1. ASSUME PoliteInv /\ DriverInv, [DriverNext]_drvvars
      PROVE  [PoliteNext]_vars
  BY <1>1, DriverStep DEF Keeps
<1> QED BY <1>1, DriverInvariant, PTL DEF DriverSpec, KeepsRules

\* Below mmc_spi.c the cycle-level transfer implements the promise of
\* BlockReader: all the bytes asked for, in order and in their places, or an
\* error and a buffer that was not written.
THEOREM DriverImplementsReader == DriverSpec => ImplementsReader
<1>1. DriverInit => Reader!ReaderInit
  BY DmaAssumption
     DEF DriverInit, Init, DmaReset, Reader!ReaderInit, InProgress, Byte
<1>2. ASSUME PoliteInv /\ DriverInv, [DriverNext]_drvvars
      PROVE  [Reader!ReaderNext]_(Reader!readervars)
  <2>1. [PoliteNext]_vars
    BY <1>2, DriverStep DEF Keeps
  <2>2. CASE PoliteNext
    BY <1>2, <2>2, IdleStep, BusyStep DEF PoliteNext
  <2>3. CASE UNCHANGED vars
    <3>1. Status' = Status /\ Want' = Want /\ Got' = Got /\ mem' = mem
      BY <2>3 DEF vars, dmavars, Status, Want, Got, InProgress
    <3> QED BY <3>1, ReaderStutter
  <2> QED BY <2>1, <2>2, <2>3
<1> QED
  BY <1>1, <1>2, DriverInvariant, PTL
     DEF DriverSpec, ImplementsReader, Reader!ReaderSpec

\* Recvbyte of mmc_spi.c returns the one byte that the card sent in answer to
\* its own write, under the chip select that the software asked for.
THEOREM RecvAnswerHolds == DriverSpec => []RecvAnswer
<1>1. DriverInv => RecvAnswer
  BY DEF DriverInv, RecvInv, RecvAnswer
<1> QED BY <1>1, DriverInvariant, PTL

\* DmaRecv of mmc_spi.c returns 0 only with the bytes that it was asked for,
\* each in its place in the buffer of the caller, and nothing beyond them: both
\* copy loops, and whatever the length.  They are those of the block unless the
\* card was in the middle of one when the transfer was asked for.
THEOREM BlockDeliveredHolds == DriverSpec => []BlockDelivered
<1>1. ASSUME PoliteInv, DriverInv, pc = "idle", op = "DmaRecv", ret = 0
      PROVE  /\ pos = dmarefcount + 1
             /\ \A i \in 0..MemMax : i >= pos => buff[i] = Junk
             /\ before # "data" =>
                  \A i \in 0..MemMax : i < pos => buff[i] = BlockByte(i)
  <2>1. /\ pos = dmarefcount + 1 /\ Copied(pos)
        /\ before # "data" => Filled(pos)
    BY <1>1 DEF DriverInv, DoneInv
  <2>2. dmarefcount \in Nat
    BY <1>1, Sizes DEF PoliteInv, SafeInv, TypeOK, DmaTypeOK
  <2>3. \A i \in 0..MemMax : buff[i] = IF i < pos THEN mem[i] ELSE Junk
    BY <2>1 DEF Copied
  <2> QED BY <2>1, <2>2, <2>3, Sizes DEF Filled
<1>2. PoliteInv /\ DriverInv => BlockDelivered
  BY <1>1 DEF BlockDelivered
<1> QED BY <1>2, DriverInvariant, PTL

\* DmaRecv of mmc_spi.c returns 1 only if the card sent neither a token nor
\* "busy", or all the time it was given has passed, and the buffer of the
\* caller is as it was.
THEOREM ErrorReportedHolds == DriverSpec => []ErrorReported
<1>1. DriverInv => ErrorReported
  BY DEF DriverInv, DoneInv, ErrorReported
<1> QED BY <1>1, DriverInvariant, PTL
=============================================================================
