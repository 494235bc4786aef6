------------------------------ MODULE MmcDriver ------------------------------
(***************************************************************************)
(* The device functions of mmcfs/mmc_spi.c running on the CPU, over the    *)
(* bus, against the peripheral of module MmcDma and a card.                *)
(*                                                                         *)
(* A step is one clock edge of the peripheral.  In each cycle the CPU      *)
(* makes a register write (one cycle, writeWaitTime is 0), is somewhere in *)
(* a register read (1 + ReadWait cycles) or does nothing on this bus for   *)
(* as long as it likes (Stall).  pc is the bus access the running function *)
(* is at; "idle" is the caller, which may call any function next.          *)
(*                                                                         *)
(* Timer values, the buffer and the byte are scaled down by the constants. *)
(* A machine word is WordBytes bytes, as in the code.                      *)
(***************************************************************************)
EXTENDS MmcDma, Sequences

CONSTANTS
  WordCounts,   \* the values of wc that DmaRecv is called with: mmcbb.c passes
                \* 512, of which eight bits arrive, and 16
  Answers,      \* the bytes the card sends outside a block
  Block,        \* the bytes of the block it sends
  DmaTime,      \* SetTimer(100)
  WaitTime,     \* mmc_timecount_100us
  IdentDiv,     \* clock divider for card identification
  TransDiv      \* clock divider for data transfer

VARIABLES
  pc,         \* the access the CPU is making or will make next
  op,         \* the function that runs, or the last one that ran
  rdphase,    \* cycles of the current read that are over
  readdara,   \* the peripheral's read data register
  memq,       \* the output of the read buffer RAM
  softncs,    \* mmc_spi_ncs
  ret,        \* what the last function returned
  cycle,      \* DmaRecv: bytes left to copy
  dnum,       \* DmaRecv: next word of the read buffer
  pos,        \* DmaRecv: where the next byte goes, buff - its first value
  data32,     \* DmaRecv: bytes left of the word read last
  buff,       \* DmaRecv: the bytes copied out so far
  aligned,    \* DmaRecv: buff is word aligned
  card,       \* what the card is doing
  cardpos,    \* the byte of the block the card sends next
  answer,     \* the byte the card sent last
  bytes,      \* bytes exchanged since the last start was written
  elapsed,    \* cycles from DmaTimer to the end of the transfer, up to DmaTime
  before      \* what the card was doing when the last transfer was asked for

cpuvars  == <<pc, op, softncs, ret, cycle, dnum, pos, data32, buff, aligned>>
busvars  == <<rdphase, readdara, memq>>
cardvars == <<card, cardpos, answer>>
obsvars  == <<bytes, elapsed, before>>
drvvars  == <<vars, cpuvars, busvars, cardvars, obsvars>>

WordBytes == 4
BlockLen  == MemMax + 1

\* What a local variable holds that was never assigned, which is no byte, and
\* the byte that the card sends as check sum.
Junk == 257
Crc  == 99
BlockByte(i) == Block[i]

\* Faults: fewer wait states.
ReadWaitOne  == 1
ReadWaitNone == 0

\* Avalon read timing of the component: readWaitTime.
ReadWait == 2

ASSUME DriverAssumption ==
  /\ WordCounts \subseteq 0..((MemMax + 1) \div 2)
  /\ \A wc \in WordCounts : (2 * wc) % WordBytes = 0
  /\ Answers \subseteq RxBytes \ {Token} /\ {Token, Busy, Crc} \subseteq RxBytes
  /\ Block \in [0..MemMax -> RxBytes]
  /\ DmaTime \in 1..FrcMax /\ WaitTime \in 1..FrcMax
  /\ IdentDiv \in 0..DivMax /\ TransDiv \in 0..DivMax
  /\ (MemMax + 1) % WordBytes = 0

-----------------------------------------------------------------------------
(* The card (external).  It answers the byte that is being shifted when    *)
(* its last bit is sampled; with chip select high the line is pulled up.   *)

LastSample == spistate = "SDI" /\ divcount = 0 /\ bitcount = LastBit

Card(rx) ==
  IF ~LastSample
  THEN rx = Busy /\ UNCHANGED cardvars
  ELSE /\ answer' = rx
       /\ \/ /\ ncs = 1
             /\ rx = Busy
             /\ UNCHANGED <<card, cardpos>>
          \/ /\ ncs = 0 /\ card = "listen"
             /\ rx \in Answers
             /\ UNCHANGED <<card, cardpos>>
          \/ /\ ncs = 0 /\ card = "seek"          \* a block was asked for
             /\ \/ rx = Busy /\ card' = "seek"
                \/ rx = Token /\ card' = "data"
                \/ rx \in Answers \ {Busy} /\ card' = "listen"
             /\ cardpos' = 0
          \/ /\ ncs = 0 /\ card = "data"
             /\ rx = IF cardpos < BlockLen THEN BlockByte(cardpos) ELSE Crc
             /\ cardpos' = cardpos + 1
             /\ card' = IF cardpos > BlockLen THEN "listen" ELSE "data"

-----------------------------------------------------------------------------
(* The bus.                                                                *)

\* A word on the bus, by the fields that the functions look at.
ZeroWord   == [exit |-> 0, rx |-> 0, done |-> 0, err |-> 0, count |-> 0,
               data |-> [k \in 1..WordBytes |-> 0]]
StatusWord == [ZeroWord EXCEPT !.exit = exit, !.rx = rxddata]
TimerWord  == [ZeroWord EXCEPT !.count = frc]
DmaWord    == [ZeroWord EXCEPT !.done = dmadone,
                               !.err = dmadataerr + dmatimout]
DataWord   == [ZeroWord EXCEPT !.data = memq]

\* The word of the read buffer that a read at dnum gives.
MemWord(i) == [k \in 1..WordBytes |-> mem[WordBytes * i + k - 1]]

\* The readdata process: the register takes the selected source in every
\* cycle, a cycle of a write included; the RAM registers its address first.
\* While a transfer runs the byte engine's own address is forced to its
\* status register.
BusData(sel) ==
  /\ readdara' = CASE sel = "status" -> StatusWord
                   [] sel = "timer"  -> IF dmadone = 1 THEN TimerWord
                                        ELSE StatusWord
                   [] sel = "dma"    -> DmaWord
                   [] sel = "mem"    -> DataWord
                   [] OTHER          -> ZeroWord
  /\ memq' = IF sel = "mem" THEN MemWord(dnum) ELSE memq

Clock(bus, sel) ==
  /\ \E rx \in RxBytes : Card(rx) /\ DmaClock(bus, rx)
  /\ BusData(sel)
  /\ bytes' = IF bus.reg = "status" /\ bus.start = 1 THEN 0
              ELSE IF LastSample /\ bytes < 2 THEN bytes + 1 ELSE bytes
  /\ elapsed' = IF pc = "DmaTimer" \/ op # "DmaRecv" THEN 0
                ELSE IF (pc = "DmaStart" \/ InProgress) /\ elapsed < DmaTime
                     THEN elapsed + 1 ELSE elapsed
  /\ before' = IF bus.reg = "dma" THEN card
               ELSE IF op = "DmaRecv" THEN before ELSE "listen"

\* The CPU does something else.
Stall ==
  /\ rdphase = 0
  /\ Clock(NoWrite, "none")
  /\ UNCHANGED <<cpuvars, rdphase>>

\* IOWR: the write, after which the function goes on at next.
Write(bus, next) ==
  /\ Clock(bus, bus.reg)
  /\ pc' = next
  /\ UNCHANGED rdphase

\* IORD: the wait states, and the last cycle, in which the CPU takes the
\* read data register and Use says what it does with it.
Read(sel, Use) ==
  /\ Clock(NoWrite, sel)
  /\ \/ /\ rdphase < ReadWait
        /\ rdphase' = rdphase + 1
        /\ UNCHANGED cpuvars
     \/ /\ rdphase = ReadWait
        /\ rdphase' = 0
        /\ Use

StatusWrite(start, n, b) ==
  [reg |-> "status", start |-> start, irq |-> 0, ncs |-> n, val |-> b]
TimerWrite(t)  == [NoWrite EXCEPT !.reg = "timer", !.val = t]
DivWrite(d)    == [NoWrite EXCEPT !.reg = "clkdiv", !.val = d]
DmaWrite(last) == [NoWrite EXCEPT !.reg = "dma", !.start = 1, !.val = last]

\* Every write the functions make.
DriverWrites ==
  {NoWrite}
  \cup {StatusWrite(0, n, 255) : n \in Bit}
  \cup {StatusWrite(1, n, b) : n \in Bit, b \in {7, 255}}
  \cup {TimerWrite(t) : t \in {DmaTime, WaitTime}}
  \cup {DivWrite(d) : d \in {IdentDiv, TransDiv}}
  \cup {DmaWrite(n) : n \in 0..MemMax}

ASSUME AccessesAssumption == DriverWrites \subseteq Accesses

-----------------------------------------------------------------------------
(* The functions of mmc_spi.c.  A call takes at least a cycle.             *)

locals == <<cycle, dnum, pos, data32, buff, aligned>>

NoBytes == [i \in 0..MemMax |-> Junk]
Unset   == [k \in 1..WordBytes |-> Junk]

\* The local variables of a call, for a transfer of n bytes.
Locals(n, al) ==
  /\ cycle' = n /\ aligned' = al
  /\ dnum' = 0 /\ pos' = 0
  /\ data32' = Unset /\ buff' = NoBytes

Enter(f, first) ==
  /\ pc = "idle"
  /\ op' = f
  /\ pc' = first
  /\ ret' = 0
  /\ Clock(NoWrite, "none")
  /\ UNCHANGED rdphase

\* A function without such variables; those of the last call are gone.
Call(f, first) == Enter(f, first) /\ Locals(0, TRUE)

\* The loops "while( !(IORD(status) & mmc_commexit) ) {}".
PollExit(next) ==
  Read("status", /\ pc' = IF readdara.exit = 1 THEN next ELSE pc
                 /\ UNCHANGED <<op, softncs, ret, locals>>)

\* SetCardSelect, SetCardDeselect: one write, with bit 9 set, and no wait
\* for the byte in flight.
CallSelect ==
  /\ \E n \in Bit : Call(IF n = 0 THEN "SetCardSelect" ELSE "SetCardDeselect",
                         "SelectWrite") /\ softncs' = n

SelectWrite ==
  /\ pc = "SelectWrite"
  /\ Write(StatusWrite(0, softncs, 255), "idle")
  /\ UNCHANGED <<op, softncs, ret, locals>>

\* Sendbyte: wait for the byte before, start this one, do not wait for it.
CallSend ==
  /\ Call("Sendbyte", "SendPoll")
  /\ UNCHANGED softncs

SendPoll  == pc = "SendPoll" /\ PollExit("SendWrite")

SendWrite ==
  /\ pc = "SendWrite"
  /\ Write(StatusWrite(1, softncs, 7), "idle")
  /\ UNCHANGED <<op, softncs, ret, locals>>

\* Recvbyte: wait for the byte before, start one, wait for it.
CallRecv ==
  /\ Call("Recvbyte", "RecvPoll")
  /\ UNCHANGED softncs

RecvPoll  == pc = "RecvPoll" /\ PollExit("RecvWrite")

RecvWrite ==
  /\ pc = "RecvWrite"
  /\ Write(StatusWrite(1, softncs, 255), "RecvWait")
  /\ UNCHANGED <<op, softncs, ret, locals>>

RecvWait ==
  /\ pc = "RecvWait"
  /\ Read("status", /\ IF readdara.exit = 1
                       THEN pc' = "idle" /\ ret' = readdara.rx
                       ELSE UNCHANGED <<pc, ret>>
                    /\ UNCHANGED <<op, softncs, locals>>)

\* DmaRecv: the card is selected and answers a read command.  wc counts
\* half words, and 0 stands for the whole buffer.
CallDmaRecv ==
  /\ softncs = 0
  /\ Enter("DmaRecv", "DmaPoll")
  /\ \E wc \in WordCounts, al \in BOOLEAN :
       Locals(IF wc # 0 THEN 2 * wc ELSE BlockLen, al)
  /\ UNCHANGED softncs

\* Fault: a byte in flight is not waited for.
DmaPollSkipped ==
  /\ pc = "DmaPoll"
  /\ Read("status", pc' = "DmaTimer" /\ UNCHANGED <<op, softncs, ret, locals>>)

DmaPoll == pc = "DmaPoll" /\ PollExit("DmaTimer")

\* Fault: the timer is not set.
DmaTimerForgotten ==
  /\ pc = "DmaTimer"
  /\ Write(NoWrite, "DmaStart")
  /\ UNCHANGED <<op, softncs, ret, locals>>

DmaTimer ==
  /\ pc = "DmaTimer"
  /\ Write(TimerWrite(DmaTime), "DmaStart")
  /\ UNCHANGED <<op, softncs, ret, locals>>

DmaStart ==
  /\ pc = "DmaStart"
  /\ Write(DmaWrite(cycle - 1), "DmaWait")
  /\ UNCHANGED <<op, softncs, ret, locals>>

DmaWait ==
  /\ pc = "DmaWait"
  /\ Read("dma", /\ pc' = IF readdara.done = 1 THEN "DmaCheck" ELSE pc
                 /\ UNCHANGED <<op, softncs, ret, locals>>)

DmaCheck ==
  /\ pc = "DmaCheck"
  /\ Read("dma", /\ IF readdara.err # 0
                    THEN pc' = "idle" /\ ret' = 1
                    ELSE pc' = "DmaCopy" /\ UNCHANGED ret
                 /\ UNCHANGED <<op, softncs, locals>>)

\* The two copy loops.  Aligned: whole words, while(cycle > 3).
CopyWord ==
  /\ pc = "DmaCopy" /\ aligned /\ cycle > 3
  /\ Read("mem", /\ buff' = [i \in 0..MemMax |->
                               IF i \in pos .. pos + WordBytes - 1
                               THEN readdara.data[i - pos + 1] ELSE buff[i]]
                 /\ dnum' = dnum + 1
                 /\ pos' = pos + WordBytes
                 /\ cycle' = cycle - WordBytes
                 /\ UNCHANGED <<pc, op, softncs, ret, data32, aligned>>)

\* Byte by byte, while(cycle > 0): a word is read when cycle is a multiple
\* of the word size, and is shifted out of data32.
InByteLoop == pc = "DmaCopy" /\ cycle > 0 /\ ~(aligned /\ cycle > 3)

StoreLow(w) ==
  /\ buff' = [buff EXCEPT ![pos] = w[1]]
  /\ data32' = Append(Tail(w), 0)
  /\ pos' = pos + 1
  /\ cycle' = cycle - 1

CopyLoad ==
  /\ InByteLoop
  /\ cycle % WordBytes = 0
  /\ Read("mem", /\ StoreLow(readdara.data)
                 /\ dnum' = dnum + 1
                 /\ UNCHANGED <<pc, op, softncs, ret, aligned>>)

CopyByte ==
  /\ InByteLoop
  /\ cycle % WordBytes # 0
  /\ StoreLow(data32)
  /\ Clock(NoWrite, "none")
  /\ UNCHANGED <<rdphase, pc, op, softncs, ret, dnum, aligned>>

CopyDone ==
  /\ pc = "DmaCopy" /\ cycle = 0
  /\ pc' = "idle" /\ ret' = 0
  /\ Clock(NoWrite, "none")
  /\ UNCHANGED <<rdphase, op, softncs, locals>>

\* SetTimer alone, CheckTimer, and Wait100us, which is both in a loop.
CallSetTimer ==
  /\ Call("SetTimer", "TimerWrite")
  /\ UNCHANGED softncs

SetTimer ==
  /\ pc = "TimerWrite"
  /\ Write(TimerWrite(WaitTime), "idle")
  /\ UNCHANGED <<op, softncs, ret, locals>>

CallCheckTimer ==
  /\ Call("CheckTimer", "TimerRead")
  /\ UNCHANGED softncs

CheckTimer ==
  /\ pc = "TimerRead"
  /\ Read("timer", /\ pc' = "idle"
                   /\ ret' = IF readdara.count # 0 THEN 1 ELSE 0
                   /\ UNCHANGED <<op, softncs, locals>>)

CallWait100us ==
  /\ Call("Wait100us", "WaitWrite")
  /\ UNCHANGED softncs

WaitWrite ==
  /\ pc = "WaitWrite"
  /\ Write(TimerWrite(WaitTime), "WaitRead")
  /\ UNCHANGED <<op, softncs, ret, locals>>

WaitRead ==
  /\ pc = "WaitRead"
  /\ Read("timer", /\ pc' = IF readdara.count = 0 THEN "idle" ELSE pc
                   /\ UNCHANGED <<op, softncs, ret, locals>>)

\* SetIdentClock, SetTransClock: a write, without a wait.
CallSetClock ==
  /\ \E f \in {"SetIdentClock", "SetTransClock"} : Call(f, "ClockWrite")
  /\ UNCHANGED softncs

ClockWrite ==
  /\ pc = "ClockWrite"
  /\ Write(DivWrite(IF op = "SetTransClock" THEN TransDiv ELSE IdentDiv),
           "idle")
  /\ UNCHANGED <<op, softncs, ret, locals>>

\* InitSocket: wait for the byte in flight, deselect, identification clock.
CallInitSocket ==
  /\ Call("InitSocket", "InitPoll")
  /\ UNCHANGED softncs

InitPoll == pc = "InitPoll" /\ PollExit("InitSelect")

InitSelect ==
  /\ pc = "InitSelect"
  /\ softncs' = 1
  /\ Write(StatusWrite(0, 1, 255), "ClockWrite")
  /\ UNCHANGED <<op, ret, locals>>

\* The card accepts a read command: the commands themselves are bytes like
\* any others, and the caller has seen the response.
Command ==
  /\ pc = "idle" /\ exit = 1 /\ card = "listen"
  /\ card' = "seek"
  /\ UNCHANGED <<vars, cpuvars, busvars, cardpos, answer, obsvars>>

Calls ==
  \/ CallSelect \/ CallSend \/ CallRecv \/ CallDmaRecv \/ CallSetTimer
  \/ CallCheckTimer \/ CallWait100us \/ CallSetClock \/ CallInitSocket

\* The next step of the function that runs.
Resume ==
  \/ SelectWrite \/ SendPoll \/ SendWrite \/ RecvPoll \/ RecvWrite \/ RecvWait
  \/ DmaPoll \/ DmaTimer \/ DmaStart \/ DmaWait \/ DmaCheck
  \/ CopyWord \/ CopyLoad \/ CopyByte \/ CopyDone
  \/ SetTimer \/ CheckTimer \/ WaitWrite \/ WaitRead
  \/ ClockWrite \/ InitPoll \/ InitSelect

\* The first function that is called is InitSocket; mmc_spi_ncs is a zeroed
\* static until then.
DriverInit ==
  /\ Init
  /\ pc = "InitPoll" /\ op = "InitSocket" /\ rdphase = 0 /\ readdara = ZeroWord
  /\ memq = MemWord(0)
  /\ softncs = 0 /\ ret = 0
  /\ cycle = 0 /\ dnum = 0 /\ pos = 0 /\ data32 = Unset /\ buff = NoBytes
  /\ aligned = TRUE
  /\ card = "listen" /\ cardpos = 0 /\ answer = Busy
  /\ bytes = 0 /\ elapsed = 0 /\ before = "listen"

DriverNext == Calls \/ Resume \/ Stall \/ Command

DriverSpec == DriverInit /\ [][DriverNext]_drvvars

\* The CPU does not stay away from the bus for ever in the middle of a
\* function: nothing else on this bus can hold it off.
FairDriverSpec == DriverSpec /\ WF_drvvars(Resume)

-----------------------------------------------------------------------------
(* Properties.                                                             *)

\* Seen from the peripheral, every step of the driver is one that PoliteSpec
\* allows: a transfer never starts while a byte is in flight, and nothing is
\* written before a transfer is over.  So every property of PoliteSpec holds
\* of the driver and the peripheral together.
KeepsRules == [][PoliteNext]_vars

\* Recvbyte returns the one byte that the card sent in answer to its own
\* write: not the byte of a Sendbyte still in flight, and none half shifted.
\* The card saw the chip select that the software asked for, even if a write
\* of it came while the byte before was in flight and was lost.
RecvAnswer ==
  /\ pc = "idle" /\ op = "Recvbyte" => bytes = 1 /\ ret = answer
  /\ pc = "RecvWait" => ncs = softncs

\* DmaRecv returns 0 only with the bytes it was asked for and leaves the rest
\* of the buffer alone.  They are the bytes of the block, in order, each in its
\* place, unless the card was in the middle of a block when the transfer was
\* asked for: a byte of that block may look like a start token.
BlockDelivered ==
  pc = "idle" /\ op = "DmaRecv" /\ ret = 0 =>
    /\ pos = dmarefcount + 1
    /\ \A i \in 0..MemMax : i >= pos => buff[i] = Junk
    /\ before # "data" =>
         \A i \in 0..MemMax : i < pos => buff[i] = BlockByte(i)

\* DmaRecv returns 1 only if the card answered neither a token nor "busy",
\* or the time it was given has passed: it never times out early, however
\* long ago the timer had run out before the call.
ErrorReported ==
  pc = "idle" /\ op = "DmaRecv" /\ ret = 1 =>
    /\ buff = NoBytes
    /\ elapsed = DmaTime \/ answer \notin {Token, Busy}

\* Every function returns.
FunctionReturns == pc # "idle" ~> pc = "idle"
=============================================================================
