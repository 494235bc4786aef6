--------------------------- MODULE LoreleySlotengine ---------------------------
(***************************************************************************)
(* The slot engine of the SPU, loreley_slotengine.vhd: once per sample it  *)
(* goes through all slots, from the last to slot 1, loads the registers of *)
(* a slot, decides what the slot does, waits for the wave memory, and      *)
(* writes the status word back.  The CPU reaches the same register file    *)
(* through a second port; the slot in progress is locked against it.       *)
(*                                                                         *)
(* Of the registers of a slot the model has the status word, the one both  *)
(* sides write.  Sample data, addresses, volumes and envelope levels are   *)
(* left out; what they decide (the end of the wave is reached, the         *)
(* envelope has decayed, the wave memory has answered) may happen or not.  *)
(***************************************************************************)
EXTENDS LoreleyRmw

CONSTANT SlotMax       \* the number of slots, sys_slotnum: up to 63

VARIABLES
  slotstate,   \* the state of the engine
  slotcount,   \* the slot in progress
  syncreg,     \* the sync bit as it was when this sample began
  regq,        \* the output of the engine's port of the register file
  word,        \* the status word of the slot in progress
  keyonflag,   \* its key on is taken in this sample
  keyoffflag,  \* its key off is
  stopflag,    \* it is to stop
  endflag,     \* it has come to the end of the wave
  ram          \* the status words of the slots, the register file

slotvars == <<slotstate, slotcount, syncreg, regq, word, keyonflag, keyoffflag,
              stopflag, endflag, ram>>

Slots == 1..SlotMax
SlotState == {"START", "ENTRY", "REGREAD0", "REGREAD1", "REGREAD2", "REGREAD3",
              "CTRL", "ROMREAD", "REGWRITE", "WAVEADD", "HALT"}

ASSUME SlotMaxAssumption == SlotMax \in 1..63

\* The register file has no reset, it comes up with zeros; the CPU sets it up
\* before it starts the engine.  InitWords stands for what it sets up.
SlotReset(InitWords) ==
  /\ slotstate = "HALT"
  /\ slotcount = 0
  /\ syncreg = FALSE
  /\ regq = Blank
  /\ word = Blank
  /\ keyonflag = FALSE /\ keyoffflag = FALSE /\ endflag = FALSE
  /\ stopflag = FALSE
  /\ ram \in [Slots -> InitWords]

-----------------------------------------------------------------------------
(* The register file.                                                      *)

\* The slot in progress is locked; the comparison does not ask for the state.
Locked(s) == slotcount = s

\* The word the CPU's side writes at this edge, if it writes slot s.
CpuWrites(s) == regwrite /\ access.addr = StatusReg(s) /\ ~Locked(s)

EngineWrites(s) == slotstate = "REGWRITE" /\ slotcount = s

\* The status word as the engine writes it back: a key it took is cleared.
WrittenBack ==
  [word EXCEPT !.key_on = @ /\ ~keyonflag, !.key_off = @ /\ ~keyoffflag]

RamNext ==
  [s \in Slots |-> IF EngineWrites(s) THEN WrittenBack
                   ELSE IF CpuWrites(s) THEN rmdwork ELSE ram[s]]

\* What a port that reads slot s returns behind this edge.  A word that the
\* other port is writing is read as anything (DONT_CARE in loreley_dpram.vhd).
EngineReads(s) == IF CpuWrites(s) THEN Word ELSE {ram[s]}
CpuReads(s)    == IF EngineWrites(s) THEN Word ELSE {RamNext[s]}

\* The set and the clear for the interrupt bits.
IrqSets(s)   == EngineWrites(s) /\ word.irqflag
IrqClears(s) == CpuWrites(s) /\ ~rmdwork.irqflag

-----------------------------------------------------------------------------
(* The state machine.                                                      *)

Go(from, to) == slotstate = from /\ slotstate' = to
\* The registers of the slot in progress are loaded before they are looked at;
\* when they are of no use any more they are blank here.
DropWord == word' = Blank /\ keyonflag' = FALSE /\ keyoffflag' = FALSE /\ endflag' = FALSE
KeepWord == UNCHANGED <<word, keyonflag, keyoffflag, endflag>>

\* The sync signal of the sample rate: the engine starts with the last slot,
\* even if the last sample is not finished.
Begin(syssync) ==
  /\ slotstate' = "START"
  /\ slotcount' = SlotMax
  /\ syncreg' = syssync
  /\ DropWord
  /\ regq' = Blank
  /\ UNCHANGED stopflag

\* START, ENTRY: the port of the register file is given time.
Enter ==
  /\ \/ Go("START", "ENTRY") /\ regq' = Blank
     \/ Go("ENTRY", "REGREAD0") /\ regq' \in EngineReads(slotcount)
  /\ KeepWord
  /\ UNCHANGED <<slotcount, syncreg, stopflag>>

\* REGREAD0: the status word is there.
LoadStatus ==
  /\ Go("REGREAD0", "REGREAD1")
  /\ word' = regq
  /\ regq' = Blank
  /\ UNCHANGED <<slotcount, syncreg, keyonflag, keyoffflag, stopflag, endflag>>

\* A key whose sync bit is set counts only in a sample that began with the
\* system's sync bit.
KeyOn  == word.key_on /\ (word.cfg["syncon"] => syncreg)
KeyOff == word.key_off /\ (word.cfg["syncoff"] => syncreg)

\* REGREAD1: the keys are decided for the rest of the slot.
LatchKeys ==
  /\ Go("REGREAD1", "REGREAD2")
  /\ keyonflag' = KeyOn
  /\ keyoffflag' = KeyOff
  /\ UNCHANGED <<slotcount, syncreg, regq, word, stopflag, endflag>>

LoadVolume ==
  /\ Go("REGREAD2", "REGREAD3")
  /\ KeepWord
  /\ UNCHANGED <<slotcount, syncreg, regq, stopflag>>

\* REGREAD3: whether the slot stops.  Under an envelope it stops when that has
\* decayed, and nothing is decided when there is a key on.
DecideStop ==
  /\ Go("REGREAD3", "CTRL")
  /\ endflag' \in BOOLEAN
  /\ \/ ~word.cfg["env"] /\ stopflag' = KeyOff
     \/ word.cfg["env"] /\ ~KeyOn /\ stopflag' \in BOOLEAN
     \/ word.cfg["env"] /\ KeyOn /\ UNCHANGED stopflag
  /\ UNCHANGED <<slotcount, syncreg, regq, word, keyonflag, keyoffflag>>

Starts == ~stopflag /\ keyonflag /\ ~word.cfg["mask"]
Ends   == ~stopflag /\ ~Starts /\ word.busy /\ endflag

\* CTRL: a stop comes first, then a key on, then the end of the wave.
Ctrl ==
  /\ slotstate = "CTRL"
  /\ slotstate' = IF word.busy THEN "ROMREAD" ELSE "REGWRITE"
  /\ word' = [word EXCEPT
       !.busy = Starts \/ (@ /\ ~stopflag /\ (Ends => word.cfg["loop"])),
       !.irqflag = @ \/ (Ends /\ word.cfg["irqena"])]
  /\ endflag' = FALSE
  /\ UNCHANGED <<slotcount, syncreg, regq, keyonflag, keyoffflag, stopflag>>

\* ROMREAD: the wave memory and the envelope are waited for, both possibly
\* done already.
ReadRom ==
  /\ slotstate = "ROMREAD"
  /\ slotstate' \in {"ROMREAD", "REGWRITE"}
  /\ KeepWord
  /\ UNCHANGED <<slotcount, syncreg, regq, stopflag>>

\* REGWRITE: the register file takes the word (RamNext) and the next slot is
\* addressed.
WriteSlot ==
  /\ Go("REGWRITE", "WAVEADD")
  /\ slotcount' = slotcount - 1
  /\ DropWord
  /\ UNCHANGED <<syncreg, regq, stopflag>>

\* Fault: slot 1 is taken for the end.
AddWaveToOne ==
  /\ slotstate = "WAVEADD"
  /\ \/ slotcount = 1 /\ slotstate' = "HALT" /\ UNCHANGED regq
     \/ slotcount # 1 /\ slotstate' = "REGREAD0"
        /\ regq' \in EngineReads(slotcount)
  /\ slotcount' = IF slotcount = 1 THEN 0 ELSE slotcount
  /\ KeepWord
  /\ UNCHANGED <<syncreg, stopflag>>

\* WAVEADD: on to the next slot, or the sample is finished.
AddWave ==
  /\ slotstate = "WAVEADD"
  /\ \/ slotcount = 0 /\ slotstate' = "HALT" /\ UNCHANGED regq
     \/ slotcount # 0 /\ slotstate' = "REGREAD0"
        /\ regq' \in EngineReads(slotcount)
  /\ KeepWord
  /\ UNCHANGED <<slotcount, syncreg, stopflag>>

Rest ==
  /\ slotstate = "HALT"
  /\ UNCHANGED <<slotstate, slotcount, syncreg, regq, word, keyonflag,
                 keyoffflag, stopflag, endflag>>

\* One edge without the sync signal.
SlotStep ==
  \/ Enter
  \/ LoadStatus
  \/ LatchKeys
  \/ LoadVolume
  \/ DecideStop
  \/ Ctrl
  \/ ReadRom
  \/ WriteSlot
  \/ AddWave
  \/ Rest

\* One edge: the sync signal goes before every state, and the write of the
\* register file happens in either case.
SlotClock(fs, syssync) ==
  /\ IF fs THEN Begin(syssync) ELSE SlotStep
  /\ ram' = RamNext

==============================================================================
