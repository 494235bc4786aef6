----------------------------- MODULE LoreleyProofs -----------------------------
(***************************************************************************)
(* The shared registers and the interrupts of the SPU, two separate parts. *)
(*                                                                         *)
(* What the CPU and the slot engine write to the registers they share is   *)
(* not lost and not stale, and no key on is missed: ReadFresh, WritesKept  *)
(* and KeysPlayed, for any number of slots, any settings and any accesses. *)
(* None of the three is inductive.  EngineInv adds that the word which the *)
(* engine has loaded agrees with the register file in all that the CPU may *)
(* change, which holds as the slot in progress is locked; BusInv that the  *)
(* word which the bus is going to write Carries the access and every key   *)
(* that is still wanted, also while the write enable is left on in RETRY.  *)
(*                                                                         *)
(* The interrupt encoder shows the lowest pending slot, for every set of   *)
(* slots.  EncoderShows alone says nothing of a scan in progress, so       *)
(* PipeInv says for each state what is in the two stages of the encoders   *)
(* and which words are known to be empty.  It holds because a bit that     *)
(* changes always throws the scan back to ENTRY, of which PipeInv asks     *)
(* nothing.                                                                *)
(***************************************************************************)
EXTENDS LoreleyCore, LoreleyIrqencode, TLAPS

\* The states in which the engine has loaded a slot, and has latched its keys.
Latched == {"REGREAD2", "REGREAD3", "CTRL", "ROMREAD", "REGWRITE"}
Loaded  == Latched \cup {"REGREAD1"}

EngineTypeOK ==
  /\ slotstate \in SlotState /\ slotcount \in 0 .. SlotMax
  /\ ram \in [Slots -> Word]
  /\ syncreg \in BOOLEAN /\ stopflag \in BOOLEAN /\ endflag \in BOOLEAN
  /\ keyonflag \in BOOLEAN /\ keyoffflag \in BOOLEAN
  /\ slotstate \in Loaded => word \in Word
  /\ due \subseteq Slots

\* The slot in progress, what is known of it, and of the slots to come.
EngineInv ==
  /\ EngineTypeOK
  /\ slotstate \notin {"HALT", "WAVEADD"} => slotcount \in Slots
  /\ slotstate = "HALT" => slotcount = 0
  /\ slotstate = "REGREAD0" => regq = ram[slotcount]
  /\ slotstate \in Loaded =>
       /\ word.cfg = ram[slotcount].cfg
       /\ word.key_on = ram[slotcount].key_on
       /\ word.key_off = ram[slotcount].key_off
  /\ slotstate \in Latched => keyonflag = KeyOn
  /\ \A s \in due : s <= slotcount

\* The slot of an access to a status register.
TheSlotOf == access.addr[1]

\* The word w has what the access writes and every key still wanted.
Carries(w) ==
  /\ w \in Word
  /\ w.cfg = access.data.cfg
  /\ access.data.key_on \/ wanted[TheSlotOf].key_on => w.key_on
  /\ access.data.key_off \/ wanted[TheSlotOf].key_off => w.key_off

BusTypeOK ==
  /\ busstate \in BusState
  /\ IF busstate = "IDLE" THEN access = NoAccess ELSE access \in Requests
  /\ regwrite \in BOOLEAN /\ syncfs \in BOOLEAN /\ syssync \in BOOLEAN

\* What the bus holds in each state.
BusInv ==
  /\ BusTypeOK
  /\ busstate \in {"IDLE", "DONE"} => ~regwrite
  /\ busstate = "REGWRITE" => regwrite
  /\ regwrite \/ busstate = "REGRMD" => access.write
  /\ regwrite /\ ~System => Carries(rmdwork)
  /\ busstate = "REGREAD" /\ ~System =>
       extq = ram[TheSlotOf] /\ (regwrite => rmdwork = ram[TheSlotOf])
  /\ busstate = "REGREAD" /\ System /\ regwrite => syssync

WantedType ==
  wanted \in [Slots -> [key_on : BOOLEAN, key_off : BOOLEAN, cfg : Configs]]

CoreInv == EngineInv /\ BusInv /\ WantedType /\ ReadFresh /\ WritesKept

-----------------------------------------------------------------------------
(* The register file.                                                      *)

\* Of an access: it is about the system or about one slot's status.
LEMMA AccessForm ==
  ASSUME BusTypeOK
  PROVE  /\ busstate = "IDLE" => access = NoAccess
         /\ busstate # "IDLE" =>
              /\ access \in Requests
              /\ access.write \in BOOLEAN
              /\ ~System => /\ TheSlotOf \in Slots /\ access.addr = StatusReg(TheSlotOf)
                            /\ access.write => access.data \in Word
              /\ System => access.addr = SyncReg
<1>1. CASE busstate = "IDLE"  BY <1>1 DEF BusTypeOK
<1>2. CASE busstate # "IDLE"
  <2>1. access \in Requests  BY <1>2 DEF BusTypeOK
  <2>2. /\ access.write \in BOOLEAN
        /\ access.addr = SyncReg \/ \E s \in Slots : access.addr = StatusReg(s)
        /\ access.write /\ access.addr # SyncReg => access.data \in Word
    BY <2>1, RequestsAssumption
  <2>3. CASE access.addr = SyncReg
    BY <1>2, <2>1, <2>2, <2>3 DEF System, SyncReg, TheSlotOf
  <2>4. ASSUME NEW s \in Slots, access.addr = StatusReg(s)
        PROVE  /\ ~System /\ TheSlotOf = s /\ access.addr # SyncReg
    BY <2>4, SlotMaxAssumption DEF System, StatusReg, SyncReg, TheSlotOf, Slots
  <2> QED  BY <1>2, <2>1, <2>2, <2>3, <2>4
<1> QED  BY <1>1, <1>2

\* A status word, by its fields.
LEMMA WordForm ==
  ASSUME NEW w \in Word
  PROVE  /\ w.busy \in BOOLEAN /\ w.key_on \in BOOLEAN /\ w.key_off \in BOOLEAN
         /\ w.irqflag \in BOOLEAN /\ w.cfg \in Configs
         /\ w.cfg \in [ConfigBits -> BOOLEAN]
BY ConfigsAssumption DEF Word

\* A word with the fields that a write of the CPU changes given.
Changed(w, n, f, i, c) ==
  [w EXCEPT !.key_on = n, !.key_off = f, !.irqflag = i, !.cfg = c]

\* Such a word is a status word with these fields.
LEMMA ChangedForm ==
  ASSUME NEW w \in Word, NEW n \in BOOLEAN, NEW f \in BOOLEAN, NEW i \in BOOLEAN,
         NEW c \in Configs
  PROVE  /\ Changed(w, n, f, i, c) \in Word /\ Changed(w, n, f, i, c).cfg = c
         /\ Changed(w, n, f, i, c).key_on = n /\ Changed(w, n, f, i, c).key_off = f
BY DEF Word, Changed

\* A write merged into a status word.
LEMMA MergedForm ==
  ASSUME NEW old \in Word, NEW new \in Word
  PROVE  /\ Merged(old, new) \in Word
         /\ Merged(old, new).cfg = new.cfg
         /\ Merged(old, new).key_on = (old.key_on \/ new.key_on)
         /\ Merged(old, new).key_off = (old.key_off \/ new.key_off)
<1>1. /\ (old.key_on \/ new.key_on) \in BOOLEAN /\ (old.key_off \/ new.key_off) \in BOOLEAN
      /\ (old.irqflag /\ new.irqflag) \in BOOLEAN /\ new.cfg \in Configs
  BY WordForm, Zenon
<1>2. PICK n \in BOOLEAN, f \in BOOLEAN, i \in BOOLEAN :
        /\ n = (old.key_on \/ new.key_on) /\ f = (old.key_off \/ new.key_off)
        /\ i = (old.irqflag /\ new.irqflag)
  BY <1>1, Zenon
<1>3. Merged(old, new) = Changed(old, n, f, i, new.cfg)
  BY <1>2, Zenon DEF Merged, Changed
<1>4. /\ Merged(old, new) \in Word /\ Merged(old, new).cfg = new.cfg
      /\ Merged(old, new).key_on = n /\ Merged(old, new).key_off = f
  BY <1>1, <1>3, ChangedForm
<1> QED  BY <1>2, <1>4, Zenon

\* The bus writes a word that Carries the access, to the slot of the access.
LEMMA CpuWriteForm ==
  ASSUME BusInv, NEW s \in Slots, CpuWrites(s)
  PROVE  /\ busstate # "IDLE" /\ ~System /\ TheSlotOf = s
         /\ access.write /\ access.data \in Word
         /\ Carries(rmdwork) /\ slotcount # s
<1>1. busstate # "IDLE" /\ access.write
  BY DEF BusInv, CpuWrites
<1>2. access.addr = StatusReg(s)
  BY DEF CpuWrites
<1>3. ~System /\ TheSlotOf = s
  BY <1>2, SlotMaxAssumption DEF System, StatusReg, TheSlotOf, Slots
<1> QED
  BY <1>1, <1>3, AccessForm DEF BusInv, CpuWrites, Locked

\* The fields that the hardware alone changes, changed.
LEMMA TwoFields ==
  ASSUME NEW w \in Word, NEW b \in BOOLEAN, NEW i \in BOOLEAN
  PROVE  LET x == [w EXCEPT !.busy = b, !.irqflag = i] IN
         x \in Word /\ x.cfg = w.cfg /\ x.key_on = w.key_on /\ x.key_off = w.key_off
BY DEF Word

\* The engine writes back a word with the settings it read.
LEMMA WrittenBackForm ==
  ASSUME EngineInv, slotstate = "REGWRITE"
  PROVE  /\ WrittenBack \in Word
         /\ WrittenBack.cfg = word.cfg
         /\ WrittenBack.key_on = (word.key_on /\ ~keyonflag)
         /\ WrittenBack.key_off = (word.key_off /\ ~keyoffflag)
<1>1. word \in Word  BY DEF EngineInv, EngineTypeOK, Loaded, Latched
<1>2. keyonflag \in BOOLEAN /\ keyoffflag \in BOOLEAN  BY DEF EngineInv, EngineTypeOK
<1> QED  BY <1>1, <1>2 DEF Word, WrittenBack

\* The register file keeps status words; a locked slot keeps its word.
LEMMA RamStep ==
  ASSUME EngineInv, BusInv, ram' = RamNext
  PROVE  /\ ram' \in [Slots -> Word]
         /\ \A s \in Slots :
              /\ EngineWrites(s) => ram'[s] = WrittenBack /\ ~CpuWrites(s)
              /\ CpuWrites(s) => ram'[s] = rmdwork /\ ~EngineWrites(s)
              /\ ~CpuWrites(s) /\ ~EngineWrites(s) => ram'[s] = ram[s]
              /\ slotcount = s /\ slotstate # "REGWRITE" => ram'[s] = ram[s]
<1>1. ASSUME NEW s \in Slots, EngineWrites(s)
      PROVE  ram'[s] = WrittenBack /\ ~CpuWrites(s) /\ ram'[s] \in Word
  BY <1>1, CpuWriteForm, WrittenBackForm DEF EngineWrites, RamNext
<1>2. ASSUME NEW s \in Slots, CpuWrites(s)
      PROVE  ram'[s] = rmdwork /\ ~EngineWrites(s) /\ ram'[s] \in Word
  BY <1>2, CpuWriteForm DEF EngineWrites, RamNext, Carries
<1>3. ASSUME NEW s \in Slots, ~CpuWrites(s), ~EngineWrites(s)
      PROVE  ram'[s] = ram[s] /\ ram'[s] \in Word
  BY <1>3 DEF RamNext, EngineInv, EngineTypeOK
<1>4. ASSUME NEW s \in Slots, slotcount = s, slotstate # "REGWRITE"
      PROVE  ~CpuWrites(s) /\ ~EngineWrites(s)
  BY <1>4 DEF CpuWrites, Locked, EngineWrites
<1>5. ram' \in [Slots -> Word]
  <2>1. \A s \in Slots : ram'[s] \in Word  BY <1>1, <1>2, <1>3
  <2>2. ram' = [s \in Slots |-> ram'[s]]  BY DEF RamNext
  <2> QED  BY <2>1, <2>2
<1> QED  BY <1>1, <1>2, <1>3, <1>4, <1>5

-----------------------------------------------------------------------------
(* The slot engine.                                                        *)

\* Whether a key on counts, and the engine's own decision, are BOOLEAN.
LEMMA KeyOnType ==
  ASSUME EngineTypeOK, slotstate \in Loaded
  PROVE  KeyOn \in BOOLEAN /\ KeyOff \in BOOLEAN
<1>1. word \in Word  BY DEF EngineTypeOK
<1> QED  BY <1>1, WordForm DEF KeyOn, KeyOff

\* An edge with the sync signal: the engine starts over with the last slot.
LEMMA BeginStep ==
  ASSUME EngineInv, BusInv, ram' = RamNext, Begin(syssync), due' \subseteq Slots
  PROVE  EngineInv'
<1>1. ram' \in [Slots -> Word]  BY RamStep
<1>2. syssync \in BOOLEAN  BY DEF BusInv, BusTypeOK
<1>3. SlotMax \in Slots /\ SlotMax \in 0 .. SlotMax /\ \A s \in Slots : s <= SlotMax
  BY SlotMaxAssumption DEF Slots
<1> QED
  BY <1>1, <1>2, <1>3
  DEF Begin, DropWord, EngineInv, EngineTypeOK, SlotState, Loaded, Latched

\* What the steps leave alone that only touch the state and the flags.
LEMMA EngineKeeps ==
  ASSUME EngineInv, BusInv, ram' = RamNext, slotstate # "REGWRITE",
         slotcount' = slotcount, slotcount \in Slots
  PROVE  ram' \in [Slots -> Word] /\ ram'[slotcount'] = ram[slotcount]
BY RamStep

\* The word that the engine's port has read is the one in the register file.
LEMMA EngineReadsRam ==
  ASSUME slotcount \in Slots, regq' \in EngineReads(slotcount)
  PROVE  regq' = ram[slotcount]
BY DEF EngineReads, CpuWrites, Locked

\* The steps before the write back.
LEMMA BeforeWriteStep ==
  ASSUME EngineInv, BusInv, ram' = RamNext, due' \subseteq due,
         Enter \/ LoadStatus \/ LatchKeys \/ LoadVolume \/ DecideStop \/ Ctrl \/ ReadRom
  PROVE  EngineInv'
<1> USE DEF EngineInv, EngineTypeOK, SlotState, Loaded, Latched
<1>1. slotstate \notin {"REGWRITE", "HALT", "WAVEADD"} /\ slotcount' = slotcount
  BY DEF Enter, LoadStatus, LatchKeys, LoadVolume, DecideStop, Ctrl, ReadRom, Go
<1>2. slotcount \in Slots  BY <1>1
<1>3. ram' \in [Slots -> Word] /\ ram'[slotcount'] = ram[slotcount] /\ ram[slotcount] \in Word
  BY <1>1, <1>2, EngineKeeps
<1>4. due' \subseteq Slots /\ \A s \in due' : s <= slotcount'
  BY <1>1
<1>5. CASE Enter
  BY <1>1, <1>2, <1>3, <1>4, <1>5, EngineReadsRam DEF Enter, Go, KeepWord
<1>6. CASE LoadStatus
  BY <1>1, <1>2, <1>3, <1>4, <1>6 DEF LoadStatus, Go
<1>7. CASE LatchKeys
  <2>1. KeyOn \in BOOLEAN /\ KeyOff \in BOOLEAN
    BY <1>7, KeyOnType DEF LatchKeys, Go
  <2>2. KeyOn' = KeyOn  BY <1>7 DEF LatchKeys, KeyOn
  <2> QED
    BY <1>1, <1>2, <1>3, <1>4, <1>7, <2>1, <2>2 DEF LatchKeys, Go
<1>8. CASE LoadVolume \/ ReadRom
  <2>1. KeyOn' = KeyOn  BY <1>8 DEF LoadVolume, ReadRom, KeyOn, KeepWord
  <2> QED
    BY <1>1, <1>2, <1>3, <1>4, <1>8, <2>1 DEF LoadVolume, ReadRom, Go, KeepWord
<1>9. CASE DecideStop
  <2>1. KeyOn' = KeyOn  BY <1>9 DEF DecideStop, KeyOn
  <2>2. KeyOff \in BOOLEAN  BY <1>9, KeyOnType DEF DecideStop, Go
  <2>3. stopflag' \in BOOLEAN /\ endflag' \in BOOLEAN
    BY <1>9, <2>2 DEF DecideStop
  <2> QED
    BY <1>1, <1>2, <1>3, <1>4, <1>9, <2>1, <2>3 DEF DecideStop, Go
<1>10. CASE Ctrl
  <2>1. word \in Word  BY <1>10 DEF Ctrl
  <2>2. /\ word' \in Word /\ word'.cfg = word.cfg
        /\ word'.key_on = word.key_on /\ word'.key_off = word.key_off
    <3> DEFINE b == Starts \/ (word.busy /\ ~stopflag /\ (Ends => word.cfg["loop"]))
               i == word.irqflag \/ (Ends /\ word.cfg["irqena"])
    <3>1. word' = [word EXCEPT !.busy = b, !.irqflag = i]
      BY <1>10, Zenon DEF Ctrl
    <3>2. b \in BOOLEAN /\ i \in BOOLEAN
      BY <2>1, WordForm, Zenon
    <3> QED  BY <2>1, <3>1, <3>2, TwoFields, ZenonT(40)
  <2>3. KeyOn' = KeyOn  BY <1>10, <2>2 DEF Ctrl, KeyOn
  <2> QED
    BY <1>1, <1>2, <1>3, <1>4, <1>10, <2>2, <2>3 DEF Ctrl
<1> QED  BY <1>5, <1>6, <1>7, <1>8, <1>9, <1>10

\* A key on of the slot that is written back counts no more.
LEMMA WriteTakesKey ==
  ASSUME EngineInv, BusInv, ram' = RamNext, slotstate = "REGWRITE", syncreg' = syncreg,
         NEW s \in Slots, slotcount = s
  PROVE  ~ Countable(s)'
<1>1. ram'[s] = WrittenBack
  BY RamStep DEF EngineWrites
<1>2. /\ ram'[s].key_on = (word.key_on /\ ~keyonflag)
      /\ ram'[s].cfg = word.cfg
  BY <1>1, WrittenBackForm
<1>3. keyonflag = KeyOn  BY DEF EngineInv, Latched
<1> QED  BY <1>2, <1>3 DEF Countable, KeyOn

\* The write back and the step to the next slot.
LEMMA AfterWriteStep ==
  ASSUME EngineInv, BusInv, ram' = RamNext,
         due' = {s \in Slots : Countable(s)' /\ s \in due},
         WriteSlot \/ AddWave \/ Rest
  PROVE  EngineInv'
<1> USE DEF EngineInv, EngineTypeOK, SlotState, Loaded, Latched
<1>1. ram' \in [Slots -> Word]  BY RamStep
<1>2. CASE WriteSlot
  <2>1. slotstate = "REGWRITE" /\ slotcount \in Slots /\ slotcount' = slotcount - 1
        /\ syncreg' = syncreg /\ slotstate' = "WAVEADD"
    BY <1>2 DEF WriteSlot, Go
  <2>2. slotcount' \in 0 .. SlotMax
    BY <2>1, SlotMaxAssumption DEF Slots
  <2>3. ASSUME NEW s \in due'
        PROVE  s <= slotcount'
    <3>1. s \in Slots /\ s \in due /\ Countable(s)'  OBVIOUS
    <3>2. s # slotcount  BY <2>1, <3>1, WriteTakesKey
    <3> QED  BY <2>1, <3>1, <3>2, SlotMaxAssumption DEF Slots
  <2> QED  BY <1>1, <1>2, <2>1, <2>2, <2>3 DEF WriteSlot, Go, DropWord
<1>3. CASE AddWave
  <2>1. slotcount # 0 => slotcount \in Slots
    BY SlotMaxAssumption DEF Slots
  <2>2. slotcount \in Slots => ram'[slotcount] = ram[slotcount]
    BY <1>3, RamStep DEF AddWave
  <2> QED  BY <1>1, <1>3, <2>1, <2>2, EngineReadsRam DEF AddWave, KeepWord
<1>4. CASE Rest  BY <1>1, <1>4 DEF Rest
<1> QED  BY <1>2, <1>3, <1>4

\* Every edge keeps what is known of the engine.
LEMMA EngineStep ==
  ASSUME EngineInv, BusInv, SlotClock(syncfs, syssync), Observe
  PROVE  EngineInv'
<1>1. ram' = RamNext  BY DEF SlotClock
<1>2. due' = {s \in Slots : Countable(s)' /\ (syncfs \/ s \in due)}  BY DEF Observe
<1>3. CASE syncfs
  BY <1>1, <1>2, <1>3, BeginStep DEF SlotClock
<1>4. CASE ~syncfs
  <2>1. due' = {s \in Slots : Countable(s)' /\ s \in due}  BY <1>2, <1>4
  <2>2. SlotStep  BY <1>4 DEF SlotClock
  <2> QED  BY <1>1, <2>1, <2>2, BeforeWriteStep, AfterWriteStep DEF SlotStep
<1> QED  BY <1>3, <1>4

-----------------------------------------------------------------------------
(* What the CPU wants.                                                     *)

\* The clock as the bus sees it: one of its actions, and what the edge does to
\* the register file, the system's bit and the observers.
EdgeOf(Action) ==
  /\ Action
  /\ ram' = RamNext /\ syssync' = SyssyncNext /\ ExtRead /\ SyncSignal
  /\ wanted' = [s \in Slots |-> WantedNext(s)]

\* What is wanted of each slot is in the register file behind every edge; only
\* a write of the CPU asks for a key that was not wanted before.
LEMMA WantedStep ==
  ASSUME CoreInv, ram' = RamNext, wanted' = [s \in Slots |-> WantedNext(s)]
  PROVE  /\ WantedType'
         /\ \A s \in Slots :
              /\ ram'[s].cfg = wanted'[s].cfg
              /\ wanted'[s].key_on => ram'[s].key_on
              /\ wanted'[s].key_off => ram'[s].key_off
              /\ wanted'[s].key_on =>
                   wanted[s].key_on \/ (CpuWrites(s) /\ access.data.key_on)
              /\ wanted'[s].key_off =>
                   wanted[s].key_off \/ (CpuWrites(s) /\ access.data.key_off)
<1> DEFINE W == [key_on : BOOLEAN, key_off : BOOLEAN, cfg : Configs]
<1>1. \A s \in Slots :
        /\ wanted[s] \in W
        /\ ram[s].cfg = wanted[s].cfg
        /\ wanted[s].key_on => ram[s].key_on
        /\ wanted[s].key_off => ram[s].key_off
        /\ wanted'[s] = WantedNext(s)
  BY DEF CoreInv, WantedType, WritesKept
<1>2. ASSUME NEW s \in Slots
      PROVE  /\ wanted'[s] \in W
             /\ ram'[s].cfg = wanted'[s].cfg
             /\ wanted'[s].key_on => ram'[s].key_on
             /\ wanted'[s].key_off => ram'[s].key_off
             /\ wanted'[s].key_on =>
                  wanted[s].key_on \/ (CpuWrites(s) /\ access.data.key_on)
             /\ wanted'[s].key_off =>
                  wanted[s].key_off \/ (CpuWrites(s) /\ access.data.key_off)
  <2>1. CASE CpuWrites(s)
    <3>1. ram'[s] = rmdwork  BY <2>1, RamStep DEF CoreInv
    <3>2. /\ TheSlotOf = s /\ access.data \in Word /\ Carries(rmdwork)
      BY <2>1, CpuWriteForm DEF CoreInv
    <3>3. wanted'[s] = [key_on  |-> wanted[s].key_on \/ access.data.key_on,
                        key_off |-> wanted[s].key_off \/ access.data.key_off,
                        cfg     |-> access.data.cfg]
      BY <1>1, <2>1 DEF WantedNext
    <3>4. /\ wanted[s].key_on \in BOOLEAN /\ wanted[s].key_off \in BOOLEAN
          /\ access.data.key_on \in BOOLEAN /\ access.data.key_off \in BOOLEAN
          /\ access.data.cfg \in Configs
      BY <1>1, <3>2, WordForm
    <3>5. /\ wanted'[s].key_on = (wanted[s].key_on \/ access.data.key_on)
          /\ wanted'[s].key_off = (wanted[s].key_off \/ access.data.key_off)
          /\ wanted'[s].cfg = access.data.cfg
      BY <3>3
    <3>6. wanted'[s] \in W
      <4>1. \A b, o \in BOOLEAN, c \in Configs :
              [key_on |-> b, key_off |-> o, cfg |-> c] \in W
        OBVIOUS
      <4> HIDE DEF W
      <4>2. /\ (wanted[s].key_on \/ access.data.key_on) \in BOOLEAN
            /\ (wanted[s].key_off \/ access.data.key_off) \in BOOLEAN
        BY <3>4, Zenon
      <4> QED  BY <3>3, <3>4, <4>1, <4>2, Zenon
    <3> QED  BY <2>1, <3>1, <3>2, <3>5, <3>6 DEF Carries
  <2>2. CASE ~CpuWrites(s) /\ EngineWrites(s)
    <3>1. ram'[s] = WrittenBack  BY <2>2, RamStep DEF CoreInv
    <3>2. slotstate = "REGWRITE" /\ slotcount = s  BY <2>2 DEF EngineWrites
    <3>3. /\ ram'[s].cfg = ram[s].cfg
          /\ ram'[s].key_on = (ram[s].key_on /\ ~keyonflag)
          /\ ram'[s].key_off = (ram[s].key_off /\ ~keyoffflag)
      BY <3>1, <3>2, WrittenBackForm DEF CoreInv, EngineInv, Loaded, Latched
    <3>4. wanted'[s] = [wanted[s] EXCEPT !.key_on = @ /\ ~keyonflag,
                                         !.key_off = @ /\ ~keyoffflag]
      BY <1>1, <2>2 DEF WantedNext
    <3>5. /\ wanted'[s] \in W /\ wanted'[s].cfg = wanted[s].cfg
          /\ wanted'[s].key_on = (wanted[s].key_on /\ ~keyonflag)
          /\ wanted'[s].key_off = (wanted[s].key_off /\ ~keyoffflag)
      BY <1>1, <3>4
    <3> QED  BY <1>1, <2>2, <3>3, <3>5
  <2>3. CASE ~CpuWrites(s) /\ ~EngineWrites(s)
    <3>1. ram'[s] = ram[s]  BY <2>3, RamStep DEF CoreInv
    <3>2. wanted'[s] = wanted[s]  BY <1>1, <2>3 DEF WantedNext
    <3> QED  BY <1>1, <2>3, <3>1, <3>2
  <2> QED  BY <2>1, <2>2, <2>3
<1>3. wanted' \in [Slots -> W]
  <2>1. wanted' = [s \in Slots |-> wanted'[s]]  BY DEF CoreInv
  <2> QED  BY <1>2, <2>1
<1> QED  BY <1>2, <1>3 DEF WantedType

\* The word to be written keeps Carrying the access.
LEMMA CarriesStep ==
  ASSUME CoreInv, ram' = RamNext, wanted' = [s \in Slots |-> WantedNext(s)],
         busstate # "IDLE", access' = access, rmdwork' = rmdwork,
         access.write, ~System, Carries(rmdwork)
  PROVE  Carries(rmdwork)'
<1>1. TheSlotOf \in Slots /\ TheSlotOf' = TheSlotOf
  BY AccessForm DEF CoreInv, BusInv, TheSlotOf
<1> QED  BY <1>1, WantedStep DEF Carries

\* What holds of the bus whatever its action is.
LEMMA BusTypeStep ==
  ASSUME CoreInv, busstate # "IDLE", access' = access, SyncSignal,
         syssync' = SyssyncNext, busstate' \in BusState \ {"IDLE"}, regwrite' \in BOOLEAN
  PROVE  BusTypeOK' /\ System' = System /\ TheSlotOf' = TheSlotOf
<1>1. BusTypeOK  BY DEF CoreInv, BusInv
<1>2. syncfs' \in BOOLEAN  BY DEF SyncSignal
<1>3. syssync' \in BOOLEAN  BY <1>1, Zenon DEF SyssyncNext, BusTypeOK, System
<1>4. access' \in Requests  BY <1>1 DEF BusTypeOK
<1> QED  BY <1>2, <1>3, <1>4 DEF BusTypeOK, System, TheSlotOf

-----------------------------------------------------------------------------
(* The bus.                                                                *)

\* A register that is not locked is not written by the engine at this edge; a
\* bus that still has its write enable on writes it.
LEMMA Unlocked ==
  ASSUME CoreInv, ram' = RamNext, busstate # "IDLE", ~System, ~RegLock
  PROVE  /\ TheSlotOf \in Slots /\ ~EngineWrites(TheSlotOf)
         /\ ram'[TheSlotOf] = IF regwrite THEN rmdwork ELSE ram[TheSlotOf]
<1>1. TheSlotOf \in Slots /\ access.addr = StatusReg(TheSlotOf)
  BY AccessForm DEF CoreInv, BusInv
<1>2. ~Locked(TheSlotOf)
  BY DEF RegLock, TheSlotOf
<1>3. ~EngineWrites(TheSlotOf)
  BY <1>2 DEF EngineWrites, Locked
<1>4. CpuWrites(TheSlotOf) <=> regwrite
  BY <1>1, <1>2 DEF CpuWrites
<1> QED  BY <1>1, <1>3, <1>4, RamStep DEF CoreInv

\* IDLE: an access is taken over.
LEMMA AcceptStep ==
  ASSUME CoreInv, NEW request \in Requests \cup {NoAccess}, EdgeOf(Accept(request))
  PROVE  BusInv' /\ ReadFresh' /\ WritesKept'
<1>1. /\ busstate = "IDLE" /\ busstate' \in {"IDLE", "START"}
      /\ regwrite' = FALSE /\ access' = request
      /\ busstate' = IF request = NoAccess THEN "IDLE" ELSE "START"
  BY DEF EdgeOf, Accept, CoreInv, BusInv
<1>2. syncfs' \in BOOLEAN  BY DEF EdgeOf, SyncSignal
<1>3. syssync' \in BOOLEAN
  BY <1>1, Zenon DEF EdgeOf, SyssyncNext, CoreInv, BusInv, BusTypeOK
<1>4. BusTypeOK'  BY <1>1, <1>2, <1>3 DEF BusTypeOK, BusState
<1>5. BusInv' /\ ReadFresh'  BY <1>1, <1>4 DEF BusInv, ReadFresh
<1> QED  BY <1>1, <1>5, WantedStep DEF EdgeOf, WritesKept

\* START: the read finds the register as it will be behind this edge, with the
\* write that is still to be made, if there is one.
LEMMA LookupStep ==
  ASSUME CoreInv, EdgeOf(Lookup(RegLock))
  PROVE  BusInv' /\ ReadFresh' /\ WritesKept'
<1>1. /\ busstate = "START" /\ busstate' = IF RegLock THEN "RETRY" ELSE "REGREAD"
      /\ access' = access /\ rmdwork' = rmdwork /\ regwrite' = regwrite
      /\ busstate' \in BusState \ {"IDLE"} /\ ram' = RamNext
      /\ busstate' \in {"RETRY", "REGREAD"}
  BY DEF EdgeOf, Lookup, Proceed, BusState
<1>2. regwrite' \in BOOLEAN  BY <1>1 DEF CoreInv, BusInv, BusTypeOK
<1>3. BusTypeOK' /\ System' = System /\ TheSlotOf' = TheSlotOf
  BY <1>1, <1>2, BusTypeStep DEF EdgeOf
<1>4. regwrite' /\ ~System' => Carries(rmdwork)'
  BY <1>1, <1>3, CarriesStep DEF EdgeOf, CoreInv, BusInv
<1>5. ASSUME ~RegLock, ~System
      PROVE  extq' = ram'[TheSlotOf] /\ (regwrite' => rmdwork' = ram'[TheSlotOf])
  <2>1. TheSlotOf \in Slots /\ ~EngineWrites(TheSlotOf)
    BY <1>1, <1>5, Unlocked
  <2>2. extq' = RamNext[TheSlotOf]
    BY <1>1, <1>5, <2>1 DEF EdgeOf, ExtRead, CpuReads, TheSlotOf
  <2> QED  BY <1>1, <1>5, <2>2, Unlocked
<1>6. ~RegLock /\ System /\ regwrite' => syssync'
  BY <1>1, Zenon DEF EdgeOf, SyssyncNext, RegLock
<1>7. regwrite' => access'.write  BY <1>1 DEF CoreInv, BusInv
<1>8. BusInv'  BY <1>1, <1>3, <1>4, <1>5, <1>6, <1>7 DEF BusInv
<1>9. ReadFresh'  BY <1>1 DEF ReadFresh
<1> QED  BY <1>1, <1>8, <1>9, WantedStep DEF EdgeOf, WritesKept

\* REGREAD: what is latched is what the register holds, unless it is locked.
LEMMA FetchStep ==
  ASSUME CoreInv, EdgeOf(Fetch(RegLock, RegData))
  PROVE  BusInv' /\ ReadFresh' /\ WritesKept'
<1>1. /\ busstate = "REGREAD" /\ access' = access /\ regwrite' = regwrite
      /\ rmdwork' = RegData /\ ram' = RamNext
      /\ busstate' = IF RegLock THEN "RETRY"
                     ELSE IF access.write THEN "REGRMD" ELSE "DONE"
  BY DEF EdgeOf, Fetch, Proceed
<1>2. /\ busstate' \in BusState \ {"IDLE"} /\ regwrite' \in BOOLEAN
      /\ access.write \in BOOLEAN
  BY <1>1, AccessForm DEF CoreInv, BusInv, BusTypeOK, BusState
<1>3. BusTypeOK' /\ System' = System /\ TheSlotOf' = TheSlotOf
  BY <1>1, <1>2, BusTypeStep DEF EdgeOf
<1>4. regwrite' => access.write
  BY <1>1 DEF CoreInv, BusInv
<1>5. ~System => rmdwork' = ram[TheSlotOf] /\ (regwrite => rmdwork' = rmdwork)
  BY <1>1 DEF RegData, CoreInv, BusInv
<1>6. regwrite' /\ ~System' => Carries(rmdwork)'
  BY <1>1, <1>3, <1>4, <1>5, CarriesStep DEF EdgeOf, CoreInv, BusInv
<1>7. BusInv'
  BY <1>1, <1>2, <1>3, <1>4, <1>6 DEF BusInv
<1>8. ASSUME ~RegLock
      PROVE  rmdwork' = IF System THEN [sync |-> syssync'] ELSE ram'[TheSlotOf]
  <2>1. CASE System
    <3>1. ~syncfs  BY <1>8, <2>1 DEF RegLock
    <3>2. syssync \in BOOLEAN /\ (regwrite => syssync)
      BY <1>1, <2>1 DEF CoreInv, BusInv, BusTypeOK
    <3>3. syssync' = syssync
      BY <2>1, <3>1, <3>2, Zenon DEF EdgeOf, SyssyncNext
    <3> QED  BY <1>1, <2>1, <3>3 DEF RegData
  <2>2. CASE ~System
    BY <1>1, <1>5, <1>8, <2>2, Unlocked
  <2> QED  BY <2>1, <2>2
<1>9. ReadFresh'
  BY <1>1, <1>3, <1>8 DEF ReadFresh, TheSlotOf
<1> QED  BY <1>1, <1>2, <1>7, <1>9, WantedStep DEF EdgeOf, WritesKept

\* REGRMD: the word to be written is made of the one the register holds.
LEMMA ModifyStep ==
  ASSUME CoreInv, EdgeOf(Modify(RegLock))
  PROVE  BusInv' /\ ReadFresh' /\ WritesKept'
<1>1. /\ busstate = "REGRMD" /\ access' = access /\ regwrite' = TRUE
      /\ rmdwork' = Modified /\ ram' = RamNext /\ access.write
      /\ busstate' = IF RegLock THEN "RETRY" ELSE "REGWRITE"
  BY DEF EdgeOf, Modify, Proceed, CoreInv, BusInv
<1>2. busstate' \in BusState \ {"IDLE"}
  BY <1>1 DEF BusState
<1>3. BusTypeOK' /\ System' = System /\ TheSlotOf' = TheSlotOf
  BY <1>1, <1>2, BusTypeStep DEF EdgeOf
<1>4. ASSUME ~System
      PROVE  Carries(rmdwork)'
  <2>1. /\ TheSlotOf \in Slots /\ access.addr = StatusReg(TheSlotOf)
        /\ access.data \in Word
    BY <1>1, <1>4, AccessForm DEF CoreInv, BusInv
  <2>2. rmdwork = ram[TheSlotOf] /\ rmdwork \in Word
    BY <1>1, <1>4, <2>1 DEF CoreInv, ReadFresh, TheSlotOf, EngineInv, EngineTypeOK
  <2>3. rmdwork' = Merged(rmdwork, access.data)
    BY <1>1, <2>1 DEF Modified, StatusReg
  <2>4. /\ rmdwork' \in Word /\ rmdwork'.cfg = access.data.cfg
        /\ rmdwork'.key_on = (rmdwork.key_on \/ access.data.key_on)
        /\ rmdwork'.key_off = (rmdwork.key_off \/ access.data.key_off)
    BY <2>1, <2>2, <2>3, MergedForm
  <2>5. /\ wanted[TheSlotOf].key_on => rmdwork.key_on
        /\ wanted[TheSlotOf].key_off => rmdwork.key_off
    BY <2>1, <2>2 DEF CoreInv, WritesKept
  <2>6. /\ wanted'[TheSlotOf].key_on => rmdwork.key_on \/ access.data.key_on
        /\ wanted'[TheSlotOf].key_off => rmdwork.key_off \/ access.data.key_off
    BY <1>1, <2>1, <2>5, WantedStep DEF EdgeOf
  <2> QED  BY <1>1, <1>3, <2>4, <2>6 DEF Carries
<1>5. BusInv'  BY <1>1, <1>2, <1>3, <1>4 DEF BusInv
<1>6. ReadFresh'  BY <1>1 DEF ReadFresh
<1> QED  BY <1>1, <1>5, <1>6, WantedStep DEF EdgeOf, WritesKept

\* REGWRITE: the word is in the register file when the CPU is let go.
LEMMA WriteBackStep ==
  ASSUME CoreInv, EdgeOf(WriteBack(RegLock))
  PROVE  BusInv' /\ ReadFresh' /\ WritesKept'
<1>1. /\ busstate = "REGWRITE" /\ access' = access /\ regwrite' = FALSE
      /\ rmdwork' = rmdwork /\ ram' = RamNext /\ regwrite /\ access.write
      /\ busstate' = IF RegLock THEN "RETRY" ELSE "DONE"
  BY DEF EdgeOf, WriteBack, Proceed, CoreInv, BusInv
<1>2. busstate' \in BusState \ {"IDLE"}
  BY <1>1 DEF BusState
<1>3. BusTypeOK' /\ System' = System /\ TheSlotOf' = TheSlotOf
  BY <1>1, <1>2, BusTypeStep DEF EdgeOf
<1>4. BusInv'  BY <1>1, <1>2, <1>3 DEF BusInv
<1>5. ReadFresh'  BY <1>1 DEF ReadFresh
<1>6. ~RegLock /\ ~System => ram'[TheSlotOf].cfg = access.data.cfg
  BY <1>1, Unlocked DEF CoreInv, BusInv, Carries
<1> QED  BY <1>1, <1>3, <1>4, <1>5, <1>6, WantedStep DEF EdgeOf, WritesKept, TheSlotOf

\* DONE: the access is over.
LEMMA FinishStep ==
  ASSUME CoreInv, EdgeOf(Finish)
  PROVE  BusInv' /\ ReadFresh' /\ WritesKept'
<1>1. /\ busstate = "DONE" /\ busstate' = "IDLE" /\ access' = NoAccess
      /\ regwrite' = FALSE
  BY DEF EdgeOf, Finish, CoreInv, BusInv
<1>2. syncfs' \in BOOLEAN  BY DEF EdgeOf, SyncSignal
<1>3. syssync' \in BOOLEAN
  BY <1>1, Zenon DEF EdgeOf, SyssyncNext, CoreInv, BusInv, BusTypeOK
<1>4. BusTypeOK'  BY <1>1, <1>2, <1>3 DEF BusTypeOK, BusState
<1>5. BusInv' /\ ReadFresh'  BY <1>1, <1>4 DEF BusInv, ReadFresh
<1> QED  BY <1>1, <1>5, WantedStep DEF EdgeOf, WritesKept

\* RETRY: a write enable left on keeps the word that Carries the access.
LEMMA RetryStep ==
  ASSUME CoreInv, EdgeOf(Retry(RegLock))
  PROVE  BusInv' /\ ReadFresh' /\ WritesKept'
<1>1. /\ busstate = "RETRY" /\ busstate' \in {"RETRY", "START"}
      /\ access' = access /\ rmdwork' = rmdwork /\ regwrite' = regwrite
  BY DEF EdgeOf, Retry
<1>2. busstate' \in BusState \ {"IDLE"} /\ regwrite' \in BOOLEAN
  BY <1>1 DEF BusState, CoreInv, BusInv, BusTypeOK
<1>3. BusTypeOK' /\ System' = System /\ TheSlotOf' = TheSlotOf
  BY <1>1, <1>2, BusTypeStep DEF EdgeOf
<1>4. regwrite' => access'.write  BY <1>1 DEF CoreInv, BusInv
<1>5. regwrite' /\ ~System' => Carries(rmdwork)'
  BY <1>1, <1>3, <1>4, CarriesStep DEF EdgeOf, CoreInv, BusInv
<1>6. BusInv'  BY <1>1, <1>3, <1>4, <1>5 DEF BusInv
<1>7. ReadFresh'  BY <1>1 DEF ReadFresh
<1> QED  BY <1>1, <1>6, <1>7, WantedStep DEF EdgeOf, WritesKept

-----------------------------------------------------------------------------
(* The invariant.                                                          *)

\* One edge of the clock keeps CoreInv.
LEMMA CoreStep == CoreInv /\ [CoreNext]_corevars => CoreInv'
<1> SUFFICES ASSUME CoreInv, [CoreNext]_corevars
             PROVE  CoreInv'
  OBVIOUS
<1>1. CASE CoreNext
  <2>1. ram' = RamNext  BY <1>1 DEF CoreNext, SlotClock
  <2>2. PICK request \in Requests \cup {NoAccess} : BusClock(request, RegLock, RegData)
    BY <1>1 DEF CoreNext
  <2>3. /\ syssync' = SyssyncNext /\ ExtRead /\ SyncSignal
        /\ wanted' = [s \in Slots |-> WantedNext(s)]
    BY <1>1 DEF CoreNext, Observe
  <2>4. BusInv' /\ ReadFresh' /\ WritesKept'
    BY <2>1, <2>2, <2>3, AcceptStep, LookupStep, FetchStep, ModifyStep, WriteBackStep,
       FinishStep, RetryStep, Zenon DEF BusClock, EdgeOf
  <2>5. EngineInv'
    BY <1>1, EngineStep DEF CoreNext, CoreInv
  <2>6. WantedType'
    BY <1>1, <2>1, WantedStep DEF CoreNext, Observe
  <2> QED  BY <2>4, <2>5, <2>6 DEF CoreInv
<1>2. CASE UNCHANGED corevars
  BY <1>2 DEF CoreInv, EngineInv, EngineTypeOK, BusInv, BusTypeOK, WantedType, ReadFresh,
     WritesKept, corevars, busvars, slotvars, sysvars, System, TheSlotOf, Carries, KeyOn
<1> QED  BY <1>1, <1>2

\* The machines as they come out of the reset.
LEMMA CoreInitInv == CoreInit => CoreInv
<1> SUFFICES ASSUME CoreInit PROVE CoreInv
  OBVIOUS
<1> USE DEF CoreInit, BusReset, SlotReset
<1>1. ram \in [Slots -> Word]  BY CoreAssumption
<1>2. EngineInv
  <2>1. /\ syncreg \in BOOLEAN /\ stopflag \in BOOLEAN /\ endflag \in BOOLEAN
        /\ keyonflag \in BOOLEAN /\ keyoffflag \in BOOLEAN
    BY Zenon
  <2>2. slotstate \in SlotState /\ slotcount \in 0 .. SlotMax /\ due \subseteq Slots
    BY SlotMaxAssumption DEF SlotState
  <2>3. slotstate \notin Loaded /\ slotstate \notin Latched
    BY DEF Loaded, Latched
  <2>4. EngineTypeOK  BY <1>1, <2>1, <2>2, <2>3 DEF EngineTypeOK
  <2> QED  BY <2>3, <2>4 DEF EngineInv
<1>3. BusInv  BY DEF BusInv, BusTypeOK, BusState
<1>4. \A s \in Slots :
        /\ ram[s].key_on \in BOOLEAN /\ ram[s].key_off \in BOOLEAN
        /\ ram[s].cfg \in Configs
  BY <1>1, WordForm
<1>5. WantedType  BY <1>4 DEF WantedType, Wanted
<1>6. ReadFresh /\ WritesKept  BY DEF ReadFresh, WritesKept, Wanted
<1> QED  BY <1>2, <1>3, <1>5, <1>6 DEF CoreInv

\* CoreInv is an invariant of the core.
LEMMA CoreInvariant == CoreSpec => []CoreInv
BY CoreInitInv, CoreStep, PTL DEF CoreSpec

\* What the bus has read is what the register holds, when it hands it to the
\* CPU and when it merges a write into it: the lock and RETRY of
\* loreley_businterface.vhd suffice against the other port.
THEOREM ReadFreshHolds == CoreSpec => []ReadFresh
<1>1. CoreInv => ReadFresh  BY DEF CoreInv
<1> QED  BY <1>1, CoreInvariant, PTL

\* The engine, which writes back whole words, loses neither the settings the
\* CPU writes nor a key, and the CPU is let go when its write is there.
THEOREM WritesKeptHolds == CoreSpec => []WritesKept
<1>1. CoreInv => WritesKept  BY DEF CoreInv
<1> QED  BY <1>1, CoreInvariant, PTL

\* A key on that is up when a sample begins and that counts has been taken by
\* the time the engine of loreley_slotengine.vhd halts.
THEOREM KeysPlayedHolds == CoreSpec => []KeysPlayed
<1>1. ASSUME CoreInv PROVE KeysPlayed
  <2>1. slotstate = "HALT" => \A s \in due : s \in 1 .. SlotMax /\ s <= 0
    BY <1>1 DEF CoreInv, EngineInv, EngineTypeOK, Slots
  <2> QED  BY <2>1, SlotMaxAssumption DEF KeysPlayed
<1> QED  BY <1>1, CoreInvariant, PTL

-----------------------------------------------------------------------------
(* The interrupt encoder.                                                  *)

\* The lowest bit of word i, as it leaves the second stage.
FirstOf(i) == WordStage(ByteStage(WordOf(i)))

\* What the encoders hold in each state of the scan.
PipeInv ==
  /\ scan = "ENC0" => irq32bit = WordOf(0)
  /\ scan = "ENC1" => irq32bit = WordOf(1) /\ bytefirst = ByteStage(WordOf(0))
  /\ scan = "DET0" => /\ irq32bit = WordOf(2)
                      /\ bytefirst = ByteStage(WordOf(1))
                      /\ wordfirst = FirstOf(0)
  /\ scan = "DET1" => /\ irq32bit = WordOf(3)
                      /\ bytefirst = ByteStage(WordOf(2))
                      /\ wordfirst = FirstOf(1)
                      /\ WordOf(0) = {}
  /\ scan = "DET2" => /\ bytefirst = ByteStage(WordOf(3))
                      /\ wordfirst = FirstOf(2)
                      /\ WordOf(0) = {} /\ WordOf(1) = {}
  /\ scan = "DET3" => /\ wordfirst = FirstOf(3)
                      /\ WordOf(0) = {} /\ WordOf(1) = {} /\ WordOf(2) = {}

IrqInv == TypeOK /\ PipeInv /\ EncoderShows

-----------------------------------------------------------------------------
(* The encoders.                                                           *)

\* A byte with a bit has a lowest one, which is what the byte encoder finds.
LEMMA LowestOfByte ==
  ASSUME NEW byte \in SUBSET (0..7), byte # {}
  PROVE  Lowest(byte) \in byte /\ \A c \in byte : Lowest(byte) <= c
<1>1. \E b \in byte : \A c \in byte : b <= c
  <2>1. CASE 0 \in byte  BY <2>1
  <2>2. CASE 0 \notin byte /\ 1 \in byte  BY <2>2
  <2>3. CASE 0 \notin byte /\ 1 \notin byte /\ 2 \in byte  BY <2>3
  <2>4. CASE /\ 0 \notin byte /\ 1 \notin byte /\ 2 \notin byte
             /\ 3 \in byte
    BY <2>4
  <2>5. CASE /\ 0 \notin byte /\ 1 \notin byte /\ 2 \notin byte
             /\ 3 \notin byte /\ 4 \in byte
    BY <2>5
  <2>6. CASE /\ 0 \notin byte /\ 1 \notin byte /\ 2 \notin byte
             /\ 3 \notin byte /\ 4 \notin byte /\ 5 \in byte
    BY <2>6
  <2>7. CASE /\ 0 \notin byte /\ 1 \notin byte /\ 2 \notin byte
             /\ 3 \notin byte /\ 4 \notin byte /\ 5 \notin byte
    <3>1. \A c \in byte : c = 6 \/ c = 7
      BY <2>7
    <3>2. CASE 6 \in byte  BY <3>1, <3>2
    <3>3. CASE 6 \notin byte /\ 7 \in byte  BY <3>1, <3>3
    <3> QED  BY <3>1, <3>2, <3>3
  <2> QED  BY <2>1, <2>2, <2>3, <2>4, <2>5, <2>6, <2>7
<1> QED  BY <1>1 DEF Lowest

\* The two stages fit their registers.
LEMMA StageTypes ==
  ASSUME NEW w \in SUBSET (0..31)
  PROVE  ByteStage(w) \in [0..3 -> 0..7 \cup {NoBit}]
<1>1. ASSUME NEW k \in 0..3, ByteOf(w, k) # {}
      PROVE  Lowest(ByteOf(w, k)) \in 0..7
  BY <1>1, LowestOfByte DEF ByteOf
<1> QED  BY <1>1 DEF ByteStage

\* Of bytes of which one has a bit, the second stage picks the lowest such.
LEMMA LowestByte ==
  ASSUME NEW bytes \in [0..3 -> 0..7 \cup {NoBit}],
         ~ \A k \in 0..3 : bytes[k] = NoBit
  PROVE  \E k \in 0..3 : /\ bytes[k] # NoBit
                         /\ \A j \in 0..(k - 1) : bytes[j] = NoBit
                         /\ WordStage(bytes) = 8 * k + bytes[k]
<1> DEFINE First(k) == bytes[k] # NoBit /\ \A j \in 0..(k - 1) : bytes[j] = NoBit
<1>1. \E k \in 0..3 : First(k)
  <2>1. CASE bytes[0] # NoBit  BY <2>1
  <2>2. CASE bytes[0] = NoBit /\ bytes[1] # NoBit  BY <2>2
  <2>3. CASE bytes[0] = NoBit /\ bytes[1] = NoBit /\ bytes[2] # NoBit  BY <2>3
  <2>4. CASE bytes[0] = NoBit /\ bytes[1] = NoBit /\ bytes[2] = NoBit
    <3>1. bytes[3] # NoBit
      <4> SUFFICES ASSUME bytes[3] = NoBit PROVE FALSE
        OBVIOUS
      <4>1. ASSUME NEW k \in 0..3 PROVE k = 0 \/ k = 1 \/ k = 2 \/ k = 3
        OBVIOUS
      <4> QED  BY <2>4, <4>1
    <3> QED  BY <2>4, <3>1
  <2> QED  BY <2>1, <2>2, <2>3, <2>4
<1> DEFINE k0 == CHOOSE k \in 0..3 : First(k)
<1>2. k0 \in 0..3 /\ First(k0)
  BY <1>1
<1>3. WordStage(bytes) = 8 * k0 + bytes[k0]
  BY DEF WordStage
<1> QED  BY <1>2, <1>3

\* The two stages together find the lowest bit of a word.
LEMMA LowestOfWord ==
  ASSUME NEW w \in SUBSET (0..31)
  PROVE  IF w = {}
         THEN WordStage(ByteStage(w)) = NoBit
         ELSE /\ WordStage(ByteStage(w)) \in w
              /\ \A b \in w : WordStage(ByteStage(w)) <= b
<1> DEFINE bytes == ByteStage(w)
<1>1. bytes \in [0..3 -> 0..7 \cup {NoBit}]
  BY StageTypes
<1>2. ASSUME NEW k \in 0..3
      PROVE  /\ ByteOf(w, k) = {} => bytes[k] = NoBit
             /\ ByteOf(w, k) # {} =>
                  /\ bytes[k] \in ByteOf(w, k)
                  /\ bytes[k] \in 0..7
                  /\ \A c \in ByteOf(w, k) : bytes[k] <= c
  BY LowestOfByte DEF ByteStage, ByteOf
<1>3. CASE w = {}
  <2>1. \A k \in 0..3 : ByteOf(w, k) = {}
    BY <1>3 DEF ByteOf
  <2> QED  BY <1>2, <1>3, <2>1 DEF WordStage
<1>4. CASE w # {}
  \* every bit of the word lies in one of its bytes
  <2>1. ASSUME NEW b \in w
        PROVE  \E k \in 0..3 : \E c \in ByteOf(w, k) : b = 8 * k + c
    <3>1. CASE b \in 0..7
      <4>1. b - 0 \in ByteOf(w, 0)  BY <3>1 DEF ByteOf
      <4> QED  BY <4>1
    <3>2. CASE b \in 8..15
      <4>1. b - 8 \in ByteOf(w, 1)  BY <3>2 DEF ByteOf
      <4> QED  BY <4>1
    <3>3. CASE b \in 16..23
      <4>1. b - 16 \in ByteOf(w, 2)  BY <3>3 DEF ByteOf
      <4> QED  BY <4>1
    <3>4. CASE b \in 24..31
      <4>1. b - 24 \in ByteOf(w, 3)  BY <3>4 DEF ByteOf
      <4> QED  BY <4>1
    <3> QED  BY <3>1, <3>2, <3>3, <3>4
  <2>2. ~ \A k \in 0..3 : bytes[k] = NoBit
    <3>1. PICK b \in w : TRUE
      BY <1>4
    <3>2. PICK k \in 0..3 : \E c \in ByteOf(w, k) : b = 8 * k + c
      BY <2>1
    <3>3. bytes[k] \in 0..7
      BY <1>2, <3>2
    <3> QED  BY <3>3 DEF NoBit
  <2>3. PICK k \in 0..3 : /\ bytes[k] # NoBit
                          /\ \A j \in 0..(k - 1) : bytes[j] = NoBit
                          /\ WordStage(bytes) = 8 * k + bytes[k]
    BY <1>1, <2>2, LowestByte
  <2>4. bytes[k] \in ByteOf(w, k) /\ bytes[k] \in 0..7
    BY <1>2, <2>3
  <2>5. WordStage(bytes) \in w
    BY <2>3, <2>4 DEF ByteOf
  <2>6. ASSUME NEW b \in w PROVE WordStage(bytes) <= b
    <3>0. PICK j \in 0..3 : \E c \in ByteOf(w, j) : b = 8 * j + c
      BY <2>1
    <3>1. PICK c \in ByteOf(w, j) : b = 8 * j + c
      BY <3>0
    <3>2. c \in 0..7
      BY DEF ByteOf
    <3>3. bytes[j] \in 0..7 /\ bytes[j] <= c
      BY <1>2
    <3>4. ~(j < k)
      BY <2>3, <3>3 DEF NoBit
    <3>5. CASE j = k  BY <2>3, <2>4, <3>1, <3>2, <3>3, <3>5
    <3>6. CASE j > k  BY <2>3, <2>4, <3>1, <3>2, <3>6
    <3> QED  BY <3>4, <3>5, <3>6
  <2> QED  BY <1>4, <2>5, <2>6
<1> QED  BY <1>3, <1>4

-----------------------------------------------------------------------------
(* The words and the pending slots.                                        *)

\* Every pending slot is a bit of one of the four words, and only those are.
LEMMA PendingInWords ==
  ASSUME irqbit \subseteq 0..127
  PROVE  /\ \A i \in 0..3 : WordOf(i) \in SUBSET (0..31)
         /\ \A i \in 0..3 : \A b \in WordOf(i) : 32 * i + b \in Pending
         /\ \A s \in Pending : \E i \in 0..3 : \E b \in WordOf(i) : s = 32 * i + b
<1>1. \A i \in 0..3 : WordOf(i) \in SUBSET (0..31)
  BY DEF WordOf
<1>2. \A i \in 0..3 : \A b \in WordOf(i) : 32 * i + b \in Pending
  BY DEF WordOf, Pending
<1>3. ASSUME NEW s \in Pending
      PROVE  \E i \in 0..3 : \E b \in WordOf(i) : s = 32 * i + b
  <2>1. s \in 0..127
    BY DEF Pending
  <2>2. CASE s \in 0..31
    <3>1. s \in WordOf(0)  BY <2>2 DEF WordOf, Pending
    <3> QED  BY <2>1, <3>1
  <2>3. CASE s \in 32..63
    <3>1. s - 32 \in WordOf(1)  BY <2>3 DEF WordOf, Pending
    <3> QED  BY <2>1, <3>1
  <2>4. CASE s \in 64..95
    <3>1. s - 64 \in WordOf(2)  BY <2>4 DEF WordOf, Pending
    <3> QED  BY <2>1, <3>1
  <2>5. CASE s \in 96..127
    <3>1. s - 96 \in WordOf(3)  BY <2>5 DEF WordOf, Pending
    <3> QED  BY <2>1, <3>1
  <2> QED  BY <2>1, <2>2, <2>3, <2>4, <2>5
<1> QED  BY <1>1, <1>2, <1>3

\* When the words before i are empty, the lowest bit of word i, if it has
\* one, is the lowest pending slot.
LEMMA FirstIsLowest ==
  ASSUME irqbit \subseteq 0..127, NEW i \in 0..3,
         \A j \in 0..(i - 1) : WordOf(j) = {}
  PROVE  /\ FirstOf(i) \in 0..31 \cup {NoBit}
         /\ FirstOf(i) = NoBit => WordOf(i) = {}
         /\ FirstOf(i) # NoBit => /\ 32 * i + FirstOf(i) \in Pending
                                  /\ \A s \in Pending : 32 * i + FirstOf(i) <= s
<1>1. WordOf(i) \in SUBSET (0..31)
  BY PendingInWords
<1>2. CASE WordOf(i) = {}
  BY <1>1, <1>2, LowestOfWord DEF FirstOf
<1>3. CASE WordOf(i) # {}
  <2>1. FirstOf(i) \in WordOf(i) /\ \A b \in WordOf(i) : FirstOf(i) <= b
    BY <1>1, <1>3, LowestOfWord DEF FirstOf
  <2>2. FirstOf(i) \in 0..31
    BY <1>1, <2>1
  <2>3. 32 * i + FirstOf(i) \in Pending
    BY <2>1, PendingInWords
  <2>4. ASSUME NEW s \in Pending PROVE 32 * i + FirstOf(i) <= s
    <3>0. PICK j \in 0..3 : \E b \in WordOf(j) : s = 32 * j + b
      BY PendingInWords
    <3>1. PICK b \in WordOf(j) : s = 32 * j + b
      BY <3>0
    <3>2. b \in 0..31
      BY PendingInWords
    <3>3. ~(j < i)
      OBVIOUS
    <3>4. CASE j = i  BY <2>1, <2>2, <3>1, <3>2, <3>4
    <3>5. CASE j > i  BY <2>2, <3>1, <3>2, <3>5
    <3> QED  BY <3>3, <3>4, <3>5
  <2> QED  BY <2>2, <2>3, <2>4 DEF NoBit
<1> QED  BY <1>2, <1>3

\* When all words are empty nothing is pending.
LEMMA AllEmpty ==
  ASSUME irqbit \subseteq 0..127, \A i \in 0..3 : WordOf(i) = {}
  PROVE  Pending = {}
BY PendingInWords

-----------------------------------------------------------------------------
(* The invariant.                                                          *)

\* Reset: nothing is pending and nothing is shown.
LEMMA IrqInit == Init => IrqInv
BY SlotNumsAssumption
   DEF Init, IrqInv, TypeOK, BitTypeOK, ScanTypeOK, BitReset, ScanState, PipeInv,
       EncoderShows, Pending

\* An edge without a change leaves the bits, and so the words, as they are.
LEMMA QuietBits ==
  ASSUME BitTypeOK, NEW set, NEW clr, BitClock(set, clr), ~Changing
  PROVE  /\ irqbit' = irqbit
         /\ \A i \in 0..3 : WordOf(i)' = WordOf(i)
         /\ \A i \in 0..3 : FirstOf(i)' = FirstOf(i)
         /\ Pending' = Pending
<1>1. NoSlot \notin irqbit
  BY SlotNumsAssumption DEF BitTypeOK, NoSlot
<1>2. irqbit' = irqbit
  BY <1>1 DEF BitClock, BitsNext, Changing
<1> QED  BY <1>2 DEF WordOf, FirstOf, Pending

\* Types are kept.
LEMMA IrqTypes == IrqInv /\ Next => TypeOK'
<1> SUFFICES ASSUME IrqInv,
                    NEW set \in SlotNums \cup {NoSlot},
                    NEW clr \in SlotNums \cup {NoSlot},
                    BitClock(set, clr), Encoders, Scan
             PROVE  TypeOK'
  BY DEF Next
<1>1. BitTypeOK'
  BY DEF IrqInv, TypeOK, BitTypeOK, BitClock, BitsNext
<1>2. irqbit \subseteq 0..127
  BY SlotNumsAssumption DEF IrqInv, TypeOK, BitTypeOK
<1>3. bytefirst' \in [0..3 -> 0..7 \cup {NoBit}]
  BY StageTypes DEF Encoders, IrqInv, TypeOK, ScanTypeOK
<1>4. wordfirst' \in 0..31 \cup {NoBit}
  <2>1. bytefirst \in [0..3 -> 0..7 \cup {NoBit}]
    BY DEF IrqInv, TypeOK, ScanTypeOK
  <2>2. CASE \A k \in 0..3 : bytefirst[k] = NoBit
    BY <2>2 DEF Encoders, WordStage
  <2>3. CASE ~ \A k \in 0..3 : bytefirst[k] = NoBit
    <3>1. PICK k \in 0..3 : /\ bytefirst[k] # NoBit
                            /\ WordStage(bytefirst) = 8 * k + bytefirst[k]
      BY <2>1, <2>3, LowestByte
    <3>2. bytefirst[k] \in 0..7
      BY <2>1, <3>1
    <3> QED  BY <3>1, <3>2 DEF Encoders
  <2> QED  BY <2>2, <2>3
<1>5. /\ scan' \in ScanState
      /\ irq32bit' \subseteq 0..31
      /\ irqslotreq' \in 0..1
      /\ irqslotnum' \in 0..127
  <2>1. \A i \in 0..3 : WordOf(i) \subseteq 0..31
    BY <1>2, PendingInWords
  <2>2. wordfirst \in 0..31 \cup {NoBit}
    BY DEF IrqInv, TypeOK, ScanTypeOK
  <2>3. /\ scan \in ScanState /\ irq32bit \subseteq 0..31
        /\ irqslotreq \in 0..1 /\ irqslotnum \in 0..127
    BY DEF IrqInv, TypeOK, ScanTypeOK
  <2>4. CASE Restart  BY <2>3, <2>4 DEF Restart, ScanState
  <2>5. CASE \/ Load("ENTRY", "ENC0", 0) \/ Load("ENC0", "ENC1", 1)
             \/ Load("ENC1", "DET0", 2)
    BY <2>1, <2>3, <2>5 DEF Load, ScanState
  <2>6. CASE \/ Detect("DET0", "DET1", 0) \/ Detect("DET1", "DET2", 1)
             \/ Detect("DET2", "DET3", 2)
    <3>1. WordOf(3) \subseteq 0..31
      BY <2>1
    <3>2. irq32bit' = WordOf(3) \/ irq32bit' = irq32bit
      BY <2>6 DEF Detect
    <3>3. /\ scan' \in {"HALT", "DET1", "DET2", "DET3"}
          /\ irqslotreq' = 1 \/ irqslotreq' = irqslotreq
      BY <2>6 DEF Detect
    <3>4. /\ scan' \in ScanState /\ irq32bit' \subseteq 0..31
          /\ irqslotreq' \in 0..1
      <4>1. scan' \in ScanState  BY <3>3 DEF ScanState
      <4>2. irq32bit' \subseteq 0..31  BY <2>3, <3>1, <3>2
      <4>3. irqslotreq' \in 0..1  BY <2>3, <3>3
      <4> QED  BY <4>1, <4>2, <4>3
    <3>5. ASSUME NEW i \in 0..2, wordfirst # NoBit
          PROVE  32 * i + wordfirst \in 0..127
      BY <2>2, <3>5
    <3>6. irqslotnum' \in 0..127
      BY <2>3, <2>6, <3>5 DEF Detect
    <3> QED  BY <3>4, <3>6
  <2>7. CASE DetectLast  BY <2>2, <2>3, <2>7 DEF DetectLast, ScanState
  <2>8. CASE Halted  BY <2>3, <2>8 DEF Halted
  <2> QED  BY <2>4, <2>5, <2>6, <2>7, <2>8 DEF Scan
<1> QED  BY <1>1, <1>3, <1>4, <1>5 DEF TypeOK, ScanTypeOK

\* One edge keeps the invariant: per state of the scan, what the next one needs.
LEMMA IrqStep == IrqInv /\ [Next]_vars => IrqInv'
<1> SUFFICES ASSUME IrqInv, [Next]_vars PROVE IrqInv'
  OBVIOUS
<1>1. CASE UNCHANGED vars
  BY <1>1 DEF vars, bitvars, scanvars, IrqInv, TypeOK, BitTypeOK, ScanTypeOK,
              PipeInv, FirstOf, WordOf, EncoderShows, Pending
<1>2. CASE Next
  <2>1. TypeOK'
    BY <1>2, IrqTypes
  <2>2. PICK set \in SlotNums \cup {NoSlot}, clr \in SlotNums \cup {NoSlot} :
          BitClock(set, clr) /\ Encoders /\ Scan
    BY <1>2 DEF Next
  <2>3. irqbit \subseteq 0..127
    BY SlotNumsAssumption DEF IrqInv, TypeOK, BitTypeOK
  <2>4. CASE Changing
    <3>1. scan' = "ENTRY"
      BY <2>2, <2>4
         DEF Scan, Restart, Load, Detect, DetectLast, Halted
    <3>2. PipeInv' /\ EncoderShows'
      BY <3>1 DEF PipeInv, EncoderShows
    <3> QED  BY <2>1, <3>2 DEF IrqInv
  <2>5. CASE ~Changing
    <3>1. /\ \A i \in 0..3 : WordOf(i)' = WordOf(i)
          /\ \A i \in 0..3 : FirstOf(i)' = FirstOf(i)
          /\ Pending' = Pending
      BY <2>2, <2>5, QuietBits DEF IrqInv, TypeOK
    <3>2. /\ WordOf(0)' = WordOf(0) /\ WordOf(1)' = WordOf(1)
          /\ WordOf(2)' = WordOf(2) /\ WordOf(3)' = WordOf(3)
          /\ FirstOf(0)' = FirstOf(0) /\ FirstOf(1)' = FirstOf(1)
          /\ FirstOf(2)' = FirstOf(2) /\ FirstOf(3)' = FirstOf(3)
      BY <3>1
    <3>3. bytefirst' = ByteStage(irq32bit) /\ wordfirst' = WordStage(bytefirst)
      BY <2>2 DEF Encoders
    <3>4. CASE Load("ENTRY", "ENC0", 0)
      BY <2>1, <3>2, <3>4 DEF Load, IrqInv, PipeInv, EncoderShows
    <3>5. CASE Load("ENC0", "ENC1", 1)
      BY <2>1, <3>2, <3>3, <3>5 DEF Load, IrqInv, PipeInv, EncoderShows
    <3>6. CASE Load("ENC1", "DET0", 2)
      BY <2>1, <3>2, <3>3, <3>6 DEF Load, IrqInv, PipeInv, EncoderShows, FirstOf
    <3>7. CASE Detect("DET0", "DET1", 0)
      <4>1. /\ wordfirst = FirstOf(0)
            /\ irq32bit = WordOf(2)
            /\ bytefirst = ByteStage(WordOf(1))
        BY <3>7 DEF Detect, IrqInv, PipeInv
      <4>2. CASE wordfirst # NoBit
        <5>1. /\ scan' = "HALT" /\ irqslotreq' = 1
              /\ irqslotnum' = 32 * 0 + FirstOf(0)
          BY <3>7, <4>1, <4>2 DEF Detect
        <5>2. EncoderShows'
          BY <2>3, <3>1, <4>1, <4>2, <5>1, FirstIsLowest DEF EncoderShows
        <5> QED  BY <2>1, <5>1, <5>2 DEF IrqInv, PipeInv
      <4>3. CASE wordfirst = NoBit
        <5>1. scan' = "DET1" /\ irq32bit' = WordOf(3)
          BY <3>7, <4>3 DEF Detect
        <5>2. WordOf(0) = {}
          BY <2>3, <4>1, <4>3, FirstIsLowest
        <5> QED  BY <2>1, <3>2, <3>3, <4>1, <5>1, <5>2
                 DEF IrqInv, PipeInv, EncoderShows, FirstOf
      <4> QED  BY <4>2, <4>3
    <3>8. CASE Detect("DET1", "DET2", 1)
      <4>1. /\ wordfirst = FirstOf(1)
            /\ irq32bit = WordOf(3)
            /\ bytefirst = ByteStage(WordOf(2))
            /\ WordOf(0) = {}
        BY <3>8 DEF Detect, IrqInv, PipeInv
      <4>0. \A j \in 0..(1 - 1) : WordOf(j) = {}
        BY <4>1
      <4>2. CASE wordfirst # NoBit
        <5>1. /\ scan' = "HALT" /\ irqslotreq' = 1
              /\ irqslotnum' = 32 * 1 + FirstOf(1)
          BY <3>8, <4>1, <4>2 DEF Detect
        <5>2. EncoderShows'
          BY <2>3, <3>1, <4>0, <4>1, <4>2, <5>1, FirstIsLowest DEF EncoderShows
        <5> QED  BY <2>1, <5>1, <5>2 DEF IrqInv, PipeInv
      <4>3. CASE wordfirst = NoBit
        <5>1. scan' = "DET2" /\ irq32bit' = irq32bit
          BY <3>8, <4>3 DEF Detect
        <5>2. WordOf(1) = {}
          BY <2>3, <4>0, <4>1, <4>3, FirstIsLowest
        <5> QED  BY <2>1, <3>2, <3>3, <4>1, <5>1, <5>2
                 DEF IrqInv, PipeInv, EncoderShows, FirstOf
      <4> QED  BY <4>2, <4>3
    <3>9. CASE Detect("DET2", "DET3", 2)
      <4>1. /\ wordfirst = FirstOf(2)
            /\ bytefirst = ByteStage(WordOf(3))
            /\ WordOf(0) = {} /\ WordOf(1) = {}
        BY <3>9 DEF Detect, IrqInv, PipeInv
      <4>0. \A j \in 0..(2 - 1) : WordOf(j) = {}
        BY <4>1
      <4>2. CASE wordfirst # NoBit
        <5>1. /\ scan' = "HALT" /\ irqslotreq' = 1
              /\ irqslotnum' = 32 * 2 + FirstOf(2)
          BY <3>9, <4>1, <4>2 DEF Detect
        <5>2. EncoderShows'
          BY <2>3, <3>1, <4>0, <4>1, <4>2, <5>1, FirstIsLowest DEF EncoderShows
        <5> QED  BY <2>1, <5>1, <5>2 DEF IrqInv, PipeInv
      <4>3. CASE wordfirst = NoBit
        <5>1. scan' = "DET3"
          BY <3>9, <4>3 DEF Detect
        <5>2. WordOf(2) = {}
          BY <2>3, <4>0, <4>1, <4>3, FirstIsLowest
        <5> QED  BY <2>1, <3>2, <3>3, <4>1, <5>1, <5>2
                 DEF IrqInv, PipeInv, EncoderShows, FirstOf
      <4> QED  BY <4>2, <4>3
    <3>10. CASE DetectLast
      <4>1. /\ wordfirst = FirstOf(3)
            /\ WordOf(0) = {} /\ WordOf(1) = {} /\ WordOf(2) = {}
        BY <3>10 DEF DetectLast, IrqInv, PipeInv
      <4>0. \A j \in 0..(3 - 1) : WordOf(j) = {}
        BY <4>1
      <4>2. EncoderShows'
        <5>1. CASE wordfirst # NoBit
          <6>1. irqslotreq' = 1 /\ irqslotnum' = 32 * 3 + FirstOf(3)
            BY <3>10, <4>1, <5>1 DEF DetectLast
          <6> QED
            BY <2>3, <3>1, <4>0, <4>1, <5>1, <6>1, FirstIsLowest DEF EncoderShows
        <5>2. CASE wordfirst = NoBit
          <6>1. WordOf(3) = {}
            BY <2>3, <4>0, <4>1, <5>2, FirstIsLowest
          <6>2. Pending = {}
            BY <2>3, <4>1, <6>1, AllEmpty
          <6> QED  BY <3>1, <3>10, <5>2, <6>2 DEF DetectLast, EncoderShows
        <5> QED  BY <5>1, <5>2
      <4> QED  BY <2>1, <3>10, <4>2 DEF DetectLast, IrqInv, PipeInv
    <3>11. CASE Halted
      BY <2>1, <3>1, <3>11 DEF Halted, IrqInv, PipeInv, EncoderShows
    <3> QED  BY <2>2, <2>5, <3>4, <3>5, <3>6, <3>7, <3>8, <3>9, <3>10, <3>11
             DEF Scan, Restart
  <2> QED  BY <2>4, <2>5
<1> QED  BY <1>1, <1>2

\* For every set of slots: when a scan has ended, the encoder shows the lowest
\* slot that is pending, or that none is.
THEOREM EncoderCorrect == Spec => [](TypeOK /\ EncoderShows)
<1>1. Spec => []IrqInv
  BY IrqInit, IrqStep, PTL DEF Spec
<1>2. IrqInv => TypeOK /\ EncoderShows
  BY DEF IrqInv
<1> QED  BY <1>1, <1>2, PTL

=============================================================================
