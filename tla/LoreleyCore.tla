------------------------------ MODULE LoreleyCore ------------------------------
(***************************************************************************)
(* The SPU as the CPU sees it (loreley_core.vhd): the bus state machine,   *)
(* the system registers, the slot engine and the interrupt bits, all at    *)
(* one clock.  The sync signal of the sample rate comes from another       *)
(* clock, at any time; it may come before the engine has finished.         *)
(*                                                                         *)
(* Of the system registers the model has the sync bit and, as a constant,  *)
(* the number of slots.                                                    *)
(***************************************************************************)
EXTENDS LoreleySlotengine, LoreleyIrqbit

CONSTANTS
  InitWords,   \* what the register file may hold at first
  RestMax      \* cycles of rest that are told apart, see rest

VARIABLES
  syncfs,      \* the sync signal, one cycle wide
  syssync,     \* the sync bit of the system
  extq,        \* the output of the CPU's port of the register file
  wanted,      \* observer: what the CPU wrote to each slot and is not done yet
  due,         \* observer: the slots whose key on this sample has to take
  rest         \* observer: cycles without a sync signal since the engine halted

sysvars == <<syncfs, syssync, extq>>
corevars == <<busvars, slotvars, bitvars, sysvars, wanted, due, rest>>

ASSUME CoreAssumption ==
  /\ SlotNums = Slots
  /\ InitWords \subseteq Word
  /\ RestMax \in Nat

\* The CPU accesses whole words of the registers of the model.
ASSUME RequestsAssumption ==
  \A r \in Requests :
    /\ r \in [addr : {SyncReg} \cup {StatusReg(s) : s \in Slots},
             write : BOOLEAN, data : Value]
    /\ r.write /\ r.addr # SyncReg => r.data \in Word

Wanted(w) == [key_on |-> w.key_on, key_off |-> w.key_off, cfg |-> w.cfg]

CoreInit ==
  /\ BusReset
  /\ SlotReset(InitWords)
  /\ BitReset
  /\ syncfs = FALSE
  /\ syssync = FALSE
  /\ extq = Blank
  /\ wanted = [s \in Slots |-> Wanted(ram[s])]
  /\ due = {}
  /\ rest = 0

-----------------------------------------------------------------------------
(* The bus and the system registers.                                       *)

System == access.addr[1] = 0

\* The lock of the register the access is about: a system register is locked
\* in the cycle of the sync signal, in which the hardware changes it.
RegLock == IF System THEN syncfs ELSE Locked(access.addr[1])

\* What the register reads as.
RegData == IF System THEN [sync |-> syssync] ELSE extq

\* Any write sets the sync bit, the sync signal clears it.
SyssyncNext == IF syncfs THEN FALSE ELSE syssync \/ (regwrite /\ System)

\* The CPU's port reads the slot it is addressed to, in START for REGREAD.
ExtRead ==
  IF busstate = "START" /\ ~System THEN extq' \in CpuReads(access.addr[1])
                                   ELSE extq' = Blank

\* The signal is one cycle wide and made by an edge.
SyncSignal == IF syncfs THEN syncfs' = FALSE ELSE syncfs' \in BOOLEAN

\* Of the interrupt bits at most one is set and at most one is cleared.
TheSlot(S) == IF S = {} THEN NoSlot ELSE CHOOSE s \in S : TRUE
IrqClock ==
  BitClock(TheSlot({s \in Slots : IrqSets(s)}), TheSlot({s \in Slots : IrqClears(s)}))

-----------------------------------------------------------------------------
(* Observers: they follow what happens and change nothing.                 *)

\* A write asks for its settings and its keys; a key is done when the engine
\* writes the slot back having taken it.
WantedNext(s) ==
  IF CpuWrites(s)
  THEN [key_on  |-> wanted[s].key_on \/ access.data.key_on,
        key_off |-> wanted[s].key_off \/ access.data.key_off,
        cfg     |-> access.data.cfg]
  ELSE IF EngineWrites(s)
       THEN [wanted[s] EXCEPT !.key_on = @ /\ ~keyonflag,
                              !.key_off = @ /\ ~keyoffflag]
       ELSE wanted[s]

\* A key on that the sample in progress counts.
Countable(s) == ram[s].key_on /\ (ram[s].cfg["syncon"] => syncreg)

Observe ==
  /\ wanted' = [s \in Slots |-> WantedNext(s)]
  /\ due' = {s \in Slots : Countable(s)' /\ (syncfs \/ s \in due)}
  /\ rest' = IF slotstate' # "HALT" \/ syncfs' THEN 0
             ELSE IF rest < RestMax THEN rest + 1 ELSE rest

CoreNext ==
  /\ \E request \in Requests \cup {NoAccess} : BusClock(request, RegLock, RegData)
  /\ SlotClock(syncfs, syssync)
  /\ syssync' = SyssyncNext
  /\ ExtRead
  /\ IrqClock
  /\ SyncSignal
  /\ Observe

CoreSpec == CoreInit /\ [][CoreNext]_corevars

\* The clock does not stop.
FairCoreSpec == CoreSpec /\ WF_corevars(CoreNext)

-----------------------------------------------------------------------------
(* Properties.                                                             *)

\* What the bus has read is what the register holds, when it hands it to the
\* CPU and when it merges a write into it: no word that the engine is just
\* writing, and none it has written since.
ReadFresh ==
  busstate = "REGRMD" \/ (busstate = "DONE" /\ ~access.write) =>
    rmdwork = IF System THEN [sync |-> syssync] ELSE ram[access.addr[1]]

\* Nothing the CPU writes is lost to the engine, which writes back the whole
\* word: the settings are those last written, a key stays up until the engine
\* has taken it, and what was written is there when the CPU is let go.
WritesKept ==
  /\ busstate = "DONE" /\ access.write /\ ~System =>
       ram[access.addr[1]].cfg = access.data.cfg
  /\ \A s \in Slots :
       /\ ram[s].cfg = wanted[s].cfg
       /\ wanted[s].key_on => ram[s].key_on
       /\ wanted[s].key_off => ram[s].key_off

\* A key on that is up when a sample begins, and that this sample counts, is
\* taken by the time the engine halts.
KeysPlayed == slotstate = "HALT" => due = {}

\* The state word says what the hardware does: a write of the CPU never
\* changes the busy bit.
HwBitsProtected ==
  [][\A s \in Slots : CpuWrites(s) => ram'[s].busy = ram[s].busy]_corevars

\* If the engine is at rest for RestMax cycles again and again, every access
\* of the CPU comes to its end, whatever locks it meets.
AccessEnds ==
  []<>(rest = RestMax) => [](busstate # "IDLE" => <>(busstate = "IDLE"))

==============================================================================
