------------------------------ MODULE LoreleyRmw ------------------------------
(***************************************************************************)
(* The bus state machine of the SPU, entity loreley_businterface_rmw of    *)
(* boards/Cineraria_DE0nano_DVI/loreley/loreley_businterface.vhd.  It      *)
(* keeps the CPU waiting while it reads a register, merges what the CPU    *)
(* writes into it, and writes it back; when the register is locked it      *)
(* starts over.  One step is one rising edge of the clock.                 *)
(*                                                                         *)
(* A status word is abstracted to the bits a rule is about: busy (bit 15,  *)
(* for the hardware to change), key_on and key_off (bits 14 and 13, set by *)
(* the CPU, cleared by the hardware), irqflag (bit 10, the other way       *)
(* round) and cfg, the bits only the CPU changes.  Accesses are 32 bits    *)
(* wide, as IORD and IOWR make them, and the write-protected word at +10h  *)
(* is not in the model.                                                    *)
(***************************************************************************)
EXTENDS Integers

CONSTANTS
  Configs,     \* the values of cfg, records with the fields of ConfigBits
  Requests     \* the accesses the CPU makes

VARIABLES
  busstate,    \* the state of the machine
  access,      \* addr_reg, data_reg and wnr_reg; NoAccess while it is idle
  rmdwork,     \* the word read, then the word to be written
  regwrite     \* the write enable, before the lock is put over it

busvars == <<busstate, access, rmdwork, regwrite>>

BusState == {"IDLE", "START", "REGREAD", "REGRMD", "REGWRITE", "DONE", "RETRY"}

\* keyon mask, sync key on, sync key off, envelope, interrupt enable, loop
ConfigBits == {"mask", "syncon", "syncoff", "env", "irqena", "loop"}

Word == [busy : BOOLEAN, key_on : BOOLEAN, key_off : BOOLEAN,
         irqflag : BOOLEAN, cfg : Configs]

\* What is in a register: a status word, or the sync bit, or nothing yet.
Value == Word \cup [sync : BOOLEAN] \cup {<<>>}
Blank == <<>>

\* An address is a slot and a register of it; slot 0 is the system.
SyncReg      == <<0, "sync">>
StatusReg(s) == <<s, "status">>

NoAccess == [addr |-> <<0, "none">>, write |-> FALSE, data |-> Blank]

ASSUME ConfigsAssumption == Configs \subseteq [ConfigBits -> BOOLEAN]

BusReset ==
  /\ busstate = "IDLE"
  /\ access = NoAccess
  /\ rmdwork = Blank
  /\ regwrite = FALSE

-----------------------------------------------------------------------------

\* Fault: the settings are left as they were.
MergedNoConfig(old, new) ==
  [old EXCEPT !.key_on = @ \/ new.key_on, !.key_off = @ \/ new.key_off,
              !.irqflag = @ /\ new.irqflag]

\* A write to a status register: ones set the key bits, a zero clears the
\* interrupt flag, the settings are replaced and busy is not touched.
Merged(old, new) ==
  [old EXCEPT !.key_on = @ \/ new.key_on, !.key_off = @ \/ new.key_off,
              !.irqflag = @ /\ new.irqflag, !.cfg = new.cfg]

\* Any other register is overwritten.
Modified == IF access.addr[2] = "status" THEN Merged(rmdwork, access.data)
                                         ELSE access.data

\* A state ends in RETRY when it finds the register locked.
Proceed(lock, next) == busstate' = IF lock THEN "RETRY" ELSE next

\* IDLE: the request of the CPU, if there is one, is taken over.
Accept(request) ==
  /\ busstate = "IDLE"
  /\ busstate' = IF request = NoAccess THEN "IDLE" ELSE "START"
  /\ access' = request
  /\ UNCHANGED <<rmdwork, regwrite>>

\* Fault: the read does not heed the lock.
LookupUnlocked(lock) ==
  /\ busstate = "START"
  /\ busstate' = "REGREAD"
  /\ UNCHANGED <<access, rmdwork, regwrite>>

\* START: the read of the register is under way.
Lookup(lock) ==
  /\ busstate = "START"
  /\ Proceed(lock, "REGREAD")
  /\ UNCHANGED <<access, rmdwork, regwrite>>

\* REGREAD: the register is latched, whether it is locked by now or not.
Fetch(lock, readdata) ==
  /\ busstate = "REGREAD"
  /\ Proceed(lock, IF access.write THEN "REGRMD" ELSE "DONE")
  /\ rmdwork' = readdata
  /\ UNCHANGED <<access, regwrite>>

\* REGRMD: the word is changed and the write enable set, whether it is locked
\* by now or not.
Modify(lock) ==
  /\ busstate = "REGRMD"
  /\ Proceed(lock, "REGWRITE")
  /\ rmdwork' = Modified
  /\ regwrite' = TRUE
  /\ UNCHANGED access

\* REGWRITE: the word is written, unless it is locked by now.
WriteBack(lock) ==
  /\ busstate = "REGWRITE"
  /\ Proceed(lock, "DONE")
  /\ regwrite' = FALSE
  /\ UNCHANGED <<access, rmdwork>>

\* DONE: the CPU goes on.  The registers keep their values in the code; none
\* of them is looked at before the next access has loaded it.
Finish ==
  /\ busstate = "DONE"
  /\ busstate' = "IDLE"
  /\ access' = NoAccess
  /\ rmdwork' = Blank
  /\ UNCHANGED regwrite

\* Fault: the machine leaves RETRY on the lock, not on its end.
RetryInverted(lock) ==
  /\ busstate = "RETRY"
  /\ busstate' = IF lock THEN "START" ELSE "RETRY"
  /\ UNCHANGED <<access, rmdwork, regwrite>>

\* RETRY: the lock is waited for.
Retry(lock) ==
  /\ busstate = "RETRY"
  /\ busstate' = IF lock THEN "RETRY" ELSE "START"
  /\ UNCHANGED <<access, rmdwork, regwrite>>

\* One edge, with the request the CPU makes if the machine is idle, the lock
\* of the register it works on and the data of that register.
BusClock(request, lock, readdata) ==
  \/ Accept(request)
  \/ Lookup(lock)
  \/ Fetch(lock, readdata)
  \/ Modify(lock)
  \/ WriteBack(lock)
  \/ Finish
  \/ Retry(lock)

==============================================================================
