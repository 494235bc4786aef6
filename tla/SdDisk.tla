-------------------------------- MODULE SdDisk --------------------------------
(***************************************************************************)
(* The disk layer under FatFs (nano_bmpwav/mmcfs/fatfs/mmcbb.c): the status, *)
(* the initialisation, reads, writes and the sync of an MMC/SD card in SPI *)
(* mode, against cards that are pulled out and put in at any time, that do *)
(* not answer, refuse blocks, and program what they accepted when they     *)
(* like.                                                                   *)
(*                                                                         *)
(* A step is one exchange with the card: a whole send_cmd (with the CMD55  *)
(* of an ACMD), one data block, one wait for ready.  pc says which one the *)
(* running function is at; its name is the command or the block.           *)
(*                                                                         *)
(* A block is a value.  The content of the CSD, clocks and delays are left *)
(* out; the time limits are the step "no answer", possible at any time.    *)
(***************************************************************************)
EXTENDS Naturals

CONSTANTS
  Cards,        \* memory cards
  Mmc, Sd1, Sdhc, \* those that are MMC, SD version 1, SD with block addresses;
                \* the others are SD version 2 with byte addresses
  Protected,    \* cards with the write protect switch on
  Nil,          \* no card
  Sectors,      \* bound: sectors of a card
  Values,       \* contents of a sector
  Blank,        \* what is in every sector at first
  Junk,         \* a block that is no sector's content
  MaxCount,     \* bound: sectors of a call (1..128 in the code)
  Tries,        \* attempts to initialise: 1000 in the code
  Unit          \* byte addresses of a block: 512 in the code

ASSUME SdAssumption ==
  /\ Mmc \subseteq Cards /\ Sd1 \subseteq Cards /\ Sdhc \subseteq Cards
  /\ Mmc \cap Sd1 = {} /\ Mmc \cap Sdhc = {} /\ Sd1 \cap Sdhc = {}
  /\ Protected \subseteq Cards /\ Nil \notin Cards
  /\ Blank \in Values /\ Junk \notin Values /\ Nil \notin Values
  /\ Sectors \in Nat /\ MaxCount \in Nat
  /\ Tries \in Nat \ {0} /\ Unit \in Nat \ {0}

VARIABLES
  stat,      \* Stat: STA_NOINIT, STA_NODISK, STA_PROTECT
  ty,        \* CardType
  pc,        \* the next exchange; "idle" is the caller
  op,        \* the function that runs, or the last one that ran
  res,       \* what it returned
  sector, count, buff,   \* its arguments; count is the blocks left
  asked,     \* count at the call
  tries,     \* tmr
  card,      \* the card in the socket
  mode,      \* its state
  at,        \* the sector it transfers next
  busy,      \* it is programming
  cache,     \* blocks it has accepted and not programmed
  media,     \* what is on each card for good
  lost,      \* accepted blocks were lost since the last reset of a card
  home,      \* the card that was initialised last
  torn,      \* a card was pulled out inside a block that this call read
  flawless   \* in this run the cards stay in, answer always, and leave the
             \* idle state when they are first told to

funvars  == <<op, sector, asked>>
hostvars == <<stat, ty, res, count, buff, tries, home>>
cardvars == <<card, mode, at, busy, cache, media, lost>>
sdvars   == <<pc, funvars, hostvars, cardvars, torn, flawless>>

Places    == 0 .. Sectors - 1
NoCache   == [s \in Places |-> Nil]
NoData    == [i \in 0 .. MaxCount - 1 |-> Junk]
Pos       == asked - count           \* the block that is transferred next

\* The blocks of card c as a reader would see them.
Content(c) == [s \in Places |-> IF c = card /\ cache[s] # Nil THEN cache[s]
                                ELSE media[c][s]]

-----------------------------------------------------------------------------
(* The card (external).                                                    *)

Becomes(m) ==
  mode' = m /\ UNCHANGED <<card, at, busy, cache, media, lost>>

\* Where an address points to; a byte address must be that of a block.
Place(arg)  == IF card \in Sdhc THEN arg ELSE arg \div Unit
Legal(arg)  == Place(arg) \in Places /\ (card \in Sdhc \/ arg % Unit = 0)

Transfer(m, arg, r) ==
  \/ /\ Legal(arg) /\ r = 0
     /\ mode' = m /\ at' = Place(arg)
     /\ UNCHANGED <<card, busy, cache, media, lost>>
  \/ ~Legal(arg) /\ r = 64 /\ UNCHANGED cardvars

\* The answer r to a command, 1 meaning "in idle state", 4 "illegal command".
Serve(cmd, arg, r) ==
  \/ /\ cmd = "CMD0" /\ r = 1
     /\ mode' = "idle" /\ lost' = FALSE
     /\ UNCHANGED <<card, at, busy, cache, media>>
  \/ /\ mode = "idle"
     /\ \/ /\ cmd = "CMD8"
           /\ r = IF card \in Mmc \cup Sd1 THEN 5 ELSE 1
           /\ UNCHANGED cardvars
        \/ /\ cmd = "ACMD41"
           /\ \/ card \notin Mmc /\ (card \in Sdhc => arg = 1) /\ r = 0 /\ Becomes("tran")
              \/ /\ flawless => card \in Mmc \/ (card \in Sdhc /\ arg # 1)
                 /\ r = IF card \in Mmc THEN 5 ELSE 1
                 /\ UNCHANGED cardvars
        \/ cmd = "CMD58" /\ r = 1 /\ UNCHANGED cardvars
        \/ cmd \notin {"CMD0", "CMD8", "ACMD41", "CMD58"} /\ r = 5 /\ UNCHANGED cardvars
  \/ /\ mode = "tran"
     /\ \/ cmd \in {"CMD58", "CMD16", "ACMD41", "ACMD23"} /\ r = 0 /\ UNCHANGED cardvars
        \/ cmd \in {"CMD8", "CMD12"} /\ r = 4 /\ UNCHANGED cardvars
        \/ cmd = "CMD9" /\ r = 0 /\ Becomes("csd")
        \/ cmd = "CMD17" /\ Transfer("read", arg, r)
        \/ cmd = "CMD18" /\ Transfer("reads", arg, r)
        \/ cmd = "CMD24" /\ Transfer("write", arg, r)
        \/ cmd = "CMD25" /\ Transfer("writes", arg, r)
  \/ mode = "reads" /\ cmd = "CMD12" /\ r = 0 /\ Becomes("tran")

Program ==
  /\ busy
  /\ busy' = FALSE
  /\ media' = [media EXCEPT ![card] = Content(card)]
  /\ cache' = NoCache
  /\ UNCHANGED <<card, mode, at, lost>>

Removed ==
  /\ card' = Nil /\ mode' = "off" /\ at' = 0 /\ busy' = FALSE /\ cache' = NoCache
  /\ lost' = (lost \/ cache # NoCache)
  /\ UNCHANGED media

PullOut == card # Nil /\ ~flawless /\ Removed

PutIn(c) ==
  /\ card = Nil
  /\ card' = c
  /\ UNCHANGED <<mode, at, busy, cache, media, lost>>

CardSteps ==
  /\ Program \/ PullOut \/ \E c \in Cards : PutIn(c)
  /\ UNCHANGED <<pc, funvars, hostvars, torn, flawless>>

-----------------------------------------------------------------------------
(* send_cmd and the data blocks.                                           *)

\* send_cmd: wait until the card is ready, send, take the answer.  255 is
\* a card that is not there, has not been reset, is busy for longer than
\* wait_ready waits, or whose answer is lost.
SendCmd(cmd, arg, r) ==
  \/ /\ flawless => card = Nil \/ (cmd # "CMD0" /\ mode \notin {"idle", "tran", "reads"})
     /\ r = 255 /\ UNCHANGED cardvars
  \/ card # Nil /\ ~busy /\ Serve(cmd, arg, r)

Answers == {0, 1, 4, 5, 64, 255}

\* rcvr_datablock: the block b arrives, or does not.  A card that is pulled
\* out inside the block goes unnoticed: the check sum is thrown away.
RcvrDatablock(ok, b) ==
  /\ \/ /\ ok /\ mode \in {"read", "reads", "csd"} /\ at \in Places
        /\ b = IF mode = "csd" THEN Junk ELSE Content(card)[at]
        /\ at' = IF mode = "csd" THEN at ELSE at + 1
        /\ mode' = IF mode = "reads" THEN "reads" ELSE "tran"
        /\ UNCHANGED <<card, busy, cache, media, lost>>
        /\ UNCHANGED torn
     \/ /\ ok /\ ~flawless /\ mode \in {"read", "reads"}
        /\ b = Junk /\ Removed
        /\ torn' = TRUE
     \/ /\ ~ok /\ b = Junk
        /\ Becomes(IF mode \in {"read", "csd"} THEN "tran" ELSE mode)
        /\ UNCHANGED torn

\* xmit_datablock with a data token: accepted, or refused, or the card stays
\* busy, or is not there.
XmitDatablock(ok, b) ==
  \/ /\ ok /\ mode \in {"write", "writes"} /\ ~busy /\ at \in Places
     /\ cache' = [cache EXCEPT ![at] = b]
     /\ busy' = TRUE /\ at' = at + 1
     /\ mode' = IF mode = "writes" THEN "writes" ELSE "tran"
     /\ UNCHANGED <<card, media, lost>>
  \/ /\ ~ok
     /\ Becomes(IF mode = "write" THEN "tran" ELSE mode)

\* xmit_datablock with the stop token: it fails only if the card stays busy,
\* and succeeds on an empty socket.
XmitStop(ok) ==
  \/ /\ ok /\ mode = "writes" /\ ~busy
     /\ mode' = "tran" /\ busy' = TRUE
     /\ UNCHANGED <<card, at, cache, media, lost>>
  \/ ok /\ mode # "writes" /\ ~busy /\ UNCHANGED cardvars
  \/ ~ok /\ busy /\ UNCHANGED cardvars

-----------------------------------------------------------------------------
(* Calls and returns.                                                      *)

Call(f, first, n, data) ==
  /\ pc = "idle"
  /\ op' = f /\ pc' = "pins" /\ res' = "OK"
  /\ sector' = first /\ count' = n /\ asked' = n /\ buff' = data
  /\ tries' = 0 /\ torn' = FALSE
  /\ UNCHANGED <<stat, ty, home, cardvars>>

Calls ==
  \/ \E f \in {"status", "init", "sync", "csd"} : Call(f, 0, 0, NoData)
  \/ \E s \in Places, n \in 0..MaxCount : Call("read", s, n, NoData)
  \/ \E s \in Places, n \in 0..MaxCount : \E d \in [0 .. n - 1 -> Values] :
       Call("write", s, n, [i \in 0 .. MaxCount - 1 |->
                              IF i < n THEN d[i] ELSE Junk])

Return(r) == pc' = "idle" /\ res' = r

Goto(p) == pc' = p /\ UNCHANGED res

-----------------------------------------------------------------------------
(* disk_status, which every function calls first.                          *)

\* Fault: the protect bit is not looked at.
ResumeUnprotected(s) ==
  \/ op = "status" /\ Return("OK")
  \/ op = "init" /\ IF s.nodisk THEN Return("OK") ELSE Goto("CMD0")
  \/ op \notin {"status", "init"} /\ s.noinit /\ Return("NOTRDY")
  \/ /\ op \in {"read", "write"} /\ ~s.noinit
     /\ IF count = 0 THEN Return("PARERR") ELSE Goto("data")
  \/ op = "sync" /\ ~s.noinit /\ Goto("ready")
  \/ op = "csd" /\ ~s.noinit /\ Goto("CMD9")

\* The rest of the function, given the status s.
Resume(s) ==
  \/ op = "status" /\ Return("OK")
  \/ op = "init" /\ IF s.nodisk THEN Return("OK") ELSE Goto("CMD0")
  \/ op \notin {"status", "init"} /\ s.noinit /\ Return("NOTRDY")
  \/ op = "write" /\ ~s.noinit /\ s.protect /\ Return("WRPRT")
  \/ /\ op \in {"read", "write"} /\ ~s.noinit /\ ~(op = "write" /\ s.protect)
     /\ IF count = 0 THEN Return("PARERR") ELSE Goto("data")
  \/ op = "sync" /\ ~s.noinit /\ Goto("ready")
  \/ op = "csd" /\ ~s.noinit /\ Goto("CMD9")

HostKeeps == UNCHANGED <<funvars, ty, count, buff, tries, home>>

\* The card detect and write protect switches.
Pins ==
  /\ pc = "pins"
  /\ LET s == IF card = Nil
              THEN [noinit |-> TRUE, nodisk |-> TRUE, protect |-> FALSE]
              ELSE [noinit |-> stat.noinit, nodisk |-> FALSE,
                    protect |-> card \in Protected]
     IN /\ stat' = s
        /\ IF s.noinit THEN Resume(s) ELSE Goto("CMD58")
  /\ HostKeeps /\ UNCHANGED cardvars

\* Fault: what the card answers is not looked at.
Ask58Ignored ==
  /\ pc = "CMD58"
  /\ \E r \in Answers : SendCmd("CMD58", 0, r)
  /\ Resume(stat)
  /\ HostKeeps /\ UNCHANGED stat

\* Is the card still initialised?
Ask58 ==
  /\ pc = "CMD58"
  /\ \E r \in Answers :
       /\ SendCmd("CMD58", 0, r)
       /\ LET s == [stat EXCEPT !.noinit = (r # 0)] IN
            stat' = s /\ Resume(s)
  /\ HostKeeps

-----------------------------------------------------------------------------
(* disk_initialize.                                                        *)

InitKeeps == UNCHANGED <<funvars, count, buff>>

\* Another step of the initialisation, with tmr set to t.
Step(p, t) == Goto(p) /\ tries' = t /\ UNCHANGED <<stat, home>>

\* The end, with the card type t: CardType and Stat are set.
Finished(t) ==
  /\ Return("OK")
  /\ ty' = t /\ tries' = 0
  /\ stat' = [stat EXCEPT !.noinit = (t = "none")]
  /\ home' = IF t = "none" THEN home ELSE card

Cmd0 ==
  /\ pc = "CMD0"
  /\ \E r \in Answers :
       /\ SendCmd("CMD0", 0, r)
       /\ IF r = 1 THEN Step("CMD8", 0) /\ UNCHANGED ty ELSE Finished("none")
  /\ InitKeeps

\* The answer to CMD8 also says whether the card takes the voltage.
Cmd8 ==
  /\ pc = "CMD8"
  /\ \E r \in Answers :
       /\ SendCmd("CMD8", 0, r)
       /\ \/ r = 1 /\ Step("ACMD41 HCS", Tries) /\ UNCHANGED ty
          \/ r = 1 /\ ~flawless /\ Finished("none")
          \/ r # 1 /\ Step("probe", 0) /\ UNCHANGED ty
  /\ InitKeeps

\* Fault: the attempts are not counted.
RetryUncounted(p) == Step(p, tries) /\ UNCHANGED ty

\* One more attempt to leave the idle state, at p, or none is left.
Retry(p) == IF tries > 1 THEN Step(p, tries - 1) /\ UNCHANGED ty
            ELSE Finished("none")

\* SD version 2: with the HCS bit, which tells that block addresses are known.
LeaveIdleHcs ==
  /\ pc = "ACMD41 HCS"
  /\ \E r \in Answers :
       /\ SendCmd("ACMD41", 1, r)
       /\ IF r = 0 THEN Step("OCR", 0) /\ UNCHANGED ty ELSE Retry("ACMD41 HCS")
  /\ InitKeeps

\* Fault: the CCS bit is not looked at.
ReadOcrBlind ==
  /\ pc = "OCR"
  /\ \E r \in Answers :
       /\ SendCmd("CMD58", 0, r)
       /\ Finished(IF r # 0 THEN "none" ELSE "SD2")
  /\ InitKeeps

\* The CCS bit of the OCR.
ReadOcr ==
  /\ pc = "OCR"
  /\ \E r \in Answers :
       /\ SendCmd("CMD58", 0, r)
       /\ Finished(IF r # 0 THEN "none"
                   ELSE IF card \in Sdhc THEN "SD2|BLOCK" ELSE "SD2")
  /\ InitKeeps

\* SD version 1 or MMC?  ty takes the value of the function's variable here;
\* nothing reads CardType before the end.
Probe ==
  /\ pc = "probe"
  /\ \E r \in Answers :
       /\ SendCmd("ACMD41", 0, r)
       /\ ty' = IF r <= 1 THEN "SD1" ELSE "MMC"
  /\ Step("ACMD41", Tries)
  /\ InitKeeps

\* The code sends ACMD41 to an MMC, too.
LeaveIdle ==
  /\ pc = "ACMD41"
  /\ \E r \in Answers :
       /\ SendCmd("ACMD41", 0, r)
       /\ IF r = 0 THEN Step("CMD16", 0) /\ UNCHANGED ty ELSE Retry("ACMD41")
  /\ InitKeeps

SetBlockLength ==
  /\ pc = "CMD16"
  /\ \E r \in Answers :
       /\ SendCmd("CMD16", 512, r)
       /\ Finished(IF r = 0 THEN ty ELSE "none")
  /\ InitKeeps

Initialise ==
  \/ Cmd0 \/ Cmd8 \/ LeaveIdleHcs \/ ReadOcr \/ Probe \/ LeaveIdle
  \/ SetBlockLength

-----------------------------------------------------------------------------
(* disk_read and disk_write.                                               *)

RunKeeps == UNCHANGED <<funvars, stat, ty, tries, home>>

Address(s) == IF ty = "SD2|BLOCK" THEN s ELSE s * Unit

\* A data command with the answer r, after which the blocks follow.
DataCommand(cmd) ==
  /\ \E r \in Answers :
       /\ SendCmd(cmd, Address(sector), r)
       /\ IF r = 0 THEN Goto("block") ELSE Return("ERROR")
  /\ RunKeeps /\ UNCHANGED <<count, buff>>

ReadCommand ==
  /\ pc = "data" /\ op = "read"
  /\ DataCommand(IF count = 1 THEN "CMD17" ELSE "CMD18")

\* Fault: a failed block is counted, too.
ReadBlockCounted ==
  /\ pc = "block" /\ op = "read"
  /\ \E ok \in BOOLEAN, b \in Values \cup {Junk} :
       /\ RcvrDatablock(ok, b)
       /\ buff' = [buff EXCEPT ![Pos] = b]
       /\ count' = count - 1
       /\ IF asked = 1 THEN Return(IF ok THEN "OK" ELSE "ERROR")
          ELSE Goto(IF ok /\ count > 1 THEN "block" ELSE "stop")
  /\ RunKeeps

ReadBlock ==
  /\ pc = "block" /\ op = "read"
  /\ \E ok \in BOOLEAN, b \in Values \cup {Junk} :
       /\ RcvrDatablock(ok, b)
       /\ IF ok THEN buff' = [buff EXCEPT ![Pos] = b] /\ count' = count - 1
          ELSE UNCHANGED <<buff, count>>
       /\ IF asked = 1 THEN Return(IF ok THEN "OK" ELSE "ERROR")
          ELSE Goto(IF ok /\ count > 1 THEN "block" ELSE "stop")
  /\ RunKeeps

ReadStop ==
  /\ pc = "stop" /\ op = "read"
  /\ \E r \in Answers : SendCmd("CMD12", 0, r)
  /\ Return(IF count = 0 THEN "OK" ELSE "ERROR")
  /\ RunKeeps /\ UNCHANGED <<count, buff>>

\* ACMD23 announces the number of blocks to an SD card; its answer is not
\* looked at.
WriteAnnounce ==
  /\ pc = "data" /\ op = "write" /\ count > 1 /\ ty \notin {"MMC", "none"}
  /\ \E r \in Answers : SendCmd("ACMD23", count, r)
  /\ Goto("CMD25")
  /\ RunKeeps /\ UNCHANGED <<count, buff>>

WriteCommand ==
  /\ op = "write"
  /\ \/ pc = "data" /\ count = 1 /\ DataCommand("CMD24")
     \/ pc = "data" /\ count > 1 /\ ty \in {"MMC", "none"} /\ DataCommand("CMD25")
     \/ pc = "CMD25" /\ DataCommand("CMD25")

WriteBlock ==
  /\ pc = "block" /\ op = "write"
  /\ \E ok \in BOOLEAN :
       /\ XmitDatablock(ok, buff[Pos])
       /\ count' = IF ok THEN count - 1 ELSE count
       /\ IF asked = 1 THEN Return(IF ok THEN "OK" ELSE "ERROR")
          ELSE Goto(IF ok /\ count > 1 THEN "block" ELSE "stop")
  /\ RunKeeps /\ UNCHANGED buff

\* Fault: the blocks that were not accepted are forgotten.
WriteStopOnly ==
  /\ pc = "stop" /\ op = "write"
  /\ \E ok \in BOOLEAN :
       XmitStop(ok) /\ Return(IF ok THEN "OK" ELSE "ERROR")
  /\ RunKeeps /\ UNCHANGED <<count, buff>>

WriteStop ==
  /\ pc = "stop" /\ op = "write"
  /\ \E ok \in BOOLEAN :
       XmitStop(ok) /\ Return(IF ok /\ count = 0 THEN "OK" ELSE "ERROR")
  /\ RunKeeps /\ UNCHANGED <<count, buff>>

-----------------------------------------------------------------------------
(* disk_ioctl.                                                             *)

\* CTRL_SYNC: the card is selected and waited for; an empty socket is ready.
Sync ==
  /\ pc = "ready"
  /\ Return(IF busy THEN "ERROR" ELSE "OK")
  /\ RunKeeps /\ UNCHANGED <<count, buff, cardvars>>

\* GET_SECTOR_COUNT
CsdCommand ==
  /\ pc = "CMD9"
  /\ \E r \in Answers :
       /\ SendCmd("CMD9", 0, r)
       /\ IF r = 0 THEN Goto("CSD") ELSE Return("ERROR")
  /\ RunKeeps /\ UNCHANGED <<count, buff>>

CsdBlock ==
  /\ pc = "CSD"
  /\ \E ok \in BOOLEAN :
       RcvrDatablock(ok, Junk) /\ Return(IF ok THEN "OK" ELSE "ERROR")
  /\ RunKeeps /\ UNCHANGED <<count, buff>>

-----------------------------------------------------------------------------

SdInit ==
  /\ stat = [noinit |-> TRUE, nodisk |-> FALSE, protect |-> FALSE]
  /\ ty = "none" /\ home = Nil
  /\ pc = "idle" /\ op = "status" /\ res = "OK"
  /\ sector = 0 /\ count = 0 /\ asked = 0 /\ tries = 0 /\ buff = NoData
  /\ card = Nil /\ mode = "off" /\ at = 0 /\ busy = FALSE /\ cache = NoCache
  /\ media = [c \in Cards |-> [s \in Places |-> Blank]] /\ lost = FALSE
  /\ torn = FALSE /\ flawless \in BOOLEAN

\* The next exchange of the function that runs.
Exchange ==
  /\ \/ ReadBlock \/ CsdBlock
     \/ /\ \/ Pins \/ Ask58 \/ Initialise
           \/ ReadCommand \/ ReadStop
           \/ WriteAnnounce \/ WriteCommand \/ WriteBlock \/ WriteStop
           \/ Sync \/ CsdCommand
        /\ UNCHANGED torn
  /\ UNCHANGED flawless

SdNext ==
  \/ Exchange
  \/ Calls /\ UNCHANGED flawless
  \/ CardSteps

SdSpec == SdInit /\ [][SdNext]_sdvars

\* The function goes on: every wait in it is bounded.  Only a flawless card
\* is sure to end its programming.
FairSdSpec ==
  /\ SdSpec
  /\ WF_sdvars(Exchange)
  /\ WF_sdvars(flawless /\ busy /\ CardSteps)

-----------------------------------------------------------------------------
(* Properties.                                                             *)

Returned(f) == pc = "idle" /\ op = f /\ res = "OK"

\* disk_read returns RES_OK only with the blocks it was asked for, of the card
\* that was initialised, in their order, blocks accepted and not yet
\* programmed included.  Cards that are exchanged or stop answering between
\* any two exchanges make it fail; one that is pulled out inside a block does
\* not, since the check sum is not compared.
ReadTrue ==
  Returned("read") /\ ~torn =>
    \A i \in 0 .. asked - 1 : sector + i \in Places /\ buff[i] = Content(home)[sector + i]

\* What a card accepts is the next block of a disk_write, at its place, on the
\* card that was initialised, and never on one that is write protected, which
\* is looked at only before the first command of the call.
WritesAsked ==
  [][\A s \in Places :
       cache'[s] # cache[s] /\ cache'[s] # Nil =>
         /\ op = "write" /\ card = home /\ card \notin Protected
         /\ s = sector + Pos /\ cache'[s] = buff[Pos]]_sdvars

\* disk_write returns RES_OK only when every block is on the card, or the card
\* was pulled out with blocks that it had accepted and not programmed.
WriteDone ==
  Returned("write") =>
    lost \/ \A i \in 0 .. asked - 1 :
              sector + i \in Places /\ buff[i] = Content(home)[sector + i]

\* When CTRL_SYNC returns RES_OK, everything that disk_write had reported since
\* the card was initialised is on it for good: a card that was pulled out with
\* blocks not programmed makes the sync fail, even if it is back by then.
SyncDurable == Returned("sync") => cache = NoCache /\ ~lost

\* Every function of the disk layer returns.
CallsReturn == pc # "idle" ~> pc = "idle"

\* Whichever of its answers are lost, a card that is taken for initialised is
\* driven with the addresses it knows; and an SD card that stays in, takes the
\* voltage, answers and leaves the idle state when it is told to in its own way
\* is initialised at the first attempt.
CardKnown ==
  /\ pc = "idle" /\ ~stat.noinit => (ty = "SD2|BLOCK" <=> home \in Sdhc)
  /\ flawless /\ Returned("init") /\ mode # "off" /\ card \notin Mmc => ~stat.noinit
=============================================================================
