----------------------------- MODULE SdDiskProofs -----------------------------
(***************************************************************************)
(* What disk_read, disk_write and CTRL_SYNC of mmcbb.c report is true, and *)
(* the card that is driven is the one that was initialised: ReadTrue,      *)
(* WriteDone, SyncDurable, CardKnown and WritesAsked of SdDisk, for any    *)
(* set of cards, any sizes, and any answers the cards lose.                *)
(*                                                                         *)
(* The invariant follows the call: SocketInv is about the card alone,      *)
(* HomeInv says that a card that has left the idle state is the one that   *)
(* was initialised last while Stat says so, AttemptInv what the            *)
(* initialisation knows of the card at each exchange, CallInv where a      *)
(* transfer stands, and DoneInv what has been transferred so far.          *)
(***************************************************************************)
EXTENDS SdDisk, TLAPS

AttemptPc == {"CMD0", "CMD8", "ACMD41 HCS", "OCR", "probe", "ACMD41", "CMD16"}
CallPc    == {"data", "CMD25", "block", "stop"}
IoctlPc   == {"ready", "CMD9", "CSD"}
Pc        == {"idle", "pins", "CMD58"} \cup AttemptPc \cup CallPc \cup IoctlPc

Mode == {"off", "idle", "tran", "csd", "read", "reads", "write", "writes"}

SdTypeOK ==
  /\ stat \in [noinit : BOOLEAN, nodisk : BOOLEAN, protect : BOOLEAN]
  /\ ty \in {"none", "SD1", "MMC", "SD2", "SD2|BLOCK"}
  /\ pc \in Pc /\ op \in {"status", "init", "sync", "csd", "read", "write"}
  /\ sector \in Nat /\ asked \in 0 .. MaxCount /\ count \in 0 .. asked
  /\ buff \in [0 .. MaxCount - 1 -> Values \cup {Junk}]
  /\ op = "write" => \A i \in 0 .. asked - 1 : buff[i] \in Values
  /\ card \in Cards \cup {Nil} /\ mode \in Mode /\ at \in Nat
  /\ busy \in BOOLEAN /\ lost \in BOOLEAN
  /\ cache \in [Places -> Values \cup {Nil}]
  /\ media \in [Cards -> [Places -> Values]]

\* A card that is programming is not reset and does not read; an empty socket
\* has no state; and a card that has lost blocks has to be reset.
SocketInv ==
  /\ cache # NoCache => busy
  /\ busy => mode \in {"tran", "writes"}
  /\ mode # "off" => card # Nil
  /\ lost => mode = "off"

\* While Stat says that there is a card that is initialised, it is the one in
\* the socket unless that has been without power.
HomeInv ==
  /\ pc \in {"CMD58"} \cup CallPc \cup IoctlPc => ~stat.noinit
  /\ pc \notin AttemptPc /\ ~stat.noinit =>
       /\ ty = "SD2|BLOCK" <=> home \in Sdhc
       /\ mode # "off" => card = home /\ mode # "idle"

\* What disk_initialize knows of the card.
AttemptInv ==
  /\ pc \in AttemptPc => op = "init"
  /\ pc = "CMD8" => mode \in {"off", "idle"}
  /\ pc \in {"probe", "ACMD41", "CMD16"} =>
       mode \in {"off", "idle"} \/ (mode = "tran" /\ card \notin Sdhc)
  /\ pc \in {"ACMD41", "CMD16"} => ty \in {"SD1", "MMC"}

\* The same for a card without a flaw.
FlawlessInv ==
  flawless /\ card \notin Mmc =>
    /\ pc = "CMD8" => mode = "idle"
    /\ pc = "ACMD41 HCS" => mode = "idle" /\ card \notin Sd1
    /\ pc = "probe" => mode = "idle" /\ card \in Sd1
    /\ pc \in {"OCR", "ACMD41", "CMD16"} => mode = "tran"
    /\ pc = "idle" /\ op = "init" /\ mode # "off" => ~stat.noinit

\* The state in which the card transfers the blocks of the call.
BlockMode == IF op = "read" THEN IF asked = 1 THEN "read" ELSE "reads"
                            ELSE IF asked = 1 THEN "write" ELSE "writes"

\* Where a call stands.
CallInv ==
  /\ pc \in CallPc => op \in {"read", "write"}
  /\ pc = "CMD25" => op = "write" /\ count > 1
  /\ pc = "ready" => op = "sync"
  /\ pc \in {"CMD9", "CSD"} => op = "csd"
  /\ pc \in {"pins", "CMD58", "data", "CMD25"} => count = asked
  /\ pc \in {"data", "CMD25", "block"} => count > 0
  /\ pc = "block" /\ mode # "off" => mode = BlockMode /\ at = sector + Pos
  /\ pc = "CMD58" => ~stat.nodisk
  /\ pc \in {"CMD58"} \cup CallPc /\ mode # "off" =>
       (stat.protect <=> card \in Protected)
  /\ pc \in CallPc /\ op = "write" => ~stat.protect

\* The first n blocks of the call are what the initialised card holds.
Blocks(n) ==
  \A i \in 0 .. n - 1 : sector + i \in Places /\ buff[i] = Content(home)[sector + i]

\* The call f transfers, or has done so.
Transfers(f) == op = f /\ (pc \in {"block", "stop"} \/ (pc = "idle" /\ res = "OK"))

\* What has been done.
DoneInv ==
  /\ Transfers("read") => cache = NoCache /\ (~torn => Blocks(Pos))
  /\ Transfers("write") => lost \/ Blocks(Pos)
  /\ Returned("read") \/ Returned("write") => count = 0
  /\ op = "sync" /\ (pc = "ready" \/ (pc = "idle" /\ res = "OK")) =>
       cache = NoCache /\ ~lost

SdInv ==
  SdTypeOK /\ SocketInv /\ HomeInv /\ AttemptInv /\ FlawlessInv /\ CallInv /\ DoneInv

-----------------------------------------------------------------------------
(* The card.                                                               *)

\* The block number comes out of the address that was made of it.
LEMMA AddressOfBlock ==
  ASSUME NEW s \in Nat, NEW u \in Nat \ {0}
  PROVE  (s * u) \div u = s /\ (s * u) % u = 0
OBVIOUS

\* Blocks that were there stay there as long as the contents do.
LEMMA BlocksKept ==
  ASSUME UNCHANGED <<sector, asked, count, buff>>,
         \A s \in Places : Content(home)'[s] = Content(home)[s],
         Blocks(Pos)
  PROVE  Blocks(Pos)'
BY DEF Blocks, Pos, Places

\* What the card is for a reader depends on what is on it, and in it.
LEMMA ContentKept ==
  ASSUME UNCHANGED <<home, card, cache, media>>
  PROVE  \A s \in Places : Content(home)'[s] = Content(home)[s]
BY DEF Content, Places

\* A command changes the state of the card and where it transfers, no more;
\* only a card that is in and ready answers.
LEMMA Commanded ==
  ASSUME SdTypeOK, SocketInv, NEW cmd, NEW arg, NEW r, SendCmd(cmd, arg, r)
  PROVE  /\ UNCHANGED <<card, busy, cache, media>>
         /\ mode' \in Mode /\ at' \in Nat /\ lost' \in BOOLEAN
         /\ SocketInv'
         /\ \/ r = 255 /\ UNCHANGED cardvars
            \/ card # Nil /\ ~busy /\ mode' # "off" /\ Serve(cmd, arg, r)
<1>1. CASE r = 255 /\ UNCHANGED cardvars
  BY <1>1 DEF cardvars, SdTypeOK, SocketInv, NoCache, Places
<1>2. CASE card # Nil /\ ~busy /\ Serve(cmd, arg, r)
  <2>1. mode \in Mode /\ at \in Nat /\ lost \in BOOLEAN /\ cache = NoCache
    BY <1>2 DEF SdTypeOK, SocketInv
  <2>2. /\ UNCHANGED <<card, busy, cache, media>>
        /\ mode' \in Mode \ {"off"} /\ at' \in Nat /\ lost' = FALSE
    <3>1. CASE cmd = "CMD0" /\ mode' = "idle" /\ lost' = FALSE
               /\ UNCHANGED <<card, at, busy, cache, media>>
      BY <2>1, <3>1 DEF Mode
    <3>2. CASE mode # "off" /\ UNCHANGED cardvars
      BY <2>1, <3>2 DEF SocketInv, cardvars
    <3>3. CASE mode # "off" /\ \E m \in Mode \ {"off"} : Becomes(m)
      BY <2>1, <3>3 DEF SocketInv, Becomes
    <3>4. CASE mode # "off" /\ \E m \in Mode \ {"off"} : Transfer(m, arg, r)
      BY <2>1, <3>4 DEF SocketInv, Transfer, Legal, Places, cardvars
    <3> QED
      BY <1>2, <3>1, <3>2, <3>3, <3>4 DEF Serve, Mode
  <2> QED  BY <1>2, <2>1, <2>2 DEF SocketInv, NoCache, Places
<1> QED  BY <1>1, <1>2 DEF SendCmd

\* What the parts of the invariant are about that no step of the card changes.
LEMMA HostKept ==
  ASSUME SdInv, UNCHANGED <<pc, funvars, hostvars, torn, flawless>>,
         card' \in Cards \cup {Nil}, mode' \in Mode, at' \in Nat, busy' \in BOOLEAN,
         lost' \in BOOLEAN, cache' \in [Places -> Values \cup {Nil}],
         media' \in [Cards -> [Places -> Values]]
  PROVE  SdTypeOK' /\ Pos' = Pos
BY DEF SdInv, SdTypeOK, funvars, hostvars, Pos

\* The card has finished programming: what it had accepted is on it.
LEMMA ProgramStep ==
  ASSUME SdInv, Program, UNCHANGED <<pc, funvars, hostvars, torn, flawless>>
  PROVE  SdInv'
<1>1. SdTypeOK /\ SocketInv  BY DEF SdInv
<1>2. card \in Cards
  BY <1>1 DEF SdTypeOK, SocketInv, Program
<1>3. Content(card) \in [Places -> Values]
  BY <1>1, <1>2 DEF Content, SdTypeOK
<1>4. /\ busy' = FALSE /\ cache' = NoCache /\ NoCache \in [Places -> Values \cup {Nil}]
      /\ media' \in [Cards -> [Places -> Values]] /\ UNCHANGED <<card, mode, at, lost>>
  BY <1>1, <1>2, <1>3 DEF Program, SdTypeOK, NoCache
<1>5. SdTypeOK' /\ Pos' = Pos
  <2>1. /\ card' \in Cards \cup {Nil} /\ mode' \in Mode /\ at' \in Nat
        /\ busy' \in BOOLEAN /\ lost' \in BOOLEAN
    BY <1>1, <1>4 DEF SdTypeOK
  <2> QED  BY <1>4, <2>1, HostKept
<1>6. \A s \in Places : Content(home)'[s] = Content(home)[s]
  BY <1>1, <1>2, <1>4 DEF Program, Content, SdTypeOK, NoCache, hostvars
<1>7. SocketInv'  BY <1>1, <1>4 DEF SocketInv, NoCache, Places
<1>8. HomeInv' /\ AttemptInv' /\ FlawlessInv'
  BY <1>4 DEF SdInv, HomeInv, AttemptInv, FlawlessInv, funvars, hostvars
<1>9. CallInv'
  BY <1>4, <1>5 DEF SdInv, CallInv, BlockMode, funvars, hostvars
<1>10. Blocks(Pos) => Blocks(Pos)'
  BY <1>6, BlocksKept DEF funvars, hostvars
<1>11. DoneInv'
  BY <1>4, <1>10 DEF SdInv, DoneInv, Transfers, Returned, funvars, hostvars, NoCache, Places
<1> QED  BY <1>5, <1>7, <1>8, <1>9, <1>11 DEF SdInv

\* What is left when the card has been pulled out: of the initialised one, what
\* it had programmed.
LEMMA RemovedForm ==
  ASSUME SdTypeOK, Removed
  PROVE  /\ card' = Nil /\ mode' = "off" /\ at' = 0 /\ busy' = FALSE
         /\ cache' = NoCache /\ NoCache \in [Places -> Values \cup {Nil}]
         /\ lost' = (lost \/ cache # NoCache) /\ lost' \in BOOLEAN
         /\ media' = media /\ SocketInv'
         /\ UNCHANGED home /\ cache = NoCache =>
              \A s \in Places : Content(home)'[s] = Content(home)[s]
<1>1. NoCache \in [Places -> Values \cup {Nil}]  BY DEF NoCache
<1>2. /\ card' = Nil /\ mode' = "off" /\ at' = 0 /\ busy' = FALSE
      /\ cache' = NoCache /\ media' = media /\ lost' = (lost \/ cache # NoCache)
  BY Zenon DEF Removed
<1>3. lost' \in BOOLEAN  BY <1>2, Zenon DEF SdTypeOK
<1>4. SocketInv'  BY <1>2 DEF SocketInv, NoCache, Places
<1>5. ASSUME home' = home, cache = NoCache
      PROVE  \A s \in Places : Content(home)'[s] = Content(home)[s]
  BY <1>2, <1>5 DEF Content, NoCache, Places
<1> QED  BY <1>1, <1>2, <1>3, <1>4, <1>5

\* The card is pulled out, between two exchanges.
LEMMA PullOutStep ==
  ASSUME SdInv, PullOut, UNCHANGED <<pc, funvars, hostvars, torn, flawless>>
  PROVE  SdInv'
<1>1. SdTypeOK /\ Removed  BY DEF SdInv, PullOut
<1>2. /\ card' = Nil /\ mode' = "off" /\ at' = 0 /\ busy' = FALSE
      /\ cache' = NoCache /\ NoCache \in [Places -> Values \cup {Nil}]
      /\ lost' \in BOOLEAN /\ media' = media /\ SocketInv'
  BY <1>1, RemovedForm
<1>3. SdTypeOK' /\ Pos' = Pos
  <2>1. media' \in [Cards -> [Places -> Values]] /\ mode' \in Mode
    BY <1>1, <1>2 DEF SdTypeOK, Mode
  <2> QED  BY <1>2, <2>1, HostKept
<1>4. HomeInv' /\ AttemptInv'
  BY <1>2 DEF SdInv, HomeInv, AttemptInv, funvars, hostvars
<1>5. FlawlessInv'
  BY DEF PullOut, FlawlessInv
<1>6. CallInv'
  BY <1>2, <1>3 DEF SdInv, CallInv, funvars, hostvars
<1>7. Blocks(Pos) => lost' \/ Blocks(Pos)'
  BY <1>1, RemovedForm, BlocksKept DEF funvars, hostvars
<1>8. Blocks(Pos) /\ cache = NoCache => Blocks(Pos)'
  BY <1>1, RemovedForm, BlocksKept DEF funvars, hostvars
<1>9. (lost => lost') /\ (cache = NoCache => (lost' <=> lost))
  BY <1>1, RemovedForm
<1>10. DoneInv'
  BY <1>2, <1>3, <1>7, <1>8, <1>9
  DEF SdInv, DoneInv, Transfers, Returned, funvars, hostvars, NoCache, Places
<1> QED  BY <1>2, <1>3, <1>4, <1>5, <1>6, <1>10 DEF SdInv

\* A card is put in: it is without power until it is reset.
LEMMA PutInStep ==
  ASSUME SdInv, NEW c \in Cards, PutIn(c),
         UNCHANGED <<pc, funvars, hostvars, torn, flawless>>
  PROVE  SdInv'
<1>1. /\ card = Nil /\ card' = c /\ UNCHANGED <<mode, at, busy, cache, media, lost>>
      /\ SdTypeOK /\ SocketInv
  BY DEF SdInv, PutIn
<1>2. mode = "off" /\ busy = FALSE /\ cache = NoCache
  BY <1>1 DEF SocketInv, SdTypeOK
<1>3. SdTypeOK' /\ Pos' = Pos
  BY <1>1, HostKept DEF SdTypeOK
<1>4. SocketInv'
  BY <1>1, <1>2, SdAssumption DEF SocketInv, NoCache, Places
<1>5. HomeInv' /\ AttemptInv'
  BY <1>1, <1>2 DEF SdInv, HomeInv, AttemptInv, funvars, hostvars
<1>6. FlawlessInv'
  BY <1>1, <1>2, SdAssumption DEF SdInv, FlawlessInv, funvars, hostvars
<1>7. CallInv'
  BY <1>1, <1>2, <1>3 DEF SdInv, CallInv, funvars, hostvars
<1>8. \A s \in Places : Content(home)'[s] = Content(home)[s]
  BY <1>1, <1>2 DEF Content, NoCache, hostvars, Places
<1>9. Blocks(Pos) => Blocks(Pos)'
  BY <1>8, BlocksKept DEF funvars, hostvars
<1>10. DoneInv'
  BY <1>1, <1>2, <1>9
  DEF SdInv, DoneInv, Transfers, Returned, funvars, hostvars, NoCache, Places
<1> QED  BY <1>3, <1>4, <1>5, <1>6, <1>7, <1>10 DEF SdInv

-----------------------------------------------------------------------------
(* disk_initialize.                                                        *)

\* The parts of the invariant that an exchange of disk_initialize keeps.
LEMMA AttemptKeeps ==
  ASSUME SdInv, pc \in AttemptPc, pc' \in AttemptPc \cup {"idle"},
         InitKeeps, UNCHANGED <<torn, flawless>>,
         NEW cmd, NEW arg, NEW r, SendCmd(cmd, arg, r),
         stat' \in [noinit : BOOLEAN, nodisk : BOOLEAN, protect : BOOLEAN],
         ty' \in {"none", "SD1", "MMC", "SD2", "SD2|BLOCK"}
  PROVE  SdTypeOK' /\ SocketInv' /\ CallInv' /\ DoneInv' /\ op' = "init"
<1>1. SdTypeOK /\ SocketInv /\ op = "init"  BY DEF SdInv, AttemptInv
<1>2. /\ UNCHANGED <<card, busy, cache, media>> /\ SocketInv'
      /\ mode' \in Mode /\ at' \in Nat /\ lost' \in BOOLEAN
  BY <1>1, Commanded
<1>3. op' = "init" /\ UNCHANGED <<sector, asked, count, buff>>
  BY <1>1 DEF InitKeeps, funvars
<1>4. SdTypeOK'  BY <1>1, <1>2, <1>3 DEF SdTypeOK, Pc
<1>5. CallInv' /\ DoneInv'
  BY <1>3 DEF CallInv, DoneInv, Transfers, Returned, AttemptPc, CallPc
<1> QED  BY <1>2, <1>3, <1>4, <1>5

\* What the next step and the end of disk_initialize assign.
LEMMA StepForm ==
  ASSUME SdTypeOK, NEW p, NEW t, Step(p, t)
  PROVE  /\ pc' = p /\ stat' = stat /\ home' = home
         /\ stat' \in [noinit : BOOLEAN, nodisk : BOOLEAN, protect : BOOLEAN]
BY DEF Step, Goto, SdTypeOK

\* The end: the card is known if there is one.
LEMMA FinishedForm ==
  ASSUME SdTypeOK, NEW t, Finished(t)
  PROVE  /\ pc' = "idle" /\ ty' = t /\ (stat'.noinit <=> t = "none")
         /\ stat' \in [noinit : BOOLEAN, nodisk : BOOLEAN, protect : BOOLEAN]
         /\ t # "none" => home' = card
<1>1. (t = "none") \in BOOLEAN  OBVIOUS
<1>2. ASSUME NEW b \in BOOLEAN
      PROVE  /\ [stat EXCEPT !.noinit = b].noinit = b
             /\ [stat EXCEPT !.noinit = b] \in
                  [noinit : BOOLEAN, nodisk : BOOLEAN, protect : BOOLEAN]
  BY DEF SdTypeOK
<1>3. stat' = [stat EXCEPT !.noinit = (t = "none")]  BY Zenon DEF Finished
<1> QED  BY <1>1, <1>2, <1>3 DEF Finished, Return

\* An exchange that is not the end of a success leaves HomeInv with nothing to say.
LEMMA StillUnknown ==
  ASSUME pc' \in AttemptPc \/ (pc' = "idle" /\ stat'.noinit)
  PROVE  HomeInv'
BY DEF HomeInv, AttemptPc, CallPc, IoctlPc

\* CMD0 resets whatever card is there.
LEMMA Cmd0Step ==
  ASSUME SdInv, Cmd0, UNCHANGED <<torn, flawless>>
  PROVE  SdInv'
<1>1. SdTypeOK /\ SocketInv /\ pc = "CMD0" /\ pc \in AttemptPc
  BY DEF SdInv, Cmd0, AttemptPc
<1>2. PICK r \in Answers :
        /\ SendCmd("CMD0", 0, r)
        /\ IF r = 1 THEN Step("CMD8", 0) /\ UNCHANGED ty ELSE Finished("none")
  BY DEF Cmd0
<1>3. CASE r = 1
  <2>1. /\ pc' = "CMD8" /\ pc' \in AttemptPc /\ ty' = ty
        /\ stat' \in [noinit : BOOLEAN, nodisk : BOOLEAN, protect : BOOLEAN]
        /\ ty' \in {"none", "SD1", "MMC", "SD2", "SD2|BLOCK"}
    BY <1>1, <1>2, <1>3, StepForm DEF AttemptPc, SdTypeOK
  <2>2. mode' = "idle"
    BY <1>2, <1>3 DEF SendCmd, Serve
  <2>3. SdTypeOK' /\ SocketInv' /\ CallInv' /\ DoneInv' /\ op' = "init"
    BY <1>1, <1>2, <2>1, AttemptKeeps DEF Cmd0
  <2>4. HomeInv' /\ AttemptInv' /\ FlawlessInv'
    BY <2>1, <2>2, <2>3, StillUnknown DEF AttemptInv, FlawlessInv
  <2> QED  BY <2>3, <2>4 DEF SdInv
<1>4. CASE r # 1
  <2>1. /\ pc' = "idle" /\ stat'.noinit /\ ty' = "none"
        /\ stat' \in [noinit : BOOLEAN, nodisk : BOOLEAN, protect : BOOLEAN]
    BY <1>1, <1>2, <1>4, FinishedForm
  <2>2. SdTypeOK' /\ SocketInv' /\ CallInv' /\ DoneInv' /\ op' = "init"
    BY <1>1, <1>2, <2>1, AttemptKeeps DEF Cmd0
  <2>3. flawless' => mode' = "off"
    BY <1>1, <1>2, <1>4, <2>1
    DEF SendCmd, Serve, cardvars, SdTypeOK, SocketInv
  <2>4. HomeInv' /\ AttemptInv' /\ FlawlessInv'
    BY <2>1, <2>2, <2>3, StillUnknown DEF AttemptInv, FlawlessInv, AttemptPc
  <2> QED  BY <2>2, <2>4 DEF SdInv
<1> QED  BY <1>3, <1>4

\* CMD8 finds the card reset, or the socket without power, and leaves it so.
LEMMA Cmd8Step ==
  ASSUME SdInv, Cmd8, UNCHANGED <<torn, flawless>>
  PROVE  SdInv'
<1>1. /\ SdTypeOK /\ SocketInv /\ pc = "CMD8" /\ pc \in AttemptPc
      /\ mode \in {"off", "idle"}
  BY DEF SdInv, Cmd8, AttemptPc, AttemptInv
<1>2. PICK r \in Answers :
        /\ SendCmd("CMD8", 0, r)
        /\ \/ r = 1 /\ Step("ACMD41 HCS", Tries) /\ UNCHANGED ty
           \/ r = 1 /\ ~flawless /\ Finished("none")
           \/ r # 1 /\ Step("probe", 0) /\ UNCHANGED ty
  BY DEF Cmd8
<1>3. /\ mode' = mode /\ card' = card
      /\ flawless /\ mode = "idle" => r = IF card \in Mmc \cup Sd1 THEN 5 ELSE 1
  <2>1. CASE r = 255 /\ UNCHANGED cardvars /\ (flawless => card = Nil \/ mode # "idle")
    BY <1>1, <2>1 DEF cardvars, SocketInv
  <2>2. CASE Serve("CMD8", 0, r)
    BY <1>1, <2>2 DEF cardvars, Serve
  <2> QED  BY <1>2, <2>1, <2>2 DEF SendCmd
<1>4. CASE r = 1 /\ ~flawless /\ Finished("none")
  <2>1. /\ pc' = "idle" /\ stat'.noinit /\ ty' = "none"
        /\ stat' \in [noinit : BOOLEAN, nodisk : BOOLEAN, protect : BOOLEAN]
    BY <1>1, <1>4, FinishedForm
  <2>2. SdTypeOK' /\ SocketInv' /\ CallInv' /\ DoneInv' /\ op' = "init"
    BY <1>1, <1>2, <2>1, AttemptKeeps DEF Cmd8
  <2>3. HomeInv' /\ AttemptInv' /\ FlawlessInv'
    BY <1>4, <2>1, StillUnknown DEF AttemptInv, FlawlessInv, AttemptPc
  <2> QED  BY <2>2, <2>3 DEF SdInv
<1>5. CASE \/ r = 1 /\ Step("ACMD41 HCS", Tries) /\ UNCHANGED ty
           \/ r # 1 /\ Step("probe", 0) /\ UNCHANGED ty
  <2>1. /\ pc' = IF r = 1 THEN "ACMD41 HCS" ELSE "probe"
        /\ pc' \in AttemptPc
        /\ stat' \in [noinit : BOOLEAN, nodisk : BOOLEAN, protect : BOOLEAN]
        /\ ty' \in {"none", "SD1", "MMC", "SD2", "SD2|BLOCK"}
    BY <1>1, <1>5, StepForm DEF AttemptPc, SdTypeOK
  <2>2. SdTypeOK' /\ SocketInv' /\ CallInv' /\ DoneInv' /\ op' = "init"
    BY <1>1, <1>2, <2>1, AttemptKeeps DEF Cmd8
  <2>3. HomeInv' /\ AttemptInv'
    BY <1>1, <1>3, <2>1, <2>2, StillUnknown DEF AttemptInv
  <2>4. FlawlessInv'
    <3>1. flawless /\ card \notin Mmc => mode = "idle"
      BY <1>1 DEF SdInv, FlawlessInv
    <3>2. flawless /\ card \notin Mmc => (r = 1 <=> card \notin Sd1)
      BY <1>3, <3>1
    <3>3. (pc' = "ACMD41 HCS" /\ r = 1) \/ (pc' = "probe" /\ r # 1)
      BY <2>1
    <3> QED  BY <1>3, <3>1, <3>2, <3>3 DEF FlawlessInv
  <2> QED  BY <2>2, <2>3, <2>4 DEF SdInv
<1> QED  BY <1>2, <1>4, <1>5

\* Another attempt, or the end without a card.
LEMMA RetryForm ==
  ASSUME SdTypeOK, NEW p \in AttemptPc, Retry(p)
  PROVE  /\ \/ pc' = p
            \/ pc' = "idle" /\ stat'.noinit
         /\ stat' \in [noinit : BOOLEAN, nodisk : BOOLEAN, protect : BOOLEAN]
         /\ ty' \in {"none", "SD1", "MMC", "SD2", "SD2|BLOCK"}
         /\ pc' = p => ty' = ty
<1>1. CASE Finished("none")
  BY <1>1, FinishedForm DEF AttemptPc
<1>2. CASE Step(p, tries - 1) /\ UNCHANGED ty
  BY <1>2, StepForm DEF SdTypeOK
<1> QED  BY <1>1, <1>2 DEF Retry

\* ACMD41 with the HCS bit: a good card of version 2 answers at once.
LEMMA LeaveIdleHcsStep ==
  ASSUME SdInv, LeaveIdleHcs, UNCHANGED <<torn, flawless>>
  PROVE  SdInv'
<1>1. SdTypeOK /\ SocketInv /\ pc = "ACMD41 HCS" /\ pc \in AttemptPc /\ FlawlessInv
  BY DEF SdInv, LeaveIdleHcs, AttemptPc
<1>2. PICK r \in Answers :
        /\ SendCmd("ACMD41", 1, r)
        /\ IF r = 0 THEN Step("OCR", 0) /\ UNCHANGED ty ELSE Retry("ACMD41 HCS")
  BY DEF LeaveIdleHcs
<1>3. flawless /\ card \notin Mmc => r = 0 /\ mode' = "tran" /\ card' = card
  BY <1>1, <1>2 DEF SendCmd, Serve, cardvars, SocketInv, FlawlessInv, Becomes
<1>4. card' = card  BY <1>1, <1>2, Commanded
<1>5. /\ \/ pc' = "OCR"
         \/ pc' = "ACMD41 HCS" /\ r # 0
         \/ pc' = "idle" /\ stat'.noinit /\ r # 0
      /\ stat' \in [noinit : BOOLEAN, nodisk : BOOLEAN, protect : BOOLEAN]
      /\ ty' \in {"none", "SD1", "MMC", "SD2", "SD2|BLOCK"}
  <2>1. CASE r = 0
    BY <1>1, <1>2, <2>1, StepForm DEF SdTypeOK
  <2>2. CASE r # 0
    BY <1>1, <1>2, <2>2, RetryForm
  <2> QED  BY <2>1, <2>2
<1>6. pc' \in AttemptPc \cup {"idle"}  BY <1>5 DEF AttemptPc
<1>7. SdTypeOK' /\ SocketInv' /\ CallInv' /\ DoneInv' /\ op' = "init"
  BY <1>1, <1>2, <1>5, <1>6, AttemptKeeps DEF LeaveIdleHcs
<1>8. HomeInv' /\ AttemptInv'
  BY <1>5, <1>7, StillUnknown DEF AttemptInv, AttemptPc
<1>9. FlawlessInv'
  BY <1>3, <1>4, <1>5 DEF FlawlessInv
<1> QED  BY <1>7, <1>8, <1>9 DEF SdInv

\* The OCR tells the addresses the card knows.
LEMMA ReadOcrStep ==
  ASSUME SdInv, ReadOcr, UNCHANGED <<torn, flawless>>
  PROVE  SdInv'
<1>1. SdTypeOK /\ SocketInv /\ pc = "OCR" /\ pc \in AttemptPc /\ FlawlessInv
  BY DEF SdInv, ReadOcr, AttemptPc
<1> DEFINE t(r) == IF r # 0 THEN "none" ELSE IF card \in Sdhc THEN "SD2|BLOCK" ELSE "SD2"
<1>2. PICK r \in Answers : SendCmd("CMD58", 0, r) /\ Finished(t(r))
  BY DEF ReadOcr
<1>3. /\ r = 0 => mode = "tran"
      /\ flawless /\ card \notin Mmc => r = 0
      /\ mode' = mode /\ card' = card
  BY <1>1, <1>2 DEF SendCmd, Serve, cardvars, SocketInv, FlawlessInv
<1>4. /\ pc' = "idle" /\ ty' = t(r) /\ (stat'.noinit <=> t(r) = "none")
      /\ stat' \in [noinit : BOOLEAN, nodisk : BOOLEAN, protect : BOOLEAN]
      /\ t(r) # "none" => home' = card
  <2> HIDE DEF t
  <2> QED  BY <1>1, <1>2, FinishedForm
<1>5. SdTypeOK' /\ SocketInv' /\ CallInv' /\ DoneInv' /\ op' = "init"
  BY <1>1, <1>2, <1>4, AttemptKeeps DEF ReadOcr
<1>6. HomeInv'
  BY <1>3, <1>4 DEF HomeInv, AttemptPc, CallPc, IoctlPc
<1>7. AttemptInv' /\ FlawlessInv'
  BY <1>3, <1>4 DEF AttemptInv, FlawlessInv, AttemptPc
<1> QED  BY <1>5, <1>6, <1>7 DEF SdInv

\* What ACMD41 without the HCS bit does: no card with block addresses leaves the
\* idle state, a good card of version 1 does.
LEMMA LeftIdle ==
  ASSUME SdTypeOK, SocketInv, NEW r, SendCmd("ACMD41", 0, r)
  PROVE  /\ card' = card
         /\ mode \in {"off", "idle"} \/ (mode = "tran" /\ card \notin Sdhc) =>
              mode' \in {"off", "idle"} \/ (mode' = "tran" /\ card \notin Sdhc)
         /\ flawless /\ card \notin Mmc /\ (mode = "tran" \/ (mode = "idle" /\ card \in Sd1)) =>
              mode' = "tran" /\ r = 0
BY SdAssumption DEF SendCmd, Serve, cardvars, SocketInv, Becomes

\* SD version 1 or MMC: the first attempt to leave the idle state.
LEMMA ProbeStep ==
  ASSUME SdInv, Probe, UNCHANGED <<torn, flawless>>
  PROVE  SdInv'
<1>1. SdTypeOK /\ SocketInv /\ pc = "probe" /\ pc \in AttemptPc /\ FlawlessInv
      /\ AttemptInv
  BY DEF SdInv, Probe, AttemptPc
<1>2. PICK r \in Answers :
        SendCmd("ACMD41", 0, r) /\ ty' = IF r <= 1 THEN "SD1" ELSE "MMC"
  BY DEF Probe
<1>3. /\ pc' = "ACMD41" /\ pc' \in AttemptPc
      /\ stat' \in [noinit : BOOLEAN, nodisk : BOOLEAN, protect : BOOLEAN]
  BY <1>1, StepForm DEF Probe, AttemptPc
<1>4. ty' \in {"SD1", "MMC"}  BY <1>2
<1>5. SdTypeOK' /\ SocketInv' /\ CallInv' /\ DoneInv' /\ op' = "init"
  BY <1>1, <1>2, <1>3, <1>4, AttemptKeeps DEF Probe
<1>6. HomeInv' /\ AttemptInv' /\ FlawlessInv'
  BY <1>1, <1>2, <1>3, <1>4, <1>5, StillUnknown, LeftIdle
  DEF AttemptInv, FlawlessInv
<1> QED  BY <1>5, <1>6 DEF SdInv

\* The further attempts.
LEMMA LeaveIdleStep ==
  ASSUME SdInv, LeaveIdle, UNCHANGED <<torn, flawless>>
  PROVE  SdInv'
<1>1. SdTypeOK /\ SocketInv /\ pc = "ACMD41" /\ pc \in AttemptPc /\ FlawlessInv
      /\ AttemptInv
  BY DEF SdInv, LeaveIdle, AttemptPc
<1>2. PICK r \in Answers :
        /\ SendCmd("ACMD41", 0, r)
        /\ IF r = 0 THEN Step("CMD16", 0) /\ UNCHANGED ty ELSE Retry("ACMD41")
  BY DEF LeaveIdle
<1>3. /\ \/ pc' = "CMD16" /\ ty' = ty /\ r = 0
         \/ pc' = "ACMD41" /\ ty' = ty /\ r # 0
         \/ pc' = "idle" /\ stat'.noinit /\ r # 0
      /\ stat' \in [noinit : BOOLEAN, nodisk : BOOLEAN, protect : BOOLEAN]
      /\ ty' \in {"none", "SD1", "MMC", "SD2", "SD2|BLOCK"}
  <2>1. CASE r = 0
    BY <1>1, <1>2, <2>1, StepForm DEF SdTypeOK
  <2>2. CASE r # 0
    BY <1>1, <1>2, <2>2, RetryForm
  <2> QED  BY <2>1, <2>2
<1>4. pc' \in AttemptPc \cup {"idle"}  BY <1>3 DEF AttemptPc
<1>5. SdTypeOK' /\ SocketInv' /\ CallInv' /\ DoneInv' /\ op' = "init"
  BY <1>1, <1>2, <1>3, <1>4, AttemptKeeps DEF LeaveIdle
<1>6. HomeInv'
  BY <1>3, <1>4, StillUnknown DEF AttemptPc
<1>7. AttemptInv' /\ FlawlessInv'
  BY <1>1, <1>2, <1>3, <1>5, LeftIdle DEF AttemptInv, FlawlessInv, AttemptPc
<1> QED  BY <1>5, <1>6, <1>7 DEF SdInv

\* CMD16: only a card that has left the idle state takes it.
LEMMA SetBlockLengthStep ==
  ASSUME SdInv, SetBlockLength, UNCHANGED <<torn, flawless>>
  PROVE  SdInv'
<1>1. SdTypeOK /\ SocketInv /\ pc = "CMD16" /\ pc \in AttemptPc /\ FlawlessInv
      /\ AttemptInv
  BY DEF SdInv, SetBlockLength, AttemptPc
<1>2. PICK r \in Answers :
        SendCmd("CMD16", 512, r) /\ Finished(IF r = 0 THEN ty ELSE "none")
  BY DEF SetBlockLength
<1>3. /\ r = 0 => mode = "tran"
      /\ flawless /\ card \notin Mmc => r = 0
      /\ mode' = mode /\ card' = card
  BY <1>1, <1>2 DEF SendCmd, Serve, cardvars, SocketInv, FlawlessInv
<1>4. ty \in {"SD1", "MMC"} /\ (mode = "tran" => card \notin Sdhc)
  BY <1>1 DEF AttemptInv
<1>5. /\ pc' = "idle" /\ ty' = (IF r = 0 THEN ty ELSE "none")
      /\ stat' \in [noinit : BOOLEAN, nodisk : BOOLEAN, protect : BOOLEAN]
      /\ stat'.noinit <=> r # 0
      /\ r = 0 => home' = card
  <2>1. CASE r = 0  BY <1>1, <1>2, <1>4, <2>1, FinishedForm
  <2>2. CASE r # 0  BY <1>1, <1>2, <2>2, FinishedForm
  <2> QED  BY <2>1, <2>2
<1>6. SdTypeOK' /\ SocketInv' /\ CallInv' /\ DoneInv' /\ op' = "init"
  BY <1>1, <1>2, <1>4, <1>5, AttemptKeeps DEF SetBlockLength
<1>7. HomeInv'
  BY <1>3, <1>4, <1>5 DEF HomeInv, AttemptPc, CallPc, IoctlPc
<1>8. AttemptInv' /\ FlawlessInv'
  BY <1>3, <1>5 DEF AttemptInv, FlawlessInv, AttemptPc
<1> QED  BY <1>6, <1>7, <1>8 DEF SdInv

-----------------------------------------------------------------------------
(* The call and disk_status.                                               *)

\* A function is called.
LEMMA CallStep ==
  ASSUME SdInv, Calls, UNCHANGED flawless
  PROVE  SdInv'
<1>1. SdTypeOK /\ MaxCount \in Nat  BY SdAssumption DEF SdInv
<1>2. /\ pc = "idle" /\ pc' = "pins" /\ count' = asked' /\ asked' \in 0 .. MaxCount
      /\ op' \in {"status", "init", "sync", "csd", "read", "write"}
      /\ sector' \in Nat /\ buff' \in [0 .. MaxCount - 1 -> Values \cup {Junk}]
      /\ op' = "write" => \A i \in 0 .. asked' - 1 : buff'[i] \in Values
      /\ UNCHANGED <<stat, ty, home, cardvars, flawless>>
  <2>1. CASE \E f \in {"status", "init", "sync", "csd"} : Call(f, 0, 0, NoData)
    BY <1>1, <2>1 DEF Call, NoData
  <2>2. CASE \E s \in Places, n \in 0..MaxCount : Call("read", s, n, NoData)
    BY <1>1, <2>2 DEF Call, NoData, Places
  <2>3. CASE \E s \in Places, n \in 0..MaxCount : \E d \in [0 .. n - 1 -> Values] :
               Call("write", s, n, [i \in 0 .. MaxCount - 1 |->
                                      IF i < n THEN d[i] ELSE Junk])
    <3>0. PICK s \in Places, n \in 0..MaxCount : \E d \in [0 .. n - 1 -> Values] :
                 Call("write", s, n, [i \in 0 .. MaxCount - 1 |->
                                        IF i < n THEN d[i] ELSE Junk])
      BY <2>3
    <3>1. PICK d \in [0 .. n - 1 -> Values] :
                 Call("write", s, n, [i \in 0 .. MaxCount - 1 |->
                                        IF i < n THEN d[i] ELSE Junk])
      BY <3>0
    <3>2. \A i \in 0 .. MaxCount - 1 : i < n => d[i] \in Values
      BY <1>1
    <3> QED  BY <1>1, <3>1, <3>2 DEF Call, Places
  <2> QED  BY <2>1, <2>2, <2>3 DEF Calls
<1>3. SdTypeOK'
  <2>1. /\ card' \in Cards \cup {Nil} /\ mode' \in Mode /\ at' \in Nat
        /\ busy' \in BOOLEAN /\ lost' \in BOOLEAN
        /\ cache' \in [Places -> Values \cup {Nil}]
        /\ media' \in [Cards -> [Places -> Values]]
    BY <1>1, <1>2 DEF SdTypeOK, cardvars
  <2>2. count' \in 0 .. asked'  BY <1>1, <1>2
  <2>3. /\ stat' \in [noinit : BOOLEAN, nodisk : BOOLEAN, protect : BOOLEAN]
        /\ ty' \in {"none", "SD1", "MMC", "SD2", "SD2|BLOCK"} /\ pc' \in Pc
    BY <1>1, <1>2 DEF SdTypeOK, Pc
  <2> QED  BY <1>2, <2>1, <2>2, <2>3 DEF SdTypeOK
<1>4. SocketInv'
  BY <1>2 DEF SdInv, SocketInv, cardvars, NoCache, Places
<1>5. HomeInv'
  BY <1>2 DEF SdInv, HomeInv, cardvars, AttemptPc, CallPc, IoctlPc
<1>6. AttemptInv' /\ FlawlessInv' /\ CallInv' /\ DoneInv'
  BY <1>2 DEF AttemptInv, FlawlessInv, CallInv, DoneInv, Transfers, Returned, AttemptPc,
     CallPc
<1> QED  BY <1>3, <1>4, <1>5, <1>6 DEF SdInv

\* How a function goes on when it has the status.
LEMMA ResumeForm ==
  ASSUME SdTypeOK, NEW s \in [noinit : BOOLEAN, nodisk : BOOLEAN, protect : BOOLEAN],
         Resume(s)
  PROVE  \/ pc' = "idle" /\ (res' = "OK" => op = "status" \/ (op = "init" /\ s.nodisk))
            /\ (op = "init" => s.nodisk)
         \/ pc' = "CMD0" /\ op = "init"
         \/ pc' = "data" /\ ~s.noinit /\ op \in {"read", "write"} /\ count # 0
            /\ (op = "write" => ~s.protect)
         \/ pc' = "ready" /\ ~s.noinit /\ op = "sync"
         \/ pc' = "CMD9" /\ ~s.noinit /\ op = "csd"
BY DEF Resume, Return, Goto, SdTypeOK

\* What the switches and CMD58 leave alone.
LEMMA StatusKeeps ==
  ASSUME SdInv, HostKeeps, UNCHANGED <<cardvars, torn, flawless>>, pc' \in Pc,
         stat' \in [noinit : BOOLEAN, nodisk : BOOLEAN, protect : BOOLEAN]
  PROVE  SdTypeOK' /\ SocketInv' /\ Pos' = Pos
<1> USE DEF SdInv, HostKeeps, funvars, cardvars
<1>1. SdTypeOK'  BY DEF SdTypeOK
<1>2. SocketInv'  BY DEF SocketInv, NoCache, Places
<1> QED  BY <1>1, <1>2 DEF Pos

\* The switches are looked at.
LEMMA PinsStep ==
  ASSUME SdInv, Pins, UNCHANGED <<torn, flawless>>
  PROVE  SdInv'
<1> DEFINE s == IF card = Nil
                THEN [noinit |-> TRUE, nodisk |-> TRUE, protect |-> FALSE]
                ELSE [noinit |-> stat.noinit, nodisk |-> FALSE,
                      protect |-> card \in Protected]
<1>1. /\ pc = "pins" /\ stat' = s /\ HostKeeps /\ UNCHANGED cardvars
      /\ IF s.noinit THEN Resume(s) ELSE Goto("CMD58")
      /\ SdTypeOK /\ SocketInv /\ CallInv /\ HomeInv
  BY DEF Pins, SdInv
<1>2. /\ s \in [noinit : BOOLEAN, nodisk : BOOLEAN, protect : BOOLEAN]
      /\ s.nodisk <=> card = Nil
      /\ card # Nil => (s.protect <=> card \in Protected)
      /\ ~s.noinit => card # Nil /\ ~stat.noinit
  <2>1. CASE card = Nil  BY <2>1
  <2>2. CASE card # Nil
    <3>1. (card \in Protected) \in BOOLEAN /\ stat.noinit \in BOOLEAN
      BY <1>1 DEF SdTypeOK
    <3>2. s = [noinit |-> stat.noinit, nodisk |-> FALSE, protect |-> card \in Protected]
      BY <2>2, Zenon
    <3>3. \A a, b, d \in BOOLEAN :
            LET t == [noinit |-> a, nodisk |-> b, protect |-> d] IN
            /\ t \in [noinit : BOOLEAN, nodisk : BOOLEAN, protect : BOOLEAN]
            /\ t.noinit = a /\ t.nodisk = b /\ t.protect = d
      OBVIOUS
    <3> HIDE DEF s
    <3> QED  BY <2>2, <3>1, <3>2, <3>3
  <2> QED  BY <2>1, <2>2
<1> HIDE DEF s
<1>3. \/ /\ s.noinit
         /\ \/ pc' = "idle" /\ (res' = "OK" => op \in {"status", "init"})
               /\ (op = "init" => s.nodisk)
            \/ pc' = "CMD0" /\ op = "init"
      \/ ~s.noinit /\ pc' = "CMD58"
  <2>1. CASE s.noinit  BY <1>1, <1>2, <2>1, ResumeForm
  <2>2. CASE ~s.noinit  BY <1>1, <2>2 DEF Goto
  <2> QED  BY <2>1, <2>2
<1>4. pc' \in Pc  BY <1>3 DEF Pc, AttemptPc
<1>5. SdTypeOK' /\ SocketInv' /\ Pos' = Pos
  BY <1>1, <1>2, <1>4, StatusKeeps
<1>6. UNCHANGED <<op, sector, asked, count, buff, ty, home, card, mode, at, busy, cache, lost>>
  BY <1>1 DEF HostKeeps, funvars, cardvars
<1>7. HomeInv'
  BY <1>1, <1>2, <1>3, <1>6 DEF HomeInv, AttemptPc, CallPc, IoctlPc
<1>8. AttemptInv'  BY <1>3, <1>6 DEF AttemptInv, AttemptPc
<1>9. FlawlessInv'
  BY <1>1, <1>2, <1>3, <1>6 DEF FlawlessInv, SocketInv
<1>10. CallInv'
  BY <1>1, <1>2, <1>3, <1>6 DEF CallInv, CallPc, SocketInv
<1>11. DoneInv'
  BY <1>3, <1>6 DEF DoneInv, Transfers, Returned
<1> QED  BY <1>5, <1>7, <1>8, <1>9, <1>10, <1>11 DEF SdInv

\* Whether the card is still initialised: one that answers 0 has not been
\* without power and is ready.
LEMMA Ask58Step ==
  ASSUME SdInv, Ask58, UNCHANGED <<torn, flawless>>
  PROVE  SdInv'
<1>1. /\ pc = "CMD58" /\ HostKeeps
      /\ SdTypeOK /\ SocketInv /\ CallInv /\ HomeInv
  BY DEF Ask58, SdInv
<1>2. PICK r \in Answers :
        /\ SendCmd("CMD58", 0, r)
        /\ stat' = [stat EXCEPT !.noinit = (r # 0)] /\ Resume(stat')
  BY DEF Ask58
<1>3. UNCHANGED cardvars /\ (r = 0 => mode = "tran" /\ ~busy)
  BY <1>1, <1>2 DEF SendCmd, Serve
<1>4. /\ stat' \in [noinit : BOOLEAN, nodisk : BOOLEAN, protect : BOOLEAN]
      /\ stat'.noinit <=> r # 0
      /\ stat'.nodisk = FALSE /\ stat'.protect = stat.protect
  <2>1. (r # 0) \in BOOLEAN  OBVIOUS
  <2>2. ASSUME NEW b \in BOOLEAN
        PROVE  LET t == [stat EXCEPT !.noinit = b] IN
               /\ t \in [noinit : BOOLEAN, nodisk : BOOLEAN, protect : BOOLEAN]
               /\ t.noinit = b /\ t.nodisk = stat.nodisk /\ t.protect = stat.protect
    BY <1>1 DEF SdTypeOK
  <2>3. stat.nodisk = FALSE  BY <1>1 DEF CallInv, SdTypeOK
  <2> QED  BY <1>2, <2>1, <2>2, <2>3
<1>5. \/ pc' = "idle" /\ op # "init" /\ (res' = "OK" => op = "status")
      \/ pc' = "CMD0" /\ op = "init"
      \/ /\ r = 0
         /\ \/ pc' = "data" /\ op \in {"read", "write"} /\ count # 0
               /\ (op = "write" => ~stat'.protect)
            \/ pc' = "ready" /\ op = "sync"
            \/ pc' = "CMD9" /\ op = "csd"
  BY <1>1, <1>2, <1>4, ResumeForm
<1>6. pc' \in Pc  BY <1>5 DEF Pc, AttemptPc, CallPc, IoctlPc
<1>7. SdTypeOK' /\ SocketInv' /\ Pos' = Pos
  BY <1>1, <1>3, <1>4, <1>6, StatusKeeps
<1>8. UNCHANGED <<op, sector, asked, count, buff, ty, home, card, mode, at, busy, cache, lost>>
  BY <1>1, <1>3 DEF HostKeeps, funvars, cardvars
<1>9. HomeInv'
  BY <1>1, <1>4, <1>5, <1>8 DEF HomeInv, AttemptPc, CallPc, IoctlPc
<1>10. AttemptInv' /\ FlawlessInv'
  BY <1>5, <1>8 DEF AttemptInv, FlawlessInv, AttemptPc
<1>11. CallInv'
  BY <1>1, <1>4, <1>5, <1>8 DEF CallInv, CallPc, SdTypeOK
<1>12. r = 0 => cache = NoCache /\ ~lost
  BY <1>1, <1>3 DEF SocketInv
<1>13. DoneInv'
  BY <1>5, <1>8, <1>12 DEF DoneInv, Transfers, Returned, NoCache, Places
<1> QED  BY <1>7, <1>9, <1>10, <1>11, <1>13 DEF SdInv

-----------------------------------------------------------------------------
(* The transfers.                                                          *)

\* What the exchanges of a call leave alone, as long as they neither reset the
\* card nor bring one back.
LEMMA RunForm ==
  ASSUME SdInv, pc \in CallPc \cup IoctlPc, pc' \in CallPc \cup IoctlPc \cup {"idle"},
         RunKeeps, UNCHANGED flawless,
         card' \in Cards \cup {Nil}, mode' \in Mode, at' \in Nat, busy' \in BOOLEAN,
         lost' \in BOOLEAN, cache' \in [Places -> Values \cup {Nil}],
         media' \in [Cards -> [Places -> Values]],
         mode' # "off" => card' = card /\ mode # "off" /\ mode' # "idle",
         count' \in 0 .. asked, buff' \in [0 .. MaxCount - 1 -> Values \cup {Junk}],
         op = "write" => buff' = buff
  PROVE  SdTypeOK' /\ HomeInv' /\ AttemptInv' /\ FlawlessInv' /\ op' = op /\ op # "init"
<1>1. SdTypeOK /\ HomeInv /\ CallInv  BY DEF SdInv
<1>2. UNCHANGED <<op, sector, asked, stat, ty, home>>  BY DEF RunKeeps, funvars
<1>3. SdTypeOK'
  <2>1. pc' \in Pc  BY DEF Pc
  <2>2. op = "write" => \A i \in 0 .. asked - 1 : buff'[i] \in Values
    BY <1>1 DEF SdTypeOK
  <2>3. /\ stat' \in [noinit : BOOLEAN, nodisk : BOOLEAN, protect : BOOLEAN]
        /\ ty' \in {"none", "SD1", "MMC", "SD2", "SD2|BLOCK"}
        /\ op' \in {"status", "init", "sync", "csd", "read", "write"}
        /\ sector' \in Nat /\ asked' \in 0 .. MaxCount /\ count' \in 0 .. asked'
        /\ op' = "write" => \A i \in 0 .. asked' - 1 : buff'[i] \in Values
    BY <1>1, <1>2, <2>2 DEF SdTypeOK
  <2> QED  BY <2>1, <2>3 DEF SdTypeOK
<1>4. op # "init"  BY <1>1 DEF CallInv, CallPc, IoctlPc
<1>5. ~stat.noinit /\ pc \notin AttemptPc /\ pc' \notin AttemptPc
  BY <1>1 DEF HomeInv, CallPc, IoctlPc, AttemptPc
<1>6. HomeInv'  BY <1>1, <1>2, <1>5 DEF HomeInv, CallPc, IoctlPc, AttemptPc
<1>7. AttemptInv' /\ FlawlessInv'
  BY <1>2, <1>4, <1>5 DEF AttemptInv, FlawlessInv, AttemptPc
<1> QED  BY <1>2, <1>3, <1>4, <1>6, <1>7

\* The same for an exchange that is a command.
LEMMA RunCommand ==
  ASSUME SdInv, pc \in CallPc \cup IoctlPc, pc' \in CallPc \cup IoctlPc \cup {"idle"},
         RunKeeps, UNCHANGED <<count, buff, flawless>>,
         NEW cmd \in {"CMD12", "ACMD23", "CMD17", "CMD18", "CMD24", "CMD25", "CMD9"},
         NEW arg, NEW r, SendCmd(cmd, arg, r)
  PROVE  /\ SdTypeOK' /\ SocketInv' /\ HomeInv' /\ AttemptInv' /\ FlawlessInv'
         /\ op' = op /\ Pos' = Pos /\ (Blocks(Pos) => Blocks(Pos)')
         /\ UNCHANGED <<card, cache, lost, busy, sector, asked, stat, home>>
         /\ mode' # "off" => mode # "off"
         /\ r = 0 => ~busy /\ cache = NoCache /\ mode # "off"
         /\ r = 0 /\ cmd # "CMD12" => mode = "tran"
<1>1. SdTypeOK /\ SocketInv  BY DEF SdInv
<1>2. /\ UNCHANGED <<card, busy, cache, media>> /\ SocketInv'
      /\ mode' \in Mode /\ at' \in Nat /\ lost' \in BOOLEAN
  BY <1>1, Commanded
<1>3. UNCHANGED <<op, sector, asked, home, stat>>  BY DEF RunKeeps, funvars
<1>4. /\ lost' = lost
      /\ mode' # "off" => mode # "off"
      /\ mode' = "idle" => mode = "idle"
      /\ r = 0 => ~busy /\ mode # "off"
      /\ r = 0 /\ cmd # "CMD12" => mode = "tran"
  BY DEF SendCmd, Serve, Becomes, Transfer, cardvars
<1>5. mode = "off" \/ mode # "idle"
  BY DEF SdInv, HomeInv, CallPc, IoctlPc, AttemptPc
<1>6. SdTypeOK' /\ HomeInv' /\ AttemptInv' /\ FlawlessInv'
  BY <1>1, <1>2, <1>3, <1>4, <1>5, RunForm DEF SdTypeOK
<1>7. Blocks(Pos) => Blocks(Pos)'
  BY <1>2, <1>3, ContentKept, BlocksKept
<1>8. Pos' = Pos  BY <1>3 DEF Pos
<1>9. r = 0 => cache = NoCache  BY <1>1, <1>4 DEF SocketInv
<1> QED  BY <1>2, <1>3, <1>4, <1>6, <1>7, <1>8, <1>9

\* The state into which a data command takes the card.
ModeOf(cmd) == CASE cmd = "CMD17" -> "read"  [] cmd = "CMD18" -> "reads"
                 [] cmd = "CMD24" -> "write" [] cmd = "CMD25" -> "writes"

\* A data command: the initialised card is addressed at the sector of the call,
\* in the unit of addresses it knows.
LEMMA DataStep ==
  ASSUME SdInv, pc \in {"data", "CMD25"}, UNCHANGED <<torn, flawless>>,
         NEW cmd \in {"CMD17", "CMD18", "CMD24", "CMD25"}, DataCommand(cmd),
         ModeOf(cmd) = BlockMode
  PROVE  SdInv'
<1>1. /\ SdTypeOK /\ SocketInv /\ HomeInv /\ CallInv
      /\ RunKeeps /\ UNCHANGED <<count, buff>> /\ pc \in CallPc
      /\ op \in {"read", "write"} /\ count = asked /\ count > 0
      /\ op = "write" => ~stat.protect
  BY DEF SdInv, DataCommand, CallPc, CallInv
<1>2. PICK r \in Answers :
        /\ SendCmd(cmd, Address(sector), r)
        /\ IF r = 0 THEN Goto("block") ELSE Return("ERROR")
  BY DEF DataCommand
<1>3. \/ r = 0 /\ pc' = "block"
      \/ r # 0 /\ pc' = "idle" /\ res' = "ERROR"
  BY <1>2 DEF Goto, Return
<1>4. pc' \in CallPc \cup {"idle"}  BY <1>3 DEF CallPc
<1>5. /\ SdTypeOK' /\ SocketInv' /\ HomeInv' /\ AttemptInv' /\ FlawlessInv'
      /\ op' = op /\ Pos' = Pos /\ (Blocks(Pos) => Blocks(Pos)')
      /\ UNCHANGED <<card, cache, lost, busy, sector, asked, stat, home>>
      /\ mode' # "off" => mode # "off"
      /\ r = 0 => ~busy /\ cache = NoCache /\ mode # "off" /\ mode = "tran"
  <2>1. cmd \in {"CMD12", "ACMD23", "CMD17", "CMD18", "CMD24", "CMD25", "CMD9"} /\ cmd # "CMD12"
    OBVIOUS
  <2> QED  BY <1>1, <1>2, <1>4, <2>1, RunCommand
<1>6. Pos = 0  BY <1>1 DEF Pos, SdTypeOK
<1>7. ASSUME r = 0
      PROVE  mode' = BlockMode /\ at' = sector
  <2>1. /\ mode = "tran" /\ card = home /\ (ty = "SD2|BLOCK" <=> card \in Sdhc)
    BY <1>1, <1>5, <1>7 DEF HomeInv, CallPc, AttemptPc
  <2>2. Place(Address(sector)) = sector
    BY <1>1, <2>1, SdAssumption, AddressOfBlock DEF Place, Address, SdTypeOK
  <2>3. mode' = ModeOf(cmd) /\ at' = Place(Address(sector))
    BY <1>2, <1>7, <2>1 DEF SendCmd, Serve, Transfer, ModeOf
  <2> QED  BY <2>2, <2>3
<1>8. CallInv'
  <2>1. asked' = asked /\ op' = op /\ sector' = sector /\ count' = count /\ stat' = stat
    BY <1>1, <1>5
  <2>2. BlockMode' = BlockMode  BY <2>1 DEF BlockMode
  <2>3. pc' = "block" => at' = sector' + Pos' /\ mode' = BlockMode'
    BY <1>1, <1>3, <1>5, <1>6, <1>7, <2>1, <2>2 DEF SdTypeOK
  <2>4. mode' # "off" => (stat'.protect <=> card' \in Protected)
    BY <1>1, <1>5 DEF CallInv
  <2> QED  BY <1>1, <1>3, <2>1, <2>3, <2>4 DEF CallInv, CallPc
<1>9. Blocks(Pos)'
  BY <1>5, <1>6 DEF Blocks
<1>10. DoneInv'
  BY <1>1, <1>3, <1>5, <1>9 DEF DoneInv, Transfers, Returned, NoCache, Places
<1> QED  BY <1>5, <1>8, <1>10 DEF SdInv

\* A command whose answer does not decide what follows: the end of a multiple
\* read, and the number of blocks to come.
LEMMA SideCommandStep ==
  ASSUME SdInv, UNCHANGED <<torn, flawless>>, RunKeeps, UNCHANGED <<count, buff>>,
         NEW cmd \in {"CMD12", "ACMD23"}, NEW arg, NEW r, SendCmd(cmd, arg, r),
         \/ /\ pc = "stop" /\ op = "read"
            /\ pc' = "idle" /\ res' = IF count = 0 THEN "OK" ELSE "ERROR"
         \/ pc = "data" /\ op = "write" /\ count > 1 /\ pc' = "CMD25"
  PROVE  SdInv'
<1>1. /\ SdTypeOK /\ CallInv /\ DoneInv /\ pc \in CallPc
      /\ pc' \in CallPc \cup {"idle"}
  BY DEF SdInv, CallPc
<1>2. /\ SdTypeOK' /\ SocketInv' /\ HomeInv' /\ AttemptInv' /\ FlawlessInv'
      /\ op' = op /\ Pos' = Pos /\ (Blocks(Pos) => Blocks(Pos)')
      /\ UNCHANGED <<card, cache, lost, busy, sector, asked, stat, home>>
      /\ mode' # "off" => mode # "off"
  <2>1. cmd \in {"CMD12", "ACMD23", "CMD17", "CMD18", "CMD24", "CMD25", "CMD9"}
    OBVIOUS
  <2> QED  BY <1>1, <2>1, RunCommand
<1>3. CallInv'
  BY <1>1, <1>2 DEF CallInv, CallPc
<1>4. DoneInv'
  BY <1>1, <1>2 DEF DoneInv, Transfers, Returned, NoCache, Places
<1> QED  BY <1>2, <1>3, <1>4 DEF SdInv

\* A block arrives, or does not, or the card goes in the middle of it.
LEMMA ReadBlockStep ==
  ASSUME SdInv, ReadBlock, UNCHANGED flawless
  PROVE  SdInv'
<1>1. /\ SdTypeOK /\ SocketInv /\ HomeInv /\ CallInv /\ DoneInv
      /\ pc = "block" /\ pc \in CallPc /\ op = "read" /\ RunKeeps
      /\ cache = NoCache /\ (~torn => Blocks(Pos)) /\ MaxCount \in Nat
  BY SdAssumption DEF SdInv, ReadBlock, CallPc, DoneInv, Transfers
<1>2. PICK ok \in BOOLEAN, b \in Values \cup {Junk} :
        /\ RcvrDatablock(ok, b)
        /\ IF ok THEN buff' = [buff EXCEPT ![Pos] = b] /\ count' = count - 1
           ELSE UNCHANGED <<buff, count>>
        /\ IF asked = 1 THEN Return(IF ok THEN "OK" ELSE "ERROR")
           ELSE Goto(IF ok /\ count > 1 THEN "block" ELSE "stop")
  BY DEF ReadBlock
<1>3. /\ count \in 1 .. asked /\ asked \in 1 .. MaxCount /\ Pos \in 0 .. MaxCount - 1
      /\ Pos = asked - count
  BY <1>1 DEF CallInv, SdTypeOK, Pos
<1>4. /\ count' \in 0 .. asked /\ buff' \in [0 .. MaxCount - 1 -> Values \cup {Junk}]
      /\ ok => count' = count - 1 /\ buff' = [buff EXCEPT ![Pos] = b]
      /\ ~ok => count' = count /\ buff' = buff
  <2>1. CASE ok = TRUE
    <3>1. count' = count - 1 /\ buff' = [buff EXCEPT ![Pos] = b]  BY <1>2, <2>1
    <3> QED  BY <1>1, <1>3, <2>1, <3>1 DEF SdTypeOK
  <2>2. CASE ok = FALSE
    <3>1. count' = count /\ buff' = buff  BY <1>2, <2>2
    <3> QED  BY <1>1, <1>3, <2>2, <3>1 DEF SdTypeOK
  <2> QED  BY <2>1, <2>2
<1>5. /\ asked = 1 => pc' = "idle" /\ res' = IF ok THEN "OK" ELSE "ERROR"
      /\ asked # 1 => pc' = IF ok /\ count > 1 THEN "block" ELSE "stop"
      /\ pc' \in CallPc \cup {"idle"}
  BY <1>2 DEF Return, Goto, CallPc
<1>6. UNCHANGED <<op, sector, asked, stat, home>>  BY <1>1 DEF RunKeeps, funvars
<1>7. mode # "off" => /\ mode = BlockMode /\ at = sector + Pos /\ card = home
                      /\ mode = IF asked = 1 THEN "read" ELSE "reads"
  BY <1>1 DEF CallInv, HomeInv, BlockMode, AttemptPc, CallPc
<1>8. CASE /\ ok /\ mode \in {"read", "reads", "csd"} /\ at \in Places
           /\ b = IF mode = "csd" THEN Junk ELSE Content(card)[at]
           /\ at' = IF mode = "csd" THEN at ELSE at + 1
           /\ mode' = IF mode = "reads" THEN "reads" ELSE "tran"
           /\ UNCHANGED <<card, busy, cache, media, lost>> /\ UNCHANGED torn
  <2>1. /\ b = Content(home)[sector + Pos] /\ sector + Pos \in Places
        /\ at' = sector + Pos + 1 /\ mode' \in {"tran", "reads"}
        /\ mode' = "reads" => asked # 1
    BY <1>7, <1>8
  <2>2. mode # "off" /\ mode' # "off"  BY <1>8
  <2>3. SdTypeOK' /\ HomeInv' /\ AttemptInv' /\ FlawlessInv'
    <3>1. at' \in Nat /\ mode' \in Mode /\ mode' # "idle"
      BY <1>1, <1>3, <2>1 DEF SdTypeOK, Mode
    <3>2. /\ card' \in Cards \cup {Nil} /\ busy' \in BOOLEAN /\ lost' \in BOOLEAN
          /\ cache' \in [Places -> Values \cup {Nil}]
          /\ media' \in [Cards -> [Places -> Values]]
      BY <1>1, <1>8 DEF SdTypeOK
    <3> QED  BY <1>1, <1>4, <1>5, <1>8, <2>2, <3>1, <3>2, RunForm
  <2>4. SocketInv'
    BY <1>1, <1>7, <1>8, <2>2 DEF SocketInv, NoCache, Places
  <2>5. Pos' = Pos + 1  BY <1>3, <1>4, <1>6, <1>8 DEF Pos
  <2>6. CallInv'
    <3>1. stat'.protect <=> card' \in Protected
      BY <1>1, <1>6, <1>8, <2>2 DEF CallInv, CallPc
    <3>2. asked # 1 => mode' = "reads"  BY <1>7, <1>8
    <3> QED
      BY <1>1, <1>3, <1>4, <1>5, <1>6, <2>1, <2>5, <3>1, <3>2 DEF CallInv, CallPc, BlockMode,
         SdTypeOK
  <2>7. \A s \in Places : Content(home)'[s] = Content(home)[s]
    BY <1>6, <1>8, ContentKept
  <2>8. ASSUME ~torn'
        PROVE  Blocks(Pos)'
    <3>1. \A i \in 0 .. Pos - 1 : sector + i \in Places /\ buff[i] = Content(home)[sector + i]
      BY <1>1, <1>8, <2>8 DEF Blocks
    <3>2. ASSUME NEW i \in 0 .. Pos
          PROVE  sector + i \in Places /\ buff'[i] = Content(home)[sector + i]
      <4>0. MaxCount \in Nat /\ Pos \in 0 .. MaxCount - 1  BY <1>1, <1>3
      <4>1. buff' = [buff EXCEPT ![Pos] = b] /\ i \in 0 .. MaxCount - 1
        <5>1. buff' = [buff EXCEPT ![Pos] = b]  BY <1>4, <1>8
        <5>2. i \in 0 .. MaxCount - 1  BY <4>0
        <5> QED  BY <5>1, <5>2
      <4>2. CASE i = Pos
        BY <1>1, <2>1, <4>1, <4>2 DEF SdTypeOK
      <4>3. CASE i # Pos
        <5>1. i \in 0 .. Pos - 1  BY <1>3, <4>3
        <5> QED  BY <1>1, <3>1, <4>1, <4>3, <5>1 DEF SdTypeOK
      <4> QED  BY <4>2, <4>3
    <3>3. (0 .. Pos - 1)' = 0 .. Pos  BY <1>3, <2>5
    <3> QED  BY <1>6, <2>7, <3>2, <3>3 DEF Blocks, Places
  <2>9. DoneInv'
    BY <1>1, <1>3, <1>4, <1>5, <1>6, <1>8, <2>8 DEF DoneInv, Transfers, Returned, NoCache, Places
  <2> QED  BY <2>3, <2>4, <2>6, <2>9 DEF SdInv
<1>9. CASE ok /\ Removed /\ torn' = TRUE
  <2>1. /\ card' = Nil /\ mode' = "off" /\ at' = 0 /\ busy' = FALSE /\ cache' = NoCache
        /\ NoCache \in [Places -> Values \cup {Nil}] /\ lost' \in BOOLEAN
        /\ media' = media /\ SocketInv'
    BY <1>1, <1>9, RemovedForm
  <2>2. SdTypeOK' /\ HomeInv' /\ AttemptInv' /\ FlawlessInv'
    <3>1. mode' \in Mode /\ media' \in [Cards -> [Places -> Values]]
      BY <1>1, <2>1 DEF Mode, SdTypeOK
    <3> QED  BY <1>1, <1>4, <1>5, <2>1, <3>1, RunForm
  <2>3. CallInv'
    BY <1>1, <1>3, <1>4, <1>5, <1>6, <1>9, <2>1 DEF CallInv, CallPc
  <2>4. DoneInv'
    BY <1>1, <1>3, <1>4, <1>5, <1>6, <1>9, <2>1
    DEF DoneInv, Transfers, Returned, NoCache, Places
  <2> QED  BY <2>1, <2>2, <2>3, <2>4 DEF SdInv
<1>10. CASE ~ok /\ Becomes(IF mode \in {"read", "csd"} THEN "tran" ELSE mode) /\ UNCHANGED torn
  <2>1. /\ UNCHANGED <<card, at, busy, cache, media, lost>>
        /\ mode' = IF mode \in {"read", "csd"} THEN "tran" ELSE mode
    BY <1>10 DEF Becomes
  <2>2. mode' # "off" => mode # "off" /\ mode' # "idle"
    BY <1>7, <2>1
  <2>3. SdTypeOK' /\ HomeInv' /\ AttemptInv' /\ FlawlessInv'
    <3>1. /\ card' \in Cards \cup {Nil} /\ busy' \in BOOLEAN /\ lost' \in BOOLEAN
          /\ cache' \in [Places -> Values \cup {Nil}] /\ at' \in Nat /\ mode' \in Mode
          /\ media' \in [Cards -> [Places -> Values]]
      BY <1>1, <2>1 DEF SdTypeOK, Mode
    <3> QED  BY <1>1, <1>4, <1>5, <2>1, <2>2, <3>1, RunForm
  <2>4. SocketInv'  BY <1>1, <1>7, <2>1 DEF SocketInv, NoCache, Places
  <2>5. CallInv'
    BY <1>1, <1>3, <1>4, <1>5, <1>6, <1>10, <2>1, <2>2 DEF CallInv, CallPc
  <2>6. Blocks(Pos) => Blocks(Pos)'
    BY <1>4, <1>6, <1>10, <2>1, ContentKept, BlocksKept
  <2>7. DoneInv'
    BY <1>1, <1>4, <1>5, <1>6, <1>10, <2>1, <2>6
    DEF DoneInv, Transfers, Returned, NoCache, Places
  <2> QED  BY <2>3, <2>4, <2>5, <2>7 DEF SdInv
<1> QED  BY <1>2, <1>8, <1>9, <1>10 DEF RcvrDatablock

\* A block is accepted by the initialised card, at its place, or it is not
\* accepted at all.
LEMMA WriteBlockStep ==
  ASSUME SdInv, WriteBlock, UNCHANGED <<torn, flawless>>
  PROVE  SdInv'
<1>1. /\ SdTypeOK /\ SocketInv /\ HomeInv /\ CallInv /\ DoneInv
      /\ pc = "block" /\ pc \in CallPc /\ op = "write" /\ RunKeeps /\ buff' = buff
      /\ (lost \/ Blocks(Pos)) /\ MaxCount \in Nat
  BY SdAssumption DEF SdInv, WriteBlock, CallPc, DoneInv, Transfers
<1>2. PICK ok \in BOOLEAN :
        /\ XmitDatablock(ok, buff[Pos])
        /\ count' = IF ok THEN count - 1 ELSE count
        /\ IF asked = 1 THEN Return(IF ok THEN "OK" ELSE "ERROR")
           ELSE Goto(IF ok /\ count > 1 THEN "block" ELSE "stop")
  BY DEF WriteBlock
<1>3. /\ count \in 1 .. asked /\ asked \in 1 .. MaxCount /\ Pos \in 0 .. MaxCount - 1
      /\ Pos = asked - count /\ Pos \in 0 .. asked - 1
  BY <1>1 DEF CallInv, SdTypeOK, Pos
<1>4. /\ count' \in 0 .. asked
      /\ ok => count' = count - 1
      /\ ~ok => count' = count
  BY <1>2, <1>3
<1>5. /\ asked = 1 => pc' = "idle" /\ res' = IF ok THEN "OK" ELSE "ERROR"
      /\ asked # 1 => pc' = IF ok /\ count > 1 THEN "block" ELSE "stop"
      /\ pc' \in CallPc \cup {"idle"}
  BY <1>2 DEF Return, Goto, CallPc
<1>6. UNCHANGED <<op, sector, asked, stat, home>>  BY <1>1 DEF RunKeeps, funvars
<1>7. mode # "off" => /\ at = sector + Pos /\ card = home
                      /\ mode = IF asked = 1 THEN "write" ELSE "writes"
  BY <1>1 DEF CallInv, HomeInv, BlockMode, AttemptPc, CallPc
<1>8. CASE /\ ok /\ mode \in {"write", "writes"} /\ ~busy /\ at \in Places
           /\ cache' = [cache EXCEPT ![at] = buff[Pos]]
           /\ busy' = TRUE /\ at' = at + 1
           /\ mode' = IF mode = "writes" THEN "writes" ELSE "tran"
           /\ UNCHANGED <<card, media, lost>>
  <2>1. /\ sector + Pos \in Places /\ at' = sector + Pos + 1
        /\ mode' \in {"tran", "writes"} /\ mode # "off" /\ mode' # "off"
        /\ card = home /\ at = sector + Pos
        /\ asked # 1 => mode' = "writes"
    BY <1>7, <1>8
  <2>2. buff[Pos] \in Values /\ buff[Pos] # Nil
    BY <1>1, <1>3, SdAssumption DEF SdTypeOK
  <2>3. SdTypeOK' /\ HomeInv' /\ AttemptInv' /\ FlawlessInv'
    <3>1. at' \in Nat /\ mode' \in Mode /\ mode' # "idle"
      BY <1>1, <1>3, <2>1 DEF SdTypeOK, Mode
    <3>2. /\ card' \in Cards \cup {Nil} /\ busy' \in BOOLEAN /\ lost' \in BOOLEAN
          /\ cache' \in [Places -> Values \cup {Nil}]
          /\ media' \in [Cards -> [Places -> Values]]
      BY <1>1, <1>8, <2>2 DEF SdTypeOK
    <3>3. buff' \in [0 .. MaxCount - 1 -> Values \cup {Junk}]
      BY <1>1 DEF SdTypeOK
    <3> QED  BY <1>1, <1>4, <1>5, <1>8, <2>1, <3>1, <3>2, <3>3, RunForm
  <2>4. SocketInv'
    BY <1>1, <1>8, <2>1 DEF SocketInv
  <2>5. Pos' = Pos + 1  BY <1>3, <1>4, <1>6, <1>8 DEF Pos
  <2>6. CallInv'
    <3>1. (stat'.protect <=> card' \in Protected) /\ ~stat'.protect
      BY <1>1, <1>6, <1>8, <2>1 DEF CallInv, CallPc
    <3> QED
      BY <1>1, <1>3, <1>4, <1>5, <1>6, <2>1, <2>5, <3>1 DEF CallInv, CallPc, BlockMode,
         SdTypeOK
  <2>7. \A s \in Places : Content(home)'[s] = IF s = at THEN buff[Pos] ELSE Content(home)[s]
    BY <1>1, <1>6, <1>8, <2>1, <2>2 DEF Content, SdTypeOK, Places
  <2>8. ASSUME ~lost'
        PROVE  Blocks(Pos)'
    <3>1. \A i \in 0 .. Pos - 1 : sector + i \in Places /\ buff[i] = Content(home)[sector + i]
      BY <1>1, <1>8, <2>8 DEF Blocks
    <3>2. ASSUME NEW i \in 0 .. Pos
          PROVE  sector + i \in Places /\ buff[i] = Content(home)'[sector + i]
      <4>1. CASE i = Pos
        BY <2>1, <2>7, <4>1
      <4>2. CASE i # Pos
        <5>1. i \in 0 .. Pos - 1  BY <1>3, <4>2
        <5>2. sector + i # at  BY <1>1, <1>3, <2>1, <5>1 DEF SdTypeOK
        <5> QED  BY <2>7, <3>1, <5>1, <5>2
      <4> QED  BY <4>1, <4>2
    <3>3. (0 .. Pos - 1)' = 0 .. Pos  BY <1>3, <2>5
    <3> QED  BY <1>1, <1>6, <3>2, <3>3 DEF Blocks, Places
  <2>9. DoneInv'
    BY <1>1, <1>3, <1>4, <1>5, <1>6, <1>8, <2>8 DEF DoneInv, Transfers, Returned
  <2> QED  BY <2>3, <2>4, <2>6, <2>9 DEF SdInv
<1>9. CASE ~ok /\ Becomes(IF mode = "write" THEN "tran" ELSE mode)
  <2>1. /\ UNCHANGED <<card, at, busy, cache, media, lost>>
        /\ mode' = IF mode = "write" THEN "tran" ELSE mode
    BY <1>9 DEF Becomes
  <2>2. mode' # "off" => mode # "off" /\ mode' # "idle"
    BY <1>7, <2>1
  <2>3. SdTypeOK' /\ HomeInv' /\ AttemptInv' /\ FlawlessInv'
    <3>1. /\ card' \in Cards \cup {Nil} /\ busy' \in BOOLEAN /\ lost' \in BOOLEAN
          /\ cache' \in [Places -> Values \cup {Nil}] /\ at' \in Nat /\ mode' \in Mode
          /\ media' \in [Cards -> [Places -> Values]]
          /\ buff' \in [0 .. MaxCount - 1 -> Values \cup {Junk}]
      BY <1>1, <2>1 DEF SdTypeOK, Mode
    <3> QED  BY <1>1, <1>4, <1>5, <2>1, <2>2, <3>1, RunForm
  <2>4. SocketInv'  BY <1>1, <1>7, <2>1 DEF SocketInv, NoCache, Places
  <2>5. CallInv'
    BY <1>1, <1>3, <1>4, <1>5, <1>6, <1>9, <2>1, <2>2 DEF CallInv, CallPc
  <2>6. Blocks(Pos) => Blocks(Pos)'
    BY <1>1, <1>4, <1>6, <1>9, <2>1, ContentKept, BlocksKept
  <2>7. DoneInv'
    BY <1>1, <1>4, <1>5, <1>6, <1>9, <2>1, <2>6 DEF DoneInv, Transfers, Returned
  <2> QED  BY <2>3, <2>4, <2>5, <2>7 DEF SdInv
<1> QED  BY <1>2, <1>8, <1>9 DEF XmitDatablock

\* The stop token: the transfer is over, and what was refused is not forgotten.
LEMMA WriteStopStep ==
  ASSUME SdInv, WriteStop, UNCHANGED <<torn, flawless>>
  PROVE  SdInv'
<1>1. /\ SdTypeOK /\ SocketInv /\ HomeInv /\ CallInv /\ DoneInv
      /\ pc = "stop" /\ pc \in CallPc /\ op = "write" /\ RunKeeps
      /\ UNCHANGED <<count, buff>> /\ pc' = "idle"
      /\ (lost \/ Blocks(Pos))
  BY DEF SdInv, WriteStop, CallPc, DoneInv, Transfers, Return
<1>2. PICK ok \in BOOLEAN :
        XmitStop(ok) /\ Return(IF ok /\ count = 0 THEN "OK" ELSE "ERROR")
  BY DEF WriteStop
<1>3. res' = "OK" => count = 0  BY <1>2 DEF Return
<1>4. UNCHANGED <<op, sector, asked, stat, home>>  BY <1>1 DEF RunKeeps, funvars
<1>5. /\ UNCHANGED <<card, at, cache, media, lost>>
      /\ \/ mode = "writes" /\ mode' = "tran" /\ busy' = TRUE
         \/ mode' = mode /\ busy' = busy
  BY <1>2 DEF XmitStop, cardvars
<1>6. mode' # "off" => mode # "off" /\ mode' # "idle"
  BY <1>1, <1>5 DEF HomeInv, CallPc, AttemptPc
<1>7. SdTypeOK' /\ HomeInv' /\ AttemptInv' /\ FlawlessInv'
  <2>1. /\ card' \in Cards \cup {Nil} /\ busy' \in BOOLEAN /\ lost' \in BOOLEAN
        /\ cache' \in [Places -> Values \cup {Nil}] /\ at' \in Nat /\ mode' \in Mode
        /\ media' \in [Cards -> [Places -> Values]]
        /\ buff' \in [0 .. MaxCount - 1 -> Values \cup {Junk}] /\ count' \in 0 .. asked
    BY <1>1, <1>5 DEF SdTypeOK, Mode
  <2> QED  BY <1>1, <1>5, <1>6, <2>1, RunForm
<1>8. SocketInv'  BY <1>1, <1>5 DEF SocketInv, NoCache, Places
<1>9. CallInv'  BY <1>1 DEF CallInv, CallPc
<1>10. (Blocks(Pos) => Blocks(Pos)') /\ Pos' = Pos
  BY <1>1, <1>4, <1>5, ContentKept, BlocksKept DEF Pos
<1>11. DoneInv'
  BY <1>1, <1>3, <1>4, <1>5, <1>10 DEF DoneInv, Transfers, Returned
<1> QED  BY <1>7, <1>8, <1>9, <1>11 DEF SdInv

\* CTRL_SYNC ends.
LEMMA SyncStep ==
  ASSUME SdInv, Sync, UNCHANGED <<torn, flawless>>
  PROVE  SdInv'
<1>1. /\ SdTypeOK /\ SocketInv /\ HomeInv /\ CallInv /\ DoneInv
      /\ pc = "ready" /\ pc \in IoctlPc /\ op = "sync" /\ RunKeeps
      /\ UNCHANGED <<count, buff>> /\ UNCHANGED cardvars /\ pc' = "idle"
      /\ cache = NoCache /\ ~lost
  BY DEF SdInv, Sync, IoctlPc, CallInv, DoneInv, Return
<1>2. UNCHANGED <<op, sector, asked, stat, home>> /\ mode' = mode
  BY <1>1 DEF RunKeeps, funvars, cardvars
<1>3. mode' # "idle" \/ mode' = "off"
  BY <1>1, <1>2 DEF HomeInv, IoctlPc, AttemptPc
<1>4. SdTypeOK' /\ HomeInv' /\ AttemptInv' /\ FlawlessInv'
  <2>1. /\ card' \in Cards \cup {Nil} /\ busy' \in BOOLEAN /\ lost' \in BOOLEAN
        /\ cache' \in [Places -> Values \cup {Nil}] /\ at' \in Nat /\ mode' \in Mode
        /\ media' \in [Cards -> [Places -> Values]] /\ card' = card
        /\ buff' \in [0 .. MaxCount - 1 -> Values \cup {Junk}] /\ count' \in 0 .. asked
    BY <1>1 DEF SdTypeOK, cardvars
  <2> QED  BY <1>1, <1>2, <1>3, <2>1, RunForm
<1>5. SocketInv'  BY <1>1 DEF SocketInv, NoCache, Places, cardvars
<1>6. CallInv' /\ DoneInv'
  BY <1>1, <1>2 DEF CallInv, CallPc, DoneInv, Transfers, Returned, NoCache, Places, cardvars
<1> QED  BY <1>4, <1>5, <1>6 DEF SdInv

\* GET_SECTOR_COUNT asks for the CSD.
LEMMA CsdCommandStep ==
  ASSUME SdInv, CsdCommand, UNCHANGED <<torn, flawless>>
  PROVE  SdInv'
<1>1. /\ SdTypeOK /\ CallInv /\ pc = "CMD9" /\ pc \in IoctlPc /\ op = "csd"
      /\ RunKeeps /\ UNCHANGED <<count, buff>>
  BY DEF SdInv, CsdCommand, IoctlPc, CallInv
<1>2. PICK r \in Answers :
        SendCmd("CMD9", 0, r) /\ IF r = 0 THEN Goto("CSD") ELSE Return("ERROR")
  BY DEF CsdCommand
<1>3. pc' \in {"CSD", "idle"}  BY <1>2 DEF Goto, Return
<1>4. pc' \in IoctlPc \cup {"idle"}  BY <1>3 DEF IoctlPc
<1>5. /\ SdTypeOK' /\ SocketInv' /\ HomeInv' /\ AttemptInv' /\ FlawlessInv' /\ op' = op
  BY <1>1, <1>2, <1>4, RunCommand
<1>6. CallInv' /\ DoneInv'
  BY <1>1, <1>3, <1>5 DEF CallInv, CallPc, DoneInv, Transfers, Returned
<1> QED  BY <1>5, <1>6 DEF SdInv

\* The CSD arrives, or does not.
LEMMA CsdBlockStep ==
  ASSUME SdInv, CsdBlock, UNCHANGED flawless
  PROVE  SdInv'
<1>1. /\ SdTypeOK /\ SocketInv /\ HomeInv /\ CallInv /\ pc = "CSD" /\ pc \in IoctlPc
      /\ op = "csd" /\ RunKeeps /\ UNCHANGED <<count, buff>> /\ pc' = "idle"
  BY DEF SdInv, CsdBlock, IoctlPc, CallInv, Return
<1>2. PICK ok \in BOOLEAN : RcvrDatablock(ok, Junk)  BY DEF CsdBlock
<1>3. mode # "idle" \/ mode = "off"
  BY <1>1 DEF HomeInv, IoctlPc, AttemptPc
<1>4. \/ /\ UNCHANGED <<card, busy, cache, media, lost>> /\ at' \in Nat /\ mode' \in Mode
         /\ mode' # "off" => mode # "off" /\ mode' # "idle"
         /\ mode' = mode \/ (mode' = "tran" /\ mode \in {"read", "csd"})
      \/ Removed
  BY <1>1, <1>2, <1>3 DEF RcvrDatablock, Becomes, SdTypeOK, Mode, Places
<1>5. buff' \in [0 .. MaxCount - 1 -> Values \cup {Junk}] /\ count' \in 0 .. asked
  BY <1>1 DEF SdTypeOK
<1>6. SdTypeOK' /\ HomeInv' /\ AttemptInv' /\ FlawlessInv' /\ SocketInv' /\ op' = op
  <2>1. CASE Removed
    <3>1. /\ card' = Nil /\ mode' = "off" /\ at' = 0 /\ busy' = FALSE /\ cache' = NoCache
          /\ NoCache \in [Places -> Values \cup {Nil}] /\ lost' \in BOOLEAN
          /\ media' = media /\ SocketInv'
      BY <1>1, <2>1, RemovedForm
    <3>2. mode' \in Mode /\ media' \in [Cards -> [Places -> Values]]
      BY <1>1, <3>1 DEF Mode, SdTypeOK
    <3> QED  BY <1>1, <1>5, <3>1, <3>2, RunForm
  <2>2. CASE ~Removed
    <3>1. /\ card' \in Cards \cup {Nil} /\ busy' \in BOOLEAN /\ lost' \in BOOLEAN
          /\ cache' \in [Places -> Values \cup {Nil}]
          /\ media' \in [Cards -> [Places -> Values]]
      BY <1>1, <1>4, <2>2 DEF SdTypeOK
    <3>2. SocketInv'
      BY <1>1, <1>4, <2>2 DEF SocketInv, NoCache, Places
    <3> QED  BY <1>1, <1>4, <1>5, <2>2, <3>1, <3>2, RunForm
  <2> QED  BY <2>1, <2>2
<1>7. CallInv' /\ DoneInv'
  BY <1>1, <1>6 DEF CallInv, CallPc, DoneInv, Transfers, Returned
<1> QED  BY <1>6, <1>7 DEF SdInv

-----------------------------------------------------------------------------
(* The invariant.                                                          *)

\* Every step of a function keeps SdInv.
LEMMA ExchangeStep ==
  ASSUME SdInv, Exchange
  PROVE  SdInv'
<1>1. CASE ReadBlock  BY <1>1, ReadBlockStep DEF Exchange
<1>2. CASE CsdBlock  BY <1>2, CsdBlockStep DEF Exchange
<1>3. CASE ~ReadBlock /\ ~CsdBlock
  <2>0. UNCHANGED <<torn, flawless>>  BY <1>3 DEF Exchange
  <2>1. CASE Pins \/ Ask58
    BY <2>0, <2>1, PinsStep, Ask58Step
  <2>2. CASE Initialise
    BY <2>0, <2>2, Cmd0Step, Cmd8Step, LeaveIdleHcsStep, ReadOcrStep, ProbeStep,
       LeaveIdleStep, SetBlockLengthStep DEF Initialise
  <2>3. CASE ReadCommand
    <3>1. /\ pc \in {"data", "CMD25"} /\ op = "read" /\ count = asked
          /\ DataCommand(IF count = 1 THEN "CMD17" ELSE "CMD18")
      BY <2>3 DEF ReadCommand, SdInv, CallInv
    <3>2. CASE count = 1
      BY <2>0, <3>1, <3>2, DataStep DEF ModeOf, BlockMode
    <3>3. CASE count # 1
      BY <2>0, <3>1, <3>3, DataStep DEF ModeOf, BlockMode
    <3> QED  BY <3>2, <3>3
  <2>4. CASE WriteCommand
    <3>1. /\ pc \in {"data", "CMD25"} /\ op = "write" /\ count = asked
      BY <2>4 DEF WriteCommand, SdInv, CallInv
    <3>2. \/ count = 1 /\ DataCommand("CMD24")
          \/ count # 1 /\ DataCommand("CMD25")
      BY <2>4, <3>1 DEF WriteCommand, SdInv, CallInv, SdTypeOK
    <3> QED  BY <2>0, <3>1, <3>2, DataStep DEF ModeOf, BlockMode
  <2>5. CASE ReadStop
    <3>1. PICK r \in Answers : SendCmd("CMD12", 0, r)  BY <2>5 DEF ReadStop
    <3> QED  BY <2>0, <2>5, <3>1, SideCommandStep DEF ReadStop, Return
  <2>6. CASE WriteAnnounce
    <3>1. PICK r \in Answers : SendCmd("ACMD23", count, r)  BY <2>6 DEF WriteAnnounce
    <3> QED  BY <2>0, <2>6, <3>1, SideCommandStep DEF WriteAnnounce, Goto
  <2>7. CASE WriteBlock \/ WriteStop
    BY <2>0, <2>7, WriteBlockStep, WriteStopStep
  <2>8. CASE Sync \/ CsdCommand
    BY <2>0, <2>8, SyncStep, CsdCommandStep
  <2> QED
    BY <1>3, <2>1, <2>2, <2>3, <2>4, <2>5, <2>6, <2>7, <2>8 DEF Exchange
<1> QED  BY <1>1, <1>2, <1>3

\* Every step of the system keeps SdInv.
LEMMA SdStep == SdInv /\ [SdNext]_sdvars => SdInv'
<1> SUFFICES ASSUME SdInv, [SdNext]_sdvars
             PROVE  SdInv'
  OBVIOUS
<1>1. CASE Exchange  BY <1>1, ExchangeStep
<1>2. CASE Calls /\ UNCHANGED flawless  BY <1>2, CallStep
<1>3. CASE CardSteps
  BY <1>3, ProgramStep, PullOutStep, PutInStep DEF CardSteps
<1>4. CASE UNCHANGED sdvars
  <2> USE DEF SdInv, sdvars, funvars, hostvars, cardvars
  <2>1. SdTypeOK'  BY <1>4 DEF SdTypeOK
  <2>2. SocketInv'  BY <1>4 DEF SocketInv, NoCache, Places
  <2>3. HomeInv' /\ AttemptInv' /\ FlawlessInv'
    BY <1>4 DEF HomeInv, AttemptInv, FlawlessInv
  <2>4. CallInv'  BY <1>4 DEF CallInv, BlockMode, Pos
  <2>5. Blocks(Pos) => Blocks(Pos)'  BY <1>4, ContentKept, BlocksKept
  <2>6. DoneInv'
    BY <1>4, <2>5 DEF DoneInv, Transfers, Returned, NoCache, Places
  <2> QED  BY <2>1, <2>2, <2>3, <2>4, <2>6
<1> QED  BY <1>1, <1>2, <1>3, <1>4 DEF SdNext

\* The system as it starts, with an empty socket.
LEMMA SdInitInv == SdInit => SdInv
<1> SUFFICES ASSUME SdInit PROVE SdInv
  OBVIOUS
<1> USE DEF SdInit
<1>1. SdTypeOK
  <2>1. stat \in [noinit : BOOLEAN, nodisk : BOOLEAN, protect : BOOLEAN]
    OBVIOUS
  <2>2. /\ cache \in [Places -> Values \cup {Nil}] /\ media \in [Cards -> [Places -> Values]]
        /\ buff \in [0 .. MaxCount - 1 -> Values \cup {Junk}]
    BY SdAssumption DEF NoCache, NoData
  <2>3. sector \in Nat /\ asked \in 0 .. MaxCount /\ count \in 0 .. asked /\ at \in Nat
    BY SdAssumption
  <2>4. /\ ty \in {"none", "SD1", "MMC", "SD2", "SD2|BLOCK"} /\ pc \in Pc
        /\ op \in {"status", "init", "sync", "csd", "read", "write"} /\ op # "write"
        /\ card \in Cards \cup {Nil} /\ mode \in Mode /\ busy \in BOOLEAN /\ lost \in BOOLEAN
    BY DEF Pc, Mode
  <2> QED  BY <2>1, <2>2, <2>3, <2>4, Zenon DEF SdTypeOK
<1>2. SocketInv /\ HomeInv /\ AttemptInv /\ FlawlessInv
  BY DEF SocketInv, HomeInv, AttemptInv, FlawlessInv, AttemptPc, CallPc, IoctlPc
<1>3. CallInv /\ DoneInv
  BY DEF CallInv, DoneInv, Transfers, Returned, CallPc
<1> QED  BY <1>1, <1>2, <1>3 DEF SdInv

\* SdInv is an invariant of the disk layer.
LEMMA SdInvariant == SdSpec => []SdInv
BY SdInitInv, SdStep, PTL DEF SdSpec

-----------------------------------------------------------------------------
(* The theorems.                                                           *)

\* disk_read reports RES_OK only with the blocks that are on the card that was
\* initialised (a card pulled out inside a block apart).
THEOREM ReadTrueHolds == SdSpec => []ReadTrue
<1>1. SdInv => ReadTrue
  <2> SUFFICES ASSUME SdInv, Returned("read"), ~torn
               PROVE  \A i \in 0 .. asked - 1 :
                        sector + i \in Places /\ buff[i] = Content(home)[sector + i]
    BY DEF ReadTrue
  <2>1. Blocks(Pos) /\ count = 0 /\ asked \in Nat
    BY DEF SdInv, DoneInv, Transfers, Returned, SdTypeOK
  <2>2. Pos = asked  BY <2>1 DEF Pos
  <2> QED  BY <2>1, <2>2 DEF Blocks
<1> QED  BY <1>1, SdInvariant, PTL

\* disk_write reports RES_OK only when all its blocks are on the card that was
\* initialised, or the card went with blocks it had accepted.
THEOREM WriteDoneHolds == SdSpec => []WriteDone
<1>1. SdInv => WriteDone
  <2> SUFFICES ASSUME SdInv, Returned("write"), ~lost
               PROVE  \A i \in 0 .. asked - 1 :
                        sector + i \in Places /\ buff[i] = Content(home)[sector + i]
    BY DEF WriteDone
  <2>1. Blocks(Pos) /\ count = 0 /\ asked \in Nat
    BY DEF SdInv, DoneInv, Transfers, Returned, SdTypeOK
  <2>2. Pos = asked  BY <2>1 DEF Pos
  <2> QED  BY <2>1, <2>2 DEF Blocks
<1> QED  BY <1>1, SdInvariant, PTL

\* CTRL_SYNC reports RES_OK only when nothing that was reported as written waits
\* to be programmed or has been lost.
THEOREM SyncDurableHolds == SdSpec => []SyncDurable
<1>1. SdInv => SyncDurable  BY DEF SdInv, DoneInv, Returned, SyncDurable
<1> QED  BY <1>1, SdInvariant, PTL

\* A card taken for initialised is driven with the addresses it knows, whichever
\* answers were lost, and an SD card without a flaw is initialised at once.
THEOREM CardKnownHolds == SdSpec => []CardKnown
<1>1. SdInv => CardKnown
  BY DEF SdInv, HomeInv, FlawlessInv, Returned, CardKnown, AttemptPc
<1> QED  BY <1>1, SdInvariant, PTL

\* Only a data block of disk_write puts something into a card.
LEMMA CacheStep ==
  ASSUME SdInv, SdNext, ~WriteBlock
  PROVE  cache' = cache \/ cache' = NoCache
<1>1. ASSUME NEW cmd, NEW arg, NEW r, SendCmd(cmd, arg, r)
      PROVE  cache' = cache
  <2>1. \A m : Transfer(m, arg, r) => cache' = cache
    BY Zenon DEF Transfer, cardvars
  <2>2. \A m : Becomes(m) => cache' = cache
    BY Zenon DEF Becomes
  <2>3. UNCHANGED cardvars => cache' = cache
    BY DEF cardvars
  <2> QED  BY <1>1, <2>1, <2>2, <2>3 DEF SendCmd, Serve
<1>2. \A ok, b : RcvrDatablock(ok, b) => cache' = cache \/ cache' = NoCache
  BY Zenon DEF RcvrDatablock, Becomes, Removed
<1>3. CASE CardSteps
  BY <1>3, Zenon DEF CardSteps, Program, PullOut, Removed, PutIn
<1>4. CASE Calls
  BY <1>4, Zenon DEF Calls, Call, cardvars
<1>5. CASE Pins \/ Ask58
  BY <1>1, <1>5, Zenon DEF Pins, Ask58, cardvars
<1>6. CASE Initialise
  BY <1>1, <1>6, Zenon DEF Initialise, Cmd0, Cmd8, LeaveIdleHcs, ReadOcr, Probe, LeaveIdle,
     SetBlockLength
<1>7. CASE ReadCommand \/ ReadStop \/ WriteAnnounce \/ WriteCommand
  BY <1>1, <1>7, Zenon DEF ReadCommand, ReadStop, WriteAnnounce, WriteCommand, DataCommand
<1>8. CASE WriteStop \/ Sync \/ CsdCommand
  BY <1>1, <1>8, Zenon DEF WriteStop, XmitStop, Sync, CsdCommand, cardvars
<1>9. CASE ReadBlock \/ CsdBlock
  BY <1>2, <1>9, Zenon DEF ReadBlock, CsdBlock
<1> QED
  BY <1>3, <1>4, <1>5, <1>6, <1>7, <1>8, <1>9 DEF SdNext, Exchange

\* What a card accepts is the next block of the write that runs, at its place,
\* on the initialised card, which is not write protected.
THEOREM WritesAskedHolds == SdSpec => WritesAsked
<1> DEFINE Asked == \A s \in Places :
             cache'[s] # cache[s] /\ cache'[s] # Nil =>
               /\ op = "write" /\ card = home /\ card \notin Protected
               /\ s = sector + Pos /\ cache'[s] = buff[Pos]
<1>1. SdInv /\ [SdNext]_sdvars => Asked \/ UNCHANGED sdvars
  <2> SUFFICES ASSUME SdInv, SdNext, NEW s \in Places,
                      cache'[s] # cache[s], cache'[s] # Nil
               PROVE  /\ op = "write" /\ card = home /\ card \notin Protected
                      /\ s = sector + Pos /\ cache'[s] = buff[Pos]
    OBVIOUS
  <2>1. WriteBlock
    BY CacheStep DEF NoCache
  <2>2. /\ pc = "block" /\ pc \in CallPc /\ op = "write" /\ SdTypeOK /\ HomeInv /\ CallInv
    BY <2>1 DEF WriteBlock, SdInv, CallPc
  <2>3. PICK ok \in BOOLEAN : XmitDatablock(ok, buff[Pos])
    BY <2>1 DEF WriteBlock
  <2>4. /\ mode \in {"write", "writes"} /\ cache' = [cache EXCEPT ![at] = buff[Pos]]
    BY <2>3 DEF XmitDatablock, Becomes
  <2>5. s = at /\ cache'[s] = buff[Pos]  BY <2>2, <2>4 DEF SdTypeOK
  <2>6. card = home /\ at = sector + Pos /\ card \notin Protected
    BY <2>2, <2>4 DEF HomeInv, CallInv, AttemptPc, CallPc
  <2> QED  BY <2>2, <2>5, <2>6
<1> QED  BY <1>1, SdInvariant, PTL DEF SdSpec, WritesAsked

=============================================================================
