------------------------------ MODULE WavStream ------------------------------
(***************************************************************************)
(* The WAV player, playwav.c, with the two slots of the SPU it plays       *)
(* through.  The program reads the file into a ring buffer for each        *)
(* channel, a block at a time, behind the place that the SPU plays; the    *)
(* SPU goes through the rings by itself, a sample at a time.               *)
(*                                                                         *)
(* A word of the rings is a sample of the file, by its number, or nothing  *)
(* of this file.  Left out: headers (a file is one that can be played),    *)
(* volumes, and reads of the file that fail, which fread's caller does not *)
(* look at.                                                                *)
(***************************************************************************)
EXTENDS LoreleyVoice

CONSTANTS
  Ring,     \* words of a ring: nd_WAV_CH_SIZE / 2
  Block,    \* words filled at once: 128
  Length,   \* samples of the file: g_wavsize / 4
  Speeds,   \* steps of the play address, in parts of a word
  MaxPlays  \* bound: calls of spu_stream_play

ASSUME WavAssumption ==
  /\ Block \in Nat \ {0} /\ Block % Line = 0
  /\ Ring \in Nat /\ Ring >= 2 * Block /\ Ring % Block = 0 /\ Ring % (2 * Line) = 0
  /\ Length \in Nat \ {0} /\ MaxPlays \in Nat
  /\ \A f \in Speeds : f \in 1 .. 2 * Frac - 1

VARIABLES
  mem,      \* the wave memory
  left,     \* slot nd_SPU_STREAM_LCH, the last of a sample
  right,    \* slot nd_SPU_STREAM_RCH, the first
  nextaddr,     \* nextaddr_reg
  sync,     \* the sync bit, as the program sets it
  frame,    \* the slot to be processed, whether with the sync bit
  prog,     \* the program: its place, g_spu_streamoffs, g_playsize, the samples
            \* of the block that are read, and whether the last fill returned 1
  heard,    \* observer: the words of each channel's last sample
  seen      \* observer: whether the slots have been
            \* passed since the fill began, calls of play

vars == <<mem, left, right, nextaddr, sync, frame, prog, heard, seen>>

Older == -1           \* not of this file
Quiet == Length       \* behind its end: zero

LeftStart  == Ring + 2 * Line              \* nothing is at address 0
RightStart == LeftStart + Ring + 2 * Line  \* behind a gap, for the word at the end
Addresses  == 0 .. RightStart + Ring + 2 * Line

LesserOf(a, b)  == IF a < b THEN a ELSE b

-----------------------------------------------------------------------------
(* How far the filling is behind the playing.                              *)

\* Where the left channel plays.
Position == left.play - LeftStart

\* Fault: the end of the ring is not thought of.
AheadUnwrapped == Position - prog.offs

\* bsize: how far the SPU is ahead of the filling, if that may be said.
Ahead ==
  LET bsize == Position - prog.offs IN IF bsize < 0 THEN bsize + Ring ELSE bsize

\* There is room for a block.
Room == prog.at = "playing" /\ Ahead >= Block

-----------------------------------------------------------------------------
(* The SPU.                                                                *)

\* A step of the play address from the block that is filled next, or half
\* filled.
Close(v) ==
  (prog.offs - (v.play - v.start)) % Ring \in 1 .. 2

\* The program comes in time: what it may fill it has filled before the SPU
\* gets there.
InTime ==
  left.busy /\ ~left.keyon /\ Close(left) => prog.at # "filling" /\ ~Room

\* fs_sync: a sample begins.
FrameBegins ==
  /\ frame.slot = "none" /\ InTime
  /\ frame' = [slot |-> "right", sync |-> sync]
  /\ sync' = FALSE
  /\ UNCHANGED <<mem, left, right, nextaddr, prog, heard, seen>>

Sounds(v) == v.busy /\ ~v.keyoff

RightSlot ==
  /\ frame.slot = "right" /\ frame' = [frame EXCEPT !.slot = "left"]
  /\ right' = Voice(right, frame.sync, mem, nextaddr)
  /\ nextaddr' = right'.play
  /\ heard' = IF Sounds(right)
              THEN [heard EXCEPT !.right = WaveRead(right, mem).words] ELSE heard
  /\ UNCHANGED <<mem, left, sync, prog, seen>>

LeftSlot ==
  LET words == WaveRead(left, mem).words IN
  /\ frame.slot = "left" /\ frame' = [slot |-> "none", sync |-> FALSE]
  /\ left' = Voice(left, frame.sync, mem, nextaddr)
  /\ nextaddr' = left'.play
  /\ IF Sounds(left)
     THEN /\ heard' = [heard EXCEPT !.left = words]
          /\ seen' = [seen EXCEPT !.ticked = TRUE]
     ELSE heard' = heard /\ seen' = [seen EXCEPT !.ticked = TRUE]
  /\ UNCHANGED <<mem, right, sync, prog>>

-----------------------------------------------------------------------------
(* The program.                                                            *)

KeyOnAt(v, at, speed) ==
  [v EXCEPT !.keyon = TRUE, !.start = at, !.stop = at + Ring - 1, !.freq = speed,
            !.cache = [i \in CacheIndices |-> Older]]

\* spu_stream_play: the left slot.  The file has been opened before, which
\* takes longer than a sample: no key waits any more.  What memory and caches
\* have is of an older file now.
Play(speed) ==
  /\ prog.at \in {"stopped", "playing"} /\ seen.plays < MaxPlays
  /\ ~(sync \/ frame.sync \/ left.keyoff \/ right.keyoff)
  /\ left' = KeyOnAt(left, LeftStart, speed)
  /\ right' = [right EXCEPT !.cache = [i \in CacheIndices |-> Older]]
  /\ prog' = [at |-> "key right", offs |-> 0, size |-> 0, done |-> 0, eof |-> FALSE]
  /\ mem' = [a \in Addresses |-> Older]
  /\ heard' = [left |-> <<Older, Older>>, right |-> <<Older, Older>>]
  /\ seen' = [ticked |-> TRUE, plays |-> seen.plays + 1]
  /\ UNCHANGED <<nextaddr, sync, frame>>

PlayRight ==
  /\ prog.at = "key right" /\ prog' = [prog EXCEPT !.at = "sync"]
  /\ right' = KeyOnAt(right, RightStart, left.freq)
  /\ UNCHANGED <<mem, left, nextaddr, sync, frame, heard, seen>>

\* Both start together.
PlaySync ==
  /\ prog.at = "sync" /\ prog' = [prog EXCEPT !.at = "playing"]
  /\ sync' = TRUE
  /\ UNCHANGED <<mem, left, right, nextaddr, frame, heard, seen>>

\* spu_bufferfill.  The keys have been taken: its caller prints a line before
\* the first call, which takes longer than a sample.
FillBegins ==
  /\ Room /\ ~left.keyon
  /\ prog' = [prog EXCEPT !.at = "filling", !.done = 0]
  /\ seen' = [seen EXCEPT !.ticked = frame.slot = "none"]
  /\ UNCHANGED <<mem, left, right, nextaddr, sync, frame, heard>>

\* The next sample of the file, or zero.
FillSample ==
  LET a == prog.offs + prog.done IN
  /\ prog.at = "filling" /\ prog.done < Block
  /\ mem' = [mem EXCEPT ![LeftStart + a] = prog.size, ![RightStart + a] = prog.size]
  /\ prog' = [prog EXCEPT !.size = LesserOf(@ + 1, Length), !.done = @ + 1,
                          !.eof = prog.size >= Length]
  /\ UNCHANGED <<left, right, nextaddr, sync, frame, heard, seen>>

\* Fault: the word behind the end is forgotten.
EndNotCopied == mem

\* The word behind the end of a ring is the first one.
EndCopied ==
  IF prog.offs = 0
  THEN [mem EXCEPT ![LeftStart + Ring] = mem[LeftStart], ![RightStart + Ring] = mem[RightStart]]
  ELSE mem

\* A block takes longer than the SPU needs for its slots.
FillEnds ==
  /\ prog.at = "filling" /\ prog.done = Block /\ seen.ticked
  /\ mem' = EndCopied
  /\ prog' = [prog EXCEPT !.at = "playing", !.offs = (@ + Block) % Ring]
  /\ UNCHANGED <<left, right, nextaddr, sync, frame, heard, seen>>

\* spu_stream_stop.  Other bits of the status words are cleared with it.
Stop ==
  /\ prog.at = "playing"
  /\ left'  = [left EXCEPT !.keyoff = TRUE, !.keyon = FALSE]
  /\ right' = [right EXCEPT !.keyoff = TRUE, !.keyon = FALSE]
  /\ sync' = TRUE
  /\ prog' = [prog EXCEPT !.at = "stopped"]
  /\ UNCHANGED <<mem, nextaddr, frame, heard, seen>>

\* After spu_init.
Init ==
  /\ mem = [a \in Addresses |-> Older]
  /\ left = Silent(Older) /\ right = Silent(Older) /\ nextaddr = 0
  /\ sync = FALSE
  /\ frame = [slot |-> "none", sync |-> FALSE]
  /\ prog = [at |-> "stopped", offs |-> 0, size |-> 0, done |-> 0, eof |-> FALSE]
  /\ heard = [left |-> <<Older, Older>>, right |-> <<Older, Older>>]
  /\ seen = [ticked |-> TRUE, plays |-> 0]

Spu == FrameBegins \/ RightSlot \/ LeftSlot
Program == PlayRight \/ PlaySync \/ FillSample \/ FillEnds
Next == Spu \/ Program \/ FillBegins \/ Stop \/ \E f \in Speeds : Play(f)

Spec == Init /\ [][Next]_vars

\* The SPU's clock runs, and so does the program's loop.
FairSpec == Spec /\ WF_vars(Spu) /\ WF_vars(Program \/ FillBegins)

-----------------------------------------------------------------------------
(* Properties.                                                             *)

Follows(w) == w[2] \in IF w[1] = Older THEN {Older, 0} ELSE {LesserOf(w[1] + 1, Length)}

\* The two words of a sample follow each other in the file: across lines of the cache, blocks and
\* the end of the ring, and while a block is filled.
NoTear == Follows(heard.left) /\ Follows(heard.right)

\* Both channels play the same place of the file in a sample.
InStep ==
  frame.slot = "none" /\ prog.at # "stopped" => heard.left = heard.right

\* The file is played in order: a sample is at most a step behind the one before.
InOrder ==
  [][LeftSlot => heard'.left[1] \in heard.left[1] .. heard.left[1] + 2]_vars

\* The end of the file is reached, unless it is stopped.
Ends == prog.at = "playing" ~> prog.eof \/ prog.at = "stopped"

=============================================================================
