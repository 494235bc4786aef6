------------------------------ MODULE VgaFetch -------------------------------
(***************************************************************************)
(* The picture's way from the memory to the screen: in the pixel clock the *)
(* sync generator (vga_syncgen) and the reading of the line buffer, in the *)
(* memory's clock the machine that fills the line buffer with a burst for  *)
(* each line (vga_avm).                                                    *)
(*                                                                         *)
(* A word of the picture is the line it is of; the words of a line come in *)
(* their order.  Left out: colours, dither (which is off) and the registers*)
(* that delay pixels and sync signals alike.                               *)
(***************************************************************************)
EXTENDS Integers, FiniteSets

CONSTANTS
  H_SYNC, H_BACKP, H_ACTIVE, H_TOTAL,   \* generics: pixels of a line
  V_SYNC, V_BACKP, V_ACTIVE, V_TOTAL,   \* generics: lines of a frame
  Counts,   \* values of pixelcount_reg: 0 .. 511
  Weights,  \* of its bits: 1, 2, 4 .. 256
  Pages,    \* frame buffers
  Ratio     \* bound: ticks of the memory's clock in one of the pixel clock

\* A line's start is found, three ticks late, before its first pixel.
ASSUME VgaAssumption ==
  /\ {H_SYNC, H_BACKP, H_ACTIVE, V_SYNC, V_BACKP, V_ACTIVE, Ratio} \subseteq Nat \ {0}
  /\ H_ACTIVE % 2 = 0 /\ H_SYNC + H_BACKP > 3
  /\ H_TOTAL \in Nat /\ H_TOTAL > H_SYNC + H_BACKP + H_ACTIVE
  /\ V_TOTAL \in Nat /\ V_TOTAL > V_SYNC + V_BACKP + V_ACTIVE

VARIABLES
  beam,     \* hcount, vcount, hblank, vblank, vsync, scanena and its input
  strobe,   \* framestart and linestart
  edge,     \* registers that find their rising edges: the last three values
  bus,      \* avm_state, datacount and what it was a tick ago, topaddr_reg,
            \* the line of addr_reg, lineoffs_reg
  buffer,   \* the line buffer
  pixel,    \* pixeladdr_reg, pixelcount_reg, overrun_reg
  scan,     \* scanena_reg of the control register
  page,     \* framebuff_addr_reg
  ticks,    \* ticks of the memory's clock since the last pixel
  seen      \* observer, in this frame: a start was lost, a pixel was more than
            \* a word late, the report of it was cleared; pages of its lines, and
            \* whether a page was set without waiting for the vsync

Burst == H_ACTIVE \div 2    \* BURSTCYCLE
Words == 0 .. Burst - 1

LastBack   == H_SYNC + H_BACKP - 1
LastActive == LastBack + H_ACTIVE
FirstLine  == V_SYNC + V_BACKP

-----------------------------------------------------------------------------
(* The pixel clock.                                                        *)

Active == beam.scanena /\ ~beam.hblank /\ ~beam.vblank

\* The counters, and the blanking that follows them.
BeamMoves ==
  LET line == beam.h = LastActive IN
  [h |-> (beam.h + 1) % H_TOTAL,
   v |-> IF line THEN (beam.v + 1) % V_TOTAL ELSE beam.v,
   hblank |-> CASE beam.h = LastBack -> FALSE [] line -> TRUE [] OTHER -> beam.hblank,
   vblank |-> CASE line /\ beam.v = FirstLine - 1 -> FALSE
                [] line /\ beam.v = FirstLine + V_ACTIVE - 1 -> TRUE
                [] OTHER -> beam.vblank,
   vsync  |-> CASE line /\ beam.v = V_TOTAL - 1 -> TRUE
                [] line /\ beam.v = V_SYNC - 1 -> FALSE
                [] OTHER -> beam.vsync,
   scanin  |-> scan,
   scanena |-> IF beam.h = 0 /\ beam.v = 0 THEN beam.scanin ELSE beam.scanena]

\* framestart and linestart, while hsync.
Strobes ==
  CASE beam.h = H_TOTAL - 1 -> [frame |-> beam.v = 0, line |-> ~beam.vblank /\ beam.scanena]
    [] beam.h = H_SYNC - 1  -> [frame |-> FALSE, line |-> FALSE]
    [] OTHER -> strobe

Bit(n, w) == (n \div w) % 2

\* Its bits give the number; the number of the last word fits (the number of
\* words, which is datacount at the end, need not).
ASSUME CountAssumption ==
  /\ 0 .. Burst - 1 \subseteq Counts /\ Counts \subseteq Nat /\ Weights \subseteq Nat \ {0}
  /\ \A m, n \in Counts : (\A w \in Weights : Bit(m, w) = Bit(n, w)) => m = n

\* datacount as the pixel clock finds it: each bit may be from before the
\* last tick of the memory's clock, or from after it.
Sampled ==
  {n \in Counts : \A w \in Weights : Bit(n, w) \in {Bit(bus.was, w), Bit(bus.count, w)}}

Word == pixel.addr \div 2

\* The overrun is looked for with the count of a tick ago.
Overrun == Active /\ (pixel.overrun \/ pixel.count < Word)

\* The word that is shown has not come yet, nor, at its second pixel, the
\* word before.
Late == bus.count <= Word
Far  == Active /\ pixel.addr % 2 = 1 /\ bus.count < Word

Nothing == [lost |-> FALSE, far |-> FALSE, excused |-> FALSE,
            pages |-> {}, hasty |-> FALSE]

PixelTick ==
  /\ ticks > 0
  /\ beam' = BeamMoves /\ strobe' = Strobes
  /\ \E n \in Sampled :
       pixel' = [addr |-> IF Active THEN pixel.addr + 1 ELSE 0, count |-> n, overrun |-> Overrun]
  /\ ticks' = 0
  /\ seen' = IF strobe.frame THEN Nothing
             ELSE [seen EXCEPT !.far = @ \/ Far]
  /\ UNCHANGED <<edge, bus, buffer>>

-----------------------------------------------------------------------------
(* The memory's clock.                                                     *)

Shift(s, x) == <<x, s[1], s[2]>>
Rises(s)    == s[2] /\ ~s[3]

FrameStart == Rises(edge.frame)
LineStart  == Rises(edge.line)

Starts == bus.state = "IDLE" /\ LineStart

\* Fault: a frame goes on where the last one ended.
LineOffsetKept == IF Starts THEN bus.offs + 1 ELSE bus.offs

LineOffset == CASE FrameStart -> 0 [] ~FrameStart /\ Starts -> bus.offs + 1 [] OTHER -> bus.offs

\* The machine is idle, or waits for the memory to take the burst, or for a word of it.
Machine ==
  \/ /\ bus.state = "IDLE" /\ ~LineStart
     /\ bus' = [bus EXCEPT !.was = bus.count, !.top = page, !.offs = LineOffset]
     /\ UNCHANGED buffer
  \/ /\ Starts
     /\ bus' = [bus EXCEPT !.state = "READ_ISSUE", !.line = bus.offs,
                           !.count = 0, !.was = bus.count, !.top = page, !.offs = LineOffset]
     /\ UNCHANGED buffer
  \/ /\ bus.state = "READ_ISSUE"
     /\ \E waitrequest \in BOOLEAN :
          bus' = [bus EXCEPT !.state = IF waitrequest THEN @ ELSE "DATA_READ",
                             !.was = bus.count, !.top = page, !.offs = LineOffset]
     /\ UNCHANGED buffer
  \/ /\ bus.state = "DATA_READ"
     /\ bus' = [bus EXCEPT !.was = bus.count, !.top = page, !.offs = LineOffset]
     /\ UNCHANGED buffer
  \/ /\ bus.state = "DATA_READ"
     /\ bus' = [bus EXCEPT !.state = IF bus.count = Burst - 1 THEN "IDLE" ELSE @,
                           !.was = bus.count, !.count = @ + 1,
                           !.top = page, !.offs = LineOffset]
     /\ buffer' = [buffer EXCEPT ![bus.count] = bus.line]

MemoryTick ==
  /\ ticks < Ratio /\ ticks' = ticks + 1
  /\ edge' = [frame |-> Shift(edge.frame, strobe.frame), line |-> Shift(edge.line, strobe.line)]
  /\ Machine
  /\ seen' = [seen EXCEPT !.lost = @ \/ (LineStart /\ bus.state # "IDLE"),
                          !.pages = IF Starts THEN @ \union {bus.top} ELSE @]
  /\ UNCHANGED <<beam, strobe, pixel>>

Off == <<FALSE, FALSE, FALSE>>

FetchInit ==
  /\ beam = [h |-> H_TOTAL - 1, v |-> V_TOTAL - 1, hblank |-> TRUE, vblank |-> TRUE,
             vsync |-> FALSE, scanin |-> FALSE, scanena |-> FALSE]
  /\ strobe = [frame |-> FALSE, line |-> FALSE]
  /\ edge = [frame |-> Off, line |-> Off]
  /\ bus = [state |-> "IDLE", count |-> 0, was |-> 0, top |-> 0, line |-> 0, offs |-> 0]
  /\ buffer = [w \in Words |-> V_ACTIVE]
  /\ pixel = [addr |-> 0, count |-> 0, overrun |-> FALSE]
  /\ ticks = 0
  /\ seen = Nothing
=============================================================================
