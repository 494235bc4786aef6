-------------------------------- MODULE Vga ----------------------------------
(***************************************************************************)
(* The video system: VgaFetch, the control registers of vga_component,     *)
(* which have a third clock, and a program that shows pages with nd_egl.   *)
(* Left out: the interrupt and the count of vsyncs, which no program uses. *)
(***************************************************************************)
EXTENDS VgaFetch

VARIABLES
  status,   \* vsflag_reg, ovrerr_reg, the registers that find the edges of
            \* vsync and overrun, whether their clock ticked since the last pixel
  program   \* its place, what it sets, the bit of the status it read

vars == <<beam, strobe, edge, bus, buffer, pixel, scan, page, ticks, seen, status, program>>

\* Fault: the program's write is stronger than the edge.
ControlTickCleared(clears) ==
  /\ ~status.ticked
  /\ status' = [ticked |-> TRUE,
                vs     |-> Shift(status.vs, beam.vsync),
                ovr    |-> Shift(status.ovr, pixel.overrun),
                vsflag |-> IF Rises(status.vs) THEN ~status.vsflag ELSE status.vsflag,
                ovrerr |-> ~clears /\ (Rises(status.ovr) \/ status.ovrerr)]
  /\ UNCHANGED <<beam, strobe, edge, bus, buffer, pixel, ticks>>

\* A tick of the control registers; zero is written to the flag of overruns,
\* or not.  An edge is stronger.
ControlTick(clears) ==
  /\ ~status.ticked
  /\ status' = [ticked |-> TRUE,
                vs     |-> Shift(status.vs, beam.vsync),
                ovr    |-> Shift(status.ovr, pixel.overrun),
                vsflag |-> IF Rises(status.vs) THEN ~status.vsflag ELSE status.vsflag,
                ovrerr |-> Rises(status.ovr) \/ (status.ovrerr /\ ~clears)]
  /\ UNCHANGED <<beam, strobe, edge, bus, buffer, pixel, ticks>>

-----------------------------------------------------------------------------
(* The program: nd_egl.c.                                                  *)

Resting == [at |-> "idle", value |-> 0, read |-> FALSE, waited |-> FALSE]

\* Fault: the program takes the flag for set by the vsync.
VsyncCameSet == program.at = "wait" /\ status.vsflag

VsyncCame == program.at = "wait" /\ program.read # status.vsflag

\* The program is elsewhere, but not for the whole blanking of a frame when
\* it waited for the vsync.
InTime ==
  beam.v = FirstLine - 1 => ~VsyncCame /\ ~program.waited

Elsewhere ==
  InTime /\ ControlTick(FALSE) /\ UNCHANGED <<scan, page, program, seen>>

\* nd_GsEglPage, and the first look of nd_GsVgaWaitVsync at the flag.
ShowPage(p, vs) ==
  /\ program.at = "idle"
  /\ program' = [Resting EXCEPT !.at = IF vs THEN "wait" ELSE "set", !.value = p,
                                !.read = vs /\ status.vsflag]
  /\ ControlTick(FALSE) /\ UNCHANGED <<scan, page, seen>>

WaitVsync ==
  /\ VsyncCame /\ program' = [program EXCEPT !.at = "set", !.waited = TRUE]
  /\ ControlTick(FALSE) /\ UNCHANGED <<scan, page, seen>>

SetBuffer ==
  /\ program.at = "set" /\ program' = Resting
  /\ page' = program.value
  /\ seen' = [seen EXCEPT !.hasty = @ \/ ~program.waited]
  /\ ControlTick(FALSE) /\ UNCHANGED scan

\* nd_GsVgaScanOn, nd_GsVgaScanOff: the status is read,
ReadStatus(on) ==
  /\ program.at = "idle"
  /\ program' = [Resting EXCEPT !.at = "write", !.value = on, !.read = status.ovrerr]
  /\ ControlTick(FALSE) /\ UNCHANGED <<scan, page, seen>>

\* and written: a report that came in between is cleared.
WriteStatus ==
  /\ program.at = "write" /\ program' = Resting
  /\ scan' = program.value
  /\ seen' = [seen EXCEPT !.excused = @ \/ (status.ovrerr /\ ~program.read)]
  /\ ControlTick(~program.read) /\ UNCHANGED page

Program ==
  \/ WaitVsync \/ SetBuffer \/ WriteStatus
  \/ \E p \in Pages \ {page}, vs \in BOOLEAN : ShowPage(p, vs)
  \/ \E on \in BOOLEAN : ReadStatus(on)

-----------------------------------------------------------------------------
Pixel ==
  /\ status.ticked /\ PixelTick
  /\ status' = [status EXCEPT !.ticked = FALSE]
  /\ UNCHANGED <<scan, page, program>>

Memory == status.ticked /\ MemoryTick /\ UNCHANGED <<scan, page, status, program>>

Init ==
  /\ FetchInit
  /\ scan = FALSE /\ page = 0
  /\ status = [ticked |-> FALSE, vs |-> Off, ovr |-> Off, vsflag |-> FALSE, ovrerr |-> FALSE]
  /\ program = Resting

Next == Pixel \/ Memory \/ Elsewhere \/ Program

Spec == Init /\ [][Next]_vars

-----------------------------------------------------------------------------
(* Properties.                                                             *)

\* A frame in which no line's start was lost shows each pixel of its own
\* line, or a pixel whose word has not come, whatever was before the frame:
\* lines that were lost, a page set, the picture switched off.
RightLine == [][
  Pixel /\ Active /\ ~seen.lost => Late \/ buffer[Word] = beam.v - FirstLine]_vars

\* Pixels more than a word late are reported when the frame ends, whatever
\* bits the pixel clock found the count to have.  A program that switches
\* the picture at that time may have cleared the report.
FarReported ==
  strobe.frame /\ seen.far /\ ~seen.excused => status.ovrerr

\* A page that is set after the vsync is seen by whole frames.
WholePages == Cardinality(seen.pages) > 1 => seen.hasty
=============================================================================
