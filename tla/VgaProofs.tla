------------------------------ MODULE VgaProofs --------------------------------
(***************************************************************************)
(* The picture is right for any geometry, any memory and any ratio of the  *)
(* clocks: RightLine, WholePages and FarReported of Vga.                   *)
(*                                                                         *)
(* The invariant follows the beam. Each edge found in another clock is a   *)
(* run of ones that moves through three registers; it begins with the      *)
(* strobe and is out of the registers before the beam is in the next line, *)
(* so that the place of the beam tells whether the edge has been found.    *)
(***************************************************************************)
EXTENDS Vga, FiniteSetTheorems, TLAPS

\* Pixels since the beam entered the line v.
Along == IF beam.h > LastActive THEN beam.h - LastActive - 1
         ELSE beam.h + H_TOTAL - LastActive - 1

ActiveLine == beam.v \in FirstLine .. FirstLine + V_ACTIVE - 1

Three == BOOLEAN \X BOOLEAN \X BOOLEAN

FrameBuffers == Pages \cup {0}

SeenType == [lost : BOOLEAN, far : BOOLEAN, excused : BOOLEAN, pages : SUBSET FrameBuffers,
             hasty : BOOLEAN]

BusType == [state : {"IDLE", "READ_ISSUE", "DATA_READ"}, count : 0 .. Burst,
            was : 0 .. Burst, top : FrameBuffers, line : Nat, offs : Nat]

StatusType == [ticked : BOOLEAN, vs : Three, ovr : Three, vsflag : BOOLEAN, ovrerr : BOOLEAN]

ProgramType == [at : {"idle", "set", "wait", "write"}, value : FrameBuffers \cup BOOLEAN,
                read : BOOLEAN, waited : BOOLEAN]

VgaTypeOK ==
  /\ strobe \in [frame : BOOLEAN, line : BOOLEAN]
  /\ edge \in [frame : Three, line : Three]
  /\ bus \in BusType
  /\ buffer \in [Words -> Nat]
  /\ pixel \in [addr : Nat, count : Nat, overrun : BOOLEAN]
  /\ ticks \in Nat /\ (~status.ticked => ticks = 0)
  /\ page \in FrameBuffers
  /\ seen \in SeenType
  /\ status \in StatusType
  /\ program \in ProgramType
  /\ program.at \in {"set", "wait"} => program.value \in FrameBuffers

\* The blankings and the vsync are functions of the counters.
BeamInv ==
  /\ beam.h \in 0 .. H_TOTAL - 1 /\ beam.v \in 0 .. V_TOTAL - 1
  /\ beam.hblank = ~(LastBack < beam.h /\ beam.h <= LastActive)
  /\ beam.vblank = ~ActiveLine
  /\ beam.vsync = (beam.v < V_SYNC)

\* The strobe s, which is up from the start of a line in which on holds, and
\* the registers e in which the memory's clock looks for its edge, at the pixel
\* h and k ticks of the memory's clock after it.
Run(h, k, s, e, on) ==
  /\ s \/ e[1] \/ e[2] \/ e[3] => on
  /\ s => h < H_SYNC
  /\ e[1] => h < H_SYNC \/ (h = H_SYNC /\ k = 0)
  /\ e[2] => h <= H_SYNC \/ (h = H_SYNC + 1 /\ k = 0)
  /\ e[3] => h <= H_SYNC + 1 \/ (h = H_SYNC + 2 /\ k = 0)
  /\ s /\ (h >= 1 \/ k > 0) => e[1]
  /\ e[1] /\ (h >= 2 \/ (h = 1 /\ k > 0)) => e[2]
  /\ e[2] /\ (h >= 3 \/ (h = 2 /\ k > 0)) => e[3]
  /\ e[3] /\ ~e[2] => ~e[1] /\ ~s
  /\ e[2] /\ ~e[1] => ~s

StrobeInv ==
  /\ strobe.frame = (beam.v = 0 /\ beam.h < H_SYNC)
  /\ Run(beam.h, ticks, strobe.frame, edge.frame, beam.v = 0)
  /\ Run(beam.h, ticks, strobe.line, edge.line, ActiveLine)

\* The control registers find the edge of the vsync in the first line.
After(k) == beam.v >= 1 \/ Along >= k \/ (Along = k - 1 /\ status.ticked)

VsyncInv ==
  /\ beam.vsync /\ After(1) => status.vs[1]
  /\ status.vs[1] /\ After(2) => status.vs[2]
  /\ status.vs[2] /\ After(3) => status.vs[3]

\* The program that waited for the vsync is done before the picture begins.
ProgramInv ==
  /\ VsyncCame => \/ beam.v < FirstLine - 1
                  \/ beam.v = FirstLine - 1 /\ Along = 0 /\ ~status.ticked
  /\ program.waited =>
       /\ program.at = "set"
       /\ \/ beam.v < FirstLine - 1
          \/ /\ beam.v = FirstLine - 1
             /\ Along = 0 \/ (Along = 1 /\ ~status.ticked)

\* The page is no longer set, except by a program that did not wait.
Settled ==
  \/ beam.v >= FirstLine
  \/ beam.v = FirstLine - 1 /\ (Along >= 2 \/ (Along = 1 /\ ticks > 0))

PagesInv ==
  /\ \/ beam.v = 0 /\ 1 <= beam.h /\ beam.h <= LastActive
     \/ 1 <= beam.v /\ beam.v < FirstLine
     => seen.pages = {}
  /\ ~seen.hasty =>
       /\ \E p : seen.pages \subseteq {p}
       /\ Settled => bus.top = page
       /\ ActiveLine => seen.pages \subseteq {page}

\* The buffer has the words of the line that is being fetched.
FilledInv ==
  /\ \A w \in Words : w < bus.count => buffer[w] = bus.line
  /\ bus.state = "READ_ISSUE" => bus.count = 0
  /\ bus.state = "DATA_READ" => bus.count < Burst
  /\ beam.h >= 4 \/ (beam.h = 3 /\ ticks > 0) => bus.was <= bus.count

\* An edge is to be found.
Pending(s, e) == ~e[3] /\ (e[2] \/ e[1] \/ s)

\* The line that is fetched is the beam's, unless a start was lost.
OffsInv ==
  /\ beam.v < FirstLine /\ ~(beam.v = 0 /\ (beam.h > LastActive \/ Pending(strobe.frame, edge.frame)))
       => bus.offs = 0
  /\ ActiveLine /\ beam.scanena /\ ~seen.lost =>
       IF beam.h > LastActive \/ Pending(strobe.line, edge.line)
       THEN bus.offs = beam.v - FirstLine
       ELSE bus.offs = beam.v - FirstLine + 1 /\ bus.line = beam.v - FirstLine

\* While no overrun is found, the words come no more than one late.
FollowInv ==
  /\ Active => pixel.addr = beam.h - LastBack - 1
  /\ Active /\ ~pixel.overrun /\ pixel.addr % 2 = 0 =>
       bus.count + 1 >= Word /\ (ticks > 0 => bus.was + 1 >= Word)
  /\ Active /\ ~pixel.overrun /\ pixel.addr % 2 = 1 => bus.count >= Word \/ pixel.count < Word

\* The beam was in an active line k pixels ago, which was its last one.
JustLeft(k) ==
  beam.v \in FirstLine + 1 .. FirstLine + V_ACTIVE /\ Along = k

\* Where an overrun and what the control registers know of it can be.
OverrunInv ==
  /\ pixel.overrun => Active \/ JustLeft(0)
  /\ pixel.overrun /\ status.ticked => status.ovr[1]
  /\ status.ovr[1] => pixel.overrun \/ (JustLeft(1) /\ ~status.ticked)
  /\ status.ovr[2] => pixel.overrun \/ JustLeft(1) \/ (JustLeft(2) /\ ~status.ticked)
  /\ status.ovr[3] => pixel.overrun \/ JustLeft(1) \/ JustLeft(2) \/ (JustLeft(3) /\ ~status.ticked)

ReportInv ==
  /\ status.ovr[3] => status.ovrerr \/ seen.excused
  /\ seen.far => status.ovrerr \/ seen.excused \/ Pending(pixel.overrun, status.ovr)

VgaInv ==
  /\ VgaTypeOK /\ BeamInv /\ StrobeInv /\ VsyncInv /\ ProgramInv /\ PagesInv
  /\ FilledInv /\ OffsInv /\ FollowInv /\ OverrunInv /\ ReportInv

-----------------------------------------------------------------------------
(* What the steps assign.                                                  *)

\* What the geometry says of a line and a frame.
LEMMA Geometry ==
  /\ H_SYNC \in Nat /\ H_TOTAL \in Nat /\ LastBack \in Nat /\ LastActive \in Nat /\ Burst \in Nat
  /\ 1 <= H_SYNC /\ H_SYNC <= LastBack /\ 3 <= LastBack /\ LastActive = LastBack + 2 * Burst
  /\ 1 <= Burst /\ H_SYNC + 2 <= LastActive /\ LastActive + 1 <= H_TOTAL - 1
  /\ V_SYNC \in Nat /\ V_ACTIVE \in Nat /\ FirstLine \in Nat /\ V_TOTAL \in Nat
  /\ 1 <= V_SYNC /\ V_SYNC < FirstLine /\ 1 <= V_ACTIVE /\ FirstLine + V_ACTIVE < V_TOTAL
BY VgaAssumption DEF LastBack, LastActive, FirstLine, Burst

\* A counter that starts again.
LEMMA NextCount ==
  ASSUME NEW n \in Nat, NEW k \in 0 .. n - 1
  PROVE  (k + 1) % n = IF k = n - 1 THEN 0 ELSE k + 1
OBVIOUS

\* The pixel clock, in its pieces.
LEMMA PixelForm ==
  ASSUME BeamInv, Pixel
  PROVE  /\ ticks > 0 /\ ticks' = 0 /\ status.ticked /\ UNCHANGED <<edge, bus, buffer, scan, page, program>>
         /\ beam'.h = IF beam.h = H_TOTAL - 1 THEN 0 ELSE beam.h + 1
         /\ beam'.v = IF beam.h = LastActive THEN IF beam.v = V_TOTAL - 1 THEN 0 ELSE beam.v + 1
                      ELSE beam.v
         /\ beam'.scanena = IF beam.h = 0 /\ beam.v = 0 THEN beam.scanin ELSE beam.scanena
         /\ pixel'.addr = IF Active THEN pixel.addr + 1 ELSE 0
         /\ pixel'.overrun = Overrun /\ pixel'.count \in Sampled
<1>1. beam' = BeamMoves /\ ticks > 0 /\ ticks' = 0 /\ status.ticked
  BY DEF Pixel, PixelTick
<1>2. PICK n \in Sampled :
        pixel' = [addr |-> IF Active THEN pixel.addr + 1 ELSE 0, count |-> n, overrun |-> Overrun]
  BY Zenon DEF Pixel, PixelTick
<1>3. /\ pixel'.addr = IF Active THEN pixel.addr + 1 ELSE 0
      /\ pixel'.overrun = Overrun /\ pixel'.count \in Sampled
  BY <1>2, Zenon
<1>4. UNCHANGED <<edge, bus, buffer, scan, page, program>>
  BY DEF Pixel, PixelTick
<1>5. /\ beam'.h = (beam.h + 1) % H_TOTAL
      /\ beam'.v = IF beam.h = LastActive THEN (beam.v + 1) % V_TOTAL ELSE beam.v
      /\ beam'.scanena = IF beam.h = 0 /\ beam.v = 0 THEN beam.scanin ELSE beam.scanena
  BY <1>1 DEF BeamMoves
<1>6. /\ (beam.h + 1) % H_TOTAL = IF beam.h = H_TOTAL - 1 THEN 0 ELSE beam.h + 1
      /\ (beam.v + 1) % V_TOTAL = IF beam.v = V_TOTAL - 1 THEN 0 ELSE beam.v + 1
  BY Geometry, NextCount DEF BeamInv
<1> QED  BY <1>1, <1>3, <1>4, <1>5, <1>6

\* The strobes and the observer, at a pixel.
LEMMA PixelStrobes ==
  ASSUME VgaTypeOK, BeamInv, Pixel
  PROVE  /\ strobe'.frame = IF beam.h = H_TOTAL - 1 THEN beam.v = 0
                            ELSE beam.h # H_SYNC - 1 /\ strobe.frame
         /\ strobe'.line = IF beam.h = H_TOTAL - 1 THEN ~beam.vblank /\ beam.scanena
                           ELSE beam.h # H_SYNC - 1 /\ strobe.line
         /\ strobe' \in [frame : BOOLEAN, line : BOOLEAN]
         /\ strobe.frame => seen' = Nothing
         /\ ~strobe.frame => /\ seen'.far = (seen.far \/ Far) /\ seen'.lost = seen.lost
                             /\ seen'.excused = seen.excused /\ seen'.pages = seen.pages
                             /\ seen'.hasty = seen.hasty
         /\ seen' \in SeenType
         /\ status'.ticked = FALSE
         /\ status'.vs = status.vs /\ status'.ovr = status.ovr
         /\ status'.vsflag = status.vsflag /\ status'.ovrerr = status.ovrerr
         /\ status' \in StatusType
<1>1. strobe' = Strobes  BY DEF Pixel, PixelTick
<1>2. /\ strobe'.frame = IF beam.h = H_TOTAL - 1 THEN beam.v = 0
                         ELSE beam.h # H_SYNC - 1 /\ strobe.frame
      /\ strobe'.line = IF beam.h = H_TOTAL - 1 THEN ~beam.vblank /\ beam.scanena
                        ELSE beam.h # H_SYNC - 1 /\ strobe.line
      /\ strobe' \in [frame : BOOLEAN, line : BOOLEAN]
  <2>1. CASE beam.h = H_TOTAL - 1
    <3>1. PICK f \in BOOLEAN, l \in BOOLEAN :
            f = (beam.v = 0) /\ l = (~beam.vblank /\ beam.scanena)
      OBVIOUS
    <3>2. strobe' = [frame |-> f, line |-> l]
      BY <1>1, <2>1, <3>1, Geometry DEF Strobes
    <3> QED  BY <2>1, <3>1, <3>2
  <2>2. CASE beam.h = H_SYNC - 1
    <3>1. strobe' = [frame |-> FALSE, line |-> FALSE] /\ beam.h # H_TOTAL - 1
      BY <1>1, <2>2, Geometry DEF Strobes
    <3> QED  BY <2>2, <3>1
  <2>3. CASE beam.h # H_TOTAL - 1 /\ beam.h # H_SYNC - 1
    <3>1. strobe' = strobe  BY <1>1, <2>3 DEF Strobes
    <3> QED  BY <2>3, <3>1 DEF VgaTypeOK
  <2> QED  BY <2>1, <2>2, <2>3
<1>3. /\ strobe.frame => seen' = Nothing
      /\ ~strobe.frame => /\ seen'.far = (seen.far \/ Far) /\ seen'.lost = seen.lost
                          /\ seen'.excused = seen.excused /\ seen'.pages = seen.pages
                          /\ seen'.hasty = seen.hasty
      /\ seen' \in SeenType
  <2>1. CASE strobe.frame
    <3>1. seen' = Nothing  BY <2>1 DEF Pixel, PixelTick
    <3> QED  BY <2>1, <3>1 DEF SeenType, Nothing
  <2>2. CASE ~strobe.frame
    <3>1. PICK b \in BOOLEAN : b = (seen.far \/ Far)  OBVIOUS
    <3>2. seen' = [seen EXCEPT !.far = b]
      BY <2>2, <3>1, Zenon DEF Pixel, PixelTick
    <3> QED  BY <2>2, <3>1, <3>2 DEF VgaTypeOK, SeenType
  <2> QED  BY <2>1, <2>2
<1>4. /\ status'.ticked = FALSE
      /\ status'.vs = status.vs /\ status'.ovr = status.ovr
      /\ status'.vsflag = status.vsflag /\ status'.ovrerr = status.ovrerr
      /\ status' \in StatusType
  BY DEF Pixel, VgaTypeOK, StatusType
<1> QED  BY <1>2, <1>3, <1>4

\* Two numbers out of three registers.
LEMMA ShiftForm ==
  ASSUME NEW e \in Three, NEW b \in BOOLEAN
  PROVE  /\ Shift(e, b) \in Three
         /\ Shift(e, b)[1] = b /\ Shift(e, b)[2] = e[1] /\ Shift(e, b)[3] = e[2]
         /\ e[1] \in BOOLEAN /\ e[2] \in BOOLEAN /\ e[3] \in BOOLEAN
BY DEF Shift, Three

\* A record of the bus with new fields.
LEMMA BusForm ==
  ASSUME NEW S, NEW C, NEW T, NEW N,
         NEW b \in [state : S, count : C, was : C, top : T, line : N, offs : N],
         NEW s \in S, NEW c \in C, NEW w \in C, NEW t \in T, NEW l \in N, NEW o \in N
  PROVE  [b EXCEPT !.state = s, !.line = l, !.count = c, !.was = w, !.top = t, !.offs = o]
           \in [state : S, count : C, was : C, top : T, line : N, offs : N]
OBVIOUS

\* The memory's clock, in its pieces.
LEMMA MemoryForm ==
  ASSUME VgaTypeOK, FilledInv, Memory
  PROVE  /\ status.ticked /\ ticks' = ticks + 1
         /\ UNCHANGED <<beam, strobe, pixel, scan, page, status, program>>
         /\ edge' \in [frame : Three, line : Three]
         /\ edge'.frame[1] = strobe.frame /\ edge'.frame[2] = edge.frame[1]
         /\ edge'.frame[3] = edge.frame[2]
         /\ edge'.line[1] = strobe.line /\ edge'.line[2] = edge.line[1]
         /\ edge'.line[3] = edge.line[2]
         /\ bus'.top = page /\ bus'.offs = LineOffset /\ bus'.was = bus.count
         /\ Starts => /\ bus'.state = "READ_ISSUE" /\ bus'.line = bus.offs /\ bus'.count = 0
                      /\ buffer' = buffer
         /\ ~Starts => /\ bus'.line = bus.line
                       /\ bus.state = "IDLE" => bus'.state = "IDLE"
                       /\ \/ bus'.count = bus.count /\ buffer' = buffer
                          \/ /\ bus.state = "DATA_READ" /\ bus'.count = bus.count + 1
                             /\ buffer' = [buffer EXCEPT ![bus.count] = bus.line]
         /\ bus'.state = "READ_ISSUE" => bus'.count = 0
         /\ bus'.state = "DATA_READ" => bus'.count < Burst
         /\ bus' \in BusType
         /\ seen'.lost = (seen.lost \/ (LineStart /\ bus.state # "IDLE"))
         /\ seen'.pages = IF Starts THEN seen.pages \cup {bus.top} ELSE seen.pages
         /\ seen'.far = seen.far /\ seen'.excused = seen.excused /\ seen'.hasty = seen.hasty
         /\ seen' \in SeenType
<1>1. /\ status.ticked /\ ticks' = ticks + 1
      /\ UNCHANGED <<beam, strobe, pixel, scan, page, status, program>>
  BY DEF Memory, MemoryTick
<1>2. /\ edge' \in [frame : Three, line : Three]
      /\ edge'.frame[1] = strobe.frame /\ edge'.frame[2] = edge.frame[1]
      /\ edge'.frame[3] = edge.frame[2]
      /\ edge'.line[1] = strobe.line /\ edge'.line[2] = edge.line[1]
      /\ edge'.line[3] = edge.line[2]
  <2>1. edge' = [frame |-> Shift(edge.frame, strobe.frame), line |-> Shift(edge.line, strobe.line)]
    BY DEF Memory, MemoryTick
  <2>2. /\ edge.frame \in Three /\ edge.line \in Three
        /\ strobe.frame \in BOOLEAN /\ strobe.line \in BOOLEAN
    BY DEF VgaTypeOK
  <2>3. edge'.frame = Shift(edge.frame, strobe.frame) /\ edge'.line = Shift(edge.line, strobe.line)
    BY <2>1
  <2>4. Shift(edge.frame, strobe.frame) \in Three /\ Shift(edge.line, strobe.line) \in Three
    BY <2>2 DEF Shift, Three
  <2>5. /\ Shift(edge.frame, strobe.frame)[1] = strobe.frame
        /\ Shift(edge.frame, strobe.frame)[2] = edge.frame[1]
        /\ Shift(edge.frame, strobe.frame)[3] = edge.frame[2]
    BY <2>2 DEF Shift, Three
  <2>6. /\ Shift(edge.line, strobe.line)[1] = strobe.line
        /\ Shift(edge.line, strobe.line)[2] = edge.line[1]
        /\ Shift(edge.line, strobe.line)[3] = edge.line[2]
    BY <2>2 DEF Shift, Three
  <2>7. edge' \in [frame : Three, line : Three]  BY <2>1, <2>4
  <2> QED  BY <2>3, <2>5, <2>6, <2>7
<1>3. LineOffset \in Nat
  BY DEF LineOffset, VgaTypeOK, BusType
<1>4. /\ bus'.top = page /\ bus'.offs = LineOffset /\ bus'.was = bus.count
      /\ Starts => /\ bus'.state = "READ_ISSUE" /\ bus'.line = bus.offs /\ bus'.count = 0
                   /\ buffer' = buffer
      /\ ~Starts => /\ bus'.line = bus.line
                    /\ bus.state = "IDLE" => bus'.state = "IDLE"
                    /\ \/ bus'.count = bus.count /\ buffer' = buffer
                       \/ /\ bus.state = "DATA_READ" /\ bus'.count = bus.count + 1
                          /\ buffer' = [buffer EXCEPT ![bus.count] = bus.line]
      /\ bus'.state = "READ_ISSUE" => bus'.count = 0
      /\ bus'.state = "DATA_READ" => bus'.count < Burst
      /\ bus' \in BusType
  <2>0. Machine /\ Burst \in Nat /\ page \in FrameBuffers
    BY Geometry DEF Memory, MemoryTick, VgaTypeOK
  <2>9. bus \in BusType  BY DEF VgaTypeOK
  <2>1. CASE /\ bus.state = "IDLE" /\ ~LineStart
             /\ bus' = [bus EXCEPT !.was = bus.count, !.top = page, !.offs = LineOffset]
             /\ UNCHANGED buffer
    <3>1. ~Starts  BY <2>1, Zenon DEF Starts
    <3> QED  BY <1>3, <2>0, <2>9, <2>1, <3>1 DEF BusType
  <2>2. CASE /\ Starts
             /\ bus' = [bus EXCEPT !.state = "READ_ISSUE", !.line = bus.offs,
                                   !.count = 0, !.was = bus.count, !.top = page, !.offs = LineOffset]
             /\ UNCHANGED buffer
    <3>1. /\ bus'.top = page /\ bus'.offs = LineOffset /\ bus'.was = bus.count
          /\ bus'.state = "READ_ISSUE" /\ bus'.line = bus.offs /\ bus'.count = 0
      BY <2>2, <2>9 DEF BusType
    <3>2. bus' \in BusType
      <4>1. bus.count \in 0 .. Burst /\ 0 \in 0 .. Burst /\ bus.offs \in Nat
        BY <2>0, <2>9 DEF BusType
      <4> QED  BY <1>3, <2>0, <2>2, <2>9, <4>1, BusForm, Zenon DEF BusType
    <3> QED  BY <2>2, <3>1, <3>2
  <2>3. CASE /\ bus.state = "READ_ISSUE"
             /\ \E waitrequest \in BOOLEAN :
                  bus' = [bus EXCEPT !.state = IF waitrequest THEN @ ELSE "DATA_READ",
                                     !.was = bus.count, !.top = page, !.offs = LineOffset]
             /\ UNCHANGED buffer
    <3>1. ~Starts  BY <2>3 DEF Starts
    <3>2. /\ bus'.count = bus.count /\ bus'.line = bus.line /\ bus' \in BusType
          /\ bus'.top = page /\ bus'.offs = LineOffset /\ bus'.was = bus.count
      BY <1>3, <2>0, <2>9, <2>3 DEF BusType
    <3>3. bus.count = 0 /\ 0 < Burst  BY <2>3, Geometry DEF FilledInv
    <3> QED  BY <2>3, <3>1, <3>2, <3>3
  <2>4. CASE /\ bus.state = "DATA_READ"
             /\ bus' = [bus EXCEPT !.was = bus.count, !.top = page, !.offs = LineOffset]
             /\ UNCHANGED buffer
    BY <1>3, <2>0, <2>9, <2>4 DEF BusType, Starts, FilledInv
  <2>5. CASE /\ bus.state = "DATA_READ"
             /\ bus' = [bus EXCEPT !.state = IF bus.count = Burst - 1 THEN "IDLE" ELSE @,
                                   !.was = bus.count, !.count = @ + 1,
                                   !.top = page, !.offs = LineOffset]
             /\ buffer' = [buffer EXCEPT ![bus.count] = bus.line]
    <3>1. ~Starts  BY <2>5 DEF Starts
    <3>2. bus.count \in 0 .. Burst - 1  BY <2>0, <2>5 DEF VgaTypeOK, BusType, FilledInv
    <3>3. PICK t \in {"IDLE", "READ_ISSUE", "DATA_READ"} :
            t = IF bus.count = Burst - 1 THEN "IDLE" ELSE bus.state
      BY <2>5
    <3>4. bus' = [bus EXCEPT !.state = t, !.line = bus.line, !.count = bus.count + 1,
                             !.was = bus.count, !.top = page, !.offs = LineOffset]
      BY <2>9, <2>5, <3>3 DEF BusType
    <3>5. /\ bus'.top = page /\ bus'.offs = LineOffset /\ bus'.was = bus.count
          /\ bus'.line = bus.line /\ bus'.count = bus.count + 1 /\ bus'.state = t
      BY <2>9, <3>4 DEF BusType
    <3>6. bus' \in BusType
      <4>1. bus.count \in 0 .. Burst /\ bus.count + 1 \in 0 .. Burst /\ bus.line \in Nat
        BY <2>0, <2>9, <3>2 DEF BusType
      <4> QED  BY <1>3, <2>0, <2>9, <3>4, <4>1, BusForm, Zenon DEF BusType
    <3>7. t # "READ_ISSUE" /\ (t = "DATA_READ" => bus.count + 1 < Burst)
      BY <2>0, <2>5, <3>2, <3>3
    <3> QED  BY <2>5, <3>1, <3>5, <3>6, <3>7
  <2> QED  BY <2>0, <2>1, <2>2, <2>3, <2>4, <2>5 DEF Machine
<1>5. /\ seen'.lost = (seen.lost \/ (LineStart /\ bus.state # "IDLE"))
      /\ seen'.pages = IF Starts THEN seen.pages \cup {bus.top} ELSE seen.pages
      /\ seen'.far = seen.far /\ seen'.excused = seen.excused /\ seen'.hasty = seen.hasty
      /\ seen' \in SeenType
  <2>1. PICK b \in BOOLEAN : b = (seen.lost \/ (LineStart /\ bus.state # "IDLE"))
    OBVIOUS
  <2>2. PICK P \in SUBSET FrameBuffers :
          P = IF Starts THEN seen.pages \cup {bus.top} ELSE seen.pages
    BY DEF VgaTypeOK, SeenType, BusType
  <2>3. seen' = [seen EXCEPT !.lost = b, !.pages = P]
    BY <2>1, <2>2, Zenon DEF Memory, MemoryTick
  <2> QED  BY <2>1, <2>2, <2>3 DEF VgaTypeOK, SeenType
<1> QED  BY <1>1, <1>2, <1>4, <1>5

\* The control registers, in their pieces.
LEMMA ControlForm ==
  ASSUME VgaTypeOK, BeamInv, NEW clears \in BOOLEAN, ControlTick(clears)
  PROVE  /\ ~status.ticked /\ status'.ticked /\ UNCHANGED <<beam, strobe, edge, bus, buffer, pixel, ticks>>
         /\ ticks = 0
         /\ status'.vs[1] = beam.vsync /\ status'.vs[2] = status.vs[1] /\ status'.vs[3] = status.vs[2]
         /\ status'.ovr[1] = pixel.overrun /\ status'.ovr[2] = status.ovr[1]
         /\ status'.ovr[3] = status.ovr[2]
         /\ ~Rises(status.vs) => status'.vsflag = status.vsflag
         /\ status'.ovrerr = (Rises(status.ovr) \/ (status.ovrerr /\ ~clears))
         /\ status' \in StatusType
<1>1. /\ ~status.ticked /\ UNCHANGED <<beam, strobe, edge, bus, buffer, pixel, ticks>> /\ ticks = 0
      /\ status.vs \in Three /\ status.ovr \in Three /\ pixel.overrun \in BOOLEAN
      /\ status.vsflag \in BOOLEAN /\ status.ovrerr \in BOOLEAN
  BY DEF ControlTick, VgaTypeOK, StatusType
<1>2. PICK v \in BOOLEAN, f \in BOOLEAN, o \in BOOLEAN :
        /\ v = beam.vsync
        /\ f = IF Rises(status.vs) THEN ~status.vsflag ELSE status.vsflag
        /\ o = (Rises(status.ovr) \/ (status.ovrerr /\ ~clears))
  <2>1. beam.vsync \in BOOLEAN  BY DEF BeamInv
  <2>2. (Rises(status.ovr) \/ (status.ovrerr /\ ~clears)) \in BOOLEAN  OBVIOUS
  <2>3. (IF Rises(status.vs) THEN ~status.vsflag ELSE status.vsflag) \in BOOLEAN
    BY <1>1
  <2> QED  BY <2>1, <2>2, <2>3, Zenon
<1>3. status' = [ticked |-> TRUE, vs |-> Shift(status.vs, v), ovr |-> Shift(status.ovr, pixel.overrun),
                 vsflag |-> f, ovrerr |-> o]
  BY <1>2, Zenon DEF ControlTick
<1>4. /\ status'.vs = Shift(status.vs, v) /\ status'.ovr = Shift(status.ovr, pixel.overrun)
      /\ status'.vsflag = f /\ status'.ovrerr = o /\ status'.ticked = TRUE
  BY <1>3
<1>5. /\ Shift(status.vs, v) \in Three /\ Shift(status.vs, v)[1] = v
      /\ Shift(status.vs, v)[2] = status.vs[1] /\ Shift(status.vs, v)[3] = status.vs[2]
  BY <1>1 DEF Shift, Three
<1>6. /\ Shift(status.ovr, pixel.overrun) \in Three
      /\ Shift(status.ovr, pixel.overrun)[1] = pixel.overrun
      /\ Shift(status.ovr, pixel.overrun)[2] = status.ovr[1]
      /\ Shift(status.ovr, pixel.overrun)[3] = status.ovr[2]
  BY <1>1 DEF Shift, Three
<1>7. status' \in StatusType
  BY <1>3, <1>5, <1>6 DEF StatusType
<1>8. ~Rises(status.vs) => f = status.vsflag  BY <1>2
<1>9. o = (Rises(status.ovr) \/ (status.ovrerr /\ ~clears))  BY <1>2
<1> QED  BY <1>1, <1>2, <1>4, <1>5, <1>6, <1>7, <1>8, <1>9

-----------------------------------------------------------------------------
(* A tick of the pixel clock.                                              *)

\* The blankings follow the counters.
LEMMA PixelBeam ==
  ASSUME BeamInv, Pixel
  PROVE  BeamInv'
<1>1. /\ beam'.h = IF beam.h = H_TOTAL - 1 THEN 0 ELSE beam.h + 1
      /\ beam'.v = IF beam.h = LastActive THEN IF beam.v = V_TOTAL - 1 THEN 0 ELSE beam.v + 1
                   ELSE beam.v
  BY PixelForm
<1>2. beam' = BeamMoves  BY DEF Pixel, PixelTick
<1>3. /\ beam'.hblank = CASE beam.h = LastBack -> FALSE [] beam.h = LastActive -> TRUE
                          [] OTHER -> beam.hblank
      /\ beam'.vblank = CASE beam.h = LastActive /\ beam.v = FirstLine - 1 -> FALSE
                          [] beam.h = LastActive /\ beam.v = FirstLine + V_ACTIVE - 1 -> TRUE
                          [] OTHER -> beam.vblank
      /\ beam'.vsync = CASE beam.h = LastActive /\ beam.v = V_TOTAL - 1 -> TRUE
                         [] beam.h = LastActive /\ beam.v = V_SYNC - 1 -> FALSE
                         [] OTHER -> beam.vsync
  BY <1>2, Zenon DEF BeamMoves
<1>4. beam'.h \in 0 .. H_TOTAL - 1 /\ beam'.v \in 0 .. V_TOTAL - 1
  BY <1>1, Geometry DEF BeamInv
<1>5. beam'.hblank = ~(LastBack < beam'.h /\ beam'.h <= LastActive)
  <2>1. CASE beam.h = LastBack
    <3>1. beam'.hblank = FALSE  BY <1>3, <2>1, Geometry
    <3>2. LastBack < beam'.h /\ beam'.h <= LastActive  BY <1>1, <2>1, Geometry
    <3> QED  BY <3>1, <3>2
  <2>2. CASE beam.h = LastActive
    <3>1. beam'.hblank = TRUE  BY <1>3, <2>2, Geometry
    <3>2. ~(LastBack < beam'.h /\ beam'.h <= LastActive)  BY <1>1, <2>2, Geometry
    <3> QED  BY <3>1, <3>2
  <2>3. CASE beam.h # LastBack /\ beam.h # LastActive
    <3>1. beam'.hblank = beam.hblank  BY <1>3, <2>3
    <3>2. (LastBack < beam'.h /\ beam'.h <= LastActive)
            = (LastBack < beam.h /\ beam.h <= LastActive)
      BY <1>1, <2>3, Geometry DEF BeamInv
    <3>3. beam.hblank = ~(LastBack < beam.h /\ beam.h <= LastActive)  BY DEF BeamInv
    <3> QED  BY <3>1, <3>2, <3>3, Zenon
  <2> QED  BY <2>1, <2>2, <2>3
<1>6. beam'.vblank = ~ActiveLine'
  <2>1. CASE beam.h = LastActive /\ beam.v = FirstLine - 1
    <3>1. beam'.vblank = FALSE  BY <1>3, <2>1, Geometry
    <3>2. ActiveLine'  BY <1>1, <2>1, Geometry DEF ActiveLine
    <3> QED  BY <3>1, <3>2
  <2>2. CASE beam.h = LastActive /\ beam.v = FirstLine + V_ACTIVE - 1
    <3>1. beam'.vblank = TRUE  BY <1>3, <2>2, Geometry
    <3>2. ~ActiveLine'  BY <1>1, <2>2, Geometry DEF ActiveLine
    <3> QED  BY <3>1, <3>2
  <2>3. CASE beam.h # LastActive \/ beam.v \notin {FirstLine - 1, FirstLine + V_ACTIVE - 1}
    <3>1. beam'.vblank = beam.vblank  BY <1>3, <2>3
    <3>2. ActiveLine' = ActiveLine
      BY <1>1, <2>3, Geometry DEF BeamInv, ActiveLine
    <3>3. beam.vblank = ~ActiveLine  BY DEF BeamInv
    <3> QED  BY <3>1, <3>2, <3>3, Zenon
  <2> QED  BY <2>1, <2>2, <2>3
<1>7. beam'.vsync = (beam'.v < V_SYNC)
  <2>1. CASE beam.h = LastActive /\ beam.v = V_TOTAL - 1
    <3>1. beam'.vsync = TRUE  BY <1>3, <2>1, Geometry
    <3>2. beam'.v < V_SYNC  BY <1>1, <2>1, Geometry
    <3> QED  BY <3>1, <3>2
  <2>2. CASE beam.h = LastActive /\ beam.v = V_SYNC - 1
    <3>1. beam'.vsync = FALSE  BY <1>3, <2>2, Geometry
    <3>2. (beam'.v < V_SYNC) = FALSE  BY <1>1, <2>2, Geometry
    <3> QED  BY <3>1, <3>2, Zenon
  <2>3. CASE beam.h # LastActive \/ beam.v \notin {V_TOTAL - 1, V_SYNC - 1}
    <3>1. beam'.vsync = beam.vsync  BY <1>3, <2>3
    <3>2. (beam'.v < V_SYNC) = (beam.v < V_SYNC)
      BY <1>1, <2>3, Geometry DEF BeamInv
    <3>3. beam.vsync = (beam.v < V_SYNC)  BY DEF BeamInv
    <3> QED  BY <3>1, <3>2, <3>3, Zenon
  <2> QED  BY <2>1, <2>2, <2>3
<1> QED  BY <1>4, <1>5, <1>6, <1>7 DEF BeamInv

\* The way along a line.
LEMMA AlongForm ==
  ASSUME BeamInv
  PROVE  /\ Along \in 0 .. H_TOTAL - 1 /\ (Along = H_TOTAL - 1 <=> beam.h = LastActive)
         /\ beam.h <= LastActive /\ beam.h >= 1 => Along >= 2
         /\ beam.h > LastBack /\ beam.h <= LastActive => Along >= 5
         /\ Pixel => Along' = IF beam.h = LastActive THEN 0 ELSE Along + 1
<1>1. /\ Along \in 0 .. H_TOTAL - 1 /\ (Along = H_TOTAL - 1 <=> beam.h = LastActive)
      /\ beam.h <= LastActive /\ beam.h >= 1 => Along >= 2
      /\ beam.h > LastBack /\ beam.h <= LastActive => Along >= 5
  BY Geometry DEF BeamInv, Along
<1>2. ASSUME Pixel PROVE Along' = IF beam.h = LastActive THEN 0 ELSE Along + 1
  <2>1. beam'.h = IF beam.h = H_TOTAL - 1 THEN 0 ELSE beam.h + 1  BY <1>2, PixelForm
  <2> QED  BY <2>1, Geometry DEF BeamInv, Along
<1> QED  BY <1>1, <1>2

\* A strobe falls, rises in a new line, or stays; the registers keep its edge.
LEMMA PixelRun ==
  ASSUME VgaTypeOK, BeamInv, Pixel,
         NEW s \in BOOLEAN, NEW t \in BOOLEAN, NEW e \in Three, NEW on \in BOOLEAN, NEW on2 \in BOOLEAN,
         Run(beam.h, ticks, s, e, on),
         t = IF beam.h = H_TOTAL - 1 THEN on2 /\ t ELSE beam.h # H_SYNC - 1 /\ s,
         beam.h # LastActive => on2 = on
  PROVE  Run(beam'.h, ticks', t, e, on2)
<1>1. /\ ticks > 0 /\ ticks' = 0 /\ beam.h \in 0 .. H_TOTAL - 1
      /\ beam'.h = IF beam.h = H_TOTAL - 1 THEN 0 ELSE beam.h + 1
  BY PixelForm DEF BeamInv
<1>2. beam.h >= H_SYNC + 2 => ~s /\ ~e[1] /\ ~e[2] /\ ~e[3]
  BY <1>1, Geometry DEF Run
<1>3. beam.h = H_TOTAL - 1 \/ beam.h = LastActive => beam.h >= H_SYNC + 2
  BY Geometry
<1>4. CASE beam.h = H_TOTAL - 1
  <2>1. ~e[1] /\ ~e[2] /\ ~e[3] /\ (t => on2) /\ beam'.h = 0  BY <1>1, <1>2, <1>3, <1>4
  <2> QED  BY <1>1, <2>1, Geometry DEF Run
<1>5. CASE beam.h # H_TOTAL - 1
  <2>1. beam'.h = beam.h + 1 /\ (t => s) /\ (t => beam.h # H_SYNC - 1)  BY <1>1, <1>5
  <2> QED  BY <1>1, <1>2, <1>3, <2>1, Geometry DEF Run
<1> QED  BY <1>4, <1>5

\* The strobes and the registers behind them.
LEMMA PixelStrobe ==
  ASSUME VgaTypeOK, BeamInv, StrobeInv, Pixel
  PROVE  StrobeInv'
<1>1. /\ UNCHANGED edge /\ strobe' \in [frame : BOOLEAN, line : BOOLEAN] /\ BeamInv'
      /\ beam'.h = IF beam.h = H_TOTAL - 1 THEN 0 ELSE beam.h + 1
      /\ beam'.v = IF beam.h = LastActive THEN IF beam.v = V_TOTAL - 1 THEN 0 ELSE beam.v + 1
                   ELSE beam.v
      /\ ticks' = 0
  BY PixelForm, PixelStrobes, PixelBeam
<1>2. /\ strobe'.frame = IF beam.h = H_TOTAL - 1 THEN beam.v = 0
                         ELSE beam.h # H_SYNC - 1 /\ strobe.frame
      /\ strobe'.line = IF beam.h = H_TOTAL - 1 THEN ~beam.vblank /\ beam.scanena
                        ELSE beam.h # H_SYNC - 1 /\ strobe.line
  BY PixelStrobes
<1>3. /\ edge.frame \in Three /\ edge.line \in Three
      /\ strobe.frame \in BOOLEAN /\ strobe.line \in BOOLEAN
      /\ strobe'.frame \in BOOLEAN /\ strobe'.line \in BOOLEAN
  BY <1>1 DEF VgaTypeOK
<1>4. /\ (beam.v = 0) \in BOOLEAN /\ (beam'.v = 0) \in BOOLEAN
      /\ ActiveLine \in BOOLEAN /\ ActiveLine' \in BOOLEAN
  BY DEF ActiveLine
<1>5. beam.h # LastActive => (beam'.v = 0) = (beam.v = 0) /\ ActiveLine' = ActiveLine
  BY <1>1 DEF ActiveLine
<1>6. strobe'.frame = (beam'.v = 0 /\ beam'.h < H_SYNC)
  <2>0. strobe.frame = (beam.v = 0 /\ beam.h < H_SYNC)  BY DEF StrobeInv
  <2>1. CASE beam.h = H_TOTAL - 1
    BY <1>1, <1>2, <2>1, Geometry
  <2>2. CASE beam.h # H_TOTAL - 1 /\ beam.h # LastActive
    <3>1. strobe'.frame = (beam.h # H_SYNC - 1 /\ strobe.frame)  BY <1>2, <2>2
    <3>2. beam'.v = beam.v /\ beam'.h = beam.h + 1  BY <1>1, <2>2
    <3>3. (beam'.v = 0 /\ beam'.h < H_SYNC) = (beam.h # H_SYNC - 1 /\ beam.v = 0 /\ beam.h < H_SYNC)
      BY <3>2, Geometry DEF BeamInv
    <3> QED  BY <2>0, <3>1, <3>3, Zenon
  <2>3. CASE beam.h = LastActive
    <3>1. ~(beam.v = 0 /\ beam.h < H_SYNC) /\ beam.h # H_TOTAL - 1
      BY <2>3, Geometry
    <3>2. strobe'.frame = FALSE  BY <1>2, <2>0, <3>1, Zenon
    <3>3. ~(beam'.v = 0 /\ beam'.h < H_SYNC)  BY <1>1, <2>3, Geometry
    <3> QED  BY <3>2, <3>3
  <2> QED  BY <2>1, <2>2, <2>3
<1>7. Run(beam.h, ticks, strobe.frame, edge.frame, beam.v = 0)'
  <2>1. strobe'.frame = IF beam.h = H_TOTAL - 1 THEN beam'.v = 0 /\ strobe'.frame
                        ELSE beam.h # H_SYNC - 1 /\ strobe.frame
    BY <1>1, <1>2, <1>3, Geometry
  <2>2. Run(beam.h, ticks, strobe.frame, edge.frame, beam.v = 0)  BY DEF StrobeInv
  <2>3. Run(beam'.h, ticks', strobe'.frame, edge.frame, beam'.v = 0)
    BY <1>3, <1>4, <1>5, <2>1, <2>2, PixelRun, ZenonT(40)
  <2> QED  BY <1>1, <2>3, Zenon
<1>8. Run(beam.h, ticks, strobe.line, edge.line, ActiveLine)'
  <2>1. strobe'.line = IF beam.h = H_TOTAL - 1 THEN ActiveLine' /\ strobe'.line
                       ELSE beam.h # H_SYNC - 1 /\ strobe.line
    BY <1>2, <1>3, <1>5, Geometry DEF BeamInv
  <2>2. Run(beam.h, ticks, strobe.line, edge.line, ActiveLine)  BY DEF StrobeInv
  <2>3. Run(beam'.h, ticks', strobe'.line, edge.line, ActiveLine')
    BY <1>3, <1>4, <1>5, <2>1, <2>2, PixelRun, ZenonT(40)
  <2> QED  BY <1>1, <2>3, Zenon
<1> QED  BY <1>6, <1>7, <1>8 DEF StrobeInv

-----------------------------------------------------------------------------
(* What the place of the beam tells.                                       *)

\* Edges are found, and starts happen, at the beginning of a line.
LEMMA Places ==
  ASSUME VgaTypeOK, BeamInv, StrobeInv
  PROVE  /\ beam.h \in 0 .. H_TOTAL - 1 /\ beam.v \in 0 .. V_TOTAL - 1
         /\ beam.h >= 3 \/ (beam.h = 2 /\ ticks > 0) =>
              ~Pending(strobe.frame, edge.frame) /\ ~Pending(strobe.line, edge.line)
         /\ Pending(strobe.frame, edge.frame) => beam.v = 0
         /\ Pending(strobe.line, edge.line) => ActiveLine
         /\ LineStart => Pending(strobe.line, edge.line) /\ beam.h <= 2 /\ ActiveLine
         /\ FrameStart => Pending(strobe.frame, edge.frame) /\ beam.v = 0
         /\ strobe.frame => beam.v = 0 /\ beam.h < H_SYNC
         /\ ActiveLine => beam.v # 0 /\ beam.v >= FirstLine
<1>1. beam.h \in 0 .. H_TOTAL - 1 /\ beam.v \in 0 .. V_TOTAL - 1  BY DEF BeamInv
<1>2. ticks \in Nat  BY DEF VgaTypeOK
<1>3. /\ Run(beam.h, ticks, strobe.frame, edge.frame, beam.v = 0)
      /\ Run(beam.h, ticks, strobe.line, edge.line, ActiveLine)
  BY DEF StrobeInv
<1>4. /\ beam.h >= 3 \/ (beam.h = 2 /\ ticks > 0) => ~Pending(strobe.frame, edge.frame)
      /\ Pending(strobe.frame, edge.frame) => beam.v = 0
      /\ FrameStart => Pending(strobe.frame, edge.frame) /\ beam.v = 0
  BY <1>1, <1>2, <1>3 DEF Run, Pending, FrameStart, Rises
<1>5. /\ beam.h >= 3 \/ (beam.h = 2 /\ ticks > 0) => ~Pending(strobe.line, edge.line)
      /\ Pending(strobe.line, edge.line) => ActiveLine
      /\ LineStart => Pending(strobe.line, edge.line) /\ beam.h <= 2 /\ ActiveLine
  BY <1>1, <1>2, <1>3 DEF Run, Pending, LineStart, Rises
<1>6. strobe.frame => beam.v = 0 /\ beam.h < H_SYNC
  BY DEF StrobeInv
<1>7. ActiveLine => beam.v # 0 /\ beam.v >= FirstLine
  BY <1>1, Geometry DEF ActiveLine
<1> QED  BY <1>1, <1>4, <1>5, <1>6, <1>7

\* The registers find an edge of the vsync in the first line.
LEMMA VsyncPlace ==
  ASSUME VgaTypeOK, BeamInv, VsyncInv, Rises(status.vs)
  PROVE  beam.v < FirstLine - 1
<1>1. beam.v \in Nat /\ Along \in Nat  BY AlongForm DEF BeamInv
<1>2. status.vs[2] /\ ~status.vs[3]  BY DEF Rises
<1>3. ~After(3)  BY <1>2 DEF VsyncInv
<1> QED  BY <1>1, <1>3, Geometry DEF After

-----------------------------------------------------------------------------
(* The parts of the invariant, at a pixel.                                 *)

LEMMA PixelType ==
  ASSUME VgaTypeOK, BeamInv, Pixel
  PROVE  VgaTypeOK'
<1>1. /\ ticks' = 0 /\ UNCHANGED <<edge, bus, buffer, scan, page, program>>
      /\ strobe' \in [frame : BOOLEAN, line : BOOLEAN]
      /\ seen' \in SeenType /\ status' \in StatusType
  BY PixelForm, PixelStrobes
<1>2. PICK n \in Sampled :
        pixel' = [addr |-> IF Active THEN pixel.addr + 1 ELSE 0, count |-> n, overrun |-> Overrun]
  BY Zenon DEF Pixel, PixelTick
<1>3. n \in Nat  BY CountAssumption DEF Sampled
<1>4. PICK a \in Nat : a = IF Active THEN pixel.addr + 1 ELSE 0  BY DEF VgaTypeOK
<1>5. PICK o \in BOOLEAN : o = Overrun  BY DEF Overrun
<1>6. pixel' = [addr |-> a, count |-> n, overrun |-> o]  BY <1>2, <1>4, <1>5, Zenon
<1>7. pixel' \in [addr : Nat, count : Nat, overrun : BOOLEAN]  BY <1>3, <1>6
<1> QED  BY <1>1, <1>7 DEF VgaTypeOK

LEMMA PixelVsync ==
  ASSUME VgaTypeOK, BeamInv, VsyncInv, Pixel
  PROVE  VsyncInv'
<1>1. /\ status.ticked /\ ~status'.ticked /\ status'.vs = status.vs
      /\ beam'.v = IF beam.h = LastActive THEN IF beam.v = V_TOTAL - 1 THEN 0 ELSE beam.v + 1
                   ELSE beam.v
      /\ Along' = IF beam.h = LastActive THEN 0 ELSE Along + 1
      /\ Along \in 0 .. H_TOTAL - 1 /\ (Along = H_TOTAL - 1 <=> beam.h = LastActive)
      /\ beam.v \in 0 .. V_TOTAL - 1 /\ beam'.v \in 0 .. V_TOTAL - 1
  BY PixelForm, PixelStrobes, AlongForm, PixelBeam DEF BeamInv
<1>2. beam'.vsync <=> beam'.v < V_SYNC  BY PixelBeam DEF BeamInv
<1>3. beam.vsync <=> beam.v < V_SYNC  BY DEF BeamInv
<1>4. ASSUME NEW k \in {1, 2, 3} PROVE After(k)' => After(k)
  BY <1>1, Geometry DEF After
<1>5. beam'.vsync /\ After(1)' => beam.vsync
  BY <1>1, <1>2, <1>3, Geometry DEF After
<1>6. /\ After(1)' => After(1)
      /\ After(2)' => After(2)
      /\ After(3)' => After(3)
  BY <1>4
<1> QED  BY <1>1, <1>5, <1>6, Zenon DEF VsyncInv

LEMMA PixelProgram ==
  ASSUME VgaTypeOK, BeamInv, ProgramInv, Pixel
  PROVE  ProgramInv'
<1>1. /\ status.ticked /\ ~status'.ticked /\ status'.vsflag = status.vsflag /\ program' = program
      /\ beam'.v = IF beam.h = LastActive THEN IF beam.v = V_TOTAL - 1 THEN 0 ELSE beam.v + 1
                   ELSE beam.v
      /\ Along' = IF beam.h = LastActive THEN 0 ELSE Along + 1
      /\ Along \in 0 .. H_TOTAL - 1 /\ (Along = H_TOTAL - 1 <=> beam.h = LastActive)
      /\ beam.v \in 0 .. V_TOTAL - 1
  BY PixelForm, PixelStrobes, AlongForm DEF BeamInv
<1>2. VsyncCame' = VsyncCame  BY <1>1 DEF VsyncCame
<1>3. beam.v < FirstLine - 1 =>
        \/ beam'.v < FirstLine - 1
        \/ beam'.v = FirstLine - 1 /\ Along' = 0
  BY <1>1, Geometry
<1>4. beam.v = FirstLine - 1 /\ Along = 0 => beam'.v = FirstLine - 1 /\ Along' = 1
  BY <1>1, Geometry
<1>5. VsyncCame' => \/ beam'.v < FirstLine - 1
                    \/ beam'.v = FirstLine - 1 /\ Along' = 0 /\ ~status'.ticked
  BY <1>1, <1>2, <1>3 DEF ProgramInv
<1>6. program'.waited =>
       /\ program'.at = "set"
       /\ \/ beam'.v < FirstLine - 1
          \/ /\ beam'.v = FirstLine - 1
             /\ Along' = 0 \/ (Along' = 1 /\ ~status'.ticked)
  BY <1>1, <1>3, <1>4 DEF ProgramInv
<1> QED  BY <1>5, <1>6 DEF ProgramInv

LEMMA PixelPages ==
  ASSUME VgaTypeOK, BeamInv, StrobeInv, PagesInv, Pixel
  PROVE  PagesInv'
<1>1. /\ ticks > 0 /\ ticks' = 0 /\ UNCHANGED <<bus, page>>
      /\ beam'.h = IF beam.h = H_TOTAL - 1 THEN 0 ELSE beam.h + 1
      /\ beam'.v = IF beam.h = LastActive THEN IF beam.v = V_TOTAL - 1 THEN 0 ELSE beam.v + 1
                   ELSE beam.v
      /\ Along' = IF beam.h = LastActive THEN 0 ELSE Along + 1
      /\ Along \in 0 .. H_TOTAL - 1 /\ (Along = H_TOTAL - 1 <=> beam.h = LastActive)
      /\ beam.h \in 0 .. H_TOTAL - 1 /\ beam.v \in 0 .. V_TOTAL - 1
  BY PixelForm, AlongForm DEF BeamInv
<1>2. strobe.frame <=> beam.v = 0 /\ beam.h < H_SYNC  BY DEF StrobeInv
<1>3. strobe.frame => seen'.pages = {} /\ ~seen'.hasty
  BY PixelStrobes DEF Nothing
<1>4. ~strobe.frame => seen'.pages = seen.pages /\ seen'.hasty = seen.hasty
  BY PixelStrobes
<1>5. ASSUME \/ beam'.v = 0 /\ 1 <= beam'.h /\ beam'.h <= LastActive
             \/ 1 <= beam'.v /\ beam'.v < FirstLine
      PROVE  seen'.pages = {}
  <2>1. \/ strobe.frame
        \/ beam.v = 0 /\ 1 <= beam.h /\ beam.h <= LastActive
        \/ 1 <= beam.v /\ beam.v < FirstLine
    BY <1>1, <1>2, <1>5, Geometry
  <2> QED  BY <1>3, <1>4, <2>1 DEF PagesInv
<1>6. ASSUME ~seen'.hasty
      PROVE  /\ \E p : seen'.pages \subseteq {p}
             /\ Settled' => bus'.top = page'
             /\ ActiveLine' => seen'.pages \subseteq {page'}
  <2>1. CASE strobe.frame
    <3>1. ~Settled'  BY <1>1, <1>2, <2>1, Geometry DEF Settled
    <3> QED  BY <1>3, <2>1, <3>1
  <2>2. CASE ~strobe.frame
    <3>1. ~seen.hasty /\ \E p : seen'.pages \subseteq {p}
      BY <1>4, <1>6, <2>2 DEF PagesInv
    <3>2. Settled' => Settled
      BY <1>1, Geometry DEF Settled
    <3>3. Settled => bus'.top = page'  BY <1>1, <3>1 DEF PagesInv
    <3>4. ActiveLine' => ActiveLine \/ (1 <= beam.v /\ beam.v < FirstLine)
      BY <1>1, Geometry DEF ActiveLine
    <3>5. ActiveLine' => seen'.pages \subseteq {page'}
      BY <1>1, <1>4, <2>2, <3>1, <3>4 DEF PagesInv
    <3> QED  BY <3>1, <3>2, <3>3, <3>5
  <2> QED  BY <2>1, <2>2
<1> QED  BY <1>5, <1>6 DEF PagesInv

LEMMA PixelFilled ==
  ASSUME VgaTypeOK, BeamInv, FilledInv, Pixel
  PROVE  FilledInv'
<1>1. /\ ticks > 0 /\ ticks' = 0 /\ bus' = bus /\ buffer' = buffer
      /\ beam'.h = IF beam.h = H_TOTAL - 1 THEN 0 ELSE beam.h + 1
      /\ beam.h \in 0 .. H_TOTAL - 1
  BY PixelForm DEF BeamInv
<1>2. beam'.h >= 4 \/ (beam'.h = 3 /\ ticks' > 0) => bus'.was <= bus'.count
  BY <1>1 DEF FilledInv
<1> QED  BY <1>1, <1>2 DEF FilledInv

\* What is to be found stays so until it is found.
LEMMA PixelPending ==
  ASSUME VgaTypeOK, BeamInv, StrobeInv, Pixel, beam.h # H_TOTAL - 1
  PROVE  /\ Pending(strobe.frame, edge.frame)' <=> Pending(strobe.frame, edge.frame)
         /\ Pending(strobe.line, edge.line)' <=> Pending(strobe.line, edge.line)
<1>1. /\ ticks > 0 /\ edge' = edge /\ beam.h \in 0 .. H_TOTAL - 1
  BY PixelForm DEF BeamInv
<1>2. /\ strobe'.frame <=> beam.h # H_SYNC - 1 /\ strobe.frame
      /\ strobe'.line <=> beam.h # H_SYNC - 1 /\ strobe.line
  BY PixelStrobes
<1>3. /\ strobe.frame => edge.frame[1]
      /\ strobe.line => edge.line[1]
  BY <1>1, Zenon DEF StrobeInv, Run
<1> QED  BY <1>1, <1>2, <1>3 DEF Pending

LEMMA PixelOffs ==
  ASSUME VgaTypeOK, BeamInv, StrobeInv, OffsInv, Pixel
  PROVE  OffsInv'
<1>1. /\ ticks > 0 /\ ticks' = 0 /\ edge' = edge /\ bus' = bus
      /\ beam'.h = IF beam.h = H_TOTAL - 1 THEN 0 ELSE beam.h + 1
      /\ beam'.v = IF beam.h = LastActive THEN IF beam.v = V_TOTAL - 1 THEN 0 ELSE beam.v + 1
                   ELSE beam.v
      /\ beam.h \in 0 .. H_TOTAL - 1 /\ beam.v \in 0 .. V_TOTAL - 1
      /\ beam.h # 0 \/ beam.v # 0 => beam'.scanena = beam.scanena
      /\ bus.offs \in Nat
  BY PixelForm DEF BeamInv, VgaTypeOK, BusType
<1>2. beam.h >= 3 => ~Pending(strobe.frame, edge.frame) /\ ~Pending(strobe.line, edge.line)
  BY Places
<1>3. beam.h = H_TOTAL - 1 =>
        /\ beam.v = 0 => Pending(strobe.frame, edge.frame)'
        /\ ActiveLine /\ beam.scanena => Pending(strobe.line, edge.line)'
  <2>1. SUFFICES ASSUME beam.h = H_TOTAL - 1
                 PROVE  /\ beam.v = 0 => Pending(strobe.frame, edge.frame)'
                        /\ ActiveLine /\ beam.scanena => Pending(strobe.line, edge.line)'
    OBVIOUS
  <2>2. /\ strobe'.frame <=> beam.v = 0
        /\ strobe'.line <=> ~beam.vblank /\ beam.scanena
    BY <2>1, PixelStrobes
  <2>3. ~edge.frame[3] /\ ~edge.line[3]
    BY <1>1, <2>1, Geometry DEF StrobeInv, Run
  <2>4. ActiveLine => ~beam.vblank  BY DEF BeamInv
  <2> QED  BY <1>1, <2>2, <2>3, <2>4 DEF Pending
<1>4. beam.h # H_TOTAL - 1 =>
        /\ Pending(strobe.frame, edge.frame)' <=> Pending(strobe.frame, edge.frame)
        /\ Pending(strobe.line, edge.line)' <=> Pending(strobe.line, edge.line)
  BY PixelPending
<1>5. ASSUME beam'.v < FirstLine,
             ~(beam'.v = 0 /\ (beam'.h > LastActive \/ Pending(strobe.frame, edge.frame)'))
      PROVE  bus'.offs = 0
  <2>1. beam.v < FirstLine
    BY <1>1, <1>5, Geometry
  <2>2. CASE beam.v = 0
    <3>1. beam.h = LastActive => ~Pending(strobe.frame, edge.frame)  BY <1>2, Geometry
    <3>2. beam.h <= LastActive  BY <1>1, <1>3, <1>5, <2>2, Geometry
    <3>3. ~Pending(strobe.frame, edge.frame)  BY <1>1, <1>4, <1>5, <2>2, <3>1, <3>2, Geometry
    <3> QED  BY <1>1, <2>1, <3>2, <3>3, Geometry DEF OffsInv
  <2>3. CASE beam.v # 0
    BY <1>1, <2>1, <2>3 DEF OffsInv
  <2> QED  BY <2>2, <2>3
<1>6. ASSUME ActiveLine', beam'.scanena, ~seen'.lost
      PROVE  IF beam'.h > LastActive \/ Pending(strobe.line, edge.line)'
             THEN bus'.offs = beam'.v - FirstLine
             ELSE bus'.offs = beam'.v - FirstLine + 1 /\ bus'.line = beam'.v - FirstLine
  <2>1. beam'.v >= FirstLine /\ beam.v # 0
    BY <1>1, <1>6, Geometry DEF ActiveLine
  <2>2. ~strobe.frame /\ beam.scanena
    BY <1>1, <1>6, <2>1, Places
  <2>3. ~seen.lost
    BY <1>6, <2>2, PixelStrobes
  <2>4. CASE beam.h = LastActive
    <3>1. beam'.h > LastActive /\ beam'.v = beam.v + 1 /\ ~Pending(strobe.line, edge.line)
      BY <1>1, <1>2, <2>1, <2>4, Geometry
    <3>2. CASE beam.v = FirstLine - 1
      <4>1. bus.offs = 0  BY <1>1, <2>1, <3>2, Geometry DEF OffsInv
      <4> QED  BY <1>1, <3>1, <3>2, <4>1, Geometry
    <3>3. CASE beam.v # FirstLine - 1
      <4>1. ActiveLine  BY <1>1, <1>6, <3>1, <3>3, Geometry DEF ActiveLine
      <4>2. bus.offs = beam.v - FirstLine + 1
        BY <2>2, <2>3, <2>4, <3>1, <4>1, Geometry DEF OffsInv
      <4> QED  BY <1>1, <3>1, <4>2, Geometry
    <3> QED  BY <3>2, <3>3
  <2>5. CASE beam.h # LastActive
    <3>1. beam'.v = beam.v /\ ActiveLine  BY <1>1, <1>6, <2>5 DEF ActiveLine
    <3>2. IF beam.h > LastActive \/ Pending(strobe.line, edge.line)
          THEN bus.offs = beam.v - FirstLine
          ELSE bus.offs = beam.v - FirstLine + 1 /\ bus.line = beam.v - FirstLine
      BY <2>2, <2>3, <3>1 DEF OffsInv
    <3>3. CASE beam.h = H_TOTAL - 1
      BY <1>1, <1>3, <2>2, <3>1, <3>2, <3>3, Geometry
    <3>4. CASE beam.h # H_TOTAL - 1
      <4>1. beam'.h > LastActive <=> beam.h > LastActive
        BY <1>1, <2>5, <3>4, Geometry
      <4> QED  BY <1>1, <1>4, <3>1, <3>2, <3>4, <4>1
    <3> QED  BY <3>3, <3>4
  <2> QED  BY <2>4, <2>5
<1> QED  BY <1>5, <1>6 DEF OffsInv

\* Both counts are k: so is what the pixel clock finds.
LEMMA SampledAtRest ==
  ASSUME VgaTypeOK, bus.was = bus.count, bus.count < Burst, NEW n \in Sampled
  PROVE  n = bus.count
<1>1. bus.count \in 0 .. Burst - 1  BY Geometry DEF VgaTypeOK, BusType
<1>2. bus.count \in Counts /\ n \in Counts  BY <1>1, CountAssumption DEF Sampled
<1>3. \A w \in Weights : Bit(n, w) = Bit(bus.count, w)
  BY DEF Sampled
<1> QED  BY <1>2, <1>3, CountAssumption

\* The pixels that are shown, one after another.
LEMMA ActiveNext ==
  ASSUME VgaTypeOK, BeamInv, FollowInv, Pixel, Active'
  PROVE  /\ beam'.h = beam.h + 1 /\ beam'.v = beam.v /\ beam.h >= LastBack /\ beam.h < LastActive
         /\ pixel'.addr = beam'.h - LastBack - 1
         /\ beam.h # LastBack => Active /\ pixel'.addr = pixel.addr + 1
         /\ beam.h = LastBack => pixel'.addr = 0
<1>1. /\ beam'.h = IF beam.h = H_TOTAL - 1 THEN 0 ELSE beam.h + 1
      /\ beam'.v = IF beam.h = LastActive THEN IF beam.v = V_TOTAL - 1 THEN 0 ELSE beam.v + 1
                   ELSE beam.v
      /\ beam.h \in 0 .. H_TOTAL - 1 /\ beam.v \in 0 .. V_TOTAL - 1
      /\ beam'.scanena = IF beam.h = 0 /\ beam.v = 0 THEN beam.scanin ELSE beam.scanena
      /\ pixel'.addr = IF Active THEN pixel.addr + 1 ELSE 0
  BY PixelForm DEF BeamInv
<1>2. beam'.scanena /\ ~beam'.hblank /\ ~beam'.vblank
  BY DEF Active
<1>3. LastBack < beam'.h /\ beam'.h <= LastActive /\ ActiveLine'
  BY <1>2, PixelBeam, Zenon DEF BeamInv
<1>4. beam'.h = beam.h + 1 /\ beam'.v = beam.v /\ beam.h >= LastBack /\ beam.h < LastActive
  BY <1>1, <1>3, Geometry
<1>5. ActiveLine /\ beam.scanena
  BY <1>1, <1>2, <1>3, <1>4, Geometry DEF ActiveLine
<1>6. ~beam.vblank  BY <1>5 DEF BeamInv
<1>7. ASSUME beam.h # LastBack PROVE Active /\ pixel'.addr = pixel.addr + 1
  <2>1. LastBack < beam.h /\ beam.h <= LastActive  BY <1>1, <1>4, <1>7, Geometry
  <2>2. ~beam.hblank  BY <2>1 DEF BeamInv
  <2> QED  BY <1>1, <1>5, <1>6, <2>2 DEF Active
<1>8. ASSUME beam.h = LastBack PROVE pixel'.addr = 0
  <2>1. ~(LastBack < beam.h /\ beam.h <= LastActive)  BY <1>8, Geometry
  <2>2. beam.hblank  BY <2>1 DEF BeamInv
  <2> QED  BY <1>1, <2>2 DEF Active
<1>9. pixel'.addr = beam'.h - LastBack - 1
  BY <1>1, <1>4, <1>7, <1>8, Geometry DEF FollowInv
<1> QED  BY <1>4, <1>7, <1>8, <1>9

LEMMA PixelFollow ==
  ASSUME VgaTypeOK, BeamInv, FilledInv, FollowInv, Pixel
  PROVE  FollowInv'
<1>1. SUFFICES ASSUME Active'
               PROVE  /\ pixel'.addr = beam'.h - LastBack - 1
                      /\ ~pixel'.overrun /\ pixel'.addr % 2 = 0 =>
                           bus'.count + 1 >= Word' /\ (ticks' > 0 => bus'.was + 1 >= Word')
                      /\ ~pixel'.overrun /\ pixel'.addr % 2 = 1 =>
                           bus'.count >= Word' \/ pixel'.count < Word'
  BY DEF FollowInv
<1>2. /\ beam'.h = beam.h + 1 /\ beam'.v = beam.v /\ beam.h >= LastBack /\ beam.h < LastActive
      /\ pixel'.addr = beam'.h - LastBack - 1
      /\ beam.h # LastBack => Active /\ pixel'.addr = pixel.addr + 1
      /\ beam.h = LastBack => pixel'.addr = 0
  BY <1>1, ActiveNext
<1>3. /\ ticks > 0 /\ ticks' = 0 /\ bus' = bus /\ pixel'.overrun = Overrun /\ pixel'.count \in Sampled
      /\ pixel.addr \in Nat /\ bus.count \in 0 .. Burst /\ bus.was \in 0 .. Burst
      /\ beam.h \in 0 .. H_TOTAL - 1
  BY PixelForm DEF VgaTypeOK, BusType, BeamInv
<1>4. CASE beam.h = LastBack
  BY <1>2, <1>3, <1>4, Geometry DEF Word
<1>5. CASE beam.h # LastBack
  <2>1. SUFFICES ASSUME ~pixel'.overrun
                 PROVE  /\ pixel'.addr % 2 = 0 => bus.count + 1 >= Word'
                        /\ pixel'.addr % 2 = 1 => bus.count >= Word' \/ pixel'.count < Word'
    BY <1>2, <1>3
  <2>2. Active /\ ~pixel.overrun /\ ~(pixel.count < Word)
    BY <1>2, <1>3, <1>5, <2>1 DEF Overrun
  <2>3. CASE pixel'.addr % 2 = 0
    <3>1. pixel.addr % 2 = 1 /\ Word' = Word + 1
      BY <1>2, <1>3, <1>5, <2>3 DEF Word
    <3>2. bus.count >= Word  BY <2>2, <3>1 DEF FollowInv
    <3>3. Word \in Nat  BY <1>3 DEF Word
    <3> QED  BY <1>3, <2>3, <3>1, <3>2, <3>3
  <2>4. CASE pixel'.addr % 2 = 1
    <3>1. pixel.addr % 2 = 0 /\ Word' = Word /\ Word \in Nat
      BY <1>2, <1>3, <1>5, <2>4 DEF Word
    <3>2. bus.count + 1 >= Word /\ bus.was + 1 >= Word
      BY <1>3, <2>2, <3>1 DEF FollowInv
    <3>3. bus.was <= bus.count
      BY <1>2, <1>3, <1>5, Geometry DEF FilledInv
    <3>4. Word <= Burst - 1
      <4>1. pixel.addr + 1 <= 2 * Burst - 1  BY <1>2, <1>5, <1>3, Geometry
      <4> QED  BY <1>3, <4>1, Geometry DEF Word
    <3>5. CASE bus.count >= Word  BY <2>4, <3>1, <3>5
    <3>6. CASE ~(bus.count >= Word)
      <4>1. bus.was = bus.count /\ bus.count < Word /\ bus.count < Burst
        BY <1>3, <3>1, <3>2, <3>3, <3>4, <3>6, Geometry
      <4>2. pixel'.count = bus.count  BY <1>3, <4>1, SampledAtRest
      <4> QED  BY <2>4, <3>1, <4>1, <4>2
    <3> QED  BY <3>5, <3>6
  <2> QED  BY <1>2, <1>3, <2>3, <2>4
<1> QED  BY <1>4, <1>5

\* An overrun goes on until the line's last pixel, or has just ended there.
LEMMA PixelOverrun ==
  ASSUME VgaTypeOK, BeamInv, OverrunInv, Pixel
  PROVE  OverrunInv'
<1>1. /\ status.ticked /\ ~status'.ticked /\ status'.ovr = status.ovr /\ pixel'.overrun = Overrun
      /\ beam'.h = IF beam.h = H_TOTAL - 1 THEN 0 ELSE beam.h + 1
      /\ beam'.v = IF beam.h = LastActive THEN IF beam.v = V_TOTAL - 1 THEN 0 ELSE beam.v + 1
                   ELSE beam.v
      /\ Along' = IF beam.h = LastActive THEN 0 ELSE Along + 1
      /\ Along \in 0 .. H_TOTAL - 1 /\ (Along = H_TOTAL - 1 <=> beam.h = LastActive)
      /\ beam.h \in 0 .. H_TOTAL - 1 /\ beam.v \in 0 .. V_TOTAL - 1
      /\ beam'.scanena = IF beam.h = 0 /\ beam.v = 0 THEN beam.scanin ELSE beam.scanena
  BY PixelForm, PixelStrobes, AlongForm DEF BeamInv
<1>2. ASSUME Active PROVE Active' \/ JustLeft(0)'
  <2>1. beam.scanena /\ ~beam.hblank /\ ~beam.vblank  BY <1>2 DEF Active
  <2>2. LastBack < beam.h /\ beam.h <= LastActive /\ ActiveLine
    BY <2>1, Zenon DEF BeamInv
  <2>3. CASE beam.h = LastActive
    BY <1>1, <2>2, <2>3, Geometry DEF JustLeft, ActiveLine
  <2>4. CASE beam.h # LastActive
    <3>1. /\ LastBack < beam'.h /\ beam'.h <= LastActive /\ ActiveLine' /\ beam'.scanena
      BY <1>1, <2>1, <2>2, <2>4, Geometry DEF ActiveLine
    <3>2. ~beam'.hblank /\ ~beam'.vblank  BY <3>1, PixelBeam DEF BeamInv
    <3> QED  BY <3>1, <3>2 DEF Active
  <2> QED  BY <2>3, <2>4
<1>3. /\ JustLeft(0) => JustLeft(1)'
      /\ JustLeft(1) => JustLeft(2)'
      /\ JustLeft(2) => JustLeft(3)'
  BY <1>1, Geometry DEF JustLeft
<1>4. pixel.overrun => pixel'.overrun \/ JustLeft(1)'
  BY <1>1, <1>3 DEF OverrunInv, Overrun
<1>5. pixel'.overrun => Active' \/ JustLeft(0)'
  BY <1>1, <1>2 DEF Overrun
<1>6. /\ status.ovr[1] => pixel.overrun
      /\ status.ovr[2] => pixel.overrun \/ JustLeft(1)
      /\ status.ovr[3] => pixel.overrun \/ JustLeft(1) \/ JustLeft(2)
  BY <1>1 DEF OverrunInv
<1>7. /\ status'.ovr[1] => pixel'.overrun \/ (JustLeft(1)' /\ ~status'.ticked)
      /\ status'.ovr[2] => pixel'.overrun \/ JustLeft(1)' \/ (JustLeft(2)' /\ ~status'.ticked)
      /\ status'.ovr[3] => pixel'.overrun \/ JustLeft(1)' \/ JustLeft(2)'
                             \/ (JustLeft(3)' /\ ~status'.ticked)
  BY <1>1, <1>3, <1>4, <1>6
<1> QED  BY <1>1, <1>5, <1>7 DEF OverrunInv

LEMMA PixelReport ==
  ASSUME VgaTypeOK, BeamInv, StrobeInv, FollowInv, OverrunInv, ReportInv, Pixel
  PROVE  ReportInv'
<1>1. /\ status.ticked /\ status'.ovr = status.ovr /\ status'.ovrerr = status.ovrerr
      /\ pixel'.overrun = Overrun
      /\ strobe.frame => ~seen'.far /\ ~seen'.excused
      /\ ~strobe.frame => /\ seen'.far = (seen.far \/ Far)
                          /\ seen'.excused = seen.excused
  BY PixelForm, PixelStrobes DEF Nothing
<1>2. strobe.frame => ~status.ovr[3]
  <2>1. SUFFICES ASSUME strobe.frame, status.ovr[3] PROVE FALSE
    OBVIOUS
  <2>2. beam.v = 0 /\ ~ActiveLine  BY <2>1, Places
  <2>3. beam.vblank  BY <2>2 DEF BeamInv
  <2>4. ~Active /\ ~JustLeft(0) /\ ~JustLeft(1) /\ ~JustLeft(2) /\ ~JustLeft(3)
    BY <2>2, <2>3, Geometry DEF Active, JustLeft
  <2> QED  BY <2>1, <2>4 DEF OverrunInv
<1>3. status'.ovr[3] => status'.ovrerr \/ seen'.excused
  BY <1>1, <1>2 DEF ReportInv
<1>4. ASSUME seen'.far
      PROVE  status'.ovrerr \/ seen'.excused \/ Pending(pixel.overrun, status.ovr)'
  <2>1. ~strobe.frame /\ (seen.far \/ Far) /\ seen'.excused = seen.excused  BY <1>1, <1>4
  <2>2. CASE seen.far
    <3>1. status.ovrerr \/ seen.excused \/ Pending(pixel.overrun, status.ovr)
      BY <2>2 DEF ReportInv
    <3>2. pixel.overrun => status.ovr[1]  BY <1>1 DEF OverrunInv
    <3> QED  BY <1>1, <2>1, <3>1, <3>2 DEF Pending
  <2>3. CASE Far
    <3>1. Active /\ pixel.addr % 2 = 1 /\ bus.count < Word  BY <2>3 DEF Far
    <3>2. pixel.overrun \/ bus.count >= Word \/ pixel.count < Word
      BY <3>1 DEF FollowInv
    <3>3. bus.count \in Nat /\ Word \in Nat  BY Geometry DEF VgaTypeOK, BusType, Word
    <3>4. pixel.overrun \/ pixel.count < Word  BY <3>1, <3>2, <3>3
    <3>5. Overrun  BY <3>1, <3>4, Zenon DEF Overrun
    <3>6. pixel'.overrun  BY <1>1, <3>5
    <3> QED  BY <1>1, <1>3, <2>1, <3>6 DEF Pending
  <2> QED  BY <2>1, <2>2, <2>3
<1> QED  BY <1>3, <1>4 DEF ReportInv

LEMMA PixelKeeps ==
  ASSUME VgaInv, Pixel
  PROVE  VgaInv'
<1>1. /\ VgaTypeOK /\ BeamInv /\ StrobeInv /\ VsyncInv /\ ProgramInv /\ PagesInv
      /\ FilledInv /\ OffsInv /\ FollowInv /\ OverrunInv /\ ReportInv
  BY DEF VgaInv
<1>2. VgaTypeOK' /\ BeamInv' /\ StrobeInv' /\ VsyncInv'
  BY <1>1, PixelType, PixelBeam, PixelStrobe, PixelVsync
<1>3. ProgramInv' /\ PagesInv' /\ FilledInv' /\ OffsInv'
  BY <1>1, PixelProgram, PixelPages, PixelFilled, PixelOffs
<1>4. FollowInv' /\ OverrunInv' /\ ReportInv'
  BY <1>1, PixelFollow, PixelOverrun, PixelReport
<1> QED  BY <1>2, <1>3, <1>4 DEF VgaInv

-----------------------------------------------------------------------------
(* The parts of the invariant, at a tick of the memory's clock.            *)

LEMMA MemoryType ==
  ASSUME VgaTypeOK, FilledInv, Memory
  PROVE  VgaTypeOK'
<1>1. /\ status.ticked /\ ticks' = ticks + 1
      /\ UNCHANGED <<beam, strobe, pixel, scan, page, status, program>>
      /\ edge' \in [frame : Three, line : Three]
      /\ bus' \in BusType /\ seen' \in SeenType
  BY MemoryForm
<1>2. buffer' \in [Words -> Nat]
  <2>1. buffer' = buffer \/ buffer' = [buffer EXCEPT ![bus.count] = bus.line]
    BY MemoryForm
  <2>2. buffer \in [Words -> Nat] /\ bus.line \in Nat  BY DEF VgaTypeOK, BusType
  <2> QED  BY <2>1, <2>2
<1> QED  BY <1>1, <1>2 DEF VgaTypeOK

\* The registers move a run of ones by one place.
LEMMA MemoryRun ==
  ASSUME NEW h \in Nat, NEW k \in Nat, NEW s \in BOOLEAN, NEW on \in BOOLEAN,
         NEW e \in Three, NEW f \in Three, Run(h, k, s, e, on),
         f[1] = s, f[2] = e[1], f[3] = e[2]
  PROVE  Run(h, k + 1, s, f, on)
BY Geometry DEF Run

LEMMA MemoryStrobe ==
  ASSUME VgaTypeOK, BeamInv, StrobeInv, FilledInv, Memory
  PROVE  StrobeInv'
<1>1. /\ ticks' = ticks + 1 /\ beam' = beam /\ strobe' = strobe /\ ticks \in Nat /\ beam.h \in Nat
      /\ edge'.frame \in Three /\ edge'.line \in Three
      /\ edge.frame \in Three /\ edge.line \in Three
      /\ strobe.frame \in BOOLEAN /\ strobe.line \in BOOLEAN
      /\ edge'.frame[1] = strobe.frame /\ edge'.frame[2] = edge.frame[1]
      /\ edge'.frame[3] = edge.frame[2]
      /\ edge'.line[1] = strobe.line /\ edge'.line[2] = edge.line[1]
      /\ edge'.line[3] = edge.line[2]
  BY MemoryForm DEF VgaTypeOK, BeamInv
<1>2. (beam.v = 0) \in BOOLEAN /\ ActiveLine \in BOOLEAN /\ ActiveLine' = ActiveLine
  BY <1>1 DEF ActiveLine
<1>3. Run(beam.h, ticks + 1, strobe.frame, edge'.frame, beam.v = 0)
  BY <1>1, <1>2, MemoryRun, Zenon DEF StrobeInv
<1>4. Run(beam.h, ticks + 1, strobe.line, edge'.line, ActiveLine)
  BY <1>1, <1>2, MemoryRun, Zenon DEF StrobeInv
<1> QED  BY <1>1, <1>2, <1>3, <1>4, Zenon DEF StrobeInv

LEMMA MemoryPages ==
  ASSUME VgaTypeOK, BeamInv, StrobeInv, PagesInv, FilledInv, Memory
  PROVE  PagesInv'
<1>1. /\ beam' = beam /\ page' = page /\ bus'.top = page
      /\ seen'.pages = IF Starts THEN seen.pages \cup {bus.top} ELSE seen.pages
      /\ seen'.hasty = seen.hasty
  BY MemoryForm
<1>2. Starts => ActiveLine /\ beam.v >= FirstLine /\ beam.v # 0  BY Places DEF Starts
<1>3. beam.v \in Nat  BY DEF BeamInv
<1>4. ASSUME \/ beam.v = 0 /\ 1 <= beam.h /\ beam.h <= LastActive
             \/ 1 <= beam.v /\ beam.v < FirstLine
      PROVE  seen'.pages = {}
  <2>1. ~Starts  BY <1>2, <1>3, <1>4, Geometry
  <2> QED  BY <1>1, <1>4, <2>1 DEF PagesInv
<1>5. ASSUME ~seen'.hasty
      PROVE  /\ \E p : seen'.pages \subseteq {p}
             /\ ActiveLine => seen'.pages \subseteq {page}
  <2>1. ~seen.hasty  BY <1>1, <1>5
  <2>2. CASE Starts
    <3>1. bus.top = page  BY <1>2, <2>1, <2>2 DEF PagesInv, Settled
    <3>2. seen.pages \subseteq {page}  BY <1>2, <2>1, <2>2 DEF PagesInv
    <3> QED  BY <1>1, <2>2, <3>1, <3>2
  <2>3. CASE ~Starts
    BY <1>1, <2>1, <2>3 DEF PagesInv
  <2> QED  BY <2>2, <2>3
<1>6. ActiveLine' = ActiveLine  BY <1>1 DEF ActiveLine
<1> QED  BY <1>1, <1>4, <1>5, <1>6 DEF PagesInv

LEMMA MemoryFilled ==
  ASSUME VgaTypeOK, BeamInv, StrobeInv, FilledInv, Memory
  PROVE  FilledInv'
<1>1. /\ beam' = beam /\ bus'.was = bus.count
      /\ Starts => /\ bus'.line = bus.offs /\ bus'.count = 0
      /\ ~Starts => /\ bus'.line = bus.line
                    /\ \/ bus'.count = bus.count /\ buffer' = buffer
                       \/ /\ bus.state = "DATA_READ" /\ bus'.count = bus.count + 1
                          /\ buffer' = [buffer EXCEPT ![bus.count] = bus.line]
      /\ bus'.state = "READ_ISSUE" => bus'.count = 0
      /\ bus'.state = "DATA_READ" => bus'.count < Burst
      /\ buffer \in [Words -> Nat] /\ bus.count \in Nat /\ beam.h \in Nat
  BY MemoryForm, Geometry DEF VgaTypeOK, BusType, BeamInv
<1>2. Starts => beam.h <= 2  BY Places DEF Starts
<1>3. beam'.h >= 4 \/ (beam'.h = 3 /\ ticks' > 0) => bus'.was <= bus'.count
  BY <1>1, <1>2
<1>4. \A w \in Words : w < bus'.count => buffer'[w] = bus'.line
  <2>1. SUFFICES ASSUME NEW w \in Words, w < bus'.count PROVE buffer'[w] = bus'.line
    OBVIOUS
  <2>2. w \in Nat  BY <2>1, Geometry DEF Words
  <2>3. ~Starts  BY <1>1, <2>1, <2>2
  <2>4. CASE bus'.count = bus.count /\ buffer' = buffer
    BY <1>1, <2>1, <2>3, <2>4 DEF FilledInv
  <2>5. CASE bus'.count = bus.count + 1 /\ buffer' = [buffer EXCEPT ![bus.count] = bus.line]
    <3>1. CASE w = bus.count  BY <1>1, <2>1, <2>3, <2>5, <3>1
    <3>2. CASE w # bus.count
      <4>1. w < bus.count  BY <1>1, <2>1, <2>2, <2>5, <3>2
      <4>2. buffer[w] = bus.line  BY <2>1, <4>1 DEF FilledInv
      <4> QED  BY <1>1, <2>1, <2>3, <2>5, <3>2, <4>2
    <3> QED  BY <3>1, <3>2
  <2> QED  BY <1>1, <2>3, <2>4, <2>5
<1> QED  BY <1>1, <1>3, <1>4 DEF FilledInv

LEMMA MemoryOffs ==
  ASSUME VgaTypeOK, BeamInv, StrobeInv, FilledInv, OffsInv, Memory
  PROVE  OffsInv'
<1>1. /\ beam' = beam /\ strobe' = strobe
      /\ edge'.frame[1] = strobe.frame /\ edge'.frame[2] = edge.frame[1]
      /\ edge'.frame[3] = edge.frame[2]
      /\ edge'.line[1] = strobe.line /\ edge'.line[2] = edge.line[1]
      /\ edge'.line[3] = edge.line[2]
      /\ bus'.offs = LineOffset
      /\ Starts => bus'.line = bus.offs
      /\ ~Starts => bus'.line = bus.line
      /\ seen'.lost = (seen.lost \/ (LineStart /\ bus.state # "IDLE"))
      /\ beam.v \in Nat /\ bus.offs \in Nat
  BY MemoryForm DEF VgaTypeOK, BusType, BeamInv
<1>2. /\ LineStart => Pending(strobe.line, edge.line) /\ beam.h <= 2 /\ ActiveLine
      /\ FrameStart => beam.v = 0
      /\ ActiveLine => beam.v # 0 /\ beam.v >= FirstLine
      /\ beam.h \in Nat
  BY Places DEF BeamInv
<1>3. ASSUME beam.v < FirstLine,
             ~(beam.v = 0 /\ (beam.h > LastActive \/ Pending(strobe.frame, edge.frame)'))
      PROVE  bus'.offs = 0
  <2>1. ~Starts  BY <1>1, <1>2, <1>3, Geometry DEF Starts
  <2>2. CASE FrameStart  BY <1>1, <2>2 DEF LineOffset
  <2>3. CASE ~FrameStart
    <3>1. bus'.offs = bus.offs  BY <1>1, <2>1, <2>3 DEF LineOffset
    <3>2. Pending(strobe.frame, edge.frame) => Pending(strobe.frame, edge.frame)'
      BY <1>1, <2>3 DEF Pending, FrameStart, Rises
    <3> QED  BY <1>3, <3>1, <3>2 DEF OffsInv
  <2> QED  BY <2>2, <2>3
<1>4. ASSUME ActiveLine, beam.scanena, ~seen'.lost
      PROVE  IF beam.h > LastActive \/ Pending(strobe.line, edge.line)'
             THEN bus'.offs = beam.v - FirstLine
             ELSE bus'.offs = beam.v - FirstLine + 1 /\ bus'.line = beam.v - FirstLine
  <2>1. ~seen.lost /\ (LineStart => Starts)  BY <1>1, <1>4 DEF Starts
  <2>2. ~FrameStart  BY <1>2, <1>4
  <2>3. CASE Starts
    <3>1. LineStart  BY <2>3 DEF Starts
    <3>2. bus.offs = beam.v - FirstLine  BY <1>2, <1>4, <2>1, <3>1 DEF OffsInv
    <3>3. bus'.offs = bus.offs + 1 /\ bus'.line = bus.offs
      BY <1>1, <2>2, <2>3 DEF LineOffset
    <3>4. ~Pending(strobe.line, edge.line)' /\ ~(beam.h > LastActive)
      BY <1>1, <1>2, <3>1, Geometry DEF Pending, LineStart, Rises
    <3> QED  BY <3>2, <3>3, <3>4
  <2>4. CASE ~Starts
    <3>1. bus'.offs = bus.offs /\ bus'.line = bus.line
      BY <1>1, <2>2, <2>4 DEF LineOffset
    <3>2. ~LineStart  BY <2>1, <2>4
    <3>3. edge.line[3] /\ ~edge.line[2] => ~edge.line[1] /\ ~strobe.line
      BY Zenon DEF StrobeInv, Run
    <3>4. Pending(strobe.line, edge.line)' <=> Pending(strobe.line, edge.line)
      BY <1>1, <3>2, <3>3 DEF Pending, LineStart, Rises
    <3> QED  BY <1>4, <2>1, <3>1, <3>4 DEF OffsInv
  <2> QED  BY <2>3, <2>4
<1>5. ActiveLine' = ActiveLine  BY <1>1 DEF ActiveLine
<1> QED  BY <1>1, <1>3, <1>4, <1>5 DEF OffsInv

LEMMA MemoryFollow ==
  ASSUME VgaTypeOK, BeamInv, StrobeInv, FilledInv, FollowInv, Memory
  PROVE  FollowInv'
<1>1. /\ beam' = beam /\ pixel' = pixel /\ bus'.was = bus.count
      /\ ~Starts => bus'.count = bus.count \/ bus'.count = bus.count + 1
      /\ bus.count \in Nat /\ pixel.addr \in Nat
  BY MemoryForm, Geometry DEF VgaTypeOK, BusType
<1>2. ASSUME Active PROVE ~Starts
  <2>1. ~beam.hblank  BY <1>2 DEF Active
  <2>2. beam.h > LastBack  BY <2>1, Geometry DEF BeamInv
  <2> QED  BY <2>2, Places, Geometry DEF Starts, BeamInv
<1>3. Active' = Active /\ Word' = Word /\ Word \in Nat  BY <1>1 DEF Active, Word
<1> QED  BY <1>1, <1>2, <1>3 DEF FollowInv

LEMMA MemoryKeeps ==
  ASSUME VgaInv, Memory
  PROVE  VgaInv'
<1>1. /\ VgaTypeOK /\ BeamInv /\ StrobeInv /\ VsyncInv /\ ProgramInv /\ PagesInv
      /\ FilledInv /\ OffsInv /\ FollowInv /\ OverrunInv /\ ReportInv
  BY DEF VgaInv
<1>2. VgaTypeOK' /\ StrobeInv' /\ PagesInv' /\ FilledInv' /\ OffsInv' /\ FollowInv'
  BY <1>1, MemoryType, MemoryStrobe, MemoryPages, MemoryFilled, MemoryOffs, MemoryFollow
<1>3. /\ UNCHANGED <<beam, pixel, status, program>>
      /\ seen'.far = seen.far /\ seen'.excused = seen.excused
  BY <1>1, MemoryForm
<1>4. BeamInv' /\ VsyncInv'
  BY <1>1, <1>3 DEF BeamInv, ActiveLine, VsyncInv, After, Along
<1>5. ProgramInv'
  BY <1>1, <1>3 DEF ProgramInv, VsyncCame, Along
<1>6. OverrunInv' /\ ReportInv'
  BY <1>1, <1>3 DEF OverrunInv, JustLeft, Active, Along, ReportInv, Pending
<1> QED  BY <1>2, <1>4, <1>5, <1>6 DEF VgaInv

-----------------------------------------------------------------------------
(* The parts of the invariant, at a tick of the control registers.         *)

\* What the tick itself does, whatever the program does in it.
LEMMA ControlKeeps ==
  ASSUME VgaInv, NEW clears \in BOOLEAN, ControlTick(clears),
         seen'.far = seen.far, seen'.lost = seen.lost,
         seen.excused => seen'.excused,
         clears /\ status.ovrerr => seen'.excused
  PROVE  /\ BeamInv' /\ StrobeInv' /\ VsyncInv' /\ FilledInv' /\ OffsInv' /\ FollowInv'
         /\ OverrunInv' /\ ReportInv'
         /\ strobe' \in [frame : BOOLEAN, line : BOOLEAN]
         /\ edge' \in [frame : Three, line : Three]
         /\ bus' \in BusType
         /\ buffer' \in [Words -> Nat]
         /\ pixel' \in [addr : Nat, count : Nat, overrun : BOOLEAN]
         /\ ticks' \in Nat /\ (~status'.ticked => ticks' = 0) /\ status' \in StatusType
<1>1. /\ VgaTypeOK /\ BeamInv /\ StrobeInv /\ VsyncInv
      /\ FilledInv /\ OffsInv /\ FollowInv /\ OverrunInv /\ ReportInv
  BY DEF VgaInv
<1>2. /\ ~status.ticked /\ status'.ticked
      /\ beam' = beam /\ strobe' = strobe /\ edge' = edge /\ bus' = bus
      /\ buffer' = buffer /\ pixel' = pixel /\ ticks' = ticks
      /\ ticks = 0
      /\ status'.vs[1] = beam.vsync /\ status'.vs[2] = status.vs[1] /\ status'.vs[3] = status.vs[2]
      /\ status'.ovr[1] = pixel.overrun /\ status'.ovr[2] = status.ovr[1]
      /\ status'.ovr[3] = status.ovr[2]
      /\ status'.ovrerr = (Rises(status.ovr) \/ (status.ovrerr /\ ~clears))
      /\ status' \in StatusType
  BY <1>1, ControlForm
<1>3. ActiveLine' = ActiveLine /\ Along' = Along /\ Active' = Active /\ Word' = Word
  BY <1>2 DEF ActiveLine, Along, Active, Word
<1>4. BeamInv' /\ StrobeInv'
  BY <1>1, <1>2, <1>3 DEF BeamInv, StrobeInv
<1>5. FilledInv' /\ FollowInv' /\ OffsInv'
  BY <1>1, <1>2, <1>3 DEF FilledInv, FollowInv, OffsInv, Pending
<1>6. VsyncInv'
  <2>1. beam.v \in Nat /\ Along \in Nat  BY <1>1, AlongForm DEF BeamInv
  <2>2. After(2)' => After(1)
    BY <1>2, <1>3, <2>1 DEF After
  <2>3. After(3)' => After(2)
    BY <1>2, <1>3, <2>1 DEF After
  <2> QED  BY <1>1, <1>2, <2>2, <2>3 DEF VsyncInv
<1>7. OverrunInv'
  <2>1. /\ JustLeft(0)' = JustLeft(0) /\ JustLeft(1)' = JustLeft(1)
        /\ JustLeft(2)' = JustLeft(2) /\ JustLeft(3)' = JustLeft(3)
    BY <1>2, <1>3 DEF JustLeft
  <2>2. pixel'.overrun => Active' \/ JustLeft(0)'
    BY <1>1, <1>2, <1>3, <2>1 DEF OverrunInv
  <2>3. /\ pixel'.overrun /\ status'.ticked => status'.ovr[1]
        /\ status'.ovr[1] => pixel'.overrun
    BY <1>2
  <2>4. status'.ovr[2] => pixel'.overrun \/ JustLeft(1)'
    BY <1>1, <1>2, <2>1 DEF OverrunInv
  <2>5. status'.ovr[3] => pixel'.overrun \/ JustLeft(1)' \/ JustLeft(2)'
    BY <1>1, <1>2, <2>1 DEF OverrunInv
  <2> QED  BY <2>2, <2>3, <2>4, <2>5 DEF OverrunInv
<1>8. ReportInv'
  <2>1. Rises(status.ovr) \/ (status.ovrerr /\ ~clears) => status'.ovrerr
    BY <1>2
  <2>2. status.ovrerr \/ seen.excused => status'.ovrerr \/ seen'.excused
    BY <2>1
  <2>3. status'.ovr[3] => status'.ovrerr \/ seen'.excused
    BY <1>1, <1>2, <2>1, <2>2 DEF ReportInv, Rises
  <2>4. Pending(pixel.overrun, status.ovr) =>
          status'.ovrerr \/ Pending(pixel.overrun, status.ovr)'
    BY <1>2, <2>1 DEF Pending, Rises
  <2>5. seen'.far => status'.ovrerr \/ seen'.excused \/ Pending(pixel.overrun, status.ovr)'
    BY <1>1, <2>2, <2>4 DEF ReportInv
  <2> QED  BY <2>3, <2>5 DEF ReportInv
<1> QED  BY <1>1, <1>2, <1>4, <1>5, <1>6, <1>7, <1>8 DEF VgaTypeOK

\* The flag of the vsync changes in the first line alone.
LEMMA FlagPlace ==
  ASSUME VgaInv, NEW clears \in BOOLEAN, ControlTick(clears), status'.vsflag # status.vsflag
  PROVE  beam'.v < FirstLine - 1
<1>1. VgaTypeOK /\ BeamInv /\ VsyncInv  BY DEF VgaInv
<1>2. Rises(status.vs)  BY <1>1, ControlForm
<1> QED  BY <1>1, <1>2, ControlForm, VsyncPlace

\* A program that waits, or has waited, is at the picture's beginning.
LEMMA ElsewhereKeeps ==
  ASSUME VgaInv, Elsewhere
  PROVE  VgaInv'
<1>1. VgaTypeOK /\ BeamInv /\ ProgramInv /\ PagesInv  BY DEF VgaInv
<1>2. ControlTick(FALSE) /\ UNCHANGED <<scan, page, program, seen>> /\ InTime
  BY DEF Elsewhere
<1>3. /\ BeamInv' /\ StrobeInv' /\ VsyncInv' /\ FilledInv' /\ OffsInv' /\ FollowInv'
      /\ OverrunInv' /\ ReportInv' /\ VgaTypeOK'
  BY <1>1, <1>2, ControlKeeps DEF VgaTypeOK
<1>4. beam' = beam /\ bus' = bus /\ ticks' = ticks  BY <1>2 DEF ControlTick
<1>5. PagesInv'
  BY <1>1, <1>2, <1>4 DEF PagesInv, Settled, ActiveLine, Along
<1>6. ProgramInv'
  <2>1. VsyncCame' => VsyncCame \/ status'.vsflag # status.vsflag
    BY <1>2 DEF VsyncCame
  <2>2. VsyncCame' => beam'.v < FirstLine - 1
    BY <1>1, <1>2, <1>4, <2>1, FlagPlace DEF ProgramInv, InTime
  <2>3. program'.waited => program'.at = "set" /\ beam'.v < FirstLine - 1
    BY <1>1, <1>2, <1>4 DEF ProgramInv, InTime
  <2> QED  BY <2>2, <2>3 DEF ProgramInv
<1> QED  BY <1>3, <1>5, <1>6 DEF VgaInv

\* A program that does not wait before it sets a page, and sets none now.
LEMMA RestingProgram ==
  ASSUME VgaInv, NEW clears \in BOOLEAN, ControlTick(clears),
         program' \in ProgramType, ~program'.waited,
         program'.at = "wait" => program'.read = status.vsflag,
         program'.at \in {"set", "wait"} => program'.value \in FrameBuffers,
         page' = page, seen' \in SeenType,
         seen'.far = seen.far, seen'.lost = seen.lost,
         seen'.pages = seen.pages, seen'.hasty = seen.hasty,
         seen.excused => seen'.excused,
         clears /\ status.ovrerr => seen'.excused
  PROVE  VgaInv'
<1>1. VgaTypeOK /\ BeamInv /\ PagesInv  BY DEF VgaInv
<1>2. /\ BeamInv' /\ StrobeInv' /\ VsyncInv' /\ FilledInv' /\ OffsInv' /\ FollowInv'
      /\ OverrunInv' /\ ReportInv' /\ VgaTypeOK'
  BY <1>1, ControlKeeps DEF VgaTypeOK
<1>3. beam' = beam /\ bus' = bus /\ ticks' = ticks  BY DEF ControlTick
<1>4. PagesInv'
  BY <1>1, <1>3 DEF PagesInv, Settled, ActiveLine, Along
<1>5. VsyncCame' => beam'.v < FirstLine - 1
  BY FlagPlace DEF VsyncCame
<1>6. ProgramInv'  BY <1>5 DEF ProgramInv
<1> QED  BY <1>2, <1>4, <1>6 DEF VgaInv

LEMMA ShowPageKeeps ==
  ASSUME VgaInv, NEW p \in Pages, NEW vs \in BOOLEAN, ShowPage(p, vs)
  PROVE  VgaInv'
<1>1. VgaTypeOK  BY DEF VgaInv
<1>2. ControlTick(FALSE) /\ UNCHANGED <<scan, page, seen>>  BY DEF ShowPage
<1>3. PICK b \in BOOLEAN : b = (vs /\ status.vsflag)  OBVIOUS
<1>4. PICK a \in {"wait", "set"} : a = IF vs THEN "wait" ELSE "set"  OBVIOUS
<1>5. program' = [Resting EXCEPT !.at = a, !.value = p, !.read = b]
  BY <1>3, <1>4, Zenon DEF ShowPage
<1>6. program' = [at |-> a, value |-> p, read |-> b, waited |-> FALSE]
  BY <1>5 DEF Resting
<1>7. /\ program' \in ProgramType /\ ~program'.waited /\ program'.value \in FrameBuffers
      /\ program'.at = a /\ program'.read = b
  BY <1>6 DEF ProgramType, FrameBuffers
<1>8. a = "wait" => b = status.vsflag
  BY <1>1, <1>3, <1>4 DEF VgaTypeOK, StatusType
<1> QED  BY <1>1, <1>2, <1>7, <1>8, RestingProgram DEF VgaTypeOK

LEMMA ReadStatusKeeps ==
  ASSUME VgaInv, NEW on \in BOOLEAN, ReadStatus(on)
  PROVE  VgaInv'
<1>1. VgaTypeOK  BY DEF VgaInv
<1>2. ControlTick(FALSE) /\ UNCHANGED <<scan, page, seen>>  BY DEF ReadStatus
<1>3. program' = [at |-> "write", value |-> on, read |-> status.ovrerr, waited |-> FALSE]
  BY DEF ReadStatus, Resting
<1>4. program' \in ProgramType /\ ~program'.waited /\ program'.at = "write"
  BY <1>1, <1>3 DEF ProgramType, VgaTypeOK, StatusType
<1> QED  BY <1>1, <1>2, <1>4, RestingProgram DEF VgaTypeOK

\* A report that is cleared unread is an excuse.
LEMMA WriteStatusKeeps ==
  ASSUME VgaInv, WriteStatus
  PROVE  VgaInv'
<1>1. VgaTypeOK  BY DEF VgaInv
<1>2. PICK c \in BOOLEAN : c = (~program.read)  OBVIOUS
<1>3. ControlTick(c) /\ page' = page /\ program' = Resting
  BY <1>2, Zenon DEF WriteStatus
<1>4. PICK x \in BOOLEAN : x = (seen.excused \/ (status.ovrerr /\ ~program.read))
  OBVIOUS
<1>5. seen' = [seen EXCEPT !.excused = x]  BY <1>4, Zenon DEF WriteStatus
<1>6. /\ seen' \in SeenType /\ seen'.far = seen.far /\ seen'.lost = seen.lost
      /\ seen'.pages = seen.pages /\ seen'.hasty = seen.hasty /\ seen'.excused = x
  BY <1>1, <1>5 DEF VgaTypeOK, SeenType
<1>7. program' \in ProgramType /\ ~program'.waited /\ program'.at = "idle"
  BY <1>3 DEF Resting, ProgramType, FrameBuffers
<1>8. (seen.excused => x) /\ (c /\ status.ovrerr => x)  BY <1>2, <1>4
<1> QED  BY <1>3, <1>6, <1>7, <1>8, RestingProgram

LEMMA WaitVsyncKeeps ==
  ASSUME VgaInv, WaitVsync
  PROVE  VgaInv'
<1>1. VgaTypeOK /\ BeamInv /\ ProgramInv /\ PagesInv  BY DEF VgaInv
<1>2. ControlTick(FALSE) /\ UNCHANGED <<scan, page, seen>> /\ VsyncCame
  BY DEF WaitVsync
<1>3. program' = [program EXCEPT !.at = "set", !.waited = TRUE]  BY DEF WaitVsync
<1>4. program.at = "wait" /\ program.value \in FrameBuffers
  BY <1>1, <1>2 DEF VsyncCame, VgaTypeOK
<1>5. program' \in ProgramType /\ program'.value = program.value /\ program'.at = "set"
  BY <1>1, <1>3 DEF VgaTypeOK, ProgramType
<1>6. /\ BeamInv' /\ StrobeInv' /\ VsyncInv' /\ FilledInv' /\ OffsInv' /\ FollowInv'
      /\ OverrunInv' /\ ReportInv' /\ VgaTypeOK'
  BY <1>1, <1>2, <1>4, <1>5, ControlKeeps DEF VgaTypeOK
<1>7. beam' = beam /\ bus' = bus /\ ticks' = ticks  BY <1>2 DEF ControlTick
<1>8. PagesInv'
  BY <1>1, <1>2, <1>7 DEF PagesInv, Settled, ActiveLine, Along
<1>9. ProgramInv'
  <2>1. ~VsyncCame'  BY <1>5 DEF VsyncCame
  <2>2. beam.v < FirstLine - 1 \/ (beam.v = FirstLine - 1 /\ Along = 0)
    BY <1>1, <1>2 DEF ProgramInv
  <2>3. beam'.v < FirstLine - 1 \/ (beam'.v = FirstLine - 1 /\ Along' = 0)
    BY <1>7, <2>2 DEF Along
  <2> QED  BY <1>5, <2>1, <2>3 DEF ProgramInv
<1> QED  BY <1>6, <1>8, <1>9 DEF VgaInv

\* A page that is set after the vsync comes before the first line.
LEMMA SetBufferKeeps ==
  ASSUME VgaInv, SetBuffer
  PROVE  VgaInv'
<1>1. VgaTypeOK /\ BeamInv /\ ProgramInv /\ PagesInv  BY DEF VgaInv
<1>2. ControlTick(FALSE) /\ program' = Resting /\ program.at = "set" /\ page' = program.value
  BY DEF SetBuffer
<1>3. PICK x \in BOOLEAN : x = (seen.hasty \/ ~program.waited)  OBVIOUS
<1>4. seen' = [seen EXCEPT !.hasty = x]  BY <1>3, Zenon DEF SetBuffer
<1>5. /\ seen' \in SeenType /\ seen'.far = seen.far /\ seen'.lost = seen.lost
      /\ seen'.pages = seen.pages /\ seen'.hasty = x /\ seen'.excused = seen.excused
  BY <1>1, <1>4 DEF VgaTypeOK, SeenType
<1>6. program' \in ProgramType /\ ~program'.waited /\ program'.at = "idle" /\ page' \in FrameBuffers
  BY <1>1, <1>2 DEF Resting, ProgramType, FrameBuffers, VgaTypeOK
<1>7. /\ BeamInv' /\ StrobeInv' /\ VsyncInv' /\ FilledInv' /\ OffsInv' /\ FollowInv'
      /\ OverrunInv' /\ ReportInv' /\ VgaTypeOK'
  BY <1>1, <1>2, <1>5, <1>6, ControlKeeps DEF VgaTypeOK
<1>8. /\ beam' = beam /\ bus' = bus /\ ticks' = ticks /\ ticks = 0 /\ beam.v \in Nat
  BY <1>1, <1>2 DEF ControlTick, VgaTypeOK, BeamInv
<1>9. ASSUME ~seen'.hasty PROVE ~seen.hasty /\ ~Settled' /\ ~ActiveLine'
  <2>1. ~seen.hasty /\ program.waited  BY <1>3, <1>5, <1>9
  <2>2. \/ beam.v < FirstLine - 1
        \/ beam.v = FirstLine - 1 /\ (Along = 0 \/ Along = 1)
    BY <1>1, <2>1 DEF ProgramInv
  <2> QED  BY <1>8, <2>1, <2>2, Geometry DEF Settled, ActiveLine, Along
<1>10. PagesInv'
  BY <1>1, <1>5, <1>8, <1>9 DEF PagesInv
<1>11. ProgramInv'  BY <1>6 DEF ProgramInv, VsyncCame
<1> QED  BY <1>7, <1>10, <1>11 DEF VgaInv

-----------------------------------------------------------------------------
(* The invariant, and the properties.                                      *)

LEMMA VgaInitInv ==
  ASSUME Init
  PROVE  VgaInv
<1>1. /\ beam.h = H_TOTAL - 1 /\ beam.v = V_TOTAL - 1 /\ beam.hblank = TRUE /\ beam.vblank = TRUE
      /\ beam.vsync = FALSE
      /\ strobe = [frame |-> FALSE, line |-> FALSE]
      /\ edge = [frame |-> Off, line |-> Off]
      /\ bus = [state |-> "IDLE", count |-> 0, was |-> 0, top |-> 0, line |-> 0, offs |-> 0]
      /\ buffer = [w \in Words |-> V_ACTIVE]
      /\ pixel = [addr |-> 0, count |-> 0, overrun |-> FALSE]
      /\ ticks = 0 /\ seen = Nothing /\ page = 0
      /\ status = [ticked |-> FALSE, vs |-> Off, ovr |-> Off, vsflag |-> FALSE, ovrerr |-> FALSE]
      /\ program = Resting
  BY DEF Init, FetchInit
<1>2. Off \in Three /\ ~Off[1] /\ ~Off[2] /\ ~Off[3]  BY DEF Off, Three
<1>3. VgaTypeOK
  <2>1. bus \in BusType  BY <1>1, Geometry DEF BusType, FrameBuffers
  <2>2. seen \in SeenType  BY <1>1 DEF SeenType, Nothing
  <2>3. status \in StatusType  BY <1>1, <1>2 DEF StatusType
  <2>4. program \in ProgramType /\ program.at = "idle"
    BY <1>1 DEF ProgramType, Resting, FrameBuffers
  <2>5. buffer \in [Words -> Nat]  BY <1>1, Geometry
  <2> QED  BY <1>1, <1>2, <2>1, <2>2, <2>3, <2>4, <2>5 DEF VgaTypeOK, FrameBuffers
<1>4. ~ActiveLine  BY <1>1, Geometry DEF ActiveLine
<1>5. BeamInv
  <2>1. ~(LastBack < beam.h /\ beam.h <= LastActive)  BY <1>1, Geometry
  <2>2. (beam.v < V_SYNC) = FALSE  BY <1>1, Geometry
  <2>3. beam.h \in 0 .. H_TOTAL - 1 /\ beam.v \in 0 .. V_TOTAL - 1  BY <1>1, Geometry
  <2>4. beam.hblank = ~(LastBack < beam.h /\ beam.h <= LastActive)  BY <1>1, <2>1
  <2>5. beam.vblank = ~ActiveLine  BY <1>1, <1>4
  <2>6. beam.vsync = (beam.v < V_SYNC)  BY <1>1, <2>2, Zenon
  <2> QED  BY <2>3, <2>4, <2>5, <2>6 DEF BeamInv
<1>6. StrobeInv
  <2>1. beam.v # 0  BY <1>1, Geometry
  <2>2. strobe.frame = (beam.v = 0 /\ beam.h < H_SYNC)  BY <1>1, <2>1
  <2> QED  BY <1>1, <1>2, <2>2 DEF StrobeInv, Run
<1>7. VsyncInv /\ ProgramInv
  BY <1>1, <1>2 DEF VsyncInv, ProgramInv, VsyncCame, Resting
<1>8. PagesInv  BY <1>1 DEF PagesInv, Nothing
<1>9. FilledInv /\ OffsInv
  <2>1. bus.count = 0 /\ bus.was = 0 /\ bus.state = "IDLE" /\ bus.offs = 0  BY <1>1
  <2>2. \A w \in Words : ~(w < bus.count)  BY <2>1, Geometry DEF Words
  <2>3. FilledInv  BY <2>1, <2>2 DEF FilledInv
  <2>4. OffsInv  BY <1>4, <2>1 DEF OffsInv
  <2> QED  BY <2>3, <2>4
<1>10. FollowInv  BY <1>1 DEF FollowInv, Active
<1>11. OverrunInv /\ ReportInv
  BY <1>1, <1>2 DEF OverrunInv, ReportInv, Nothing
<1> QED  BY <1>3, <1>5, <1>6, <1>7, <1>8, <1>9, <1>10, <1>11 DEF VgaInv

LEMMA VgaStep ==
  ASSUME VgaInv, [Next]_vars
  PROVE  VgaInv'
<1>1. ASSUME Pixel PROVE VgaInv'  BY <1>1, PixelKeeps
<1>2. ASSUME Memory PROVE VgaInv'  BY <1>2, MemoryKeeps
<1>3. ASSUME Elsewhere PROVE VgaInv'  BY <1>3, ElsewhereKeeps
<1>4. ASSUME WaitVsync PROVE VgaInv'  BY <1>4, WaitVsyncKeeps
<1>5. ASSUME SetBuffer PROVE VgaInv'  BY <1>5, SetBufferKeeps
<1>6. ASSUME WriteStatus PROVE VgaInv'  BY <1>6, WriteStatusKeeps
<1>7. ASSUME NEW p \in Pages \ {page}, NEW vs \in BOOLEAN, ShowPage(p, vs) PROVE VgaInv'
  BY <1>7, ShowPageKeeps
<1>8. ASSUME NEW on \in BOOLEAN, ReadStatus(on) PROVE VgaInv'
  BY <1>8, ReadStatusKeeps
<1>9. ASSUME UNCHANGED vars PROVE VgaInv'
  BY <1>9 DEF vars, VgaInv, VgaTypeOK, BeamInv, StrobeInv, VsyncInv, ProgramInv, PagesInv,
     FilledInv, OffsInv, FollowInv, OverrunInv, ReportInv, ActiveLine, Along, After, Settled,
     Pending, JustLeft, Active, Word, VsyncCame
<1> QED
  BY <1>1, <1>2, <1>3, <1>4, <1>5, <1>6, <1>7, <1>8, <1>9 DEF Next, Program

LEMMA VgaInvariant == Spec => []VgaInv
BY VgaInitInv, VgaStep, PTL DEF Spec

\* A page that is set after the vsync is seen by whole frames: the pages that
\* vga_avm fetches a frame's lines from are one, unless nd_egl set a page
\* without waiting.
THEOREM WholePagesHolds == Spec => []WholePages
<1>1. ASSUME VgaInv PROVE WholePages
  <2>1. SUFFICES ASSUME ~seen.hasty PROVE ~(Cardinality(seen.pages) > 1)
    BY DEF WholePages
  <2>2. PICK p : seen.pages \subseteq {p}  BY <1>1, <2>1 DEF VgaInv, PagesInv
  <2>3. seen.pages = {} \/ seen.pages = {p}  BY <2>2
  <2>4. Cardinality(seen.pages) = 0 \/ Cardinality(seen.pages) = 1
    BY <2>3, FS_EmptySet, FS_Singleton
  <2> QED  BY <2>4
<1> QED  BY <1>1, VgaInvariant, PTL

\* A pixel more than a word late is reported by the flag of vga_component when
\* the frame ends, for every geometry, ratio of the clocks and outcome of the
\* bits that are read while they change.
THEOREM FarReportedHolds == Spec => []FarReported
<1>1. ASSUME VgaInv PROVE FarReported
  <2>1. SUFFICES ASSUME strobe.frame, seen.far, ~seen.excused PROVE status.ovrerr
    BY DEF FarReported
  <2>2. VgaTypeOK /\ BeamInv /\ StrobeInv /\ OverrunInv /\ ReportInv  BY <1>1 DEF VgaInv
  <2>3. beam.v = 0 /\ ~ActiveLine  BY <2>1, <2>2, Places
  <2>4. beam.vblank  BY <2>2, <2>3 DEF BeamInv
  <2>5. ~Active /\ ~JustLeft(0) /\ ~JustLeft(1) /\ ~JustLeft(2)
    BY <2>3, <2>4, Geometry DEF Active, JustLeft
  <2>6. ~Pending(pixel.overrun, status.ovr)
    BY <2>2, <2>5 DEF OverrunInv, Pending
  <2> QED  BY <2>1, <2>2, <2>6 DEF ReportInv
<1> QED  BY <1>1, VgaInvariant, PTL

\* A pixel whose word has come shows the beam's own line, if no start of a line
\* was lost in the frame: the line offset of vga_avm begins with the frame.
THEOREM RightLineHolds == Spec => RightLine
<1>1. ASSUME VgaInv, Pixel, Active, ~seen.lost
      PROVE  Late \/ buffer[Word] = beam.v - FirstLine
  <2>1. VgaTypeOK /\ BeamInv /\ StrobeInv /\ FilledInv /\ OffsInv  BY <1>1 DEF VgaInv
  <2>2. beam.scanena /\ ~beam.hblank /\ ~beam.vblank  BY <1>1 DEF Active
  <2>3. LastBack < beam.h /\ beam.h <= LastActive /\ ActiveLine
    BY <2>1, <2>2, Zenon DEF BeamInv
  <2>4. beam.h \in Nat /\ bus.count \in 0 .. Burst /\ pixel.addr \in Nat
    BY <2>1, Geometry DEF BeamInv, VgaTypeOK, BusType
  <2>5. ~Pending(strobe.line, edge.line) /\ ~(beam.h > LastActive)
    BY <2>1, <2>3, <2>4, Places, Geometry
  <2>6. bus.line = beam.v - FirstLine
    BY <1>1, <2>1, <2>2, <2>3, <2>5 DEF OffsInv
  <2>7. ASSUME ~Late PROVE buffer[Word] = bus.line
    <3>1. Word \in Nat /\ Word < bus.count  BY <2>4, <2>7 DEF Word, Late
    <3>2. Word \in Words  BY <2>4, <3>1, Geometry DEF Words
    <3> QED  BY <2>1, <3>1, <3>2 DEF FilledInv
  <2> QED  BY <2>6, <2>7
<1>2. ASSUME VgaInv, [Next]_vars
      PROVE  [Pixel /\ Active /\ ~seen.lost => Late \/ buffer[Word] = beam.v - FirstLine]_vars
  BY <1>1, <1>2
<1> QED  BY <1>2, VgaInvariant, PTL DEF Spec, RightLine

-----------------------------------------------------------------------------
(* The code's registers are as CountAssumption wants them.                 *)

\* A number of nine bits is the sum of them.
LEMMA BitSum ==
  ASSUME NEW n \in 0 .. 511
  PROVE  n = Bit(n, 1) + 2 * Bit(n, 2) + 4 * Bit(n, 4) + 8 * Bit(n, 8) + 16 * Bit(n, 16)
             + 32 * Bit(n, 32) + 64 * Bit(n, 64) + 128 * Bit(n, 128) + 256 * Bit(n, 256)
<1>1. n = 2 * (n \div 2) + Bit(n, 1)  BY DEF Bit
<1>2. n \div 2 = 2 * (n \div 4) + Bit(n, 2)  BY DEF Bit
<1>3. n \div 4 = 2 * (n \div 8) + Bit(n, 4)  BY DEF Bit
<1>4. n \div 8 = 2 * (n \div 16) + Bit(n, 8)  BY DEF Bit
<1>5. n \div 16 = 2 * (n \div 32) + Bit(n, 16)  BY DEF Bit
<1>6. n \div 32 = 2 * (n \div 64) + Bit(n, 32)  BY DEF Bit
<1>7. n \div 64 = 2 * (n \div 128) + Bit(n, 64)  BY DEF Bit
<1>8. n \div 128 = 2 * (n \div 256) + Bit(n, 128)  BY DEF Bit
<1>9. n \div 256 = Bit(n, 256)  BY DEF Bit
<1>10. /\ Bit(n, 1) \in Int /\ Bit(n, 2) \in Int /\ Bit(n, 4) \in Int /\ Bit(n, 8) \in Int
       /\ Bit(n, 16) \in Int /\ Bit(n, 32) \in Int /\ Bit(n, 64) \in Int
       /\ Bit(n, 128) \in Int /\ Bit(n, 256) \in Int
  BY DEF Bit
<1>11. n \div 8 \in Int /\ n \div 64 \in Int
  OBVIOUS
<1>12. n = 8 * (n \div 8) + 4 * Bit(n, 4) + 2 * Bit(n, 2) + Bit(n, 1)
  BY <1>1, <1>2, <1>3, <1>10, <1>11
<1>13. n \div 8 = 8 * (n \div 64) + 4 * Bit(n, 32) + 2 * Bit(n, 16) + Bit(n, 8)
  BY <1>4, <1>5, <1>6, <1>10, <1>11
<1>14. n \div 64 = 4 * Bit(n, 256) + 2 * Bit(n, 128) + Bit(n, 64)
  BY <1>7, <1>8, <1>9, <1>10, <1>11
<1> QED  BY <1>10, <1>11, <1>12, <1>13, <1>14

\* Two values of pixelcount_reg with the same bits are one.
LEMMA NineBits ==
  ASSUME NEW m \in 0 .. 511, NEW n \in 0 .. 511,
         \A w \in {1, 2, 4, 8, 16, 32, 64, 128, 256} : Bit(m, w) = Bit(n, w)
  PROVE  m = n
<1>1. /\ Bit(m, 1) = Bit(n, 1) /\ Bit(m, 2) = Bit(n, 2) /\ Bit(m, 4) = Bit(n, 4)
      /\ Bit(m, 8) = Bit(n, 8) /\ Bit(m, 16) = Bit(n, 16) /\ Bit(m, 32) = Bit(n, 32)
      /\ Bit(m, 64) = Bit(n, 64) /\ Bit(m, 128) = Bit(n, 128) /\ Bit(m, 256) = Bit(n, 256)
  BY Zenon
<1>2. m = Bit(m, 1) + 2 * Bit(m, 2) + 4 * Bit(m, 4) + 8 * Bit(m, 8) + 16 * Bit(m, 16)
            + 32 * Bit(m, 32) + 64 * Bit(m, 64) + 128 * Bit(m, 128) + 256 * Bit(m, 256)
  BY BitSum
<1>3. n = Bit(n, 1) + 2 * Bit(n, 2) + 4 * Bit(n, 4) + 8 * Bit(n, 8) + 16 * Bit(n, 16)
            + 32 * Bit(n, 32) + 64 * Bit(n, 64) + 128 * Bit(n, 128) + 256 * Bit(n, 256)
  BY BitSum
<1> QED  BY <1>1, <1>2, <1>3

=============================================================================
