----------------------------- MODULE LoreleyIrqbit -----------------------------
(***************************************************************************)
(* The interrupt bits of the SPU, the first process of loreley_irqencode   *)
(* in boards/Cineraria_DE0nano_DVI/loreley/loreley_irqencode.vhd.  A set   *)
(* and a clear each pass through a register before they reach the bit.  An *)
(* address register and its enable are one variable here, with NoSlot for  *)
(* an enable of 0.                                                         *)
(***************************************************************************)
EXTENDS Integers

CONSTANT SlotNums      \* the slots there are, 0..2^SLOTNUM_WIDTH-1 in the code

VARIABLES
  irqset,      \* the slot whose bit is set at the next edge
  irqclr,      \* the slot whose bit is cleared at the next edge
  irqbit       \* the slots whose bit is set

bitvars == <<irqset, irqclr, irqbit>>

NoSlot == -1

ASSUME SlotNumsAssumption == SlotNums \subseteq 0..127

BitTypeOK ==
  /\ irqset \in SlotNums \cup {NoSlot}
  /\ irqclr \in SlotNums \cup {NoSlot}
  /\ irqbit \subseteq SlotNums

BitReset == irqset = NoSlot /\ irqclr = NoSlot /\ irqbit = {}

\* The bits behind the next edge; a clear wins over a set of the same bit.
BitsNext == (irqbit \cup ({irqset} \ {NoSlot})) \ {irqclr}

\* One edge, with the set and the clear the slot engine asks for.
BitClock(set, clr) == irqset' = set /\ irqclr' = clr /\ irqbit' = BitsNext

==============================================================================
