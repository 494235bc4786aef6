--------------------------- MODULE LoreleyIrqencode ---------------------------
(***************************************************************************)
(* The priority encoder behind the interrupt bits, the rest of             *)
(* loreley_irqencode.vhd.  Every change of a bit starts a scan of four     *)
(* words of 32 bits; a word takes two more edges through a byte encoder    *)
(* and a word encoder, so the state machine always judges the word it      *)
(* loaded three states ago.  One step is one rising edge of the clock.     *)
(***************************************************************************)
EXTENDS LoreleyIrqbit

VARIABLES
  scan,        \* the state of the scan
  irq32bit,    \* the word at the input of the encoders, the set of its bits
  bytefirst,   \* the first stage: the lowest bit of each byte, or NoBit
  wordfirst,   \* the second stage: the lowest bit of a word, or NoBit
  irqslotreq,  \* the interrupt request
  irqslotnum   \* the slot it is from

scanvars == <<scan, irq32bit, bytefirst, wordfirst, irqslotreq, irqslotnum>>
vars == <<bitvars, scanvars>>

ScanState == {"ENTRY", "ENC0", "ENC1", "DET0", "DET1", "DET2", "DET3", "HALT"}
NoBit     == -1

ScanTypeOK ==
  /\ scan \in ScanState
  /\ irq32bit \subseteq 0..31
  /\ bytefirst \in [0..3 -> 0..7 \cup {NoBit}]
  /\ wordfirst \in 0..31 \cup {NoBit}
  /\ irqslotreq \in 0..1
  /\ irqslotnum \in 0..127

\* Every register of the encoder holds a value of its width.
TypeOK == BitTypeOK /\ ScanTypeOK

\* irq32bit has no reset; it is loaded before the scan looks at it.
Init ==
  /\ BitReset
  /\ scan = "HALT"
  /\ irq32bit = {}
  /\ bytefirst = [k \in 0..3 |-> NoBit]
  /\ wordfirst = NoBit
  /\ irqslotreq = 0
  /\ irqslotnum = 0

-----------------------------------------------------------------------------

\* Fault: slot 0, which is the system's, takes part.
WordOfWithZero(i) == {b \in 0..31 : 32 * i + b \in irqbit}

\* Word i of the bits; bit 0 of word 0 is tied to 0.
WordOf(i) == {b \in 0..31 : 32 * i + b \in irqbit \ {0}}

\* The bits of byte k of a word.
ByteOf(word, k) == {b \in 0..7 : 8 * k + b \in word}

Lowest(byte) == CHOOSE b \in byte : \A c \in byte : b <= c

\* First stage: the lowest bit of each byte.
ByteStage(word) ==
  [k \in 0..3 |-> IF ByteOf(word, k) = {} THEN NoBit ELSE Lowest(ByteOf(word, k))]

\* Second stage: the lowest byte that has a bit, and that bit.
WordStage(bytes) ==
  IF \A k \in 0..3 : bytes[k] = NoBit THEN NoBit
  ELSE LET k == CHOOSE k \in 0..3 : /\ bytes[k] # NoBit
                                    /\ \A j \in 0..(k - 1) : bytes[j] = NoBit
       IN 8 * k + bytes[k]

Encoders == bytefirst' = ByteStage(irq32bit) /\ wordfirst' = WordStage(bytefirst)

\* A bit changes at this edge.
Changing == irqset # NoSlot \/ irqclr # NoSlot

\* Whatever the scan was doing, it begins again when a bit has changed.
Restart ==
  /\ Changing
  /\ scan' = "ENTRY"
  /\ UNCHANGED <<irq32bit, irqslotreq, irqslotnum>>

\* ENTRY, ENC0 and ENC1 only load a word.
Load(from, to, i) ==
  /\ ~Changing
  /\ scan = from
  /\ scan' = to
  /\ irq32bit' = WordOf(i)
  /\ UNCHANGED <<irqslotreq, irqslotnum>>

\* DET0 to DET2: word i is judged; the next one has its turn if it is empty.
Detect(from, to, i) ==
  /\ ~Changing
  /\ scan = from
  /\ irq32bit' = IF i = 0 THEN WordOf(3) ELSE irq32bit
  /\ \/ /\ wordfirst # NoBit
        /\ scan' = "HALT"
        /\ irqslotreq' = 1
        /\ irqslotnum' = 32 * i + wordfirst
     \/ /\ wordfirst = NoBit
        /\ scan' = to
        /\ UNCHANGED <<irqslotreq, irqslotnum>>

\* Fault: with no bit set the scan waits in DET3.
DetectLastWaits ==
  /\ ~Changing
  /\ scan = "DET3"
  /\ scan' = IF wordfirst # NoBit THEN "HALT" ELSE "DET3"
  /\ irqslotreq' = IF wordfirst # NoBit THEN 1 ELSE 0
  /\ irqslotnum' = IF wordfirst # NoBit THEN 96 + wordfirst ELSE 0
  /\ UNCHANGED irq32bit

\* DET3: the last word decides.
DetectLast ==
  /\ ~Changing
  /\ scan = "DET3"
  /\ scan' = "HALT"
  /\ irqslotreq' = IF wordfirst # NoBit THEN 1 ELSE 0
  /\ irqslotnum' = IF wordfirst # NoBit THEN 96 + wordfirst ELSE 0
  /\ UNCHANGED irq32bit

Halted ==
  /\ ~Changing
  /\ scan = "HALT"
  /\ UNCHANGED <<scan, irq32bit, irqslotreq, irqslotnum>>

Scan ==
  \/ Restart
  \/ Load("ENTRY", "ENC0", 0)
  \/ Load("ENC0", "ENC1", 1)
  \/ Load("ENC1", "DET0", 2)
  \/ Detect("DET0", "DET1", 0)
  \/ Detect("DET1", "DET2", 1)
  \/ Detect("DET2", "DET3", 2)
  \/ DetectLast
  \/ Halted

\* The slot engine sets and clears what it likes, also at the same edge.
Next ==
  \E set, clr \in SlotNums \cup {NoSlot} :
    BitClock(set, clr) /\ Encoders /\ Scan

\* An edge at which the engine asks for nothing.
QuietNext == BitClock(NoSlot, NoSlot) /\ Encoders /\ Scan

Spec == Init /\ [][Next]_vars

\* The clock does not stop, whatever the engine asks for.
FairSpec == Spec /\ WF_vars(QuietNext)

-----------------------------------------------------------------------------
(* Properties.                                                             *)

\* The slots that may interrupt: slot 0 is the system's own address.
Pending == irqbit \ {0}

\* Once a scan has ended, the request and the number are those of the lowest
\* pending slot, however many bits changed while earlier scans were running:
\* what the CPU reads as interrupting slot is never one that was cleared
\* before the scan, and no slot is passed over.
EncoderShows ==
  scan = "HALT" =>
    IF Pending = {}
    THEN irqslotreq = 0 /\ irqslotnum = 0
    ELSE /\ irqslotreq = 1
         /\ irqslotnum \in Pending
         /\ \A s \in Pending : irqslotnum <= s

\* When no bit changes any more, the scan ends (in at most seven edges: it
\* cannot be stuck in front of a word that is empty).
ScanEnds == <>[](~Changing) => <>[](scan = "HALT")

==============================================================================
