---------------------------- MODULE WavStreamProofs ----------------------------
(***************************************************************************)
(* What the WAV player plays is the file, for rings, blocks, files and     *)
(* speeds of any size: NoTear, InStep and InOrder of WavStream.            *)
(*                                                                         *)
(* The invariant says that both channels are at the same place (PairInv),  *)
(* that the lines of the cache a channel is going to read are what memory  *)
(* holds (CacheOK), that the words of a ring follow each other except      *)
(* where the next one is written (RingOK), and that the place where the    *)
(* program writes is out of reach of the sample in progress (GapInv).      *)
(***************************************************************************)
EXTENDS WavStream, TLAPS

-----------------------------------------------------------------------------
(* The inductive invariant.                                                *)

Sample == Older .. Length
Memory == [Addresses -> Sample]
Cache  == [CacheIndices -> Sample]
Speed  == 1 .. 2 * Frac - 1

VoiceType ==
  [busy : BOOLEAN, keyon : BOOLEAN, keyoff : BOOLEAN, play : Int, frac : 0 .. Frac - 1,
   full : BOOLEAN, half : BOOLEAN, start : Int, stop : Int, freq : Speed, cache : Cache]

\* Where a block begins.
Blocks == {o \in 0 .. Ring - Block : o % Block = 0}

ProgType ==
  [at : {"stopped", "key right", "sync", "playing", "filling"}, offs : Blocks,
   size : 0 .. Length, done : 0 .. Block, eof : BOOLEAN]

WavTypeOK ==
  /\ mem \in Memory /\ left \in VoiceType /\ right \in VoiceType /\ nextaddr \in Int
  /\ sync \in BOOLEAN
  /\ frame \in [slot : {"none", "right", "left"}, sync : BOOLEAN]
  /\ prog \in ProgType
  /\ heard \in [left : Sample \X Sample, right : Sample \X Sample]
  /\ seen \in [ticked : BOOLEAN, plays : Nat]

\* The voice v has the ring at s, and plays in it.
Tuned(v, s)  == v.start = s /\ v.stop = s + Ring - 1
Inside(v, s) == Tuned(v, s) /\ v.play \in s .. s + Ring - 1

PlaceInv(v, s) ==
  /\ v.keyon => Tuned(v, s)
  /\ v.busy => Inside(v, s)

\* Nothing of this file is anywhere.
NoneHeard == <<Older, Older>>
NoneStored == [a \in Addresses |-> Older]
NoneRead  == [i \in CacheIndices |-> Older]
AllOlder ==
  /\ mem = NoneStored
  /\ left.cache = NoneRead /\ right.cache = NoneRead
  /\ heard = [left |-> NoneHeard, right |-> NoneHeard]
  /\ prog.offs = 0 /\ prog.size = 0

Running == prog.at \in {"playing", "filling"}

\* Who waits for a key, and what for.
KeyInv ==
  /\ prog.at = "stopped" =>
       /\ left.keyoff \/ ~left.busy
       /\ right.keyoff \/ ~right.busy
       /\ ~left.keyon /\ ~right.keyon
  /\ prog.at # "stopped" => ~left.keyoff /\ ~right.keyoff
  /\ prog.at \in {"key right", "sync"} => left.keyon /\ ~sync /\ ~frame.sync
  /\ prog.at = "sync" => right.keyon /\ right.freq = left.freq
  /\ Running =>
       /\ left.keyon = (sync \/ frame.sync)
       /\ right.keyon = (sync \/ (frame.sync /\ frame.slot = "right"))
       /\ left.keyon => prog.at = "playing" /\ right.freq = left.freq
       /\ left.keyon /\ ~right.keyon =>
            /\ frame.slot = "left" /\ right.busy /\ right.full /\ ~right.half
            /\ right.play = RightStart /\ right.frac = 0
       /\ frame.sync => ~sync /\ frame.slot # "none"
  /\ left.keyon => AllOlder

\* The channels are at the same place, but for the sample in progress.
NextPlay(v) ==
  LET inc == v.play + (v.frac + v.freq) \div Frac IN
  IF inc > v.stop THEN v.start + ((inc - v.stop - 1) % 2) ELSE inc

NextFrac(v) == (v.frac + v.freq) % Frac

Offset(v) == v.play - v.start

PairInv ==
  /\ left.busy /\ right.busy /\ ~right.keyon /\ right.freq = left.freq
  /\ IF frame.slot = "left"
     THEN /\ Offset(right) = NextPlay(left) - left.start /\ right.frac = NextFrac(left)
          /\ heard.right = <<mem[left.play], mem[left.play + 1]>>
     ELSE /\ Offset(right) = Offset(left) /\ right.frac = left.frac
          /\ heard.right = heard.left

\* How far a voice is ahead of the filling, which begins at o.
Gap(v, o) == IF Offset(v) < o THEN Offset(v) - o + Ring ELSE Offset(v) - o

GapInv ==
  /\ prog.at = "filling" => Gap(left, prog.offs) >= Block
  /\ frame.slot # "none" /\ Gap(left, prog.offs) >= Block => Gap(left, prog.offs) <= Ring - 3

\* The cache c holds the line of the address a of the memory m.
Held(c, a, m) ==
  \A i \in 0 .. Line - 1 : c[Line * (LineOf(a) % 2) + i] = m[Line * LineOf(a) + i]

\* What the voice v will not read again is what it would read.
CacheOK(v, m, o) ==
  /\ (v.full => v.half) => Held(v.cache, v.play, m)
  /\ v.half /\ ~v.full =>
       v.play % Line = Line - 1 /\ Held(v.cache, v.play + 1, m) /\ Gap(v, o) <= Ring - 3

\* The sample y may follow x.
Pair(x, y) == Follows(<<x, y>>)

\* The words of the rings in the memory m: blocks up to o are filled, w is the
\* next to be written, n the next sample.
RingOK(m, o, w, n) ==
  /\ \A a \in 0 .. Ring : m[RightStart + a] = m[LeftStart + a]
  /\ \A a \in 0 .. Ring - 2 : a + 1 # w => Pair(m[LeftStart + a], m[LeftStart + a + 1])
  /\ w \in 1 .. Ring - 1 => Pair(m[LeftStart + Ring - 1], m[LeftStart])
  /\ Pair(m[LeftStart + (IF w = 0 THEN Ring - 1 ELSE w - 1)], n)
  /\ o # 0 => m[LeftStart + Ring] = m[LeftStart]

Written == IF prog.at = "filling" THEN prog.offs + prog.done ELSE prog.offs

\* The sample that is played next follows the one that was played.
NextInv == mem[left.play] \in heard.left[1] .. heard.left[1] + 2

PlayInv ==
  /\ PairInv /\ GapInv
  /\ CacheOK(left, mem, prog.offs) /\ CacheOK(right, mem, prog.offs)
  /\ RingOK(mem, prog.offs, Written, prog.size)
  /\ NextInv

WavInv ==
  /\ WavTypeOK /\ PlaceInv(left, LeftStart) /\ PlaceInv(right, RightStart)
  /\ KeyInv /\ NoTear
  /\ Running /\ ~left.keyon => PlayInv

-----------------------------------------------------------------------------
(* Addresses.                                                              *)

\* The sizes of what is in memory.
LEMMA Sizes ==
  /\ Ring \in Nat /\ Block \in Nat /\ Length \in Nat /\ Length > 0 /\ Frac \in Nat /\ Frac > 0
  /\ Block >= Line /\ Ring >= 2 * Block /\ Ring % Line = 0 /\ Block % Line = 0
  /\ LeftStart % Line = 0 /\ RightStart % Line = 0
  /\ LeftStart \in Nat /\ RightStart \in Nat
  /\ LeftStart = Ring + 8 /\ RightStart = 2 * Ring + 16
BY WavAssumption, FracAssumption DEF Line, LeftStart, RightStart

\* Blocks are aligned and fill the ring.
LEMMA BlockForm ==
  ASSUME NEW o \in Blocks
  PROVE  /\ o \in Nat /\ o + Block <= Ring /\ o % Line = 0
         /\ o # 0 => o >= Block
         /\ (o + Block) % Ring = IF o + Block = Ring THEN 0 ELSE o + Block
         /\ (o + Block) % Ring \in Blocks
<1> USE Sizes DEF Line
<1>1. o \in Nat /\ o + Block <= Ring /\ o % Block = 0  BY DEF Blocks
<1>2. PICK j \in Int : o = Block * j
  <2>1. o = Block * (o \div Block) + (o % Block) /\ o \div Block \in Int  BY <1>1
  <2> QED BY <1>1, <2>1
<1>3. PICK b \in Int : Block = 4 * b
  <2>1. Block = 4 * (Block \div 4)  BY Sizes
  <2> QED BY <2>1
<1>4. o % 4 = 0
  <2>1. o = 4 * (b * j) /\ b * j \in Int  BY <1>2, <1>3
  <2> DEFINE n == b * j
  <2>2. o = 4 * n /\ n \in Int  BY <2>1
  <2> HIDE DEF n
  <2> QED BY <2>2
<1>5. o # 0 => o >= Block
  <2>1. j >= 0  BY <1>1, <1>2
  <2>2. j = 0 \/ j >= 1  BY <2>1
  <2>3. ASSUME j >= 1 PROVE o >= Block  BY <1>2, <2>3
  <2>4. j = 0 => o = 0  BY <1>2
  <2> QED BY <2>2, <2>3, <2>4
<1>6. PICK m \in Int : Ring = Block * m
  <2>1. Ring = Block * (Ring \div Block) + (Ring % Block) /\ Ring \div Block \in Int  BY Sizes
  <2> QED BY <2>1, WavAssumption
<1>7. (o + Block) % Block = 0
  <2>1. o + Block = (j + 1) * Block /\ j + 1 \in Nat  BY <1>1, <1>2
  <2> DEFINE n == j + 1
  <2>2. \A s \in Nat, u \in Nat \ {0} : (s * u) % u = 0  OBVIOUS
  <2>3. (n * Block) % Block = 0  BY <2>1, <2>2
  <2> QED BY <2>1, <2>3
<1>8. o + Block < Ring => o + 2 * Block <= Ring
  <2>1. o + Block = Block * (j + 1)  BY <1>2
  <2>2. ASSUME Block * (j + 1) < Block * m PROVE j + 2 <= m
    <3>1. ASSUME m <= j + 1 PROVE FALSE
      <4>1. Block * m <= Block * (j + 1)  BY <3>1
      <4> QED BY <2>2, <4>1
    <3> QED BY <3>1
  <2>3. ASSUME j + 2 <= m PROVE Block * (j + 2) <= Block * m  BY <2>3
  <2>4. Block * (j + 2) = o + 2 * Block  BY <1>2
  <2> QED BY <1>6, <2>1, <2>2, <2>3, <2>4
<1>9. (o + Block) % Ring = IF o + Block = Ring THEN 0 ELSE o + Block  BY <1>1
<1>10. (o + Block) % Ring \in Blocks
  <2>1. CASE o + Block = Ring
    <3>1. 0 % Block = 0  OBVIOUS
    <3> QED BY <1>9, <2>1, <3>1 DEF Blocks
  <2>2. CASE o + Block # Ring
    BY <1>1, <1>7, <1>8, <1>9, <2>2 DEF Blocks
  <2> QED BY <2>1, <2>2
<1> QED BY <1>1, <1>4, <1>5, <1>9, <1>10

\* A distance on the ring.
LEMMA Around ==
  ASSUME NEW x \in Int, - Ring < x, x < Ring
  PROVE  x % Ring = IF x < 0 THEN x + Ring ELSE x
BY Sizes

-----------------------------------------------------------------------------
(* A voice.                                                                *)

\* The lines that a voice may read are in memory.
LEMMA LinesInside ==
  ASSUME NEW s \in {LeftStart, RightStart}, NEW a \in s .. s + Ring
  PROVE  /\ LineOf(a) \in Nat /\ Line * LineOf(a) <= a /\ a < Line * LineOf(a) + Line
         /\ \A i \in 0 .. Line - 1 : Line * LineOf(a) + i \in Addresses
         /\ LineOf(a) % 2 \in {0, 1}
         /\ a = Line * LineOf(a) + (a % Line)
<1> USE Sizes DEF Line
<1>1. a \in Nat /\ s \in {LeftStart, RightStart}  OBVIOUS
<1>2. LineOf(a) = a \div 4 /\ LineOf(a) \in Nat  BY <1>1 DEF LineOf
<1>3. Line * LineOf(a) <= a /\ a < Line * LineOf(a) + Line /\ a = Line * LineOf(a) + (a % Line)
  BY <1>1, <1>2
<1>4. a <= RightStart + Ring  BY <1>1
<1>5. \A i \in 0 .. Line - 1 : Line * LineOf(a) + i \in Addresses
  BY <1>1, <1>2, <1>3, <1>4 DEF Addresses
<1>6. LineOf(a) % 2 \in {0, 1}  BY <1>2
<1> QED BY <1>2, <1>3, <1>5, <1>6

\* A filled cache has the line, and the other line as it was.
LEMMA FilledHolds ==
  ASSUME NEW s \in {LeftStart, RightStart}, NEW a \in s .. s + Ring,
         NEW m \in Memory, NEW c \in Cache
  PROVE  /\ Filled(c, a, m) \in Cache
         /\ Held(Filled(c, a, m), a, m)
         /\ \A b \in s .. s + Ring : LineOf(b) % 2 # LineOf(a) % 2 /\ Held(c, b, m)
              => Held(Filled(c, a, m), b, m)
<1> DEFINE F == Filled(c, a, m)
<1> USE DEF Line
<1>1. \A i \in CacheIndices : i \div Line = LineOf(a) % 2
        => m[Line * LineOf(a) + (i % Line)] \in Sample
  <2> SUFFICES ASSUME NEW i \in CacheIndices
               PROVE  Line * LineOf(a) + (i % Line) \in Addresses
    BY DEF Memory
  <2>1. i % Line \in 0 .. Line - 1  BY DEF CacheIndices
  <2> QED BY <2>1, LinesInside
<1>2. F \in Cache  BY <1>1 DEF Filled, Cache
<1>3. \A i \in CacheIndices : F[i] = IF i \div Line = LineOf(a) % 2
                                     THEN m[Line * LineOf(a) + (i % Line)] ELSE c[i]
  BY DEF Filled
<1>4. ASSUME NEW b \in s .. s + Ring, NEW i \in 0 .. Line - 1
      PROVE  /\ Line * (LineOf(b) % 2) + i \in CacheIndices
             /\ (Line * (LineOf(b) % 2) + i) \div Line = LineOf(b) % 2
             /\ (Line * (LineOf(b) % 2) + i) % Line = i
  <2>1. LineOf(b) % 2 \in {0, 1}  BY LinesInside
  <2>2. PICK h \in {0, 1} : h = LineOf(b) % 2  BY <2>1
  <2>3. /\ Line * h + i \in CacheIndices
        /\ (Line * h + i) \div Line = h /\ (Line * h + i) % Line = i
    BY DEF CacheIndices
  <2> QED BY <2>2, <2>3
<1>5. Held(F, a, m)  BY <1>3, <1>4 DEF Held
<1>6. ASSUME NEW b \in s .. s + Ring, LineOf(b) % 2 # LineOf(a) % 2, Held(c, b, m)
      PROVE  Held(F, b, m)
  BY <1>3, <1>4, <1>6 DEF Held
<1> QED BY <1>2, <1>5, <1>6

\* A word of a line that is held.
LEMMA WordHeld ==
  ASSUME NEW s \in {LeftStart, RightStart}, NEW a \in s .. s + Ring,
         NEW m \in Memory, NEW c \in Cache, Held(c, a, m)
  PROVE  c[a % (2 * Line)] = m[a]
<1> USE Sizes DEF Line
<1>1. LineOf(a) \in Nat /\ a = Line * LineOf(a) + (a % Line) /\ a \in Nat  BY LinesInside
<1>2. a % (2 * Line) = Line * (LineOf(a) % 2) + (a % Line)
  <2>1. PICK n \in Nat, r \in 0 .. 3 : n = LineOf(a) /\ r = a % 4 /\ a = 4 * n + r  BY <1>1
  <2>2. PICK k \in Nat, h \in {0, 1} : n = 2 * k + h /\ h = n % 2
    <3>1. n = 2 * (n \div 2) + (n % 2) /\ n \div 2 \in Nat /\ n % 2 \in {0, 1}  OBVIOUS
    <3> QED BY <3>1
  <2>3. a = 8 * k + (4 * h + r) /\ 4 * h + r \in 0 .. 7  BY <2>1, <2>2
  <2>4. a % 8 = 4 * h + r  BY <2>3
  <2>5. 2 * Line = 8  OBVIOUS
  <2> QED BY <2>1, <2>2, <2>4, <2>5
<1>3. a % Line \in 0 .. Line - 1  BY <1>1
<1> QED BY <1>1, <1>2, <1>3 DEF Held

\* Neighbours: the line changes behind its last word, and the half with it.
LEMMA NextLine ==
  ASSUME NEW a \in Nat, NEW b \in {a + 1, a + 2}
  PROVE  /\ LineOf(a + 1) # LineOf(a) <=> a % Line = Line - 1
         /\ a % Line = Line - 1 => LineOf(b) = LineOf(a) + 1 /\ LineOf(b) % 2 # LineOf(a) % 2
         /\ LineOf(b) \in {LineOf(a), LineOf(a) + 1}
BY DEF LineOf, Line

\* Division.
LEMMA Quotient ==
  ASSUME NEW n \in Int, NEW q \in Nat \ {0}
  PROVE  n % q \in 0 .. q - 1 /\ n = q * (n \div q) + (n % q) /\ n \div q \in Int
OBVIOUS

\* How far the play address goes in a sample.
LEMMA StepForm ==
  ASSUME NEW s \in {LeftStart, RightStart}, NEW v \in VoiceType, Inside(v, s)
  PROVE  /\ NextFrac(v) \in 0 .. Frac - 1
         /\ \E d \in 0 .. 2 :
              /\ d = (v.frac + v.freq) \div Frac
              /\ NextPlay(v) = IF v.play + d > s + Ring - 1 THEN v.play + d - Ring ELSE v.play + d
         /\ NextPlay(v) \in s .. s + Ring - 1
<1> USE Sizes DEF Line
<1>1. v.frac \in 0 .. Frac - 1 /\ v.freq \in Speed /\ v.play \in s .. s + Ring - 1
      /\ v.start = s /\ v.stop = s + Ring - 1 /\ s \in Nat
  BY DEF VoiceType, Inside, Tuned
<1>2. PICK n \in 0 .. 3 * Frac - 2 : n = v.frac + v.freq  BY <1>1 DEF Speed
<1>3. n % Frac \in 0 .. Frac - 1 /\ n = Frac * (n \div Frac) + (n % Frac) /\ n \div Frac \in Int
  <2>1. n \in Int /\ Frac \in Nat \ {0}  BY <1>2
  <2> QED BY <2>1, Quotient
<1>4. PICK d \in Int : d = n \div Frac  BY <1>3
<1>5. d \in 0 .. 2
  <2>1. Frac * d >= 0 - (Frac - 1) /\ Frac * d <= 3 * Frac - 2  BY <1>3, <1>4
  <2>2. ASSUME d <= -1 PROVE FALSE
    <3>1. Frac * d <= 0 - Frac  BY <2>2
    <3> QED BY <2>1, <3>1
  <2>3. ASSUME d >= 3 PROVE FALSE
    <3>1. Frac * d >= 3 * Frac  BY <2>3
    <3> QED BY <2>1, <3>1
  <2> QED BY <2>2, <2>3
<1>6. NextFrac(v) = n % Frac  BY <1>2 DEF NextFrac
<1>7. NextPlay(v) = IF v.play + d > s + Ring - 1 THEN v.play + d - Ring ELSE v.play + d
  <2>1. NextPlay(v) = IF v.play + d > v.stop THEN v.start + ((v.play + d - v.stop - 1) % 2)
                      ELSE v.play + d
    <3>1. (v.frac + v.freq) \div Frac = d  BY <1>2, <1>4
    <3>2. v.play + ((v.frac + v.freq) \div Frac) = v.play + d  BY <3>1
    <3> DEFINE inc == v.play + ((v.frac + v.freq) \div Frac)
    <3>3. NextPlay(v) = IF inc > v.stop THEN v.start + ((inc - v.stop - 1) % 2) ELSE inc
      BY DEF NextPlay
    <3>4. inc = v.play + d  BY <3>2
    <3> HIDE DEF inc
    <3> QED BY <1>1, <3>3, <3>4
  <2>2. CASE v.play + d > v.stop
    <3>1. v.play + d - v.stop - 1 \in {0, 1}  BY <1>1, <1>5, <2>2
    <3>2. (v.play + d - v.stop - 1) % 2 = v.play + d - v.stop - 1  BY <3>1
    <3> QED BY <1>1, <1>5, <2>1, <2>2, <3>2
  <2>3. CASE ~(v.play + d > v.stop)  BY <1>1, <1>5, <2>1, <2>3
  <2> QED BY <2>2, <2>3
<1>8. NextPlay(v) \in s .. s + Ring - 1  BY <1>1, <1>5, <1>7
<1> QED BY <1>2, <1>3, <1>4, <1>5, <1>6, <1>7, <1>8

\* A reading keeps the types.
LEMMA ReadTyped ==
  ASSUME NEW s \in {LeftStart, RightStart}, NEW v \in VoiceType, Inside(v, s), NEW m \in Memory
  PROVE  /\ WaveRead(v, m).cache \in Cache /\ WaveRead(v, m).half \in BOOLEAN
         /\ WaveRead(v, m).words \in Sample \X Sample
<1> USE Sizes DEF Line
<1>1. v.play \in s .. s + Ring /\ v.play + 1 \in s .. s + Ring /\ v.cache \in Cache
      /\ v.half \in BOOLEAN /\ v.full \in BOOLEAN
  BY DEF Inside, Tuned, VoiceType
<1> DEFINE first == IF v.full /\ ~v.half THEN Filled(v.cache, v.play, m) ELSE v.cache
           ahead == LineOf(v.play + 1) # LineOf(v.play)
           had == v.half /\ ~v.full
           second == IF ahead /\ ~had THEN Filled(first, v.play + 1, m) ELSE first
<1>2. first \in Cache  BY <1>1, FilledHolds
<1>3. second \in Cache
  <2> HIDE DEF first
  <2>1. Filled(first, v.play + 1, m) \in Cache
    <3>1. PICK c \in Cache : c = first  BY <1>2
    <3> QED BY <1>1, <3>1, FilledHolds
  <2> QED BY <1>2, <2>1
<1>4. WaveRead(v, m).cache = second /\ WaveRead(v, m).half = (had \/ ahead)
      /\ WaveRead(v, m).words = <<first[v.play % (2 * Line)], second[(v.play + 1) % (2 * Line)]>>
  BY DEF WaveRead
<1>5. v.play % (2 * Line) \in CacheIndices /\ (v.play + 1) % (2 * Line) \in CacheIndices
  BY <1>1 DEF CacheIndices
<1> HIDE DEF first, second
<1>6. first[v.play % (2 * Line)] \in Sample /\ second[(v.play + 1) % (2 * Line)] \in Sample
  BY <1>2, <1>3, <1>5 DEF Cache
<1> QED BY <1>1, <1>3, <1>4, <1>6

\* A reading finds what memory holds, and the cache holds the lines of it.
LEMMA ReadsMemory ==
  ASSUME NEW s \in {LeftStart, RightStart}, NEW v \in VoiceType, Inside(v, s), NEW m \in Memory,
         NEW o \in Int, CacheOK(v, m, o)
  PROVE  /\ WaveRead(v, m).words = <<m[v.play], m[v.play + 1]>>
         /\ Held(WaveRead(v, m).cache, v.play, m)
         /\ WaveRead(v, m).half <=> v.play % Line = Line - 1
         /\ WaveRead(v, m).half => Held(WaveRead(v, m).cache, v.play + 1, m)
<1> USE Sizes DEF Line
<1>1. v.play \in s .. s + Ring /\ v.play + 1 \in s .. s + Ring /\ v.cache \in Cache
      /\ v.half \in BOOLEAN /\ v.full \in BOOLEAN /\ v.play \in Nat
  BY DEF Inside, Tuned, VoiceType
<1> DEFINE first == IF v.full /\ ~v.half THEN Filled(v.cache, v.play, m) ELSE v.cache
           ahead == LineOf(v.play + 1) # LineOf(v.play)
           had == v.half /\ ~v.full
           second == IF ahead /\ ~had THEN Filled(first, v.play + 1, m) ELSE first
<1>2. first \in Cache /\ Held(first, v.play, m)
  <2>1. CASE v.full /\ ~v.half  BY <1>1, <2>1, FilledHolds
  <2>2. CASE ~(v.full /\ ~v.half)  BY <1>1, <2>2 DEF CacheOK
  <2> QED BY <2>1, <2>2
<1>3. /\ ahead <=> v.play % Line = Line - 1
      /\ ahead => LineOf(v.play) % 2 # LineOf(v.play + 1) % 2
  BY <1>1, NextLine
<1>4. had => ahead /\ first = v.cache /\ Held(v.cache, v.play + 1, m)
  BY <1>1, <1>3 DEF CacheOK
<1>5. PICK c \in Cache : c = first /\ Held(c, v.play, m)  BY <1>2
<1>6. WaveRead(v, m).cache = second /\ WaveRead(v, m).half = (had \/ ahead)
      /\ WaveRead(v, m).words = <<first[v.play % (2 * Line)], second[(v.play + 1) % (2 * Line)]>>
  BY DEF WaveRead
<1>7. second \in Cache /\ Held(second, v.play, m) /\ (ahead => Held(second, v.play + 1, m))
  <2>1. CASE ahead /\ ~had
    <3>1. second = Filled(c, v.play + 1, m)  BY <1>5, <2>1
    <3>2. Filled(c, v.play + 1, m) \in Cache /\ Held(Filled(c, v.play + 1, m), v.play + 1, m)
          /\ Held(Filled(c, v.play + 1, m), v.play, m)
      BY <1>1, <1>3, <1>5, <2>1, FilledHolds
    <3> QED BY <3>1, <3>2
  <2>2. CASE ~(ahead /\ ~had)
    <3>1. second = first  BY <2>2
    <3> QED BY <1>2, <1>4, <2>2, <3>1
  <2> QED BY <2>1, <2>2
<1>8. PICK e \in Cache : e = second /\ Held(e, v.play, m) /\ (ahead => Held(e, v.play + 1, m))
  BY <1>7
<1> HIDE DEF first, second
<1>9. c[v.play % (2 * Line)] = m[v.play]  BY <1>1, <1>5, WordHeld
<1>10. e[(v.play + 1) % (2 * Line)] = m[v.play + 1]
  <2>1. Held(e, v.play + 1, m)
    <3>1. CASE ahead  BY <1>8, <3>1
    <3>2. CASE ~ahead
      <4>1. LineOf(v.play + 1) = LineOf(v.play)  BY <3>2
      <4> QED BY <1>8, <4>1 DEF Held
    <3> QED BY <3>1, <3>2
  <2> QED BY <1>1, <2>1, WordHeld
<1>11. WaveRead(v, m).words = <<m[v.play], m[v.play + 1]>>  BY <1>5, <1>6, <1>8, <1>9, <1>10
<1>12. WaveRead(v, m).half <=> ahead  BY <1>4, <1>6
<1> QED BY <1>3, <1>6, <1>8, <1>11, <1>12

\* A voice whose place and cache change.
Moved(v, p, f, c, u, h) ==
  [v EXCEPT !.play = p, !.frac = f, !.cache = c, !.full = u, !.half = h]

\* The place where the address goes on is outside the line that was left.
LEMMA OnwardForm ==
  ASSUME NEW s \in {LeftStart, RightStart}, NEW v \in VoiceType, Inside(v, s),
         NEW r, r.cache \in Cache, r.half \in BOOLEAN
  PROVE  LET d    == (v.frac + v.freq) \div Frac
             ends == v.play + d > v.stop
         IN \E u \in BOOLEAN, h \in BOOLEAN :
              /\ u = (ends \/ LineOf(v.play + d) # LineOf(v.play))
              /\ h = (r.half /\ ~ends)
              /\ Onward(v, r) = Moved(v, NextPlay(v), NextFrac(v), r.cache, u, h)
<1> USE Sizes
<1>1. PICK d \in 0 .. 2 : d = (v.frac + v.freq) \div Frac  BY StepForm
<1>2. v.play \in Nat /\ v.stop \in Nat /\ v.start \in Nat  BY DEF Inside, Tuned
<1> DEFINE ends == v.play + d > v.stop
<1>3. PICK u \in BOOLEAN : u = (ends \/ LineOf(v.play + d) # LineOf(v.play))  OBVIOUS
<1>4. PICK h \in BOOLEAN : h = (r.half /\ ~ends)  OBVIOUS
<1> DEFINE i == v.play + ((v.frac + v.freq) \div Frac)
<1>6. i = v.play + d  BY <1>1
<1>7. Onward(v, r) =
        [v EXCEPT !.play  = IF i - v.stop - 1 >= 0 THEN v.start + ((i - v.stop - 1) % 2) ELSE i,
                  !.frac  = NextFrac(v), !.cache = r.cache,
                  !.full  = (i - v.stop - 1 >= 0) \/ LineOf(i) # LineOf(v.play),
                  !.half  = r.half /\ ~(i - v.stop - 1 >= 0)]
  BY DEF Onward, HalfAfter, NextFrac
<1>8. NextPlay(v) = IF i > v.stop THEN v.start + ((i - v.stop - 1) % 2) ELSE i  BY DEF NextPlay
<1> HIDE DEF i
<1>5. (i - v.stop - 1 >= 0) = ends  BY <1>2, <1>6
<1> HIDE DEF ends
<1>9. (IF i - v.stop - 1 >= 0 THEN v.start + ((i - v.stop - 1) % 2) ELSE i) = NextPlay(v)
  BY <1>2, <1>6, <1>8
<1>10. ((i - v.stop - 1 >= 0) \/ LineOf(i) # LineOf(v.play)) = u  BY <1>3, <1>5, <1>6, Zenon
<1>11. (r.half /\ ~(i - v.stop - 1 >= 0)) = h  BY <1>4, <1>5, Zenon
<1>12. Onward(v, r) = Moved(v, NextPlay(v), NextFrac(v), r.cache, u, h)
  BY <1>7, <1>9, <1>10, <1>11, Zenon DEF Moved
<1> QED BY <1>1, <1>3, <1>4, <1>12 DEF ends

\* Where a voice goes on, its cache is good.
LEMMA OnwardKeeps ==
  ASSUME NEW s \in {LeftStart, RightStart}, NEW v \in VoiceType, Inside(v, s), NEW m \in Memory,
         NEW o \in Int, CacheOK(v, m, o), Gap(v, o) <= Ring - 3
  PROVE  CacheOK(Onward(v, WaveRead(v, m)), m, o)
<1> DEFINE r == WaveRead(v, m)
<1> USE Sizes
<1>1. r.cache \in Cache /\ r.half \in BOOLEAN  BY ReadTyped
<1>2. /\ Held(r.cache, v.play, m) /\ (r.half <=> v.play % Line = Line - 1)
      /\ r.half => Held(r.cache, v.play + 1, m)
  BY ReadsMemory
<1> HIDE DEF r
<1>3. PICK d \in 0 .. 2 :
        /\ d = (v.frac + v.freq) \div Frac
        /\ NextPlay(v) = IF v.play + d > s + Ring - 1 THEN v.play + d - Ring ELSE v.play + d
  BY StepForm
<1>4. v.play \in Nat /\ v.stop = s + Ring - 1 /\ v.start = s  BY DEF Inside, Tuned
<1> DEFINE ends == v.play + d > v.stop
<1>5. PICK u \in BOOLEAN, h \in BOOLEAN :
        /\ u = (ends \/ LineOf(v.play + d) # LineOf(v.play))
        /\ h = (r.half /\ ~ends)
        /\ Onward(v, r) = Moved(v, NextPlay(v), NextFrac(v), r.cache, u, h)
  BY <1>1, <1>3, OnwardForm
<1>6. NextPlay(v) \in Int /\ NextFrac(v) \in 0 .. Frac - 1  BY StepForm
<1>7. PICK w : w = Onward(v, r)  OBVIOUS
<1>8. w.play = NextPlay(v) /\ w.cache = r.cache /\ w.full = u /\ w.half = h /\ w.start = v.start
  <2>1. PICK p \in Int, f \in 0 .. Frac - 1, c \in Cache :
          p = NextPlay(v) /\ f = NextFrac(v) /\ c = r.cache
    BY <1>1, <1>6
  <2>2. w = Moved(v, p, f, c, u, h)  BY <1>5, <1>7, <2>1, Zenon
  <2>3. w.play = p /\ w.cache = c /\ w.full = u /\ w.half = h /\ w.start = v.start
    BY <2>2 DEF Moved, VoiceType
  <2> QED BY <2>1, <2>3
<1>9. ASSUME ~ends PROVE w.play = v.play + d  BY <1>3, <1>4, <1>8, <1>9
<1>10. ASSUME w.full => w.half PROVE Held(w.cache, w.play, m)
  <2>1. ~ends  BY <1>5, <1>8, <1>10
  <2>2. CASE ~w.full
    <3>1. LineOf(w.play) = LineOf(v.play)  BY <1>5, <1>8, <1>9, <2>1, <2>2
    <3> QED BY <1>2, <1>8, <3>1 DEF Held
  <2>3. CASE w.full
    <3>1. w.half /\ r.half /\ LineOf(v.play + d) # LineOf(v.play)
      BY <1>5, <1>8, <1>10, <2>1, <2>3
    <3>2. v.play % Line = Line - 1 /\ Held(r.cache, v.play + 1, m)  BY <1>2, <3>1
    <3>3. d \in {1, 2}
      <4>1. d = 0 => v.play + d = v.play  BY <1>4
      <4> QED BY <3>1, <4>1
    <3>4. LineOf(v.play + d) = LineOf(v.play + 1)
      BY <1>4, <3>2, <3>3, NextLine
    <3> QED BY <1>8, <1>9, <2>1, <3>2, <3>4 DEF Held
  <2> QED BY <2>2, <2>3
<1>11. ASSUME w.half, ~w.full
       PROVE  w.play % Line = Line - 1 /\ Held(w.cache, w.play + 1, m) /\ Gap(w, o) <= Ring - 3
  <2>1. ~ends /\ r.half /\ LineOf(v.play + d) = LineOf(v.play)  BY <1>5, <1>8, <1>11
  <2>2. v.play % Line = Line - 1 /\ Held(r.cache, v.play + 1, m)  BY <1>2, <2>1
  <2>3. d = 0
    <3>1. ASSUME d \in {1, 2} PROVE LineOf(v.play + d) = LineOf(v.play) + 1
      BY <1>4, <2>2, <3>1, NextLine
    <3>2. LineOf(v.play) \in Int  BY <1>4 DEF LineOf, Line
    <3> QED BY <2>1, <3>1, <3>2
  <2>4. w.play = v.play  BY <1>4, <1>9, <2>1, <2>3
  <2>5. Gap(w, o) = Gap(v, o)  BY <1>8, <2>4 DEF Gap, Offset
  <2> QED BY <1>8, <2>2, <2>4, <2>5
<1> QED BY <1>7, <1>10, <1>11 DEF CacheOK, r

\* What a sample makes of a voice.
LEMMA VoiceGoesOn ==
  ASSUME NEW s \in {LeftStart, RightStart}, NEW v \in VoiceType, PlaceInv(v, s),
         NEW m \in Memory, NEW n \in Int, NEW y \in BOOLEAN, NEW w, w = Voice(v, y, m, n),
         ~v.keyoff, ~KeyTaken(v, y), v.busy
  PROVE  /\ w = Onward(v, WaveRead(v, m)) /\ w \in VoiceType /\ PlaceInv(w, s)
         /\ w.busy /\ w.keyon = v.keyon /\ ~w.keyoff /\ w.freq = v.freq /\ w.start = s
         /\ w.play = NextPlay(v) /\ w.frac = NextFrac(v) /\ w.cache = WaveRead(v, m).cache
<1> DEFINE r == WaveRead(v, m)
<1>1. Inside(v, s)  BY DEF PlaceInv
<1>2. w = Onward(v, r)  BY DEF Voice
<1>3. r.cache \in Cache /\ r.half \in BOOLEAN  BY <1>1, ReadTyped
<1> HIDE DEF r
<1>4. PICK u \in BOOLEAN, h \in BOOLEAN :
        Onward(v, r) = Moved(v, NextPlay(v), NextFrac(v), r.cache, u, h)
  BY <1>1, <1>3, OnwardForm
<1>5. NextFrac(v) \in 0 .. Frac - 1 /\ NextPlay(v) \in s .. s + Ring - 1  BY <1>1, StepForm
<1>6. NextPlay(v) \in Int  BY <1>5, Sizes
<1>7. PICK p \in Int, f \in 0 .. Frac - 1, c \in Cache :
        p = NextPlay(v) /\ f = NextFrac(v) /\ c = r.cache
  BY <1>3, <1>5, <1>6
<1>8. w = Moved(v, p, f, c, u, h)  BY <1>2, <1>4, <1>7, Zenon
<1>9. w \in VoiceType  BY <1>8 DEF Moved, VoiceType
<1>10. /\ w.play = p /\ w.frac = f /\ w.cache = c /\ w.start = v.start /\ w.stop = v.stop
       /\ w.freq = v.freq
  BY <1>8 DEF Moved, VoiceType
<1>11. w.busy = v.busy /\ w.keyon = v.keyon /\ w.keyoff = v.keyoff
  BY <1>8 DEF Moved, VoiceType
<1>12. PlaceInv(w, s)  BY <1>1, <1>5, <1>7, <1>10 DEF PlaceInv, Inside, Tuned
<1> QED BY <1>1, <1>2, <1>7, <1>9, <1>10, <1>11, <1>12 DEF r, Inside, Tuned

\* A key that is taken: the voice begins at the start of its ring.
LEMMA VoiceKeyed ==
  ASSUME NEW s \in {LeftStart, RightStart}, NEW v \in VoiceType, PlaceInv(v, s),
         NEW m \in Memory, NEW n \in Int, NEW y \in BOOLEAN, NEW w, w = Voice(v, y, m, n),
         ~v.keyoff, KeyTaken(v, y)
  PROVE  /\ w \in VoiceType /\ PlaceInv(w, s)
         /\ w.busy /\ ~w.keyon /\ ~w.keyoff /\ w.freq = v.freq /\ w.start = s
         /\ w.play = s /\ w.frac = 0 /\ w.full /\ ~w.half
         /\ v.busy => w.cache = WaveRead(v, m).cache
         /\ ~v.busy => w.cache = v.cache
<1> USE Sizes
<1>1. PICK c : c = IF v.busy THEN WaveRead(v, m).cache ELSE v.cache  OBVIOUS
<1>2. c \in Cache  BY <1>1, ReadTyped DEF PlaceInv, VoiceType
<1>3. w = KeyedOn(v, c)  BY <1>1 DEF Voice
<1>4. Tuned(v, s)  BY DEF PlaceInv, KeyTaken
<1>5. w = [v EXCEPT !.busy = TRUE, !.keyon = FALSE, !.play = v.start, !.frac = 0,
                    !.cache = c, !.full = TRUE, !.half = FALSE]
  BY <1>3 DEF KeyedOn
<1>6. w \in VoiceType
  <2>1. v.start \in Int /\ 0 \in 0 .. Frac - 1  BY DEF VoiceType
  <2> QED BY <1>2, <1>5, <2>1 DEF VoiceType
<1>7. /\ w.busy /\ ~w.keyon /\ w.keyoff = v.keyoff /\ w.full /\ ~w.half
  BY <1>5 DEF VoiceType
<1>8. /\ w.play = v.start /\ w.frac = 0 /\ w.cache = c /\ w.start = v.start /\ w.stop = v.stop
      /\ w.freq = v.freq
  BY <1>5 DEF VoiceType
<1>9. PlaceInv(w, s)
  <2>1. s \in s .. s + Ring - 1  BY DEF Line
  <2> QED BY <1>4, <1>8, <2>1 DEF PlaceInv, Inside, Tuned
<1> QED BY <1>1, <1>4, <1>6, <1>7, <1>8, <1>9 DEF Tuned

\* A voice that is stopped, or does not play, rests.
LEMMA VoiceRests ==
  ASSUME NEW s \in {LeftStart, RightStart}, NEW v \in VoiceType, PlaceInv(v, s),
         NEW m \in Memory, NEW n \in Int, NEW y \in BOOLEAN, NEW w, w = Voice(v, y, m, n),
         v.keyoff \/ (~KeyTaken(v, y) /\ ~v.busy)
  PROVE  /\ w \in VoiceType /\ PlaceInv(w, s)
         /\ ~w.busy /\ w.keyon = v.keyon /\ ~w.keyoff /\ w.freq = v.freq
         /\ v.busy => w.cache = WaveRead(v, m).cache
         /\ ~v.busy => w.cache = v.cache
<1>1. PICK c : c = IF v.busy THEN WaveRead(v, m).cache ELSE v.cache  OBVIOUS
<1>2. c \in Cache  BY <1>1, ReadTyped DEF PlaceInv, VoiceType
<1>3. w = Rested(v, c, n)  BY <1>1 DEF Voice
<1>4. w = [v EXCEPT !.busy = FALSE, !.keyoff = FALSE, !.play = n,
                    !.cache = c, !.full = FALSE, !.half = FALSE]
  BY <1>3 DEF Rested
<1>5. w \in VoiceType  BY <1>2, <1>4 DEF VoiceType
<1>6. /\ ~w.busy /\ w.keyon = v.keyon /\ ~w.keyoff  BY <1>4 DEF VoiceType
<1>7. /\ w.cache = c /\ w.start = v.start /\ w.stop = v.stop /\ w.freq = v.freq
  BY <1>4 DEF VoiceType
<1>8. PlaceInv(w, s)  BY <1>6, <1>7 DEF PlaceInv, Tuned
<1> QED BY <1>1, <1>5, <1>6, <1>7, <1>8

\* Where there is nothing of this file, nothing of it is read.
LEMMA ReadsOlder ==
  ASSUME NEW s \in {LeftStart, RightStart}, NEW v \in VoiceType, Inside(v, s),
         v.cache = NoneRead
  PROVE  LET r == WaveRead(v, NoneStored) IN
         r.cache = NoneRead /\ r.words = NoneHeard
<1> USE Sizes DEF Line, NoneRead, NoneStored
<1> DEFINE m == [a \in Addresses |-> Older]
           none == [i \in CacheIndices |-> Older]
<1>1. v.play \in s .. s + Ring /\ v.play + 1 \in s .. s + Ring /\ v.play \in Nat
  BY DEF Inside, Tuned, VoiceType
<1>2. ASSUME NEW a \in s .. s + Ring PROVE Filled(none, a, m) = none
  <2> SUFFICES ASSUME NEW i \in CacheIndices PROVE m[Line * LineOf(a) + (i % Line)] = Older
    BY DEF Filled
  <2>1. i % Line \in 0 .. Line - 1  BY DEF CacheIndices
  <2> QED BY <2>1, LinesInside
<1> DEFINE first == IF v.full /\ ~v.half THEN Filled(v.cache, v.play, m) ELSE v.cache
           ahead == LineOf(v.play + 1) # LineOf(v.play)
           had == v.half /\ ~v.full
           second == IF ahead /\ ~had THEN Filled(first, v.play + 1, m) ELSE first
<1>3. first = none  BY <1>1, <1>2
<1>4. second = none  BY <1>1, <1>2, <1>3
<1>5. WaveRead(v, m).cache = second
      /\ WaveRead(v, m).words = <<first[v.play % (2 * Line)], second[(v.play + 1) % (2 * Line)]>>
  BY DEF WaveRead
<1>6. v.play % (2 * Line) \in CacheIndices /\ (v.play + 1) % (2 * Line) \in CacheIndices
  BY <1>1 DEF CacheIndices
<1>7. WaveRead(v, m).words = <<none[v.play % (2 * Line)], none[(v.play + 1) % (2 * Line)]>>
  BY <1>3, <1>4, <1>5
<1>8. WaveRead(v, m).words = <<Older, Older>>  BY <1>6, <1>7
<1> QED BY <1>4, <1>5, <1>8 DEF NoneHeard

-----------------------------------------------------------------------------
(* What is filled and what is read.                                        *)

\* How far a voice is ahead of the block.
LEMMA GapForm ==
  ASSUME NEW s \in {LeftStart, RightStart}, NEW v, Inside(v, s), NEW o \in Blocks
  PROVE  /\ Gap(v, o) \in 0 .. Ring - 1
         /\ v.play \in Nat /\ v.start = s
         /\ Gap(v, o) = IF v.play - s < o THEN v.play - s - o + Ring ELSE v.play - s - o
BY BlockForm, Sizes DEF Gap, Offset, Inside, Tuned, Line

\* A sample further on.
LEMMA GapNext ==
  ASSUME NEW s \in {LeftStart, RightStart}, NEW v \in VoiceType, Inside(v, s), NEW o \in Blocks,
         Gap(v, o) <= Ring - 3, NEW w, Offset(w) = NextPlay(v) - s
  PROVE  Gap(w, o) >= Gap(v, o)
<1>1. PICK d \in 0 .. 2 :
        NextPlay(v) = IF v.play + d > s + Ring - 1 THEN v.play + d - Ring ELSE v.play + d
  BY StepForm
<1>2. v.play \in s .. s + Ring - 1  BY DEF Inside, Tuned
<1>3. o \in Nat /\ o + Block <= Ring  BY BlockForm
<1>4. /\ Gap(v, o) = IF v.play - s < o THEN v.play - s - o + Ring ELSE v.play - s - o
      /\ Gap(w, o) = IF NextPlay(v) - s < o THEN NextPlay(v) - s - o + Ring ELSE NextPlay(v) - s - o
  BY GapForm DEF Gap
<1> QED BY <1>1, <1>2, <1>3, <1>4, Sizes DEF Line

\* A block further on.
LEMMA GapFilled ==
  ASSUME NEW s \in {LeftStart, RightStart}, NEW v, Inside(v, s), NEW o \in Blocks,
         Gap(v, o) >= Block
  PROVE  Gap(v, (o + Block) % Ring) = Gap(v, o) - Block
<1>1. PICK q \in Blocks : q = (o + Block) % Ring /\ q = IF o + Block = Ring THEN 0 ELSE o + Block
  BY BlockForm
<1>2. o \in Nat /\ o + Block <= Ring  BY BlockForm
<1>3. v.play \in s .. s + Ring - 1  BY DEF Inside, Tuned
<1>4. /\ Gap(v, o) = IF v.play - s < o THEN v.play - s - o + Ring ELSE v.play - s - o
      /\ Gap(v, q) = IF v.play - s < q THEN v.play - s - q + Ring ELSE v.play - s - q
  BY GapForm
<1> QED BY <1>1, <1>2, <1>3, <1>4, Sizes DEF Line

\* The words that change while the block at o is filled.
Touched(o) ==
  {LeftStart + o + k : k \in 0 .. Block - 1} \cup {RightStart + o + k : k \in 0 .. Block - 1}
    \cup (IF o = 0 THEN {LeftStart + Ring, RightStart + Ring} ELSE {})

\* None of them is in the line that is played, nor in the next one while the
\* block is out of reach.
LEMMA Unread ==
  ASSUME NEW s \in {LeftStart, RightStart}, NEW v \in VoiceType, Inside(v, s), NEW o \in Blocks,
         Gap(v, o) >= Block, NEW i \in 0 .. Line - 1
  PROVE  /\ Line * LineOf(v.play) + i \notin Touched(o)
         /\ Gap(v, o) <= Ring - 3 => Line * LineOf(v.play + 1) + i \notin Touched(o)
<1> USE Sizes DEF Line
<1>1. PICK p \in Nat : p = v.play /\ p \in s .. s + Ring - 1  BY DEF Inside, Tuned
<1>2. o \in Nat /\ o + Block <= Ring /\ o % 4 = 0 /\ (o # 0 => o >= Block)  BY BlockForm
<1>3. Gap(v, o) = IF p - s < o THEN p - s - o + Ring ELSE p - s - o  BY <1>1, GapForm
<1>4. PICK n \in Nat : n = LineOf(p) /\ 4 * n <= p /\ p < 4 * n + 4  BY <1>1, LinesInside
<1>5. PICK l \in Nat : l = LineOf(p + 1) /\ 4 * l <= p + 1 /\ p + 1 < 4 * l + 4
  <2>1. p + 1 \in s .. s + Ring  BY <1>1
  <2> QED BY <2>1, LinesInside
<1>6. PICK j \in Nat, b \in Nat, c \in Nat, g \in Nat :
        o = 4 * j /\ Block = 4 * b /\ s = 4 * c /\ Ring = 4 * g
  <2>1. o = 4 * (o \div 4) /\ Block = 4 * (Block \div 4) /\ s = 4 * (s \div 4)
        /\ Ring = 4 * (Ring \div 4)
    BY <1>2
  <2>2. o \div 4 \in Nat /\ Block \div 4 \in Nat /\ s \div 4 \in Nat /\ Ring \div 4 \in Nat
    BY <1>2
  <2> QED BY <2>1, <2>2
<1>7. \A x \in Touched(o) : x \in s - Ring - 8 .. s - 8 \/ x \in s + Ring + 8 .. s + 2 * Ring + 8
                             \/ x \in s + o .. s + o + Block - 1 \/ (o = 0 /\ x = s + Ring)
  <2>1. ASSUME NEW k \in 0 .. Block - 1, NEW x \in {LeftStart + o + k, RightStart + o + k}
        PROVE  x \in s - Ring - 8 .. s - 8 \/ x \in s + Ring + 8 .. s + 2 * Ring + 8
               \/ x \in s + o .. s + o + Block - 1
    BY <1>2
  <2>2. ASSUME NEW x \in {LeftStart + Ring, RightStart + Ring}
        PROVE  x \in s - Ring - 8 .. s - 8 \/ x \in s + Ring + 8 .. s + 2 * Ring + 8
               \/ x = s + Ring
    OBVIOUS
  <2> QED BY <2>1, <2>2 DEF Touched
<1>8. 4 * n + i \notin Touched(o)
  <2>1. 4 * n >= 4 * c /\ n < c + g
    BY <1>1, <1>4, <1>6
  <2>2. ~(4 * n + i \in s + o .. s + o + Block - 1)
    BY <1>1, <1>2, <1>3, <1>4, <1>6
  <2> QED BY <1>6, <1>7, <2>1, <2>2
<1>9. ASSUME Gap(v, o) <= Ring - 3 PROVE 4 * l + i \notin Touched(o)
  <2>1. 4 * l >= 4 * c /\ l <= c + g
    BY <1>1, <1>5, <1>6
  <2>2. ~(4 * l + i \in s + o .. s + o + Block - 1)
    BY <1>1, <1>2, <1>3, <1>5, <1>6, <1>9
  <2>3. ~(o = 0 /\ 4 * l + i = s + Ring)
    BY <1>1, <1>2, <1>3, <1>5, <1>6, <1>9
  <2> QED BY <1>6, <1>7, <2>1, <2>2, <2>3
<1> QED BY <1>1, <1>4, <1>5, <1>8, <1>9

\* So what a voice has is not changed by the filling.
LEMMA CacheStays ==
  ASSUME NEW s \in {LeftStart, RightStart}, NEW v \in VoiceType, Inside(v, s), NEW o \in Blocks,
         Gap(v, o) >= Block, NEW m \in Memory, NEW m2 \in Memory,
         \A a \in Addresses \ Touched(o) : m2[a] = m[a], CacheOK(v, m, o)
  PROVE  /\ CacheOK(v, m2, o) /\ m2[v.play] = m[v.play]
         /\ Gap(v, o) <= Ring - 3 => m2[v.play + 1] = m[v.play + 1]
<1> USE DEF Line
<1>1. v.play \in s .. s + Ring /\ v.play + 1 \in s .. s + Ring /\ v.play \in Nat
  BY Sizes DEF Inside, Tuned
<1>2. ASSUME NEW i \in 0 .. Line - 1
      PROVE  /\ m2[Line * LineOf(v.play) + i] = m[Line * LineOf(v.play) + i]
             /\ Gap(v, o) <= Ring - 3
                  => m2[Line * LineOf(v.play + 1) + i] = m[Line * LineOf(v.play + 1) + i]
  <2>1. Line * LineOf(v.play) + i \in Addresses /\ Line * LineOf(v.play + 1) + i \in Addresses
    BY <1>1, LinesInside
  <2> QED BY <2>1, Unread
<1>3. CacheOK(v, m2, o)  BY <1>2 DEF CacheOK, Held
<1>4. v.play = Line * LineOf(v.play) + (v.play % Line)
      /\ v.play + 1 = Line * LineOf(v.play + 1) + ((v.play + 1) % Line)
  BY <1>1, LinesInside
<1>5. v.play % Line \in 0 .. Line - 1 /\ (v.play + 1) % Line \in 0 .. Line - 1  BY <1>1
<1> QED BY <1>2, <1>3, <1>4, <1>5

\* What may follow what.
LEMMA PairForm ==
  /\ Pair(Older, Older)
  /\ \A n \in 0 .. Length : Pair(n, LesserOf(n + 1, Length))
  /\ \A x \in Sample : \A y : Pair(x, y) => y \in x .. x + 1
BY Sizes DEF Pair, Follows, LesserOf, Older, Sample

\* The rings after a sample more, and after a block.
Stored(m, a, n) == [m EXCEPT ![LeftStart + a] = n, ![RightStart + a] = n]

\* A word written at its place keeps the ring in order.
LEMMA RingFilled ==
  ASSUME NEW m \in Memory, NEW o \in Blocks, NEW k \in 0 .. Block - 1, NEW n \in 0 .. Length,
         NEW w, w = o + k, RingOK(m, o, w, n), NEW m2, m2 = Stored(m, w, n)
  PROVE  /\ m2 \in Memory /\ RingOK(m2, o, w + 1, LesserOf(n + 1, Length))
         /\ \A a \in Addresses \ Touched(o) : m2[a] = m[a]
<1> USE Sizes DEF Line
<1>16. o \in Nat /\ o + Block <= Ring /\ (o # 0 => o >= Block)  BY BlockForm
<1>1. w \in 0 .. Ring - 1 /\ (o # 0 => w >= Block)  BY <1>16
<1>2. n \in Sample  BY DEF Sample, Older
<1>3. \A a \in 0 .. Ring : LeftStart + a \in Addresses /\ RightStart + a \in Addresses
  BY DEF Addresses
<1>4. m2 \in Memory  BY <1>1, <1>2, <1>3 DEF Memory, Stored
<1>5. \A a \in Addresses : m2[a] = IF a = RightStart + w \/ a = LeftStart + w THEN n ELSE m[a]
  BY <1>1, <1>3 DEF Memory, Stored
<1>6. \A a \in 0 .. Ring : /\ m2[LeftStart + a] = IF a = w THEN n ELSE m[LeftStart + a]
                           /\ m2[RightStart + a] = IF a = w THEN n ELSE m[RightStart + a]
  <2> SUFFICES ASSUME NEW a \in 0 .. Ring
               PROVE  /\ m2[LeftStart + a] = IF a = w THEN n ELSE m[LeftStart + a]
                      /\ m2[RightStart + a] = IF a = w THEN n ELSE m[RightStart + a]
    OBVIOUS
  <2>1. /\ LeftStart + a # RightStart + w /\ RightStart + a # LeftStart + w
        /\ LeftStart + a = LeftStart + w <=> a = w
        /\ RightStart + a = RightStart + w <=> a = w
    BY <1>1
  <2>2. LeftStart + a \in Addresses /\ RightStart + a \in Addresses  BY <1>3
  <2>3. m2[LeftStart + a] = IF a = w THEN n ELSE m[LeftStart + a]  BY <1>5, <2>1, <2>2, Zenon
  <2>4. m2[RightStart + a] = IF a = w THEN n ELSE m[RightStart + a]  BY <1>5, <2>1, <2>2, Zenon
  <2> QED BY <2>3, <2>4
<1>7. /\ \A a \in 0 .. Ring : m[RightStart + a] = m[LeftStart + a]
      /\ \A a \in 0 .. Ring - 2 : a + 1 # w => Pair(m[LeftStart + a], m[LeftStart + a + 1])
      /\ w \in 1 .. Ring - 1 => Pair(m[LeftStart + Ring - 1], m[LeftStart])
      /\ Pair(m[LeftStart + (IF w = 0 THEN Ring - 1 ELSE w - 1)], n)
      /\ o # 0 => m[LeftStart + Ring] = m[LeftStart]
  BY <1>1 DEF RingOK
<1>8. \A a \in 0 .. Ring : m2[RightStart + a] = m2[LeftStart + a]  BY <1>6, <1>7
<1>9. ASSUME NEW a \in 0 .. Ring - 2, a + 1 # w + 1
      PROVE  Pair(m2[LeftStart + a], m2[LeftStart + a + 1])
  <2>1. m2[LeftStart + a] = m[LeftStart + a]
    <3>1. a \in 0 .. Ring /\ a # w  BY <1>9
    <3> QED BY <1>6, <3>1
  <2>2. m2[LeftStart + a + 1] = IF a + 1 = w THEN n ELSE m[LeftStart + a + 1]
    <3>1. a + 1 \in 0 .. Ring /\ LeftStart + (a + 1) = LeftStart + a + 1  OBVIOUS
    <3> QED BY <1>6, <3>1
  <2>3. CASE a + 1 = w
    <3>1. LeftStart + (IF w = 0 THEN Ring - 1 ELSE w - 1) = LeftStart + a  BY <2>3
    <3> QED BY <1>7, <2>1, <2>2, <2>3, <3>1
  <2>4. CASE a + 1 # w  BY <1>7, <2>1, <2>2, <2>4
  <2> QED BY <2>3, <2>4
<1>10. m2[LeftStart + Ring - 1] = (IF Ring - 1 = w THEN n ELSE m[LeftStart + Ring - 1])
       /\ m2[LeftStart] = (IF 0 = w THEN n ELSE m[LeftStart])
       /\ m2[LeftStart + Ring] = m[LeftStart + Ring]
  <2>1. Ring - 1 \in 0 .. Ring /\ 0 \in 0 .. Ring /\ Ring \in 0 .. Ring /\ Ring # w
        /\ LeftStart + (Ring - 1) = LeftStart + Ring - 1 /\ LeftStart + 0 = LeftStart
    BY <1>1
  <2> QED BY <1>6, <2>1
<1>11. ASSUME w + 1 \in 1 .. Ring - 1 PROVE Pair(m2[LeftStart + Ring - 1], m2[LeftStart])
  <2>1. m2[LeftStart + Ring - 1] = m[LeftStart + Ring - 1]  BY <1>10, <1>11
  <2>2. CASE w = 0
    <3>1. LeftStart + (IF w = 0 THEN Ring - 1 ELSE w - 1) = LeftStart + Ring - 1  BY <2>2
    <3> QED BY <1>7, <1>10, <2>1, <2>2, <3>1
  <2>3. CASE w # 0  BY <1>7, <1>10, <1>11, <2>1, <2>3
  <2> QED BY <2>2, <2>3
<1>12. Pair(m2[LeftStart + (IF w + 1 = 0 THEN Ring - 1 ELSE w + 1 - 1)], LesserOf(n + 1, Length))
  <2>1. LeftStart + (IF w + 1 = 0 THEN Ring - 1 ELSE w + 1 - 1) = LeftStart + w  BY <1>1
  <2>2. m2[LeftStart + w] = n
    <3>1. w \in 0 .. Ring  BY <1>1
    <3> QED BY <1>6, <3>1
  <2> QED BY <2>1, <2>2, PairForm
<1>13. o # 0 => m2[LeftStart + Ring] = m2[LeftStart]  BY <1>1, <1>7, <1>10
<1>14. RingOK(m2, o, w + 1, LesserOf(n + 1, Length))
  <2> DEFINE n2 == LesserOf(n + 1, Length)
             w2 == w + 1
  <2>1. \A a \in 0 .. Ring - 2 : a + 1 # w2 => Pair(m2[LeftStart + a], m2[LeftStart + a + 1])
    BY <1>9
  <2>2. w2 \in 1 .. Ring - 1 => Pair(m2[LeftStart + Ring - 1], m2[LeftStart])  BY <1>11
  <2>3. Pair(m2[LeftStart + (IF w2 = 0 THEN Ring - 1 ELSE w2 - 1)], n2)  BY <1>12
  <2> HIDE DEF n2, w2
  <2>4. RingOK(m2, o, w2, n2)  BY <1>8, <1>13, <2>1, <2>2, <2>3, Zenon DEF RingOK
  <2> QED BY <2>4 DEF n2, w2
<1>15. LeftStart + w \in Touched(o) /\ RightStart + w \in Touched(o)
  <2>1. LeftStart + w = LeftStart + o + k /\ RightStart + w = RightStart + o + k
    BY <1>16
  <2> QED BY <2>1 DEF Touched
<1> QED BY <1>1, <1>4, <1>5, <1>14, <1>15

\* What EndCopied makes of a memory.
Ended(m, o) ==
  IF o = 0 THEN [m EXCEPT ![LeftStart + Ring] = m[LeftStart], ![RightStart + Ring] = m[RightStart]]
  ELSE m

\* A filled block, with its copy behind the end, leaves the ring in order.
LEMMA RingEnds ==
  ASSUME NEW m \in Memory, NEW o \in Blocks, NEW n \in 0 .. Length, RingOK(m, o, o + Block, n),
         NEW m2, m2 = Ended(m, o)
  PROVE  /\ m2 \in Memory /\ RingOK(m2, (o + Block) % Ring, (o + Block) % Ring, n)
         /\ \A a \in Addresses \ Touched(o) : m2[a] = m[a]
<1> USE Sizes DEF Line
<1>1. PICK q \in Blocks : q = (o + Block) % Ring /\ q = IF o + Block = Ring THEN 0 ELSE o + Block
  BY BlockForm
<1>2. o \in Nat /\ o + Block <= Ring /\ q \in Nat /\ q < Ring  BY <1>1, BlockForm
<1>3. \A a \in 0 .. Ring : LeftStart + a \in Addresses /\ RightStart + a \in Addresses
  BY DEF Addresses
<1>4. LeftStart \in Addresses /\ RightStart \in Addresses
  BY DEF Addresses
<1>5. PICK w \in Nat : w = o + Block /\ w > 0  BY <1>2
<1>6. /\ \A a \in 0 .. Ring : m[RightStart + a] = m[LeftStart + a]
      /\ \A a \in 0 .. Ring - 2 : a + 1 # w => Pair(m[LeftStart + a], m[LeftStart + a + 1])
      /\ w \in 1 .. Ring - 1 => Pair(m[LeftStart + Ring - 1], m[LeftStart])
      /\ Pair(m[LeftStart + (w - 1)], n)
      /\ o # 0 => m[LeftStart + Ring] = m[LeftStart]
  <2>1. RingOK(m, o, w, n)  BY <1>5
  <2>2. LeftStart + (IF w = 0 THEN Ring - 1 ELSE w - 1) = LeftStart + (w - 1)  BY <1>5
  <2> QED BY <2>1, <2>2 DEF RingOK
<1>7. CASE o # 0
  <2>1. m2 = m  BY <1>7 DEF Ended
  <2>2. \A a \in 0 .. Ring - 2 : a + 1 # q => Pair(m[LeftStart + a], m[LeftStart + a + 1])
    BY <1>1, <1>2, <1>5, <1>6, SMTT(30)
  <2>3. q \in 1 .. Ring - 1 => Pair(m[LeftStart + Ring - 1], m[LeftStart])
    BY <1>1, <1>2, <1>5, <1>6
  <2>4. LeftStart + (IF q = 0 THEN Ring - 1 ELSE q - 1) = LeftStart + (w - 1)
    BY <1>1, <1>2, <1>5
  <2>5. Pair(m[LeftStart + (IF q = 0 THEN Ring - 1 ELSE q - 1)], n)  BY <1>6, <2>4
  <2>6. RingOK(m, q, q, n)  BY <1>6, <1>7, <2>2, <2>3, <2>5, Zenon DEF RingOK
  <2> QED BY <1>1, <2>1, <2>6
<1>8. CASE o = 0
  <2>1. q = Block /\ q \in 1 .. Ring - 2  BY <1>1, <1>8
  <2>2. m2 = [m EXCEPT ![LeftStart + Ring] = m[LeftStart], ![RightStart + Ring] = m[RightStart]]
    BY <1>8 DEF Ended
  <2>3. m2 \in Memory
    <3>1. m[LeftStart] \in Sample /\ m[RightStart] \in Sample  BY <1>4 DEF Memory
    <3> QED BY <2>2, <3>1 DEF Memory
  <2>4. \A a \in Addresses : m2[a] = IF a = RightStart + Ring THEN m[RightStart]
                                     ELSE IF a = LeftStart + Ring THEN m[LeftStart] ELSE m[a]
    BY <2>2 DEF Memory
  <2>5. ASSUME NEW a \in 0 .. Ring
        PROVE  /\ m2[LeftStart + a] = IF a = Ring THEN m[LeftStart] ELSE m[LeftStart + a]
               /\ m2[RightStart + a] = IF a = Ring THEN m[RightStart] ELSE m[RightStart + a]
    <3>1. /\ LeftStart + a # RightStart + Ring
          /\ RightStart + a # LeftStart + Ring
          /\ LeftStart + a = LeftStart + Ring <=> a = Ring
          /\ RightStart + a = RightStart + Ring <=> a = Ring
      BY <1>2
    <3>2. LeftStart + a \in Addresses /\ RightStart + a \in Addresses  BY <1>3
    <3>3. m2[LeftStart + a] = IF a = Ring THEN m[LeftStart] ELSE m[LeftStart + a]
      BY <2>4, <3>1, <3>2, Zenon
    <3>4. m2[RightStart + a] = IF a = Ring THEN m[RightStart] ELSE m[RightStart + a]
      BY <2>4, <3>1, <3>2, Zenon
    <3> QED BY <3>3, <3>4
  <2>6. m[RightStart] = m[LeftStart]
    <3>1. RightStart + 0 = RightStart /\ LeftStart + 0 = LeftStart /\ 0 \in 0 .. Ring  OBVIOUS
    <3> QED BY <1>6, <3>1
  <2>7. \A a \in 0 .. Ring : m2[RightStart + a] = m2[LeftStart + a]  BY <1>6, <2>5, <2>6
  <2>8. ASSUME NEW a \in 0 .. Ring - 2, a + 1 # q
        PROVE  Pair(m2[LeftStart + a], m2[LeftStart + a + 1])
    <3>1. a \in 0 .. Ring /\ a + 1 \in 0 .. Ring /\ a # Ring /\ a + 1 # Ring
          /\ LeftStart + (a + 1) = LeftStart + a + 1
      OBVIOUS
    <3>2. m2[LeftStart + a] = m[LeftStart + a] /\ m2[LeftStart + a + 1] = m[LeftStart + a + 1]
      BY <2>5, <3>1
    <3>3. a + 1 # w  BY <1>5, <1>8, <2>1, <2>8
    <3>4. Pair(m[LeftStart + a], m[LeftStart + a + 1])  BY <1>6, <3>3
    <3> QED BY <3>2, <3>4
  <2>9. m2[LeftStart] = m[LeftStart] /\ m2[LeftStart + Ring] = m[LeftStart]
        /\ m2[LeftStart + Ring - 1] = m[LeftStart + Ring - 1]
        /\ m2[LeftStart + (q - 1)] = m[LeftStart + (q - 1)]
    <3>1. /\ 0 \in 0 .. Ring /\ Ring \in 0 .. Ring /\ Ring - 1 \in 0 .. Ring /\ q - 1 \in 0 .. Ring
          /\ 0 # Ring /\ Ring - 1 # Ring /\ q - 1 # Ring
          /\ LeftStart + 0 = LeftStart /\ LeftStart + (Ring - 1) = LeftStart + Ring - 1
      BY <2>1
    <3> QED BY <2>5, <3>1
  <2>10. Pair(m2[LeftStart + Ring - 1], m2[LeftStart])  BY <1>5, <1>6, <1>8, <2>1, <2>9
  <2>11. Pair(m2[LeftStart + (IF q = 0 THEN Ring - 1 ELSE q - 1)], n)
    <3>1. LeftStart + (IF q = 0 THEN Ring - 1 ELSE q - 1) = LeftStart + (q - 1)
          /\ LeftStart + (w - 1) = LeftStart + (q - 1)
      BY <1>5, <1>8, <2>1
    <3> QED BY <1>6, <2>9, <3>1
  <2>12. \A a \in 0 .. Ring - 2 : a + 1 # q => Pair(m2[LeftStart + a], m2[LeftStart + a + 1])
    BY <2>8
  <2>13. m2[LeftStart + Ring] = m2[LeftStart]  BY <2>9
  <2>14. RingOK(m2, q, q, n)
    BY <2>7, <2>10, <2>11, <2>12, <2>13, Zenon DEF RingOK
  <2>15. \A a \in Addresses \ Touched(o) : m2[a] = m[a]  BY <1>8, <2>4 DEF Touched
  <2> QED BY <1>1, <2>3, <2>14, <2>15
<1> QED BY <1>7, <1>8

\* A word of the ring and the one behind it, but for where the next is written.
LEMMA PairAt ==
  ASSUME NEW m, NEW o, NEW w \in 0 .. Ring, NEW n, RingOK(m, o, w, n), NEW p \in 0 .. Ring - 1,
         IF p = Ring - 1 THEN w \in 1 .. Ring - 1 ELSE p + 1 # w
  PROVE  Pair(m[LeftStart + p], m[LeftStart + (IF p = Ring - 1 THEN 0 ELSE p + 1)])
<1> USE Sizes DEF Line
<1>1. CASE p = Ring - 1
  <2>1. LeftStart + p = LeftStart + Ring - 1
        /\ LeftStart + (IF p = Ring - 1 THEN 0 ELSE p + 1) = LeftStart
    BY <1>1
  <2> QED BY <1>1, <2>1 DEF RingOK
<1>2. CASE p # Ring - 1
  <2>1. p \in 0 .. Ring - 2 /\ p + 1 # w
        /\ LeftStart + (IF p = Ring - 1 THEN 0 ELSE p + 1) = LeftStart + p + 1
    BY <1>2
  <2> QED BY <2>1 DEF RingOK
<1> QED BY <1>1, <1>2

\* What a sample finds, and what the next one will find.
LEMMA Reaches ==
  ASSUME NEW v \in VoiceType, Inside(v, LeftStart), NEW m \in Memory, NEW o \in Blocks,
         Gap(v, o) <= Ring - 3, NEW w \in o .. o + Block, w = o \/ Gap(v, o) >= Block,
         NEW n, RingOK(m, o, w, n)
  PROVE  /\ Pair(m[v.play], m[v.play + 1])
         /\ m[NextPlay(v)] \in m[v.play] .. m[v.play] + 2
<1> USE Sizes DEF Line
<1>1. PICK p \in 0 .. Ring - 1 : v.play = LeftStart + p
  <2>1. v.play - LeftStart \in 0 .. Ring - 1 /\ v.play = LeftStart + (v.play - LeftStart)
    BY DEF Inside, Tuned
  <2> QED BY <2>1
<1>2. Gap(v, o) = IF p < o THEN p - o + Ring ELSE p - o
  <2>1. Gap(v, o) = IF v.play - LeftStart < o THEN v.play - LeftStart - o + Ring
                    ELSE v.play - LeftStart - o
    BY GapForm
  <2> QED BY <1>1, <2>1, BlockForm
<1>3. o \in Nat /\ o + Block <= Ring /\ (o # 0 => o >= Block) /\ w \in 0 .. Ring
  BY BlockForm
<1> DEFINE Up(a) == IF a = Ring - 1 THEN 0 ELSE a + 1
<1>4. Pair(m[LeftStart + p], m[LeftStart + Up(p)])
  <2>1. IF p = Ring - 1 THEN w \in 1 .. Ring - 1 ELSE p + 1 # w  BY <1>2, <1>3
  <2> QED BY <1>3, <2>1, PairAt
<1>5. Up(p) \in 0 .. Ring - 1  OBVIOUS
<1>6. Pair(m[LeftStart + Up(p)], m[LeftStart + Up(Up(p))])
  <2>1. PICK r \in 0 .. Ring - 1 : r = Up(p)  BY <1>5
  <2>2. IF r = Ring - 1 THEN w \in 1 .. Ring - 1 ELSE r + 1 # w  BY <1>2, <1>3, <2>1
  <2>3. Pair(m[LeftStart + r], m[LeftStart + Up(r)])  BY <1>3, <2>2, PairAt
  <2> QED BY <2>1, <2>3
<1>7. Up(Up(p)) \in 0 .. Ring - 1  OBVIOUS
<1>8. \A a \in 0 .. Ring - 1 : LeftStart + a \in Addresses /\ m[LeftStart + a] \in Sample
  BY DEF Addresses, Memory
<1>9. m[v.play + 1] = m[LeftStart + Up(p)]
  <2>1. CASE p = Ring - 1
    <3>1. o # 0  BY <1>2, <2>1
    <3>2. v.play + 1 = LeftStart + Ring /\ LeftStart + Up(p) = LeftStart  BY <1>1, <2>1
    <3> QED BY <3>1, <3>2 DEF RingOK
  <2>2. CASE p # Ring - 1
    <3>1. v.play + 1 = LeftStart + Up(p)  BY <1>1, <2>2
    <3> QED BY <3>1
  <2> QED BY <2>1, <2>2
<1>10. PICK d \in 0 .. 2 :
         NextPlay(v) = IF v.play + d > LeftStart + Ring - 1 THEN v.play + d - Ring ELSE v.play + d
  BY StepForm
<1>11. NextPlay(v) \in {LeftStart + p, LeftStart + Up(p), LeftStart + Up(Up(p))}
  BY <1>1, <1>10
<1>12. PICK x \in Sample, y \in Sample, z \in Sample :
         x = m[LeftStart + p] /\ y = m[LeftStart + Up(p)] /\ z = m[LeftStart + Up(Up(p))]
  BY <1>5, <1>7, <1>8
<1>13. y \in x .. x + 1 /\ z \in y .. y + 1  BY <1>4, <1>6, <1>12, PairForm
<1>14. x \in x .. x + 2 /\ y \in x .. x + 2 /\ z \in x .. x + 2
  BY <1>12, <1>13 DEF Sample, Older
<1>15. m[NextPlay(v)] \in {x, y, z}  BY <1>11, <1>12
<1> QED BY <1>1, <1>4, <1>9, <1>12, <1>14, <1>15

-----------------------------------------------------------------------------
(* The steps.  The properties of the variables that a step leaves alone    *)
(* are those of before.                                                    *)

\* Of a song that is played.
LEMMA Played ==
  ASSUME WavInv, Running, ~left.keyon
  PROVE  /\ PlayInv /\ Inside(left, LeftStart) /\ Inside(right, RightStart)
         /\ prog.offs \in Blocks /\ mem \in Memory /\ left \in VoiceType /\ right \in VoiceType
         /\ ~left.keyoff /\ ~right.keyoff /\ ~right.keyon /\ ~sync /\ ~frame.sync
         /\ left.busy /\ right.busy
         /\ Gap(left, prog.offs) \in 0 .. Ring - 1
         /\ frame.slot # "none" => Gap(left, prog.offs) <= Ring - 3
         /\ frame.slot # "left" => Gap(right, prog.offs) = Gap(left, prog.offs)
         /\ prog.at = "filling" => Gap(right, prog.offs) >= Block
         /\ Written \in prog.offs .. prog.offs + Block
         /\ Written = prog.offs \/ Gap(left, prog.offs) >= Block
<1>1. PlayInv  BY DEF WavInv
<1>2. prog.offs \in Blocks /\ prog.done \in 0 .. Block /\ mem \in Memory /\ left \in VoiceType
      /\ right \in VoiceType
  BY DEF WavInv, WavTypeOK, ProgType
<1>3. Inside(left, LeftStart) /\ Inside(right, RightStart) /\ left.busy /\ right.busy
  BY <1>1 DEF WavInv, PlaceInv, PlayInv, PairInv
<1>4. left.keyoff \in BOOLEAN /\ right.keyoff \in BOOLEAN /\ right.keyon \in BOOLEAN
      /\ left.keyon \in BOOLEAN /\ sync \in BOOLEAN /\ frame.sync \in BOOLEAN
  BY <1>2 DEF VoiceType, WavInv, WavTypeOK
<1>5. ~left.keyoff /\ ~right.keyoff /\ ~right.keyon /\ ~sync /\ ~frame.sync
  BY <1>4 DEF WavInv, KeyInv, Running
<1>6. PICK o \in Blocks, g \in 0 .. Ring - 1 : o = prog.offs /\ g = Gap(left, prog.offs)
  BY <1>2, <1>3, GapForm
<1>7. frame.slot # "none" => g <= Ring - 3
  BY <1>1, <1>6, Sizes DEF PlayInv, GapInv, Line
<1>8. frame.slot # "left" => Gap(right, o) = g
  BY <1>1, <1>6 DEF PlayInv, PairInv, Gap
<1>9. prog.at = "filling" => g >= Block  BY <1>1, <1>6 DEF PlayInv, GapInv
<1>10. ASSUME prog.at = "filling", frame.slot = "left" PROVE Gap(right, o) >= Block
  <2>1. Offset(right) = NextPlay(left) - LeftStart
    BY <1>1, <1>3, <1>10 DEF PlayInv, PairInv, Inside, Tuned
  <2>2. PICK r \in VoiceType : r = right  BY <1>2
  <2>3. PICK l \in VoiceType : l = left  BY <1>2
  <2>4. g <= Ring - 3  BY <1>7, <1>10
  <2>5. Inside(l, LeftStart) /\ Gap(l, o) <= Ring - 3 /\ Offset(r) = NextPlay(l) - LeftStart
    BY <1>3, <1>6, <2>1, <2>2, <2>3, <2>4
  <2>6. Gap(r, o) >= Gap(l, o)  BY <2>5, GapNext
  <2>7. Gap(r, o) \in 0 .. Ring - 1
    <3>1. Inside(r, RightStart)  BY <1>3, <2>2
    <3> QED BY <3>1, GapForm
  <2> QED BY <1>6, <1>9, <1>10, <2>2, <2>3, <2>6, <2>7, Sizes
<1>11. Written \in o .. o + Block /\ (Written = o \/ g >= Block)
  <2>1. PICK k \in 0 .. Block : k = prog.done  BY <1>2
  <2>2. o \in Nat /\ Block \in Nat  BY Sizes, BlockForm
  <2>3. CASE prog.at = "filling"
    <3>1. Written = o + k /\ g >= Block  BY <1>6, <1>9, <2>1, <2>3 DEF Written
    <3> QED BY <2>2, <3>1
  <2>4. CASE prog.at # "filling"
    <3>1. Written = o  BY <1>6, <2>4 DEF Written
    <3> QED BY <2>2, <3>1
  <2> QED BY <2>3, <2>4
<1> QED BY <1>1, <1>2, <1>3, <1>5, <1>6, <1>7, <1>8, <1>9, <1>10, <1>11

\* Where a song begins.
LEMMA EmptyPlace ==
  /\ 0 \in Blocks /\ 0 \in 0 .. Block /\ 0 \in 0 .. Length
  /\ Older \in Sample /\ NoneHeard \in Sample \X Sample /\ <<Older, Older>> \in Sample \X Sample
<1> USE Sizes DEF Line
<1>1. 0 \in Blocks
  <2>1. 0 % Block = 0  OBVIOUS
  <2> QED BY <2>1 DEF Blocks
<1>2. Older \in Sample  BY DEF Older, Sample
<1>3. 0 \in 0 .. Block /\ 0 \in 0 .. Length  OBVIOUS
<1> QED BY <1>1, <1>2, <1>3 DEF NoneHeard

\* After spu_init nothing is played.
LEMMA InitHolds == Init => WavInv
<1> SUFFICES ASSUME Init PROVE WavInv  OBVIOUS
<1> USE Sizes DEF Line
<1>1. Older \in Sample  BY DEF Older, Sample
<1>2. Silent(Older) \in VoiceType /\ ~Silent(Older).busy /\ ~Silent(Older).keyon
      /\ ~Silent(Older).keyoff
  <2>1. 0 \in 0 .. Frac - 1 /\ 1 \in Speed  BY DEF Speed
  <2>2. [i \in CacheIndices |-> Older] \in Cache  BY <1>1 DEF Cache
  <2> QED BY <2>1, <2>2 DEF Silent, VoiceType
<1>3. 0 \in Blocks  BY EmptyPlace
<1>4. WavTypeOK
  <2>1. mem \in Memory  BY <1>1 DEF Init, Memory
  <2>2. prog \in ProgType  BY <1>3 DEF Init, ProgType
  <2>3. heard \in [left : Sample \X Sample, right : Sample \X Sample]  BY <1>1 DEF Init
  <2>4. left \in VoiceType /\ right \in VoiceType  BY <1>2 DEF Init
  <2>5. nextaddr \in Int
    <3>1. nextaddr = 0  BY Zenon DEF Init
    <3>2. 0 \in Int  OBVIOUS
    <3> QED BY <3>1, <3>2, Zenon
  <2>8. sync \in BOOLEAN  BY Zenon DEF Init
  <2>6. frame \in [slot : {"none", "right", "left"}, sync : BOOLEAN]  BY DEF Init
  <2>7. seen \in [ticked : BOOLEAN, plays : Nat]  BY DEF Init
  <2> QED BY <2>1, <2>2, <2>3, <2>4, <2>5, <2>6, <2>7, <2>8 DEF WavTypeOK
<1>5. NoTear  BY PairForm DEF Init, NoTear, Pair
<1>6. KeyInv
  BY <1>2 DEF Init, KeyInv, Running
<1>7. PlaceInv(left, LeftStart) /\ PlaceInv(right, RightStart)  BY <1>2 DEF Init, PlaceInv
<1> QED BY <1>4, <1>5, <1>6, <1>7 DEF WavInv, Init, Running

\* A sample begins: the program comes in time, so the gap is not too large.
LEMMA FrameBeginsKeeps == ASSUME WavInv, FrameBegins PROVE WavInv'
<1> USE DEF FrameBegins
<1>1. WavTypeOK'  BY DEF WavInv, WavTypeOK
<1>2. PlaceInv(left, LeftStart)' /\ PlaceInv(right, RightStart)' /\ NoTear'
  BY DEF WavInv, PlaceInv, Inside, Tuned, NoTear, Follows
<1>3. KeyInv'
  <2>1. sync \in BOOLEAN /\ frame.sync \in BOOLEAN /\ left.keyon \in BOOLEAN /\ right.keyon \in BOOLEAN
    BY DEF WavInv, WavTypeOK, VoiceType
  <2> QED BY <2>1 DEF WavInv, KeyInv, Running, AllOlder, NoneHeard
<1>4. ASSUME Running', ~left'.keyon PROVE PlayInv'
  <2>1. Running /\ ~left.keyon  BY <1>4 DEF Running
  <2>2. PlayInv /\ left.busy /\ Inside(left, LeftStart) /\ prog.offs \in Blocks
    BY <2>1, Played
  <2>3. PairInv'  BY <2>2 DEF PlayInv, PairInv, Offset
  <2>4. CacheOK(left, mem, prog.offs)' /\ CacheOK(right, mem, prog.offs)'
        /\ RingOK(mem, prog.offs, Written, prog.size)' /\ NextInv'
    BY <2>2 DEF PlayInv, CacheOK, Held, Gap, Offset, RingOK, Written, NextInv, Pair, Follows
  <2>5. GapInv'
    <3>1. PICK o \in Blocks, g \in 0 .. Ring - 1, p \in 0 .. Ring - 1 :
            /\ o = prog.offs /\ g = Gap(left, o) /\ left.play = LeftStart + p
            /\ left.start = LeftStart /\ g = IF p < o THEN p - o + Ring ELSE p - o
      <4>1. PICK o \in Blocks : o = prog.offs  BY <2>2
      <4>2. Gap(left, o) \in 0 .. Ring - 1 /\ left.play \in Nat /\ left.start = LeftStart
            /\ Gap(left, o) = IF left.play - LeftStart < o THEN left.play - LeftStart - o + Ring
                              ELSE left.play - LeftStart - o
        <5>1. PICK l : l = left  OBVIOUS
        <5>2. Inside(l, LeftStart)  BY <2>2, <5>1
        <5> QED BY <5>1, <5>2, GapForm
      <4>3. left.play - LeftStart \in 0 .. Ring - 1
        BY <2>2, Sizes DEF Inside, Tuned
      <4> QED BY <4>1, <4>2, <4>3, Sizes
    <3>2. ASSUME g >= Block PROVE g <= Ring - 3
      <4> o \in Nat /\ o + Block <= Ring /\ Ring \in Nat /\ Block \in Nat /\ Block >= 4
          /\ LeftStart \in Nat
        BY Sizes, BlockForm DEF Line
      <4>1. Ahead = g
        <5>1. Position - prog.offs = p - o  BY <3>1 DEF Position
        <5> QED BY <3>1, <5>1 DEF Ahead
      <4>2. prog.at = "filling" \/ Room  BY <2>1, <3>2, <4>1 DEF Room, Running
      <4>3. ~Close(left)  BY <2>1, <2>2, <4>2 DEF InTime
      <4>4. (o - p) % Ring = IF o - p < 0 THEN o - p + Ring ELSE o - p
        <5>1. o - p \in Int /\ - Ring < o - p /\ o - p < Ring  OBVIOUS
        <5> QED BY <5>1, Around
      <4>5. (prog.offs - (left.play - left.start)) % Ring = (o - p) % Ring
        <5>1. prog.offs - (left.play - left.start) = o - p  BY <3>1
        <5> QED BY <5>1
      <4>6. (o - p) % Ring \notin 1 .. 2  BY <4>3, <4>5 DEF Close
      <4> QED BY <3>1, <3>2, <4>4, <4>6
    <3>3. prog.at = "filling" => g >= Block  BY <2>2, <3>1 DEF PlayInv, GapInv
    <3>4. Gap(left, prog.offs)' = g  BY <3>1 DEF Gap, Offset
    <3> QED BY <3>2, <3>3, <3>4 DEF GapInv
  <2> QED BY <2>3, <2>4, <2>5 DEF PlayInv
<1> QED BY <1>1, <1>2, <1>3, <1>4 DEF WavInv

\* Where there is nothing of this file, the ring is in order.
LEMMA OlderRing ==
  ASSUME NEW m, m = NoneStored
  PROVE  m \in Memory /\ RingOK(m, 0, 0, 0)
<1> USE Sizes DEF Line
<1>1. \A a \in 0 .. Ring : LeftStart + a \in Addresses /\ RightStart + a \in Addresses
  BY DEF Addresses
<1>2. \A a \in 0 .. Ring : m[LeftStart + a] = Older /\ m[RightStart + a] = Older  BY <1>1 DEF NoneStored
<1>3. m \in Memory  BY DEF Memory, Sample, Older, NoneStored
<1>4. \A a \in 0 .. Ring : m[RightStart + a] = m[LeftStart + a]  BY <1>2
<1>5. ASSUME NEW a \in 0 .. Ring - 2 PROVE Pair(m[LeftStart + a], m[LeftStart + a + 1])
  <2>1. a \in 0 .. Ring /\ a + 1 \in 0 .. Ring /\ LeftStart + (a + 1) = LeftStart + a + 1  OBVIOUS
  <2>2. m[LeftStart + a] = Older /\ m[LeftStart + a + 1] = Older  BY <1>2, <2>1
  <2> QED BY <2>2, PairForm
<1>6. Pair(m[LeftStart + (IF 0 = 0 THEN Ring - 1 ELSE 0 - 1)], 0)
  <2>1. Ring - 1 \in 0 .. Ring  OBVIOUS
  <2>2. m[LeftStart + (Ring - 1)] = Older  BY <1>2, <2>1
  <2>3. Pair(Older, 0)  BY DEF Pair, Follows
  <2> QED BY <2>2, <2>3
<1>7. \A a \in 0 .. Ring - 2 : a + 1 # 0 => Pair(m[LeftStart + a], m[LeftStart + a + 1])  BY <1>5
<1>8. PICK w : w = 0  OBVIOUS
<1>9. 0 \notin 1 .. Ring - 1  OBVIOUS
<1>10. RingOK(m, w, w, w)  BY <1>4, <1>6, <1>7, <1>8, <1>9, Zenon DEF RingOK
<1> QED BY <1>3, <1>8, <1>10

\* A key on, and what there is before the first sample.
LEMMA KeyOnForm ==
  ASSUME NEW v \in VoiceType, NEW at \in {LeftStart, RightStart}, NEW f \in Speed,
         NEW w, w = KeyOnAt(v, at, f)
  PROVE  /\ w \in VoiceType /\ w.keyon /\ w.busy = v.busy /\ w.keyoff = v.keyoff /\ w.freq = f
         /\ w.play = v.play /\ Tuned(w, at) /\ w.cache = NoneRead /\ NoneRead \in Cache
<1> DEFINE none == NoneRead
<1> USE DEF NoneRead
<1>1. none \in Cache
  <2>1. Older \in Sample  BY Sizes DEF Older, Sample
  <2> QED BY <2>1 DEF Cache
<1>2. PICK a \in Int, z \in Int : a = at /\ z = at + Ring - 1  BY Sizes
<1> HIDE DEF none
<1>3. w = [v EXCEPT !.keyon = TRUE, !.start = a, !.stop = z, !.freq = f, !.cache = none]
  BY <1>2 DEF KeyOnAt, none
<1>4. w \in VoiceType  BY <1>1, <1>3 DEF VoiceType
<1>5. /\ w.keyon /\ w.busy = v.busy /\ w.keyoff = v.keyoff  BY <1>3 DEF VoiceType
<1>6. /\ w.freq = f /\ w.play = v.play /\ w.start = a /\ w.stop = z /\ w.cache = none
  BY <1>3 DEF VoiceType
<1> QED BY <1>1, <1>2, <1>4, <1>5, <1>6 DEF none, Tuned

\* The first key: nothing of the file has been read.
LEMMA PlayKeeps == ASSUME WavInv, NEW f \in Speeds, Play(f) PROVE WavInv'
<1> USE DEF Play
<1>1. PICK l \in VoiceType, r \in VoiceType : l = left /\ r = right  BY DEF WavInv, WavTypeOK
<1>2. f \in Speed  BY WavAssumption DEF Speed
<1>3. left' = KeyOnAt(l, LeftStart, f)  BY <1>1
<1>4. /\ left' \in VoiceType /\ left'.keyon /\ left'.busy = l.busy /\ left'.keyoff = l.keyoff
      /\ left'.play = l.play /\ Tuned(left', LeftStart) /\ left'.cache = NoneRead /\ NoneRead \in Cache
  <2> HIDE DEF Play
  <2>1. PICK w : w = left'  OBVIOUS
  <2>2. PICK a \in {LeftStart, RightStart} : a = LeftStart  OBVIOUS
  <2>3. w = KeyOnAt(l, a, f)  BY <1>3, <2>1, <2>2, Zenon
  <2>4. /\ w \in VoiceType /\ w.keyon /\ w.busy = l.busy /\ w.keyoff = l.keyoff
        /\ w.play = l.play /\ Tuned(w, a) /\ w.cache = NoneRead /\ NoneRead \in Cache
    BY <1>2, <2>3, KeyOnForm
  <2> QED BY <2>1, <2>2, <2>4
<1>5. right' = [r EXCEPT !.cache = NoneRead]  BY <1>1 DEF NoneRead
<1>6. right' \in VoiceType  BY <1>4, <1>5 DEF VoiceType
<1>7. right'.keyon = r.keyon /\ right'.busy = r.busy /\ right'.keyoff = r.keyoff
  BY <1>5 DEF VoiceType
<1>8. right'.play = r.play /\ right'.start = r.start /\ right'.stop = r.stop /\ right'.cache = NoneRead
  BY <1>5 DEF VoiceType
<1>9. WavTypeOK'
  <2>1. mem' \in Memory
    <3>1. PICK m : m = mem'  OBVIOUS
    <3>2. m = NoneStored  BY <3>1 DEF NoneStored
    <3> QED BY <3>1, <3>2, OlderRing
  <2>2. prog' \in ProgType
    <3>1. 0 \in Blocks /\ 0 \in 0 .. Block /\ 0 \in 0 .. Length  BY EmptyPlace
    <3> QED BY <3>1 DEF ProgType
  <2>3. heard' \in [left : Sample \X Sample, right : Sample \X Sample]  BY EmptyPlace
  <2>4. seen' \in [ticked : BOOLEAN, plays : Nat]
    <3>1. PICK n \in Nat : n = seen.plays  BY DEF WavInv, WavTypeOK
    <3>2. seen' = [ticked |-> TRUE, plays |-> n + 1]  BY <3>1, Zenon
    <3> HIDE DEF Play
    <3>3. PICK k \in Nat : k = n + 1  OBVIOUS
    <3>4. seen' = [ticked |-> TRUE, plays |-> k]  BY <3>2, <3>3, Zenon
    <3> QED BY <3>4
  <2> QED BY <1>4, <1>6, <2>1, <2>2, <2>3, <2>4 DEF WavInv, WavTypeOK
<1>10. PlaceInv(left, LeftStart)' /\ PlaceInv(right, RightStart)'
  BY <1>1, <1>4, <1>7, <1>8 DEF WavInv, PlaceInv, Inside, Tuned
<1>11. NoTear'  BY PairForm DEF NoTear, Pair
<1>12. AllOlder'  BY <1>4, <1>8 DEF AllOlder, NoneHeard, NoneStored
<1>13. KeyInv'
  <2>1. prog'.at = "key right"  OBVIOUS
  <2> QED BY <1>1, <1>4, <1>7, <1>12, <2>1 DEF KeyInv, Running
<1>14. ~Running'  BY DEF Running
<1> QED BY <1>9, <1>10, <1>11, <1>13, <1>14 DEF WavInv

\* The second key.
LEMMA PlayRightKeeps == ASSUME WavInv, PlayRight PROVE WavInv'
<1> USE DEF PlayRight
<1>1. PICK l \in VoiceType, r \in VoiceType, g \in ProgType :
        l = left /\ r = right /\ g = prog
  BY DEF WavInv, WavTypeOK
<1>2. PICK f \in Speed : f = left.freq  BY <1>1 DEF VoiceType
<1>3. right' = KeyOnAt(r, RightStart, f)  BY <1>1, <1>2
<1>4. /\ right' \in VoiceType /\ right'.keyon /\ right'.busy = r.busy /\ right'.keyoff = r.keyoff
      /\ right'.freq = f
      /\ right'.play = r.play /\ Tuned(right', RightStart) /\ right'.cache = NoneRead
  <2> HIDE DEF PlayRight
  <2>1. PICK w : w = right'  OBVIOUS
  <2>2. PICK a \in {LeftStart, RightStart} : a = RightStart  OBVIOUS
  <2>3. w = KeyOnAt(r, a, f)  BY <1>3, <2>1, <2>2, Zenon
  <2>4. /\ w \in VoiceType /\ w.keyon /\ w.busy = r.busy /\ w.keyoff = r.keyoff /\ w.freq = f
        /\ w.play = r.play /\ Tuned(w, a) /\ w.cache = NoneRead
    BY <2>3, KeyOnForm
  <2> QED BY <2>1, <2>2, <2>4
<1>5. prog' \in ProgType /\ prog'.at = "sync" /\ prog'.offs = g.offs /\ prog'.size = g.size
  <2>1. prog' = [g EXCEPT !.at = "sync"]  BY <1>1
  <2> QED BY <2>1 DEF ProgType
<1>6. WavTypeOK'  BY <1>4, <1>5 DEF WavInv, WavTypeOK
<1>7. PlaceInv(left, LeftStart)' /\ PlaceInv(right, RightStart)'
  BY <1>1, <1>4 DEF WavInv, PlaceInv, Inside, Tuned
<1>8. NoTear'  BY DEF WavInv, NoTear, Follows
<1>9. left.keyon /\ AllOlder /\ ~left.keyoff /\ ~right.keyoff /\ ~sync /\ ~frame.sync
  BY DEF WavInv, KeyInv
<1>10. AllOlder'  BY <1>1, <1>4, <1>5, <1>9 DEF AllOlder, NoneHeard
<1>11. KeyInv'  BY <1>1, <1>2, <1>4, <1>5, <1>9, <1>10 DEF KeyInv, Running
<1>12. ~Running'  BY <1>5 DEF Running
<1> QED BY <1>6, <1>7, <1>8, <1>11, <1>12 DEF WavInv

\* The sync bit: both keys are taken by the next sample.
LEMMA PlaySyncKeeps == ASSUME WavInv, PlaySync PROVE WavInv'
<1> USE DEF PlaySync
<1>1. left \in VoiceType /\ right \in VoiceType /\ prog \in ProgType  BY DEF WavInv, WavTypeOK
<1>2. WavTypeOK'  BY <1>1 DEF WavInv, WavTypeOK, ProgType
<1>3. PlaceInv(left, LeftStart)' /\ PlaceInv(right, RightStart)' /\ NoTear'
  BY DEF WavInv, PlaceInv, Inside, Tuned, NoTear, Follows
<1>4. left.keyon /\ right.keyon /\ right.freq = left.freq /\ AllOlder
      /\ ~left.keyoff /\ ~right.keyoff /\ ~sync /\ ~frame.sync
  BY DEF WavInv, KeyInv
<1>5. prog'.at = "playing" /\ prog'.offs = prog.offs /\ prog'.size = prog.size
  BY <1>1 DEF ProgType
<1>6. AllOlder'  BY <1>4, <1>5 DEF AllOlder, NoneHeard
<1>7. left.keyon = TRUE /\ right.keyon = TRUE /\ frame.sync = FALSE
  BY <1>1, <1>4 DEF VoiceType, WavInv, WavTypeOK
<1>8. KeyInv'  BY <1>4, <1>5, <1>6, <1>7 DEF KeyInv, Running
<1>9. left'.keyon  BY <1>4
<1> QED BY <1>2, <1>3, <1>8, <1>9 DEF WavInv

\* Both channels are told to stop.
LEMMA StopKeeps == ASSUME WavInv, Stop PROVE WavInv'
<1> USE DEF Stop
<1>1. left \in VoiceType /\ right \in VoiceType /\ prog \in ProgType  BY DEF WavInv, WavTypeOK
<1>2. /\ left' \in VoiceType /\ left'.keyoff /\ ~left'.keyon /\ left'.busy = left.busy
      /\ left'.play = left.play /\ left'.start = left.start /\ left'.stop = left.stop
  BY <1>1 DEF VoiceType
<1>3. /\ right' \in VoiceType /\ right'.keyoff /\ ~right'.keyon /\ right'.busy = right.busy
      /\ right'.play = right.play /\ right'.start = right.start /\ right'.stop = right.stop
  BY <1>1 DEF VoiceType
<1>4. prog'.at = "stopped" /\ prog' \in ProgType  BY <1>1 DEF ProgType
<1>5. WavTypeOK'  BY <1>2, <1>3, <1>4 DEF WavInv, WavTypeOK
<1>6. PlaceInv(left, LeftStart)' /\ PlaceInv(right, RightStart)' /\ NoTear'
  BY <1>2, <1>3 DEF WavInv, PlaceInv, Inside, Tuned, NoTear, Follows
<1>7. KeyInv' /\ ~Running'  BY <1>2, <1>3, <1>4 DEF KeyInv, Running
<1> QED BY <1>5, <1>6, <1>7 DEF WavInv

\* What the program takes for the SPU's lead is the gap.
LEMMA AheadForm ==
  ASSUME Inside(left, LeftStart), prog.offs \in Blocks
  PROVE  Ahead = Gap(left, prog.offs)
<1>1. PICK o \in Blocks : o = prog.offs  OBVIOUS
<1>2. PICK p \in Int : p = left.play - LeftStart /\ p = left.play - left.start
  BY Sizes DEF Inside, Tuned
<1>3. Gap(left, prog.offs) = IF p < o THEN p - o + Ring ELSE p - o  BY <1>1, <1>2 DEF Gap, Offset
<1>4. Ahead = IF p - o < 0 THEN p - o + Ring ELSE p - o  BY <1>1, <1>2 DEF Ahead, Position
<1>5. o \in Nat  BY BlockForm
<1> QED BY <1>3, <1>4, <1>5

\* A block is begun: there is room for it.
LEMMA FillBeginsKeeps == ASSUME WavInv, FillBegins PROVE WavInv'
<1> USE DEF FillBegins
<1>1. Running /\ ~left.keyon /\ prog.at = "playing" /\ Ahead >= Block  BY DEF Room, Running
<1>2. PICK g \in ProgType : g = prog  BY DEF WavInv, WavTypeOK
<1>3. /\ prog' \in ProgType /\ prog'.at = "filling" /\ prog'.done = 0
      /\ prog'.offs = g.offs /\ prog'.size = g.size
  <2>1. prog' = [g EXCEPT !.at = "filling", !.done = 0]  BY <1>2
  <2>2. 0 \in 0 .. Block  BY EmptyPlace
  <2> QED BY <2>1, <2>2 DEF ProgType
<1>4. seen' \in [ticked : BOOLEAN, plays : Nat]
  <2>1. PICK e \in [ticked : BOOLEAN, plays : Nat] : e = seen  BY DEF WavInv, WavTypeOK
  <2>2. PICK t \in BOOLEAN : t = (frame.slot = "none")  OBVIOUS
  <2>3. seen' = [e EXCEPT !.ticked = t]  BY <2>1, <2>2, Zenon
  <2> HIDE DEF FillBegins
  <2> QED BY <2>3
<1>5. WavTypeOK'  BY <1>3, <1>4 DEF WavInv, WavTypeOK
<1>6. PlaceInv(left, LeftStart)' /\ PlaceInv(right, RightStart)' /\ NoTear'
  BY DEF WavInv, PlaceInv, Inside, Tuned, NoTear, Follows
<1>7. KeyInv'  BY <1>1, <1>3 DEF WavInv, KeyInv, Running
<1>8. PlayInv /\ Inside(left, LeftStart) /\ prog.offs \in Blocks  BY <1>1, Played
<1>9. PairInv'  BY <1>8 DEF PlayInv, PairInv, Offset, NextPlay, NextFrac
<1>10. GapInv'
  <2>1. Gap(left, prog.offs) >= Block  BY <1>1, <1>8, AheadForm
  <2>2. Gap(left, prog.offs)' = Gap(left, prog.offs)  BY <1>2, <1>3 DEF Gap, Offset
  <2> QED BY <1>8, <2>1, <2>2 DEF PlayInv, GapInv
<1>11. Written' = prog.offs /\ Written = prog.offs
  <2>1. prog.offs \in Int  BY <1>8, BlockForm
  <2> QED BY <1>1, <1>2, <1>3, <2>1 DEF Written
<1>12. RingOK(mem, prog.offs, Written, prog.size)'
  BY <1>2, <1>3, <1>8, <1>11 DEF PlayInv, RingOK, Pair, Follows
<1>13. CacheOK(left, mem, prog.offs)' /\ CacheOK(right, mem, prog.offs)' /\ NextInv'
  BY <1>2, <1>3, <1>8 DEF PlayInv, CacheOK, Held, Gap, Offset, NextInv
<1> QED BY <1>5, <1>6, <1>7, <1>9, <1>10, <1>12, <1>13 DEF WavInv, PlayInv

\* What is filled is out of reach.
LEMMA FillStays ==
  ASSUME WavInv, ~left.keyon, prog.at = "filling", mem' \in Memory,
         \A a \in Addresses \ Touched(prog.offs) : mem'[a] = mem[a],
         UNCHANGED <<left, right, frame, heard>>
  PROVE  /\ PairInv' /\ NextInv'
         /\ CacheOK(left, mem', prog.offs) /\ CacheOK(right, mem', prog.offs)
<1>1. /\ PlayInv /\ Inside(left, LeftStart) /\ Inside(right, RightStart)
      /\ prog.offs \in Blocks /\ mem \in Memory /\ left \in VoiceType /\ right \in VoiceType
      /\ frame.slot # "none" => Gap(left, prog.offs) <= Ring - 3
      /\ Gap(right, prog.offs) >= Block
  BY Played DEF Running
<1>2. Gap(left, prog.offs) >= Block  BY <1>1 DEF PlayInv, GapInv
<1>3. PICK o \in Blocks, l \in VoiceType, r \in VoiceType, m \in Memory, m2 \in Memory :
        o = prog.offs /\ l = left /\ r = right /\ m = mem /\ m2 = mem'
  BY <1>1
<1>4. \A a \in Addresses \ Touched(o) : m2[a] = m[a]  BY <1>3
<1>5. Inside(l, LeftStart) /\ Gap(l, o) >= Block /\ CacheOK(l, m, o)
  BY <1>1, <1>2, <1>3 DEF PlayInv
<1>6. Inside(r, RightStart) /\ Gap(r, o) >= Block /\ CacheOK(r, m, o)
  BY <1>1, <1>3 DEF PlayInv
<1>7. CacheOK(l, m2, o) /\ m2[l.play] = m[l.play]
      /\ (Gap(l, o) <= Ring - 3 => m2[l.play + 1] = m[l.play + 1])
  BY <1>4, <1>5, CacheStays
<1>8. CacheOK(r, m2, o)  BY <1>4, <1>6, CacheStays
<1>9. NextInv'  BY <1>1, <1>3, <1>7 DEF PlayInv, NextInv
<1>10. PairInv'
  <2>1. frame.slot = "left" => heard.right = <<m2[l.play], m2[l.play + 1]>>
    BY <1>1, <1>3, <1>7 DEF PlayInv, PairInv
  <2> QED BY <1>1, <1>3, <2>1 DEF PlayInv, PairInv, Offset, NextPlay, NextFrac
<1> QED BY <1>3, <1>7, <1>8, <1>9, <1>10

\* A sample is written to both rings, where no channel reads.
LEMMA FillSampleKeeps == ASSUME WavInv, FillSample PROVE WavInv'
<1>1. /\ prog.at = "filling" /\ prog.done < Block
      /\ mem' = [mem EXCEPT ![LeftStart + (prog.offs + prog.done)] = prog.size,
                            ![RightStart + (prog.offs + prog.done)] = prog.size]
      /\ prog' = [prog EXCEPT !.size = LesserOf(@ + 1, Length), !.done = @ + 1,
                              !.eof = prog.size >= Length]
      /\ UNCHANGED <<left, right, nextaddr, sync, frame, heard, seen>>
  BY DEF FillSample
<1>2. Running /\ ~left.keyon  BY <1>1 DEF WavInv, KeyInv, Running
<1>3. PICK g \in ProgType, m \in Memory : g = prog /\ m = mem
  BY DEF WavInv, WavTypeOK
<1>after. PICK m2 : m2 = mem'  OBVIOUS
<1>4. PICK o \in Blocks, k \in 0 .. Block - 1, n \in 0 .. Length, k2 \in 0 .. Block,
           n2 \in 0 .. Length :
        /\ o = g.offs /\ k = g.done /\ n = g.size /\ k2 = k + 1 /\ n2 = LesserOf(n + 1, Length)
  <2>1. g.offs \in Blocks /\ g.done \in 0 .. Block /\ g.size \in 0 .. Length /\ g.done < Block
    BY <1>1, <1>3 DEF ProgType
  <2>4. PICK o \in Blocks, k \in 0 .. Block - 1, n \in 0 .. Length :
          o = g.offs /\ k = g.done /\ n = g.size
    <3>1. g.done \in 0 .. Block - 1  BY <2>1, Sizes
    <3> QED BY <2>1, <3>1, Zenon
  <2>2. LesserOf(n + 1, Length) \in 0 .. Length  BY Sizes DEF LesserOf
  <2>3. k + 1 \in 0 .. Block  BY Sizes
  <2> QED BY <2>2, <2>3, <2>4, Zenon
<1>5. m2 = [m EXCEPT ![LeftStart + (o + k)] = n, ![RightStart + (o + k)] = n]
  BY <1>1, <1>3, <1>after, <1>4, Zenon
<1>6. PlayInv  BY <1>2, Played
<1>7. RingOK(m, o, o + k, n)
  <2>1. Written = o + k  BY <1>1, <1>3, <1>4, Zenon DEF Written
  <2>2. RingOK(mem, prog.offs, Written, prog.size)  BY <1>6 DEF PlayInv
  <2> QED BY <1>3, <1>4, <2>1, <2>2, Zenon
<1>8. m2 \in Memory /\ RingOK(m2, o, o + k + 1, LesserOf(n + 1, Length))
      /\ \A a \in Addresses \ Touched(o) : m2[a] = m[a]
  <2>1. PICK w : w = o + k  OBVIOUS
  <2>2. RingOK(m, o, w, n) /\ m2 = Stored(m, w, n)  BY <1>5, <1>7, <2>1, Zenon DEF Stored
  <2>3. m2 \in Memory /\ RingOK(m2, o, w + 1, LesserOf(n + 1, Length))
        /\ \A a \in Addresses \ Touched(o) : m2[a] = m[a]
    BY <2>1, <2>2, RingFilled
  <2> QED BY <2>1, <2>3, Zenon
<1>9. /\ prog' \in ProgType /\ prog'.at = "filling" /\ prog'.offs = o
      /\ prog'.size = n2 /\ prog'.done = k2
  <2>1. PICK e \in BOOLEAN : e = (n >= Length)
    <3>1. CASE n >= Length
      <4>1. TRUE = (n >= Length)  BY <3>1, Zenon
      <4> QED BY <4>1, Zenon
    <3>2. CASE ~(n >= Length)
      <4>1. FALSE = (n >= Length)  BY <3>2
      <4> QED BY <4>1, Zenon
    <3> QED BY <3>1, <3>2, Zenon
  <2>2. prog' = [g EXCEPT !.size = n2, !.done = k2, !.eof = e]
    BY <1>1, <1>3, <1>4, <2>1, Zenon
  <2> QED BY <1>1, <1>3, <1>4, <2>2 DEF ProgType
<1>10. WavTypeOK'  BY <1>1, <1>3, <1>after, <1>8, <1>9 DEF WavInv, WavTypeOK
<1>11. PlaceInv(left, LeftStart)' /\ PlaceInv(right, RightStart)' /\ NoTear'
  BY <1>1 DEF WavInv, PlaceInv, Inside, Tuned, NoTear, Follows
<1>12. KeyInv'  BY <1>1, <1>2, <1>9 DEF WavInv, KeyInv, Running
<1>13. /\ PairInv' /\ NextInv'
       /\ CacheOK(left, mem', prog.offs) /\ CacheOK(right, mem', prog.offs)
  BY <1>1, <1>2, <1>3, <1>after, <1>4, <1>8, FillStays
<1>14. CacheOK(left, mem, prog.offs)' /\ CacheOK(right, mem, prog.offs)'
  <2>1. left' = left /\ right' = right /\ prog'.offs = prog.offs
    BY <1>1, <1>3, <1>4, <1>9
  <2> QED BY <1>13, <2>1 DEF CacheOK, Held, Gap, Offset
<1>15. GapInv'
  BY <1>1, <1>3, <1>4, <1>6, <1>9 DEF PlayInv, GapInv, Gap, Offset
<1>16. RingOK(mem, prog.offs, Written, prog.size)'
  <2>1. Written' = o + k + 1
    <3>1. Written' = o + k2  BY <1>9 DEF Written
    <3>2. o \in Nat  BY BlockForm
    <3> QED BY <1>4, <3>1, <3>2, Sizes
  <2>2. RingOK(m2, o, Written', n2)  BY <1>4, <1>8, <2>1
  <2> QED BY <1>3, <1>after, <1>9, <2>2 DEF RingOK, Pair, Follows
<1> QED BY <1>10, <1>11, <1>12, <1>13, <1>14, <1>15, <1>16 DEF WavInv, PlayInv

\* A block ends, and with the first one the word behind the ring is written.
LEMMA FillEndsKeeps == ASSUME WavInv, FillEnds PROVE WavInv'
<1>1. /\ prog.at = "filling" /\ prog.done = Block /\ mem' = EndCopied
      /\ prog' = [prog EXCEPT !.at = "playing", !.offs = (@ + Block) % Ring]
      /\ UNCHANGED <<left, right, nextaddr, sync, frame, heard, seen>>
  BY DEF FillEnds
<1>2. Running /\ ~left.keyon  BY <1>1 DEF WavInv, KeyInv, Running
<1>3. PICK g \in ProgType, m \in Memory : g = prog /\ m = mem
  BY DEF WavInv, WavTypeOK
<1>after. PICK m2 : m2 = mem'  OBVIOUS
<1>4. PICK o \in Blocks, n \in 0 .. Length, q \in Blocks :
        o = g.offs /\ n = g.size /\ q = (o + Block) % Ring
  BY <1>3, BlockForm DEF ProgType
<1>5. m2 = Ended(m, o)  BY <1>1, <1>3, <1>after, <1>4 DEF Ended, EndCopied
<1>6. /\ PlayInv /\ Inside(left, LeftStart) /\ Inside(right, RightStart)
      /\ Gap(left, prog.offs) \in 0 .. Ring - 1
  BY <1>2, Played
<1>7. RingOK(m, o, o + Block, n)
  <2>1. Written = o + Block  BY <1>1, <1>3, <1>4, Zenon DEF Written
  <2>2. RingOK(mem, prog.offs, Written, prog.size)  BY <1>6 DEF PlayInv
  <2> QED BY <1>3, <1>4, <2>1, <2>2, Zenon
<1>8. m2 \in Memory /\ RingOK(m2, (o + Block) % Ring, (o + Block) % Ring, n)
      /\ \A a \in Addresses \ Touched(o) : m2[a] = m[a]
  BY <1>5, <1>7, RingEnds
<1>9. prog' \in ProgType /\ prog'.at = "playing" /\ prog'.offs = q /\ prog'.size = n
  <2>1. prog' = [g EXCEPT !.at = "playing", !.offs = q]  BY <1>1, <1>3, <1>4, Zenon
  <2> QED BY <1>4, <2>1 DEF ProgType
<1>10. WavTypeOK'  BY <1>1, <1>3, <1>after, <1>8, <1>9 DEF WavInv, WavTypeOK
<1>11. PlaceInv(left, LeftStart)' /\ PlaceInv(right, RightStart)' /\ NoTear'
  BY <1>1 DEF WavInv, PlaceInv, Inside, Tuned, NoTear, Follows
<1>12. KeyInv'  BY <1>1, <1>2, <1>9 DEF WavInv, KeyInv, Running
<1>13. /\ PairInv' /\ NextInv'
       /\ CacheOK(left, mem', prog.offs) /\ CacheOK(right, mem', prog.offs)
  BY <1>1, <1>2, <1>3, <1>after, <1>4, <1>8, FillStays
<1>14. /\ Gap(left, q) <= Ring - 4 /\ Gap(right, q) <= Ring - 4
  <2>1. PICK l, r : l = left /\ r = right  OBVIOUS
  <2>2. Inside(l, LeftStart) /\ Inside(r, RightStart) /\ Gap(l, o) >= Block /\ Gap(r, o) >= Block
    <3>1. Gap(right, prog.offs) >= Block  BY <1>1, <1>2, Played
    <3> QED BY <1>1, <1>3, <1>4, <1>6, <2>1, <3>1 DEF PlayInv, GapInv
  <2>3. Gap(l, q) = Gap(l, o) - Block /\ Gap(r, q) = Gap(r, o) - Block
    BY <1>4, <2>2, GapFilled
  <2>4. Gap(l, o) \in 0 .. Ring - 1 /\ Gap(r, o) \in 0 .. Ring - 1  BY <2>2, GapForm
  <2> QED BY <2>1, <2>3, <2>4, Sizes DEF Line
<1>15. CacheOK(left, mem, prog.offs)' /\ CacheOK(right, mem, prog.offs)'
  <2>1. ASSUME NEW v \in {left, right} PROVE Gap(v, q) <= Ring - 3
    <3>1. Gap(v, q) <= Ring - 4 /\ Gap(v, q) \in Int  BY <1>4, <1>6, <1>14, <2>1, GapForm
    <3> QED BY <3>1, Sizes
  <2>2. CacheOK(left, mem', q) /\ CacheOK(right, mem', q)
    BY <1>13, <2>1 DEF CacheOK
  <2> QED BY <1>1, <1>9, <2>2 DEF CacheOK, Held, Gap, Offset
<1>16. GapInv'
  <2>1. Gap(left', prog'.offs) <= Ring - 3
    <3>1. Gap(left, q) \in Int
      <4>1. PICK l : l = left  OBVIOUS
      <4> QED BY <1>6, <4>1, GapForm
    <3> QED BY <1>1, <1>9, <1>14, <3>1, Sizes
  <2> QED BY <1>9, <2>1 DEF GapInv
<1>17. RingOK(mem, prog.offs, Written, prog.size)'
  <2>1. Written' = q  BY <1>9 DEF Written
  <2>2. RingOK(m2, q, q, n)  BY <1>4, <1>8
  <2> QED BY <1>3, <1>after, <1>9, <2>1, <2>2 DEF RingOK, Pair, Follows
<1> QED BY <1>10, <1>11, <1>12, <1>13, <1>15, <1>16, <1>17 DEF WavInv, PlayInv

\* Whatever a slot does, its voice stays in its ring.
LEMMA VoiceTyped ==
  ASSUME NEW s \in {LeftStart, RightStart}, NEW v \in VoiceType, PlaceInv(v, s),
         NEW m \in Memory, NEW n \in Int, NEW y \in BOOLEAN, NEW w, w = Voice(v, y, m, n)
  PROVE  /\ w \in VoiceType /\ PlaceInv(w, s)
         /\ Sounds(v) => WaveRead(v, m).words \in Sample \X Sample
<1>1. v.keyoff \in BOOLEAN /\ v.keyon \in BOOLEAN /\ v.busy \in BOOLEAN  BY DEF VoiceType
<1>2. ASSUME v.keyoff \/ (~KeyTaken(v, y) /\ ~v.busy) PROVE w \in VoiceType /\ PlaceInv(w, s)
  BY <1>2, VoiceRests
<1>3. ASSUME ~v.keyoff, KeyTaken(v, y) PROVE w \in VoiceType /\ PlaceInv(w, s)
  BY <1>3, VoiceKeyed
<1>4. ASSUME ~v.keyoff, ~KeyTaken(v, y), v.busy PROVE w \in VoiceType /\ PlaceInv(w, s)
  BY <1>4, VoiceGoesOn
<1>5. Sounds(v) => WaveRead(v, m).words \in Sample \X Sample  BY ReadTyped DEF Sounds, PlaceInv
<1> QED BY <1>1, <1>2, <1>3, <1>4, <1>5

\* A slot of a song that has not begun.
LEMMA VoiceOlder ==
  ASSUME NEW s \in {LeftStart, RightStart}, NEW v \in VoiceType, PlaceInv(v, s), ~v.keyoff,
         NEW m \in Memory, m = NoneStored, v.cache = NoneRead,
         NEW n \in Int, NEW y \in BOOLEAN, NEW w, w = Voice(v, y, m, n)
  PROVE  /\ w.cache = NoneRead /\ ~w.keyoff /\ w.freq = v.freq
         /\ v.busy => WaveRead(v, m).words = NoneHeard
         /\ ~KeyTaken(v, y) => w.keyon = v.keyon
         /\ KeyTaken(v, y) => /\ ~w.keyon /\ w.busy /\ w.play = s /\ w.start = s /\ w.frac = 0
                            /\ w.full /\ ~w.half
<1>1. v.busy => WaveRead(v, m).cache = NoneRead /\ WaveRead(v, m).words = NoneHeard
  BY ReadsOlder DEF PlaceInv
<1>2. v.keyon \in BOOLEAN /\ v.busy \in BOOLEAN  BY DEF VoiceType
<1>3. CASE KeyTaken(v, y)
  <2>1. ~w.keyon /\ w.busy /\ w.full /\ ~w.half /\ ~w.keyoff  BY <1>3, VoiceKeyed
  <2>2. /\ w.freq = v.freq /\ w.play = s /\ w.start = s /\ w.frac = 0
        /\ v.busy => w.cache = WaveRead(v, m).cache
        /\ ~v.busy => w.cache = v.cache
    BY <1>3, VoiceKeyed
  <2> QED BY <1>1, <1>3, <2>1, <2>2
<1>4. CASE ~KeyTaken(v, y) /\ v.busy
  <2>1. w.cache = WaveRead(v, m).cache /\ ~w.keyoff /\ w.freq = v.freq /\ w.keyon = v.keyon
    BY <1>4, VoiceGoesOn
  <2> QED BY <1>1, <1>4, <2>1
<1>5. CASE ~KeyTaken(v, y) /\ ~v.busy
  <2>1. w.cache = v.cache /\ ~w.keyoff /\ w.freq = v.freq /\ w.keyon = v.keyon
    BY <1>5, VoiceRests
  <2> QED BY <1>1, <1>5, <2>1
<1> QED BY <1>2, <1>3, <1>4, <1>5

\* What a slot does to the types.
LEMMA RightSlotTyped ==
  ASSUME WavInv, RightSlot
  PROVE  WavTypeOK' /\ PlaceInv(left, LeftStart)' /\ PlaceInv(right, RightStart)'
<1>1. /\ frame' = [frame EXCEPT !.slot = "left"]
      /\ right' = Voice(right, frame.sync, mem, nextaddr) /\ nextaddr' = right'.play
      /\ heard' = IF Sounds(right)
                  THEN [heard EXCEPT !.right = WaveRead(right, mem).words] ELSE heard
      /\ UNCHANGED <<mem, left, sync, prog, seen>>
  BY DEF RightSlot
<1>2. PICK r \in VoiceType, m \in Memory, n \in Int, y \in BOOLEAN :
        r = right /\ m = mem /\ n = nextaddr /\ y = frame.sync
  BY DEF WavInv, WavTypeOK
<1>after. PICK w : w = right'  OBVIOUS
<1>3. w = Voice(r, y, m, n)  BY <1>1, <1>2, <1>after, Zenon
<1>4. PlaceInv(r, RightStart)  BY <1>2 DEF WavInv
<1>5. /\ w \in VoiceType /\ PlaceInv(w, RightStart)
      /\ Sounds(r) => WaveRead(r, m).words \in Sample \X Sample
  BY <1>3, <1>4, VoiceTyped
<1>6. PICK h \in [left : Sample \X Sample, right : Sample \X Sample] : h = heard
  BY DEF WavInv, WavTypeOK
<1>13. PICK q : q = WaveRead(r, m).words  OBVIOUS
<1>7. heard' \in [left : Sample \X Sample, right : Sample \X Sample]
  <2>1. CASE Sounds(r)
    <3>1. heard' = [h EXCEPT !.right = q]  BY <1>1, <1>2, <1>6, <1>13, <2>1, Zenon
    <3>2. q \in Sample \X Sample  BY <1>5, <1>13, <2>1
    <3> QED BY <3>1, <3>2
  <2>2. CASE ~Sounds(r)
    <3>1. heard' = h  BY <1>1, <1>2, <1>6, <2>2, Zenon
    <3> QED BY <3>1
  <2> QED BY <2>1, <2>2
<1>8. frame' \in [slot : {"none", "right", "left"}, sync : BOOLEAN]
  BY <1>1 DEF WavInv, WavTypeOK
<1>9. nextaddr' \in Int  BY <1>1, <1>2, <1>after, <1>5 DEF VoiceType
<1>10. WavTypeOK'  BY <1>1, <1>2, <1>after, <1>5, <1>7, <1>8, <1>9 DEF WavInv, WavTypeOK
<1>11. PlaceInv(left, LeftStart)' /\ PlaceInv(right, RightStart)'
  BY <1>1, <1>2, <1>after, <1>5 DEF WavInv, PlaceInv, Inside, Tuned
<1> QED BY <1>10, <1>11

\* The same of the left slot.
LEMMA LeftSlotTyped ==
  ASSUME WavInv, LeftSlot
  PROVE  WavTypeOK' /\ PlaceInv(left, LeftStart)' /\ PlaceInv(right, RightStart)'
<1>1. /\ frame' = [slot |-> "none", sync |-> FALSE]
      /\ left' = Voice(left, frame.sync, mem, nextaddr) /\ nextaddr' = left'.play
      /\ heard' = IF Sounds(left)
                  THEN [heard EXCEPT !.left = WaveRead(left, mem).words] ELSE heard
      /\ seen' = [seen EXCEPT !.ticked = TRUE]
      /\ UNCHANGED <<mem, right, sync, prog>>
  BY DEF LeftSlot
<1>2. PICK l \in VoiceType, m \in Memory, n \in Int, y \in BOOLEAN :
        l = left /\ m = mem /\ n = nextaddr /\ y = frame.sync
  BY DEF WavInv, WavTypeOK
<1>after. PICK w : w = left'  OBVIOUS
<1>3. w = Voice(l, y, m, n)  BY <1>1, <1>2, <1>after, Zenon
<1>4. PlaceInv(l, LeftStart)  BY <1>2 DEF WavInv
<1>5. /\ w \in VoiceType /\ PlaceInv(w, LeftStart)
      /\ Sounds(l) => WaveRead(l, m).words \in Sample \X Sample
  BY <1>3, <1>4, VoiceTyped
<1>6. PICK h \in [left : Sample \X Sample, right : Sample \X Sample] : h = heard
  BY DEF WavInv, WavTypeOK
<1>13. PICK q : q = WaveRead(l, m).words  OBVIOUS
<1>7. heard' \in [left : Sample \X Sample, right : Sample \X Sample]
  <2>1. CASE Sounds(l)
    <3>1. heard' = [h EXCEPT !.left = q]  BY <1>1, <1>2, <1>6, <1>13, <2>1, Zenon
    <3>2. q \in Sample \X Sample  BY <1>5, <1>13, <2>1
    <3> QED BY <3>1, <3>2
  <2>2. CASE ~Sounds(l)
    <3>1. heard' = h  BY <1>1, <1>2, <1>6, <2>2, Zenon
    <3> QED BY <3>1
  <2> QED BY <2>1, <2>2
<1>8. frame' \in [slot : {"none", "right", "left"}, sync : BOOLEAN]  BY <1>1
<1>9. nextaddr' \in Int  BY <1>1, <1>2, <1>after, <1>5 DEF VoiceType
<1>10. seen' \in [ticked : BOOLEAN, plays : Nat]  BY <1>1 DEF WavInv, WavTypeOK
<1>11. WavTypeOK'  BY <1>1, <1>2, <1>after, <1>5, <1>7, <1>8, <1>9, <1>10 DEF WavInv, WavTypeOK
<1>12. PlaceInv(left, LeftStart)' /\ PlaceInv(right, RightStart)'
  BY <1>1, <1>2, <1>after, <1>5 DEF WavInv, PlaceInv, Inside, Tuned
<1> QED BY <1>11, <1>12

\* Both channels read the same.
LEMMA Twins ==
  ASSUME NEW l \in VoiceType, NEW r \in VoiceType,
         Inside(l, LeftStart), Inside(r, RightStart),
         Offset(r) = Offset(l), r.frac = l.frac, r.freq = l.freq,
         NEW m \in Memory, \A a \in 0 .. Ring : m[RightStart + a] = m[LeftStart + a]
  PROVE  /\ m[r.play] = m[l.play] /\ m[r.play + 1] = m[l.play + 1]
         /\ NextPlay(r) - RightStart = NextPlay(l) - LeftStart /\ NextFrac(r) = NextFrac(l)
<1> USE Sizes DEF Line
<1>1. PICK p \in 0 .. Ring - 1 : l.play = LeftStart + p /\ r.play = RightStart + p
  BY DEF Inside, Tuned, Offset
<1>2. m[r.play] = m[l.play] /\ m[r.play + 1] = m[l.play + 1]
  <2>1. p \in 0 .. Ring /\ p + 1 \in 0 .. Ring  OBVIOUS
  <2>2. /\ m[RightStart + p] = m[LeftStart + p]
        /\ m[RightStart + (p + 1)] = m[LeftStart + (p + 1)]
    BY <2>1
  <2>3. l.play + 1 = LeftStart + (p + 1) /\ r.play + 1 = RightStart + (p + 1)  BY <1>1
  <2> QED BY <1>1, <2>2, <2>3
<1>3. PICK d \in 0 .. 2 :
        /\ d = (l.frac + l.freq) \div Frac
        /\ NextPlay(l) = IF l.play + d > LeftStart + Ring - 1 THEN l.play + d - Ring
                         ELSE l.play + d
  BY StepForm
<1>4. PICK e \in 0 .. 2 :
        /\ e = (r.frac + r.freq) \div Frac
        /\ NextPlay(r) = IF r.play + e > RightStart + Ring - 1 THEN r.play + e - Ring
                         ELSE r.play + e
  BY StepForm
<1>5. e = d  BY <1>3, <1>4
<1>6. NextPlay(r) - RightStart = NextPlay(l) - LeftStart  BY <1>1, <1>3, <1>4, <1>5
<1> QED BY <1>2, <1>6 DEF NextFrac

\* A slot of a song that has been stopped.
LEMMA StoppedSilent ==
  ASSUME WavInv, prog.at = "stopped",
         NEW v, NEW y \in BOOLEAN, NEW m, NEW n, NEW w,
         v = left \/ v = right, w = Voice(v, y, m, n)
  PROVE  ~Sounds(v) /\ ~w.busy /\ ~w.keyon /\ ~w.keyoff
<1>1. v \in VoiceType /\ (v.keyoff \/ ~v.busy) /\ ~v.keyon
  BY DEF WavInv, WavTypeOK, KeyInv
<1>2. PICK c : w = Rested(v, c, n)
  <2>1. ~KeyTaken(v, y)  BY <1>1 DEF KeyTaken
  <2> QED BY <1>1, <2>1 DEF Voice
<1>3. w = [v EXCEPT !.busy = FALSE, !.keyoff = FALSE, !.play = n,
                    !.cache = c, !.full = FALSE, !.half = FALSE]
  BY <1>2 DEF Rested
<1>4. ~w.busy /\ w.keyon = v.keyon /\ ~w.keyoff  BY <1>1, <1>3 DEF VoiceType
<1> QED BY <1>1, <1>4 DEF Sounds

\* The right channel's slot of a song that has not begun.
LEMMA RightSlotOlder ==
  ASSUME WavInv, RightSlot, left.keyon, prog.at # "stopped"
  PROVE  KeyInv' /\ NoTear'
<1>1. /\ frame' = [frame EXCEPT !.slot = "left"] /\ frame.slot = "right"
      /\ right' = Voice(right, frame.sync, mem, nextaddr)
      /\ heard' = IF Sounds(right)
                  THEN [heard EXCEPT !.right = WaveRead(right, mem).words] ELSE heard
      /\ UNCHANGED <<mem, left, sync, prog>>
  BY DEF RightSlot
<1>2. PICK r \in VoiceType, m \in Memory, n \in Int, y \in BOOLEAN :
        r = right /\ m = mem /\ n = nextaddr /\ y = frame.sync
  BY DEF WavInv, WavTypeOK
<1>after. PICK w : w = right'  OBVIOUS
<1>3. w = Voice(r, y, m, n)  BY <1>1, <1>2, <1>after, Zenon
<1>4. PlaceInv(r, RightStart)  BY <1>2 DEF WavInv
<1>5. /\ AllOlder /\ ~left.keyoff /\ ~r.keyoff /\ left.keyon \in BOOLEAN /\ sync \in BOOLEAN
      /\ r.keyon \in BOOLEAN /\ r.busy \in BOOLEAN
  BY <1>2 DEF WavInv, KeyInv, WavTypeOK, VoiceType
<1>6. m = NoneStored /\ r.cache = NoneRead  BY <1>2, <1>5 DEF AllOlder
<1>7. /\ w.cache = NoneRead /\ ~w.keyoff /\ w.freq = r.freq
      /\ r.busy => WaveRead(r, m).words = NoneHeard
      /\ ~KeyTaken(r, y) => w.keyon = r.keyon
      /\ KeyTaken(r, y) => /\ ~w.keyon /\ w.busy /\ w.play = RightStart /\ w.start = RightStart
                           /\ w.frac = 0 /\ w.full /\ ~w.half
  BY <1>3, <1>4, <1>5, <1>6, VoiceOlder
<1>8. heard' = heard
  <2>1. heard = [left |-> NoneHeard, right |-> NoneHeard]  BY <1>5 DEF AllOlder
  <2>2. Sounds(r) => WaveRead(r, m).words = NoneHeard  BY <1>7 DEF Sounds
  <2>3. CASE Sounds(r)
    <3>1. heard' = [heard EXCEPT !.right = NoneHeard]  BY <1>1, <1>2, <2>2, <2>3, Zenon
    <3> QED BY <2>1, <3>1
  <2>4. CASE ~Sounds(r)  BY <1>1, <1>2, <2>4, Zenon
  <2> QED BY <2>3, <2>4
<1>9. NoTear'  BY <1>8 DEF WavInv, NoTear, Follows
<1>10. AllOlder'  BY <1>1, <1>2, <1>after, <1>5, <1>7, <1>8 DEF AllOlder
<1>11. frame'.slot = "left" /\ frame'.sync = y
  BY <1>1, <1>2 DEF WavInv, WavTypeOK
<1>12. w.keyon \in BOOLEAN  BY <1>2, <1>after, RightSlotTyped DEF WavTypeOK, VoiceType
<1>13. CASE KeyTaken(r, y)
  <2>1. r.keyon /\ y  BY <1>13 DEF KeyTaken
  <2>2. /\ Running /\ ~sync /\ prog.at = "playing" /\ right.freq = left.freq
    BY <1>2, <1>5, <2>1 DEF WavInv, KeyInv, Running, WavTypeOK, ProgType
  <2>3. KeyInv'
    BY <1>1, <1>2, <1>after, <1>5, <1>7, <1>10, <1>11, <1>12, <1>13, <2>1, <2>2 DEF KeyInv, Running
  <2> QED BY <1>9, <2>3
<1>14. CASE ~KeyTaken(r, y)
  <2>1. ~(r.keyon /\ y)  BY <1>14 DEF KeyTaken
  <2>2. Running => r.keyon /\ sync /\ ~y /\ prog.at = "playing" /\ right.freq = left.freq
    BY <1>1, <1>2, <1>5, <2>1 DEF WavInv, KeyInv
  <2>3. prog.at \in {"key right", "sync"} => ~sync /\ ~y
    BY <1>2 DEF WavInv, KeyInv
  <2>4. prog.at = "sync" => r.keyon /\ right.freq = left.freq
    BY <1>2 DEF WavInv, KeyInv
  <2>5. KeyInv'
    BY <1>1, <1>2, <1>after, <1>5, <1>7, <1>10, <1>11, <1>12, <1>14, <2>2, <2>3, <2>4 DEF KeyInv, Running
  <2> QED BY <1>9, <2>5
<1> QED BY <1>13, <1>14

\* The left channel's slot: with the key taken both are at the start of their rings.
LEMMA LeftSlotOlder ==
  ASSUME WavInv, LeftSlot, left.keyon, prog.at # "stopped"
  PROVE  /\ KeyInv' /\ NoTear' /\ (~left'.keyon => PlayInv')
         /\ heard' = heard
<1>1. /\ frame' = [slot |-> "none", sync |-> FALSE] /\ frame.slot = "left"
      /\ left' = Voice(left, frame.sync, mem, nextaddr)
      /\ heard' = IF Sounds(left)
                  THEN [heard EXCEPT !.left = WaveRead(left, mem).words] ELSE heard
      /\ UNCHANGED <<mem, right, sync, prog>>
  BY DEF LeftSlot
<1>2. PICK l \in VoiceType, m \in Memory, n \in Int, y \in BOOLEAN :
        l = left /\ m = mem /\ n = nextaddr /\ y = frame.sync
  BY DEF WavInv, WavTypeOK
<1>after. PICK w : w = left'  OBVIOUS
<1>3. w = Voice(l, y, m, n)  BY <1>1, <1>2, <1>after, Zenon
<1>4. PlaceInv(l, LeftStart)  BY <1>2 DEF WavInv
<1>5. /\ AllOlder /\ ~l.keyoff /\ ~right.keyoff /\ l.keyon /\ right.keyon \in BOOLEAN
      /\ l.busy \in BOOLEAN /\ sync \in BOOLEAN
  BY <1>2 DEF WavInv, KeyInv, WavTypeOK, VoiceType
<1>6. m = NoneStored /\ l.cache = NoneRead  BY <1>2, <1>5 DEF AllOlder
<1>7. /\ w.cache = NoneRead /\ ~w.keyoff /\ w.freq = l.freq
      /\ l.busy => WaveRead(l, m).words = NoneHeard
      /\ ~KeyTaken(l, y) => w.keyon = l.keyon
      /\ KeyTaken(l, y) => /\ ~w.keyon /\ w.busy /\ w.play = LeftStart /\ w.start = LeftStart
                           /\ w.frac = 0 /\ w.full /\ ~w.half
  <2>1. ~l.keyoff  BY <1>5
  <2> QED BY <1>3, <1>4, <1>6, <2>1, VoiceOlder
<1>8. heard' = heard /\ heard = [left |-> NoneHeard, right |-> NoneHeard]
  <2>1. heard = [left |-> NoneHeard, right |-> NoneHeard]  BY <1>5 DEF AllOlder
  <2>2. Sounds(l) => WaveRead(l, m).words = NoneHeard  BY <1>7 DEF Sounds
  <2>3. CASE Sounds(l)
    <3>1. heard' = [heard EXCEPT !.left = NoneHeard]  BY <1>1, <1>2, <2>2, <2>3, Zenon
    <3> QED BY <2>1, <3>1
  <2>4. CASE ~Sounds(l)  BY <1>1, <1>2, <2>1, <2>4, Zenon
  <2> QED BY <2>3, <2>4
<1>9. NoTear'  BY <1>8 DEF WavInv, NoTear, Follows
<1>10. AllOlder'  BY <1>1, <1>2, <1>after, <1>5, <1>7, <1>8 DEF AllOlder
<1>11. KeyTaken(l, y) = y  BY <1>5 DEF KeyTaken
<1>12. w.keyon \in BOOLEAN  BY <1>2, <1>after, LeftSlotTyped DEF WavTypeOK, VoiceType
<1>13. CASE y
  <2>1. /\ Running /\ ~sync /\ prog.at = "playing" /\ right.freq = l.freq /\ ~right.keyon
        /\ right.busy /\ right.full /\ ~right.half /\ right.play = RightStart /\ right.frac = 0
    BY <1>1, <1>2, <1>5, <1>13 DEF WavInv, KeyInv, Running, WavTypeOK, ProgType
  <2>2. ~w.keyon /\ w.busy /\ w.play = LeftStart /\ w.start = LeftStart
        /\ w.frac = 0 /\ w.full /\ ~w.half /\ w.freq = l.freq
    BY <1>7, <1>11, <1>13
  <2>3. KeyInv'
    BY <1>1, <1>2, <1>after, <1>5, <1>7, <1>12, <2>1, <2>2 DEF KeyInv, Running
  <2>4. right.start = RightStart  BY <2>1 DEF WavInv, PlaceInv, Inside, Tuned
  <2>5. PairInv'
    <3>1. RightStart - RightStart = LeftStart - LeftStart  BY Sizes
    <3> QED BY <1>1, <1>2, <1>after, <1>8, <2>1, <2>2, <2>4, <3>1 DEF PairInv, Offset
  <2>6. GapInv'  BY <1>1, <2>1 DEF GapInv
  <2>7. CacheOK(left, mem, prog.offs)' /\ CacheOK(right, mem, prog.offs)'
    BY <1>1, <1>2, <1>after, <2>1, <2>2 DEF CacheOK
  <2>8. RingOK(mem, prog.offs, Written, prog.size)'
    <3>1. RingOK(m, 0, 0, 0)  BY <1>6, OlderRing
    <3>2. Written' = 0 /\ prog'.offs = 0 /\ prog'.size = 0
      BY <1>1, <1>5, <2>1 DEF Written, AllOlder
    <3> QED BY <1>1, <1>2, <3>1, <3>2 DEF RingOK, Pair, Follows
  <2>9. NextInv'
    <3>1. LeftStart \in Addresses  BY Sizes DEF Addresses, Line
    <3>2. m[LeftStart] = Older  BY <1>6, <3>1 DEF NoneStored
    <3>3. Older \in Older .. Older + 2  BY DEF Older
    <3> QED BY <1>1, <1>2, <1>after, <1>8, <2>2, <3>2, <3>3 DEF NextInv, NoneHeard
  <2>10. PlayInv'  BY <2>5, <2>6, <2>7, <2>8, <2>9 DEF PlayInv
  <2> QED BY <1>8, <1>9, <2>3, <2>10
<1>14. CASE ~y
  <2>1. w.keyon  BY <1>5, <1>7, <1>11, <1>14
  <2>2. Running => right.keyon /\ sync /\ prog.at = "playing" /\ right.freq = l.freq
    BY <1>1, <1>2, <1>5, <1>14 DEF WavInv, KeyInv
  <2>3. prog.at \in {"key right", "sync"} => ~sync
    BY <1>2 DEF WavInv, KeyInv
  <2>4. prog.at = "sync" => right.keyon /\ right.freq = l.freq
    BY <1>2 DEF WavInv, KeyInv
  <2>5. KeyInv'
    BY <1>1, <1>2, <1>after, <1>5, <1>7, <1>10, <1>12, <2>1, <2>2, <2>3, <2>4 DEF KeyInv, Running
  <2> QED BY <1>2, <1>after, <1>8, <1>9, <2>1, <2>5
<1> QED BY <1>13, <1>14

\* The right channel's slot of a song that is played.
LEMMA RightSlotPlays ==
  ASSUME WavInv, RightSlot, ~left.keyon, prog.at # "stopped"
  PROVE  KeyInv' /\ NoTear' /\ PlayInv'
<1>1. /\ frame' = [frame EXCEPT !.slot = "left"] /\ frame.slot = "right"
      /\ right' = Voice(right, frame.sync, mem, nextaddr)
      /\ heard' = IF Sounds(right)
                  THEN [heard EXCEPT !.right = WaveRead(right, mem).words] ELSE heard
      /\ UNCHANGED <<mem, left, sync, prog>>
  BY DEF RightSlot
<1>2. Running  BY DEF WavInv, KeyInv, Running, WavTypeOK, ProgType
<1>3. /\ PlayInv /\ Inside(left, LeftStart) /\ Inside(right, RightStart)
      /\ ~left.keyoff /\ ~right.keyoff /\ ~right.keyon /\ ~sync /\ ~frame.sync
      /\ left.busy /\ right.busy
      /\ Gap(left, prog.offs) <= Ring - 3 /\ Gap(right, prog.offs) = Gap(left, prog.offs)
      /\ Written \in prog.offs .. prog.offs + Block
      /\ Written = prog.offs \/ Gap(left, prog.offs) >= Block
  BY <1>1, <1>2, Played
<1>4. PICK l \in VoiceType, r \in VoiceType, m \in Memory, n \in Int, y \in BOOLEAN,
           o \in Blocks :
        /\ l = left /\ r = right /\ m = mem /\ n = nextaddr /\ y = frame.sync
        /\ o = prog.offs
  <2>1. /\ left \in VoiceType /\ right \in VoiceType /\ mem \in Memory /\ nextaddr \in Int
        /\ frame.sync \in BOOLEAN /\ prog.offs \in Blocks
    BY DEF WavInv, WavTypeOK, ProgType
  <2> QED BY <2>1
<1>after. PICK w, z : w = right' /\ z = Written  OBVIOUS
<1>5. w = Voice(r, y, m, n)  BY <1>1, <1>4, <1>after, Zenon
<1>6. Inside(l, LeftStart) /\ Inside(r, RightStart) /\ PlaceInv(r, RightStart)
  BY <1>3, <1>4 DEF WavInv
<1>7. ~KeyTaken(r, y)  BY <1>3, <1>4 DEF KeyTaken
<1>8. /\ w = Onward(r, WaveRead(r, m)) /\ w \in VoiceType
      /\ w.busy /\ w.keyon = r.keyon /\ ~w.keyoff /\ w.freq = r.freq /\ w.start = RightStart
      /\ w.play = NextPlay(r) /\ w.frac = NextFrac(r)
  BY <1>3, <1>4, <1>5, <1>6, <1>7, VoiceGoesOn
<1>9. CacheOK(r, m, o) /\ Gap(r, o) <= Ring - 3 /\ Gap(l, o) <= Ring - 3 /\ RingOK(m, o, z, prog.size)
  BY <1>3, <1>4, <1>after DEF PlayInv
<1>10. WaveRead(r, m).words = <<m[r.play], m[r.play + 1]>>
  <2>1. o \in Int  BY BlockForm
  <2> QED BY <1>6, <1>9, <2>1, ReadsMemory
<1>11. CacheOK(w, m, o)
  <2>1. o \in Int  BY BlockForm
  <2> QED BY <1>6, <1>8, <1>9, <2>1, OnwardKeeps
<1>12. Offset(r) = Offset(l) /\ r.frac = l.frac /\ r.freq = l.freq
  BY <1>1, <1>3, <1>4 DEF PlayInv, PairInv
<1>13. /\ m[r.play] = m[l.play] /\ m[r.play + 1] = m[l.play + 1]
       /\ NextPlay(r) - RightStart = NextPlay(l) - LeftStart /\ NextFrac(r) = NextFrac(l)
  <2>1. \A a \in 0 .. Ring : m[RightStart + a] = m[LeftStart + a]  BY <1>9 DEF RingOK
  <2> QED BY <1>6, <1>12, <2>1, Twins
<1>14. heard' = [heard EXCEPT !.right = <<m[l.play], m[l.play + 1]>>]
  <2>1. Sounds(right)  BY <1>3 DEF Sounds
  <2> QED BY <1>1, <1>4, <1>10, <1>13, <2>1, Zenon
<1>15. heard'.right = <<m[l.play], m[l.play + 1]>> /\ heard'.left = heard.left
  BY <1>14 DEF WavInv, WavTypeOK
<1>16. Pair(m[l.play], m[l.play + 1])
  BY <1>3, <1>4, <1>after, <1>6, <1>9, Reaches
<1>17. NoTear'  BY <1>15, <1>16 DEF WavInv, NoTear, Pair
<1>18. frame'.slot = "left" /\ frame'.sync = frame.sync  BY <1>1 DEF WavInv, WavTypeOK
<1>19. w.keyon = FALSE /\ sync = FALSE /\ frame.sync = FALSE /\ left.keyon = FALSE
  BY <1>3, <1>4, <1>8 DEF VoiceType, WavInv, WavTypeOK
<1>20. KeyInv'
  BY <1>1, <1>2, <1>3, <1>4, <1>after, <1>8, <1>18, <1>19 DEF KeyInv, Running
<1>21. PairInv'
  <2>1. w.play - w.start = NextPlay(l) - l.start  BY <1>6, <1>8, <1>13 DEF Inside, Tuned
  <2>2. right'.play - right'.start = NextPlay(left') - left'.start
    BY <1>1, <1>4, <1>after, <2>1 DEF NextPlay
  <2>3. right'.frac = NextFrac(left')  BY <1>1, <1>4, <1>after, <1>8, <1>13 DEF NextFrac
  <2> QED BY <1>1, <1>3, <1>4, <1>after, <1>8, <1>12, <1>15, <1>18, <1>19, <2>2, <2>3 DEF PairInv, Offset
<1>22. GapInv'
  BY <1>1, <1>3 DEF PlayInv, GapInv, Gap, Offset
<1>23. CacheOK(left, mem, prog.offs)' /\ CacheOK(right, mem, prog.offs)'
  BY <1>1, <1>3, <1>4, <1>after, <1>11 DEF PlayInv, CacheOK, Held, Gap, Offset
<1>24. RingOK(mem, prog.offs, Written, prog.size)' /\ NextInv'
  BY <1>1, <1>3, <1>15 DEF PlayInv, RingOK, Written, NextInv, Pair, Follows
<1> QED BY <1>17, <1>20, <1>21, <1>22, <1>23, <1>24 DEF PlayInv

\* The left channel's slot of a song that is played: it comes to the right one's place.
LEMMA LeftSlotPlays ==
  ASSUME WavInv, LeftSlot, ~left.keyon, prog.at # "stopped"
  PROVE  KeyInv' /\ NoTear' /\ PlayInv' /\ heard'.left[1] \in heard.left[1] .. heard.left[1] + 2
<1>1. /\ frame' = [slot |-> "none", sync |-> FALSE] /\ frame.slot = "left"
      /\ left' = Voice(left, frame.sync, mem, nextaddr)
      /\ heard' = IF Sounds(left)
                  THEN [heard EXCEPT !.left = WaveRead(left, mem).words] ELSE heard
      /\ UNCHANGED <<mem, right, sync, prog>>
  BY DEF LeftSlot
<1>2. Running  BY DEF WavInv, KeyInv, Running, WavTypeOK, ProgType
<1>3. /\ PlayInv /\ Inside(left, LeftStart) /\ Inside(right, RightStart)
      /\ ~left.keyoff /\ ~right.keyoff /\ ~right.keyon /\ ~sync /\ ~frame.sync
      /\ left.busy /\ right.busy
      /\ Gap(left, prog.offs) <= Ring - 3
      /\ prog.at = "filling" => Gap(right, prog.offs) >= Block
      /\ Written \in prog.offs .. prog.offs + Block
      /\ Written = prog.offs \/ Gap(left, prog.offs) >= Block
  BY <1>1, <1>2, Played
<1>4. PICK l \in VoiceType, m \in Memory, n \in Int, y \in BOOLEAN, o \in Blocks :
        /\ l = left /\ m = mem /\ n = nextaddr /\ y = frame.sync
        /\ o = prog.offs
  <2>1. /\ left \in VoiceType /\ mem \in Memory /\ nextaddr \in Int
        /\ frame.sync \in BOOLEAN /\ prog.offs \in Blocks
    BY DEF WavInv, WavTypeOK, ProgType
  <2> QED BY <2>1
<1>after. PICK w, z : w = left' /\ z = Written  OBVIOUS
<1>5. w = Voice(l, y, m, n)  BY <1>1, <1>4, <1>after, Zenon
<1>6. Inside(l, LeftStart) /\ PlaceInv(l, LeftStart)  BY <1>3, <1>4 DEF WavInv
<1>7. ~KeyTaken(l, y)  BY <1>3, <1>4 DEF KeyTaken
<1>8. /\ w = Onward(l, WaveRead(l, m)) /\ w \in VoiceType
      /\ w.busy /\ w.keyon = l.keyon /\ ~w.keyoff /\ w.freq = l.freq /\ w.start = LeftStart
      /\ w.play = NextPlay(l) /\ w.frac = NextFrac(l)
  BY <1>3, <1>4, <1>5, <1>6, <1>7, VoiceGoesOn
<1>9. CacheOK(l, m, o) /\ Gap(l, o) <= Ring - 3 /\ RingOK(m, o, z, prog.size)
  BY <1>3, <1>4, <1>after DEF PlayInv
<1>10. WaveRead(l, m).words = <<m[l.play], m[l.play + 1]>>
  <2>1. o \in Int  BY BlockForm
  <2> QED BY <1>6, <1>9, <2>1, ReadsMemory
<1>11. CacheOK(w, m, o)
  <2>1. o \in Int  BY BlockForm
  <2> QED BY <1>6, <1>8, <1>9, <2>1, OnwardKeeps
<1>12. heard' = [heard EXCEPT !.left = <<m[l.play], m[l.play + 1]>>]
  <2>1. Sounds(left)  BY <1>3 DEF Sounds
  <2> QED BY <1>1, <1>4, <1>10, <2>1, Zenon
<1>13. /\ heard'.left = <<m[l.play], m[l.play + 1]>> /\ heard'.right = heard.right
       /\ heard.right = <<m[l.play], m[l.play + 1]>>
  BY <1>1, <1>3, <1>4, <1>12 DEF WavInv, WavTypeOK, PlayInv, PairInv
<1>14. m[NextPlay(l)] \in m[l.play] .. m[l.play] + 2 /\ Pair(m[l.play], m[l.play + 1])
  BY <1>3, <1>4, <1>after, <1>6, <1>9, Reaches
<1>15. NoTear'  BY <1>13, <1>14 DEF NoTear, Pair
<1>16. heard'.left[1] \in heard.left[1] .. heard.left[1] + 2
  BY <1>3, <1>4, <1>13 DEF PlayInv, NextInv
<1>17. w.keyon = FALSE /\ sync = FALSE /\ frame.sync = FALSE /\ right.keyon = FALSE
  BY <1>3, <1>4, <1>8 DEF VoiceType, WavInv, WavTypeOK
<1>18. KeyInv'
  BY <1>1, <1>2, <1>3, <1>4, <1>after, <1>8, <1>17 DEF KeyInv, Running
<1>19. PairInv'
  <2>1. w.play - w.start = Offset(right)  BY <1>1, <1>3, <1>4, <1>6, <1>8 DEF PlayInv, PairInv, Inside, Tuned
  <2>2. w.frac = right.frac /\ right.freq = w.freq
    BY <1>1, <1>3, <1>4, <1>8 DEF PlayInv, PairInv
  <2> QED BY <1>1, <1>3, <1>4, <1>after, <1>8, <1>13, <1>17, <2>1, <2>2 DEF PairInv, Offset
<1>20. GapInv'
  <2>1. Gap(left', prog'.offs) = Gap(right, prog.offs)
    <3>1. Offset(w) = Offset(right)
      BY <1>1, <1>3, <1>4, <1>6, <1>8 DEF PlayInv, PairInv, Inside, Tuned, Offset
    <3> QED BY <1>1, <1>4, <1>after, <3>1 DEF Gap
  <2> QED BY <1>1, <1>3, <2>1 DEF GapInv
<1>21. CacheOK(left, mem, prog.offs)' /\ CacheOK(right, mem, prog.offs)'
  BY <1>1, <1>3, <1>4, <1>after, <1>11 DEF PlayInv, CacheOK, Held, Gap, Offset
<1>22. RingOK(mem, prog.offs, Written, prog.size)'
  BY <1>1, <1>3 DEF PlayInv, RingOK, Written, Pair, Follows
<1>23. NextInv'  BY <1>1, <1>4, <1>after, <1>8, <1>13, <1>14 DEF NextInv
<1> QED BY <1>15, <1>16, <1>18, <1>19, <1>20, <1>21, <1>22, <1>23 DEF PlayInv

\* The right channel's slot in every state of the program.
LEMMA RightSlotKeeps == ASSUME WavInv, RightSlot PROVE WavInv'
<1>1. WavTypeOK' /\ PlaceInv(left, LeftStart)' /\ PlaceInv(right, RightStart)'
  BY RightSlotTyped
<1>2. prog' = prog /\ left' = left /\ left.keyon \in BOOLEAN
  BY DEF RightSlot, WavInv, WavTypeOK, VoiceType
<1>3. CASE prog.at = "stopped"
  <2>1. PICK y \in BOOLEAN : y = frame.sync  BY DEF WavInv, WavTypeOK
  <2>2. right' = Voice(right, y, mem, nextaddr)  BY <2>1 DEF RightSlot
  <2>3. ~Sounds(right) /\ ~right'.busy /\ ~right'.keyon /\ ~right'.keyoff
    BY <1>3, <2>2, StoppedSilent
  <2>4. heard' = heard  BY <2>3 DEF RightSlot
  <2>5. NoTear'  BY <2>4 DEF WavInv, NoTear, Follows
  <2>6. KeyInv' /\ ~Running'  BY <1>2, <1>3, <2>3 DEF WavInv, KeyInv, Running
  <2> QED BY <1>1, <2>5, <2>6 DEF WavInv
<1>4. CASE prog.at # "stopped" /\ left.keyon
  BY <1>1, <1>2, <1>4, RightSlotOlder DEF WavInv
<1>5. CASE prog.at # "stopped" /\ ~left.keyon
  BY <1>1, <1>5, RightSlotPlays DEF WavInv
<1> QED BY <1>2, <1>3, <1>4, <1>5

\* The left channel's slot, with the order in which the file is played.
LEMMA LeftSlotKeeps ==
  ASSUME WavInv, LeftSlot
  PROVE  WavInv' /\ heard'.left[1] \in heard.left[1] .. heard.left[1] + 2
<1>1. WavTypeOK' /\ PlaceInv(left, LeftStart)' /\ PlaceInv(right, RightStart)'
  BY LeftSlotTyped
<1>2. prog' = prog /\ right' = right /\ left.keyon \in BOOLEAN
  BY DEF LeftSlot, WavInv, WavTypeOK, VoiceType
<1>3. ASSUME heard' = heard PROVE heard'.left[1] \in heard.left[1] .. heard.left[1] + 2
  <2>1. heard.left[1] \in Int  BY Sizes DEF WavInv, WavTypeOK, Sample, Older
  <2> QED BY <1>3, <2>1
<1>4. CASE prog.at = "stopped"
  <2>1. PICK y \in BOOLEAN : y = frame.sync  BY DEF WavInv, WavTypeOK
  <2>2. left' = Voice(left, y, mem, nextaddr)  BY <2>1 DEF LeftSlot
  <2>3. ~Sounds(left) /\ ~left'.busy /\ ~left'.keyon /\ ~left'.keyoff
    BY <1>4, <2>2, StoppedSilent
  <2>4. heard' = heard  BY <2>3 DEF LeftSlot
  <2>5. NoTear'  BY <2>4 DEF WavInv, NoTear, Follows
  <2>6. KeyInv' /\ ~Running'  BY <1>2, <1>4, <2>3 DEF WavInv, KeyInv, Running
  <2> QED BY <1>1, <1>3, <2>4, <2>5, <2>6 DEF WavInv
<1>5. CASE prog.at # "stopped" /\ left.keyon
  BY <1>1, <1>3, <1>5, LeftSlotOlder DEF WavInv
<1>6. CASE prog.at # "stopped" /\ ~left.keyon
  BY <1>1, <1>6, LeftSlotPlays DEF WavInv
<1> QED BY <1>2, <1>4, <1>5, <1>6

-----------------------------------------------------------------------------
(* The theorems.                                                           *)

\* Every step keeps the invariant.
LEMMA WavInvKept == WavInv /\ [Next]_vars => WavInv'
<1> SUFFICES ASSUME WavInv, [Next]_vars PROVE WavInv'  OBVIOUS
<1>1. CASE FrameBegins  BY <1>1, FrameBeginsKeeps
<1>2. CASE RightSlot  BY <1>2, RightSlotKeeps
<1>3. CASE LeftSlot  BY <1>3, LeftSlotKeeps
<1>4. CASE PlayRight  BY <1>4, PlayRightKeeps
<1>5. CASE PlaySync  BY <1>5, PlaySyncKeeps
<1>6. CASE FillSample  BY <1>6, FillSampleKeeps
<1>7. CASE FillEnds  BY <1>7, FillEndsKeeps
<1>8. CASE FillBegins  BY <1>8, FillBeginsKeeps
<1>9. CASE Stop  BY <1>9, StopKeeps
<1>10. ASSUME NEW f \in Speeds, Play(f) PROVE WavInv'  BY <1>10, PlayKeeps
<1>11. CASE UNCHANGED vars
  <2>1. /\ mem' = mem /\ left' = left /\ right' = right /\ nextaddr' = nextaddr /\ sync' = sync
        /\ frame' = frame /\ prog' = prog /\ heard' = heard /\ seen' = seen
    BY <1>11 DEF vars
  <2>2. WavTypeOK' /\ PlaceInv(left, LeftStart)' /\ PlaceInv(right, RightStart)' /\ NoTear'
    BY <2>1 DEF WavInv, WavTypeOK, PlaceInv, Inside, Tuned, NoTear, Follows
  <2>3. KeyInv'  BY <2>1 DEF WavInv, KeyInv, Running, AllOlder
  <2>4. ASSUME PlayInv PROVE PlayInv'
    BY <2>1, <2>4 DEF PlayInv, PairInv, GapInv, CacheOK, RingOK, NextInv, Offset, NextPlay, NextFrac,
       Gap, Held, Written, Pair, Follows
  <2> QED BY <2>1, <2>2, <2>3, <2>4 DEF WavInv, Running
<1> QED BY <1>1, <1>2, <1>3, <1>4, <1>5, <1>6, <1>7, <1>8, <1>9, <1>10, <1>11
        DEF Next, Spu, Program

\* The invariant holds.
THEOREM WavInvHolds == Spec => []WavInv
BY InitHolds, WavInvKept, PTL DEF Spec

\* A sample's two words follow each other in the file: across the lines of
\* the cache, the blocks and the end of the ring, whatever is filled meanwhile.
THEOREM NoTearHolds == Spec => []NoTear
<1>1. WavInv => NoTear  BY DEF WavInv
<1> QED BY <1>1, WavInvHolds, PTL

\* Between two samples both channels have played the same place of the file.
THEOREM InStepHolds == Spec => []InStep
<1>1. WavInv => InStep
  <2> SUFFICES ASSUME WavInv, frame.slot = "none", prog.at # "stopped"
               PROVE  heard.left = heard.right
    BY DEF InStep
  <2>1. CASE left.keyon
    <3>1. AllOlder  BY <2>1 DEF WavInv, KeyInv
    <3> QED BY <3>1 DEF AllOlder
  <2>2. CASE ~left.keyon
    <3>1. Running  BY <2>2 DEF WavInv, KeyInv, Running, WavTypeOK, ProgType
    <3> QED BY <2>2, <3>1 DEF WavInv, PlayInv, PairInv
  <2> QED BY <2>1, <2>2
<1> QED BY <1>1, WavInvHolds, PTL

\* The file is played in its order: from a sample to the next it goes on by
\* no more than two words, and never back.
THEOREM InOrderHolds == Spec => InOrder
<1>1. WavInv /\ [Next]_vars =>
        [LeftSlot => heard'.left[1] \in heard.left[1] .. heard.left[1] + 2]_vars
  BY LeftSlotKeeps
<1> QED BY <1>1, WavInvHolds, PTL DEF Spec, InOrder
=============================================================================
