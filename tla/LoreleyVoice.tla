----------------------------- MODULE LoreleyVoice -----------------------------
(***************************************************************************)
(* What a slot of the SPU does in one sample: the wave memory is read      *)
(* through the slot's two lines of cache, which have no tags              *)
(* (loreley_wromcache.vhd), and the play address goes on                   *)
(* (loreley_slotengine.vhd).  For data of 16 bits with a loop and          *)
(* interpolation between two words; addresses are words.                   *)
(***************************************************************************)
EXTENDS Integers

CONSTANT Frac      \* parts of a word in a step of the address; 2^15

ASSUME FracAssumption == Frac \in Nat \ {0}

Line      == 4     \* words in a line
LineOf(a) == a \div Line
CacheIndices == 0 .. 2 * Line - 1

\* keyon, keyoff: requests.  full: the play address has come to another line.
\* half: that line has been read for the interpolation already.
Silent(nothing) ==
  [busy |-> FALSE, keyon |-> FALSE, keyoff |-> FALSE,
   play |-> 0, frac |-> 0, full |-> FALSE, half |-> FALSE,
   start |-> 0, stop |-> 0, freq |-> 1, cache |-> [i \in CacheIndices |-> nothing]]

\* The line with the word at a is read into its half of the cache.
Filled(cache, a, mem) ==
  [i \in CacheIndices |->
     IF i \div Line = LineOf(a) % 2 THEN mem[Line * LineOf(a) + (i % Line)] ELSE cache[i]]

\* The two words of a sample, from the cache, with the lines filled that the
\* flags ask for.
WaveRead(v, mem) ==
  LET had    == v.half /\ ~v.full
      ahead  == LineOf(v.play + 1) # LineOf(v.play)
      first  == IF v.full /\ ~v.half THEN Filled(v.cache, v.play, mem) ELSE v.cache
      second == IF ahead /\ ~had THEN Filled(first, v.play + 1, mem) ELSE first
  IN [cache |-> second, half |-> had \/ ahead,
      words |-> <<first[v.play % (2 * Line)], second[(v.play + 1) % (2 * Line)]>>]

\* Fault: the line read ahead of the end is taken for that of the loop.
HalfKept(r, ends) == r.half

HalfAfter(r, ends) == r.half /\ ~ends

\* The next address.  Behind the stop address it goes on at the loop address,
\* and the cache is good for nothing.  playwav.c loops to where it started.
Onward(v, r) ==
  LET sum  == v.frac + v.freq
      inc  == v.play + sum \div Frac
      over == inc - v.stop - 1
      ends == over >= 0
  IN [v EXCEPT !.play  = IF ends THEN v.start + (over % 2) ELSE inc,
               !.frac  = sum % Frac,
               !.cache = r.cache,
               !.full  = ends \/ LineOf(inc) # LineOf(v.play),
               !.half  = HalfAfter(r, ends)]

KeyedOn(v, cache) ==
  [v EXCEPT !.busy = TRUE, !.keyon = FALSE, !.play = v.start, !.frac = 0,
            !.cache = cache, !.full = TRUE, !.half = FALSE]

\* A slot that does not play writes back the next address that the engine
\* computed last, for whatever slot.
Rested(v, cache, next) ==
  [v EXCEPT !.busy = FALSE, !.keyoff = FALSE, !.play = next,
            !.cache = cache, !.full = FALSE, !.half = FALSE]

\* Fault: a key on does not wait.
KeyTakenAtOnce(v, sync) == v.keyon

\* A key on waits for a sample that began with the system's sync bit.
KeyTaken(v, sync) == v.keyon /\ sync

\* A slot in one sample, the stop first, then the key.
Voice(v, sync, mem, next) ==
  LET r     == WaveRead(v, mem)
      cache == IF v.busy THEN r.cache ELSE v.cache
  IN IF v.keyoff              THEN Rested(v, cache, next)
     ELSE IF KeyTaken(v, sync) THEN KeyedOn(v, cache)
     ELSE IF v.busy           THEN Onward(v, r)
     ELSE Rested(v, cache, next)
=============================================================================
