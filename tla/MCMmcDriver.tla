----------------------------- MODULE MCMmcDriver -----------------------------
(* TLC instance of MmcDriver.                                               *)
EXTENDS MmcDriver

\* Two bytes of the block look like a start token and like no answer.
SomeBlock   == [i \in 0..MemMax |-> CASE i = 2 -> Token
                                      [] i = 4 -> Busy
                                      [] OTHER -> i + 1]
SomeRx      == {SomeBlock[i] : i \in 0..MemMax} \cup {Token, Busy, Crc, 20}
SomeAnswers == {Busy, 20}
=============================================================================
