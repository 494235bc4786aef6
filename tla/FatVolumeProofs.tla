-------------------------- MODULE FatVolumeProofs --------------------------
(***************************************************************************)
(* The volume of FatFs: what is on the card is sound, files are apart, no  *)
(* cluster is lost, what a close has promised stays on the card, and what  *)
(* was written is read back.                                               *)
(*                                                                         *)
(* The invariants are about a function own, which nothing in the code      *)
(* holds: the sequence of clusters that is the chain of each file.  The    *)
(* chains have no cluster in common (Apart) and the FAT, seen through the  *)
(* window, links each (Linked).  PlaceOk says at each place of the code    *)
(* which cluster of its file's chain the call has in hand.  The card       *)
(* itself, and what it holds if the power goes now, have chains of their   *)
(* own (Solid), which are the ones of the moment when the window was last  *)
(* written back.  A step gives a file another chain by three operators     *)
(* only: First, Longer and Freed.                                          *)
(*                                                                         *)
(* Of the bytes, ContentInv says that the promised ones of a file lie      *)
(* along its chain on the volume of the moment and on both of the card's   *)
(* (KeptIn), that the known ones are on the card or in the buffer of the   *)
(* object (ObjOk), and what a call in progress must not forget of them     *)
(* (Fit).                                                                  *)
(***************************************************************************)
EXTENDS FatVolume, SequenceTheorems, FiniteSetTheorems, WellFoundedInduction, TLAPS

\* The volume as the window shows it, which is what the code works on.
FatNow == [c \in Clusters |-> IF FatSect(c) = win.sect THEN win.copy[c] ELSE card.fat[c]]
EntNow == IF win.sect = DirSect THEN win.copy ELSE card.ent

-----------------------------------------------------------------------------
(* Types.                                                                  *)

Entries == [used : BOOLEAN, start : Nat, size : Nat]
Labels  == Names \cup {Nobody}
Volumes == [fat : [Clusters -> Nat], ent : [Names -> Entries], data : [Clusters -> Labels]]
Files   == [open : BOOLEAN, wr : BOOLEAN, err : BOOLEAN, written : BOOLEAN,
            dirty : BOOLEAN, fptr : Nat, fsize : Nat, sclust : Nat, clust : Nat,
            dsect : Nat, bufv : Labels, good : Nat]
AtPlaces == {"idle", "find", "free", "back", "stretch", "scan", "link", "follow",
             "inside", "store", "fetch", "fill", "got", "flush", "entry", "sync"}
Calling == [at : AtPlaces, op : {"none", "open", "write", "read", "seek", "close"},
            n : Labels, m : {"none", "existing", "openalways", "createalways"},
            wr : BOOLEAN, left : Nat, c : Nat, k : Nat, scl : Nat, v : Labels, from : Nat]

Promises == [Names -> Nat \cup {None}]

TypeOK ==
  /\ obj \in [Names -> Files] /\ call \in Calling
  /\ last \in Nat /\ faults \in Nat /\ kept \in Promises /\ bound \in Bounds

\* What the window has of which sector.
Windows(s) ==
  IF s = DirSect THEN [sect : {s}, dirty : BOOLEAN, copy : [Names -> Entries]]
                 ELSE [sect : {s}, dirty : BOOLEAN, copy : [InSect(s) -> Nat]]

WinOk ==
  /\ card \in Volumes /\ safe \in Volumes
  /\ \/ win = [sect |-> NoSect, dirty |-> FALSE, copy |-> <<>>]
     \/ \E s \in {DirSect} \cup {FatSect(c) : c \in Clusters} : win \in Windows(s)
  /\ win.sect # NoSect /\ ~win.dirty => win.copy = Contents(card, win.sect)

BaseInv == TypeOK /\ WinOk

-----------------------------------------------------------------------------
(* Chains.  own[n] is the chain of file n: of its object or of its entry,  *)
(* or what is left of it when it is freed.                                 *)

Owns == [Names -> Seq(Clusters)]

Apart(own) ==
  \A n, m \in Names : \A i \in 1 .. Len(own[n]), j \in 1 .. Len(own[m]) :
    own[n][i] = own[m][j] => n = m /\ i = j

Linked(own, fat) ==
  \A n \in Names : \A i \in 1 .. Len(own[n]) :
    fat[own[n][i]] = IF i < Len(own[n]) THEN own[n][i + 1] ELSE EOC

\* A file of the first cluster start and of that size lies on the chain w.
LiesOn(w, start, size) ==
  /\ start \in Clusters \cup {0, DiskErr}
  /\ start \in Clusters => w # <<>> /\ w[1] = start /\ size <= SS * Len(w)
  /\ start = 0 => size = 0

EntryOk(w, e) == LiesOn(w, e.start, e.size) /\ (~e.used => e.start = 0)

Sound(cd) ==
  \E own \in Owns : /\ Apart(own) /\ Linked(own, cd.fat)
                    /\ \A n \in Names : EntryOk(own[n], cd.ent[n])

FileOk(w, e, o) ==
  /\ EntryOk(w, e)
  /\ LiesOn(w, o.sclust, o.fsize)
  /\ o.open => e.start \in {0, o.sclust}
  /\ ~o.open => o = Closed

\* The pointer p is in or at the end of the jth cluster of w.
In(w, j, p)  == j \in 1 .. Len(w) /\ SS * (j - 1) < p /\ p <= SS * j
\* It stands at its beginning.
Begins(w, j, p) == j \in 1 .. Len(w) /\ p = SS * (j - 1)

\* Between two steps: the current cluster is that of the pointer.
PtrOk(w, o) ==
  o.fptr > 0 =>
    \/ o.sclust = DiskErr /\ o.clust = DiskErr
    \/ /\ o.sclust \in Clusters
       /\ \E j \in 1 .. Len(w) : o.clust = w[j] /\ In(w, j, o.fptr)

\* At the start of a cluster.
StartOk(w, o) ==
  o.sclust \in Clusters /\ \E j \in 1 .. Len(w) : o.clust = w[j] /\ Begins(w, j, o.fptr)

SeekOk(w, o) == (o.sclust = DiskErr /\ o.clust = DiskErr) \/ StartOk(w, o)

InOk(w, o, cl) ==
  /\ o.open /\ ~o.err /\ cl.c = o.clust
  /\ IF cl.op = "seek" THEN SeekOk(w, o) /\ cl.left > SS
     ELSE o.fptr > 0 /\ o.fptr % SS = 0 /\ PtrOk(w, o) /\ cl.left > 0

\* A cluster is looked for: the first one of the file or one behind its last.
FirstOk(o, cl) ==
  /\ o.open /\ ~o.err /\ cl.op \in {"write", "seek"} /\ cl.left > 0
  /\ o.sclust = 0 /\ o.fptr = 0

AfterOk(w, o, cl) ==
  /\ InOk(w, o, cl) /\ cl.op \in {"write", "seek"}
  /\ o.sclust \in Clusters /\ w # <<>> /\ cl.c = w[Len(w)]

FreeOk(w, e, o, cl) ==
  /\ cl.op = "open" /\ ~o.open /\ e.start = 0
  /\ w # <<>> /\ cl.c = w[1] /\ cl.k \in Clusters

InsideOk(w, o, cl) ==
  /\ o.open /\ ~o.err /\ cl.op \in {"read", "write"} /\ cl.left > 0
  /\ o.fptr > 0 /\ o.fptr % SS # 0 /\ PtrOk(w, o)

SectorOk(w, o, cl) == o.open /\ ~o.err /\ cl.left > 0 /\ StartOk(w, o)

PlaceOk(w, e, o, cl) ==
  /\ cl.at \in {"find", "back"}            => cl.op = "open" /\ ~o.open
  /\ cl.at = "free"                        => FreeOk(w, e, o, cl)
  /\ cl.at = "stretch"                     => InOk(w, o, cl) /\ cl.op \in {"write", "seek"}
  /\ cl.at = "follow"                      => InOk(w, o, cl) /\ cl.op \in {"read", "seek"}
  /\ cl.at = "scan" /\ cl.c = 0            => FirstOk(o, cl)
  /\ cl.at = "scan" /\ cl.c # 0            => AfterOk(w, o, cl)
  /\ cl.at = "scan"                        => cl.k \in Clusters /\ cl.scl \in 1 .. NFatent - 1
  /\ cl.at = "link"                        => AfterOk(w, o, cl) /\ cl.k \in Clusters
  /\ cl.at = "inside"                      => InsideOk(w, o, cl)
  /\ cl.at = "store"                       => cl.op = "write" /\ SectorOk(w, o, cl)
  /\ cl.at = "fetch"                       => cl.op = "read" /\ SectorOk(w, o, cl)
  /\ cl.at = "fill"                        => /\ o.open /\ ~o.err /\ cl.op = "seek"
                                              /\ o.fptr > 0 /\ PtrOk(w, o) /\ cl.c = o.clust
  /\ cl.at = "got"                         => o.open /\ ~o.err /\ cl.op = "read" /\ PtrOk(w, o)
  /\ cl.at \in {"flush", "entry", "sync"}  => cl.op = "close" /\ o.open

Busy(n) == call.at # "idle" /\ call.n = n

\* The cluster is in no chain.
Unowned(own, k) == \A n \in Names : \A i \in 1 .. Len(own[n]) : own[n][i] # k

Linking(own) == call.at = "link" => FatNow[call.k] = EOC /\ Unowned(own, call.k)

ChainInv(own) ==
  /\ Apart(own) /\ Linked(own, FatNow)
  /\ \A n \in Names :
       /\ FileOk(own[n], EntNow[n], obj[n])
       /\ Busy(n) => PlaceOk(own[n], EntNow[n], obj[n], call)
       /\ obj[n].open /\ ~obj[n].err /\ ~Busy(n) => PtrOk(own[n], obj[n])
  /\ call.at # "idle" => call.n \in Names
  /\ Linking(own)

Solid == Sound(card) /\ Sound(safe)

-----------------------------------------------------------------------------
(* The window.                                                             *)

\* The sectors of the FAT, the one of the directory, and none.
LEMMA SectorNumbers ==
  ASSUME NEW c \in Clusters
  PROVE  FatSect(c) \in Nat /\ FatSect(c) # NoSect /\ FatSect(c) # DirSect
<1>1. c \in Nat /\ c <= NFatent - 1 /\ NFatent \in Nat /\ PerSect \in Nat \ {0}
  BY FatAssumption DEF Clusters
<1>2. c \div PerSect \in Nat /\ c \div PerSect <= c
  BY <1>1
<1> QED  BY <1>1, <1>2 DEF FatSect, NoSect, DirSect

LEMMA WindowForm ==
  ASSUME WinOk
  PROVE  /\ card \in Volumes /\ safe \in Volumes
         /\ win.dirty \in BOOLEAN
         /\ win.dirty => win.sect # NoSect
         /\ win.sect = DirSect => win.copy \in [Names -> Entries]
         /\ \A c \in Clusters : win.sect = FatSect(c) => win.copy \in [InSect(win.sect) -> Nat]
         /\ win.sect # NoSect => win = [sect |-> win.sect, dirty |-> win.dirty, copy |-> win.copy]
         /\ FatNow \in [Clusters -> Nat] /\ EntNow \in [Names -> Entries]
<1>1. CASE win = [sect |-> NoSect, dirty |-> FALSE, copy |-> <<>>]
  <2>1. win.sect = NoSect /\ ~win.dirty /\ win.dirty \in BOOLEAN  BY <1>1
  <2>2. NoSect # DirSect  BY FatAssumption DEF NoSect, DirSect
  <2>3. \A c \in Clusters : win.sect # FatSect(c)  BY <2>1, SectorNumbers
  <2>4. FatNow = [c \in Clusters |-> card.fat[c]] /\ EntNow = card.ent
    BY <2>1, <2>2, <2>3 DEF FatNow, EntNow
  <2>5. card.fat \in [Clusters -> Nat] /\ card.ent \in [Names -> Entries]
    BY DEF WinOk, Volumes
  <2> QED  BY <2>1, <2>2, <2>3, <2>4, <2>5 DEF WinOk
<1>2. CASE win \in Windows(DirSect)
  <2>1. win \in [sect : {DirSect}, dirty : BOOLEAN, copy : [Names -> Entries]]
    BY <1>2 DEF Windows
  <2>2. \A c \in Clusters : win.sect # FatSect(c)  BY <2>1, SectorNumbers
  <2>3. FatNow = [c \in Clusters |-> card.fat[c]] /\ EntNow = win.copy
    BY <2>1, <2>2 DEF FatNow, EntNow
  <2>4. card.fat \in [Clusters -> Nat]  BY DEF WinOk, Volumes
  <2>5. DirSect # NoSect  BY FatAssumption DEF DirSect, NoSect
  <2> QED  BY <2>1, <2>2, <2>3, <2>4, <2>5 DEF WinOk
<1>3. CASE \E d \in Clusters : win \in Windows(FatSect(d))
  <2>1. PICK d \in Clusters : win \in Windows(FatSect(d))  BY <1>3
  <2>2. FatSect(d) # DirSect /\ FatSect(d) # NoSect  BY SectorNumbers
  <2>3. win \in [sect : {FatSect(d)}, dirty : BOOLEAN, copy : [InSect(FatSect(d)) -> Nat]]
    BY <2>1, <2>2 DEF Windows
  <2>4. card.fat \in [Clusters -> Nat] /\ card.ent \in [Names -> Entries]
    BY DEF WinOk, Volumes
  <2>5. ASSUME NEW c \in Clusters, FatSect(c) = win.sect
        PROVE  win.copy[c] \in Nat
    BY <2>3, <2>5 DEF InSect
  <2>6. FatNow \in [Clusters -> Nat]  BY <2>4, <2>5 DEF FatNow
  <2>7. EntNow = card.ent  BY <2>2, <2>3 DEF EntNow
  <2> QED  BY <2>2, <2>3, <2>4, <2>6, <2>7 DEF WinOk
<1> QED  BY <1>1, <1>2, <1>3 DEF WinOk

\* What was just read into the window is what the card has.
LEMMA OnCard ==
  ASSUME WinOk, win.sect = NoSect \/ ~win.dirty
  PROVE  FatNow = card.fat /\ EntNow = card.ent
<1>1. card.fat \in [Clusters -> Nat] /\ card.ent \in [Names -> Entries]
  BY DEF WinOk, Volumes
<1>2. DirSect # NoSect  BY FatAssumption DEF DirSect, NoSect
<1>3. ASSUME NEW c \in Clusters, FatSect(c) = win.sect
      PROVE  win.copy[c] = card.fat[c]
  <2>1. FatSect(c) # NoSect /\ FatSect(c) # DirSect  BY SectorNumbers
  <2>2. win.copy = [d \in InSect(win.sect) |-> card.fat[d]]
    BY <2>1, <1>3 DEF WinOk, Contents
  <2> QED  BY <2>2, <1>3 DEF InSect
<1>4. win.sect = DirSect => win.copy = card.ent
  BY <1>2 DEF WinOk, Contents
<1> QED  BY <1>1, <1>3, <1>4 DEF FatNow, EntNow

\* Writing the window back puts the volume of the moment on the card.
LEMMA WrittenBack ==
  ASSUME WinOk, win.sect # NoSect
  PROVE  LET new == Stored(card, win.sect, win.copy)
         IN  new \in Volumes /\ new.fat = FatNow /\ new.ent = EntNow /\ new.data = card.data
<1> DEFINE new == Stored(card, win.sect, win.copy)
<1>1. card \in Volumes /\ FatNow \in [Clusters -> Nat] /\ EntNow \in [Names -> Entries]
  BY WindowForm
<1>2. card = [fat |-> card.fat, ent |-> card.ent, data |-> card.data]
  BY <1>1 DEF Volumes
<1>3. CASE win.sect = DirSect
  <2>1. new = [card EXCEPT !.ent = win.copy]  BY <1>3 DEF Stored
  <2>2. \A c \in Clusters : FatSect(c) # win.sect  BY <1>3, SectorNumbers
  <2>3. FatNow = card.fat /\ EntNow = win.copy
    BY <1>1, <1>3, <2>2 DEF FatNow, EntNow, Volumes
  <2>4. new.fat = card.fat /\ new.ent = win.copy /\ new.data = card.data /\ new \in Volumes
    BY <1>1, <2>1, <2>3 DEF Volumes
  <2> QED  BY <2>3, <2>4
<1>4. CASE win.sect # DirSect
  <2>2. PICK d \in Clusters : win \in Windows(FatSect(d))
    BY <1>4, WindowForm DEF WinOk, Windows
  <2>3. win.sect = FatSect(d)  BY <1>4, <2>2, SectorNumbers DEF Windows
  <2>4. win.copy \in [InSect(win.sect) -> Nat]  BY <2>3, WindowForm
  <2>5. new = [card EXCEPT !.fat = [c \in Clusters |->
                                IF c \in InSect(win.sect) THEN win.copy[c] ELSE card.fat[c]]]
    BY <1>4 DEF Stored
  <2>6. FatNow = [c \in Clusters |-> IF c \in InSect(win.sect) THEN win.copy[c] ELSE card.fat[c]]
    BY DEF FatNow, InSect
  <2>7. new.fat = FatNow /\ new.ent = card.ent /\ new.data = card.data /\ new \in Volumes
    BY <1>1, <2>5, <2>6 DEF Volumes
  <2> QED  BY <1>4, <2>7 DEF EntNow
<1> QED  BY <1>3, <1>4

\* A step that changes no more than bytes of files on the disk, or waits for it.
DiskData ==
  /\ card' \in Volumes /\ safe' \in Volumes
  /\ card'.fat = card.fat /\ card'.ent = card.ent
  /\ \E cd \in {card, safe} : safe'.fat = cd.fat /\ safe'.ent = cd.ent

LEMMA WithDataForm ==
  ASSUME NEW cd \in Volumes, NEW c, NEW v \in Labels
  PROVE  /\ WithData(cd, c, v) \in Volumes
         /\ WithData(cd, c, v).fat = cd.fat /\ WithData(cd, c, v).ent = cd.ent
         /\ c \in Clusters => WithData(cd, c, v).data = [cd.data EXCEPT ![c] = v]
         /\ c \notin Clusters => WithData(cd, c, v).data = cd.data
BY DEF WithData, Volumes

LEMMA DataSteps ==
  ASSUME WinOk
  PROVE  /\ \A c : Outdate(c) => DiskData
         /\ UNCHANGED <<card, safe>> => DiskData
         /\ DiskRead => DiskData
         /\ DiskSync => DiskData
         /\ \A c : \A v \in Labels :
              /\ DiskWrite(WithData(card, c, v)) => DiskData
              /\ WriteFails(WithData(card, c, v)) => DiskData
<1>1. card \in Volumes /\ safe \in Volumes /\ Nobody \in Labels  BY DEF WinOk, Labels
<1>2. ASSUME NEW c, Outdate(c)  PROVE DiskData
  <2>1. card' = WithData(card, c, Nobody) /\ safe' = WithData(safe, c, Nobody)
    BY <1>2 DEF Outdate
  <2>2. card' \in Volumes /\ card'.fat = card.fat /\ card'.ent = card.ent
    BY <1>1, <2>1 DEF WithData, Volumes
  <2>3. safe' \in Volumes /\ safe'.fat = safe.fat /\ safe'.ent = safe.ent
    BY <1>1, <2>1 DEF WithData, Volumes
  <2> QED  BY <2>2, <2>3 DEF DiskData
<1>3. ASSUME NEW c, NEW v \in Labels, DiskWrite(WithData(card, c, v))  PROVE DiskData
  <2>1. card' = WithData(card, c, v) /\ safe' = card  BY <1>3 DEF DiskWrite
  <2>2. card' \in Volumes /\ card'.fat = card.fat /\ card'.ent = card.ent
    BY <1>1, <2>1 DEF WithData, Volumes
  <2> QED  BY <1>1, <2>1, <2>2 DEF DiskData
<1>4. UNCHANGED <<card, safe>> => DiskData  BY <1>1 DEF DiskData
<1>5. (DiskRead \/ DiskSync) => DiskData  BY <1>1 DEF DiskData, DiskRead, DiskSync
<1>6. ASSUME NEW c, NEW v \in Labels, WriteFails(WithData(card, c, v))  PROVE DiskData
  BY <1>3, <1>4, <1>6 DEF WriteFails
<1> QED  BY <1>2, <1>3, <1>4, <1>5, <1>6

LEMMA ContentsStay ==
  ASSUME DiskData  PROVE \A s : Contents(card, s)' = Contents(card, s)
BY DEF DiskData, Contents

LEMMA WindowStays ==
  ASSUME WinOk, DiskData, win' = win
  PROVE  WinOk' /\ FatNow' = FatNow /\ EntNow' = EntNow
<1>1. FatNow' = FatNow /\ EntNow' = EntNow  BY DEF DiskData, FatNow, EntNow
<1>2. Contents(card, win.sect)' = Contents(card, win.sect)  BY DEF DiskData, Contents
<1>3. card' \in Volumes /\ safe' \in Volumes  BY DEF DiskData
<1> QED  BY <1>1, <1>2, <1>3 DEF WinOk, Windows

LEMMA PutFat ==
  ASSUME WinOk, DiskData, NEW c \in Clusters, NEW x \in Nat,
         win.sect = FatSect(c), PutWin(c, x)
  PROVE  WinOk' /\ FatNow' = [FatNow EXCEPT ![c] = x] /\ EntNow' = EntNow
<1>1. win.sect # NoSect /\ win.sect # DirSect  BY SectorNumbers
<1>2. win.copy \in [InSect(win.sect) -> Nat] /\ c \in InSect(win.sect)
  BY WindowForm DEF InSect
<1>3. win = [sect |-> win.sect, dirty |-> win.dirty, copy |-> win.copy]  BY <1>1, WindowForm
<1>4. win' = [sect |-> win.sect, dirty |-> TRUE, copy |-> [win.copy EXCEPT ![c] = x]]
  BY <1>3 DEF PutWin
<1>5. [win.copy EXCEPT ![c] = x] \in [InSect(win.sect) -> Nat]  BY <1>2
<1>6. win' \in Windows(FatSect(c))  BY <1>1, <1>4, <1>5 DEF Windows
<1>7. WinOk'  BY <1>4, <1>6 DEF WinOk, DiskData, Windows
<1>8. EntNow' = EntNow  BY <1>1, <1>4 DEF EntNow, DiskData
<1>9. FatNow' = [FatNow EXCEPT ![c] = x]
  BY <1>2, <1>4 DEF FatNow, DiskData, InSect
<1> QED  BY <1>7, <1>8, <1>9

LEMMA PutEntry ==
  ASSUME WinOk, DiskData, NEW n \in Names, NEW e \in Entries,
         win.sect = DirSect, PutWin(n, e)
  PROVE  WinOk' /\ FatNow' = FatNow /\ EntNow' = [EntNow EXCEPT ![n] = e]
<1>1. win.sect # NoSect  BY FatAssumption DEF DirSect, NoSect
<1>2. win.copy \in [Names -> Entries]  BY WindowForm
<1>3. win = [sect |-> win.sect, dirty |-> win.dirty, copy |-> win.copy]  BY <1>1, WindowForm
<1>4. win' = [sect |-> DirSect, dirty |-> TRUE, copy |-> [win.copy EXCEPT ![n] = e]]
  BY <1>3 DEF PutWin
<1>5. [win.copy EXCEPT ![n] = e] \in [Names -> Entries]  BY <1>2
<1>6. win' \in Windows(DirSect)  BY <1>4, <1>5 DEF Windows
<1>7. WinOk'  BY <1>4, <1>6 DEF WinOk, DiskData, Windows
<1>8. EntNow' = [EntNow EXCEPT ![n] = e]  BY <1>4 DEF EntNow
<1>9. FatNow' = FatNow  BY <1>4, SectorNumbers DEF FatNow, DiskData
<1> QED  BY <1>7, <1>8, <1>9

\* Nothing is in the window: the volume is the one on the card.
LEMMA NoWindow ==
  ASSUME card' \in Volumes, safe' \in Volumes,
         win' = [sect |-> NoSect, dirty |-> FALSE, copy |-> <<>>]
  PROVE  WinOk' /\ FatNow' = card'.fat /\ EntNow' = card'.ent
<1>1. WinOk'  BY DEF WinOk
<1>2. win'.sect = NoSect  OBVIOUS
<1>3. NoSect # DirSect  BY FatAssumption DEF NoSect, DirSect
<1>4. EntNow' = card'.ent  BY <1>2, <1>3 DEF EntNow
<1>5. \A c \in Clusters : FatSect(c) # win'.sect  BY <1>2, SectorNumbers
<1>6. card'.fat \in [Clusters -> Nat]  BY DEF Volumes
<1>7. FatNow' = card'.fat  BY <1>5, <1>6 DEF FatNow
<1> QED  BY <1>1, <1>4, <1>7

\* The sectors that are asked for.
LEMMA NeedForm ==
  ASSUME WinOk, call \in Calling, call.at \in {"free", "scan"} => call.c \in Clusters \/ call.k \in Clusters,
         call.at = "free" => call.c \in Clusters, call.at = "scan" => call.k \in Clusters
  PROVE  Need \in {NoSect, win.sect, DirSect} \cup {FatSect(c) : c \in Clusters}
BY DEF Need

LEMMA Flushed ==
  ASSUME WinOk, FlushWindow
  PROVE  /\ WinOk' /\ FatNow' = FatNow /\ EntNow' = EntNow
         /\ card'.fat = FatNow /\ card'.ent = EntNow /\ card'.data = card.data /\ safe' = card
<1>1. win.dirty /\ win.sect # NoSect  BY WindowForm DEF FlushWindow
<1> DEFINE new == Stored(card, win.sect, win.copy)
<1>2. new \in Volumes /\ new.fat = FatNow /\ new.ent = EntNow /\ new.data = card.data
  BY <1>1, WrittenBack
<1>3. card' = new /\ safe' = card  BY DEF FlushWindow, DiskWrite
<1>4. win' = [sect |-> win.sect, dirty |-> FALSE, copy |-> win.copy]
  BY <1>1, WindowForm DEF FlushWindow
<1>5. PICK s \in {DirSect} \cup {FatSect(c) : c \in Clusters} : win \in Windows(s)
  BY <1>1 DEF WinOk
<1>6. win' \in Windows(s)  BY <1>4, <1>5 DEF Windows
<1>7. FatNow \in [Clusters -> Nat] /\ EntNow \in [Names -> Entries]  BY WindowForm
<1>8. FatNow' = FatNow
  BY <1>2, <1>3, <1>4 DEF FatNow
<1>9. EntNow' = EntNow  BY <1>2, <1>3, <1>4 DEF EntNow
<1>10. win.copy = Contents(card, win.sect)'
  <2>1. CASE win.sect = DirSect
    BY <1>2, <1>3, <1>4, <2>1 DEF Contents, EntNow
  <2>2. CASE win.sect # DirSect
    <3>1. PICK c \in Clusters : win.sect = FatSect(c)
      BY <1>5, <2>2 DEF Windows
    <3>2. win.copy \in [InSect(win.sect) -> Nat]  BY <3>1, WindowForm
    <3>3. win.copy = [d \in InSect(win.sect) |-> FatNow[d]]
      BY <3>2 DEF FatNow, InSect
    <3> QED  BY <1>2, <1>3, <1>4, <2>2, <3>3 DEF Contents
  <2> QED  BY <2>1, <2>2
<1>11. WinOk'
  <2>1. card' \in Volumes /\ safe' \in Volumes  BY <1>2, <1>3 DEF WinOk
  <2>2. win'.sect = win.sect /\ win'.copy = win.copy  BY <1>4
  <2> QED  BY <1>6, <1>10, <2>1, <2>2 DEF WinOk, Windows
<1> QED  BY <1>2, <1>3, <1>8, <1>9, <1>11

LEMMA Loaded ==
  ASSUME WinOk, LoadWindow,
         Need \in {NoSect, win.sect, DirSect} \cup {FatSect(c) : c \in Clusters}
  PROVE  WinOk' /\ FatNow' = FatNow /\ EntNow' = EntNow
<1>1. card' = card /\ safe' = card  BY DEF LoadWindow, DiskRead
<1>2. win' = [sect |-> Need, dirty |-> FALSE, copy |-> Contents(card, Need)]
  BY DEF LoadWindow
<1>3. Need \in {DirSect} \cup {FatSect(c) : c \in Clusters} /\ ~win.dirty
  BY DEF LoadWindow
<1>4. card \in Volumes  BY DEF WinOk
<1>5. win' \in Windows(Need)
  <2>1. CASE Need = DirSect
    BY <1>2, <1>4, <2>1 DEF Windows, Contents, Volumes
  <2>2. CASE Need # DirSect
    <3>1. Contents(card, Need) = [c \in InSect(Need) |-> card.fat[c]]
      BY <2>2 DEF Contents
    <3>2. Contents(card, Need) \in [InSect(Need) -> Nat]
      BY <1>4, <3>1 DEF Volumes, InSect
    <3> QED  BY <1>2, <2>2, <3>2 DEF Windows
  <2> QED  BY <2>1, <2>2
<1>6. WinOk'
  <2>1. Contents(card, Need)' = Contents(card, Need)'  OBVIOUS
  <2>2. win'.copy = Contents(card', win'.sect)  BY <1>1, <1>2
  <2>3. Contents(card, win.sect)' = Contents(card', win'.sect)  BY DEF Contents, InSect
  <2> QED  BY <1>1, <1>3, <1>4, <1>5, <2>2, <2>3 DEF WinOk, Windows
<1>7. FatNow = card.fat /\ EntNow = card.ent  BY <1>3, OnCard
<1>8. FatNow' = card'.fat /\ EntNow' = card'.ent
  <2>1. card'.fat \in [Clusters -> Nat]  BY <1>1, <1>4 DEF Volumes
  <2>2. ASSUME NEW c \in Clusters, FatSect(c) = Need
        PROVE  win'.copy[c] = card'.fat[c]
    <3>1. Need # DirSect  BY <2>2, SectorNumbers
    <3> QED  BY <1>1, <1>2, <2>2, <3>1 DEF Contents, InSect
  <2>3. FatNow' = card'.fat  BY <1>2, <2>1, <2>2 DEF FatNow
  <2>4. EntNow' = card'.ent  BY <1>1, <1>2 DEF EntNow, Contents
  <2> QED  BY <2>3, <2>4
<1> QED  BY <1>1, <1>6, <1>7, <1>8

-----------------------------------------------------------------------------
(* Places in a chain.                                                      *)

\* Division.
LEMMA Quotient ==
  ASSUME NEW n \in Int, NEW q \in Nat \ {0}
  PROVE  n % q \in 0 .. q - 1 /\ n = q * (n \div q) + (n % q) /\ n \div q \in Int
OBVIOUS

\* The quotient is the one with a remainder.
LEMMA QuotientIs ==
  ASSUME NEW n \in Int, NEW q \in Nat \ {0}, NEW k \in Int, NEW r \in 0 .. q - 1, n = q * k + r
  PROVE  n \div q = k /\ n % q = r
<1> DEFINE d == n \div q
<1>1. d \in Int /\ n = q * d + (n % q) /\ n % q \in 0 .. q - 1  BY Quotient
<1> HIDE DEF d
<1>2. ASSUME d < k PROVE FALSE
  <2>1. q * (d + 1) <= q * k  BY <1>1, <1>2
  <2>2. q * (d + 1) = q * d + q  BY <1>1
  <2> QED BY <1>1, <2>1, <2>2
<1>3. ASSUME k < d PROVE FALSE
  <2>1. q * (k + 1) <= q * d  BY <1>1, <1>3
  <2>2. q * (k + 1) = q * k + q  BY <1>1
  <2> QED BY <1>1, <2>1, <2>2
<1>4. d = k  BY <1>1, <1>2, <1>3
<1> QED BY <1>1, <1>4 DEF d

LEMMA Exactly ==
  ASSUME NEW n \in Int, NEW q \in Nat \ {0}, NEW k \in Int, n = q * k
  PROVE  n \div q = k /\ n % q = 0
<1> DEFINE r == 0
<1>1. n = q * k + r /\ r \in 0 .. q - 1  OBVIOUS
<1> HIDE DEF r
<1>2. n \div q = k /\ n % q = r  BY <1>1, QuotientIs
<1> QED  BY <1>2 DEF r

\* The sectors of a file do not overlap.
LEMMA Multiples ==
  ASSUME NEW i \in Nat, NEW j \in Nat
  PROVE  /\ SS * i \in Nat /\ SS * (i - 1) = SS * i - SS /\ SS * (i + 1) = SS * i + SS
         /\ i <= j => SS * i <= SS * j
         /\ i < j => SS * i <= SS * (j - 1)
         /\ SS * i < SS * j => i < j
<1>1. SS \in Nat \ {0}  BY FatAssumption
<1>2. SS * i \in Nat /\ SS * (i - 1) = SS * i - SS /\ SS * (i + 1) = SS * i + SS  BY <1>1
<1>3. i <= j => SS * i <= SS * j
  <2>1. SUFFICES ASSUME i <= j PROVE SS * i <= SS * j  OBVIOUS
  <2>2. PICK d \in Nat : j = i + d  BY <2>1
  <2>3. SS * j = SS * i + SS * d /\ SS * d \in Nat  BY <1>1, <2>2
  <2> QED  BY <1>2, <2>3
<1>4. i < j => SS * i <= SS * (j - 1)
  <2>1. SUFFICES ASSUME i < j PROVE SS * i <= SS * (j - 1)  OBVIOUS
  <2>2. PICK d \in Nat : j - 1 = i + d  BY <2>1
  <2>3. SS * (j - 1) = SS * i + SS * d /\ SS * d \in Nat  BY <1>1, <2>2
  <2> QED  BY <1>2, <2>3
<1>5. SS * i < SS * j => i < j
  <2>1. j <= i => SS * j <= SS * i
    <3>1. SUFFICES ASSUME j <= i PROVE SS * j <= SS * i  OBVIOUS
    <3>2. PICK d \in Nat : i = j + d  BY <3>1
    <3>3. SS * i = SS * j + SS * d /\ SS * d \in Nat /\ SS * j \in Nat  BY <1>1, <3>2
    <3> QED  BY <3>3
  <2>2. SS * j \in Nat  BY <1>1
  <2> QED  BY <1>2, <2>1, <2>2
<1> QED  BY <1>2, <1>3, <1>4, <1>5

\* What the remainder says of a pointer in the jth cluster.
LEMMA Inside ==
  ASSUME NEW w \in Seq(Clusters), NEW j, NEW p \in Nat, In(w, j, p)
  PROVE  /\ j \in 1 .. Len(w) /\ p <= SS * Len(w) /\ p > 0
         /\ p % SS = 0 => p = SS * j
         /\ p % SS # 0 => p < SS * j /\ SS - (p % SS) = SS * j - p
         /\ SectorStart(p - 1) = SS * (j - 1)
<1>1. SS \in Nat \ {0} /\ j \in 1 .. Len(w) /\ Len(w) \in Nat  BY FatAssumption DEF In
<1>2. PICK m \in Int, l \in Int, t \in Int : m = SS * (j - 1) /\ l = SS * j /\ t = SS * Len(w)
  BY <1>1
<1>3. l = m + SS /\ l <= t /\ m \in Nat  BY <1>1, <1>2, Multiples
<1>4. m < p /\ p <= l  BY <1>2 DEF In
<1>5. p < l => p % SS = p - m
  <2>1. SUFFICES ASSUME p < l PROVE p % SS = p - m  OBVIOUS
  <2>2. PICK r \in 0 .. SS - 1 : r = p - m  BY <1>1, <1>3, <1>4, <2>1
  <2>3. p = SS * (j - 1) + r /\ p \in Int /\ j - 1 \in Int  BY <1>1, <1>2, <2>2
  <2>4. PICK i \in Int : i = j - 1  BY <2>3
  <2>5. p % SS = r  BY <1>1, <2>3, <2>4, QuotientIs
  <2> QED  BY <2>2, <2>5
<1>6. p = l => p % SS = 0
  <2>1. SUFFICES ASSUME p = l PROVE p % SS = 0  OBVIOUS
  <2>2. p = SS * j /\ j \in Int /\ p \in Int  BY <1>1, <1>2, <2>1
  <2> QED  BY <1>1, <2>2, Exactly
<1>7. SectorStart(p - 1) = m
  <2>1. PICK r \in 0 .. SS - 1, q \in Int, i \in Int : r = p - 1 - m /\ q = p - 1 /\ i = j - 1
    BY <1>1, <1>3, <1>4
  <2>2. q = SS * i + r  BY <1>2, <2>1
  <2>3. q \div SS = i  BY <1>1, <2>2, QuotientIs
  <2>4. SectorStart(p - 1) = i * SS  BY <2>1, <2>3 DEF SectorStart
  <2> QED  BY <1>1, <1>2, <2>1, <2>4
<1> QED  BY <1>1, <1>2, <1>3, <1>4, <1>5, <1>6, <1>7

LEMMA Beginning ==
  ASSUME NEW w \in Seq(Clusters), NEW j, NEW p \in Nat, Begins(w, j, p)
  PROVE  /\ j \in 1 .. Len(w) /\ p % SS = 0 /\ SectorStart(p) = p /\ p \div SS = j - 1
         /\ \A d \in 1 .. SS : In(w, j, p + d)
         /\ p + SS = SS * j
         /\ j < Len(w) => Begins(w, j + 1, p + SS)
<1>1. SS \in Nat \ {0} /\ j \in 1 .. Len(w) /\ Len(w) \in Nat /\ p = SS * (j - 1)
  BY FatAssumption DEF Begins
<1>2. SS * j = SS * (j - 1) + SS  BY <1>1
<1>3. PICK i \in Int : i = j - 1  BY <1>1
<1>4. p = SS * i /\ p \in Int  BY <1>1, <1>3
<1>5. p % SS = 0 /\ p \div SS = i  BY <1>1, <1>4, Exactly
<1>6. SectorStart(p) = p  BY <1>1, <1>4, <1>5 DEF SectorStart
<1>7. ASSUME NEW d \in 1 .. SS  PROVE In(w, j, p + d)
  <2>1. PICK m \in Int : m = SS * (j - 1)  BY <1>1
  <2> QED  BY <1>1, <1>2, <2>1 DEF In
<1>8. j < Len(w) => Begins(w, j + 1, p + SS)
  <2>1. SS * ((j + 1) - 1) = SS * (j - 1) + SS  BY <1>1
  <2> QED  BY <1>1, <2>1 DEF Begins
<1> QED  BY <1>1, <1>2, <1>3, <1>5, <1>6, <1>7, <1>8

LEMMA Further ==
  ASSUME NEW w \in Seq(Clusters), NEW j, NEW p \in Nat, In(w, j, p), p % SS # 0,
         NEW d \in 1 .. SS - (p % SS)
  PROVE  In(w, j, p + d)
<1>1. SS - (p % SS) = SS * j - p  BY Inside
<1>2. j \in 1 .. Len(w) /\ SS \in Nat /\ Len(w) \in Nat  BY FatAssumption, Inside
<1>3. PICK m \in Int, l \in Int : m = SS * (j - 1) /\ l = SS * j  BY <1>2
<1>4. m < p /\ d <= l - p /\ d > 0 /\ d \in Int  BY <1>1, <1>3 DEF In
<1> QED  BY <1>2, <1>3, <1>4 DEF In

\* The pointer stands at the end of a cluster: there the next one begins.
LEMMA NextBegins ==
  ASSUME NEW w \in Seq(Clusters), NEW j, NEW p \in Nat, In(w, j, p), p % SS = 0
  PROVE  p = SS * j /\ (j < Len(w) => Begins(w, j + 1, p))
<1>1. p = SS * j /\ j \in 1 .. Len(w)  BY Inside
<1>2. SS * ((j + 1) - 1) = SS * j /\ Len(w) \in Nat  BY <1>1, FatAssumption
<1> QED  BY <1>1, <1>2 DEF Begins

-----------------------------------------------------------------------------
(* Chains that grow and that are freed.                                    *)

LEMMA Grown ==
  ASSUME NEW w \in Seq(Clusters), NEW k \in Clusters
  PROVE  /\ Append(w, k) \in Seq(Clusters) /\ Len(Append(w, k)) = Len(w) + 1
         /\ \A i \in 1 .. Len(w) : Append(w, k)[i] = w[i]
         /\ Append(w, k)[Len(w) + 1] = k
         /\ Append(w, k) # <<>> /\ Len(w) \in Nat
OBVIOUS

LEMMA Rest ==
  ASSUME NEW w \in Seq(Clusters), w # <<>>
  PROVE  /\ Tail(w) \in Seq(Clusters) /\ Len(Tail(w)) = Len(w) - 1
         /\ \A i \in 1 .. Len(w) - 1 : Tail(w)[i] = w[i + 1]
         /\ Len(w) \in Nat \ {0} /\ w[1] \in Clusters
         /\ Tail(w) = <<>> <=> Len(w) = 1
<1>1. Len(w) \in Nat \ {0} /\ w[1] \in Clusters  BY EmptySeq, LenProperties
<1>2. /\ Tail(w) \in Seq(Clusters) /\ Len(Tail(w)) = Len(w) - 1
      /\ \A i \in 1 .. Len(w) - 1 : Tail(w)[i] = w[i + 1]
  BY <1>1, HeadTailProperties
<1>3. Tail(w) = <<>> <=> Len(w) = 1  BY <1>1, <1>2, EmptySeq
<1> QED  BY <1>1, <1>2, <1>3

\* A pointer into a chain is one into the longer chain.
LEMMA GrownPlaces ==
  ASSUME NEW w \in Seq(Clusters), NEW k \in Clusters
  PROVE  /\ \A j, p : In(w, j, p) => In(Append(w, k), j, p) /\ Append(w, k)[j] = w[j]
         /\ \A j, p : Begins(w, j, p) => Begins(Append(w, k), j, p) /\ Append(w, k)[j] = w[j]
         /\ w # <<>> => \A start, size : size \in Nat /\ LiesOn(w, start, size) => LiesOn(Append(w, k), start, size)
<1>1. Len(Append(w, k)) = Len(w) + 1 /\ Len(w) \in Nat /\ Append(w, k) # <<>>
  BY Grown
<1>2. \A j \in 1 .. Len(w) : Append(w, k)[j] = w[j]  BY Grown
<1>3. \A j \in 1 .. Len(w) : j \in 1 .. Len(Append(w, k))  BY <1>1
<1>4. \A j, p : In(w, j, p) => In(Append(w, k), j, p) /\ Append(w, k)[j] = w[j]
  BY <1>2, <1>3 DEF In
<1>5. \A j, p : Begins(w, j, p) => Begins(Append(w, k), j, p) /\ Append(w, k)[j] = w[j]
  BY <1>2, <1>3 DEF Begins
<1>6. w # <<>> => \A start, size : size \in Nat /\ LiesOn(w, start, size) => LiesOn(Append(w, k), start, size)
  <2>1. SS * Len(Append(w, k)) = SS * Len(w) + SS /\ SS \in Nat /\ SS * Len(w) \in Nat
    BY <1>1, FatAssumption
  <2>2. w # <<>> => Append(w, k)[1] = w[1]
    <3>1. w # <<>> => 1 \in 1 .. Len(w)  BY <1>1, EmptySeq
    <3> QED  BY <1>2, <3>1
  <2> QED  BY <1>1, <2>1, <2>2 DEF LiesOn
<1> QED  BY <1>4, <1>5, <1>6

-----------------------------------------------------------------------------
(* A step of a call.                                                       *)

\* Between two calls.
Resting(w, o) == o.open /\ ~o.err => PtrOk(w, o)

\* The call returns or goes on, with the file n on the chain w.
Going(w, e, n) ==
  \E o \in Files :
    /\ obj' = [obj EXCEPT ![n] = o]
    /\ FileOk(w, e, o)
    /\ call' \in Calling
    /\ \/ call'.at = "idle" /\ Resting(w, o)
       \/ call'.at # "idle" /\ call'.n = n /\ PlaceOk(w, e, o, call')

LEMMA StepKeeps ==
  ASSUME BaseInv, NEW own \in Owns, ChainInv(own), NEW n \in Names, NEW w \in Seq(Clusters),
         NEW e \in Entries, NEW own2, own2 = [own EXCEPT ![n] = w],
         call.at = "idle" \/ call.n = n,
         EntNow' = [EntNow EXCEPT ![n] = e],
         Apart(own2), Linked(own2, FatNow'), Going(w, e, n),
         call'.at = "link" => FatNow'[call'.k] = EOC /\ Unowned(own2, call'.k)
  PROVE  ChainInv(own2)' /\ own2 \in Owns /\ obj' \in [Names -> Files] /\ call' \in Calling
<1>1. PICK o \in Files : /\ obj' = [obj EXCEPT ![n] = o]
                         /\ FileOk(w, e, o)
                         /\ call' \in Calling
                         /\ \/ call'.at = "idle" /\ Resting(w, o)
                            \/ call'.at # "idle" /\ call'.n = n /\ PlaceOk(w, e, o, call')
  BY DEF Going
<1>2. own2 \in Owns /\ own2[n] = w  BY DEF Owns
<1>3. obj \in [Names -> Files] /\ EntNow \in [Names -> Entries]
  BY WindowForm DEF BaseInv, TypeOK
<1>4. obj' \in [Names -> Files] /\ obj'[n] = o /\ EntNow'[n] = e  BY <1>1, <1>3
<1>5. ASSUME NEW m \in Names
      PROVE  /\ FileOk(own2[m], EntNow'[m], obj'[m])
             /\ Busy(m)' => PlaceOk(own2[m], EntNow'[m], obj'[m], call')
             /\ obj'[m].open /\ ~obj'[m].err /\ ~Busy(m)' => PtrOk(own2[m], obj'[m])
  <2>1. CASE m = n
    BY <1>1, <1>2, <1>4, <2>1 DEF Busy, Resting
  <2>2. CASE m # n
    <3>1. own2[m] = own[m] /\ obj'[m] = obj[m] /\ EntNow'[m] = EntNow[m]
      BY <1>1, <1>3, <2>2 DEF Owns
    <3>2. ~Busy(m) /\ ~Busy(m)'  BY <1>1, <2>2 DEF Busy
    <3>3. /\ FileOk(own[m], EntNow[m], obj[m])
          /\ obj[m].open /\ ~obj[m].err => PtrOk(own[m], obj[m])
      BY <3>2 DEF ChainInv
    <3> QED  BY <3>1, <3>2, <3>3
  <2> QED  BY <2>1, <2>2
<1>6. Linking(own2)'  BY DEF Linking, Unowned
<1>7. Apart(own2)' /\ Linked(own2, FatNow)'  BY DEF Apart, Linked
<1> QED  BY <1>1, <1>2, <1>4, <1>5, <1>6, <1>7 DEF ChainInv

\* A step that leaves the volume as it is.
LEMMA QuietStep ==
  ASSUME BaseInv, NEW own \in Owns, ChainInv(own), NEW n \in Names,
         call.at = "idle" \/ call.n = n,
         FatNow' = FatNow, EntNow' = EntNow,
         Going(own[n], EntNow[n], n), call'.at # "link"
  PROVE  ChainInv(own)' /\ obj' \in [Names -> Files] /\ call' \in Calling
<1>1. PICK w \in Seq(Clusters), e \in Entries : w = own[n] /\ e = EntNow[n]
  BY WindowForm DEF Owns, BaseInv
<1>2. own = [own EXCEPT ![n] = w]  BY <1>1 DEF Owns
<1>3. EntNow' = [EntNow EXCEPT ![n] = e]  BY <1>1, WindowForm DEF BaseInv
<1>4. Apart(own) /\ Linked(own, FatNow')  BY DEF ChainInv
<1>5. Going(w, e, n)  BY <1>1
<1> QED  BY <1>1, <1>2, <1>3, <1>4, <1>5, StepKeeps

\* The records.
LEMMA Records ==
  /\ Closed \in Files /\ Idle \in Calling
  /\ ~Closed.open /\ Idle.at = "idle"
  /\ \A n \in Names, x \in {"write", "read", "seek", "close"}, l \in Nat :
       /\ Begin(n, x, l) \in Calling
       /\ Begin(n, x, l).n = n /\ Begin(n, x, l).op = x /\ Begin(n, x, l).left = l
<1>1. Closed \in Files /\ ~Closed.open  BY DEF Closed, Files, Labels
<1>2. Idle \in Calling /\ Idle.at = "idle"  BY DEF Idle, Calling, Labels, AtPlaces
<1>3. ASSUME NEW n \in Names, NEW x \in {"write", "read", "seek", "close"}, NEW l \in Nat
      PROVE  /\ Begin(n, x, l) \in Calling
             /\ Begin(n, x, l).n = n /\ Begin(n, x, l).op = x /\ Begin(n, x, l).left = l
  BY <1>2 DEF Begin, Calling, Labels
<1> QED  BY <1>1, <1>2, <1>3

LEMMA Constants ==
  /\ NFatent \in Nat /\ NFatent > 2 /\ SS \in Nat \ {0} /\ DiskErr \in Nat /\ EOC \in Nat
  /\ DiskErr \notin Clusters /\ EOC \notin Clusters /\ DiskErr # 0
  /\ 0 \notin Clusters /\ 1 \notin Clusters /\ Clusters \subseteq Nat
  /\ \A k \in 1 .. NFatent - 1 : Next1(k) \in Clusters
  /\ Clusters \subseteq 1 .. NFatent - 1
  /\ 0 % SS = 0
<1>1. 0 % SS = 0
  <2>1. SS \in Nat \ {0} /\ 0 \in Int /\ 0 = SS * 0  BY FatAssumption
  <2> QED  BY <2>1, Exactly
<1> QED  BY <1>1, FatAssumption DEF DiskErr, EOC, Clusters, Next1

\* A pointer is at the beginning of the file, or the file has a chain there.
LEMMA PtrForm ==
  ASSUME NEW w \in Seq(Clusters), NEW o \in Files, PtrOk(w, o)
  PROVE  /\ o.sclust = 0 => o.fptr = 0
         /\ o.sclust \in Clusters => o.fptr <= SS * Len(w)
<1>1. 0 <= SS * Len(w)  BY FatAssumption, LenProperties
<1> QED  BY <1>1, Inside, Constants DEF PtrOk, Files

\* The size follows the pointer.
LEMMA Stretched ==
  ASSUME NEW w \in Seq(Clusters), NEW e, NEW o \in Files, FileOk(w, e, o), o.open, PtrOk(w, o)
  PROVE  /\ Written(o) \in Files /\ FileOk(w, e, Written(o)) /\ PtrOk(w, Written(o))
         /\ Sought(o) \in Files /\ FileOk(w, e, Sought(o)) /\ PtrOk(w, Sought(o))
<1>1. \A s \in Nat, b \in BOOLEAN : (s <= o.fptr \/ s = o.fsize) =>
        LET p == [o EXCEPT !.fsize = s, !.written = b]
        IN  p \in Files /\ FileOk(w, e, p) /\ PtrOk(w, p)
  <2> TAKE s \in Nat, b \in BOOLEAN
  <2>1. SUFFICES ASSUME s <= o.fptr \/ s = o.fsize,
                        NEW p, p = [o EXCEPT !.fsize = s, !.written = b]
                 PROVE  p \in Files /\ FileOk(w, e, p) /\ PtrOk(w, p)
    OBVIOUS
  <2>2. /\ p \in Files /\ p.open /\ p.sclust = o.sclust /\ p.fptr = o.fptr
        /\ p.clust = o.clust /\ p.fsize = s
    BY <2>1 DEF Files
  <2>3. LiesOn(w, o.sclust, o.fsize)  BY DEF FileOk
  <2>4. o.fptr \in Nat /\ o.fsize \in Nat /\ SS * Len(w) \in Nat
    BY LenProperties, FatAssumption DEF Files
  <2>5. LiesOn(w, o.sclust, s)
    BY <2>1, <2>3, <2>4, PtrForm DEF LiesOn
  <2> QED  BY <2>2, <2>5 DEF FileOk, PtrOk
<1>2. Written(o) \in Files /\ FileOk(w, e, Written(o)) /\ PtrOk(w, Written(o))
  <2> DEFINE s == GreaterOf(o.fsize, o.fptr)
  <2>1. s \in Nat /\ (s <= o.fptr \/ s = o.fsize)  BY DEF GreaterOf, Files
  <2>2. Written(o) = [o EXCEPT !.fsize = s, !.written = TRUE]  BY DEF Written
  <2> HIDE DEF s
  <2> QED  BY <1>1, <2>1, <2>2
<1>3. CASE o.fptr <= o.fsize
  BY <1>2, <1>3 DEF Sought
<1>4. CASE ~(o.fptr <= o.fsize)
  <2> DEFINE s == o.fptr
  <2>1. s \in Nat /\ (s <= o.fptr \/ s = o.fsize)  BY DEF Files
  <2>2. Sought(o) = [o EXCEPT !.fsize = s, !.written = TRUE]  BY <1>4 DEF Sought
  <2> HIDE DEF s
  <2>3. Sought(o) \in Files /\ FileOk(w, e, Sought(o)) /\ PtrOk(w, Sought(o))
    BY <1>1, <2>1, <2>2
  <2> QED  BY <1>2, <2>3
<1> QED  BY <1>2, <1>3, <1>4

LEMMA SameFile ==
  ASSUME NEW w, NEW e, NEW o \in Files, FileOk(w, e, o), o.open,
         NEW p \in Files, p.open, p.sclust = o.sclust, p.fsize = o.fsize
  PROVE  FileOk(w, e, p)
BY DEF FileOk

LEMMA PlaceForm ==
  ASSUME NEW cl \in Calling, NEW at \in AtPlaces, NEW c \in Nat
  PROVE  LET pl == Place(cl, at, c)
         IN  /\ pl \in Calling /\ pl.at = at /\ pl.c = c /\ pl.n = cl.n /\ pl.op = cl.op
             /\ pl.left = cl.left /\ pl.from = cl.from
BY DEF Place, Calling

LEMMA ScanForm ==
  ASSUME NEW cl \in Calling, NEW c \in Nat, NEW s \in 1 .. NFatent - 1
  PROVE  LET sc == ScanFor(cl, c, s)
         IN  /\ sc \in Calling /\ sc.at = "scan" /\ sc.c = c /\ sc.n = cl.n /\ sc.op = cl.op
             /\ sc.left = cl.left /\ sc.from = cl.from /\ sc.scl = s
             /\ sc.k \in Clusters
<1>1. Next1(s) \in Clusters /\ NFatent \in Nat  BY Constants
<1>2. Next1(s) \in Nat /\ s \in Nat  BY <1>1, Constants DEF Next1
<1> QED  BY <1>1, <1>2 DEF ScanFor, Calling, AtPlaces

\* The first cluster of the file is at hand.
LEMMA AtFirst ==
  ASSUME NEW w \in Seq(Clusters), NEW e, NEW o \in Files, FileOk(w, e, o), o.fptr = 0,
         o.sclust \in Clusters
  PROVE  LET p == [o EXCEPT !.clust = o.sclust] IN p \in Files /\ StartOk(w, p)
<1>1. w # <<>> /\ w[1] = o.sclust  BY DEF FileOk, LiesOn
<1>2. 1 \in 1 .. Len(w)  BY <1>1, Rest
<1>3. Begins(w, 1, 0)  BY <1>2, FatAssumption DEF Begins
<1> QED  BY <1>1, <1>2, <1>3 DEF StartOk, Files

LEMMA WriteGoes ==
  ASSUME NEW n \in Names, NEW w \in Seq(Clusters), NEW e, NEW o \in Files, FileOk(w, e, o),
         o.open, ~o.err, PtrOk(w, o), last \in Nat,
         NEW cl \in Calling, cl.n = n, cl.op = "write", WriteOn(o, cl)
  PROVE  Going(w, e, n) /\ call'.at # "link"
<1>1. o.fptr \in Nat /\ cl.left \in Nat /\ o.clust \in Nat  BY DEF Files, Calling
<1>2. CASE cl.left = 0
  <2>1. obj' = [obj EXCEPT ![n] = Written(o)] /\ call' = Idle  BY <1>2 DEF WriteOn
  <2>2. Written(o) \in Files /\ FileOk(w, e, Written(o)) /\ PtrOk(w, Written(o))  BY Stretched
  <2> QED  BY <2>1, <2>2, Records DEF Going, Resting
<1>3. CASE cl.left # 0 /\ o.fptr % SS # 0
  <2> DEFINE pl == Place(cl, "inside", 0)
  <2>1. obj' = [obj EXCEPT ![n] = o] /\ call' = pl
    BY <1>3 DEF WriteOn, Goes, Place
  <2>2. pl \in Calling /\ pl.at = "inside" /\ pl.n = n /\ pl.op = "write" /\ pl.left = cl.left
    BY <1>1 DEF Place, Calling, AtPlaces
  <2>3. o.fptr > 0  BY <1>1, <1>3, Constants
  <2> HIDE DEF pl
  <2>4. InsideOk(w, o, pl)  BY <1>1, <1>3, <2>2, <2>3 DEF InsideOk
  <2>5. PlaceOk(w, e, o, pl)  BY <2>2, <2>4 DEF PlaceOk
  <2> QED  BY <2>1, <2>2, <2>5 DEF Going
<1>4. CASE cl.left # 0 /\ o.fptr % SS = 0 /\ o.fptr > 0
  <2> DEFINE pl == Place(cl, "stretch", o.clust)
  <2>1. obj' = [obj EXCEPT ![n] = o] /\ call' = pl
    BY <1>4, <1>1 DEF WriteOn, Goes, Place
  <2>2. /\ pl \in Calling /\ pl.at = "stretch" /\ pl.n = n /\ pl.op = "write"
        /\ pl.left = cl.left /\ pl.c = o.clust
    BY <1>1 DEF Place, Calling, AtPlaces
  <2> HIDE DEF pl
  <2>4. InOk(w, o, pl)  BY <1>1, <1>4, <2>2 DEF InOk
  <2>5. PlaceOk(w, e, o, pl)  BY <2>2, <2>4 DEF PlaceOk
  <2> QED  BY <2>1, <2>2, <2>5 DEF Going
<1>5. CASE cl.left # 0 /\ o.fptr % SS = 0 /\ ~(o.fptr > 0) /\ o.sclust = 0
  <2> DEFINE sc == ScanFor(cl, 0, Hint)
  <2>1. Hint \in 1 .. NFatent - 1  BY Constants DEF Hint
  <2>2. /\ sc \in Calling /\ sc.at = "scan" /\ sc.n = n /\ sc.op = "write"
        /\ sc.left = cl.left /\ sc.c = 0 /\ sc.k \in Clusters /\ sc.scl \in 1 .. NFatent - 1
    BY <2>1, ScanForm
  <2>3. obj' = [obj EXCEPT ![n] = o] /\ call' = sc
    BY <1>5, <2>2 DEF WriteOn, Goes
  <2> HIDE DEF sc
  <2>4. FirstOk(o, sc)  BY <1>1, <1>5, <2>2 DEF FirstOk
  <2>5. PlaceOk(w, e, o, sc)  BY <2>2, <2>4 DEF PlaceOk
  <2> QED  BY <2>2, <2>3, <2>5 DEF Going
<1>6. CASE cl.left # 0 /\ o.fptr % SS = 0 /\ ~(o.fptr > 0) /\ o.sclust \in Clusters
  <2> DEFINE pl == Place(cl, "store", 0)
  <2> DEFINE p == [o EXCEPT !.clust = o.sclust]
  <2>1. /\ pl \in Calling /\ pl.at = "store" /\ pl.n = n /\ pl.op = "write"
        /\ pl.left = cl.left
    BY <1>1 DEF Place, Calling, AtPlaces
  <2>2. o.sclust # 0  BY <1>6, Constants
  <2>3. obj' = [obj EXCEPT ![n] = p] /\ call' = pl
    BY <1>6, <2>1, <2>2 DEF WriteOn, Goes
  <2>4. p \in Files /\ StartOk(w, p)  BY <1>1, <1>6, AtFirst
  <2>5. p.open /\ ~p.err /\ p.sclust = o.sclust /\ p.fsize = o.fsize  BY DEF Files
  <2> HIDE DEF pl, p
  <2>6. FileOk(w, e, p)  BY <2>4, <2>5, SameFile
  <2>7. SectorOk(w, p, pl)  BY <1>1, <1>6, <2>1, <2>4, <2>5 DEF SectorOk
  <2>8. PlaceOk(w, e, p, pl)  BY <2>1, <2>7 DEF PlaceOk
  <2> QED  BY <2>1, <2>3, <2>4, <2>6, <2>8 DEF Going
<1>7. CASE cl.left # 0 /\ o.fptr % SS = 0 /\ ~(o.fptr > 0) /\ o.sclust # 0 /\ o.sclust \notin Clusters
  <2> DEFINE p == [o EXCEPT !.err = TRUE]
  <2>1. obj' = [obj EXCEPT ![n] = p] /\ call' = Idle
    BY <1>7 DEF WriteOn
  <2>2. p \in Files /\ p.open /\ p.err /\ p.sclust = o.sclust /\ p.fsize = o.fsize  BY DEF Files
  <2> HIDE DEF p
  <2>3. FileOk(w, e, p)  BY <2>2, SameFile
  <2> QED  BY <2>1, <2>2, <2>3, Records DEF Going, Resting
<1> QED  BY <1>2, <1>3, <1>4, <1>5, <1>6, <1>7

LEMMA ReadGoes ==
  ASSUME NEW n \in Names, NEW w \in Seq(Clusters), NEW e, NEW o \in Files, FileOk(w, e, o),
         o.open, ~o.err, PtrOk(w, o),
         NEW cl \in Calling, cl.n = n, cl.op = "read", ReadOn(o, cl)
  PROVE  Going(w, e, n) /\ call'.at # "link"
<1>1. o.fptr \in Nat /\ cl.left \in Nat /\ o.clust \in Nat  BY DEF Files, Calling
<1>2. CASE cl.left = 0
  <2>1. obj' = [obj EXCEPT ![n] = o] /\ call' = Idle  BY <1>2 DEF ReadOn
  <2> QED  BY <2>1, Records DEF Going, Resting
<1>3. CASE cl.left # 0 /\ o.fptr % SS # 0
  <2> DEFINE pl == [cl EXCEPT !.at = "inside"]
  <2>2. pl \in Calling /\ pl.at = "inside" /\ pl.n = n /\ pl.op = "read" /\ pl.left = cl.left
    BY DEF AtPlaces, Calling
  <2>1. obj' = [obj EXCEPT ![n] = o] /\ call' = pl
    BY <1>3, <2>2 DEF ReadOn, Goes
  <2>3. o.fptr > 0  BY <1>1, <1>3, Constants
  <2> HIDE DEF pl
  <2>4. InsideOk(w, o, pl)  BY <1>1, <1>3, <2>2, <2>3 DEF InsideOk
  <2>5. PlaceOk(w, e, o, pl)  BY <2>2, <2>4 DEF PlaceOk
  <2> QED  BY <2>1, <2>2, <2>5 DEF Going
<1>4. CASE cl.left # 0 /\ o.fptr % SS = 0 /\ o.fptr > 0
  <2> DEFINE pl == [cl EXCEPT !.at = "follow", !.c = o.clust]
  <2>2. /\ pl \in Calling /\ pl.at = "follow" /\ pl.n = n /\ pl.op = "read"
        /\ pl.left = cl.left /\ pl.c = o.clust
    BY <1>1 DEF AtPlaces, Calling
  <2>1. obj' = [obj EXCEPT ![n] = o] /\ call' = pl
    BY <1>4, <1>1, <2>2 DEF ReadOn, Goes
  <2> HIDE DEF pl
  <2>4. InOk(w, o, pl)  BY <1>1, <1>4, <2>2 DEF InOk
  <2>5. PlaceOk(w, e, o, pl)  BY <2>2, <2>4 DEF PlaceOk
  <2> QED  BY <2>1, <2>2, <2>5 DEF Going
<1>6. CASE cl.left # 0 /\ o.fptr % SS = 0 /\ ~(o.fptr > 0) /\ o.sclust \in Clusters
  <2> DEFINE pl == [cl EXCEPT !.at = "fetch"]
  <2> DEFINE p == [o EXCEPT !.clust = o.sclust]
  <2>1. /\ pl \in Calling /\ pl.at = "fetch" /\ pl.n = n /\ pl.op = "read"
        /\ pl.left = cl.left
    BY <1>1 DEF AtPlaces, Calling
  <2>3. obj' = [obj EXCEPT ![n] = p] /\ call' = pl
    BY <1>6, <2>1 DEF ReadOn, Goes
  <2>4. p \in Files /\ StartOk(w, p)  BY <1>1, <1>6, AtFirst
  <2>5. p.open /\ ~p.err /\ p.sclust = o.sclust /\ p.fsize = o.fsize  BY DEF Files
  <2> HIDE DEF pl, p
  <2>6. FileOk(w, e, p)  BY <2>4, <2>5, SameFile
  <2>7. SectorOk(w, p, pl)  BY <1>1, <1>6, <2>1, <2>4, <2>5 DEF SectorOk
  <2>8. PlaceOk(w, e, p, pl)  BY <2>1, <2>7 DEF PlaceOk
  <2> QED  BY <2>1, <2>3, <2>4, <2>6, <2>8 DEF Going
<1>7. CASE cl.left # 0 /\ o.fptr % SS = 0 /\ ~(o.fptr > 0) /\ o.sclust \notin Clusters
  <2> DEFINE p == [o EXCEPT !.err = TRUE]
  <2>1. obj' = [obj EXCEPT ![n] = p] /\ call' = Idle
    BY <1>7 DEF ReadOn
  <2>2. p \in Files /\ p.open /\ p.err /\ p.sclust = o.sclust /\ p.fsize = o.fsize  BY DEF Files
  <2> HIDE DEF p
  <2>3. FileOk(w, e, p)  BY <2>2, SameFile
  <2> QED  BY <2>1, <2>2, <2>3, Records DEF Going, Resting
<1> QED  BY <1>2, <1>3, <1>4, <1>6, <1>7

\* left is more than nothing.
LEMMA SeekGoes ==
  ASSUME NEW n \in Names, NEW w \in Seq(Clusters), NEW e, NEW o \in Files, FileOk(w, e, o),
         o.open, ~o.err, SeekOk(w, o),
         NEW cl \in Calling, cl.n = n, cl.op = "seek", cl.left > 0, SeekOn(o, cl, o.clust)
  PROVE  Going(w, e, n) /\ call'.at # "link"
<1>1. o.fptr \in Nat /\ cl.left \in Nat /\ o.clust \in Nat /\ SS \in Nat
  BY FatAssumption DEF Files, Calling
<1>2. CASE cl.left > SS
  <2> DEFINE at == IF o.wr THEN "stretch" ELSE "follow"
  <2> DEFINE pl == Place(cl, at, o.clust)
  <2>1. at \in AtPlaces /\ at \in {"stretch", "follow"}  BY DEF AtPlaces
  <2>2. /\ pl \in Calling /\ pl.at = at /\ pl.n = n /\ pl.op = "seek"
        /\ pl.left = cl.left /\ pl.c = o.clust
    <3>1. PICK t \in AtPlaces, c \in Nat : t = at /\ c = o.clust  BY <1>1, <2>1
    <3>2. PICK x \in Calling : /\ x = Place(cl, t, c) /\ x.at = t /\ x.n = cl.n /\ x.op = cl.op
                               /\ x.left = cl.left /\ x.c = c
      BY PlaceForm
    <3> QED  BY <3>1, <3>2
  <2>3. obj' = [obj EXCEPT ![n] = o] /\ call' = pl
    BY <1>2, <2>2 DEF SeekOn, Goes
  <2> HIDE DEF pl, at
  <2>4. InOk(w, o, pl)  BY <1>2, <2>2 DEF InOk
  <2>5. PlaceOk(w, e, o, pl)  BY <2>1, <2>2, <2>4 DEF PlaceOk
  <2> QED  BY <2>1, <2>2, <2>3, <2>5 DEF Going
<1>3. CASE ~(cl.left > SS)
  <2> DEFINE p == [o EXCEPT !.fptr = @ + cl.left]
  <2> DEFINE pl == Place([cl EXCEPT !.left = 0], "fill", o.clust)
  <2>1. [cl EXCEPT !.left = 0] \in Calling /\ [cl EXCEPT !.left = 0].n = n
        /\ [cl EXCEPT !.left = 0].op = "seek"
    BY DEF Calling
  <2>2. pl \in Calling /\ pl.at = "fill" /\ pl.n = n /\ pl.op = "seek" /\ pl.c = o.clust
    BY <1>1, <2>1 DEF Place, Calling, AtPlaces
  <2>3. obj' = [obj EXCEPT ![n] = p] /\ call' = pl
    BY <1>3, <2>2 DEF SeekOn, Goes
  <2>4. /\ p \in Files /\ p.open /\ ~p.err /\ p.sclust = o.sclust /\ p.fsize = o.fsize
        /\ p.clust = o.clust /\ p.fptr = o.fptr + cl.left
    BY <1>1 DEF Files
  <2> HIDE DEF pl, p
  <2>5. FileOk(w, e, p)  BY <2>4, SameFile
  <2>6. p.fptr > 0  BY <1>1, <2>4
  <2>7. PtrOk(w, p)
    <3>1. cl.left \in 1 .. SS  BY <1>1, <1>3
    <3>2. StartOk(w, o) => \E j \in 1 .. Len(w) : o.clust = w[j] /\ In(w, j, p.fptr)
      BY <1>1, <2>4, <3>1, Beginning DEF StartOk
    <3> QED  BY <2>4, <3>2 DEF PtrOk, SeekOk, StartOk
  <2>8. PlaceOk(w, e, p, pl)  BY <2>2, <2>4, <2>6, <2>7 DEF PlaceOk
  <2> QED  BY <2>2, <2>3, <2>4, <2>5, <2>8 DEF Going
<1> QED  BY <1>2, <1>3

-----------------------------------------------------------------------------
(* How calls end, and what create_chain returns.                           *)

LEMMA SectorStartForm ==
  ASSUME NEW p \in Nat
  PROVE  SectorStart(p) \in Nat /\ SectorStart(p) <= p
<1>1. SS \in Nat \ {0} /\ p \in Int  BY FatAssumption
<1>2. p % SS \in 0 .. SS - 1 /\ p = SS * (p \div SS) + (p % SS) /\ p \div SS \in Int
  BY <1>1, Quotient
<1>3. PICK d \in Int, t \in 0 .. SS - 1 : d = p \div SS /\ p = SS * d + t  BY <1>2
<1>4. ASSUME d < 0 PROVE FALSE
  <2>1. SS * (d + 1) <= 0  BY <1>1, <1>3, <1>4
  <2>2. SS * (d + 1) = SS * d + SS  BY <1>1, <1>3
  <2> QED  BY <1>1, <1>3, <2>1, <2>2
<1>5. d \in Nat /\ SS * d \in Nat /\ SS * d <= p  BY <1>1, <1>3, <1>4
<1> QED  BY <1>1, <1>3, <1>5 DEF SectorStart

LEMMA ForgetForm ==
  ASSUME NEW o \in Files, call \in Calling
  PROVE  /\ Forget(o) \in Files
         /\ Forget(o).open = o.open /\ Forget(o).sclust = o.sclust
         /\ Forget(o).fsize = o.fsize
<1>1. SectorStart(call.from) \in Nat  BY SectorStartForm DEF Calling
<1> QED  BY <1>1 DEF Forget, Files, LesserOf

LEMMA ClosedGoes ==
  ASSUME NEW n \in Names, NEW w, NEW e, EntryOk(w, e), call.n = n, Return(Closed)
  PROVE  Going(w, e, n) /\ call' = Idle
<1>1. Closed.sclust = 0 /\ Closed.fsize = 0 /\ ~Closed.open  BY DEF Closed
<1>2. FileOk(w, e, Closed)  BY <1>1, Constants DEF FileOk, LiesOn
<1>3. Resting(w, Closed)  BY <1>1 DEF Resting
<1> QED  BY <1>2, <1>3, Records DEF Return, Going

LEMMA AbortGoes ==
  ASSUME NEW n \in Names, NEW w, NEW e, NEW o \in Files, FileOk(w, e, o), o = obj[n], o.open,
         call \in Calling, call.n = n, NEW r, Abort(r),
         call.op = "write" /\ call.at = "scan" /\ call.c = 0 => r = DiskErr /\ o.sclust = 0
  PROVE  Going(w, e, n) /\ call' = Idle
<1> DEFINE s == IF call.op = "write" /\ call.at = "scan" /\ call.c = 0 THEN r ELSE o.sclust
<1> DEFINE p == [Forget(o) EXCEPT !.err = TRUE, !.sclust = s]
<1>1. s \in Nat /\ (s = o.sclust \/ (s = DiskErr /\ o.sclust = 0))
  BY Constants DEF Files
<1>2. obj' = [obj EXCEPT ![n] = p] /\ call' = Idle
  <2>1. Forget(o).sclust = o.sclust  BY ForgetForm
  <2> QED  BY <2>1 DEF Abort, Return
<1> HIDE DEF s
<1>3. p \in Files /\ p.open /\ p.err /\ p.sclust = s /\ p.fsize = o.fsize
  <2>1. /\ Forget(o) \in Files /\ Forget(o).open = o.open /\ Forget(o).fsize = o.fsize
    BY ForgetForm
  <2> QED  BY <1>1, <2>1 DEF Files
<1> HIDE DEF p
<1>4. FileOk(w, e, p)
  BY <1>1, <1>3, Constants DEF FileOk, LiesOn
<1> QED  BY <1>2, <1>3, <1>4, Records DEF Going, Resting

LEMMA FailGoes ==
  ASSUME NEW n \in Names, NEW w, NEW e, obj \in [Names -> Files], FileOk(w, e, obj[n]),
         call \in Calling, call.n = n, call.at # "idle", PlaceOk(w, e, obj[n], call),
         Failed(DiskErr)
  PROVE  Going(w, e, n) /\ call' = Idle
<1>1. CASE call.op \in {"open", "close"}
  BY <1>1, ClosedGoes DEF Failed, FileOk
<1>2. CASE call.op \notin {"open", "close"}
  <2>1. Abort(DiskErr)  BY <1>2 DEF Failed
  <2>2. obj[n].open
    BY <1>2 DEF PlaceOk, FreeOk, InOk, FirstOk, AfterOk, InsideOk, SectorOk, Calling, AtPlaces
  <2>3. call.at = "scan" /\ call.c = 0 => obj[n].sclust = 0  BY DEF PlaceOk, FirstOk
  <2>4. obj[n] \in Files  OBVIOUS
  <2> QED  BY <2>1, <2>2, <2>3, <2>4, AbortGoes
<1> QED  BY <1>1, <1>2

\* The disk is full.
LEMMA FullGoes ==
  ASSUME NEW n \in Names, NEW w \in Seq(Clusters), NEW e, NEW o \in Files, FileOk(w, e, o),
         o = obj[n], call \in Calling, call.n = n, ChainReturns(0),
         \/ call.c = 0 /\ FirstOk(o, call)
         \/ call.c # 0 /\ AfterOk(w, o, call)
  PROVE  Going(w, e, n) /\ call'.at # "link"
<1>1. o.open /\ ~o.err /\ call.op \in {"write", "seek"}  BY DEF FirstOk, AfterOk, InOk
<1>2. CASE call.op = "write"
  <2>1. Return(Written(o))  BY <1>2 DEF ChainReturns, ChainToWrite
  <2>2. PtrOk(w, o)  BY <1>2 DEF FirstOk, AfterOk, InOk, PtrOk
  <2>3. Written(o) \in Files /\ FileOk(w, e, Written(o)) /\ PtrOk(w, Written(o))
    BY <1>1, <2>2, Stretched
  <2> QED  BY <2>1, <2>3, Records DEF Return, Going, Resting
<1>3. CASE call.op = "seek" /\ call.c = 0
  <2> DEFINE p == [o EXCEPT !.clust = 0]
  <2>1. Return(p)  BY <1>3 DEF ChainReturns, ChainToSeek
  <2>2. /\ p \in Files /\ p.open /\ p.sclust = o.sclust /\ p.fsize = o.fsize
        /\ p.fptr = 0
    BY <1>1, <1>3 DEF Files, FirstOk
  <2> HIDE DEF p
  <2>3. FileOk(w, e, p)  BY <1>1, <2>2, SameFile
  <2>4. Resting(w, p)  BY <2>2 DEF Resting, PtrOk
  <2> QED  BY <2>1, <2>2, <2>3, <2>4, Records DEF Return, Going
<1>4. CASE call.op = "seek" /\ call.c # 0
  <2> DEFINE cl == [call EXCEPT !.left = SS]
  <2>1. SeekOn(o, cl, call.c)  BY <1>4 DEF ChainReturns, ChainToSeek
  <2>2. SeekOk(w, o) /\ call.c = o.clust  BY <1>4 DEF AfterOk, InOk
  <2>3. cl \in Calling /\ cl.n = n /\ cl.op = "seek" /\ cl.left > 0
    BY <1>4, FatAssumption DEF Calling
  <2> HIDE DEF cl
  <2>4. SeekOn(o, cl, o.clust)  BY <2>1, <2>2
  <2> QED  BY <1>1, <2>2, <2>3, <2>4, SeekGoes
<1> QED  BY <1>1, <1>2, <1>3, <1>4

\* The file has got its first cluster.
LEMMA FirstGoes ==
  ASSUME NEW n \in Names, NEW w \in Seq(Clusters), NEW e, NEW o \in Files, FileOk(w, e, o),
         o = obj[n], call \in Calling, call.n = n, NEW r \in Clusters, ChainReturns(r),
         call.c = 0, FirstOk(o, call), w # <<>>, w[1] = r
  PROVE  Going(w, e, n) /\ call'.at # "link"
<1>1. /\ o.open /\ ~o.err /\ call.op \in {"write", "seek"} /\ o.fptr = 0 /\ o.sclust = 0
      /\ call.left \in Nat /\ call.left > 0
  BY DEF FirstOk, Calling
<1> DEFINE p == [o EXCEPT !.clust = r, !.sclust = r]
<1>2. r \in Nat /\ r > 1  BY FatAssumption DEF Clusters
<1>3. /\ p \in Files /\ p.open /\ ~p.err /\ p.sclust = r /\ p.clust = r /\ p.fptr = 0
      /\ p.fsize = o.fsize
  BY <1>1, <1>2 DEF Files
<1> HIDE DEF p
<1>4. FileOk(w, e, p)
  <2>1. o.fsize = 0 /\ e.start = 0 /\ EntryOk(w, e)  BY <1>1 DEF FileOk, LiesOn
  <2>2. 0 <= SS * Len(w)  BY FatAssumption, LenProperties
  <2> QED  BY <1>2, <1>3, <2>1, <2>2, Constants DEF FileOk, LiesOn
<1>5. StartOk(w, p)
  <2>1. 1 \in 1 .. Len(w)  BY Rest
  <2>2. Begins(w, 1, 0)  BY <2>1, FatAssumption DEF Begins
  <2> QED  BY <1>3, <2>1, <2>2 DEF StartOk
<1>6. CASE call.op = "write"
  <2> DEFINE pl == Place(call, "store", 0)
  <2>1. Goes(p, pl)  BY <1>1, <1>2, <1>6 DEF ChainReturns, ChainToWrite, p
  <2>2. pl \in Calling /\ pl.at = "store" /\ pl.n = n /\ pl.op = "write" /\ pl.left = call.left
    BY <1>1, <1>6 DEF Place, Calling, AtPlaces
  <2> HIDE DEF pl
  <2>3. SectorOk(w, p, pl)  BY <1>1, <1>3, <1>5, <2>2 DEF SectorOk
  <2>4. PlaceOk(w, e, p, pl)  BY <2>2, <2>3 DEF PlaceOk
  <2> QED  BY <1>3, <1>4, <2>1, <2>2, <2>4 DEF Goes, Going
<1>7. CASE call.op = "seek"
  <2>1. SeekOn(p, call, p.clust)
    BY <1>2, <1>3, <1>7 DEF ChainReturns, ChainToSeek, p
  <2>2. SeekOk(w, p)  BY <1>5 DEF SeekOk
  <2> QED  BY <1>1, <1>3, <1>4, <1>7, <2>1, <2>2, SeekGoes
<1> QED  BY <1>1, <1>6, <1>7

\* The next cluster of the chain, an old one or a new one.
LEMMA NextGoes ==
  ASSUME NEW n \in Names, NEW w \in Seq(Clusters), NEW e, NEW o \in Files, FileOk(w, e, o),
         o = obj[n], call \in Calling, call.n = n, NEW r \in Clusters, ChainReturns(r),
         call.op \in {"write", "seek"}, InOk(w, o, call), call.c \in Clusters,
         \A j \in 1 .. Len(w) : w[j] = call.c => j < Len(w) /\ w[j + 1] = r
  PROVE  Going(w, e, n) /\ call'.at # "link"
<1>1. /\ o.open /\ ~o.err /\ o.fptr \in Nat /\ call.c = o.clust /\ call.c # 0
      /\ call.left \in Nat /\ SS \in Nat \ {0} /\ o.clust # DiskErr
  BY Constants DEF InOk, Files, Calling
<1>2. r \in Nat /\ r > 1  BY FatAssumption DEF Clusters
<1>3. CASE call.op = "write"
  <2> DEFINE p == [o EXCEPT !.clust = r, !.sclust = IF o.fptr = 0 THEN r ELSE @]
  <2> DEFINE pl == Place(call, "store", 0)
  <2>1. o.fptr > 0 /\ o.fptr % SS = 0 /\ PtrOk(w, o) /\ call.left > 0  BY <1>3 DEF InOk
  <2>2. Goes(p, pl)  BY <1>2, <1>3 DEF ChainReturns, ChainToWrite
  <2>3. /\ p \in Files /\ p.open /\ ~p.err /\ p.sclust = o.sclust /\ p.clust = r
        /\ p.fptr = o.fptr /\ p.fsize = o.fsize
    <3>1. o.fptr # 0  BY <1>1, <2>1
    <3>2. p = [o EXCEPT !.clust = r, !.sclust = o.sclust]  BY <3>1
    <3> QED  BY <1>1, <1>2, <3>2 DEF Files
  <2>4. pl \in Calling /\ pl.at = "store" /\ pl.n = n /\ pl.op = "write" /\ pl.left = call.left
    BY <1>1, <1>3 DEF Place, Calling, AtPlaces
  <2> HIDE DEF pl, p
  <2>5. FileOk(w, e, p)  BY <1>1, <2>3, SameFile
  <2>6. StartOk(w, p)
    <3>1. PICK j \in 1 .. Len(w) : o.sclust \in Clusters /\ o.clust = w[j] /\ In(w, j, o.fptr)
      BY <1>1, <2>1 DEF PtrOk
    <3>2. j < Len(w) /\ w[j + 1] = r  BY <1>1, <3>1
    <3>3. Begins(w, j + 1, o.fptr)  BY <1>1, <2>1, <3>1, <3>2, NextBegins
    <3>4. j + 1 \in 1 .. Len(w)  BY <3>3 DEF Begins
    <3> QED  BY <2>3, <3>1, <3>2, <3>3, <3>4 DEF StartOk
  <2>7. SectorOk(w, p, pl)  BY <2>1, <2>3, <2>4, <2>6 DEF SectorOk
  <2>8. PlaceOk(w, e, p, pl)  BY <2>4, <2>7 DEF PlaceOk
  <2> QED  BY <2>2, <2>3, <2>4, <2>5, <2>8 DEF Goes, Going
<1>4. CASE call.op = "seek"
  <2> DEFINE p == [o EXCEPT !.clust = r, !.fptr = @ + SS]
  <2> DEFINE cl == [call EXCEPT !.left = @ - SS]
  <2>1. SeekOk(w, o) /\ call.left > SS  BY <1>4 DEF InOk
  <2>2. SeekOn(p, cl, r)  BY <1>1, <1>2, <1>4 DEF ChainReturns, ChainToSeek
  <2>3. /\ p \in Files /\ p.open /\ ~p.err /\ p.sclust = o.sclust /\ p.clust = r
        /\ p.fptr = o.fptr + SS /\ p.fsize = o.fsize
    <3>1. o.fptr + SS \in Nat  BY <1>1
    <3> QED  BY <1>1, <1>2, <3>1 DEF Files
  <2>4. cl \in Calling /\ cl.n = n /\ cl.op = "seek" /\ cl.left > 0
    BY <1>1, <1>4, <2>1, SMTT(30) DEF Calling
  <2> HIDE DEF cl, p
  <2>5. FileOk(w, e, p)  BY <1>1, <2>3, SameFile
  <2>6. SeekOk(w, p)
    <3>1. PICK j \in 1 .. Len(w) : o.sclust \in Clusters /\ o.clust = w[j] /\ Begins(w, j, o.fptr)
      BY <1>1, <2>1 DEF SeekOk, StartOk
    <3>2. j < Len(w) /\ w[j + 1] = r  BY <1>1, <3>1
    <3>3. Begins(w, j + 1, o.fptr + SS)  BY <1>1, <3>1, <3>2, Beginning
    <3>4. j + 1 \in 1 .. Len(w)  BY <3>3 DEF Begins
    <3> QED  BY <2>3, <3>1, <3>2, <3>3, <3>4 DEF SeekOk, StartOk
  <2> QED  BY <2>2, <2>3, <2>4, <2>5, <2>6, SeekGoes
<1> QED  BY <1>3, <1>4

-----------------------------------------------------------------------------
(* The steps that leave the volume as it is.                               *)

VolumeInv(own) == BaseInv /\ Solid /\ own \in Owns /\ ChainInv(own)

LEMMA FileFacts ==
  ASSUME NEW own, VolumeInv(own), NEW n \in Names
  PROVE  /\ obj[n] \in Files /\ own[n] \in Seq(Clusters) /\ EntNow[n] \in Entries
         /\ EntNow \in [Names -> Entries] /\ FatNow \in [Clusters -> Nat]
         /\ obj \in [Names -> Files] /\ call \in Calling /\ last \in Nat /\ WinOk
         /\ FileOk(own[n], EntNow[n], obj[n])
         /\ Busy(n) => PlaceOk(own[n], EntNow[n], obj[n], call)
         /\ obj[n].open /\ ~obj[n].err /\ ~Busy(n) => PtrOk(own[n], obj[n])
BY WindowForm DEF VolumeInv, BaseInv, TypeOK, Owns, ChainInv

LEMMA CallFacts ==
  ASSUME NEW own, VolumeInv(own), call.at # "idle"
  PROVE  \E n \in Names : /\ n = call.n /\ Busy(n)
                          /\ PlaceOk(own[n], EntNow[n], obj[n], call)
BY DEF VolumeInv, ChainInv, Busy

LEMMA SoundSame ==
  ASSUME NEW x, NEW y, x.fat = y.fat, x.ent = y.ent, Sound(x)
  PROVE  Sound(y)
BY DEF Sound

LEMMA SolidStays ==
  ASSUME Solid, DiskData
  PROVE  Solid'
<1>1. Sound(card) /\ Sound(safe)  BY DEF Solid
<1>2. Sound(card')  BY <1>1, SoundSame DEF DiskData
<1>3. Sound(safe')  BY <1>1, SoundSame DEF DiskData
<1> QED  BY <1>2, <1>3 DEF Solid

LEMMA QuietKeeps ==
  ASSUME NEW own, VolumeInv(own), NEW n \in Names, call.at = "idle" \/ call.n = n,
         DiskData, win' = win, Going(own[n], EntNow[n], n), call'.at # "link",
         last' = last, faults' \in Nat, kept' \in Promises, bound' = bound
  PROVE  VolumeInv(own)' /\ FatNow' = FatNow /\ EntNow' = EntNow
<1>1. WinOk' /\ FatNow' = FatNow /\ EntNow' = EntNow
  BY WindowStays DEF VolumeInv, BaseInv
<1>2. ChainInv(own)' /\ obj' \in [Names -> Files] /\ call' \in Calling
  BY <1>1, QuietStep DEF VolumeInv
<1>3. Solid'  BY SolidStays DEF VolumeInv
<1>4. last \in Nat /\ bound \in Bounds  BY DEF VolumeInv, BaseInv, TypeOK
<1> QED  BY <1>1, <1>2, <1>3, <1>4 DEF VolumeInv, BaseInv, TypeOK

Steady == last' = last /\ UNCHANGED <<kept, faults>> /\ bound' = bound

\* The same, for a call that goes on.
LEMMA CallKeeps ==
  ASSUME NEW own, VolumeInv(own), NEW n \in Names, call.at = "idle" \/ call.n = n,
         DiskData, win' = win, Going(own[n], EntNow[n], n), call'.at # "link", Steady
  PROVE  VolumeInv(own)' /\ FatNow' = FatNow /\ EntNow' = EntNow
<1>1. faults' \in Nat /\ kept' \in Promises
  BY DEF VolumeInv, BaseInv, TypeOK, Steady
<1> QED  BY <1>1, QuietKeeps DEF Steady

\* f_open begins.
LEMMA StartOpenKeeps ==
  ASSUME NEW own, VolumeInv(own), NEW n \in Names,
         NEW m \in {"existing", "openalways", "createalways"}, NEW wr \in BOOLEAN,
         StartOpen(n, m, wr), bound' = bound
  PROVE  VolumeInv(own)' /\ FatNow' = FatNow /\ EntNow' = EntNow
<1>1. /\ obj[n] \in Files /\ FileOk(own[n], EntNow[n], obj[n]) /\ WinOk
      /\ obj \in [Names -> Files]
  BY FileFacts
<1>2. /\ call.at = "idle" /\ ~obj[n].open /\ UNCHANGED <<card, safe>> /\ win' = win
      /\ last' = last /\ obj' = obj /\ faults' = faults
      /\ call' = [Idle EXCEPT !.at = "find", !.op = "open", !.n = n, !.m = m, !.wr = wr]
  BY DEF StartOpen
<1>3. /\ call' \in Calling /\ call'.at = "find" /\ call'.op = "open" /\ call'.n = n
  BY <1>2, Records DEF Calling, AtPlaces, Labels
<1>4. Going(own[n], EntNow[n], n)
  <2>1. obj' = [obj EXCEPT ![n] = obj[n]]  BY <1>1, <1>2
  <2>2. PlaceOk(own[n], EntNow[n], obj[n], call')  BY <1>2, <1>3 DEF PlaceOk
  <2> QED  BY <1>1, <1>3, <2>1, <2>2 DEF Going
<1>5. kept' \in Promises /\ faults' \in Nat
  <2>1. kept \in Promises /\ faults \in Nat  BY DEF VolumeInv, BaseInv, TypeOK
  <2> QED  BY <1>2, <2>1 DEF StartOpen, Promises
<1>6. DiskData  BY <1>1, <1>2, DataSteps
<1> QED  BY <1>2, <1>3, <1>4, <1>5, <1>6, QuietKeeps

LEMMA CanStartForm ==
  ASSUME NEW own, VolumeInv(own), NEW n \in Names, CanStart(n)
  PROVE  /\ call.at = "idle" /\ obj[n].open /\ ~obj[n].err
         /\ PtrOk(own[n], obj[n]) /\ FileOk(own[n], EntNow[n], obj[n])
BY FileFacts DEF CanStart, Busy

\* f_read and f_write begin.
LEMMA StartReadKeeps ==
  ASSUME NEW own, VolumeInv(own), NEW n \in Names, NEW len \in Nat, StartRead(n, len),
         bound' = bound
  PROVE  VolumeInv(own)' /\ FatNow' = FatNow /\ EntNow' = EntNow
<1>1. CanStart(n) /\ ReadOn(obj[n], Begin(n, "read", len))  BY DEF StartRead
<1>2. /\ call.at = "idle" /\ obj[n].open /\ ~obj[n].err /\ obj[n] \in Files
      /\ PtrOk(own[n], obj[n]) /\ FileOk(own[n], EntNow[n], obj[n])
      /\ own[n] \in Seq(Clusters) /\ WinOk
  BY <1>1, CanStartForm, FileFacts
<1>3. PICK cl \in Calling : cl = Begin(n, "read", len) /\ cl.n = n /\ cl.op = "read"
  BY Records
<1>4. Going(own[n], EntNow[n], n) /\ call'.at # "link"
  BY <1>1, <1>2, <1>3, ReadGoes
<1>5. DiskData /\ win' = win /\ Steady  BY <1>2, DataSteps DEF StartRead, Steady
<1> QED  BY <1>2, <1>4, <1>5, CallKeeps

LEMMA StartWriteKeeps ==
  ASSUME NEW own, VolumeInv(own), NEW n \in Names, NEW len \in Nat, StartWrite(n, len),
         bound' = bound
  PROVE  VolumeInv(own)' /\ FatNow' = FatNow /\ EntNow' = EntNow
<1>1. /\ CanStart(n) /\ DOMAIN kept = Names /\ kept \in Promises /\ faults \in Nat
      /\ WriteOn(obj[n], [Begin(n, "write", len) EXCEPT !.from = obj[n].fptr])
  BY DEF StartWrite, VolumeInv, BaseInv, TypeOK, Promises
<1>2. /\ call.at = "idle" /\ obj[n].open /\ ~obj[n].err /\ obj[n] \in Files
      /\ PtrOk(own[n], obj[n]) /\ FileOk(own[n], EntNow[n], obj[n])
      /\ own[n] \in Seq(Clusters) /\ WinOk /\ last \in Nat /\ obj[n].fptr \in Nat
  BY <1>1, CanStartForm, FileFacts DEF Files
<1>3. PICK b \in Calling : b = Begin(n, "write", len) /\ b.n = n /\ b.op = "write"
  BY Records
<1>4. PICK cl \in Calling : /\ cl = [b EXCEPT !.from = obj[n].fptr] /\ cl.n = n
                            /\ cl.op = "write"
  <2> DEFINE x == [b EXCEPT !.from = obj[n].fptr]
  <2>1. x \in Calling /\ x.n = n /\ x.op = "write"  BY <1>2, <1>3 DEF Calling
  <2> QED  BY <2>1
<1>5. Going(own[n], EntNow[n], n) /\ call'.at # "link"
  BY <1>1, <1>2, <1>3, <1>4, WriteGoes
<1>6. DiskData /\ win' = win /\ last' = last /\ faults' \in Nat
  BY <1>1, <1>2, DataSteps DEF StartWrite
<1>7. kept' \in Promises
  <2>1. SectorStart(obj[n].fptr) \in Nat  BY <1>2, SectorStartForm
  <2> QED  BY <1>1, <2>1 DEF StartWrite, LesserOf, None, Promises
<1> QED  BY <1>2, <1>5, <1>6, <1>7, QuietKeeps

\* f_lseek begins.
LEMMA StartSeekKeeps ==
  ASSUME NEW own, VolumeInv(own), NEW n \in Names, NEW ofs \in Nat, StartSeek(n, ofs),
         bound' = bound
  PROVE  VolumeInv(own)' /\ FatNow' = FatNow /\ EntNow' = EntNow
<1>1. PICK o \in Files : o = obj[n] /\ CanStart(n)  BY FileFacts DEF StartSeek
<1> DEFINE to == IF o.wr THEN ofs ELSE LesserOf(ofs, o.fsize)
<1> DEFINE at == SectorStart(o.fptr - 1)
<1>2. /\ call.at = "idle" /\ o.open /\ ~o.err
      /\ PtrOk(own[n], o) /\ FileOk(own[n], EntNow[n], o)
      /\ own[n] \in Seq(Clusters) /\ WinOk /\ last \in Nat /\ o.fptr \in Nat /\ o.fsize \in Nat
      /\ obj \in [Names -> Files] /\ call \in Calling /\ o.sclust \in Nat
  BY <1>1, CanStartForm, FileFacts DEF Files
<1>3. to \in Nat  BY <1>2 DEF LesserOf
<1>4. PICK cl \in Calling : cl = Begin(n, "seek", to) /\ cl.n = n /\ cl.op = "seek" /\ cl.left = to
  BY <1>3, Records
<1>5. IF to = 0
      THEN obj' = [obj EXCEPT ![n].fptr = 0] /\ UNCHANGED call
      ELSE IF o.fptr > 0 /\ to > at
      THEN SeekOn([o EXCEPT !.fptr = at], [cl EXCEPT !.left = to - at], o.clust)
      ELSE IF o.sclust # 0
      THEN SeekOn([o EXCEPT !.fptr = 0, !.clust = o.sclust], cl, o.sclust)
      ELSE Goes([o EXCEPT !.fptr = 0], ScanFor(cl, 0, Hint))
  BY <1>1, <1>4 DEF StartSeek
<1> HIDE DEF to, at
<1>6. Going(own[n], EntNow[n], n) /\ call'.at # "link"
  <2>1. CASE to = 0
    <3> DEFINE p == [o EXCEPT !.fptr = 0]
    <3>1. obj' = [obj EXCEPT ![n] = p] /\ call' = call  BY <1>1, <1>2, <1>5, <2>1
    <3>2. p \in Files /\ p.open /\ p.sclust = o.sclust /\ p.fsize = o.fsize /\ p.fptr = 0
      BY <1>2 DEF Files
    <3> HIDE DEF p
    <3>3. FileOk(own[n], EntNow[n], p)  BY <1>2, <3>2, SameFile
    <3>4. Resting(own[n], p)  BY <3>2 DEF Resting, PtrOk
    <3> QED  BY <1>2, <3>1, <3>2, <3>3, <3>4 DEF Going
  <2>2. CASE to # 0 /\ o.fptr > 0 /\ to > at
    <3>1. SeekOn([o EXCEPT !.fptr = at], [cl EXCEPT !.left = to - at], o.clust)
      BY <1>5, <2>2
    <3>2. at \in Nat /\ (StartOk(own[n], [o EXCEPT !.fptr = at]) \/ (o.sclust = DiskErr /\ o.clust = DiskErr))
      <4>1. at \in Nat
        <5>1. o.fptr - 1 \in Nat  BY <1>2, <2>2
        <5> QED  BY <5>1, SectorStartForm DEF at
      <4>2. CASE o.sclust = DiskErr /\ o.clust = DiskErr  BY <4>1, <4>2
      <4>3. ASSUME NEW j \in 1 .. Len(own[n]), o.sclust \in Clusters, o.clust = own[n][j],
                   In(own[n], j, o.fptr)
            PROVE  StartOk(own[n], [o EXCEPT !.fptr = at])
        <5>1. at = SS * (j - 1)  BY <1>2, <4>3, Inside DEF at
        <5>2. Begins(own[n], j, at)  BY <5>1 DEF Begins
        <5> QED  BY <4>1, <4>3, <5>2 DEF StartOk, Files
      <4> QED  BY <1>2, <2>2, <4>1, <4>2, <4>3 DEF PtrOk
    <3>3. PICK p \in Files : /\ p = [o EXCEPT !.fptr = at]
                             /\ p.open /\ ~p.err /\ p.sclust = o.sclust /\ p.fsize = o.fsize
                             /\ p.clust = o.clust
      <4> DEFINE x == [o EXCEPT !.fptr = at]
      <4>1. x \in Files /\ x.open /\ ~x.err /\ x.sclust = o.sclust /\ x.fsize = o.fsize
            /\ x.clust = o.clust
        BY <1>2, <3>2 DEF Files
      <4> QED  BY <4>1
    <3>4. PICK c2 \in Calling : /\ c2 = [cl EXCEPT !.left = to - at]
                                /\ c2.n = n /\ c2.op = "seek" /\ c2.left > 0
      <4> DEFINE x == [cl EXCEPT !.left = to - at]
      <4>1. to - at \in Nat /\ to - at > 0  BY <1>3, <2>2, <3>2
      <4>2. x \in Calling /\ x.n = n /\ x.op = "seek" /\ x.left > 0  BY <1>4, <4>1 DEF Calling
      <4> QED  BY <4>2
    <3>5. FileOk(own[n], EntNow[n], p)  BY <1>2, <3>3, SameFile
    <3>6. SeekOk(own[n], p)  BY <3>2, <3>3 DEF SeekOk
    <3>7. SeekOn(p, c2, p.clust)  BY <3>1, <3>3, <3>4
    <3> QED  BY <1>2, <3>3, <3>4, <3>5, <3>6, <3>7, SeekGoes
  <2>3. CASE to # 0 /\ ~(o.fptr > 0 /\ to > at) /\ o.sclust # 0
    <3>1. SeekOn([o EXCEPT !.fptr = 0, !.clust = o.sclust], cl, o.sclust)
      BY <1>5, <2>3
    <3>3. PICK p \in Files : /\ p = [o EXCEPT !.fptr = 0, !.clust = o.sclust]
                             /\ p.open /\ ~p.err /\ p.sclust = o.sclust /\ p.fsize = o.fsize
                             /\ p.clust = o.sclust /\ p.fptr = 0
      <4> DEFINE x == [o EXCEPT !.fptr = 0, !.clust = o.sclust]
      <4>1. x \in Files /\ x.open /\ ~x.err /\ x.sclust = o.sclust /\ x.fsize = o.fsize
            /\ x.clust = o.sclust /\ x.fptr = 0
        BY <1>2 DEF Files
      <4> QED  BY <4>1
    <3>5. FileOk(own[n], EntNow[n], p)  BY <1>2, <3>3, SameFile
    <3>6. SeekOk(own[n], p)
      <4>1. o.sclust \in Clusters \/ o.sclust = DiskErr  BY <1>2, <2>3 DEF FileOk, LiesOn
      <4>2. CASE o.sclust = DiskErr  BY <3>3, <4>2 DEF SeekOk
      <4>3. CASE o.sclust \in Clusters
        <5>1. own[n] # <<>> /\ own[n][1] = o.sclust  BY <1>2, <4>3 DEF FileOk, LiesOn
        <5>2. 1 \in 1 .. Len(own[n])  BY <1>2, <5>1, Rest
        <5>3. Begins(own[n], 1, 0)  BY <5>2, FatAssumption DEF Begins
        <5> QED  BY <3>3, <4>3, <5>1, <5>2, <5>3 DEF SeekOk, StartOk
      <4> QED  BY <4>1, <4>2, <4>3
    <3>7. SeekOn(p, cl, p.clust) /\ cl.left > 0  BY <1>3, <1>4, <2>3, <3>1, <3>3
    <3> QED  BY <1>2, <1>4, <3>3, <3>5, <3>6, <3>7, SeekGoes
  <2>4. CASE to # 0 /\ ~(o.fptr > 0 /\ to > at) /\ o.sclust = 0
    <3> DEFINE p == [o EXCEPT !.fptr = 0]
    <3> DEFINE sc == ScanFor(cl, 0, Hint)
    <3>1. Hint \in 1 .. NFatent - 1  BY <1>2, Constants DEF Hint
    <3>2. /\ sc \in Calling /\ sc.at = "scan" /\ sc.n = n /\ sc.op = "seek"
          /\ sc.left = to /\ sc.c = 0 /\ sc.k \in Clusters /\ sc.scl \in 1 .. NFatent - 1
      BY <1>4, <3>1, ScanForm
    <3>3. obj' = [obj EXCEPT ![n] = p] /\ call' = sc  BY <1>5, <2>4, <3>2 DEF Goes
    <3>4. /\ p \in Files /\ p.open /\ ~p.err /\ p.sclust = o.sclust /\ p.fsize = o.fsize
          /\ p.fptr = 0
      BY <1>2 DEF Files
    <3> HIDE DEF p, sc
    <3>5. FileOk(own[n], EntNow[n], p)  BY <1>2, <3>4, SameFile
    <3>6. FirstOk(p, sc)  BY <1>3, <2>4, <3>2, <3>4 DEF FirstOk
    <3>7. PlaceOk(own[n], EntNow[n], p, sc)  BY <3>2, <3>6 DEF PlaceOk
    <3> QED  BY <3>2, <3>3, <3>4, <3>5, <3>7 DEF Going
  <2> QED  BY <2>1, <2>2, <2>3, <2>4
<1>7. DiskData /\ win' = win /\ Steady  BY <1>2, DataSteps DEF StartSeek, Steady
<1> QED  BY <1>2, <1>6, <1>7, CallKeeps

\* f_close begins.
LEMMA StartCloseKeeps ==
  ASSUME NEW own, VolumeInv(own), NEW n \in Names, StartClose(n), bound' = bound
  PROVE  VolumeInv(own)' /\ FatNow' = FatNow /\ EntNow' = EntNow
<1>1. /\ obj[n] \in Files /\ FileOk(own[n], EntNow[n], obj[n]) /\ WinOk
      /\ obj \in [Names -> Files] /\ call \in Calling
  BY FileFacts
<1>2. call.at = "idle" /\ obj[n].open  BY DEF StartClose
<1>3. Going(own[n], EntNow[n], n) /\ call'.at # "link"
  <2>1. CASE obj[n].written
    <3>1. obj' = [obj EXCEPT ![n] = obj[n]]  BY <1>1, <2>1 DEF StartClose
    <3>2. /\ call' \in Calling /\ call'.at \in {"flush", "entry"} /\ call'.op = "close"
          /\ call'.n = n
      <4>1. PICK b \in Calling : b = Begin(n, "close", 0) /\ b.n = n /\ b.op = "close"
        BY Records
      <4>2. PICK a \in {"flush", "entry"} : call' = [b EXCEPT !.at = a]
        BY <2>1, <4>1 DEF StartClose
      <4> QED  BY <4>1, <4>2 DEF Calling, AtPlaces
    <3>3. PlaceOk(own[n], EntNow[n], obj[n], call')  BY <1>2, <3>2 DEF PlaceOk
    <3> QED  BY <1>1, <3>1, <3>2, <3>3 DEF Going
  <2>2. CASE ~obj[n].written
    <3>1. obj' = [obj EXCEPT ![n] = Closed] /\ call' = call  BY <2>2 DEF StartClose
    <3>2. Closed.sclust = 0 /\ Closed.fsize = 0 /\ ~Closed.open  BY DEF Closed
    <3>3. FileOk(own[n], EntNow[n], Closed)
      BY <1>1, <3>2, Constants DEF FileOk, LiesOn
    <3> QED  BY <1>1, <1>2, <3>1, <3>2, <3>3, Records DEF Going, Resting
  <2> QED  BY <2>1, <2>2
<1>4. DiskData /\ win' = win /\ Steady  BY <1>1, DataSteps DEF StartClose, Steady
<1> QED  BY <1>2, <1>3, <1>4, CallKeeps

\* The sector that is there.
LEMMA DirHere ==
  ASSUME NEW at \in {"find", "back", "entry"}, InWindow(at)
  PROVE  win.sect = DirSect /\ win.copy = EntNow /\ call.at = at
BY DEF InWindow, Need, EntNow

LEMMA FatHere ==
  ASSUME NEW c \in Clusters, win.sect = FatSect(c)
  PROVE  win.copy[c] = FatNow[c]
BY DEF FatNow

LEMMA OpenedForm ==
  ASSUME NEW w, NEW e \in Entries, EntryOk(w, e), NEW fresh \in BOOLEAN, call \in Calling,
         kept \in Promises, call.n \in Names
  PROVE  /\ Opened(e, fresh) \in Files /\ FileOk(w, e, Opened(e, fresh))
         /\ Resting(w, Opened(e, fresh))
<1> DEFINE g == IF kept[call.n] = None THEN 0 ELSE kept[call.n]
<1> DEFINE p == [Closed EXCEPT !.open = TRUE, !.wr = call.wr, !.written = fresh,
                               !.fsize = e.size, !.sclust = e.start, !.good = g]
<1>1. Opened(e, fresh) = p  BY DEF Opened
<1>2. g \in Nat /\ Closed.fptr = 0 /\ e.start \in Nat /\ e.size \in Nat /\ call.wr \in BOOLEAN
  BY DEF Closed, Entries, Calling, Promises
<1> HIDE DEF g
<1>3. p \in Files /\ p.open /\ p.fptr = 0 /\ p.sclust = e.start /\ p.fsize = e.size
  BY <1>2, Records DEF Files
<1> HIDE DEF p
<1> QED  BY <1>1, <1>3 DEF FileOk, EntryOk, Resting, PtrOk

\* The file is there, or is not.
LEMMA FindExistingKeeps ==
  ASSUME NEW own, VolumeInv(own), FindExisting, bound' = bound
  PROVE  VolumeInv(own)' /\ FatNow' = FatNow /\ EntNow' = EntNow
<1>1. win.copy = EntNow /\ call.at = "find"  BY DirHere DEF FindExisting
<1>2. PICK n \in Names : n = call.n  BY <1>1, CallFacts
<1>3. /\ EntNow[n] \in Entries /\ FileOk(own[n], EntNow[n], obj[n]) /\ WinOk
      /\ obj \in [Names -> Files] /\ call \in Calling /\ kept \in Promises
  BY FileFacts DEF VolumeInv, BaseInv, TypeOK
<1>4. Going(own[n], EntNow[n], n) /\ call'.at # "link"
  <2>1. CASE Return(Opened(EntNow[n], FALSE))
    <3>1. /\ Opened(EntNow[n], FALSE) \in Files
          /\ FileOk(own[n], EntNow[n], Opened(EntNow[n], FALSE))
          /\ Resting(own[n], Opened(EntNow[n], FALSE))
      BY <1>2, <1>3, OpenedForm DEF FileOk
    <3> QED  BY <1>2, <2>1, <3>1, Records DEF Return, Going
  <2>2. CASE Return(Closed)
    <3>1. EntryOk(own[n], EntNow[n])  BY <1>3 DEF FileOk
    <3> QED  BY <1>2, <2>2, <3>1, ClosedGoes, Records
  <2> QED  BY <1>1, <1>2, <2>1, <2>2 DEF FindExisting
<1>5. DiskData /\ win' = win /\ Steady  BY <1>3, DataSteps DEF FindExisting, Steady
<1> QED  BY <1>2, <1>4, <1>5, CallKeeps

LEMMA BackToEntryKeeps ==
  ASSUME NEW own, VolumeInv(own), BackToEntry, bound' = bound
  PROVE  VolumeInv(own)' /\ FatNow' = FatNow /\ EntNow' = EntNow
<1>1. win.copy = EntNow /\ call.at = "back"  BY DirHere DEF BackToEntry
<1>2. PICK n \in Names : n = call.n  BY <1>1, CallFacts
<1>3. /\ EntNow[n] \in Entries /\ FileOk(own[n], EntNow[n], obj[n]) /\ WinOk
      /\ obj \in [Names -> Files] /\ call \in Calling /\ kept \in Promises
  BY FileFacts DEF VolumeInv, BaseInv, TypeOK
<1>4. Going(own[n], EntNow[n], n) /\ call'.at # "link"
  <2>1. Return(Opened(EntNow[n], TRUE))  BY <1>1, <1>2 DEF BackToEntry
  <2>2. /\ Opened(EntNow[n], TRUE) \in Files
        /\ FileOk(own[n], EntNow[n], Opened(EntNow[n], TRUE))
        /\ Resting(own[n], Opened(EntNow[n], TRUE))
    BY <1>2, <1>3, OpenedForm DEF FileOk
  <2> QED  BY <1>2, <2>1, <2>2, Records DEF Return, Going
<1>5. DiskData /\ win' = win /\ Steady  BY <1>3, DataSteps DEF BackToEntry, Steady
<1> QED  BY <1>2, <1>4, <1>5, CallKeeps

\* The place of a cluster in a chain, and what is behind it.
LEMMA LinkedAt ==
  ASSUME NEW own, VolumeInv(own), NEW n \in Names, NEW j \in 1 .. Len(own[n])
  PROVE  /\ FatNow[own[n][j]] = IF j < Len(own[n]) THEN own[n][j + 1] ELSE EOC
         /\ \A i \in 1 .. Len(own[n]) : own[n][i] = own[n][j] => i = j
         /\ own[n][j] \in Clusters
         /\ \A m \in Names \ {n} : \A i \in 1 .. Len(own[m]) : own[m][i] # own[n][j]
         /\ FatNow[own[n][j]] \in Clusters <=> j < Len(own[n])
<1>1. own[n] \in Seq(Clusters) /\ Len(own[n]) \in Nat  BY LenProperties DEF VolumeInv, Owns
<1>2. own[n][j] \in Clusters /\ (j < Len(own[n]) => own[n][j + 1] \in Clusters)
  BY <1>1, ElementOfSeq
<1> QED  BY <1>1, <1>2, Constants DEF VolumeInv, ChainInv, Linked, Apart

LEMMA InCluster ==
  ASSUME NEW w \in Seq(Clusters), NEW o \in Files, NEW cl, InOk(w, o, cl)
  PROVE  /\ o.open /\ ~o.err /\ cl.c = o.clust
         /\ cl.c \in Clusters => /\ o.sclust \in Clusters
                                 /\ \E j \in 1 .. Len(w) : cl.c = w[j]
BY Constants DEF InOk, SeekOk, StartOk, PtrOk

\* create_chain looks at the end.
LEMMA StretchKeeps ==
  ASSUME NEW own, VolumeInv(own), Stretch, bound' = bound
  PROVE  VolumeInv(own)' /\ FatNow' = FatNow /\ EntNow' = EntNow
<1>1. call.at = "stretch" /\ win.sect = Need  BY DEF Stretch, InWindow
<1>2. PICK n \in Names : n = call.n /\ PlaceOk(own[n], EntNow[n], obj[n], call)
  BY <1>1, CallFacts
<1>3. PICK w \in Seq(Clusters), e \in Entries, o \in Files :
        w = own[n] /\ e = EntNow[n] /\ o = obj[n]
  BY FileFacts
<1>4. /\ FileOk(w, e, o) /\ InOk(w, o, call) /\ call.op \in {"write", "seek"}
      /\ WinOk /\ obj \in [Names -> Files] /\ call \in Calling
  BY <1>1, <1>2, <1>3, FileFacts DEF PlaceOk
<1>5. /\ o.open /\ ~o.err /\ call.c = o.clust
      /\ call.c \in Clusters => o.sclust \in Clusters /\ \E j \in 1 .. Len(w) : call.c = w[j]
  BY <1>4, InCluster
<1>6. Going(w, e, n) /\ call'.at # "link"
  <2>1. CASE call.c \notin Clusters
    <3>1. FatEntry(call.c) = 1  BY <2>1 DEF FatEntry
    <3>2. ChainReturns(1)  BY <3>1 DEF Stretch
    <3>3. Abort(1)  BY <1>4, <3>2 DEF ChainReturns, ChainToWrite, ChainToSeek
    <3> QED  BY <1>1, <1>2, <1>3, <1>4, <1>5, <3>3, AbortGoes, Records
  <2>2. CASE call.c \in Clusters
    <3>1. PICK j \in 1 .. Len(w) : call.c = w[j] /\ o.sclust \in Clusters  BY <1>5, <2>2
    <3>2. FatEntry(call.c) = FatNow[call.c]
      BY <1>1, <2>2, FatHere DEF FatEntry, Need
    <3>3. /\ FatNow[w[j]] = IF j < Len(w) THEN w[j + 1] ELSE EOC
          /\ \A i \in 1 .. Len(w) : w[i] = w[j] => i = j
          /\ FatNow[w[j]] \in Clusters <=> j < Len(w)
      BY <1>3, LinkedAt
    <3>4. CASE j < Len(w)
      <4>1. PICK r \in Clusters : r = w[j + 1] /\ r = FatEntry(call.c)
        BY <3>1, <3>2, <3>3, <3>4
      <4>2. r >= 2  BY FatAssumption DEF Clusters
      <4>3. ChainReturns(r)
        <5>1. r \in Clusters \cup {0, 1} /\ ~(r < 2) /\ FatEntry(call.c) = r
          BY FatAssumption, <4>1, <4>2 DEF Clusters
        <5> QED  BY <5>1 DEF Stretch
      <4>4. \A i \in 1 .. Len(w) : w[i] = call.c => i < Len(w) /\ w[i + 1] = r
        BY <3>1, <3>3, <3>4, <4>1
      <4> QED  BY <1>2, <1>3, <1>4, <2>2, <4>3, <4>4, NextGoes
    <3>5. CASE ~(j < Len(w))
      <4>1. FatEntry(call.c) = EOC /\ j = Len(w) /\ w # <<>>
        BY <3>1, <3>2, <3>3, <3>5, LenProperties, EmptySeq
      <4>2. EOC \notin Clusters \cup {0, 1}  BY FatAssumption DEF EOC, Clusters
      <4>3. call' = ScanFor(call, call.c, call.c) /\ obj' = obj
        BY <4>1, <4>2 DEF Stretch
      <4>4. call.c \in 1 .. NFatent - 1 /\ call.c \in Nat  BY <2>2, Constants
      <4>5. PICK sc \in Calling : /\ sc = call' /\ sc.at = "scan" /\ sc.c = call.c /\ sc.n = n
                                  /\ sc.op = call.op /\ sc.left = call.left
                                  /\ sc.scl \in 1 .. NFatent - 1 /\ sc.k \in Clusters
        BY <1>2, <1>4, <4>3, <4>4, ScanForm
      <4>6. InOk(w, o, sc)  BY <1>4, <4>5 DEF InOk
      <4>7. AfterOk(w, o, sc)  BY <1>4, <3>1, <4>1, <4>5, <4>6 DEF AfterOk
      <4>8. sc.c # 0  BY <2>2, <4>5, Constants
      <4>9. PlaceOk(w, e, o, sc)  BY <4>5, <4>7, <4>8 DEF PlaceOk
      <4>10. obj' = [obj EXCEPT ![n] = o]  BY <1>3, <1>4, <4>3
      <4> QED  BY <1>4, <4>5, <4>9, <4>10 DEF Going
    <3> QED  BY <3>4, <3>5
  <2> QED  BY <2>1, <2>2
<1>7. DiskData /\ win' = win /\ Steady  BY <1>4, DataSteps DEF Stretch, Steady
<1> QED  BY <1>2, <1>3, <1>6, <1>7, CallKeeps

\* A cluster is not free.
LEMMA ScanPassesKeeps ==
  ASSUME NEW own, VolumeInv(own), ScanPasses, bound' = bound
  PROVE  VolumeInv(own)' /\ FatNow' = FatNow /\ EntNow' = EntNow
<1>1. call.at = "scan"  BY DEF ScanPasses, InWindow
<1>2. PICK n \in Names : n = call.n /\ PlaceOk(own[n], EntNow[n], obj[n], call)
  BY <1>1, CallFacts
<1>3. PICK w \in Seq(Clusters), e \in Entries, o \in Files :
        w = own[n] /\ e = EntNow[n] /\ o = obj[n]
  BY FileFacts
<1>4. /\ FileOk(w, e, o) /\ call.k \in Clusters /\ call.scl \in 1 .. NFatent - 1
      /\ call.c = 0 => FirstOk(o, call)
      /\ call.c # 0 => AfterOk(w, o, call)
      /\ WinOk /\ obj \in [Names -> Files] /\ call \in Calling
  BY <1>1, <1>2, <1>3, FileFacts DEF PlaceOk
<1>5. Going(w, e, n) /\ call'.at # "link"
  <2>1. CASE ChainReturns(0)
    BY <1>2, <1>3, <1>4, <2>1, FullGoes
  <2>2. CASE call' = [call EXCEPT !.k = Next1(@)] /\ obj' = obj
    <3>1. Next1(call.k) \in Clusters  BY <1>4, Constants
    <3>2. Next1(call.k) \in Nat  BY <3>1, Constants
    <3>3. PICK sc \in Calling : /\ sc = call' /\ sc.at = "scan" /\ sc.c = call.c /\ sc.n = n
                                /\ sc.op = call.op /\ sc.left = call.left
                                /\ sc.scl = call.scl /\ sc.k \in Clusters
      <4> DEFINE x == [call EXCEPT !.k = Next1(@)]
      <4>1. x \in Calling /\ x.at = "scan" /\ x.c = call.c /\ x.n = n
                                /\ x.op = call.op /\ x.left = call.left
                                /\ x.scl = call.scl /\ x.k \in Clusters
        BY <1>1, <1>2, <1>4, <3>1, <3>2 DEF Calling
      <4> QED  BY <2>2, <4>1
    <3>4. call.c = 0 => FirstOk(o, sc)  BY <1>4, <3>3 DEF FirstOk
    <3>5. call.c # 0 => AfterOk(w, o, sc)  BY <1>4, <3>3 DEF AfterOk, InOk
    <3>6. PlaceOk(w, e, o, sc)  BY <1>4, <3>3, <3>4, <3>5 DEF PlaceOk
    <3>7. obj' = [obj EXCEPT ![n] = o]  BY <1>3, <1>4, <2>2
    <3> QED  BY <1>4, <3>3, <3>6, <3>7 DEF Going
  <2> QED  BY <2>1, <2>2 DEF ScanPasses
<1>7. DiskData /\ win' = win /\ Steady  BY <1>4, DataSteps DEF ScanPasses, Steady
<1> QED  BY <1>2, <1>3, <1>5, <1>7, CallKeeps

-----------------------------------------------------------------------------
(* The bytes of a file.                                                    *)

\* Whether the buffer is dirty, and what is in it, is no matter of the place.
LEMMA SamePlace ==
  ASSUME NEW w, NEW e, NEW o, NEW p, NEW cl, PlaceOk(w, e, o, cl),
         p.open = o.open, p.err = o.err, p.sclust = o.sclust, p.fptr = o.fptr,
         p.clust = o.clust
  PROVE  PlaceOk(w, e, p, cl)
<1>1. /\ PtrOk(w, o) => PtrOk(w, p)
      /\ StartOk(w, o) => StartOk(w, p)
      /\ SeekOk(w, o) => SeekOk(w, p)
  BY DEF PtrOk, StartOk, SeekOk
<1>2. InOk(w, o, cl) => InOk(w, p, cl)  BY <1>1 DEF InOk
<1> QED  BY <1>1, <1>2 DEF PlaceOk, FreeOk, FirstOk, AfterOk, InsideOk, SectorOk

LEMMA DataOnCard ==
  ASSUME WinOk, NEW c \in Clusters
  PROVE  card.data[c] \in Labels
BY DEF WinOk, Volumes

LEMMA FlushBufferKeeps ==
  ASSUME NEW own, VolumeInv(own), FlushBuffer, bound' = bound
  PROVE  VolumeInv(own)' /\ FatNow' = FatNow /\ EntNow' = EntNow
<1>1. call.at \in {"store", "flush", "fetch", "fill"}  BY DEF FlushBuffer, BufferInWay
<1>2. PICK n \in Names : n = call.n /\ PlaceOk(own[n], EntNow[n], obj[n], call)
  BY <1>1, CallFacts
<1>3. PICK w \in Seq(Clusters), e \in Entries, o \in Files :
        w = own[n] /\ e = EntNow[n] /\ o = obj[n]
  BY FileFacts
<1>4. /\ FileOk(w, e, o) /\ WinOk /\ obj \in [Names -> Files] /\ call \in Calling
  BY <1>2, <1>3, FileFacts
<1>5. o.open  BY <1>1, <1>2, <1>3 DEF PlaceOk, SectorOk
<1>6. PICK p \in Files : /\ p = [o EXCEPT !.dirty = FALSE] /\ p.open = o.open /\ p.err = o.err
                         /\ p.sclust = o.sclust /\ p.fptr = o.fptr /\ p.clust = o.clust
                         /\ p.fsize = o.fsize
  <2> DEFINE x == [o EXCEPT !.dirty = FALSE]
  <2>1. /\ x \in Files /\ x.open = o.open /\ x.err = o.err
        /\ x.sclust = o.sclust /\ x.fptr = o.fptr /\ x.clust = o.clust /\ x.fsize = o.fsize
    BY DEF Files
  <2> QED  BY <2>1
<1>7. PlaceOk(w, e, p, call)  BY <1>2, <1>3, <1>6, SamePlace, ZenonT(40)
<1>8. FileOk(w, e, p)  BY <1>4, <1>5, <1>6, SameFile
<1>9. Going(w, e, n) /\ call'.at # "link"
  <2>1. CASE call.at = "flush"
    <3>1. obj' = [obj EXCEPT ![n] = p] /\ call' = [call EXCEPT !.at = "entry"]
      BY <1>2, <1>3, <1>4, <1>6, <2>1 DEF FlushBuffer, Goes, Calling
    <3>2. call' \in Calling /\ call'.at = "entry" /\ call'.n = n /\ call'.op = call.op
      BY <1>2, <1>4, <3>1 DEF Calling, AtPlaces
    <3>3. call.op = "close"  BY <1>7, <2>1 DEF PlaceOk
    <3>4. PlaceOk(w, e, p, call')  BY <1>5, <1>6, <3>2, <3>3 DEF PlaceOk
    <3> QED  BY <1>8, <3>1, <3>2, <3>4 DEF Going
  <2>2. CASE call.at # "flush"
    <3>1. obj' = [obj EXCEPT ![n] = p] /\ call' = call
      BY <1>2, <1>3, <1>6, <2>2 DEF FlushBuffer, Goes
    <3> QED  BY <1>1, <1>2, <1>4, <1>7, <1>8, <3>1 DEF Going
  <2> QED  BY <2>1, <2>2
<1>10. DiskData /\ win' = win /\ Steady
  <2>1. o.bufv \in Labels  BY DEF Files
  <2>2. DiskWrite(WithData(card, o.dsect, o.bufv))  BY <1>2, <1>3 DEF FlushBuffer
  <2> QED  BY <1>4, <2>1, <2>2, DataSteps DEF FlushBuffer, Steady
<1> QED  BY <1>2, <1>3, <1>9, <1>10, CallKeeps

\* The pointer goes on in its sector, or from the beginning of one.
LEMMA PtrGoesOn ==
  ASSUME NEW w \in Seq(Clusters), NEW o \in Files, NEW d \in Nat,
         \/ o.fptr > 0 /\ o.fptr % SS # 0 /\ PtrOk(w, o) /\ d \in 1 .. SS - (o.fptr % SS)
         \/ StartOk(w, o) /\ d \in 1 .. SS,
         NEW p, p.fptr = o.fptr + d, p.sclust = o.sclust, p.clust = o.clust
  PROVE  PtrOk(w, p)
<1>1. o.fptr \in Nat  BY DEF Files
<1>2. CASE o.fptr > 0 /\ o.fptr % SS # 0 /\ PtrOk(w, o) /\ d \in 1 .. SS - (o.fptr % SS)
  <2>1. CASE o.sclust = DiskErr /\ o.clust = DiskErr  BY <2>1 DEF PtrOk
  <2>2. ASSUME o.sclust \in Clusters, NEW j \in 1 .. Len(w), o.clust = w[j], In(w, j, o.fptr)
        PROVE  PtrOk(w, p)
    <3>1. In(w, j, p.fptr)  BY <1>1, <1>2, <2>2, Further
    <3> QED  BY <2>2, <3>1 DEF PtrOk
  <2> QED  BY <1>2, <2>1, <2>2 DEF PtrOk
<1>3. CASE StartOk(w, o) /\ d \in 1 .. SS
  <2>1. PICK j \in 1 .. Len(w) : o.clust = w[j] /\ Begins(w, j, o.fptr)  BY <1>3 DEF StartOk
  <2>2. In(w, j, p.fptr)  BY <1>1, <1>3, <2>1, Beginning
  <2> QED  BY <1>3, <2>1, <2>2 DEF PtrOk, StartOk
<1> QED  BY <1>2, <1>3

LEMMA AdvanceForm ==
  ASSUME NEW o \in Files, NEW d \in Nat
  PROVE  /\ Advance(o, d) \in Files
         /\ Advance(o, d).open = o.open /\ Advance(o, d).err = o.err
         /\ Advance(o, d).sclust = o.sclust /\ Advance(o, d).clust = o.clust
         /\ Advance(o, d).fsize = o.fsize /\ Advance(o, d).fptr = o.fptr + d
         /\ Advance(o, d).wr = o.wr /\ Advance(o, d).written = o.written
<1> DEFINE g == IF o.good >= o.fptr THEN GreaterOf(o.good, o.fptr + d) ELSE o.good
<1> DEFINE f == o.fptr + d
<1>1. f \in Nat /\ o.good \in Nat  BY DEF Files
<1>2. g \in Nat  BY <1>1 DEF GreaterOf
<1>3. Advance(o, d) = [o EXCEPT !.fptr = f, !.good = g]  BY DEF Advance
<1> HIDE DEF g
<1>4. f = o.fptr + d  OBVIOUS
<1> HIDE DEF f
<1> QED  BY <1>1, <1>2, <1>3, <1>4 DEF Files

\* The step of f_write.
LEMMA WroteGoes ==
  ASSUME NEW n \in Names, NEW w \in Seq(Clusters), NEW e, NEW o \in Files, FileOk(w, e, o),
         o.open, ~o.err, last \in Nat, call \in Calling, call.n = n, call.op = "write",
         NEW d \in 1 .. call.left,
         \/ o.fptr > 0 /\ o.fptr % SS # 0 /\ PtrOk(w, o) /\ d \in 1 .. SS - (o.fptr % SS)
         \/ StartOk(w, o) /\ d \in 1 .. SS,
         NEW p \in Files, p.open, ~p.err, p.sclust = o.sclust, p.clust = o.clust,
         p.fsize = o.fsize, p.fptr = o.fptr + d,
         WriteOn(p, [call EXCEPT !.left = @ - d])
  PROVE  Going(w, e, n) /\ call'.at # "link"
<1>1. PtrOk(w, p)  BY PtrGoesOn
<1>2. FileOk(w, e, p)  BY SameFile
<1>3. PICK cl \in Calling : cl = [call EXCEPT !.left = @ - d] /\ cl.n = n /\ cl.op = "write"
  <2> DEFINE x == [call EXCEPT !.left = @ - d]
  <2>1. call.left \in Nat  BY DEF Calling
  <2>2. call.left - d \in Nat  BY <2>1
  <2>3. x \in Calling /\ x.n = n /\ x.op = "write"  BY <2>2 DEF Calling
  <2> QED  BY <2>3
<1> QED  BY <1>1, <1>2, <1>3, WriteGoes

\* A call of f_write in the middle of a sector.
LEMMA WriteInsideKeeps ==
  ASSUME NEW own, VolumeInv(own), WriteInside, bound' = bound
  PROVE  VolumeInv(own)' /\ FatNow' = FatNow /\ EntNow' = EntNow
<1>1. call.at = "inside" /\ call.op = "write"  BY DEF WriteInside
<1>2. PICK n \in Names : n = call.n /\ PlaceOk(own[n], EntNow[n], obj[n], call)
  BY <1>1, CallFacts
<1>3. PICK w \in Seq(Clusters), e \in Entries, o \in Files :
        w = own[n] /\ e = EntNow[n] /\ o = obj[n]
  BY FileFacts
<1>4. /\ FileOk(w, e, o) /\ WinOk /\ call \in Calling /\ last \in Nat /\ InsideOk(w, o, call)
  BY <1>1, <1>2, <1>3, FileFacts DEF PlaceOk
<1>5. PICK d \in Nat : d = LesserOf(call.left, SS - (o.fptr % SS)) /\ d \in 1 .. call.left
                       /\ d \in 1 .. SS - (o.fptr % SS)
  <2>1. call.left \in Nat /\ call.left > 0 /\ o.fptr \in Nat /\ SS \in Nat \ {0}
    BY <1>4, FatAssumption DEF InsideOk, Calling, Files
  <2>2. o.fptr % SS \in 0 .. SS - 1
    <3>1. o.fptr \in Int  BY <2>1
    <3> QED  BY <2>1, <3>1, Quotient
  <2>3. PICK t \in Nat : t = SS - (o.fptr % SS) /\ t > 0  BY <2>1, <2>2
  <2> DEFINE x == LesserOf(call.left, t)
  <2>4. x \in Nat /\ x \in 1 .. call.left /\ x \in 1 .. t  BY <2>1, <2>3 DEF LesserOf
  <2> QED  BY <2>3, <2>4
<1>6. PutBuffer(o, d)  BY <1>2, <1>3, <1>5 DEF WriteInside
<1>7. PICK p \in Files : /\ p = [Advance(o, d) EXCEPT !.dirty = TRUE, !.bufv = call.n]
                         /\ p.open = o.open /\ p.err = o.err /\ p.sclust = o.sclust
                         /\ p.clust = o.clust /\ p.fsize = o.fsize /\ p.fptr = o.fptr + d
  <2> DEFINE x == [Advance(o, d) EXCEPT !.dirty = TRUE, !.bufv = call.n]
  <2>1. /\ Advance(o, d) \in Files
        /\ Advance(o, d).open = o.open /\ Advance(o, d).err = o.err
        /\ Advance(o, d).sclust = o.sclust /\ Advance(o, d).clust = o.clust
        /\ Advance(o, d).fsize = o.fsize /\ Advance(o, d).fptr = o.fptr + d
    BY AdvanceForm
  <2>2. /\ x \in Files
        /\ x.open = o.open /\ x.err = o.err /\ x.sclust = o.sclust
        /\ x.clust = o.clust /\ x.fsize = o.fsize /\ x.fptr = o.fptr + d
    BY <1>2, <2>1 DEF Files, Labels
  <2> QED  BY <2>2
<1>8. WriteOn(p, [call EXCEPT !.left = @ - d])  BY <1>6, <1>7 DEF PutBuffer
<1>9. Going(w, e, n) /\ call'.at # "link"
  BY <1>1, <1>2, <1>4, <1>5, <1>7, <1>8, WroteGoes, ZenonT(40) DEF InsideOk
<1>10. DiskData /\ win' = win /\ Steady  BY <1>4, DataSteps DEF WriteInside, Steady
<1> QED  BY <1>2, <1>3, <1>9, <1>10, CallKeeps

\* A whole sector goes to the card.
LEMMA WriteSectorKeeps ==
  ASSUME NEW own, VolumeInv(own), WriteSector, bound' = bound
  PROVE  VolumeInv(own)' /\ FatNow' = FatNow /\ EntNow' = EntNow
<1>1. call.at = "store"  BY DEF WriteSector
<1>2. PICK n \in Names : n = call.n /\ PlaceOk(own[n], EntNow[n], obj[n], call)
  BY <1>1, CallFacts
<1>3. PICK w \in Seq(Clusters), e \in Entries, o \in Files :
        w = own[n] /\ e = EntNow[n] /\ o = obj[n]
  BY FileFacts
<1>4. /\ FileOk(w, e, o) /\ WinOk /\ call \in Calling /\ last \in Nat
      /\ SectorOk(w, o, call) /\ call.op = "write"
  BY <1>1, <1>2, <1>3, FileFacts DEF PlaceOk
<1>5. PICK d \in Nat : d = SS /\ d \in 1 .. call.left /\ d \in 1 .. SS
  <2>1. call.left \in Nat /\ call.left >= SS /\ SS \in Nat \ {0}
    BY <1>4, FatAssumption DEF WriteSector, Calling
  <2> QED  BY <2>1
<1>6. PICK p \in Files :
        /\ p = [Advance(o, d) EXCEPT !.bufv = IF o.dsect = o.clust THEN call.n ELSE @]
        /\ p.open = o.open /\ p.err = o.err /\ p.sclust = o.sclust
        /\ p.clust = o.clust /\ p.fsize = o.fsize /\ p.fptr = o.fptr + d
  <2> DEFINE b == IF o.dsect = o.clust THEN call.n ELSE Advance(o, d).bufv
  <2> DEFINE x == [Advance(o, d) EXCEPT !.bufv = b]
  <2>1. /\ Advance(o, d) \in Files
        /\ Advance(o, d).open = o.open /\ Advance(o, d).err = o.err
        /\ Advance(o, d).sclust = o.sclust /\ Advance(o, d).clust = o.clust
        /\ Advance(o, d).fsize = o.fsize /\ Advance(o, d).fptr = o.fptr + d
    BY AdvanceForm
  <2>2. b \in Labels  BY <1>2, <2>1 DEF Files, Labels
  <2>3. x = [Advance(o, d) EXCEPT !.bufv = IF o.dsect = o.clust THEN call.n ELSE @]
    OBVIOUS
  <2> HIDE DEF b
  <2>4. /\ x \in Files
        /\ x.open = o.open /\ x.err = o.err /\ x.sclust = o.sclust
        /\ x.clust = o.clust /\ x.fsize = o.fsize /\ x.fptr = o.fptr + d
    BY <2>1, <2>2 DEF Files
  <2> QED  BY <2>3, <2>4
<1>7. WriteOn(p, [call EXCEPT !.left = @ - d])
  BY <1>2, <1>3, <1>5, <1>6 DEF WriteSector
<1>8. Going(w, e, n) /\ call'.at # "link"
  BY <1>2, <1>4, <1>5, <1>6, <1>7, WroteGoes, ZenonT(40) DEF SectorOk
<1>9. DiskData
  <2>1. card' = WithData(card, o.clust, n) /\ safe' = WithData(card, o.clust, Nobody)
    BY <1>2, <1>3 DEF WriteSector
  <2>2. card \in Volumes /\ n \in Labels /\ Nobody \in Labels  BY <1>4 DEF WinOk, Labels
  <2>3. card' \in Volumes /\ card'.fat = card.fat /\ card'.ent = card.ent
    BY <2>1, <2>2 DEF WithData, Volumes
  <2>4. safe' \in Volumes /\ safe'.fat = card.fat /\ safe'.ent = card.ent
    BY <2>1, <2>2 DEF WithData, Volumes
  <2> QED  BY <2>3, <2>4 DEF DiskData
<1>10. win' = win /\ Steady  BY DEF WriteSector, Steady
<1> QED  BY <1>2, <1>3, <1>8, <1>9, <1>10, CallKeeps

\* Part of one goes to the buffer.
LEMMA WritePartKeeps ==
  ASSUME NEW own, VolumeInv(own), WritePart, bound' = bound
  PROVE  VolumeInv(own)' /\ FatNow' = FatNow /\ EntNow' = EntNow
<1>1. call.at = "store"  BY DEF WritePart
<1>2. PICK n \in Names : n = call.n /\ PlaceOk(own[n], EntNow[n], obj[n], call)
  BY <1>1, CallFacts
<1>3. PICK w \in Seq(Clusters), e \in Entries, o \in Files :
        w = own[n] /\ e = EntNow[n] /\ o = obj[n]
  BY FileFacts
<1>4. /\ FileOk(w, e, o) /\ WinOk /\ call \in Calling /\ last \in Nat
      /\ SectorOk(w, o, call) /\ call.op = "write"
  BY <1>1, <1>2, <1>3, FileFacts DEF PlaceOk
<1>5. PICK d \in Nat : d = call.left /\ d \in 1 .. call.left /\ d \in 1 .. SS
  <2>1. call.left \in Nat /\ call.left < SS /\ call.left > 0 /\ SS \in Nat \ {0}
    BY <1>4, FatAssumption DEF WritePart, Calling, SectorOk
  <2> QED  BY <2>1
<1> DEFINE q == [o EXCEPT !.dsect = o.clust]
<1>6. PICK p \in Files :
        /\ p = [Advance(q, d) EXCEPT !.dirty = TRUE, !.bufv = call.n]
        /\ p.open = o.open /\ p.err = o.err /\ p.sclust = o.sclust
        /\ p.clust = o.clust /\ p.fsize = o.fsize /\ p.fptr = o.fptr + d
  <2> DEFINE x == [Advance(q, d) EXCEPT !.dirty = TRUE, !.bufv = call.n]
  <2>1. /\ q \in Files /\ q.open = o.open /\ q.err = o.err
        /\ q.sclust = o.sclust /\ q.clust = o.clust
        /\ q.fsize = o.fsize /\ q.fptr = o.fptr
    BY DEF Files
  <2> HIDE DEF q
  <2>2. /\ Advance(q, d) \in Files
        /\ Advance(q, d).open = q.open /\ Advance(q, d).err = q.err
        /\ Advance(q, d).sclust = q.sclust /\ Advance(q, d).clust = q.clust
        /\ Advance(q, d).fsize = q.fsize /\ Advance(q, d).fptr = q.fptr + d
    BY <2>1, AdvanceForm
  <2>3. /\ x \in Files
        /\ x.open = o.open /\ x.err = o.err /\ x.sclust = o.sclust
        /\ x.clust = o.clust /\ x.fsize = o.fsize /\ x.fptr = o.fptr + d
    BY <1>2, <2>1, <2>2 DEF Files, Labels
  <2> QED  BY <2>3
<1>7. WriteOn(p, [call EXCEPT !.left = @ - d])
  BY <1>2, <1>3, <1>5, <1>6 DEF WritePart, PutBuffer
<1>8. Going(w, e, n) /\ call'.at # "link"
  BY <1>2, <1>4, <1>5, <1>6, <1>7, WroteGoes, ZenonT(40) DEF SectorOk
<1>9. DiskData
  <2>1. DiskWrite(WithData(card, o.clust, Nobody)) \/ Outdate(o.clust)
    BY <1>2, <1>3 DEF WritePart
  <2> QED  BY <1>4, <2>1, DataSteps DEF Labels
<1>10. win' = win /\ Steady  BY DEF WritePart, Steady
<1> QED  BY <1>2, <1>3, <1>8, <1>9, <1>10, CallKeeps

\* The step of f_read.
LEMMA DeliverGoes ==
  ASSUME NEW n \in Names, NEW w \in Seq(Clusters), NEW e, NEW o \in Files, FileOk(w, e, o),
         o.open, ~o.err, call \in Calling, call.n = n, call.op = "read",
         NEW d \in 1 .. call.left,
         \/ o.fptr > 0 /\ o.fptr % SS # 0 /\ PtrOk(w, o) /\ d \in 1 .. SS - (o.fptr % SS)
         \/ StartOk(w, o) /\ d \in 1 .. SS,
         NEW v \in Labels, Deliver(o, d, v)
  PROVE  Going(w, e, n) /\ call'.at # "link"
<1>1. o.fptr \in Nat /\ call.left \in Nat /\ d \in Nat /\ call.left - d \in Nat
  BY DEF Files, Calling
<1>2. PICK p \in Files : /\ p = [o EXCEPT !.fptr = @ + d] /\ p.open /\ ~p.err
                         /\ p.sclust = o.sclust /\ p.clust = o.clust /\ p.fsize = o.fsize
                         /\ p.fptr = o.fptr + d
  <2> DEFINE f == o.fptr + d
  <2>1. f \in Nat  BY <1>1
  <2> DEFINE x == [o EXCEPT !.fptr = f]
  <2>2. x = [o EXCEPT !.fptr = @ + d]  OBVIOUS
  <2>3. f = o.fptr + d  OBVIOUS
  <2> HIDE DEF f
  <2>4. /\ x \in Files /\ x.open /\ ~x.err
        /\ x.sclust = o.sclust /\ x.clust = o.clust /\ x.fsize = o.fsize /\ x.fptr = f
    BY <2>1 DEF Files
  <2> QED  BY <2>2, <2>3, <2>4
<1>3. PtrOk(w, p)  BY <1>1, <1>2, PtrGoesOn
<1>4. FileOk(w, e, p)  BY <1>2, SameFile
<1>5. PICK got \in Calling :
        /\ got = [call EXCEPT !.left = @ - d, !.v = v, !.c = 0, !.scl = 1 + o.fptr \div SS]
        /\ got.n = n /\ got.op = "read"
  <2> DEFINE s == 1 + o.fptr \div SS
  <2>1. s \in Nat
    <3>1. SS \in Nat \ {0}  BY FatAssumption
    <3> QED  BY <1>1, <3>1
  <2> DEFINE l == call.left - d
  <2> DEFINE x == [call EXCEPT !.left = l, !.v = v, !.c = 0, !.scl = s]
  <2>2. x = [call EXCEPT !.left = @ - d, !.v = v, !.c = 0, !.scl = 1 + o.fptr \div SS]
    OBVIOUS
  <2>3. l \in Nat  BY <1>1
  <2> HIDE DEF s, l
  <2>4. x \in Calling /\ x.n = n /\ x.op = "read"  BY <2>1, <2>3 DEF Calling
  <2> QED  BY <2>2, <2>4
<1>6. CASE got.left > 0
  <2>1. ReadOn(p, got)  BY <1>2, <1>5, <1>6 DEF Deliver
  <2> QED  BY <1>2, <1>3, <1>4, <1>5, <2>1, ReadGoes
<1>7. CASE ~(got.left > 0)
  <2> DEFINE x == [got EXCEPT !.at = "got"]
  <2>1. x \in Calling /\ x.at = "got" /\ x.n = n /\ x.op = "read"
    BY <1>5, ZenonT(40) DEF Calling, AtPlaces
  <2>2. Goes(p, x)  BY <1>2, <1>5, <1>7 DEF Deliver
  <2>3. obj' = [obj EXCEPT ![n] = p] /\ call' = x  BY <2>1, <2>2 DEF Goes
  <2> HIDE DEF x
  <2>4. PlaceOk(w, e, p, x)  BY <1>2, <1>3, <2>1 DEF PlaceOk
  <2> QED  BY <1>2, <1>4, <2>1, <2>3, <2>4 DEF Going
<1> QED  BY <1>6, <1>7

LEMMA ReadInsideKeeps ==
  ASSUME NEW own, VolumeInv(own), ReadInside, bound' = bound
  PROVE  VolumeInv(own)' /\ FatNow' = FatNow /\ EntNow' = EntNow
<1>1. call.at = "inside" /\ call.op = "read"  BY DEF ReadInside
<1>2. PICK n \in Names : n = call.n /\ PlaceOk(own[n], EntNow[n], obj[n], call)
  BY <1>1, CallFacts
<1>3. PICK w \in Seq(Clusters), e \in Entries, o \in Files :
        w = own[n] /\ e = EntNow[n] /\ o = obj[n]
  BY FileFacts
<1>4. /\ FileOk(w, e, o) /\ WinOk /\ call \in Calling /\ InsideOk(w, o, call)
      /\ o.bufv \in Labels
  BY <1>1, <1>2, <1>3, FileFacts DEF PlaceOk, Files
<1>5. PICK d \in Nat : d = LesserOf(call.left, SS - (o.fptr % SS)) /\ d \in 1 .. call.left
                       /\ d \in 1 .. SS - (o.fptr % SS)
  <2>1. call.left \in Nat /\ call.left > 0 /\ o.fptr \in Nat /\ SS \in Nat \ {0}
    BY <1>4, FatAssumption DEF InsideOk, Calling, Files
  <2>2. o.fptr % SS \in 0 .. SS - 1
    <3>1. o.fptr \in Int  BY <2>1
    <3> QED  BY <2>1, <3>1, Quotient
  <2>3. PICK t \in Nat : t = SS - (o.fptr % SS) /\ t > 0  BY <2>1, <2>2
  <2> DEFINE x == LesserOf(call.left, t)
  <2>4. x \in Nat /\ x \in 1 .. call.left /\ x \in 1 .. t  BY <2>1, <2>3 DEF LesserOf
  <2> QED  BY <2>3, <2>4
<1>6. Deliver(o, d, o.bufv)  BY <1>2, <1>3, <1>5 DEF ReadInside
<1>7. Going(w, e, n) /\ call'.at # "link"
  BY <1>1, <1>2, <1>4, <1>5, <1>6, DeliverGoes DEF InsideOk
<1>8. DiskData /\ win' = win /\ Steady  BY <1>4, DataSteps DEF ReadInside, Steady
<1> QED  BY <1>2, <1>3, <1>7, <1>8, CallKeeps

\* A whole sector, or a part of one.
LEMMA ReadSectorKeeps ==
  ASSUME NEW own, VolumeInv(own), ReadSector \/ ReadPart, bound' = bound
  PROVE  VolumeInv(own)' /\ FatNow' = FatNow /\ EntNow' = EntNow
<1>1. call.at = "fetch"  BY DEF ReadSector, ReadPart
<1>2. PICK n \in Names : n = call.n /\ PlaceOk(own[n], EntNow[n], obj[n], call)
  BY <1>1, CallFacts
<1>3. PICK w \in Seq(Clusters), e \in Entries, o \in Files :
        w = own[n] /\ e = EntNow[n] /\ o = obj[n]
  BY FileFacts
<1>4. /\ FileOk(w, e, o) /\ WinOk /\ call \in Calling /\ SectorOk(w, o, call)
      /\ call.op = "read" /\ o.bufv \in Labels
  BY <1>1, <1>2, <1>3, FileFacts DEF PlaceOk, Files
<1>5. card.data[o.clust] \in Labels
  <2>1. PICK j \in 1 .. Len(w) : o.clust = w[j]  BY <1>4 DEF SectorOk, StartOk
  <2>2. o.clust \in Clusters  BY <2>1, LenProperties, ElementOfSeq
  <2> QED  BY <1>4, <2>2, DataOnCard
<1>6. call.left \in Nat /\ call.left > 0 /\ SS \in Nat \ {0} /\ o.clust \in Nat
  BY <1>4, FatAssumption DEF SectorOk, Calling, Files
<1>7. Going(w, e, n) /\ call'.at # "link"
  <2>1. CASE ReadSector
    <3>1. PICK d \in Nat : d = SS /\ d \in 1 .. call.left /\ d \in 1 .. SS
      BY <1>6, <2>1 DEF ReadSector
    <3>2. PICK v \in Labels : Deliver(o, d, v)
      BY <1>2, <1>3, <1>4, <1>5, <2>1, <3>1 DEF ReadSector
    <3> QED  BY <1>2, <1>4, <3>1, <3>2, DeliverGoes DEF SectorOk
  <2>2. CASE ReadPart
    <3>1. PICK d \in Nat : d = call.left /\ d \in 1 .. call.left /\ d \in 1 .. SS
      BY <1>6, <2>2 DEF ReadPart
    <3>2. CASE o.dsect = o.clust
      <4>1. Deliver(o, d, o.bufv)  BY <1>2, <1>3, <2>2, <3>1, <3>2 DEF ReadPart
      <4> QED  BY <1>2, <1>4, <3>1, <4>1, DeliverGoes DEF SectorOk
    <3>3. CASE o.dsect # o.clust
      <4>1. PICK v \in Labels : v = card.data[o.clust]  BY <1>5
      <4> DEFINE q == [o EXCEPT !.dsect = o.clust, !.bufv = v]
      <4>2. Deliver(q, d, v)  BY <1>2, <1>3, <2>2, <3>1, <3>3, <4>1 DEF ReadPart
      <4>3. /\ q \in Files /\ q.open = o.open /\ q.err = o.err
            /\ q.sclust = o.sclust /\ q.clust = o.clust
            /\ q.fsize = o.fsize /\ q.fptr = o.fptr
        BY <1>6, <4>1 DEF Files
      <4> HIDE DEF q
      <4>4. FileOk(w, e, q)  BY <1>4, <4>3, SameFile DEF SectorOk
      <4>5. q.open /\ ~q.err /\ StartOk(w, q)  BY <1>4, <4>3 DEF SectorOk, StartOk
      <4> QED  BY <1>2, <1>4, <3>1, <4>2, <4>3, <4>4, <4>5, DeliverGoes
    <3> QED  BY <3>2, <3>3
  <2> QED  BY <2>1, <2>2
<1>8. DiskData /\ win' = win /\ Steady
  <2>1. DiskRead \/ UNCHANGED <<card, safe>>  BY DEF ReadSector, ReadPart
  <2> QED  BY <1>4, <2>1, DataSteps DEF ReadSector, ReadPart, Steady
<1> QED  BY <1>2, <1>3, <1>7, <1>8, CallKeeps

LEMMA ReadEndsKeeps ==
  ASSUME NEW own, VolumeInv(own), ReadEnds, bound' = bound
  PROVE  VolumeInv(own)' /\ FatNow' = FatNow /\ EntNow' = EntNow
<1>1. call.at = "got"  BY DEF ReadEnds
<1>2. PICK n \in Names : n = call.n /\ PlaceOk(own[n], EntNow[n], obj[n], call)
  BY <1>1, CallFacts
<1>3. PICK w \in Seq(Clusters), e \in Entries, o \in Files :
        w = own[n] /\ e = EntNow[n] /\ o = obj[n]
  BY FileFacts
<1>4. FileOk(w, e, o) /\ WinOk /\ PtrOk(w, o)
  BY <1>1, <1>2, <1>3, FileFacts DEF PlaceOk
<1>5. obj' = [obj EXCEPT ![n] = o] /\ call' = Idle
  BY <1>2, <1>3 DEF ReadEnds, Return
<1>6. Going(w, e, n) /\ call'.at # "link"
  BY <1>4, <1>5, Records DEF Going, Resting
<1>7. DiskData /\ win' = win /\ Steady  BY <1>4, DataSteps DEF ReadEnds, Steady
<1> QED  BY <1>2, <1>3, <1>6, <1>7, CallKeeps

\* The next cluster of a chain that is only read.
LEMMA FollowKeeps ==
  ASSUME NEW own, VolumeInv(own), Follow, bound' = bound
  PROVE  VolumeInv(own)' /\ FatNow' = FatNow /\ EntNow' = EntNow
<1>1. call.at = "follow" /\ win.sect = Need  BY DEF Follow, InWindow
<1>2. PICK n \in Names : n = call.n /\ PlaceOk(own[n], EntNow[n], obj[n], call)
  BY <1>1, CallFacts
<1>3. PICK w \in Seq(Clusters), e \in Entries, o \in Files :
        w = own[n] /\ e = EntNow[n] /\ o = obj[n]
  BY FileFacts
<1>4. /\ FileOk(w, e, o) /\ InOk(w, o, call) /\ call.op \in {"read", "seek"}
      /\ WinOk /\ obj \in [Names -> Files] /\ call \in Calling
  BY <1>1, <1>2, <1>3, FileFacts DEF PlaceOk
<1>5. /\ o.open /\ ~o.err /\ call.c = o.clust
      /\ call.c \in Clusters => o.sclust \in Clusters /\ \E j \in 1 .. Len(w) : call.c = w[j]
  BY <1>4, InCluster
<1>6. Going(w, e, n) /\ call'.at # "link"
  <2>1. CASE FatEntry(call.c) \notin Clusters
    <3>1. Abort(1)  BY <2>1 DEF Follow
    <3> QED  BY <1>1, <1>2, <1>3, <1>4, <1>5, <3>1, AbortGoes, Records
  <2>2. CASE FatEntry(call.c) \in Clusters
    <3>0. call.c \in Clusters  BY <2>2, Constants DEF FatEntry
    <3>1. PICK j \in 1 .. Len(w) : call.c = w[j] /\ o.sclust \in Clusters  BY <1>5, <3>0
    <3>2. FatEntry(call.c) = FatNow[call.c]
      BY <1>1, <3>0, FatHere DEF FatEntry, Need
    <3>3. /\ FatNow[w[j]] = IF j < Len(w) THEN w[j + 1] ELSE EOC
          /\ FatNow[w[j]] \in Clusters <=> j < Len(w)
          /\ \A i \in 1 .. Len(w) : w[i] = w[j] => i = j
      BY <1>3, LinkedAt
    <3>4. PICK r \in Clusters : r = w[j + 1] /\ r = FatEntry(call.c) /\ j < Len(w)
      BY <2>2, <3>1, <3>2, <3>3
    <3>5. r \in Nat /\ j + 1 \in 1 .. Len(w) /\ o.fptr \in Nat /\ SS \in Nat /\ call.left \in Nat
      <4>1. Len(w) \in Nat  BY LenProperties
      <4>2. j + 1 \in 1 .. Len(w)  BY <3>4, <4>1
      <4> QED  BY <1>4, <4>2, Constants DEF Files, Calling
    <3>6. CASE call.op = "read"
      <4> DEFINE p == [o EXCEPT !.clust = r]
      <4> DEFINE pl == [call EXCEPT !.at = "fetch"]
      <4>1. Goes(p, pl)  BY <1>2, <1>3, <2>2, <3>4, <3>6 DEF Follow
      <4>2. /\ p \in Files /\ p.open /\ ~p.err /\ p.sclust = o.sclust /\ p.clust = r
            /\ p.fptr = o.fptr /\ p.fsize = o.fsize
        BY <1>5, <3>5 DEF Files
      <4>3. pl \in Calling /\ pl.at = "fetch" /\ pl.n = n /\ pl.op = "read" /\ pl.left = call.left
        BY <1>2, <1>4, <3>6 DEF Calling, AtPlaces
      <4>4. obj' = [obj EXCEPT ![n] = p] /\ call' = pl  BY <4>1, <4>3 DEF Goes
      <4> HIDE DEF p, pl
      <4>5. FileOk(w, e, p)  BY <1>4, <1>5, <4>2, SameFile
      <4>6. StartOk(w, p)
        <5>1. o.fptr > 0 /\ o.fptr % SS = 0 /\ PtrOk(w, o)  BY <1>4, <3>6 DEF InOk
        <5>2. PICK i \in 1 .. Len(w) : o.clust = w[i] /\ In(w, i, o.fptr)
          BY <3>1, <5>1, Constants DEF PtrOk
        <5>3. i = j  BY <1>5, <3>1, <3>3, <5>2
        <5>4. Begins(w, j + 1, o.fptr)  BY <3>4, <3>5, <5>1, <5>2, <5>3, NextBegins
        <5> QED  BY <3>1, <3>4, <3>5, <4>2, <5>4 DEF StartOk
      <4>7. call.left > 0  BY <1>4, <3>6 DEF InOk
      <4>8. SectorOk(w, p, pl)  BY <4>2, <4>3, <4>6, <4>7 DEF SectorOk
      <4>9. PlaceOk(w, e, p, pl)  BY <4>3, <4>8 DEF PlaceOk
      <4> QED  BY <4>2, <4>3, <4>4, <4>5, <4>9 DEF Going
    <3>7. CASE call.op = "seek"
      <4> DEFINE f == o.fptr + SS
      <4> DEFINE l == call.left - SS
      <4> DEFINE p == [o EXCEPT !.clust = r, !.fptr = f]
      <4> DEFINE cl == [call EXCEPT !.left = l]
      <4>1. SeekOn(p, cl, r)  BY <1>2, <1>3, <2>2, <3>4, <3>7 DEF Follow
      <4>2. SeekOk(w, o) /\ call.left > SS  BY <1>4, <3>7 DEF InOk
      <4>3. f \in Nat /\ l \in Nat /\ l > 0 /\ f = o.fptr + SS  BY <3>5, <4>2
      <4> HIDE DEF f, l
      <4>4. /\ p \in Files /\ p.open /\ ~p.err /\ p.sclust = o.sclust /\ p.clust = r
            /\ p.fptr = f /\ p.fsize = o.fsize
        BY <1>5, <3>5, <4>3 DEF Files
      <4>5. cl \in Calling /\ cl.n = n /\ cl.op = "seek" /\ cl.left > 0
        BY <1>2, <1>4, <3>7, <4>3 DEF Calling
      <4> HIDE DEF p, cl
      <4>6. FileOk(w, e, p)  BY <1>4, <1>5, <4>4, SameFile
      <4>7. SeekOk(w, p)
        <5>1. PICK i \in 1 .. Len(w) : o.clust = w[i] /\ Begins(w, i, o.fptr)
          BY <3>1, <4>2, Constants DEF SeekOk, StartOk
        <5>2. i = j  BY <1>5, <3>1, <3>3, <5>1
        <5>3. Begins(w, j + 1, f)  BY <3>4, <3>5, <4>3, <5>1, <5>2, Beginning
        <5> QED  BY <3>1, <3>4, <3>5, <4>4, <5>3 DEF SeekOk, StartOk
      <4> QED  BY <4>1, <4>4, <4>5, <4>6, <4>7, SeekGoes
    <3> QED  BY <1>4, <3>6, <3>7
  <2> QED  BY <2>1, <2>2
<1>7. DiskData /\ win' = win /\ Steady  BY <1>4, DataSteps DEF Follow, Steady
<1> QED  BY <1>2, <1>3, <1>6, <1>7, CallKeeps

\* The end of f_lseek.
LEMMA SeekEndsKeeps ==
  ASSUME NEW own, VolumeInv(own), SeekEnds, bound' = bound
  PROVE  VolumeInv(own)' /\ FatNow' = FatNow /\ EntNow' = EntNow
<1>1. call.at = "fill"  BY DEF SeekEnds
<1>2. PICK n \in Names : n = call.n /\ PlaceOk(own[n], EntNow[n], obj[n], call)
  BY <1>1, CallFacts
<1>3. PICK w \in Seq(Clusters), e \in Entries, o \in Files :
        w = own[n] /\ e = EntNow[n] /\ o = obj[n]
  BY FileFacts
<1>4. /\ FileOk(w, e, o) /\ WinOk /\ call \in Calling /\ PtrOk(w, o) /\ o.open /\ ~o.err
      /\ call.op = "seek"
  BY <1>1, <1>2, <1>3, FileFacts DEF PlaceOk
<1>5. Going(w, e, n) /\ call'.at # "link"
  <2>1. CASE Return(Sought(o))
    <3>1. Sought(o) \in Files /\ FileOk(w, e, Sought(o)) /\ PtrOk(w, Sought(o))
      BY <1>4, Stretched
    <3> QED  BY <1>2, <2>1, <3>1, Records DEF Return, Going, Resting
  <2>2. CASE Abort(1)
    <3>1. call.at # "scan" /\ o = obj[n]  BY <1>1, <1>3
    <3>2. Going(w, e, n) /\ call' = Idle  BY <1>2, <1>4, <2>2, <3>1, AbortGoes
    <3> QED  BY <3>2, Records
  <2> DEFINE r == [o EXCEPT !.dsect = call.c, !.bufv = card.data[call.c]]
  <2>3. CASE call.c \in Clusters /\ Return(Sought(r))
    <3>1. PICK v \in Labels : v = card.data[call.c]  BY <1>4, <2>3, DataOnCard
    <3> DEFINE q == [o EXCEPT !.dsect = call.c, !.bufv = v]
    <3>2. Return(Sought(q))  BY <2>3, <3>1
    <3>3. /\ q \in Files /\ q.open = o.open /\ q.err = o.err
          /\ q.sclust = o.sclust /\ q.clust = o.clust
          /\ q.fsize = o.fsize /\ q.fptr = o.fptr
      BY <1>4, <3>1 DEF Files, Calling
    <3> HIDE DEF q
    <3>4. FileOk(w, e, q) /\ PtrOk(w, q) /\ q.open
      <4>1. FileOk(w, e, q)  BY <1>4, <3>3, SameFile
      <4> QED  BY <1>4, <3>3, <4>1 DEF PtrOk
    <3>5. Sought(q) \in Files /\ FileOk(w, e, Sought(q)) /\ PtrOk(w, Sought(q))
      BY <3>3, <3>4, Stretched
    <3> QED  BY <1>2, <3>2, <3>5, Records DEF Return, Going, Resting
  <2>4. \/ Return(Sought(o)) \/ Abort(1)
        \/ call.c \in Clusters /\ Return(Sought(r))
    <3>1. obj[call.n] = o  BY <1>2, <1>3
    <3> QED  BY <3>1 DEF SeekEnds
  <2> HIDE DEF r
  <2> QED  BY <2>1, <2>2, <2>3, <2>4
<1>6. DiskData /\ win' = win /\ Steady
  <2>1. DiskRead \/ UNCHANGED <<card, safe>>  BY DEF SeekEnds
  <2> QED  BY <1>4, <2>1, DataSteps DEF SeekEnds, Steady
<1> QED  BY <1>2, <1>3, <1>5, <1>6, CallKeeps

-----------------------------------------------------------------------------
(* Failed accesses.                                                        *)

\* The volume is the same, as it is on the card or in the window.
LEMMA SameVolume ==
  ASSUME NEW own, VolumeInv(own), NEW n \in Names, call.at = "idle" \/ call.n = n,
         WinOk', FatNow' = FatNow, EntNow' = EntNow, Solid',
         Going(own[n], EntNow[n], n), call'.at # "link",
         last' = last, faults' \in Nat, kept' \in Promises, bound' = bound
  PROVE  VolumeInv(own)'
<1>1. ChainInv(own)' /\ obj' \in [Names -> Files] /\ call' \in Calling
  BY QuietStep DEF VolumeInv
<1>2. last \in Nat /\ bound \in Bounds  BY DEF VolumeInv, BaseInv, TypeOK
<1> QED  BY <1>1, <1>2 DEF VolumeInv, BaseInv, TypeOK

LEMMA FailedFacts ==
  ASSUME NEW own, VolumeInv(own), Failed(DiskErr), call.at # "idle"
  PROVE  /\ faults' \in Nat /\ kept' \in Promises /\ last' = last
         /\ \E n \in Names : n = call.n /\ Going(own[n], EntNow[n], n) /\ call' = Idle
<1>1. faults' \in Nat /\ kept' \in Promises /\ last' = last
  BY DEF Failed, VolumeInv, BaseInv, TypeOK
<1>2. PICK n \in Names : n = call.n /\ PlaceOk(own[n], EntNow[n], obj[n], call)
  BY CallFacts
<1>3. /\ FileOk(own[n], EntNow[n], obj[n]) /\ obj \in [Names -> Files] /\ call \in Calling
  BY FileFacts
<1>4. Going(own[n], EntNow[n], n) /\ call' = Idle
  <2>1. PICK w, e : w = own[n] /\ e = EntNow[n]  OBVIOUS
  <2> QED  BY <1>2, <1>3, <2>1, FailGoes
<1> QED  BY <1>1, <1>2, <1>4

LEMMA FailKeeps ==
  ASSUME NEW own, VolumeInv(own), call.at # "idle", DiskData, win' = win, Failed(DiskErr),
         bound' = bound
  PROVE  VolumeInv(own)'
<1>1. /\ faults' \in Nat /\ kept' \in Promises /\ last' = last
      /\ \E n \in Names : n = call.n /\ Going(own[n], EntNow[n], n) /\ call' = Idle
  BY FailedFacts
<1>2. call'.at # "link"  BY <1>1 DEF Idle
<1> QED  BY <1>1, <1>2, QuietKeeps

LEMMA AccessFailsKeeps ==
  ASSUME NEW own, VolumeInv(own), BufferFails \/ StoreFails \/ ReadFails \/ FillFails,
         bound' = bound
  PROVE  VolumeInv(own)'
<1>1. call.at # "idle" /\ Failed(DiskErr) /\ win' = win
  BY DEF BufferFails, BufferInWay, StoreFails, ReadFails, FillFails
<1>2. PICK n \in Names : n = call.n  BY <1>1, CallFacts
<1>3. WinOk /\ obj[n].bufv \in Labels  BY FileFacts DEF Files
<1>4. DiskData
  <2>1. CASE BufferFails
    BY <1>2, <1>3, <2>1, DataSteps DEF BufferFails
  <2>2. CASE StoreFails
    BY <1>3, <2>2, DataSteps DEF StoreFails
  <2>3. CASE ReadFails \/ FillFails
    BY <1>3, <2>3, DataSteps DEF ReadFails, FillFails
  <2> QED  BY <2>1, <2>2, <2>3
<1> QED  BY <1>1, <1>4, FailKeeps

\* The volume of the moment is sound.
LEMMA NowSound ==
  ASSUME NEW own, VolumeInv(own), NEW cd, cd.fat = FatNow, cd.ent = EntNow
  PROVE  Sound(cd)
BY DEF Sound, VolumeInv, ChainInv, FileOk

LEMMA WindowFailsKeeps ==
  ASSUME NEW own, VolumeInv(own), WindowFails, bound' = bound
  PROVE  VolumeInv(own)'
<1>1. Failed(DiskErr) /\ win' = win /\ WinOk  BY DEF VolumeInv, BaseInv, WindowFails
<1>2. call.at # "idle"
  BY DEF WindowFails, Need
<1>3. CASE UNCHANGED <<card, safe>>
  BY <1>1, <1>2, <1>3, FailKeeps, DataSteps
<1>4. CASE win.dirty /\ DiskWrite(Stored(card, win.sect, win.copy))
  <2> DEFINE new == Stored(card, win.sect, win.copy)
  <2>1. new \in Volumes /\ new.fat = FatNow /\ new.ent = EntNow
    BY <1>1, <1>4, WindowForm, WrittenBack
  <2>2. card' = new /\ safe' = card  BY <1>4 DEF DiskWrite
  <2> HIDE DEF new
  <2>3. WinOk'  BY <1>1, <1>4, <2>1, <2>2 DEF WinOk, Windows
  <2>4. FatNow' = FatNow /\ EntNow' = EntNow
    BY <1>1, <2>1, <2>2 DEF FatNow, EntNow
  <2>5. Solid'
    <3>1. Sound(new) /\ Sound(card)  BY <2>1, NowSound DEF VolumeInv, Solid
    <3> QED  BY <2>2, <3>1 DEF Solid
  <2>6. /\ faults' \in Nat /\ kept' \in Promises /\ last' = last
        /\ \E n \in Names : n = call.n /\ Going(own[n], EntNow[n], n) /\ call' = Idle
    BY <1>1, <1>2, FailedFacts
  <2>7. call'.at # "link"  BY <2>6 DEF Idle
  <2> QED  BY <2>3, <2>4, <2>5, <2>6, <2>7, SameVolume
<1> QED  BY <1>3, <1>4 DEF WindowFails, WriteFails

LEMMA SyncKeeps ==
  ASSUME NEW own, VolumeInv(own), Sync \/ SyncFails, bound' = bound
  PROVE  VolumeInv(own)' /\ FatNow' = FatNow /\ EntNow' = EntNow
<1>1. /\ call.at = "sync" /\ ~win.dirty /\ WinOk /\ card' = card /\ card \in Volumes
      /\ safe' \in {card, safe}
      /\ win' \in {win, [sect |-> NoSect, dirty |-> FALSE, copy |-> <<>>]}
  BY DEF Sync, SyncFails, DiskSync, WinOk, VolumeInv, BaseInv
<1>2. DiskData /\ Solid'
  <2>1. DiskData  BY <1>1 DEF DiskData, WinOk
  <2> QED  BY <2>1, SolidStays DEF VolumeInv
<1>3. WinOk' /\ FatNow' = FatNow /\ EntNow' = EntNow
  <2>1. CASE win' = win  BY <1>1, <1>2, <2>1, WindowStays
  <2>2. CASE win' = [sect |-> NoSect, dirty |-> FALSE, copy |-> <<>>]
    <3>1. card' \in Volumes /\ safe' \in Volumes  BY <1>2 DEF DiskData
    <3>2. FatNow = card.fat /\ EntNow = card.ent  BY <1>1, OnCard
    <3> QED  BY <1>1, <2>2, <3>1, <3>2, NoWindow
  <2> QED  BY <1>1, <2>1, <2>2
<1>4. PICK n \in Names : n = call.n /\ Going(own[n], EntNow[n], n) /\ call' = Idle
  <2>1. CASE Sync
    <3>1. PICK n \in Names : n = call.n  BY <1>1, CallFacts
    <3>2. PICK w, e : w = own[n] /\ e = EntNow[n] /\ EntryOk(w, e)  BY FileFacts DEF FileOk
    <3> QED  BY <2>1, <3>1, <3>2, ClosedGoes DEF Sync
  <2>2. CASE SyncFails  BY <1>1, <2>2, FailedFacts DEF SyncFails
  <2> QED  BY <2>1, <2>2
<1>5. faults' \in Nat /\ kept' \in Promises /\ last' = last
  <2>1. CASE Sync
    <3>1. kept \in Promises /\ faults \in Nat  BY DEF VolumeInv, BaseInv, TypeOK
    <3>2. obj[n].good \in Nat /\ obj[n].fsize \in Nat  BY FileFacts DEF Files
    <3>3. Promise(obj[n]) \in Nat  BY <3>2 DEF Promise, LesserOf
    <3>4. kept' = [kept EXCEPT ![n] = Promise(obj[n])]  BY <1>4, <2>1 DEF Sync
    <3> QED  BY <2>1, <3>1, <3>3, <3>4 DEF Sync, Promises
  <2>2. CASE SyncFails  BY <1>1, <2>2, FailedFacts DEF SyncFails
  <2> QED  BY <2>1, <2>2
<1>6. call'.at # "link"  BY <1>4 DEF Idle
<1> QED  BY <1>2, <1>3, <1>4, <1>5, <1>6, SameVolume

-----------------------------------------------------------------------------
(* The steps that change the chains.                                       *)

Freed(own, n)     == [own EXCEPT ![n] = Tail(own[n])]
Longer(own, n, k) == [own EXCEPT ![n] = Append(own[n], k)]
First(own, n, k)  == [own EXCEPT ![n] = <<k>>]

LEMMA FreedChains ==
  ASSUME NEW own \in Owns, NEW fat \in [Clusters -> Nat], Apart(own), Linked(own, fat),
         NEW n \in Names, own[n] # <<>>, NEW own2, own2 = Freed(own, n)
  PROVE  /\ own2 \in Owns /\ own2[n] = Tail(own[n])
         /\ Apart(own2) /\ Linked(own2, [fat EXCEPT ![own[n][1]] = 0])
<1>1. PICK w \in Seq(Clusters), t \in Seq(Clusters) :
        /\ w = own[n] /\ t = Tail(w) /\ Len(t) = Len(w) - 1 /\ Len(w) \in Nat \ {0}
        /\ w[1] \in Clusters
        /\ \A i \in 1 .. Len(w) - 1 : t[i] = w[i + 1]
  <2>1. PICK w \in Seq(Clusters) : w = own[n]  BY DEF Owns
  <2> QED  BY <2>1, Rest
<1>2. own2 \in Owns /\ own2[n] = t /\ \A m \in Names : m # n => own2[m] = own[m]
  BY <1>1 DEF Owns, Freed
\* Every cluster of the new chains has its place in the old ones.
<1> DEFINE at(m, i) == IF m = n THEN i + 1 ELSE i
<1>3. ASSUME NEW m \in Names, NEW i \in 1 .. Len(own2[m])
      PROVE  /\ at(m, i) \in 1 .. Len(own[m]) /\ own2[m][i] = own[m][at(m, i)]
             /\ i < Len(own2[m]) <=> at(m, i) < Len(own[m])
             /\ i < Len(own2[m]) => own2[m][i + 1] = own[m][at(m, i) + 1]
             /\ own2[m][i] # w[1] /\ i \in Nat
             /\ own2[m][i] \in Clusters
  <2>1. own[m] \in Seq(Clusters) /\ Len(own[m]) \in Nat  BY LenProperties DEF Owns
  <2>2. CASE m = n
    <3>0. own2[m] = t /\ i \in 1 .. Len(t) /\ own[m] = w  BY <1>1, <1>2, <1>3, <2>2
    <3>1. i + 1 \in 1 .. Len(w) /\ t[i] = w[i + 1] /\ i \in 1 .. Len(w) - 1
      BY <1>1, <3>0
    <3>2. i < Len(t) => t[i + 1] = w[(i + 1) + 1]
      <4>1. i < Len(t) => i + 1 \in 1 .. Len(w) - 1  BY <1>1, <3>1
      <4> QED  BY <1>1, <4>1
    <3>3. w[i + 1] # w[1]
      <4>1. 1 \in 1 .. Len(w) /\ i + 1 # 1  BY <1>1, <3>1
      <4> QED  BY <1>1, <3>1, <4>1 DEF Apart
    <3>4. w[i + 1] \in Clusters  BY <1>1, <3>1, ElementOfSeq
    <3>5. at(m, i) = i + 1 /\ i \in Nat  BY <2>2, <3>1
    <3>6. i < Len(t) <=> i + 1 < Len(w)  BY <1>1, <3>5
    <3> HIDE DEF at
    <3> QED  BY <3>0, <3>1, <3>2, <3>3, <3>4, <3>5, <3>6
  <2>3. CASE m # n
    <3>1. own2[m] = own[m]  BY <1>2, <2>3
    <3>2. 1 \in 1 .. Len(own[n])  BY <1>1
    <3>3. own[m][i] # own[n][1]  BY <2>3, <3>1, <3>2, <1>3 DEF Apart
    <3>4. own[m][i] \in Clusters  BY <2>1, <3>1, <1>3, ElementOfSeq
    <3> QED  BY <1>1, <2>1, <2>3, <3>1, <3>3, <3>4, <1>3
  <2> QED  BY <2>2, <2>3
<1>4. Apart(own2)
  <2>1. SUFFICES ASSUME NEW m \in Names, NEW l \in Names, NEW i \in 1 .. Len(own2[m]),
                        NEW j \in 1 .. Len(own2[l]), own2[m][i] = own2[l][j]
                 PROVE  m = l /\ i = j
    BY DEF Apart
  <2>2. PICK x \in 1 .. Len(own[m]), y \in 1 .. Len(own[l]) :
          x = at(m, i) /\ y = at(l, j) /\ own[m][x] = own[l][y] /\ i \in Nat /\ j \in Nat
    <3>1. at(m, i) \in 1 .. Len(own[m]) /\ own2[m][i] = own[m][at(m, i)] /\ i \in Nat
      BY <1>3
    <3>2. at(l, j) \in 1 .. Len(own[l]) /\ own2[l][j] = own[l][at(l, j)] /\ j \in Nat
      BY <1>3
    <3> HIDE DEF at
    <3> QED  BY <2>1, <3>1, <3>2
  <2>3. m = l /\ x = y  BY <2>2 DEF Apart
  <2> QED  BY <2>2, <2>3
<1>5. Linked(own2, [fat EXCEPT ![own[n][1]] = 0])
  <2> DEFINE new == [fat EXCEPT ![own[n][1]] = 0]
  <2>1. SUFFICES ASSUME NEW m \in Names, NEW i \in 1 .. Len(own2[m])
                 PROVE  new[own2[m][i]] = IF i < Len(own2[m]) THEN own2[m][i + 1] ELSE EOC
    BY DEF Linked
  <2>2. new[own2[m][i]] = fat[own2[m][i]]  BY <1>1, <1>3
  <2>3. PICK x \in 1 .. Len(own[m]) :
          /\ own2[m][i] = own[m][x] /\ (i < Len(own2[m]) <=> x < Len(own[m]))
          /\ i < Len(own2[m]) => own2[m][i + 1] = own[m][x + 1]
    BY <1>3
  <2>4. fat[own[m][x]] = IF x < Len(own[m]) THEN own[m][x + 1] ELSE EOC  BY DEF Linked
  <2> QED  BY <2>2, <2>3, <2>4
<1> QED  BY <1>1, <1>2, <1>4, <1>5

LEMMA LongerChains ==
  ASSUME NEW own \in Owns, NEW fat \in [Clusters -> Nat], Apart(own), Linked(own, fat),
         NEW n \in Names, own[n] # <<>>, NEW k \in Clusters, Unowned(own, k), fat[k] = EOC,
         NEW own2, own2 = Longer(own, n, k)
  PROVE  /\ own2 \in Owns /\ own2[n] = Append(own[n], k)
         /\ Apart(own2) /\ Linked(own2, [fat EXCEPT ![own[n][Len(own[n])]] = k])
<1>1. PICK w \in Seq(Clusters), t \in Seq(Clusters) :
        /\ w = own[n] /\ t = Append(w, k) /\ Len(t) = Len(w) + 1 /\ Len(w) \in Nat \ {0}
        /\ t[Len(w) + 1] = k
        /\ \A i \in 1 .. Len(w) : t[i] = w[i] /\ w[i] \in Clusters
  <2>1. PICK w \in Seq(Clusters) : w = own[n]  BY DEF Owns
  <2>2. Len(w) \in Nat \ {0}  BY <2>1, LenProperties, EmptySeq
  <2>3. \A i \in 1 .. Len(w) : w[i] \in Clusters  BY <2>1, ElementOfSeq
  <2> DEFINE t == Append(w, k)
  <2>4. /\ t \in Seq(Clusters) /\ Len(t) = Len(w) + 1 /\ t[Len(w) + 1] = k
        /\ \A i \in 1 .. Len(w) : t[i] = w[i]
    BY Grown
  <2>5. t = Append(w, k)  OBVIOUS
  <2> HIDE DEF t
  <2> QED  BY <2>1, <2>2, <2>3, <2>4, <2>5, ZenonT(40)
<1>2. own2 \in Owns /\ own2[n] = t /\ \A m \in Names : m # n => own2[m] = own[m]
  BY <1>1 DEF Owns, Longer
<1>3. ASSUME NEW m \in Names, NEW i \in 1 .. Len(own2[m])
      PROVE  \/ i \in 1 .. Len(own[m]) /\ own2[m][i] = own[m][i] /\ own2[m][i] # k
             \/ m = n /\ i = Len(w) + 1 /\ own2[m][i] = k
  <2>1. own[m] \in Seq(Clusters) /\ Len(own[m]) \in Nat  BY LenProperties DEF Owns
  <2>2. CASE m = n
    <3>1. own2[m] = t /\ i \in 1 .. Len(t) /\ own[m] = w  BY <1>1, <1>2, <1>3, <2>2
    <3>2. i \in 1 .. Len(w) \/ i = Len(w) + 1  BY <1>1, <3>1
    <3>3. i \in 1 .. Len(w) => t[i] = w[i] /\ w[i] # k
      BY <1>1 DEF Unowned
    <3> QED  BY <1>1, <2>2, <3>1, <3>2, <3>3
  <2>3. CASE m # n
    BY <1>2, <1>3, <2>3 DEF Unowned
  <2> QED  BY <2>2, <2>3
<1>4. Apart(own2)
  <2>1. SUFFICES ASSUME NEW m \in Names, NEW l \in Names, NEW i \in 1 .. Len(own2[m]),
                        NEW j \in 1 .. Len(own2[l]), own2[m][i] = own2[l][j]
                 PROVE  m = l /\ i = j
    BY DEF Apart
  <2>2. /\ \/ i \in 1 .. Len(own[m]) /\ own2[m][i] = own[m][i] /\ own2[m][i] # k
           \/ m = n /\ i = Len(w) + 1 /\ own2[m][i] = k
        /\ \/ j \in 1 .. Len(own[l]) /\ own2[l][j] = own[l][j] /\ own2[l][j] # k
           \/ l = n /\ j = Len(w) + 1 /\ own2[l][j] = k
    BY <1>3
  <2> QED  BY <2>1, <2>2 DEF Apart
<1>5. Linked(own2, [fat EXCEPT ![own[n][Len(own[n])]] = k])
  <2> DEFINE z == own[n][Len(own[n])]
  <2> DEFINE new == [fat EXCEPT ![z] = k]
  <2>1. SUFFICES ASSUME NEW m \in Names, NEW i \in 1 .. Len(own2[m])
                 PROVE  new[own2[m][i]] = IF i < Len(own2[m]) THEN own2[m][i + 1] ELSE EOC
    BY DEF Linked
  <2>2. Len(w) \in 1 .. Len(w) /\ z = w[Len(w)] /\ z \in Clusters  BY <1>1
  <2>3. new[z] = k /\ \A c \in Clusters : c # z => new[c] = fat[c]  BY <2>2
  <2> HIDE DEF new, z
  <2>4. own[m] \in Seq(Clusters) /\ Len(own[m]) \in Nat  BY LenProperties DEF Owns
  <2>5. CASE m = n /\ i = Len(w) + 1
    <3>1. own2[m][i] = k /\ ~(i < Len(own2[m]))  BY <1>1, <1>2, <2>5
    <3>2. k # z  BY <2>2, <1>1 DEF Unowned
    <3> QED  BY <2>3, <3>1, <3>2
  <2>6. CASE m = n /\ i = Len(w)
    <3>1. own2[m][i] = z /\ i < Len(own2[m]) /\ own2[m][i + 1] = k
      <4>1. own2[m] = t  BY <1>2, <2>6
      <4>2. t[Len(w)] = w[Len(w)] /\ Len(w) < Len(t)  BY <1>1, <2>2
      <4> QED  BY <1>1, <2>2, <2>6, <4>1, <4>2
    <3> QED  BY <2>3, <3>1
  <2>7. CASE ~(m = n /\ i \in {Len(w), Len(w) + 1})
    <3>1. /\ i \in 1 .. Len(own[m]) /\ own2[m][i] = own[m][i]
          /\ ~(m = n /\ i = Len(w))
      BY <1>3, <2>7
    <3>2. own[m][i] # z
      BY <1>1, <2>2, <3>1 DEF Apart
    <3>3. own[m][i] \in Clusters  BY <2>4, <3>1, ElementOfSeq
    <3>4. fat[own[m][i]] = IF i < Len(own[m]) THEN own[m][i + 1] ELSE EOC
      BY <3>1 DEF Linked
    <3>5. /\ i < Len(own2[m]) <=> i < Len(own[m])
          /\ i < Len(own[m]) => own2[m][i + 1] = own[m][i + 1]
      <4>1. CASE m # n  BY <1>2, <4>1
      <4>2. CASE m = n
        <5>1. own2[m] = t /\ own[m] = w /\ i \in 1 .. Len(w) /\ i # Len(w)
          BY <1>1, <1>2, <3>1, <4>2
        <5>2. i + 1 \in 1 .. Len(w) /\ i < Len(w) /\ i < Len(t)  BY <1>1, <5>1
        <5> QED  BY <1>1, <5>1, <5>2
      <4> QED  BY <4>1, <4>2
    <3> QED  BY <2>3, <3>1, <3>2, <3>3, <3>4, <3>5
  <2> QED  BY <2>5, <2>6, <2>7
<1> QED  BY <1>1, <1>2, <1>4, <1>5

LEMMA FirstChains ==
  ASSUME NEW own \in Owns, NEW fat \in [Clusters -> Nat], Apart(own), Linked(own, fat),
         NEW n \in Names, NEW k \in Clusters, Unowned(own, k),
         NEW own2, own2 = First(own, n, k)
  PROVE  /\ own2 \in Owns /\ own2[n] = <<k>>
         /\ Apart(own2) /\ Linked(own2, [fat EXCEPT ![k] = EOC])
<1>1. PICK t \in Seq(Clusters) : t = <<k>> /\ Len(t) = 1 /\ t[1] = k
  <2>1. <<k>> \in Seq(Clusters) /\ Len(<<k>>) = 1 /\ <<k>>[1] = k  OBVIOUS
  <2> QED  BY <2>1
<1>2. own2 \in Owns /\ own2[n] = t /\ \A m \in Names : m # n => own2[m] = own[m]
  BY <1>1 DEF Owns, First
<1>3. ASSUME NEW m \in Names, NEW i \in 1 .. Len(own2[m])
      PROVE  \/ m # n /\ own2[m] = own[m] /\ own2[m][i] # k /\ own[m][i] \in Clusters
             \/ m = n /\ i = 1 /\ own2[m][i] = k
  <2>1. own[m] \in Seq(Clusters)  BY DEF Owns
  <2>2. CASE m = n
    <3>1. own2[m] = t /\ i \in 1 .. Len(t)  BY <1>2, <1>3, <2>2
    <3>2. i = 1  BY <1>1, <3>1
    <3> QED  BY <1>1, <2>2, <3>1, <3>2
  <2>3. CASE m # n
    <3>1. own2[m] = own[m] /\ i \in 1 .. Len(own[m])  BY <1>2, <1>3, <2>3
    <3>2. own[m][i] # k  BY <3>1 DEF Unowned
    <3>3. own[m][i] \in Clusters  BY <2>1, <3>1, ElementOfSeq
    <3> QED  BY <2>3, <3>1, <3>2, <3>3
  <2> QED  BY <2>2, <2>3
<1>4. Apart(own2)
  <2>1. SUFFICES ASSUME NEW m \in Names, NEW l \in Names, NEW i \in 1 .. Len(own2[m]),
                        NEW j \in 1 .. Len(own2[l]), own2[m][i] = own2[l][j]
                 PROVE  m = l /\ i = j
    BY DEF Apart
  <2> QED  BY <1>3, <2>1, SMTT(30) DEF Apart
<1>5. Linked(own2, [fat EXCEPT ![k] = EOC])
  <2> DEFINE new == [fat EXCEPT ![k] = EOC]
  <2>1. SUFFICES ASSUME NEW m \in Names, NEW i \in 1 .. Len(own2[m])
                 PROVE  new[own2[m][i]] = IF i < Len(own2[m]) THEN own2[m][i + 1] ELSE EOC
    BY DEF Linked
  <2>2. new[k] = EOC /\ \A c \in Clusters : c # k => new[c] = fat[c]  OBVIOUS
  <2> HIDE DEF new
  <2>3. CASE m = n
    BY <1>1, <1>2, <2>2, <2>3
  <2>4. CASE m # n
    <3>1. own2[m] = own[m] /\ own[m][i] # k /\ own[m][i] \in Clusters  BY <1>3, <2>4
    <3>2. fat[own[m][i]] = IF i < Len(own[m]) THEN own[m][i + 1] ELSE EOC
      BY <3>1 DEF Linked
    <3> QED  BY <2>2, <3>1, <3>2
  <2> QED  BY <2>3, <2>4
<1> QED  BY <1>1, <1>2, <1>4, <1>5

\* A cluster that nothing owns is marked.
LEMMA MarkedChains ==
  ASSUME NEW own \in Owns, NEW fat \in [Clusters -> Nat], Linked(own, fat),
         NEW k \in Clusters, Unowned(own, k), NEW x
  PROVE  Linked(own, [fat EXCEPT ![k] = x])
<1>1. ASSUME NEW m \in Names, NEW i \in 1 .. Len(own[m])
      PROVE  own[m][i] # k /\ own[m][i] \in Clusters
  <2>1. own[m] \in Seq(Clusters)  BY DEF Owns
  <2> QED  BY <2>1, <1>1, ElementOfSeq DEF Unowned
<1> QED  BY <1>1 DEF Linked

\* What is free is in no chain.
LEMMA FreeIsUnowned ==
  ASSUME NEW own, VolumeInv(own), NEW k \in Clusters, FatNow[k] = 0
  PROVE  Unowned(own, k)
<1>1. SUFFICES ASSUME NEW n \in Names, NEW j \in 1 .. Len(own[n]), own[n][j] = k
               PROVE  FALSE
  BY DEF Unowned
<1>2. /\ FatNow[own[n][j]] = IF j < Len(own[n]) THEN own[n][j + 1] ELSE EOC
      /\ FatNow[own[n][j]] \in Clusters <=> j < Len(own[n])
  BY LinkedAt
<1>3. 0 \notin Clusters /\ EOC # 0  BY FatAssumption DEF Clusters, EOC
<1> QED  BY <1>1, <1>2, <1>3

LEMMA ChangeKeeps ==
  ASSUME NEW own, VolumeInv(own), NEW n \in Names, NEW w \in Seq(Clusters),
         NEW e \in Entries, NEW own2, own2 = [own EXCEPT ![n] = w],
         call.at = "idle" \/ call.n = n,
         WinOk', EntNow' = [EntNow EXCEPT ![n] = e],
         Apart(own2), Linked(own2, FatNow'), Going(w, e, n),
         call'.at = "link" => FatNow'[call'.k] = EOC /\ Unowned(own2, call'.k),
         DiskData, last' \in Nat, UNCHANGED <<kept, faults>>, bound' = bound
  PROVE  VolumeInv(own2)'
<1>1. ChainInv(own2)' /\ own2 \in Owns /\ obj' \in [Names -> Files] /\ call' \in Calling
  BY StepKeeps DEF VolumeInv
<1>2. Solid'  BY SolidStays DEF VolumeInv
<1>3. kept' \in Promises /\ faults' \in Nat /\ bound' \in Bounds
  BY DEF VolumeInv, BaseInv, TypeOK
<1> QED  BY <1>1, <1>2, <1>3 DEF VolumeInv, BaseInv, TypeOK

-----------------------------------------------------------------------------
(* The window is moved.                                                    *)

LEMMA SameChains ==
  ASSUME NEW own, VolumeInv(own), WinOk', FatNow' = FatNow, EntNow' = EntNow, Solid',
         obj' = obj, call' = call, last' = last, kept' = kept, faults' = faults, bound' = bound
  PROVE  VolumeInv(own)'
<1>1. ChainInv(own)'
  BY DEF VolumeInv, ChainInv, Busy, Linking, Apart, Linked, Unowned
<1>2. TypeOK'  BY DEF VolumeInv, BaseInv, TypeOK
<1> QED  BY <1>1, <1>2 DEF VolumeInv, BaseInv, Owns

LEMMA FlushWindowKeeps ==
  ASSUME NEW own, VolumeInv(own), FlushWindow, bound' = bound
  PROVE  VolumeInv(own)' /\ FatNow' = FatNow /\ EntNow' = EntNow
<1>1. WinOk  BY DEF VolumeInv, BaseInv
<1>2. /\ WinOk' /\ FatNow' = FatNow /\ EntNow' = EntNow
      /\ card'.fat = FatNow /\ card'.ent = EntNow /\ safe' = card
  BY <1>1, Flushed
<1>3. Solid'
  <2>1. Sound(card)  BY DEF VolumeInv, Solid
  <2>2. Sound(card')  BY <1>2, NowSound
  <2> QED  BY <1>2, <2>1, <2>2 DEF Solid
<1> QED  BY <1>2, <1>3, SameChains DEF FlushWindow

LEMMA LoadWindowKeeps ==
  ASSUME NEW own, VolumeInv(own), LoadWindow, bound' = bound
  PROVE  VolumeInv(own)' /\ FatNow' = FatNow /\ EntNow' = EntNow
<1>1. WinOk /\ call \in Calling  BY DEF VolumeInv, BaseInv, TypeOK
<1>2. /\ call.at = "free" => call.c \in Clusters
      /\ call.at = "scan" => call.k \in Clusters
  <2>1. SUFFICES ASSUME call.at \in {"free", "scan"}
                 PROVE  /\ call.at = "free" => call.c \in Clusters
                        /\ call.at = "scan" => call.k \in Clusters
    OBVIOUS
  <2>2. PICK n \in Names : n = call.n /\ PlaceOk(own[n], EntNow[n], obj[n], call)
    BY <2>1, CallFacts
  <2>3. PICK w \in Seq(Clusters) : w = own[n]  BY FileFacts
  <2>4. call.at = "free" => w # <<>> /\ call.c = w[1]
    BY <2>2, <2>3 DEF PlaceOk, FreeOk
  <2> QED  BY <2>2, <2>4, Rest DEF PlaceOk
<1>3. Need \in {NoSect, win.sect, DirSect} \cup {FatSect(c) : c \in Clusters}
  BY <1>1, <1>2, NeedForm
<1>4. WinOk' /\ FatNow' = FatNow /\ EntNow' = EntNow  BY <1>1, <1>3, Loaded
<1>5. Solid'
  BY DEF LoadWindow, DiskRead, Solid, VolumeInv
<1> QED  BY <1>4, <1>5, SameChains DEF LoadWindow

-----------------------------------------------------------------------------
(* Entries and chains are written.                                         *)

LEMMA FindCreatesKeeps ==
  ASSUME NEW own, VolumeInv(own), FindCreates, bound' = bound
  PROVE  /\ VolumeInv(own)' /\ FatNow' = FatNow
         /\ EntNow' = [EntNow EXCEPT ![call.n] = NewEntry]
<1>1. win.sect = DirSect /\ win.copy = EntNow /\ call.at = "find"
  BY DirHere DEF FindCreates
<1>2. PICK n \in Names : n = call.n /\ PlaceOk(own[n], EntNow[n], obj[n], call)
  BY <1>1, CallFacts
<1>3. PICK w \in Seq(Clusters), e \in Entries, o \in Files :
        w = own[n] /\ e = EntNow[n] /\ o = obj[n]
  BY FileFacts
<1>4. /\ FileOk(w, e, o) /\ WinOk /\ call \in Calling /\ obj \in [Names -> Files]
      /\ call.op = "open" /\ ~o.open /\ kept \in Promises /\ last \in Nat
  BY <1>1, <1>2, <1>3, FileFacts DEF PlaceOk, VolumeInv, BaseInv, TypeOK
<1>5. DiskData  BY <1>4, DataSteps DEF FindCreates
<1>6. NewEntry \in Entries /\ NewEntry.start = 0 /\ NewEntry.size = 0 /\ NewEntry.used
  BY DEF NewEntry, Entries
<1>7. WinOk' /\ FatNow' = FatNow /\ EntNow' = [EntNow EXCEPT ![n] = NewEntry]
  BY <1>1, <1>2, <1>4, <1>5, <1>6, PutEntry DEF FindCreates
<1>8. EntryOk(w, NewEntry)  BY <1>6, Constants DEF EntryOk, LiesOn
<1>9. o = Closed /\ o.sclust = 0 /\ o.fsize = 0  BY <1>4 DEF FileOk, Closed
<1>10. Going(w, NewEntry, n) /\ call'.at # "link"
  <2>1. CASE e.start = 0
    <3>1. Return(Opened(NewEntry, TRUE))
      <4>1. win.copy[call.n].start = 0  BY <1>1, <1>2, <1>3, <2>1
      <4> QED  BY <4>1, Constants DEF FindCreates
    <3>2. /\ Opened(NewEntry, TRUE) \in Files /\ FileOk(w, NewEntry, Opened(NewEntry, TRUE))
          /\ Resting(w, Opened(NewEntry, TRUE))
      BY <1>2, <1>4, <1>6, <1>8, OpenedForm
    <3> QED  BY <1>2, <3>1, <3>2, Records DEF Return, Going
  <2>2. CASE e.start \in Clusters
    <3>1. e.start # 0  BY <2>2, Constants
    <3> DEFINE cl == [call EXCEPT !.at = "free", !.c = e.start, !.k = e.start]
    <3>2. call' = cl /\ obj' = obj
      BY <1>1, <1>2, <1>3, <2>2, <3>1 DEF FindCreates
    <3>3. /\ cl \in Calling /\ cl.at = "free" /\ cl.c = e.start /\ cl.k = e.start
          /\ cl.n = n /\ cl.op = "open"
      BY <1>2, <1>4, <2>2, Constants DEF Calling, AtPlaces, Entries
    <3> HIDE DEF cl
    <3>4. w # <<>> /\ w[1] = e.start  BY <1>4, <2>2 DEF FileOk, EntryOk, LiesOn
    <3>5. FreeOk(w, NewEntry, o, cl)  BY <1>4, <1>6, <2>2, <3>3, <3>4 DEF FreeOk
    <3>6. PlaceOk(w, NewEntry, o, cl)  BY <3>3, <3>5 DEF PlaceOk
    <3>7. FileOk(w, NewEntry, o)  BY <1>8, <1>9, <1>4, Constants DEF FileOk, LiesOn
    <3>8. obj' = [obj EXCEPT ![n] = o]  BY <1>3, <1>4, <3>2
    <3> QED  BY <3>2, <3>3, <3>6, <3>7, <3>8 DEF Going
  <2>3. CASE e.start # 0 /\ e.start \notin Clusters
    <3>1. Return(Closed)
      BY <1>1, <1>2, <1>3, <2>3 DEF FindCreates
    <3>2. Going(w, NewEntry, n) /\ call' = Idle  BY <1>2, <1>8, <3>1, ClosedGoes
    <3> QED  BY <3>2, Records
  <2> QED  BY <2>1, <2>2, <2>3
<1>11. own = [own EXCEPT ![n] = w]  BY <1>3 DEF VolumeInv, Owns
<1>12. Apart(own) /\ Linked(own, FatNow')  BY <1>7 DEF VolumeInv, ChainInv
<1>13. last' \in Nat /\ UNCHANGED <<kept, faults>>  BY <1>4 DEF FindCreates
<1>14. VolumeInv(own)'
  BY <1>2, <1>5, <1>6, <1>7, <1>10, <1>11, <1>12, <1>13, ChangeKeeps
<1> QED  BY <1>2, <1>7, <1>14

LEMMA EntryKeeps ==
  ASSUME NEW own, VolumeInv(own), Entry, bound' = bound
  PROVE  /\ VolumeInv(own)' /\ FatNow' = FatNow
         /\ EntNow' = [EntNow EXCEPT ![call.n] =
                         [used |-> TRUE, start |-> obj[call.n].sclust, size |-> obj[call.n].fsize]]
<1>1. win.sect = DirSect /\ call.at = "entry"
  BY DirHere DEF Entry
<1>2. PICK n \in Names : n = call.n /\ PlaceOk(own[n], EntNow[n], obj[n], call)
  BY <1>1, CallFacts
<1>3. PICK w \in Seq(Clusters), e \in Entries, o \in Files :
        w = own[n] /\ e = EntNow[n] /\ o = obj[n]
  BY FileFacts
<1>4. /\ FileOk(w, e, o) /\ WinOk /\ call \in Calling
      /\ call.op = "close" /\ o.open /\ last \in Nat
  BY <1>1, <1>2, <1>3, FileFacts DEF PlaceOk
<1>5. DiskData  BY <1>4, DataSteps DEF Entry
<1>6. PICK x \in Entries : /\ x = [used |-> TRUE, start |-> o.sclust, size |-> o.fsize]
                           /\ x.used /\ x.start = o.sclust /\ x.size = o.fsize
  <2> DEFINE y == [used |-> TRUE, start |-> o.sclust, size |-> o.fsize]
  <2>1. y \in Entries /\ y.used /\ y.start = o.sclust /\ y.size = o.fsize
    BY DEF Entries, Files
  <2> QED  BY <2>1
<1>7. WinOk' /\ FatNow' = FatNow /\ EntNow' = [EntNow EXCEPT ![n] = x]
  BY <1>1, <1>2, <1>3, <1>4, <1>5, <1>6, PutEntry DEF Entry
<1>8. Going(w, x, n) /\ call'.at # "link"
  <2> DEFINE p == [o EXCEPT !.written = FALSE]
  <2> DEFINE cl == [call EXCEPT !.at = "sync"]
  <2>1. Goes(p, cl)  BY <1>2, <1>3 DEF Entry
  <2>2. /\ p \in Files /\ p.open /\ p.sclust = o.sclust /\ p.fsize = o.fsize
    BY <1>4 DEF Files
  <2>3. cl \in Calling /\ cl.at = "sync" /\ cl.n = n /\ cl.op = "close"
    BY <1>2, <1>4 DEF Calling, AtPlaces
  <2>4. obj' = [obj EXCEPT ![n] = p] /\ call' = cl  BY <2>1, <2>3 DEF Goes
  <2> HIDE DEF p, cl
  <2>5. FileOk(w, x, p)  BY <1>4, <1>6, <2>2 DEF FileOk, EntryOk
  <2>6. PlaceOk(w, x, p, cl)  BY <2>2, <2>3 DEF PlaceOk
  <2> QED  BY <2>2, <2>3, <2>4, <2>5, <2>6 DEF Going
<1>11. own = [own EXCEPT ![n] = w]  BY <1>3 DEF VolumeInv, Owns
<1>12. Apart(own) /\ Linked(own, FatNow')  BY <1>7 DEF VolumeInv, ChainInv
<1>13. last' \in Nat /\ UNCHANGED <<kept, faults>>  BY <1>4 DEF Entry
<1>14. VolumeInv(own)'
  BY <1>2, <1>5, <1>6, <1>7, <1>8, <1>11, <1>12, <1>13, ChangeKeeps
<1> QED  BY <1>2, <1>3, <1>6, <1>7, <1>14

LEMMA FreeKeeps ==
  ASSUME NEW own, VolumeInv(own), Free, bound' = bound,
         NEW own2, own2 = Freed(own, call.n)
  PROVE  /\ VolumeInv(own2)' /\ EntNow' = EntNow
         /\ call.c \in Clusters /\ own[call.n] # <<>> /\ call.c = own[call.n][1]
         /\ FatNow' = [FatNow EXCEPT ![call.c] = 0]
         /\ FatNow[call.c] = IF Len(own[call.n]) = 1 THEN EOC ELSE own[call.n][2]
<1>1. call.at = "free" /\ win.sect = FatSect(call.c)  BY DEF Free, InWindow, Need
<1>2. PICK n \in Names : n = call.n /\ PlaceOk(own[n], EntNow[n], obj[n], call)
  BY <1>1, CallFacts
<1>3. PICK w \in Seq(Clusters), e \in Entries, o \in Files :
        w = own[n] /\ e = EntNow[n] /\ o = obj[n]
  BY FileFacts
<1>4. /\ FileOk(w, e, o) /\ WinOk /\ call \in Calling /\ obj \in [Names -> Files]
      /\ FreeOk(w, e, o, call) /\ FatNow \in [Clusters -> Nat] /\ EntNow \in [Names -> Entries]
  BY <1>1, <1>2, <1>3, FileFacts DEF PlaceOk
<1>5. /\ call.op = "open" /\ ~o.open /\ e.start = 0 /\ w # <<>> /\ call.c = w[1]
      /\ call.k \in Clusters
  BY <1>4 DEF FreeOk
<1>6. PICK c \in Clusters, t \in Seq(Clusters) :
        /\ c = call.c /\ t = Tail(w) /\ Len(t) = Len(w) - 1 /\ Len(w) \in Nat \ {0}
        /\ \A i \in 1 .. Len(w) - 1 : t[i] = w[i + 1]
        /\ t = <<>> <=> Len(w) = 1
  BY <1>5, Rest
<1>7. /\ FatNow[c] = (IF 1 < Len(w) THEN w[2] ELSE EOC)
      /\ FatNow[c] \in Clusters <=> 1 < Len(w)
  <2>1. 1 \in 1 .. Len(w) /\ 1 + 1 = 2  BY <1>6
  <2> QED  BY <1>3, <1>5, <1>6, <2>1, LinkedAt
<1>8. win.copy[call.c] = FatNow[c] /\ FatNow[c] # 0
  <2>1. win.copy[c] = FatNow[c]  BY <1>1, <1>6, FatHere
  <2>2. EOC # 0 /\ 0 \notin Clusters  BY FatAssumption DEF EOC, Clusters
  <2> QED  BY <1>6, <1>7, <2>1, <2>2
<1>9. PutWin(c, 0) /\ Outdate(c)  BY <1>6, <1>8 DEF Free
<1>10. DiskData  BY <1>4, <1>9, DataSteps
<1>11. WinOk' /\ FatNow' = [FatNow EXCEPT ![c] = 0] /\ EntNow' = EntNow
  BY <1>1, <1>4, <1>6, <1>9, <1>10, PutFat
<1>12. own \in Owns /\ Apart(own) /\ Linked(own, FatNow)  BY DEF VolumeInv, ChainInv
<1>13. Apart(own2) /\ Linked(own2, FatNow')
  <2>1. /\ own[n] # <<>> /\ own2 = Freed(own, n)
        /\ FatNow' = [FatNow EXCEPT ![own[n][1]] = 0]
    BY <1>2, <1>3, <1>5, <1>6, <1>11
  <2> QED  BY <1>4, <1>12, <2>1, FreedChains
<1>14. o = Closed /\ o.sclust = 0 /\ o.fsize = 0  BY <1>4, <1>5 DEF FileOk, Closed
<1>15. FileOk(t, e, o)
  BY <1>4, <1>5, <1>14, Constants DEF FileOk, EntryOk, LiesOn
<1>16. obj' = [obj EXCEPT ![n] = o]  BY <1>3, <1>4 DEF Free
<1>17. Going(t, e, n) /\ call'.at # "link" /\ last' \in Nat
  <2>1. CASE FatNow[c] \in Clusters
    <3> DEFINE cl == [call EXCEPT !.c = FatNow[c]]
    <3>1. call' = cl /\ last' = last  BY <1>8, <2>1 DEF Free
    <3>2. /\ cl \in Calling /\ cl.at = "free" /\ cl.c = FatNow[c] /\ cl.k = call.k
          /\ cl.n = n /\ cl.op = "open"
      BY <1>1, <1>2, <1>4, <1>5, <2>1, Constants DEF Calling
    <3> HIDE DEF cl
    <3>3. t # <<>> /\ cl.c = t[1]
      <4>1. 1 < Len(w) /\ 1 \in 1 .. Len(w) - 1 /\ FatNow[c] = w[2] /\ 1 + 1 = 2
        BY <1>6, <1>7, <2>1
      <4>2. t[1] = w[2]  BY <1>6, <4>1
      <4> QED  BY <1>6, <3>2, <4>1, <4>2
    <3>4. FreeOk(t, e, o, cl)  BY <1>5, <3>2, <3>3 DEF FreeOk
    <3>5. PlaceOk(t, e, o, cl)  BY <3>2, <3>4 DEF PlaceOk
    <3>6. last \in Nat  BY FileFacts
    <3> QED  BY <1>15, <1>16, <3>1, <3>2, <3>5, <3>6 DEF Going
  <2>2. CASE FatNow[c] \notin Clusters
    <3> DEFINE cl == [call EXCEPT !.at = "back"]
    <3>1. call' = cl /\ last' = call.k - 1  BY <1>8, <2>2 DEF Free
    <3>2. cl \in Calling /\ cl.at = "back" /\ cl.n = n /\ cl.op = "open"
      BY <1>2, <1>4, <1>5 DEF Calling, AtPlaces
    <3> HIDE DEF cl
    <3>3. PlaceOk(t, e, o, cl)  BY <1>5, <3>2 DEF PlaceOk
    <3>4. call.k - 1 \in Nat  BY <1>5, FatAssumption DEF Clusters
    <3> QED  BY <1>15, <1>16, <3>1, <3>2, <3>3, <3>4 DEF Going
  <2> QED  BY <2>1, <2>2
<1>18. own2 = [own EXCEPT ![n] = t]  BY <1>2, <1>3, <1>6 DEF Freed
<1>19. EntNow' = [EntNow EXCEPT ![n] = e] /\ UNCHANGED <<kept, faults>>
  BY <1>3, <1>4, <1>11 DEF Free
<1>20. VolumeInv(own2)'
  BY <1>2, <1>10, <1>11, <1>13, <1>17, <1>18, <1>19, ChangeKeeps
<1> QED  BY <1>2, <1>3, <1>5, <1>6, <1>7, <1>11, <1>20

\* The first cluster of a file is found.
LEMMA ScanFindsFirst ==
  ASSUME NEW own, VolumeInv(own), ScanFinds, call.c = 0, bound' = bound,
         NEW own2, own2 = First(own, call.n, call.k)
  PROVE  /\ VolumeInv(own2)' /\ EntNow' = EntNow /\ call.k \in Clusters
         /\ FatNow' = [FatNow EXCEPT ![call.k] = EOC] /\ Unowned(own, call.k)
<1>1. call.at = "scan" /\ win.sect = FatSect(call.k)  BY DEF ScanFinds, InWindow, Need
<1>2. PICK n \in Names : n = call.n /\ PlaceOk(own[n], EntNow[n], obj[n], call)
  BY <1>1, CallFacts
<1>3. PICK w \in Seq(Clusters), e \in Entries, o \in Files :
        w = own[n] /\ e = EntNow[n] /\ o = obj[n]
  BY FileFacts
<1>4. /\ FileOk(w, e, o) /\ WinOk /\ call \in Calling /\ obj \in [Names -> Files]
      /\ FirstOk(o, call) /\ FatNow \in [Clusters -> Nat] /\ EntNow \in [Names -> Entries]
  BY <1>1, <1>2, <1>3, FileFacts DEF PlaceOk
<1>5. PICK k \in Clusters : k = call.k  BY <1>1, <1>2 DEF PlaceOk
<1>6. FatNow[k] = 0 /\ PutWin(k, EOC) /\ Outdate(k) /\ last' = k /\ ChainReturns(k)
  <2>1. win.copy[k] = FatNow[k]  BY <1>1, <1>5, FatHere
  <2> QED  BY <1>5, <2>1 DEF ScanFinds
<1>7. Unowned(own, k)  BY <1>6, FreeIsUnowned
<1>8. DiskData  BY <1>4, <1>6, DataSteps
<1>9. WinOk' /\ FatNow' = [FatNow EXCEPT ![k] = EOC] /\ EntNow' = EntNow
  BY <1>1, <1>4, <1>5, <1>6, <1>8, Constants, PutFat
<1>10. own \in Owns /\ Apart(own) /\ Linked(own, FatNow)  BY DEF VolumeInv, ChainInv
<1>11. own2 = First(own, n, k)  BY <1>2, <1>5
<1>12. PICK t \in Seq(Clusters) : t = <<k>> /\ t # <<>> /\ t[1] = k
  <2>1. <<k>> \in Seq(Clusters) /\ <<k>> # <<>> /\ <<k>>[1] = k  OBVIOUS
  <2> QED  BY <2>1
<1>13. Apart(own2) /\ Linked(own2, FatNow')
  <2>1. Apart(own2) /\ Linked(own2, [FatNow EXCEPT ![k] = EOC])
    BY <1>4, <1>7, <1>10, <1>11, FirstChains
  <2> QED  BY <1>9, <2>1
<1>14. FileOk(t, e, o)
  <2>1. /\ o.sclust = 0 /\ o.fsize = 0 /\ e.start = 0 /\ e.size = 0 /\ o.open
        /\ ~e.used => e.start = 0
    BY <1>4 DEF FileOk, EntryOk, LiesOn, FirstOk
  <2> QED  BY <2>1, Constants DEF FileOk, EntryOk, LiesOn
<1>15. Going(t, e, n) /\ call'.at # "link"
  BY <1>2, <1>3, <1>4, <1>6, <1>12, <1>14, FirstGoes
<1>16. own2 = [own EXCEPT ![n] = t]  BY <1>11, <1>12 DEF First
<1>17. EntNow' = [EntNow EXCEPT ![n] = e] /\ UNCHANGED <<kept, faults>> /\ last' \in Nat
  BY <1>3, <1>4, <1>6, <1>9, Constants DEF ScanFinds
<1>18. VolumeInv(own2)'
  BY <1>2, <1>8, <1>9, <1>13, <1>15, <1>16, <1>17, ChangeKeeps
<1> QED  BY <1>5, <1>7, <1>9, <1>18

\* One that will follow the last one is found.
LEMMA ScanFindsNext ==
  ASSUME NEW own, VolumeInv(own), ScanFinds, call.c # 0, bound' = bound
  PROVE  /\ VolumeInv(own)' /\ EntNow' = EntNow /\ call.k \in Clusters
         /\ FatNow' = [FatNow EXCEPT ![call.k] = EOC] /\ Unowned(own, call.k)
<1>1. call.at = "scan" /\ win.sect = FatSect(call.k)  BY DEF ScanFinds, InWindow, Need
<1>2. PICK n \in Names : n = call.n /\ PlaceOk(own[n], EntNow[n], obj[n], call)
  BY <1>1, CallFacts
<1>3. PICK w \in Seq(Clusters), e \in Entries, o \in Files :
        w = own[n] /\ e = EntNow[n] /\ o = obj[n]
  BY FileFacts
<1>4. /\ FileOk(w, e, o) /\ WinOk /\ call \in Calling /\ obj \in [Names -> Files]
      /\ AfterOk(w, o, call) /\ FatNow \in [Clusters -> Nat] /\ EntNow \in [Names -> Entries]
      /\ last \in Nat
  BY <1>1, <1>2, <1>3, FileFacts DEF PlaceOk
<1>5. PICK k \in Clusters : k = call.k  BY <1>1, <1>2 DEF PlaceOk
<1>6. FatNow[k] = 0 /\ PutWin(k, EOC) /\ Outdate(k)
  <2>1. win.copy[k] = FatNow[k]  BY <1>1, <1>5, FatHere
  <2> QED  BY <1>5, <2>1 DEF ScanFinds
<1>7. Unowned(own, k)  BY <1>6, FreeIsUnowned
<1>8. DiskData  BY <1>4, <1>6, DataSteps
<1>9. WinOk' /\ FatNow' = [FatNow EXCEPT ![k] = EOC] /\ EntNow' = EntNow
  BY <1>1, <1>4, <1>5, <1>6, <1>8, Constants, PutFat
<1>10. own \in Owns /\ Apart(own) /\ Linked(own, FatNow)  BY DEF VolumeInv, ChainInv
<1>11. Linked(own, FatNow')  BY <1>4, <1>7, <1>9, <1>10, MarkedChains
<1> DEFINE cl == [call EXCEPT !.at = "link"]
<1>12. call' = cl /\ obj' = obj /\ last' = last  BY DEF ScanFinds
<1>13. /\ cl \in Calling /\ cl.at = "link" /\ cl.n = n /\ cl.op = call.op /\ cl.c = call.c
       /\ cl.k = k /\ cl.left = call.left
  BY <1>2, <1>4, <1>5 DEF Calling, AtPlaces
<1> HIDE DEF cl
<1>14. AfterOk(w, o, cl)  BY <1>4, <1>13 DEF AfterOk, InOk
<1>15. PlaceOk(w, e, o, cl)  BY <1>13, <1>14 DEF PlaceOk
<1>16. Going(w, e, n)
  <2>1. obj' = [obj EXCEPT ![n] = o]  BY <1>3, <1>4, <1>12
  <2> QED  BY <1>4, <1>12, <1>13, <1>15, <2>1 DEF Going
<1>17. own = [own EXCEPT ![n] = w]  BY <1>3, <1>10 DEF Owns
<1>18. EntNow' = [EntNow EXCEPT ![n] = e] /\ UNCHANGED <<kept, faults>> /\ last' \in Nat
  BY <1>3, <1>4, <1>9, <1>12 DEF ScanFinds
<1>19. call'.k = k /\ FatNow'[k] = EOC  BY <1>4, <1>9, <1>12, <1>13
<1>20. VolumeInv(own)'
  BY <1>2, <1>7, <1>8, <1>9, <1>10, <1>11, <1>16, <1>17, <1>18, <1>19, ChangeKeeps
<1> QED  BY <1>5, <1>7, <1>9, <1>20

\* It follows it now.
LEMMA LinkKeeps ==
  ASSUME NEW own, VolumeInv(own), Link, bound' = bound,
         NEW own2, own2 = Longer(own, call.n, call.k)
  PROVE  /\ VolumeInv(own2)' /\ EntNow' = EntNow
         /\ call.c \in Clusters /\ call.k \in Clusters
         /\ FatNow' = [FatNow EXCEPT ![call.c] = call.k] /\ Unowned(own, call.k)
<1>1. call.at = "link" /\ win.sect = Need /\ PutWin(call.c, call.k) /\ last' = call.k
      /\ ChainReturns(call.k)
  BY DEF Link, InWindow
<1>2. PICK n \in Names : n = call.n /\ PlaceOk(own[n], EntNow[n], obj[n], call)
  BY <1>1, CallFacts
<1>3. PICK w \in Seq(Clusters), e \in Entries, o \in Files :
        w = own[n] /\ e = EntNow[n] /\ o = obj[n]
  BY FileFacts
<1>4. /\ FileOk(w, e, o) /\ WinOk /\ call \in Calling /\ obj \in [Names -> Files]
      /\ AfterOk(w, o, call) /\ FatNow \in [Clusters -> Nat] /\ EntNow \in [Names -> Entries]
      /\ call.k \in Clusters
  BY <1>1, <1>2, <1>3, FileFacts DEF PlaceOk
<1>5. PICK k \in Clusters : k = call.k /\ FatNow[k] = EOC /\ Unowned(own, k)
  BY <1>1, <1>4 DEF VolumeInv, ChainInv, Linking
<1>6. /\ w # <<>> /\ call.c = w[Len(w)] /\ InOk(w, o, call) /\ call.op \in {"write", "seek"}
  BY <1>4 DEF AfterOk
<1>7. Len(w) \in 1 .. Len(w) /\ Len(w) \in Nat  BY <1>6, LenProperties, EmptySeq
<1>8. PICK c \in Clusters : c = call.c /\ c = w[Len(w)]  BY <1>6, <1>7, ElementOfSeq
<1>9. win.sect = FatSect(c)  BY <1>1, <1>8 DEF Need
<1>10. DiskData  BY <1>4, DataSteps DEF Link
<1>11. k \in Nat /\ PutWin(c, k)  BY <1>1, <1>5, <1>8, Constants
<1>12. WinOk' /\ FatNow' = [FatNow EXCEPT ![c] = k] /\ EntNow' = EntNow
  BY <1>4, <1>9, <1>10, <1>11, PutFat
<1>13. own \in Owns /\ Apart(own) /\ Linked(own, FatNow)  BY DEF VolumeInv, ChainInv
<1>14. own2 = Longer(own, n, k)  BY <1>2, <1>5
<1>15. Apart(own2) /\ Linked(own2, FatNow')
  <2>1. own[n] # <<>> /\ FatNow' = [FatNow EXCEPT ![own[n][Len(own[n])]] = k]
    BY <1>3, <1>6, <1>8, <1>12
  <2>2. PICK fat \in [Clusters -> Nat] : fat = FatNow /\ Linked(own, fat) /\ fat[k] = EOC
    BY <1>4, <1>5, <1>13
  <2>3. Apart(own2) /\ Linked(own2, [fat EXCEPT ![own[n][Len(own[n])]] = k])
    BY <1>5, <1>13, <1>14, <2>1, <2>2, LongerChains, ZenonT(40)
  <2> QED  BY <2>1, <2>2, <2>3
<1>16. PICK t \in Seq(Clusters) :
         /\ t = Append(w, k) /\ Len(t) = Len(w) + 1 /\ t[Len(w) + 1] = k
         /\ \A i \in 1 .. Len(w) : t[i] = w[i]
  <2> DEFINE x == Append(w, k)
  <2>1. /\ x \in Seq(Clusters) /\ Len(x) = Len(w) + 1 /\ x[Len(w) + 1] = k
        /\ \A i \in 1 .. Len(w) : x[i] = w[i]
    BY Grown
  <2>2. x = Append(w, k)  OBVIOUS
  <2> HIDE DEF x
  <2> QED  BY <2>1, <2>2
<1>17. FileOk(t, e, o)
  <2>1. \A start, size : size \in Nat /\ LiesOn(w, start, size) => LiesOn(t, start, size)
    BY <1>6, <1>16, GrownPlaces
  <2>2. o.fsize \in Nat /\ e.size \in Nat  BY DEF Files, Entries
  <2> QED  BY <1>4, <2>1, <2>2 DEF FileOk, EntryOk
<1>18. InOk(t, o, call)
  <2>1. /\ \A j, p : In(w, j, p) => In(t, j, p) /\ t[j] = w[j]
        /\ \A j, p : Begins(w, j, p) => Begins(t, j, p) /\ t[j] = w[j]
    BY <1>16, GrownPlaces
  <2>2. PtrOk(w, o) => PtrOk(t, o)  BY <2>1 DEF PtrOk, In
  <2>3. SeekOk(w, o) => SeekOk(t, o)  BY <2>1 DEF SeekOk, StartOk, Begins
  <2> QED  BY <1>6, <2>2, <2>3 DEF InOk
<1>19. ASSUME NEW j \in 1 .. Len(t), t[j] = call.c
       PROVE  j < Len(t) /\ t[j + 1] = k
  <2>1. CASE j \in 1 .. Len(w)
    <3>1. w[j] = w[Len(w)]  BY <1>8, <1>16, <1>19, <2>1
    <3>2. j = Len(w)  BY <1>3, <1>7, <1>13, <2>1, <3>1 DEF Apart
    <3> QED  BY <1>7, <1>16, <3>2
  <2>2. CASE j \notin 1 .. Len(w)
    <3>1. j = Len(w) + 1  BY <1>7, <1>16, <2>2
    <3>2. k = w[Len(w)]  BY <1>8, <1>16, <1>19, <3>1
    <3> QED  BY <1>3, <1>5, <1>7, <3>2 DEF Unowned
  <2> QED  BY <2>1, <2>2
<1>20. Going(t, e, n) /\ call'.at # "link"
  BY <1>1, <1>2, <1>3, <1>4, <1>5, <1>6, <1>8, <1>17, <1>18, <1>19, NextGoes
<1>21. own2 = [own EXCEPT ![n] = t]  BY <1>3, <1>14, <1>16 DEF Longer
<1>22. EntNow' = [EntNow EXCEPT ![n] = e] /\ UNCHANGED <<kept, faults>> /\ last' \in Nat
  BY <1>1, <1>3, <1>4, <1>5, <1>11, <1>12 DEF Link
<1>23. VolumeInv(own2)'
  BY <1>2, <1>10, <1>12, <1>15, <1>20, <1>21, <1>22, ChangeKeeps
<1> QED  BY <1>5, <1>8, <1>12, <1>23

-----------------------------------------------------------------------------
(* From the start, and from a restart.                                     *)

LEMMA MountedKeeps ==
  ASSUME NEW cd \in Volumes, Sound(cd),
         card' = cd, safe' = cd,
         win' = [sect |-> NoSect, dirty |-> FALSE, copy |-> <<>>],
         obj' = [n \in Names |-> Closed], call' = Idle,
         last' \in Nat, faults' \in Nat, kept' \in Promises, bound' \in Bounds
  PROVE  \E own2 \in Owns :
           /\ VolumeInv(own2)'
           /\ Apart(own2) /\ Linked(own2, cd.fat)
           /\ \A n \in Names : EntryOk(own2[n], cd.ent[n])
<1>1. PICK own2 \in Owns : /\ Apart(own2) /\ Linked(own2, cd.fat)
                           /\ \A n \in Names : EntryOk(own2[n], cd.ent[n])
  BY DEF Sound
<1>2. WinOk' /\ FatNow' = cd.fat /\ EntNow' = cd.ent
  <2>1. card' \in Volumes /\ safe' \in Volumes  OBVIOUS
  <2>2. WinOk' /\ FatNow' = card'.fat /\ EntNow' = card'.ent  BY <2>1, NoWindow
  <2> QED  BY <2>2
<1>3. /\ obj' \in [Names -> Files] /\ call' \in Calling /\ call'.at = "idle"
      /\ \A n \in Names : obj'[n] = Closed /\ ~obj'[n].open
  BY Records
<1>4. Closed.sclust = 0 /\ Closed.fsize = 0 /\ ~Closed.open  BY DEF Closed
<1>5. \A n \in Names : FileOk(own2[n], EntNow'[n], obj'[n])
  BY <1>1, <1>2, <1>3, <1>4, Constants DEF FileOk, LiesOn
<1>6. Apart(own2)' /\ Linked(own2, FatNow)'  BY <1>1, <1>2 DEF Apart, Linked
<1>7. Linking(own2)'  BY <1>3 DEF Linking
<1>8. ChainInv(own2)'  BY <1>3, <1>5, <1>6, <1>7 DEF ChainInv, Busy
<1>9. Solid'  BY DEF Solid
<1>10. TypeOK'  BY <1>3 DEF TypeOK
<1> QED  BY <1>1, <1>2, <1>8, <1>9, <1>10 DEF VolumeInv, BaseInv, Owns

LEMMA RestartKeeps ==
  ASSUME NEW own, VolumeInv(own), NEW hint \in Nat, Restart(hint), bound' = bound
  PROVE  \E own2 \in Owns : VolumeInv(own2)'
<1>1. /\ card' \in {card, safe} /\ safe' = card'
      /\ win' = [sect |-> NoSect, dirty |-> FALSE, copy |-> <<>>]
      /\ obj' = [n \in Names |-> Closed] /\ call' = Idle
      /\ last' \in Nat /\ faults' = faults + 1 /\ kept' = kept
  BY DEF Restart
<1>2. /\ card \in Volumes /\ safe \in Volumes /\ Sound(card) /\ Sound(safe)
      /\ faults' \in Nat /\ kept' \in Promises /\ bound' \in Bounds
  BY <1>1 DEF VolumeInv, BaseInv, TypeOK, WinOk, Solid
<1>3. PICK cd \in Volumes : cd = card' /\ Sound(cd)  BY <1>1, <1>2
<1> QED  BY <1>1, <1>2, <1>3, MountedKeeps

LEMMA VolumeInit ==
  ASSUME Init
  PROVE  VolumeInv([n \in Names |-> <<>>])
<1> DEFINE own == [n \in Names |-> <<>>]
<1>1. /\ card = Blank /\ safe = Blank
      /\ win = [sect |-> NoSect, dirty |-> FALSE, copy |-> <<>>]
      /\ obj = [n \in Names |-> Closed] /\ call = Idle
      /\ kept = [n \in Names |-> None] /\ faults = 0
      /\ bound \in Bounds /\ last \in bound.hints
  BY DEF Init
<1>2. own \in Owns /\ \A n \in Names : own[n] = <<>> /\ Len(own[n]) = 0
  <2>1. <<>> \in Seq(Clusters) /\ Len(<<>>) = 0  OBVIOUS
  <2> QED  BY <2>1 DEF Owns
<1> HIDE DEF own
<1>3. /\ Blank \in Volumes /\ Blank.fat = [c \in Clusters |-> 0]
      /\ Blank.ent = [n \in Names |-> NoEntry]
  BY DEF Blank, Volumes, Entries, NoEntry, Labels
<1>4. NoEntry.start = 0 /\ NoEntry.size = 0 /\ ~NoEntry.used  BY DEF NoEntry
<1>5. \A m \in Names : ~(\E i \in 1 .. Len(own[m]) : TRUE)  BY <1>2
<1>6. Apart(own) /\ \A f : Linked(own, f)  BY <1>5 DEF Apart, Linked
<1>7. \A n \in Names : EntryOk(own[n], NoEntry)
  BY <1>4, Constants DEF EntryOk, LiesOn
<1>8. Sound(Blank)  BY <1>2, <1>3, <1>6, <1>7 DEF Sound
<1>9. WinOk  BY <1>1, <1>3 DEF WinOk
<1>10. EntNow = Blank.ent  BY <1>1, <1>9, OnCard
<1>11. Closed.sclust = 0 /\ Closed.fsize = 0 /\ ~Closed.open  BY DEF Closed
<1>12. \A n \in Names : FileOk(own[n], EntNow[n], obj[n])
  BY <1>1, <1>3, <1>7, <1>10, <1>11, Constants DEF FileOk, LiesOn
<1>13. ChainInv(own)
  BY <1>1, <1>6, <1>11, <1>12, Records DEF ChainInv, Busy, Linking
<1>14. TypeOK
  <2>1. kept \in Promises  BY <1>1 DEF Promises
  <2>2. last \in Nat  BY <1>1, FatAssumption
  <2> QED  BY <1>1, <2>1, <2>2, Records DEF TypeOK
<1> QED  BY <1>1, <1>2, <1>8, <1>9, <1>13, <1>14 DEF VolumeInv, BaseInv, Solid, own

LEMMA CallsKeep ==
  ASSUME NEW own, VolumeInv(own), Calls, bound' = bound
  PROVE  VolumeInv(own)'
<1>1. bound.lens \subseteq Nat /\ bound.targets \subseteq Nat
  BY FatAssumption DEF VolumeInv, BaseInv, TypeOK
<1> QED  BY <1>1, StartOpenKeeps, StartReadKeeps, StartWriteKeeps, StartSeekKeeps,
            StartCloseKeeps DEF Calls

LEMMA FailsKeep ==
  ASSUME NEW own, VolumeInv(own), Fails, bound' = bound
  PROVE  VolumeInv(own)'
BY WindowFailsKeeps, AccessFailsKeeps, SyncKeeps DEF Fails

\* The steps after which each file has the chain it had before.
Plain ==
  \/ FlushWindow \/ LoadWindow \/ FindExisting \/ FindCreates \/ BackToEntry
  \/ Stretch \/ (ScanFinds /\ call.c # 0) \/ ScanPasses \/ FlushBuffer
  \/ WriteInside \/ WriteSector \/ WritePart
  \/ ReadInside \/ ReadSector \/ ReadPart \/ ReadEnds
  \/ Follow \/ SeekEnds \/ Entry \/ Sync

LEMMA PlainKeeps ==
  ASSUME NEW own, VolumeInv(own), Plain, bound' = bound
  PROVE  VolumeInv(own)'
<1>1. CASE FlushWindow \/ LoadWindow \/ FindExisting \/ FindCreates \/ BackToEntry
  BY <1>1, FlushWindowKeeps, LoadWindowKeeps, FindExistingKeeps, FindCreatesKeeps,
     BackToEntryKeeps
<1>2. CASE Stretch \/ (ScanFinds /\ call.c # 0) \/ ScanPasses \/ FlushBuffer
  BY <1>2, StretchKeeps, ScanFindsNext, ScanPassesKeeps, FlushBufferKeeps
<1>3. CASE WriteInside \/ WriteSector \/ WritePart
  BY <1>3, WriteInsideKeeps, WriteSectorKeeps, WritePartKeeps
<1>4. CASE ReadInside \/ ReadSector \/ ReadPart \/ ReadEnds
  BY <1>4, ReadInsideKeeps, ReadSectorKeeps, ReadEndsKeeps
<1>5. CASE Follow \/ SeekEnds \/ Entry \/ Sync
  BY <1>5, FollowKeeps, SeekEndsKeeps, EntryKeeps, SyncKeeps
<1> QED  BY <1>1, <1>2, <1>3, <1>4, <1>5 DEF Plain

\* The others.
LEMMA ProceedSplits ==
  ASSUME Proceed
  PROVE  Plain \/ Free \/ (ScanFinds /\ call.c = 0) \/ Link
BY DEF Proceed, Plain

LEMMA ChangesKeep ==
  ASSUME NEW own, VolumeInv(own), Free \/ (ScanFinds /\ call.c = 0) \/ Link, bound' = bound
  PROVE  \E own2 : VolumeInv(own2)'
<1>1. CASE Free
  <2>1. PICK own2 : own2 = Freed(own, call.n)  OBVIOUS
  <2> QED  BY <1>1, <2>1, FreeKeeps
<1>2. CASE ScanFinds /\ call.c = 0
  <2>1. PICK own2 : own2 = First(own, call.n, call.k)  OBVIOUS
  <2> QED  BY <1>2, <2>1, ScanFindsFirst
<1>3. CASE Link
  <2>1. PICK own2 : own2 = Longer(own, call.n, call.k)  OBVIOUS
  <2> QED  BY <1>3, <2>1, LinkKeeps
<1> QED  BY <1>1, <1>2, <1>3

LEMMA StutterKeeps ==
  ASSUME NEW own, VolumeInv(own), UNCHANGED vars
  PROVE  VolumeInv(own)'
<1>1. DiskData /\ win' = win /\ WinOk
  BY DEF vars, DiskData, VolumeInv, BaseInv, WinOk
<1>2. WinOk' /\ FatNow' = FatNow /\ EntNow' = EntNow  BY <1>1, WindowStays
<1>3. Solid'  BY <1>1, SolidStays DEF VolumeInv
<1> QED  BY <1>2, <1>3, SameChains DEF vars

\* The volume in the hands of FatFs, and the one on the card, are sound, and
\* every place of the code has the cluster it takes for its own.
THEOREM VolumeInvHolds == Spec => [](\E own : VolumeInv(own))
<1>1. Init => \E own : VolumeInv(own)  BY VolumeInit
<1>2. (\E own : VolumeInv(own)) /\ [Next]_vars => (\E own : VolumeInv(own))'
  <2>1. SUFFICES ASSUME NEW own, VolumeInv(own), [Next]_vars
                 PROVE  \E own2 : VolumeInv(own2)'
    OBVIOUS
  <2>2. CASE Next
    <3>1. bound' = bound  BY <2>2 DEF Next
    <3>2. CASE Calls  BY <2>1, <3>1, <3>2, CallsKeep
    <3>3. CASE Proceed  BY <2>1, <3>1, <3>3, ProceedSplits, PlainKeeps, ChangesKeep
    <3>4. CASE Fails  BY <2>1, <3>1, <3>4, FailsKeep
    <3>5. CASE \E hint \in bound.hints : Restart(hint)
      <4>1. bound.hints \subseteq Nat
        BY <2>1, FatAssumption DEF VolumeInv, BaseInv, TypeOK
      <4> QED  BY <2>1, <3>1, <3>5, <4>1, RestartKeeps
    <3> QED  BY <2>2, <3>2, <3>3, <3>4, <3>5 DEF Next
  <2>3. CASE UNCHANGED vars  BY <2>1, <2>3, StutterKeeps
  <2> QED  BY <2>1, <2>2, <2>3
<1> QED  BY <1>1, <1>2, PTL DEF Spec

-----------------------------------------------------------------------------
(* Chains are walked.                                                      *)

LEMMA Least ==
  ASSUME NEW T \in SUBSET Nat, T # {}
  PROVE  \E x \in T : \A y \in T : x <= y
<1>1. IsWellFoundedOn(OpToRel(<, Nat), Nat)  BY NatLessThanWellFounded
<1>2. PICK x \in T : \A y \in T : ~ (<<y, x>> \in OpToRel(<, Nat))
  BY <1>1, WFMin
<1>3. \A y \in T : ~(y < x)  BY <1>2 DEF OpToRel
<1> QED  BY <1>3

\* The number of clusters.
LEMMA Many ==
  /\ IsFiniteSet(Clusters) /\ Cardinality(Clusters) \in Nat \ {0}
<1>1. 2 \in Int /\ NFatent - 1 \in Int /\ NFatent - 1 >= 2  BY FatAssumption
<1>2. /\ IsFiniteSet(2 .. NFatent - 1)
      /\ Cardinality(2 .. NFatent - 1) = IF 2 > NFatent - 1 THEN 0 ELSE (NFatent - 1) - 2 + 1
  BY <1>1, FS_Interval
<1> QED  BY <1>1, <1>2 DEF Clusters

Steps == 1 .. Cardinality(Clusters) + 1

\* Only one function is the walk from s.
LEMMA WalkIs ==
  ASSUME NEW f, NEW s, NEW e,
         e = [k \in Steps |-> IF k = 1 THEN s
                              ELSE IF e[k - 1] \in Clusters THEN f[e[k - 1]] ELSE e[k - 1]]
  PROVE  Walk(f, s) = e
<1> DEFINE Step(g) == [k \in Steps |-> IF k = 1 THEN s
                                ELSE IF g[k - 1] \in Clusters THEN f[g[k - 1]] ELSE g[k - 1]]
<1> DEFINE g == CHOOSE g : g = Step(g)
<1>1. Walk(f, s) = g  BY DEF Walk, Steps
<1>2. g = Step(g)
  <2>1. e = Step(e)  OBVIOUS
  <2> QED  BY <2>1
<1> HIDE DEF g
<1>3. DOMAIN g = Steps /\ DOMAIN e = Steps  BY <1>2
<1>4. Cardinality(Clusters) \in Nat  BY Many
<1> DEFINE T == {k \in Steps : g[k] # e[k]}
<1>5. ASSUME T # {} PROVE FALSE
  <2>1. T \in SUBSET Nat  BY <1>4 DEF Steps
  <2>2. PICK k \in T : \A y \in T : k <= y  BY <1>5, <2>1, Least
  <2>3. k # 1
    <3>1. 1 \in Steps  BY <1>4 DEF Steps
    <3> QED  BY <1>2, <3>1, <2>2
  <2>4. k - 1 \in Steps /\ k \in Steps /\ ~(k <= k - 1)  BY <1>4, <2>2, <2>3 DEF Steps
  <2>5. g[k - 1] = e[k - 1]  BY <2>2, <2>4
  <2>6. g[k] = IF g[k - 1] \in Clusters THEN f[g[k - 1]] ELSE g[k - 1]
    BY <1>2, <2>3, <2>4
  <2>7. e[k] = IF e[k - 1] \in Clusters THEN f[e[k - 1]] ELSE e[k - 1]
    BY <2>3, <2>4
  <2> QED  BY <2>2, <2>5, <2>6, <2>7
<1>6. \A k \in Steps : g[k] = e[k]  BY <1>5
<1>7. g = e  BY <1>2, <1>3, <1>6
<1> QED  BY <1>1, <1>7

\* A chain is no longer than the volume.
LEMMA ShortChain ==
  ASSUME NEW own \in Owns, Apart(own), NEW n \in Names
  PROVE  /\ Len(own[n]) \in Nat /\ Len(own[n]) <= Cardinality(Clusters)
         /\ Cardinality({own[n][i] : i \in 1 .. Len(own[n])}) = Len(own[n])
<1>1. PICK w \in Seq(Clusters) : w = own[n]  BY DEF Owns
<1>2. Len(w) \in Nat /\ \A i \in 1 .. Len(w) : w[i] \in Clusters
  BY <1>1, LenProperties, ElementOfSeq
<1>3. \A i, j \in 1 .. Len(w) : w[i] = w[j] => i = j  BY <1>1 DEF Apart
<1> DEFINE I == 1 .. Len(w)
<1> DEFINE T == {w[i] : i \in I}
<1> DEFINE g == [i \in I |-> w[i]]
<1>4. g \in Bijection(I, T)
  <2>1. g \in [I -> T] /\ \A i, j \in I : g[i] = g[j] => i = j  BY <1>3
  <2>2. \A t \in T : \E i \in I : g[i] = t  OBVIOUS
  <2> QED  BY <2>1, <2>2 DEF Bijection, Injection, Surjection, IsInjective
<1>5. IsFiniteSet(I) /\ Cardinality(I) = Len(w)
  <2>1. 1 \in Int /\ Len(w) \in Int  BY <1>2
  <2>2. /\ IsFiniteSet(1 .. Len(w))
        /\ Cardinality(1 .. Len(w)) = IF 1 > Len(w) THEN 0 ELSE Len(w) - 1 + 1
    BY <2>1, FS_Interval
  <2> QED  BY <1>2, <2>2
<1>6. IsFiniteSet(T) /\ Cardinality(T) = Len(w)
  <2>1. ExistsBijection(I, T)  BY <1>4 DEF ExistsBijection
  <2> QED  BY <1>5, <2>1, FS_Bijection
<1>7. T \in SUBSET Clusters  BY <1>2
<1>8. Cardinality(T) <= Cardinality(Clusters)  BY <1>7, Many, FS_Subset
<1> QED  BY <1>1, <1>2, <1>6, <1>8

\* The walk from the first cluster of a file goes along its chain.
LEMMA WalkOnChain ==
  ASSUME NEW own \in Owns, NEW fat, Apart(own), Linked(own, fat), NEW n \in Names, own[n] # <<>>
  PROVE  /\ \A k \in 1 .. Len(own[n]) : k \in Steps /\ Walk(fat, own[n][1])[k] = own[n][k]
         /\ Chain(fat, own[n][1]) = {own[n][i] : i \in 1 .. Len(own[n])}
         /\ Ends(fat, own[n][1])
         /\ Cardinality(Chain(fat, own[n][1])) = Len(own[n])
<1>1. PICK w \in Seq(Clusters) : w = own[n]  BY DEF Owns
<1> DEFINE N == Cardinality(Clusters)
<1>0. Cardinality({w[i] : i \in 1 .. Len(w)}) = Len(w)  BY <1>1, ShortChain
<1>2. Len(w) \in Nat \ {0} /\ Len(w) <= N /\ N \in Nat
  BY <1>1, ShortChain, Many, EmptySeq
<1>3. \A i \in 1 .. Len(w) :
        w[i] \in Clusters /\ fat[w[i]] = IF i < Len(w) THEN w[i + 1] ELSE EOC
  BY <1>1, ElementOfSeq DEF Linked
<1>4. EOC \notin Clusters  BY Constants
<1> DEFINE e == [k \in Steps |-> IF k <= Len(w) THEN w[k] ELSE EOC]
<1>5. e = [k \in Steps |-> IF k = 1 THEN w[1]
                           ELSE IF e[k - 1] \in Clusters THEN fat[e[k - 1]] ELSE e[k - 1]]
  <2>1. ASSUME NEW k \in Steps
        PROVE  e[k] = IF k = 1 THEN w[1]
                      ELSE IF e[k - 1] \in Clusters THEN fat[e[k - 1]] ELSE e[k - 1]
    <3>1. k \in Nat /\ k >= 1 /\ k <= N + 1  BY <1>2 DEF Steps
    <3>2. CASE k = 1  BY <1>2, <3>1, <3>2
    <3>3. CASE k # 1
      <4>1. k - 1 \in Steps  BY <1>2, <3>1, <3>3 DEF Steps
      <4>2. CASE k - 1 <= Len(w)
        <5>1. k - 1 \in 1 .. Len(w) /\ e[k - 1] = w[k - 1]  BY <1>2, <3>1, <3>3, <4>1, <4>2
        <5>2. fat[w[k - 1]] = (IF k - 1 < Len(w) THEN w[(k - 1) + 1] ELSE EOC) /\ w[k - 1] \in Clusters
          BY <1>3, <5>1
        <5>3. (k - 1) + 1 = k /\ (k - 1 < Len(w) <=> k <= Len(w))  BY <1>2, <3>1
        <5>4. e[k] = IF k <= Len(w) THEN w[k] ELSE EOC  OBVIOUS
        <5> QED  BY <3>3, <5>1, <5>2, <5>3, <5>4
      <4>3. CASE ~(k - 1 <= Len(w))
        <5>1. e[k - 1] = EOC /\ e[k] = EOC  BY <1>2, <3>1, <4>1, <4>3
        <5> QED  BY <1>4, <3>3, <5>1
      <4> QED  BY <4>2, <4>3
    <3> QED  BY <3>2, <3>3
  <2> QED  BY <2>1
<1>6. DOMAIN e = Steps /\ \A k \in Steps : e[k] = IF k <= Len(w) THEN w[k] ELSE EOC  OBVIOUS
<1> HIDE DEF e
<1>7. Walk(fat, w[1]) = e  BY <1>5, WalkIs
<1>8. \A k \in 1 .. Len(w) : k \in Steps /\ e[k] = w[k]  BY <1>2, <1>6 DEF Steps
<1>9. N + 1 \in Steps /\ e[N + 1] = EOC  BY <1>2, <1>6 DEF Steps
<1>10. Chain(fat, w[1]) = {w[i] : i \in 1 .. Len(w)}
  <2>1. Chain(fat, w[1]) = {e[k] : k \in Steps} \cap Clusters  BY <1>7 DEF Chain, Steps
  <2>2. ASSUME NEW c \in {e[k] : k \in Steps} \cap Clusters
        PROVE  c \in {w[i] : i \in 1 .. Len(w)}
    <3>1. PICK k \in Steps : c = e[k]  OBVIOUS
    <3>2. k <= Len(w) /\ e[k] = w[k]  BY <1>4, <1>6, <3>1
    <3>3. k \in 1 .. Len(w)  BY <1>2, <3>2 DEF Steps
    <3> QED  BY <3>1, <3>2, <3>3
  <2>3. ASSUME NEW i \in 1 .. Len(w)
        PROVE  w[i] \in {e[k] : k \in Steps} \cap Clusters
    BY <1>3, <1>8
  <2> QED  BY <2>1, <2>2, <2>3
<1>11. Ends(fat, w[1])  BY <1>7, <1>9 DEF Ends
<1> QED  BY <1>0, <1>1, <1>7, <1>8, <1>10, <1>11

\* A walk that starts at no cluster stays there.
LEMMA WalkNowhere ==
  ASSUME NEW f, NEW s, s \notin Clusters
  PROVE  Chain(f, s) = {}
<1> DEFINE e == [k \in Steps |-> s]
<1>1. Cardinality(Clusters) \in Nat  BY Many
<1>2. e = [k \in Steps |-> IF k = 1 THEN s
                           ELSE IF e[k - 1] \in Clusters THEN f[e[k - 1]] ELSE e[k - 1]]
  <2>1. ASSUME NEW k \in Steps, k # 1 PROVE k - 1 \in Steps
    BY <1>1, <2>1 DEF Steps
  <2> QED  BY <2>1
<1>3. \A k \in Steps : e[k] = s  OBVIOUS
<1> HIDE DEF e
<1>4. Walk(f, s) = e  BY <1>2, WalkIs
<1> QED  BY <1>3, <1>4 DEF Chain, Steps

LEMMA ViewIs ==
  ASSUME WinOk
  PROVE  View.fat = FatNow /\ View.ent = EntNow
<1>1. CASE win.sect = NoSect
  BY <1>1, OnCard DEF View
<1>2. CASE win.sect # NoSect
  BY <1>2, WrittenBack DEF View
<1> QED  BY <1>1, <1>2

\* What is reached from a file's first cluster, if it has one.
LEMMA FileChain ==
  ASSUME NEW own \in Owns, NEW fat, Apart(own), Linked(own, fat), NEW n \in Names,
         NEW start, NEW size, LiesOn(own[n], start, size)
  PROVE  /\ \A c \in Chain(fat, start) : \E i \in 1 .. Len(own[n]) : c = own[n][i]
         /\ start \in Clusters => /\ Ends(fat, start)
                                  /\ size <= SS * Cardinality(Chain(fat, start))
                                  /\ Chain(fat, start) = {own[n][i] : i \in 1 .. Len(own[n])}
<1>1. CASE start \in Clusters
  <2>1. own[n] # <<>> /\ own[n][1] = start /\ size <= SS * Len(own[n])
    BY <1>1 DEF LiesOn
  <2>2. /\ Chain(fat, own[n][1]) = {own[n][i] : i \in 1 .. Len(own[n])}
        /\ Ends(fat, own[n][1])
        /\ Cardinality(Chain(fat, own[n][1])) = Len(own[n])
    BY <2>1, WalkOnChain
  <2> QED  BY <2>1, <2>2
<1>2. CASE start \notin Clusters
  BY <1>2, WalkNowhere
<1> QED  BY <1>1, <1>2

LEMMA FileChainIn ==
  ASSUME NEW own \in Owns, NEW fat, Apart(own), Linked(own, fat), NEW n \in Names,
         NEW start, start \in Clusters => own[n] # <<>> /\ own[n][1] = start
  PROVE  \A c \in Chain(fat, start) : \E i \in 1 .. Len(own[n]) : c = own[n][i]
<1>1. CASE start \in Clusters
  <2>1. own[n] # <<>> /\ own[n][1] = start  BY <1>1
  <2>2. Chain(fat, own[n][1]) = {own[n][i] : i \in 1 .. Len(own[n])}
    BY <2>1, WalkOnChain
  <2>3. Chain(fat, start) = {own[n][i] : i \in 1 .. Len(own[n])}
    BY <2>1, <2>2
  <2> QED  BY <2>3
<1>2. CASE start \notin Clusters
  BY <1>2, WalkNowhere
<1> QED  BY <1>1, <1>2

\* The chains of two files have nothing in common.
LEMMA ChainsApart ==
  ASSUME NEW own \in Owns, NEW fat, Apart(own), Linked(own, fat), NEW n \in Names, NEW m \in Names,
         n # m, NEW start, NEW size, LiesOn(own[n], start, size),
         NEW start2, NEW size2, LiesOn(own[m], start2, size2)
  PROVE  Chain(fat, start) \cap Chain(fat, start2) = {}
<1>1. SUFFICES ASSUME NEW c \in Chain(fat, start), c \in Chain(fat, start2)
               PROVE  FALSE
  OBVIOUS
<1>a. start \in Clusters => own[n] # <<>> /\ own[n][1] = start  BY DEF LiesOn
<1>b. start2 \in Clusters => own[m] # <<>> /\ own[m][1] = start2  BY DEF LiesOn
<1>2. \A d \in Chain(fat, start) : \E i \in 1 .. Len(own[n]) : d = own[n][i]
  BY <1>a, FileChainIn
<1>3. \A d \in Chain(fat, start2) : \E j \in 1 .. Len(own[m]) : d = own[m][j]
  BY <1>b, FileChainIn
<1>4. PICK i \in 1 .. Len(own[n]) : c = own[n][i]  BY <1>1, <1>2
<1>5. PICK j \in 1 .. Len(own[m]) : c = own[m][j]  BY <1>1, <1>3
<1> QED  BY <1>4, <1>5 DEF Apart

\* Whatever fails and whenever the power goes, the volume on the card is sound.
THEOREM CardSoundHolds == Spec => []CardSound
<1>1. ASSUME NEW own, VolumeInv(own)  PROVE CardSound
  <2>1. PICK ch \in Owns : /\ Apart(ch) /\ Linked(ch, card.fat)
                           /\ \A n \in Names : EntryOk(ch[n], card.ent[n])
    BY <1>1 DEF VolumeInv, Solid, Sound
  <2> DEFINE used == {n \in Names : card.ent[n].used /\ card.ent[n].start # DiskErr}
  <2>2. \A n \in Names : LiesOn(ch[n], card.ent[n].start, card.ent[n].size)
    BY <2>1 DEF EntryOk
  <2>3. ASSUME NEW n \in used
        PROVE  Whole(card.fat, card.ent[n].start, card.ent[n].size)
    <3>1. card.ent[n].start \in Clusters \cup {0}
      BY <2>2 DEF LiesOn
    <3>2. card.ent[n].start = 0 => card.ent[n].size = 0  BY <2>2 DEF LiesOn
    <3>3. card.ent[n].start \in Clusters =>
            /\ Ends(card.fat, card.ent[n].start)
            /\ card.ent[n].size <= SS * Cardinality(Chain(card.fat, card.ent[n].start))
      BY <2>1, <2>2, FileChain
    <3> QED  BY <3>1, <3>2, <3>3 DEF Whole
  <2>4. ASSUME NEW n \in used, NEW m \in used, n # m
        PROVE  Chain(card.fat, card.ent[n].start) \cap Chain(card.fat, card.ent[m].start) = {}
    BY <2>1, <2>2, <2>4, ChainsApart
  <2> QED  BY <2>3, <2>4 DEF CardSound
<1>2. (\E own : VolumeInv(own)) => CardSound  BY <1>1
<1> QED  BY <1>2, VolumeInvHolds, PTL

\* No open file writes to what another one has.
THEOREM ObjectsApartHolds == Spec => []ObjectsApart
<1>1. ASSUME NEW own, VolumeInv(own)  PROVE ObjectsApart
  <2>1. /\ own \in Owns /\ Apart(own) /\ Linked(own, FatNow) /\ WinOk
        /\ \A n \in Names : FileOk(own[n], EntNow[n], obj[n])
    BY <1>1 DEF VolumeInv, ChainInv, BaseInv
  <2>2. View.fat = FatNow /\ View.ent = EntNow  BY <2>1, ViewIs
  <2>3. \A n \in Names : /\ LiesOn(own[n], EntNow[n].start, EntNow[n].size)
                         /\ LiesOn(own[n], obj[n].sclust, obj[n].fsize)
    BY <2>1 DEF FileOk, EntryOk
  <2> DEFINE mine(n) == Chain(FatNow, obj[n].sclust)
  <2>4. ASSUME NEW n \in Names, obj[n].sclust \in Clusters  PROVE Ends(FatNow, obj[n].sclust)
    BY <2>1, <2>3, <2>4, FileChain
  <2>5. ASSUME NEW n \in Names, NEW m \in Names \ {n}
        PROVE  mine(n) \cap (Chain(FatNow, EntNow[m].start) \cup Chain(FatNow, obj[m].sclust)) = {}
    <3>1. m \in Names /\ n # m  OBVIOUS
    <3>2. mine(n) \cap Chain(FatNow, EntNow[m].start) = {}
      BY <2>1, <2>3, <3>1, ChainsApart
    <3>3. mine(n) \cap Chain(FatNow, obj[m].sclust) = {}
      BY <2>1, <2>3, <3>1, ChainsApart
    <3> QED  BY <3>2, <3>3
  <2> QED  BY <2>2, <2>4, <2>5 DEF ObjectsApart
<1>2. (\E own : VolumeInv(own)) => ObjectsApart  BY <1>1
<1> QED  BY <1>2, VolumeInvHolds, PTL

-----------------------------------------------------------------------------
(* No cluster is lost.                                                     *)

\* The chain of a file hangs on its entry or its object, neither of which holds
\* the error code for a cluster.
Hangs(w, e, o) ==
  /\ w # <<>> => w[1] \in {e.start, o.sclust}
  /\ e.start # DiskErr /\ o.sclust # DiskErr

\* A first cluster that the entry does not have yet will be put there.
Noted(e, o) == o.open /\ o.sclust # e.start => o.written

\* In a call: a write marks the object when it returns, and so does a seek in
\* an empty file, which stretches it.
Hanging(w, e, o, cl) ==
  /\ IF cl.at = "free" THEN e.start # DiskErr /\ o.sclust # DiskErr ELSE Hangs(w, e, o)
  /\ \/ Noted(e, o) \/ cl.op = "write"
     \/ cl.op = "seek" /\ o.wr /\ o.fsize = 0 /\ cl.at # "follow"
  /\ cl.at = "scan" /\ cl.op = "seek" /\ cl.c = 0 => o.wr
  /\ cl.at = "sync" => o.sclust = e.start

\* Each cluster that is not free is in a chain, or is about to be.
Held(own, fat, cl) ==
  \A c \in Clusters :
    fat[c] # 0 => \/ \E n \in Names : \E i \in 1 .. Len(own[n]) : c = own[n][i]
                  \/ cl.at = "link" /\ c = cl.k

LossInv(own) ==
  faults = 0 =>
    /\ Held(own, FatNow, call)
    /\ \A n \in Names :
         IF Busy(n) THEN Hanging(own[n], EntNow[n], obj[n], call)
         ELSE Hangs(own[n], EntNow[n], obj[n]) /\ Noted(EntNow[n], obj[n])

\* A step of a call on the file n.
Moves(w, e, n) ==
  \E o : /\ obj' = [obj EXCEPT ![n] = o]
         /\ \/ call'.at = "idle" /\ Hangs(w, e, o) /\ Noted(e, o)
            \/ call'.at # "idle" /\ call'.n = n /\ Hanging(w, e, o, call')

LEMMA LossStep ==
  ASSUME NEW own, VolumeInv(own), LossInv(own), faults' = faults, faults = 0,
         NEW n \in Names, NEW w, NEW e, NEW own2, own2 = [own EXCEPT ![n] = w],
         call.at = "idle" \/ call.n = n, EntNow' = [EntNow EXCEPT ![n] = e],
         Moves(w, e, n), Held(own2, FatNow', call')
  PROVE  LossInv(own2)'
<1>1. PICK o : /\ obj' = [obj EXCEPT ![n] = o]
               /\ \/ call'.at = "idle" /\ Hangs(w, e, o) /\ Noted(e, o)
                  \/ call'.at # "idle" /\ call'.n = n /\ Hanging(w, e, o, call')
  BY DEF Moves
<1>2. obj \in [Names -> Files] /\ EntNow \in [Names -> Entries] /\ own \in Owns
  BY FileFacts DEF VolumeInv
<1>3. own2[n] = w /\ EntNow'[n] = e /\ obj'[n] = o  BY <1>1, <1>2 DEF Owns
<1>4. ASSUME NEW m \in Names
      PROVE  IF Busy(m)' THEN Hanging(own2[m], EntNow'[m], obj'[m], call')
             ELSE Hangs(own2[m], EntNow'[m], obj'[m]) /\ Noted(EntNow'[m], obj'[m])
  <2>1. CASE m = n  BY <1>1, <1>3, <2>1 DEF Busy
  <2>2. CASE m # n
    <3>1. own2[m] = own[m] /\ EntNow'[m] = EntNow[m] /\ obj'[m] = obj[m]
      BY <1>1, <1>2, <2>2 DEF Owns
    <3>2. ~Busy(m) /\ ~Busy(m)'  BY <1>1, <2>2 DEF Busy
    <3>3. Hangs(own[m], EntNow[m], obj[m]) /\ Noted(EntNow[m], obj[m])
      BY <3>2 DEF LossInv
    <3> QED  BY <3>1, <3>2, <3>3
  <2> QED  BY <2>1, <2>2
<1>5. Held(own2, FatNow, call)'  BY DEF Held
<1> QED  BY <1>4, <1>5 DEF LossInv, Hanging, Hangs, Noted

\* A step that leaves the volume as it is.
LEMMA LossQuiet ==
  ASSUME NEW own, VolumeInv(own), LossInv(own), faults' = faults, faults = 0,
         NEW n \in Names, call.at = "idle" \/ call.n = n, call.at # "link",
         FatNow' = FatNow, EntNow' = EntNow, Moves(own[n], EntNow[n], n)
  PROVE  LossInv(own)'
<1>1. PICK w, e : w = own[n] /\ e = EntNow[n]  OBVIOUS
<1>2. own = [own EXCEPT ![n] = w] /\ EntNow' = [EntNow EXCEPT ![n] = e]
  BY <1>1, FileFacts DEF VolumeInv, Owns
<1>3. Held(own, FatNow', call')  BY DEF LossInv, Held
<1> QED  BY <1>1, <1>2, <1>3, LossStep

\* One that leaves the calls as they are, too.
LEMMA LossSame ==
  ASSUME NEW own, LossInv(own), FatNow' = FatNow, EntNow' = EntNow,
         obj' = obj, call' = call, faults' = faults
  PROVE  LossInv(own)'
BY DEF LossInv, Held, Busy, Hanging, Hangs, Noted

\* What of an object the above is about.
SameMarks(p, o) ==
  /\ p.open = o.open /\ p.wr = o.wr /\ p.written = o.written
  /\ p.sclust = o.sclust /\ p.fsize = o.fsize

LEMMA MarksKeep ==
  ASSUME NEW w, NEW e, NEW o, NEW p, SameMarks(p, o)
  PROVE  /\ Hangs(w, e, o) => Hangs(w, e, p)
         /\ Noted(e, o) => Noted(e, p)
BY DEF SameMarks, Hangs, Noted

LEMMA StretchedHangs ==
  ASSUME NEW w, NEW e, NEW o \in Files, Hangs(w, e, o)
  PROVE  /\ Hangs(w, e, Written(o)) /\ Noted(e, Written(o))
         /\ Hangs(w, e, Sought(o))
         /\ Noted(e, o) \/ (o.fsize = 0 /\ o.fptr > 0) => Noted(e, Sought(o))
<1>1. Written(o).sclust = o.sclust /\ Written(o).written
  BY DEF Written, Files
<1>2. /\ Sought(o).sclust = o.sclust
      /\ Sought(o) = o \/ Sought(o).written
      /\ o.fsize = 0 /\ o.fptr > 0 => Sought(o).written
  BY DEF Sought, Files
<1> QED  BY <1>1, <1>2 DEF Hangs, Noted

LEMMA WriteMoves ==
  ASSUME NEW n \in Names, NEW w, NEW e, NEW o \in Files, Hangs(w, e, o),
         o.sclust \in Clusters \cup {0, DiskErr}, last \in Nat,
         NEW cl \in Calling, cl.n = n, cl.op = "write", WriteOn(o, cl)
  PROVE  Moves(w, e, n)
<1>1. o.sclust \in Clusters \cup {0}  BY DEF Hangs
<1>2. CASE cl.left = 0
  <2>1. obj' = [obj EXCEPT ![n] = Written(o)] /\ call' = Idle  BY <1>2 DEF WriteOn
  <2> QED  BY <2>1, Records, StretchedHangs DEF Moves
<1>3. ASSUME NEW p \in Files, NEW c2 \in Calling, Goes(p, c2), SameMarks(p, o), c2.n = n,
             c2.op = "write", c2.at \in {"inside", "stretch", "scan", "store"}
      PROVE  Moves(w, e, n)
  <2>1. obj' = [obj EXCEPT ![n] = p] /\ call' = c2  BY <1>3 DEF Goes
  <2>2. Hanging(w, e, p, c2)  BY <1>3, MarksKeep DEF Hanging
  <2> QED  BY <1>3, <2>1, <2>2 DEF Moves
<1>4. SameMarks(o, o)  BY DEF SameMarks
<1>5. CASE cl.left # 0 /\ o.fptr % SS # 0
  <2>1. Goes(o, Place(cl, "inside", 0))  BY <1>5 DEF WriteOn
  <2>9. "inside" \in AtPlaces /\ 0 \in Nat /\ o.clust \in Nat  BY DEF AtPlaces, Files
  <2>2. PICK c2 \in Calling : /\ c2 = Place(cl, "inside", 0) /\ c2.n = n /\ c2.op = "write"
                              /\ c2.at = "inside"
    BY <2>9, PlaceForm
  <2> QED  BY <1>3, <1>4, <2>1, <2>2
<1>6. CASE cl.left # 0 /\ o.fptr % SS = 0 /\ o.fptr > 0
  <2>1. Goes(o, Place(cl, "stretch", o.clust))  BY <1>6 DEF WriteOn
  <2>9. "stretch" \in AtPlaces /\ 0 \in Nat /\ o.clust \in Nat  BY DEF AtPlaces, Files
  <2>2. PICK c2 \in Calling : /\ c2 = Place(cl, "stretch", o.clust) /\ c2.n = n
                              /\ c2.op = "write" /\ c2.at = "stretch"
    BY <2>9, PlaceForm
  <2> QED  BY <1>3, <1>4, <2>1, <2>2
<1>7. CASE cl.left # 0 /\ o.fptr % SS = 0 /\ ~(o.fptr > 0) /\ o.sclust = 0
  <2>1. Goes(o, ScanFor(cl, 0, Hint))  BY <1>7 DEF WriteOn
  <2>2. Hint \in 1 .. NFatent - 1  BY Constants DEF Hint
  <2>3. PICK c2 \in Calling : /\ c2 = ScanFor(cl, 0, Hint) /\ c2.n = n
                              /\ c2.op = "write" /\ c2.at = "scan"
    BY <2>2, ScanForm
  <2> QED  BY <1>3, <1>4, <2>1, <2>3
<1>8. CASE cl.left # 0 /\ o.fptr % SS = 0 /\ ~(o.fptr > 0) /\ o.sclust \in Clusters
  <2> DEFINE q == [o EXCEPT !.clust = o.sclust]
  <2>1. Goes(q, Place(cl, "store", 0))
    BY <1>8, Constants DEF WriteOn
  <2>9. "store" \in AtPlaces /\ 0 \in Nat /\ o.clust \in Nat  BY DEF AtPlaces, Files
  <2>2. PICK c2 \in Calling : /\ c2 = Place(cl, "store", 0) /\ c2.n = n
                              /\ c2.op = "write" /\ c2.at = "store"
    BY <2>9, PlaceForm
  <2>3. q \in Files /\ SameMarks(q, o)  BY DEF Files, SameMarks
  <2> HIDE DEF q
  <2> QED  BY <1>3, <2>1, <2>2, <2>3
<1> QED  BY <1>1, <1>2, <1>5, <1>6, <1>7, <1>8

LEMMA ReadMoves ==
  ASSUME NEW n \in Names, NEW w, NEW e, NEW o \in Files, Hangs(w, e, o), Noted(e, o),
         NEW cl \in Calling, cl.n = n, cl.op = "read", ReadOn(o, cl)
  PROVE  Moves(w, e, n)
<1>1. ASSUME NEW p \in Files, NEW c2 \in Calling, Goes(p, c2), SameMarks(p, o), c2.n = n,
             c2.at \in {"inside", "follow", "fetch"}
      PROVE  Moves(w, e, n)
  <2>1. obj' = [obj EXCEPT ![n] = p] /\ call' = c2  BY <1>1 DEF Goes
  <2>2. Hanging(w, e, p, c2)
    <3>1. Hangs(w, e, p) /\ Noted(e, p)  BY <1>1, MarksKeep
    <3>2. c2.at \notin {"free", "sync", "scan"}  BY <1>1
    <3> QED  BY <3>1, <3>2 DEF Hanging
  <2> QED  BY <1>1, <2>1, <2>2 DEF Moves
<1>2. ASSUME NEW p, SameMarks(p, o), obj' = [obj EXCEPT ![n] = p], call' = Idle
      PROVE  Moves(w, e, n)
  BY <1>2, MarksKeep, Records DEF Moves
<1>3. SameMarks(o, o)  BY DEF SameMarks
<1>4. CASE cl.left = 0
  BY <1>2, <1>3, <1>4 DEF ReadOn
<1>5. CASE cl.left # 0 /\ o.fptr % SS # 0
  <2> DEFINE c2 == [cl EXCEPT !.at = "inside"]
  <2>1. Goes(o, c2)  BY <1>5 DEF ReadOn
  <2>2. c2 \in Calling /\ c2.n = n /\ c2.at = "inside"  BY DEF Calling, AtPlaces
  <2> HIDE DEF c2
  <2> QED  BY <1>1, <1>3, <2>1, <2>2
<1>6. CASE cl.left # 0 /\ o.fptr % SS = 0 /\ o.fptr > 0
  <2> DEFINE c2 == [cl EXCEPT !.at = "follow", !.c = o.clust]
  <2>1. Goes(o, c2)  BY <1>6 DEF ReadOn
  <2>2. c2 \in Calling /\ c2.n = n /\ c2.at = "follow"  BY DEF Calling, AtPlaces, Files
  <2> HIDE DEF c2
  <2> QED  BY <1>1, <1>3, <2>1, <2>2
<1>7. CASE cl.left # 0 /\ o.fptr % SS = 0 /\ ~(o.fptr > 0) /\ o.sclust \in Clusters
  <2> DEFINE q == [o EXCEPT !.clust = o.sclust]
  <2> DEFINE c2 == [cl EXCEPT !.at = "fetch"]
  <2>1. Goes(q, c2)  BY <1>7 DEF ReadOn
  <2>2. c2 \in Calling /\ c2.n = n /\ c2.at = "fetch"  BY DEF Calling, AtPlaces
  <2>3. q \in Files /\ SameMarks(q, o)  BY DEF Files, SameMarks
  <2> HIDE DEF q, c2
  <2> QED  BY <1>1, <2>1, <2>2, <2>3
<1>8. CASE cl.left # 0 /\ o.fptr % SS = 0 /\ ~(o.fptr > 0) /\ o.sclust \notin Clusters
  <2> DEFINE q == [o EXCEPT !.err = TRUE]
  <2>1. obj' = [obj EXCEPT ![n] = q] /\ call' = Idle  BY <1>8 DEF ReadOn
  <2>2. SameMarks(q, o)  BY DEF Files, SameMarks
  <2> HIDE DEF q
  <2> QED  BY <1>2, <2>1, <2>2
<1> QED  BY <1>4, <1>5, <1>6, <1>7, <1>8

LEMMA SeekMoves ==
  ASSUME NEW n \in Names, NEW w, NEW e, NEW o \in Files, Hangs(w, e, o),
         Noted(e, o) \/ (o.wr /\ o.fsize = 0),
         NEW cl \in Calling, cl.n = n, cl.op = "seek", NEW c \in Nat, SeekOn(o, cl, c)
  PROVE  Moves(w, e, n)
<1>1. CASE cl.left > SS
  <2> DEFINE at == IF o.wr THEN "stretch" ELSE "follow"
  <2>1. Goes(o, Place(cl, at, c))  BY <1>1 DEF SeekOn
  <2>2. at \in AtPlaces  BY DEF AtPlaces
  <2>3. at \in {"stretch", "follow"} /\ (at = "follow" => ~o.wr)  OBVIOUS
  <2> HIDE DEF at
  <2>4. PICK c2 \in Calling : /\ c2 = Place(cl, at, c) /\ c2.n = n /\ c2.op = "seek"
                              /\ c2.at = at
    BY <2>2, PlaceForm
  <2>5. Hanging(w, e, o, c2)  BY <2>3, <2>4 DEF Hanging
  <2> QED  BY <2>1, <2>3, <2>4, <2>5 DEF Goes, Moves
<1>2. CASE ~(cl.left > SS)
  <2> DEFINE q == [o EXCEPT !.fptr = @ + cl.left]
  <2> DEFINE c1 == [cl EXCEPT !.left = 0]
  <2>1. Goes(q, Place(c1, "fill", c))  BY <1>2 DEF SeekOn
  <2>2. c1 \in Calling /\ c1.n = n /\ c1.op = "seek"  BY DEF Calling
  <2>3. SameMarks(q, o)  BY DEF Files, SameMarks
  <2> HIDE DEF q, c1
  <2>9. "fill" \in AtPlaces /\ 0 \in Nat /\ o.clust \in Nat  BY DEF AtPlaces, Files
  <2>4. PICK c2 \in Calling : /\ c2 = Place(c1, "fill", c) /\ c2.n = n /\ c2.op = "seek"
                              /\ c2.at = "fill"
    BY <2>2, <2>9, PlaceForm
  <2>5. Hanging(w, e, q, c2)
    <3>1. Hangs(w, e, q) /\ (Noted(e, q) \/ (q.wr /\ q.fsize = 0))
      BY <2>3, MarksKeep DEF SameMarks
    <3> QED  BY <2>4, <3>1 DEF Hanging
  <2> QED  BY <2>1, <2>4, <2>5 DEF Goes, Moves
<1> QED  BY <1>1, <1>2

LEMMA FullMoves ==
  ASSUME NEW n \in Names, NEW w, NEW e, NEW o \in Files, FileOk(w, e, o), o = obj[n],
         call \in Calling, call.n = n, ChainReturns(0), Hanging(w, e, o, call),
         call.op \in {"write", "seek"}, call.at \notin {"free", "follow"}, o.open,
         call.c = 0 => o.sclust = 0
  PROVE  Moves(w, e, n)
<1>1. Hangs(w, e, o)  BY DEF Hanging
<1>2. CASE call.op = "write"
  <2>1. Return(Written(o))  BY <1>2 DEF ChainReturns, ChainToWrite
  <2> QED  BY <1>1, <2>1, Records, StretchedHangs, ZenonT(40) DEF Return, Moves
<1>3. CASE call.op = "seek" /\ call.c = 0
  <2> DEFINE p == [o EXCEPT !.clust = 0]
  <2>1. Return(p)  BY <1>3 DEF ChainReturns, ChainToSeek
  <2>2. SameMarks(p, o)  BY DEF SameMarks, Files
  <2> HIDE DEF p
  <2>3. Noted(e, o)  BY <1>3 DEF Noted, FileOk
  <2>4. Hangs(w, e, p) /\ Noted(e, p)  BY <1>1, <2>2, <2>3, MarksKeep
  <2>5. obj' = [obj EXCEPT ![n] = p] /\ call'.at = "idle"  BY <2>1, Records DEF Return
  <2> QED  BY <2>4, <2>5 DEF Moves
<1>4. CASE call.op = "seek" /\ call.c # 0
  <2> DEFINE cl == [call EXCEPT !.left = SS]
  <2>1. SeekOn(o, cl, call.c)  BY <1>4 DEF ChainReturns, ChainToSeek
  <2>2. cl \in Calling /\ cl.n = n /\ cl.op = "seek" /\ call.c \in Nat
    BY <1>4, FatAssumption DEF Calling
  <2> HIDE DEF cl
  <2>3. Noted(e, o) \/ (o.wr /\ o.fsize = 0)  BY <1>4 DEF Hanging
  <2> QED  BY <1>1, <2>1, <2>2, <2>3, SeekMoves
<1> QED  BY <1>2, <1>3, <1>4

LEMMA FirstMoves ==
  ASSUME NEW n \in Names, NEW w, NEW e, NEW o \in Files, o = obj[n],
         call \in Calling, call.n = n, NEW r \in Clusters, ChainReturns(r),
         call.c = 0, call.op \in {"write", "seek"}, o.fptr = 0, o.fsize = 0,
         call.op = "seek" => o.wr, e.start # DiskErr, w[1] = r
  PROVE  Moves(w, e, n)
<1> DEFINE p == [o EXCEPT !.clust = r, !.sclust = r]
<1>1. r \in Nat /\ r > 1 /\ r # DiskErr  BY FatAssumption DEF Clusters, DiskErr
<1>2. p \in Files /\ p.sclust = r /\ p.fsize = 0 /\ p.wr = o.wr
  BY <1>1 DEF Files
<1> HIDE DEF p
<1>3. Hangs(w, e, p)  BY <1>1, <1>2 DEF Hangs
<1>4. CASE call.op = "write"
  <2> DEFINE pl == Place(call, "store", 0)
  <2>1. Goes(p, pl)  BY <1>1, <1>4 DEF ChainReturns, ChainToWrite, p
  <2>2. pl.at = "store" /\ pl.n = n /\ pl.op = "write"
    BY <1>4 DEF Place, Calling
  <2> HIDE DEF pl
  <2>3. Hanging(w, e, p, pl)  BY <1>3, <2>2 DEF Hanging
  <2> QED  BY <2>1, <2>2, <2>3 DEF Goes, Moves
<1>5. CASE call.op = "seek"
  <2>1. SeekOn(p, call, r)  BY <1>1, <1>5 DEF ChainReturns, ChainToSeek, p
  <2> QED  BY <1>1, <1>2, <1>3, <1>5, <2>1, SeekMoves
<1> QED  BY <1>4, <1>5

LEMMA NextMoves ==
  ASSUME NEW n \in Names, NEW w, NEW e, NEW o \in Files, o = obj[n],
         call \in Calling, call.n = n, NEW r \in Clusters, ChainReturns(r),
         call.op \in {"write", "seek"}, call.c \in Clusters, call.op = "write" => o.fptr > 0,
         Hangs(w, e, o), call.op = "seek" => call.left > SS /\ (Noted(e, o) \/ (o.wr /\ o.fsize = 0))
  PROVE  Moves(w, e, n)
<1>1. r \in Nat /\ r > 1 /\ call.c # 0 /\ o.fptr \in Nat /\ SS \in Nat
  BY FatAssumption DEF Clusters, Files
<1>2. CASE call.op = "write"
  <2> DEFINE p == [o EXCEPT !.clust = r, !.sclust = IF o.fptr = 0 THEN r ELSE @]
  <2> DEFINE pl == Place(call, "store", 0)
  <2>1. Goes(p, pl)  BY <1>1, <1>2 DEF ChainReturns, ChainToWrite
  <2>2. SameMarks(p, o)
    <3>1. o.fptr # 0  BY <1>1, <1>2
    <3>2. p = [o EXCEPT !.clust = r, !.sclust = o.sclust]  BY <3>1
    <3> QED  BY <3>2 DEF Files, SameMarks
  <2>3. pl.at = "store" /\ pl.n = n /\ pl.op = "write"  BY <1>2 DEF Place, Calling
  <2> HIDE DEF pl, p
  <2>4. Hanging(w, e, p, pl)  BY <2>2, <2>3, MarksKeep DEF Hanging
  <2> QED  BY <2>1, <2>3, <2>4 DEF Goes, Moves
<1>3. CASE call.op = "seek"
  <2> DEFINE p == [o EXCEPT !.clust = r, !.fptr = @ + SS]
  <2> DEFINE l == call.left - SS
  <2> DEFINE cl == [call EXCEPT !.left = l]
  <2>1. SeekOn(p, cl, r)  BY <1>1, <1>3 DEF ChainReturns, ChainToSeek
  <2>2. p \in Files /\ SameMarks(p, o)
    <3>1. o.fptr + SS \in Nat  BY <1>1
    <3> QED  BY <1>1, <3>1 DEF Files, SameMarks
  <2>3. cl \in Calling /\ cl.n = n /\ cl.op = "seek" /\ r \in Nat
    <3>1. l \in Nat  BY <1>1, <1>3 DEF Calling
    <3> QED  BY <1>1, <1>3, <3>1 DEF Calling
  <2> HIDE DEF p, cl
  <2>4. Hangs(w, e, p) /\ (Noted(e, p) \/ (p.wr /\ p.fsize = 0))
    BY <1>3, <2>2, MarksKeep DEF SameMarks
  <2> QED  BY <2>1, <2>2, <2>3, <2>4, SeekMoves
<1> QED  BY <1>2, <1>3

\* What a call in progress has.
LEMMA LossFacts ==
  ASSUME NEW own, VolumeInv(own), LossInv(own), faults = 0, call.at # "idle"
  PROVE  \E n \in Names, w \in Seq(Clusters), e \in Entries, o \in Files :
           /\ n = call.n /\ w = own[n] /\ e = EntNow[n] /\ o = obj[n]
           /\ FileOk(w, e, o) /\ PlaceOk(w, e, o, call) /\ Hanging(w, e, o, call)
           /\ call \in Calling /\ obj \in [Names -> Files] /\ last \in Nat /\ WinOk
           /\ o.sclust \in Clusters \cup {0}
<1>1. PICK n \in Names : n = call.n /\ Busy(n) /\ PlaceOk(own[n], EntNow[n], obj[n], call)
  BY CallFacts
<1>2. /\ obj[n] \in Files /\ own[n] \in Seq(Clusters) /\ EntNow[n] \in Entries
      /\ FileOk(own[n], EntNow[n], obj[n]) /\ obj \in [Names -> Files] /\ call \in Calling
      /\ last \in Nat /\ WinOk
  BY FileFacts
<1>3. Hanging(own[n], EntNow[n], obj[n], call)  BY <1>1 DEF LossInv
<1>4. obj[n].sclust \in Clusters \cup {0}
  BY <1>2, <1>3 DEF Hanging, Hangs, FileOk, LiesOn
<1> QED  BY <1>1, <1>2, <1>3, <1>4

\* A file at rest.
LEMMA RestFacts ==
  ASSUME NEW own, VolumeInv(own), LossInv(own), faults = 0, call.at = "idle", NEW n \in Names
  PROVE  \E w \in Seq(Clusters), e \in Entries, o \in Files :
           /\ w = own[n] /\ e = EntNow[n] /\ o = obj[n]
           /\ FileOk(w, e, o) /\ Hangs(w, e, o) /\ Noted(e, o)
           /\ obj \in [Names -> Files] /\ last \in Nat
           /\ o.sclust \in Clusters \cup {0}
<1>1. /\ obj[n] \in Files /\ own[n] \in Seq(Clusters) /\ EntNow[n] \in Entries
      /\ FileOk(own[n], EntNow[n], obj[n]) /\ obj \in [Names -> Files] /\ last \in Nat
  BY FileFacts
<1>2. Hangs(own[n], EntNow[n], obj[n]) /\ Noted(EntNow[n], obj[n])
  BY DEF LossInv, Busy
<1>3. obj[n].sclust \in Clusters \cup {0}
  BY <1>1, <1>2 DEF Hangs, FileOk, LiesOn
<1> QED  BY <1>1, <1>2, <1>3

\* A call of one file, after which each has the chain it had before.
Quietly(own) ==
  \E n \in Names : (call.at = "idle" \/ call.n = n) /\ Moves(own[n], EntNow[n], n)

LEMMA StartsQuietly ==
  ASSUME NEW own, VolumeInv(own), LossInv(own), faults = 0, NEW n \in Names,
         \/ \E m \in {"existing", "openalways", "createalways"}, wr \in BOOLEAN :
              StartOpen(n, m, wr)
         \/ \E len \in Nat : StartRead(n, len) \/ StartWrite(n, len)
         \/ StartClose(n)
  PROVE  Quietly(own)
<1>1. call.at = "idle"  BY DEF StartOpen, StartRead, StartWrite, StartClose, CanStart
<1>2. PICK w \in Seq(Clusters), e \in Entries, o \in Files :
        /\ w = own[n] /\ e = EntNow[n] /\ o = obj[n]
        /\ FileOk(w, e, o) /\ Hangs(w, e, o) /\ Noted(e, o)
        /\ obj \in [Names -> Files] /\ last \in Nat
        /\ o.sclust \in Clusters \cup {0}
  BY <1>1, RestFacts
<1>3. ASSUME NEW m \in {"existing", "openalways", "createalways"}, NEW wr \in BOOLEAN,
             StartOpen(n, m, wr)
      PROVE  Moves(w, e, n)
  <2> DEFINE cl == [Idle EXCEPT !.at = "find", !.op = "open", !.n = n, !.m = m, !.wr = wr]
  <2>1. call' = cl /\ obj' = [obj EXCEPT ![n] = o]  BY <1>2, <1>3 DEF StartOpen
  <2>2. cl.at = "find" /\ cl.n = n /\ cl.op = "open"  BY DEF Idle
  <2> HIDE DEF cl
  <2>3. Hanging(w, e, o, cl)  BY <1>2, <2>2 DEF Hanging
  <2> QED  BY <2>1, <2>2, <2>3 DEF Moves
<1>4. ASSUME NEW len \in Nat, StartRead(n, len)
      PROVE  Moves(w, e, n)
  <2>1. ReadOn(o, Begin(n, "read", len))  BY <1>2, <1>4 DEF StartRead
  <2>2. PICK cl \in Calling : cl = Begin(n, "read", len) /\ cl.n = n /\ cl.op = "read"
    BY Records
  <2> QED  BY <1>2, <2>1, <2>2, ReadMoves
<1>5. ASSUME NEW len \in Nat, StartWrite(n, len)
      PROVE  Moves(w, e, n)
  <2> DEFINE b == Begin(n, "write", len)
  <2> DEFINE cl == [b EXCEPT !.from = o.fptr]
  <2>1. WriteOn(o, cl)  BY <1>2, <1>5 DEF StartWrite
  <2>2. b \in Calling /\ b.n = n /\ b.op = "write"  BY Records
  <2> HIDE DEF b
  <2>3. cl \in Calling /\ cl.n = n /\ cl.op = "write"  BY <2>2 DEF Calling, Files
  <2> HIDE DEF cl
  <2> QED  BY <1>2, <2>1, <2>3, WriteMoves
<1>6. ASSUME StartClose(n)
      PROVE  Moves(w, e, n)
  <2>1. CASE o.written
    <3> DEFINE b == Begin(n, "close", 0)
    <3> DEFINE cl == [b EXCEPT !.at = IF o.dirty THEN "flush" ELSE "entry"]
    <3>1. call' = cl /\ obj' = [obj EXCEPT ![n] = o]  BY <1>2, <1>6, <2>1 DEF StartClose
    <3>2. b \in Calling /\ b.n = n /\ b.op = "close"  BY Records
    <3> HIDE DEF b
    <3>3. cl.at \in {"flush", "entry"} /\ cl.n = n /\ cl.op = "close"  BY <3>2 DEF Calling
    <3> HIDE DEF cl
    <3>4. Hanging(w, e, o, cl)  BY <1>2, <3>3 DEF Hanging
    <3> QED  BY <3>1, <3>3, <3>4 DEF Moves
  <2>2. CASE ~o.written
    <3>1. obj' = [obj EXCEPT ![n] = Closed] /\ call' = call  BY <1>2, <1>6, <2>2 DEF StartClose
    <3>2. o.sclust = e.start  BY <1>2, <1>6, <2>2 DEF Noted, StartClose
    <3>3. Hangs(w, e, Closed) /\ Noted(e, Closed)
      BY <1>2, <3>2, Constants DEF Hangs, Noted, Closed
    <3> QED  BY <1>1, <3>1, <3>3 DEF Moves
  <2> QED  BY <2>1, <2>2
<1> QED  BY <1>1, <1>2, <1>3, <1>4, <1>5, <1>6 DEF Quietly

LEMMA SeekQuietly ==
  ASSUME NEW own, VolumeInv(own), LossInv(own), faults = 0, NEW n \in Names, NEW ofs \in Nat,
         StartSeek(n, ofs)
  PROVE  Quietly(own)
<1>1. call.at = "idle"  BY DEF StartSeek, CanStart
<1>2. PICK w \in Seq(Clusters), e \in Entries, o \in Files :
        /\ w = own[n] /\ e = EntNow[n] /\ o = obj[n]
        /\ FileOk(w, e, o) /\ Hangs(w, e, o) /\ Noted(e, o)
        /\ obj \in [Names -> Files] /\ last \in Nat
        /\ o.sclust \in Clusters \cup {0}
  BY <1>1, RestFacts
<1> DEFINE to == IF o.wr THEN ofs ELSE LesserOf(ofs, o.fsize)
<1> DEFINE at == SectorStart(o.fptr - 1)
<1>3. to \in Nat /\ (~o.wr /\ o.fsize = 0 => to = 0)
  BY <1>2 DEF LesserOf, Files
<1>4. PICK cl \in Calling : cl = Begin(n, "seek", to) /\ cl.n = n /\ cl.op = "seek" /\ cl.left = to
  BY <1>3, Records
<1>5. IF to = 0
      THEN obj' = [obj EXCEPT ![n].fptr = 0] /\ UNCHANGED call
      ELSE IF o.fptr > 0 /\ to > at
      THEN SeekOn([o EXCEPT !.fptr = at], [cl EXCEPT !.left = to - at], o.clust)
      ELSE IF o.sclust # 0
      THEN SeekOn([o EXCEPT !.fptr = 0, !.clust = o.sclust], cl, o.sclust)
      ELSE Goes([o EXCEPT !.fptr = 0], ScanFor(cl, 0, Hint))
  BY <1>2, <1>4 DEF StartSeek
<1>6. o.fptr > 0 => at \in Nat
  <2>1. o.fptr > 0 => o.fptr - 1 \in Nat  BY DEF Files
  <2> QED  BY <2>1, SectorStartForm
<1> HIDE DEF to, at
<1>7. Moves(w, e, n)
  <2>1. CASE to = 0
    <3> DEFINE p == [o EXCEPT !.fptr = 0]
    <3>1. obj' = [obj EXCEPT ![n] = p] /\ call' = call  BY <1>2, <1>5, <2>1
    <3>2. SameMarks(p, o)  BY DEF Files, SameMarks
    <3> HIDE DEF p
    <3>3. Hangs(w, e, p) /\ Noted(e, p)  BY <1>2, <3>2, MarksKeep
    <3> QED  BY <1>1, <3>1, <3>3 DEF Moves
  <2>2. CASE to # 0 /\ o.fptr > 0 /\ to > at
    <3> DEFINE p == [o EXCEPT !.fptr = at]
    <3> DEFINE l == to - at
    <3> DEFINE c2 == [cl EXCEPT !.left = l]
    <3>1. SeekOn(p, c2, o.clust)  BY <1>5, <2>2
    <3>2. p \in Files /\ SameMarks(p, o) /\ o.clust \in Nat  BY <1>6, <2>2 DEF Files, SameMarks
    <3>3. l \in Nat  BY <1>3, <1>6, <2>2
    <3> HIDE DEF l
    <3>4. c2 \in Calling /\ c2.n = n /\ c2.op = "seek"  BY <1>4, <3>3 DEF Calling
    <3> HIDE DEF p, c2
    <3>5. Hangs(w, e, p) /\ Noted(e, p)  BY <1>2, <3>2, MarksKeep
    <3> QED  BY <3>1, <3>2, <3>4, <3>5, SeekMoves
  <2>3. CASE to # 0 /\ ~(o.fptr > 0 /\ to > at) /\ o.sclust # 0
    <3> DEFINE p == [o EXCEPT !.fptr = 0, !.clust = o.sclust]
    <3>1. SeekOn(p, cl, o.sclust)  BY <1>5, <2>3
    <3>2. p \in Files /\ SameMarks(p, o) /\ o.sclust \in Nat  BY DEF Files, SameMarks
    <3> HIDE DEF p
    <3>3. Hangs(w, e, p) /\ Noted(e, p)  BY <1>2, <3>2, MarksKeep
    <3> QED  BY <1>4, <3>1, <3>2, <3>3, SeekMoves
  <2>4. CASE to # 0 /\ ~(o.fptr > 0 /\ to > at) /\ o.sclust = 0
    <3> DEFINE p == [o EXCEPT !.fptr = 0]
    <3> DEFINE sc == ScanFor(cl, 0, Hint)
    <3>1. Hint \in 1 .. NFatent - 1  BY <1>2, Constants DEF Hint
    <3>2. sc.at = "scan" /\ sc.n = n /\ sc.op = "seek"  BY <1>4, <3>1, ScanForm, SMTT(30)
    <3>3. obj' = [obj EXCEPT ![n] = p] /\ call' = sc  BY <1>5, <2>4, <3>2 DEF Goes
    <3>4. SameMarks(p, o)  BY DEF Files, SameMarks
    <3> HIDE DEF p, sc
    <3>5. Hangs(w, e, p) /\ Noted(e, p)  BY <1>2, <3>4, MarksKeep
    <3>6. o.wr  BY <1>2, <1>3, <2>4, Constants DEF FileOk, LiesOn, Files
    <3>7. Hanging(w, e, p, sc)  BY <3>2, <3>4, <3>5, <3>6 DEF Hanging, SameMarks
    <3> QED  BY <3>2, <3>3, <3>7 DEF Moves
  <2> QED  BY <2>1, <2>2, <2>3, <2>4
<1> QED  BY <1>1, <1>2, <1>7 DEF Quietly

LEMMA AtDirectory ==
  ASSUME NEW own, VolumeInv(own), LossInv(own), faults = 0, FindExisting \/ BackToEntry
  PROVE  Quietly(own)
<1>1. win.copy = EntNow /\ call.at \in {"find", "back"}
  BY DirHere DEF FindExisting, BackToEntry
<1>2. PICK n \in Names, w \in Seq(Clusters), e \in Entries, o \in Files :
           /\ n = call.n /\ w = own[n] /\ e = EntNow[n] /\ o = obj[n]
           /\ FileOk(w, e, o) /\ PlaceOk(w, e, o, call) /\ Hanging(w, e, o, call)
  BY <1>1, LossFacts
<1>3. o = Closed /\ Hangs(w, e, o)  BY <1>1, <1>2 DEF PlaceOk, FileOk, Hanging
<1>4. w # <<>> => w[1] = e.start
  <2>1. w # <<>> => w[1] \in Clusters  BY Rest
  <2>2. Closed.sclust = 0  BY DEF Closed
  <2> QED  BY <1>3, <2>1, <2>2, Constants DEF Hangs
<1>5. ASSUME NEW fresh \in BOOLEAN, Return(Opened(e, fresh))
      PROVE  Moves(w, e, n)
  <2>1. Opened(e, fresh).sclust = e.start  BY DEF Opened, Closed
  <2>2. obj' = [obj EXCEPT ![n] = Opened(e, fresh)] /\ call' = Idle
    BY <1>2, <1>5 DEF Return
  <2>3. Hangs(w, e, Opened(e, fresh)) /\ Noted(e, Opened(e, fresh))
    BY <1>3, <1>4, <2>1 DEF Hangs, Noted
  <2> QED  BY <2>2, <2>3, Records DEF Moves
<1>6. ASSUME Return(Closed)
      PROVE  Moves(w, e, n)
  <2>1. obj' = [obj EXCEPT ![n] = Closed] /\ call' = Idle  BY <1>2, <1>6 DEF Return
  <2>2. Hangs(w, e, Closed) /\ Noted(e, Closed)  BY <1>3, Records DEF Noted
  <2> QED  BY <2>1, <2>2, Records DEF Moves
<1>7. \/ \E fresh \in BOOLEAN : Return(Opened(e, fresh))
      \/ Return(Closed)
  BY <1>1, <1>2 DEF FindExisting, BackToEntry
<1> QED  BY <1>2, <1>5, <1>6, <1>7 DEF Quietly

\* The search for a cluster.
LEMMA SearchQuietly ==
  ASSUME NEW own, VolumeInv(own), LossInv(own), faults = 0, Stretch \/ ScanPasses
  PROVE  Quietly(own)
<1>1. call.at \in {"stretch", "scan"} /\ win.sect = Need
  BY DEF Stretch, ScanPasses, InWindow
<1>2. PICK n \in Names, w \in Seq(Clusters), e \in Entries, o \in Files :
           /\ n = call.n /\ w = own[n] /\ e = EntNow[n] /\ o = obj[n]
           /\ FileOk(w, e, o) /\ PlaceOk(w, e, o, call) /\ Hanging(w, e, o, call)
           /\ call \in Calling /\ obj \in [Names -> Files] /\ last \in Nat /\ WinOk
           /\ o.sclust \in Clusters \cup {0}
  BY <1>1, LossFacts
<1>3. o.open /\ call.op \in {"write", "seek"} /\ o.sclust # DiskErr
  BY <1>1, <1>2, Constants DEF PlaceOk, InOk, FirstOk, AfterOk
<1>4. CASE Stretch
  <2>1. call.at = "stretch" /\ InOk(w, o, call)  BY <1>2, <1>4 DEF Stretch, InWindow, PlaceOk
  <2>2. PICK j \in 1 .. Len(w) : call.c = w[j]
    BY <1>3, <2>1 DEF InOk, SeekOk, StartOk, PtrOk
  <2>3. call.c \in Clusters  BY <2>2, LenProperties, ElementOfSeq
  <2>4. FatEntry(call.c) = FatNow[call.c]
    BY <1>1, <2>1, <2>3, FatHere DEF FatEntry, Need
  <2>5. FatNow[w[j]] = IF j < Len(w) THEN w[j + 1] ELSE EOC  BY <1>2, LinkedAt
  <2>6. CASE j < Len(w)
    <3>1. Len(w) \in Nat /\ j + 1 \in 1 .. Len(w)  BY <2>6, LenProperties
    <3>2. PICK r \in Clusters : r = w[j + 1] /\ r = FatEntry(call.c)
      BY <2>2, <2>4, <2>5, <2>6, <3>1, ElementOfSeq
    <3>3. ChainReturns(r)
      <4>1. r \in Clusters \cup {0, 1} /\ ~(r < 2) /\ FatEntry(call.c) = r
        BY FatAssumption, <3>2 DEF Clusters
      <4> QED  BY <1>4, <4>1 DEF Stretch
    <3>4. call.op = "write" => o.fptr > 0  BY <2>1 DEF InOk
    <3>5. call.op = "seek" => call.left > SS  BY <2>1 DEF InOk
    <3>6. Hangs(w, e, o) /\ (call.op = "seek" => Noted(e, o) \/ (o.wr /\ o.fsize = 0))
      BY <1>2, <2>1 DEF Hanging
    <3> QED  BY <1>2, <1>3, <2>3, <3>3, <3>4, <3>5, <3>6, NextMoves DEF Quietly
  <2>7. CASE ~(j < Len(w))
    <3>1. FatEntry(call.c) = EOC /\ EOC \notin Clusters \cup {0, 1}
      BY <2>2, <2>4, <2>5, <2>7, FatAssumption DEF EOC, Clusters
    <3>2. call' = ScanFor(call, call.c, call.c) /\ obj' = obj  BY <1>4, <3>1 DEF Stretch
    <3>3. call.c \in 1 .. NFatent - 1 /\ call.c \in Nat /\ call.c # 0  BY <2>3, Constants
    <3>4. call'.at = "scan" /\ call'.c = call.c /\ call'.n = n /\ call'.op = call.op
      BY <1>2, <3>2, <3>3, ScanForm
    <3>5. Hanging(w, e, o, call')  BY <1>2, <2>1, <3>3, <3>4 DEF Hanging
    <3>6. obj' = [obj EXCEPT ![n] = o]  BY <1>2, <3>2
    <3> QED  BY <1>2, <3>4, <3>5, <3>6 DEF Moves, Quietly
  <2> QED  BY <2>6, <2>7
<1>5. CASE ScanPasses
  <2>1. call.at = "scan"  BY <1>5 DEF ScanPasses, InWindow
  <2>2. CASE ChainReturns(0)
    <3>1. call.c = 0 => o.sclust = 0  BY <1>2, <2>1 DEF PlaceOk, FirstOk
    <3> QED  BY <1>2, <1>3, <2>1, <2>2, <3>1, FullMoves DEF Quietly
  <2>3. CASE call' = [call EXCEPT !.k = Next1(@)] /\ obj' = obj
    <3>1. call'.at = "scan" /\ call'.c = call.c /\ call'.n = n /\ call'.op = call.op
      BY <1>2, <2>1, <2>3 DEF Calling
    <3>2. Hanging(w, e, o, call')  BY <1>2, <2>1, <3>1 DEF Hanging
    <3>3. obj' = [obj EXCEPT ![n] = o]  BY <1>2, <2>3
    <3> QED  BY <1>2, <3>1, <3>2, <3>3 DEF Moves, Quietly
  <2> QED  BY <1>5, <2>2, <2>3 DEF ScanPasses
<1> QED  BY <1>4, <1>5

LEMMA BufferQuietly ==
  ASSUME NEW own, VolumeInv(own), LossInv(own), faults = 0, FlushBuffer \/ ReadEnds
  PROVE  Quietly(own)
<1>1. call.at \in {"store", "flush", "fetch", "fill", "got"}
  BY DEF FlushBuffer, BufferInWay, ReadEnds
<1>2. PICK n \in Names, w \in Seq(Clusters), e \in Entries, o \in Files :
           /\ n = call.n /\ w = own[n] /\ e = EntNow[n] /\ o = obj[n]
           /\ FileOk(w, e, o) /\ PlaceOk(w, e, o, call) /\ Hanging(w, e, o, call)
           /\ call \in Calling
  BY <1>1, LossFacts
<1>3. CASE ReadEnds
  <2>1. obj' = [obj EXCEPT ![n] = o] /\ call' = Idle /\ call.at = "got"
    BY <1>2, <1>3 DEF ReadEnds, Return
  <2>2. Hangs(w, e, o) /\ Noted(e, o)  BY <1>2, <2>1 DEF Hanging, PlaceOk
  <2> QED  BY <1>2, <2>1, <2>2, Records DEF Moves, Quietly
<1>4. CASE FlushBuffer
  <2> DEFINE p == [o EXCEPT !.dirty = FALSE]
  <2> DEFINE cl == IF call.at = "flush" THEN [call EXCEPT !.at = "entry"] ELSE call
  <2>1. cl.n = n /\ cl.op = call.op /\ cl.at \in {"store", "entry", "fetch", "fill", "got"}
        /\ cl.c = call.c
    BY <1>1, <1>2 DEF Calling
  <2>2. obj' = [obj EXCEPT ![n] = p] /\ call' = cl
    BY <1>2, <1>4, <2>1 DEF FlushBuffer, Goes
  <2>3. SameMarks(p, o)  BY DEF Files, SameMarks
  <2> HIDE DEF p, cl
  <2>4. Hanging(w, e, p, cl)
    <3>1. Hangs(w, e, p)  BY <1>1, <1>2, <2>3, MarksKeep DEF Hanging
    <3>2. Noted(e, o) => Noted(e, p)  BY <2>3, MarksKeep
    <3> QED  BY <1>1, <1>2, <2>1, <2>3, <3>1, <3>2 DEF Hanging, SameMarks
  <2> QED  BY <1>2, <2>1, <2>2, <2>4 DEF Moves, Quietly
<1> QED  BY <1>3, <1>4

LEMMA WritesQuietly ==
  ASSUME NEW own, VolumeInv(own), LossInv(own), faults = 0,
         WriteInside \/ WriteSector \/ WritePart
  PROVE  Quietly(own)
<1>1. call.at \in {"inside", "store"}  BY DEF WriteInside, WriteSector, WritePart
<1>2. PICK n \in Names, w \in Seq(Clusters), e \in Entries, o \in Files :
           /\ n = call.n /\ w = own[n] /\ e = EntNow[n] /\ o = obj[n]
           /\ FileOk(w, e, o) /\ PlaceOk(w, e, o, call) /\ Hanging(w, e, o, call)
           /\ call \in Calling /\ obj \in [Names -> Files] /\ last \in Nat /\ WinOk
           /\ o.sclust \in Clusters \cup {0}
  BY <1>1, LossFacts
<1>3. Hangs(w, e, o) /\ call.op = "write"
  BY <1>1, <1>2 DEF Hanging, PlaceOk, WriteInside, WriteSector, WritePart
<1>4. ASSUME NEW q \in Files, SameMarks(q, o), NEW d \in 0 .. call.left,
             NEW p \in Files, SameMarks(p, Advance(q, d)),
             WriteOn(p, [call EXCEPT !.left = @ - d])
      PROVE  Moves(w, e, n)
  <2>1. d \in Nat /\ call.left - d \in Nat  BY <1>2 DEF Calling
  <2>2. SameMarks(Advance(q, d), q)  BY <2>1, AdvanceForm DEF SameMarks
  <2>3. SameMarks(p, o)  BY <1>4, <2>2 DEF SameMarks
  <2> DEFINE l == call.left - d
  <2> DEFINE cl == [call EXCEPT !.left = l]
  <2>4. WriteOn(p, cl)  BY <1>4
  <2>5. l \in Nat  BY <2>1
  <2> HIDE DEF l
  <2>6. cl \in Calling /\ cl.n = n /\ cl.op = "write"  BY <1>2, <1>3, <2>5 DEF Calling
  <2> HIDE DEF cl
  <2>7. Hangs(w, e, p) /\ p.sclust \in Clusters \cup {0}
    BY <1>2, <1>3, <2>3, MarksKeep DEF SameMarks
  <2> QED  BY <1>2, <2>4, <2>6, <2>7, WriteMoves
<1>5. ASSUME NEW q \in Files, NEW d \in 0 .. call.left
      PROVE  LET p == [Advance(q, d) EXCEPT !.dirty = TRUE, !.bufv = call.n]
             IN  p \in Files /\ SameMarks(p, Advance(q, d))
  <2>1. d \in Nat  BY <1>2 DEF Calling
  <2>2. Advance(q, d) \in Files  BY <2>1, AdvanceForm
  <2> QED  BY <1>2, <2>2 DEF Files, SameMarks, Labels
<1>6. CASE WriteInside
  <2>1. InsideOk(w, o, call)  BY <1>2, <1>3, <1>6 DEF PlaceOk, WriteInside
  <2>2. PICK d \in 0 .. call.left : d = LesserOf(call.left, SS - (o.fptr % SS))
    <3>1. call.left \in Nat /\ o.fptr \in Int /\ SS \in Nat \ {0}
      BY <1>2, FatAssumption DEF Calling, Files
    <3>2. o.fptr % SS \in 0 .. SS - 1  BY <3>1, Quotient
    <3>3. PICK t \in Nat : t = SS - (o.fptr % SS)  BY <3>1, <3>2
    <3> QED  BY <3>1, <3>3 DEF LesserOf
  <2>3. PutBuffer(o, d)  BY <1>2, <1>6, <2>2 DEF WriteInside
  <2>4. SameMarks(o, o)  BY DEF SameMarks
  <2> QED  BY <1>2, <1>4, <1>5, <2>3, <2>4 DEF PutBuffer, Quietly
<1>7. CASE WritePart
  <2> DEFINE q == [o EXCEPT !.dsect = o.clust]
  <2>1. q \in Files /\ SameMarks(q, o)  BY DEF Files, SameMarks
  <2>2. PutBuffer(q, call.left)  BY <1>2, <1>7 DEF WritePart
  <2>3. call.left \in 0 .. call.left  BY <1>2 DEF Calling
  <2> HIDE DEF q
  <2> QED  BY <1>2, <1>4, <1>5, <2>1, <2>2, <2>3 DEF PutBuffer, Quietly
<1>8. CASE WriteSector
  <2> DEFINE b == IF o.dsect = o.clust THEN call.n ELSE Advance(o, SS).bufv
  <2> DEFINE p == [Advance(o, SS) EXCEPT !.bufv = b]
  <2>1. SS \in 0 .. call.left /\ SS \in Nat  BY <1>2, <1>8, FatAssumption DEF WriteSector, Calling
  <2>2. WriteOn(p, [call EXCEPT !.left = @ - SS])  BY <1>2, <1>8 DEF WriteSector
  <2>3. Advance(o, SS) \in Files  BY <2>1, AdvanceForm
  <2>4. b \in Labels  BY <1>2, <2>3 DEF Files, Labels
  <2> HIDE DEF b
  <2>5. p \in Files /\ SameMarks(p, Advance(o, SS))  BY <2>3, <2>4 DEF Files, SameMarks
  <2>6. SameMarks(o, o)  BY DEF SameMarks
  <2> HIDE DEF p
  <2> QED  BY <1>2, <1>4, <2>1, <2>2, <2>5, <2>6 DEF Quietly
<1> QED  BY <1>6, <1>7, <1>8

LEMMA ReadsQuietly ==
  ASSUME NEW own, VolumeInv(own), LossInv(own), faults = 0,
         ReadInside \/ ReadSector \/ ReadPart
  PROVE  Quietly(own)
<1>1. call.at \in {"inside", "fetch"}  BY DEF ReadInside, ReadSector, ReadPart
<1>2. PICK n \in Names, w \in Seq(Clusters), e \in Entries, o \in Files :
           /\ n = call.n /\ w = own[n] /\ e = EntNow[n] /\ o = obj[n]
           /\ FileOk(w, e, o) /\ PlaceOk(w, e, o, call) /\ Hanging(w, e, o, call)
           /\ call \in Calling /\ obj \in [Names -> Files] /\ last \in Nat /\ WinOk
           /\ o.sclust \in Clusters \cup {0}
  BY <1>1, LossFacts
<1>3. Hangs(w, e, o) /\ Noted(e, o) /\ call.op = "read"
  BY <1>1, <1>2 DEF Hanging, PlaceOk, ReadInside, ReadSector, ReadPart
<1>4. ASSUME NEW q \in Files, SameMarks(q, o), NEW d \in 0 .. call.left, NEW v \in Labels,
             Deliver(q, d, v)
      PROVE  Moves(w, e, n)
  <2>1. d \in Nat /\ call.left - d \in Nat /\ q.fptr + d \in Nat /\ 1 + q.fptr \div SS \in Nat
    <3>1. q.fptr \in Nat /\ call.left \in Nat /\ SS \in Nat \ {0}
      BY <1>2, FatAssumption DEF Calling, Files
    <3>2. q.fptr \div SS \in Nat  BY <3>1
    <3> QED  BY <3>1, <3>2
  <2> DEFINE f == q.fptr + d
  <2> DEFINE s == 1 + q.fptr \div SS
  <2> DEFINE l == call.left - d
  <2> DEFINE p == [q EXCEPT !.fptr = f]
  <2> DEFINE got == [call EXCEPT !.left = l, !.v = v, !.c = 0, !.scl = s]
  <2>2. IF got.left > 0 THEN ReadOn(p, got) ELSE Goes(p, [got EXCEPT !.at = "got"])
    BY <1>4 DEF Deliver
  <2>3. f \in Nat /\ s \in Nat /\ l \in Nat  BY <2>1
  <2> HIDE DEF f, s, l
  <2>4. p \in Files /\ SameMarks(p, o)  BY <1>4, <2>3 DEF Files, SameMarks
  <2>5. got \in Calling /\ got.n = n /\ got.op = "read"  BY <1>2, <1>3, <2>3 DEF Calling
  <2>6. Hangs(w, e, p) /\ Noted(e, p)  BY <1>3, <2>4, MarksKeep
  <2> HIDE DEF p, got
  <2>7. CASE got.left > 0
    BY <2>2, <2>4, <2>5, <2>6, <2>7, ReadMoves
  <2>8. CASE ~(got.left > 0)
    <3> DEFINE c2 == [got EXCEPT !.at = "got"]
    <3>1. c2.at = "got" /\ c2.n = n /\ c2.op = "read"  BY <2>5 DEF Calling
    <3>2. Goes(p, c2)  BY <2>2, <2>8
    <3> HIDE DEF c2
    <3>3. Hanging(w, e, p, c2)  BY <2>6, <3>1 DEF Hanging
    <3> QED  BY <3>1, <3>2, <3>3 DEF Goes, Moves
  <2> QED  BY <2>7, <2>8
<1>5. call.left \in Nat /\ o.fptr \in Int /\ SS \in Nat \ {0} /\ o.bufv \in Labels
  BY <1>2, FatAssumption DEF Calling, Files
<1>6. SameMarks(o, o)  BY DEF SameMarks
<1>7. CASE ReadInside
  <2>1. PICK d \in 0 .. call.left : d = LesserOf(call.left, SS - (o.fptr % SS))
    <3>1. o.fptr % SS \in 0 .. SS - 1  BY <1>5, Quotient
    <3>2. PICK t \in Nat : t = SS - (o.fptr % SS)  BY <1>5, <3>1
    <3> QED  BY <1>5, <3>2 DEF LesserOf
  <2>2. Deliver(o, d, o.bufv)  BY <1>2, <1>7, <2>1 DEF ReadInside
  <2> QED  BY <1>2, <1>4, <1>5, <1>6, <2>2 DEF Quietly
<1>8. ASSUME ReadSector \/ ReadPart
      PROVE  card.data[o.clust] \in Labels /\ o.clust \in Nat
  <2>1. StartOk(w, o)  BY <1>2, <1>8 DEF ReadSector, ReadPart, PlaceOk, SectorOk
  <2>2. PICK j \in 1 .. Len(w) : o.clust = w[j]  BY <2>1 DEF StartOk
  <2>3. o.clust \in Clusters  BY <2>2, LenProperties, ElementOfSeq
  <2> QED  BY <1>2, <2>3, Constants, DataOnCard
<1>9. CASE ReadSector
  <2>1. SS \in 0 .. call.left  BY <1>5, <1>9 DEF ReadSector
  <2>2. PICK v \in Labels : Deliver(o, SS, v)  BY <1>2, <1>5, <1>8, <1>9 DEF ReadSector
  <2> QED  BY <1>2, <1>4, <1>6, <2>1, <2>2 DEF Quietly
<1>10. CASE ReadPart
  <2>1. call.left \in 0 .. call.left  BY <1>5
  <2>2. CASE o.dsect = o.clust
    <3>1. Deliver(o, call.left, o.bufv)  BY <1>2, <1>10, <2>2 DEF ReadPart
    <3> QED  BY <1>2, <1>4, <1>5, <1>6, <2>1, <3>1 DEF Quietly
  <2>3. CASE o.dsect # o.clust
    <3>1. PICK v \in Labels : v = card.data[o.clust]  BY <1>8, <1>10
    <3> DEFINE q == [o EXCEPT !.dsect = o.clust, !.bufv = v]
    <3>2. Deliver(q, call.left, v)  BY <1>2, <1>10, <2>3, <3>1 DEF ReadPart
    <3>3. q \in Files /\ SameMarks(q, o)  BY DEF Files, SameMarks
    <3> HIDE DEF q
    <3> QED  BY <1>2, <1>4, <2>1, <3>2, <3>3 DEF Quietly
  <2> QED  BY <2>2, <2>3
<1> QED  BY <1>7, <1>9, <1>10

LEMMA FollowQuietly ==
  ASSUME NEW own, VolumeInv(own), LossInv(own), faults = 0, Follow
  PROVE  Quietly(own)
<1>1. call.at = "follow"  BY DEF Follow, InWindow
<1>2. PICK n \in Names, w \in Seq(Clusters), e \in Entries, o \in Files :
           /\ n = call.n /\ w = own[n] /\ e = EntNow[n] /\ o = obj[n]
           /\ FileOk(w, e, o) /\ PlaceOk(w, e, o, call) /\ Hanging(w, e, o, call)
           /\ call \in Calling
  BY <1>1, LossFacts
<1>3. InOk(w, o, call) /\ call.op \in {"read", "seek"}  BY <1>1, <1>2 DEF PlaceOk
<1>4. Hangs(w, e, o) /\ Noted(e, o)  BY <1>1, <1>2, <1>3 DEF Hanging
<1> DEFINE r == FatEntry(call.c)
<1>5. CASE r \notin Clusters
  <2> DEFINE p == [o EXCEPT !.err = TRUE, !.sclust = @]
  <2>1. obj' = [obj EXCEPT ![n] = p] /\ call' = Idle
    BY <1>1, <1>2, <1>3, <1>5 DEF Follow, Abort, Forget, Return
  <2>2. SameMarks(p, o)  BY DEF Files, SameMarks
  <2> HIDE DEF p
  <2>3. Hangs(w, e, p) /\ Noted(e, p)  BY <1>4, <2>2, MarksKeep
  <2> QED  BY <1>2, <2>1, <2>3, Records DEF Moves, Quietly
<1>6. CASE r \in Clusters /\ call.op = "read"
  <2> DEFINE p == [o EXCEPT !.clust = r]
  <2> DEFINE cl == [call EXCEPT !.at = "fetch"]
  <2>1. Goes(p, cl)  BY <1>2, <1>6 DEF Follow
  <2>2. cl.at = "fetch" /\ cl.n = n /\ cl.op = "read"  BY <1>2, <1>6 DEF Calling
  <2>3. SameMarks(p, o)  BY DEF Files, SameMarks
  <2> HIDE DEF p, cl
  <2>4. Hanging(w, e, p, cl)
    <3>1. Hangs(w, e, p) /\ Noted(e, p)  BY <1>4, <2>3, MarksKeep
    <3> QED  BY <2>2, <3>1 DEF Hanging
  <2> QED  BY <1>2, <2>1, <2>2, <2>4 DEF Goes, Moves, Quietly
<1>7. CASE r \in Clusters /\ call.op = "seek"
  <2> DEFINE f == o.fptr + SS
  <2> DEFINE l == call.left - SS
  <2> DEFINE p == [o EXCEPT !.clust = r, !.fptr = f]
  <2> DEFINE cl == [call EXCEPT !.left = l]
  <2>1. SeekOn(p, cl, r)  BY <1>2, <1>7 DEF Follow
  <2>2. f \in Nat /\ l \in Nat /\ r \in Nat
    <3>1. call.left > SS /\ call.left \in Nat /\ SS \in Nat /\ o.fptr \in Nat
      BY <1>2, <1>3, <1>7, FatAssumption DEF InOk, Calling, Files
    <3>2. r \in Nat  BY <1>7, Constants
    <3> HIDE DEF r
    <3> QED  BY <3>1, <3>2
  <2> HIDE DEF f, l, r
  <2>3. p \in Files /\ SameMarks(p, o)  BY <2>2 DEF Files, SameMarks
  <2>4. cl \in Calling /\ cl.n = n /\ cl.op = "seek"  BY <1>2, <1>7, <2>2 DEF Calling
  <2> HIDE DEF p, cl
  <2>5. Hangs(w, e, p) /\ Noted(e, p)  BY <1>4, <2>3, MarksKeep
  <2> QED  BY <1>2, <2>1, <2>2, <2>3, <2>4, <2>5, SeekMoves DEF Quietly
<1> QED  BY <1>3, <1>5, <1>6, <1>7

LEMMA SeekEndsQuietly ==
  ASSUME NEW own, VolumeInv(own), LossInv(own), faults = 0, SeekEnds
  PROVE  Quietly(own)
<1>1. call.at = "fill"  BY DEF SeekEnds
<1>2. PICK n \in Names, w \in Seq(Clusters), e \in Entries, o \in Files :
           /\ n = call.n /\ w = own[n] /\ e = EntNow[n] /\ o = obj[n]
           /\ FileOk(w, e, o) /\ PlaceOk(w, e, o, call) /\ Hanging(w, e, o, call)
           /\ call \in Calling /\ obj \in [Names -> Files] /\ last \in Nat /\ WinOk
           /\ o.sclust \in Clusters \cup {0}
  BY <1>1, LossFacts
<1>3. call.op = "seek" /\ o.fptr > 0 /\ PtrOk(w, o) /\ call.c = o.clust
  BY <1>1, <1>2 DEF PlaceOk
<1>4. Hangs(w, e, o) /\ (Noted(e, o) \/ o.fsize = 0)  BY <1>1, <1>2, <1>3 DEF Hanging
<1>5. call.c \in Clusters
  <2>1. PICK j \in 1 .. Len(w) : o.clust = w[j]  BY <1>2, <1>3, Constants DEF PtrOk
  <2> QED  BY <1>3, <2>1, LenProperties, ElementOfSeq
<1>6. ASSUME NEW q \in Files, SameMarks(q, o), q.fptr = o.fptr, Return(Sought(q))
      PROVE  Moves(w, e, n)
  <2>1. Hangs(w, e, q) /\ (Noted(e, q) \/ (q.fsize = 0 /\ q.fptr > 0))
    BY <1>3, <1>4, <1>6, MarksKeep DEF SameMarks
  <2>2. Hangs(w, e, Sought(q)) /\ Noted(e, Sought(q))  BY <2>1, StretchedHangs
  <2>3. obj' = [obj EXCEPT ![n] = Sought(q)] /\ call' = Idle  BY <1>2, <1>6 DEF Return
  <2> QED  BY <2>2, <2>3, Records DEF Moves
<1>7. CASE o.fptr % SS = 0 \/ o.dsect = call.c
  <2>1. Return(Sought(o))  BY <1>2, <1>7 DEF SeekEnds
  <2>2. SameMarks(o, o)  BY DEF SameMarks
  <2> QED  BY <1>2, <1>6, <2>1, <2>2 DEF Quietly
<1>8. CASE ~(o.fptr % SS = 0 \/ o.dsect = call.c)
  <2>1. PICK v \in Labels : v = card.data[call.c]  BY <1>2, <1>5, DataOnCard
  <2> DEFINE q == [o EXCEPT !.dsect = call.c, !.bufv = v]
  <2>2. Return(Sought(q))  BY <1>2, <1>5, <1>8, <2>1 DEF SeekEnds
  <2>3. q \in Files /\ SameMarks(q, o) /\ q.fptr = o.fptr
    BY <1>2, <2>1 DEF Files, SameMarks, Calling
  <2> HIDE DEF q
  <2> QED  BY <1>2, <1>6, <2>2, <2>3 DEF Quietly
<1> QED  BY <1>7, <1>8

\* The entry of a file is written.
LEMMA CreatesLoss ==
  ASSUME NEW own, VolumeInv(own), LossInv(own), FindCreates, bound' = bound
  PROVE  LossInv(own)'
<1>1. win.copy = EntNow /\ call.at = "find" /\ faults' = faults
  BY DirHere DEF FindCreates
<1>2. SUFFICES ASSUME faults = 0  PROVE LossInv(own)'
  BY <1>1 DEF LossInv
<1>3. PICK n \in Names, w \in Seq(Clusters), e \in Entries, o \in Files :
           /\ n = call.n /\ w = own[n] /\ e = EntNow[n] /\ o = obj[n]
           /\ FileOk(w, e, o) /\ PlaceOk(w, e, o, call) /\ Hanging(w, e, o, call)
           /\ call \in Calling /\ obj \in [Names -> Files] /\ last \in Nat /\ WinOk
           /\ o.sclust \in Clusters \cup {0}
  BY <1>1, <1>2, LossFacts
<1>4. o = Closed /\ Hangs(w, e, o) /\ call.op = "open"
  BY <1>1, <1>3 DEF PlaceOk, FileOk, Hanging
<1>5. /\ NewEntry.start = 0 /\ NewEntry \in Entries /\ Closed.sclust = 0 /\ ~Closed.open
      /\ DiskErr # 0
  BY Constants DEF NewEntry, Closed, Entries
<1>6. w # <<>> => w[1] = e.start /\ w[1] \in Clusters
  <2>1. w # <<>> => w[1] \in Clusters  BY Rest
  <2> QED  BY <1>4, <1>5, <2>1, Constants DEF Hangs
<1>7. Moves(w, NewEntry, n)
  <2>1. CASE e.start = 0
    <3>1. win.copy[call.n].start = 0  BY <1>1, <1>3, <2>1
    <3>2. Return(Opened(NewEntry, TRUE))  BY <3>1, Constants DEF FindCreates
    <3>3. w = <<>>  BY <1>6, <2>1, Constants
    <3>4. Opened(NewEntry, TRUE).sclust = 0  BY <1>5 DEF Opened, Closed
    <3>5. Hangs(w, NewEntry, Opened(NewEntry, TRUE)) /\ Noted(NewEntry, Opened(NewEntry, TRUE))
      BY <1>5, <3>3, <3>4 DEF Hangs, Noted
    <3>6. obj' = [obj EXCEPT ![n] = Opened(NewEntry, TRUE)] /\ call' = Idle
      BY <1>3, <3>2 DEF Return
    <3> QED  BY <3>5, <3>6, Records DEF Moves
  <2>2. CASE e.start \in Clusters
    <3> DEFINE cl == [call EXCEPT !.at = "free", !.c = e.start, !.k = e.start]
    <3>1. e.start # 0  BY <2>2, Constants
    <3>2. call' = cl /\ obj' = obj  BY <1>1, <1>3, <2>2, <3>1 DEF FindCreates
    <3>3. cl.at = "free" /\ cl.n = n /\ cl.op = "open"  BY <1>3, <1>4 DEF Calling
    <3> HIDE DEF cl
    <3>4. Hanging(w, NewEntry, o, cl)  BY <1>4, <1>5, <3>3 DEF Hanging, Noted
    <3>5. obj' = [obj EXCEPT ![n] = o]  BY <1>3, <3>2
    <3> QED  BY <3>2, <3>3, <3>4, <3>5 DEF Moves
  <2>3. e.start \in Clusters \cup {0}
    BY <1>3, <1>4 DEF FileOk, EntryOk, LiesOn, Hangs
  <2> QED  BY <2>1, <2>2, <2>3
<1>8. FatNow' = FatNow /\ EntNow' = [EntNow EXCEPT ![n] = NewEntry]
  BY <1>3, FindCreatesKeeps
<1>9. Held(own, FatNow', call')  BY <1>1, <1>2, <1>8 DEF LossInv, Held
<1>10. own = [own EXCEPT ![n] = w]  BY <1>3 DEF VolumeInv, Owns
<1> QED  BY <1>1, <1>2, <1>3, <1>5, <1>7, <1>8, <1>9, <1>10, LossStep

LEMMA EntryLoss ==
  ASSUME NEW own, VolumeInv(own), LossInv(own), Entry, bound' = bound
  PROVE  LossInv(own)'
<1>1. call.at = "entry" /\ faults' = faults  BY DEF Entry, InWindow
<1>2. SUFFICES ASSUME faults = 0  PROVE LossInv(own)'
  BY <1>1 DEF LossInv
<1>3. PICK n \in Names, w \in Seq(Clusters), e \in Entries, o \in Files :
           /\ n = call.n /\ w = own[n] /\ e = EntNow[n] /\ o = obj[n]
           /\ FileOk(w, e, o) /\ PlaceOk(w, e, o, call) /\ Hanging(w, e, o, call)
           /\ call \in Calling /\ obj \in [Names -> Files] /\ last \in Nat /\ WinOk
           /\ o.sclust \in Clusters \cup {0}
  BY <1>1, <1>2, LossFacts
<1>4. Hangs(w, e, o) /\ call.op = "close" /\ o.open  BY <1>1, <1>3 DEF Hanging, PlaceOk
<1>5. PICK x \in Entries : /\ x = [used |-> TRUE, start |-> o.sclust, size |-> o.fsize]
                           /\ x.start = o.sclust
  <2> DEFINE y == [used |-> TRUE, start |-> o.sclust, size |-> o.fsize]
  <2>1. y \in Entries /\ y.start = o.sclust  BY DEF Entries, Files
  <2> QED  BY <2>1
<1>6. w # <<>> => w[1] = o.sclust
  <2>1. w # <<>> => w[1] \in Clusters  BY Rest
  <2>2. e.start \in {0, o.sclust}  BY <1>3, <1>4 DEF FileOk
  <2> QED  BY <1>4, <2>1, <2>2, Constants DEF Hangs
<1>7. Moves(w, x, n)
  <2> DEFINE p == [o EXCEPT !.written = FALSE]
  <2> DEFINE cl == [call EXCEPT !.at = "sync"]
  <2>1. Goes(p, cl)  BY <1>3 DEF Entry
  <2>2. p.sclust = o.sclust  BY DEF Files
  <2>3. cl.at = "sync" /\ cl.n = n /\ cl.op = "close"  BY <1>3, <1>4 DEF Calling
  <2> HIDE DEF p, cl
  <2>4. Hangs(w, x, p) /\ Noted(x, p)  BY <1>4, <1>5, <1>6, <2>2 DEF Hangs, Noted
  <2>5. Hanging(w, x, p, cl)  BY <1>5, <2>2, <2>3, <2>4 DEF Hanging
  <2> QED  BY <2>1, <2>3, <2>5 DEF Goes, Moves
<1>8. FatNow' = FatNow /\ EntNow' = [EntNow EXCEPT ![n] = x]
  BY <1>3, <1>5, EntryKeeps
<1>9. Held(own, FatNow', call')  BY <1>1, <1>2, <1>8 DEF LossInv, Held
<1>10. own = [own EXCEPT ![n] = w]  BY <1>3 DEF VolumeInv, Owns
<1> QED  BY <1>1, <1>2, <1>3, <1>7, <1>8, <1>9, <1>10, LossStep

\* It is closed.
LEMMA SyncLoss ==
  ASSUME NEW own, VolumeInv(own), LossInv(own), Sync, bound' = bound
  PROVE  LossInv(own)'
<1>1. call.at = "sync" /\ faults' = faults /\ Return(Closed)  BY DEF Sync
<1>2. SUFFICES ASSUME faults = 0  PROVE LossInv(own)'
  BY <1>1 DEF LossInv
<1>3. PICK n \in Names, w \in Seq(Clusters), e \in Entries, o \in Files :
           /\ n = call.n /\ w = own[n] /\ e = EntNow[n] /\ o = obj[n]
           /\ Hanging(w, e, o, call)
  BY <1>1, <1>2, LossFacts
<1>4. Hangs(w, e, o) /\ o.sclust = e.start  BY <1>1, <1>3 DEF Hanging
<1>5. Hangs(w, e, Closed) /\ Noted(e, Closed)
  BY <1>4, Constants DEF Hangs, Noted, Closed
<1>6. Moves(w, e, n)  BY <1>1, <1>3, <1>5, Records DEF Return, Moves
<1>7. FatNow' = FatNow /\ EntNow' = EntNow  BY SyncKeeps
<1> QED  BY <1>1, <1>2, <1>3, <1>6, <1>7, LossQuiet

\* A cluster of a chain is freed.
LEMMA FreeLoss ==
  ASSUME NEW own, VolumeInv(own), LossInv(own), Free, bound' = bound,
         NEW own2, own2 = Freed(own, call.n)
  PROVE  LossInv(own2)'
<1>1. call.at = "free" /\ win.sect = FatSect(call.c) /\ faults' = faults
  BY DEF Free, InWindow, Need
<1>2. SUFFICES ASSUME faults = 0  PROVE LossInv(own2)'
  BY <1>1 DEF LossInv
<1>3. PICK n \in Names, w \in Seq(Clusters), e \in Entries, o \in Files :
           /\ n = call.n /\ w = own[n] /\ e = EntNow[n] /\ o = obj[n]
           /\ FileOk(w, e, o) /\ PlaceOk(w, e, o, call) /\ Hanging(w, e, o, call)
           /\ call \in Calling /\ obj \in [Names -> Files] /\ last \in Nat /\ WinOk
           /\ o.sclust \in Clusters \cup {0}
  BY <1>1, <1>2, LossFacts
<1>4. call.op = "open" /\ ~o.open /\ e.start # DiskErr /\ o.sclust # DiskErr
  BY <1>1, <1>3 DEF PlaceOk, FreeOk, Hanging
<1>5. /\ EntNow' = EntNow /\ call.c \in Clusters /\ w # <<>> /\ call.c = w[1]
      /\ FatNow' = [FatNow EXCEPT ![call.c] = 0]
      /\ FatNow[call.c] = IF Len(w) = 1 THEN EOC ELSE w[2]
  BY <1>3, FreeKeeps
<1>6. PICK t \in Seq(Clusters) :
        /\ t = Tail(w) /\ Len(t) = Len(w) - 1 /\ Len(w) \in Nat \ {0}
        /\ \A i \in 1 .. Len(w) - 1 : t[i] = w[i + 1]
        /\ t = <<>> <=> Len(w) = 1
  BY <1>5, Rest
<1>7. obj' = [obj EXCEPT ![n] = o] /\ call'.n = n /\ call'.op = "open"
      /\ \/ call'.at = "free"
         \/ call'.at = "back" /\ FatNow[call.c] \notin Clusters
  <2>1. win.copy[call.c] = FatNow[call.c]  BY <1>1, <1>5, FatHere
  <2>2. \/ call' = [call EXCEPT !.c = FatNow[call.c]]
        \/ call' = [call EXCEPT !.at = "back"] /\ FatNow[call.c] \notin Clusters
    BY <2>1 DEF Free
  <2>3. obj' = [obj EXCEPT ![n] = o]  BY <1>3 DEF Free
  <2> QED  BY <1>1, <1>3, <1>4, <2>2, <2>3 DEF Calling
<1>8. Moves(t, e, n)
  <2>1. CASE call'.at = "free"
    BY <1>4, <1>7, <2>1 DEF Hanging, Noted, Moves
  <2>2. CASE call'.at = "back" /\ FatNow[call.c] \notin Clusters
    <3>1. t = <<>>
      <4>1. Len(w) # 1 => w[2] \in Clusters  BY <1>6, ElementOfSeq
      <4> QED  BY <1>5, <1>6, <2>2, <4>1
    <3> QED  BY <1>4, <1>7, <2>2, <3>1 DEF Hanging, Hangs, Noted, Moves
  <2> QED  BY <1>7, <2>1, <2>2
<1>9. own2 = [own EXCEPT ![n] = t] /\ own \in Owns  BY <1>3, <1>6 DEF Freed, VolumeInv
<1>10. Held(own2, FatNow', call')
  <2>1. SUFFICES ASSUME NEW c \in Clusters, FatNow'[c] # 0
                 PROVE  \E m \in Names : \E i \in 1 .. Len(own2[m]) : c = own2[m][i]
    BY DEF Held
  <2>2. c # call.c /\ FatNow[c] # 0  BY <1>5, <2>1, FileFacts
  <2>3. PICK m \in Names : \E i \in 1 .. Len(own[m]) : c = own[m][i]
    BY <1>1, <1>2, <2>2 DEF LossInv, Held
  <2>6. PICK i \in 1 .. Len(own[m]) : c = own[m][i]
    BY <2>3
  <2>4. CASE m # n
    <3>1. own2[m] = own[m]  BY <1>9, <2>4 DEF Owns
    <3> QED  BY <2>6, <3>1
  <2>5. CASE m = n
    <3>1. own2[m] = t  BY <1>9, <2>5 DEF Owns
    <3>2. i # 1 /\ i \in 1 .. Len(w) /\ c = w[i]  BY <1>3, <1>5, <2>2, <2>6, <2>5
    <3>3. i - 1 \in 1 .. Len(t) /\ i - 1 \in 1 .. Len(w) - 1 /\ (i - 1) + 1 = i
      BY <1>6, <3>2
    <3>4. t[i - 1] = w[i]  BY <1>6, <3>3
    <3> QED  BY <3>1, <3>2, <3>3, <3>4
  <2> QED  BY <2>4, <2>5
<1>11. EntNow' = [EntNow EXCEPT ![n] = e]  BY <1>3, <1>5, FileFacts
<1> QED  BY <1>1, <1>2, <1>3, <1>8, <1>9, <1>10, <1>11, LossStep

\* The first cluster of a file is found.
LEMMA ScanFirstLoss ==
  ASSUME NEW own, VolumeInv(own), LossInv(own), ScanFinds, call.c = 0, bound' = bound,
         NEW own2, own2 = First(own, call.n, call.k)
  PROVE  LossInv(own2)'
<1>1. call.at = "scan" /\ win.sect = FatSect(call.k) /\ faults' = faults
      /\ ChainReturns(call.k)
  BY DEF ScanFinds, InWindow, Need
<1>2. SUFFICES ASSUME faults = 0  PROVE LossInv(own2)'
  BY <1>1 DEF LossInv
<1>3. PICK n \in Names, w \in Seq(Clusters), e \in Entries, o \in Files :
           /\ n = call.n /\ w = own[n] /\ e = EntNow[n] /\ o = obj[n]
           /\ FileOk(w, e, o) /\ PlaceOk(w, e, o, call) /\ Hanging(w, e, o, call)
           /\ call \in Calling /\ obj \in [Names -> Files] /\ last \in Nat /\ WinOk
           /\ o.sclust \in Clusters \cup {0}
  BY <1>1, <1>2, LossFacts
<1>4. /\ EntNow' = EntNow /\ call.k \in Clusters /\ FatNow' = [FatNow EXCEPT ![call.k] = EOC]
      /\ own \in Owns
  BY ScanFindsFirst DEF VolumeInv
<1>5. PICK k \in Clusters : k = call.k  BY <1>4
<1>6. FirstOk(o, call) /\ Hangs(w, e, o)  BY <1>1, <1>3 DEF PlaceOk, Hanging
<1>7. o.fptr = 0 /\ o.sclust = 0 /\ o.fsize = 0 /\ e.start = 0 /\ o.open
      /\ call.op \in {"write", "seek"} /\ (call.op = "seek" => o.wr)
  BY <1>1, <1>3, <1>6 DEF FirstOk, FileOk, LiesOn, Hanging
<1>8. w = <<>>
  <2>1. w # <<>> => w[1] \in Clusters  BY Rest
  <2> QED  BY <1>6, <1>7, <2>1, Constants DEF Hangs
<1>9. PICK t \in Seq(Clusters) : t = <<k>> /\ t[1] = k /\ Len(t) = 1
  <2>1. <<k>> \in Seq(Clusters) /\ <<k>>[1] = k /\ Len(<<k>>) = 1  OBVIOUS
  <2> QED  BY <2>1
<1>10. Moves(t, e, n)
  BY <1>1, <1>3, <1>5, <1>7, <1>9, Constants, FirstMoves
<1>11. own2 = [own EXCEPT ![n] = t]  BY <1>3, <1>5, <1>9 DEF First
<1>12. Held(own2, FatNow', call')
  <2>1. SUFFICES ASSUME NEW c \in Clusters, FatNow'[c] # 0
                 PROVE  \E m \in Names : \E i \in 1 .. Len(own2[m]) : c = own2[m][i]
    BY DEF Held
  <2>2. CASE c = k
    <3>1. own2[n] = t  BY <1>4, <1>11 DEF Owns
    <3>2. 1 \in 1 .. Len(own2[n]) /\ c = own2[n][1]  BY <1>9, <2>2, <3>1
    <3> QED  BY <3>2
  <2>3. CASE c # k
    <3>1. FatNow[c] # 0  BY <1>4, <1>5, <2>1, <2>3, FileFacts
    <3>2. PICK m \in Names : \E i \in 1 .. Len(own[m]) : c = own[m][i]
      BY <1>1, <1>2, <3>1 DEF LossInv, Held
    <3>3. m # n
      <4>1. own[n] = <<>> /\ Len(<<>>) = 0  BY <1>3, <1>8
      <4>2. SUFFICES ASSUME m = n  PROVE FALSE  OBVIOUS
      <4>3. PICK i \in 1 .. Len(own[n]) : c = own[n][i]  BY <3>2, <4>2
      <4>4. Len(own[n]) = 0  BY <4>1
      <4> QED  BY <4>3, <4>4
    <3>4. own2[m] = own[m]  BY <1>4, <1>11, <3>3 DEF Owns
    <3> QED  BY <3>2, <3>4
  <2> QED  BY <2>2, <2>3
<1>13. EntNow' = [EntNow EXCEPT ![n] = e]  BY <1>3, <1>4, FileFacts
<1> QED  BY <1>1, <1>2, <1>3, <1>10, <1>11, <1>12, <1>13, LossStep

\* One that will follow the last one is found.
LEMMA ScanNextLoss ==
  ASSUME NEW own, VolumeInv(own), LossInv(own), ScanFinds, call.c # 0, bound' = bound
  PROVE  LossInv(own)'
<1>1. call.at = "scan" /\ faults' = faults /\ call' = [call EXCEPT !.at = "link"] /\ obj' = obj
  BY DEF ScanFinds, InWindow
<1>2. SUFFICES ASSUME faults = 0  PROVE LossInv(own)'
  BY <1>1 DEF LossInv
<1>3. PICK n \in Names, w \in Seq(Clusters), e \in Entries, o \in Files :
           /\ n = call.n /\ w = own[n] /\ e = EntNow[n] /\ o = obj[n]
           /\ FileOk(w, e, o) /\ PlaceOk(w, e, o, call) /\ Hanging(w, e, o, call)
           /\ call \in Calling /\ obj \in [Names -> Files] /\ last \in Nat /\ WinOk
           /\ o.sclust \in Clusters \cup {0}
  BY <1>1, <1>2, LossFacts
<1>4. /\ EntNow' = EntNow /\ call.k \in Clusters /\ FatNow' = [FatNow EXCEPT ![call.k] = EOC]
      /\ own \in Owns
  BY ScanFindsNext DEF VolumeInv
<1>5. call'.at = "link" /\ call'.n = n /\ call'.op = call.op /\ call'.k = call.k
      /\ call.op \in {"write", "seek"}
  BY <1>1, <1>3 DEF Calling, PlaceOk, AfterOk
<1>6. Moves(w, e, n)
  <2>1. Hanging(w, e, o, call')  BY <1>1, <1>3, <1>5 DEF Hanging
  <2>2. obj' = [obj EXCEPT ![n] = o]  BY <1>1, <1>3
  <2> QED  BY <1>5, <2>1, <2>2 DEF Moves
<1>7. Held(own, FatNow', call')
  <2>1. SUFFICES ASSUME NEW c \in Clusters, FatNow'[c] # 0, c # call.k
                 PROVE  \E m \in Names : \E i \in 1 .. Len(own[m]) : c = own[m][i]
    BY <1>5 DEF Held
  <2>2. FatNow[c] # 0  BY <1>4, <2>1, FileFacts
  <2> QED  BY <1>1, <1>2, <2>2 DEF LossInv, Held
<1>8. own = [own EXCEPT ![n] = w] /\ EntNow' = [EntNow EXCEPT ![n] = e]
  BY <1>3, <1>4, FileFacts DEF Owns
<1> QED  BY <1>1, <1>2, <1>3, <1>6, <1>7, <1>8, LossStep

\* It follows it now.
LEMMA LinkLoss ==
  ASSUME NEW own, VolumeInv(own), LossInv(own), Link, bound' = bound,
         NEW own2, own2 = Longer(own, call.n, call.k)
  PROVE  LossInv(own2)'
<1>1. call.at = "link" /\ faults' = faults /\ ChainReturns(call.k)
  BY DEF Link, InWindow
<1>2. SUFFICES ASSUME faults = 0  PROVE LossInv(own2)'
  BY <1>1 DEF LossInv
<1>3. PICK n \in Names, w \in Seq(Clusters), e \in Entries, o \in Files :
           /\ n = call.n /\ w = own[n] /\ e = EntNow[n] /\ o = obj[n]
           /\ FileOk(w, e, o) /\ PlaceOk(w, e, o, call) /\ Hanging(w, e, o, call)
           /\ call \in Calling /\ obj \in [Names -> Files] /\ last \in Nat /\ WinOk
           /\ o.sclust \in Clusters \cup {0}
  BY <1>1, <1>2, LossFacts
<1>4. /\ EntNow' = EntNow /\ call.c \in Clusters /\ call.k \in Clusters
      /\ FatNow' = [FatNow EXCEPT ![call.c] = call.k] /\ own \in Owns
  BY LinkKeeps DEF VolumeInv
<1>5. PICK k \in Clusters : k = call.k  BY <1>4
<1>6. AfterOk(w, o, call) /\ Hangs(w, e, o)  BY <1>1, <1>3 DEF PlaceOk, Hanging
<1>7. /\ call.op \in {"write", "seek"} /\ w # <<>> /\ call.c = w[Len(w)]
      /\ call.op = "write" => o.fptr > 0
      /\ call.op = "seek" => call.left > SS
  BY <1>6 DEF AfterOk, InOk
<1>8. PICK t \in Seq(Clusters) :
         /\ t = Append(w, k) /\ Len(t) = Len(w) + 1 /\ t[Len(w) + 1] = k
         /\ \A i \in 1 .. Len(w) : t[i] = w[i]
  <2> DEFINE x == Append(w, k)
  <2>1. /\ x \in Seq(Clusters) /\ Len(x) = Len(w) + 1 /\ x[Len(w) + 1] = k
        /\ \A i \in 1 .. Len(w) : x[i] = w[i]
    BY Grown
  <2>2. x = Append(w, k)  OBVIOUS
  <2> HIDE DEF x
  <2> QED  BY <2>1, <2>2
<1>9. Len(w) \in Nat \ {0}  BY <1>7, LenProperties, EmptySeq
<1>10. Moves(t, e, n)
  <2>1. t[1] = w[1]  BY <1>8, <1>9
  <2>2. Hangs(t, e, o)  BY <1>6, <1>7, <2>1 DEF Hangs
  <2>3. call.op = "seek" => Noted(e, o) \/ (o.wr /\ o.fsize = 0)
    BY <1>3 DEF Hanging
  <2> QED  BY <1>1, <1>3, <1>4, <1>5, <1>7, <2>2, <2>3, NextMoves
<1>11. own2 = [own EXCEPT ![n] = t]  BY <1>3, <1>5, <1>8 DEF Longer
<1>12. Held(own2, FatNow', call')
  <2>1. SUFFICES ASSUME NEW c \in Clusters, FatNow'[c] # 0
                 PROVE  \E m \in Names : \E i \in 1 .. Len(own2[m]) : c = own2[m][i]
    BY DEF Held
  <2>2. own2[n] = t  BY <1>4, <1>11 DEF Owns
  <2>3. CASE c = k
    <3>1. Len(w) + 1 \in 1 .. Len(own2[n]) /\ c = own2[n][Len(w) + 1]
      BY <1>8, <1>9, <2>2, <2>3
    <3> QED  BY <3>1
  <2>4. CASE c # k
    <3>1. \E m \in Names : \E i \in 1 .. Len(own[m]) : c = own[m][i]
      <4>1. CASE c = call.c
        <5>1. Len(own[n]) \in 1 .. Len(own[n]) /\ c = own[n][Len(own[n])]
          BY <1>3, <1>7, <1>9, <4>1
        <5> QED  BY <5>1
      <4>2. CASE c # call.c
        <5>1. FatNow[c] # 0  BY <1>4, <2>1, <4>2, FileFacts
        <5> QED  BY <1>2, <1>5, <2>4, <5>1 DEF LossInv, Held
      <4> QED  BY <4>1, <4>2
    <3>2. PICK m \in Names : \E i \in 1 .. Len(own[m]) : c = own[m][i]  BY <3>1
    <3>3. CASE m # n
      <4>1. own2[m] = own[m]  BY <1>4, <1>11, <3>3 DEF Owns
      <4> QED  BY <3>2, <4>1
    <3>4. CASE m = n
      <4>1. PICK i \in 1 .. Len(w) : c = w[i]  BY <1>3, <3>2, <3>4
      <4>2. i \in 1 .. Len(own2[n]) /\ c = own2[n][i]  BY <1>8, <1>9, <2>2, <4>1
      <4> QED  BY <4>2
    <3> QED  BY <3>3, <3>4
  <2> QED  BY <2>3, <2>4
<1>13. EntNow' = [EntNow EXCEPT ![n] = e]  BY <1>3, <1>4, FileFacts
<1> QED  BY <1>1, <1>2, <1>3, <1>10, <1>11, <1>12, <1>13, LossStep

LEMMA QuietLoss ==
  ASSUME NEW own, VolumeInv(own), LossInv(own), faults' = faults, faults = 0,
         Quietly(own), call.at # "link", FatNow' = FatNow, EntNow' = EntNow
  PROVE  LossInv(own)'
BY LossQuiet DEF Quietly

LEMMA CallsLoss ==
  ASSUME NEW own, VolumeInv(own), LossInv(own), Calls, bound' = bound
  PROVE  LossInv(own)'
<1>1. bound.lens \subseteq Nat /\ bound.targets \subseteq Nat
  BY FatAssumption DEF VolumeInv, BaseInv, TypeOK
<1>2. PICK n \in Names :
        \/ \/ \E m \in {"existing", "openalways", "createalways"}, wr \in BOOLEAN :
                StartOpen(n, m, wr)
           \/ \E len \in Nat : StartRead(n, len) \/ StartWrite(n, len)
           \/ StartClose(n)
        \/ \E ofs \in Nat : StartSeek(n, ofs)
  BY <1>1 DEF Calls
<1>3. call.at = "idle" /\ faults' = faults
  BY <1>2 DEF StartOpen, StartRead, StartWrite, StartSeek, StartClose, CanStart
<1>4. SUFFICES ASSUME faults = 0  PROVE LossInv(own)'
  BY <1>3 DEF LossInv
<1>5. Quietly(own)  BY <1>2, <1>4, StartsQuietly, SeekQuietly
<1>6. FatNow' = FatNow /\ EntNow' = EntNow
  BY <1>2, StartOpenKeeps, StartReadKeeps, StartWriteKeeps, StartSeekKeeps, StartCloseKeeps
<1> QED  BY <1>3, <1>4, <1>5, <1>6, QuietLoss

\* The steps of a call that change neither the FAT nor the directory.
Silent ==
  \/ FindExisting \/ BackToEntry \/ Stretch \/ ScanPasses \/ FlushBuffer
  \/ WriteInside \/ WriteSector \/ WritePart
  \/ ReadInside \/ ReadSector \/ ReadPart \/ ReadEnds
  \/ Follow \/ SeekEnds

LEMMA SilentLoss ==
  ASSUME NEW own, VolumeInv(own), LossInv(own), Silent, bound' = bound
  PROVE  LossInv(own)'
<1>1. call.at # "link" /\ faults' = faults
  <2>1. CASE FindExisting \/ BackToEntry \/ Stretch \/ ScanPasses
    BY <2>1 DEF FindExisting, BackToEntry, Stretch, ScanPasses, InWindow
  <2>2. CASE FlushBuffer \/ ReadEnds \/ Follow \/ SeekEnds
    BY <2>2 DEF FlushBuffer, BufferInWay, ReadEnds, Follow, InWindow, SeekEnds
  <2>3. CASE WriteInside \/ WriteSector \/ WritePart \/ ReadInside \/ ReadSector \/ ReadPart
    BY <2>3 DEF WriteInside, WriteSector, WritePart, ReadInside, ReadSector, ReadPart
  <2> QED  BY <2>1, <2>2, <2>3 DEF Silent
<1>2. SUFFICES ASSUME faults = 0  PROVE LossInv(own)'
  BY <1>1 DEF LossInv
<1>3. Quietly(own)
  BY <1>2, AtDirectory, SearchQuietly, BufferQuietly, WritesQuietly, ReadsQuietly,
     FollowQuietly, SeekEndsQuietly DEF Silent
<1>4. FatNow' = FatNow /\ EntNow' = EntNow
  <2>1. CASE FindExisting \/ BackToEntry \/ Stretch \/ ScanPasses
    BY <2>1, FindExistingKeeps, BackToEntryKeeps, StretchKeeps, ScanPassesKeeps
  <2>2. CASE FlushBuffer \/ ReadEnds \/ Follow \/ SeekEnds
    BY <2>2, FlushBufferKeeps, ReadEndsKeeps, FollowKeeps, SeekEndsKeeps
  <2>3. CASE WriteInside \/ WriteSector \/ WritePart \/ ReadInside \/ ReadSector \/ ReadPart
    BY <2>3, WriteInsideKeeps, WriteSectorKeeps, WritePartKeeps, ReadInsideKeeps,
       ReadSectorKeeps
  <2> QED  BY <2>1, <2>2, <2>3 DEF Silent
<1> QED  BY <1>1, <1>2, <1>3, <1>4, QuietLoss

LEMMA WindowLoss ==
  ASSUME NEW own, VolumeInv(own), LossInv(own), FlushWindow \/ LoadWindow, bound' = bound
  PROVE  LossInv(own)'
<1>1. obj' = obj /\ call' = call /\ faults' = faults  BY DEF FlushWindow, LoadWindow
<1>2. FatNow' = FatNow /\ EntNow' = EntNow  BY FlushWindowKeeps, LoadWindowKeeps
<1> QED  BY <1>1, <1>2, LossSame

\* After a failure nothing more is claimed.
LEMMA FailsLoss ==
  ASSUME NEW own, VolumeInv(own), NEW own2, Fails \/ \E hint \in bound.hints : Restart(hint)
  PROVE  LossInv(own2)'
<1>1. faults' = faults + 1
  BY DEF Fails, WindowFails, BufferFails, StoreFails, ReadFails, FillFails, SyncFails,
         Failed, Restart
<1>2. faults \in Nat  BY DEF VolumeInv, BaseInv, TypeOK
<1> QED  BY <1>1, <1>2 DEF LossInv

LEMMA LossInit ==
  ASSUME Init
  PROVE  LossInv([n \in Names |-> <<>>])
<1> DEFINE own == [n \in Names |-> <<>>]
<1>1. VolumeInv(own)  BY VolumeInit
<1>2. WinOk /\ win.sect = NoSect /\ card = Blank /\ obj = [n \in Names |-> Closed] /\ call = Idle
  BY <1>1 DEF VolumeInv, BaseInv, Init
<1>3. FatNow = card.fat /\ EntNow = card.ent  BY <1>2, OnCard
<1>4. /\ Blank.fat = [c \in Clusters |-> 0] /\ Blank.ent = [n \in Names |-> NoEntry]
      /\ NoEntry.start = 0 /\ Closed.sclust = 0 /\ ~Closed.open /\ DiskErr # 0
  BY Constants DEF Blank, NoEntry, Closed
<1>5. \A c \in Clusters : FatNow[c] = 0  BY <1>2, <1>3, <1>4
<1>6. Held(own, FatNow, call)  BY <1>5 DEF Held
<1>7. ASSUME NEW n \in Names
      PROVE  ~Busy(n) /\ Hangs(own[n], EntNow[n], obj[n]) /\ Noted(EntNow[n], obj[n])
  <2>1. own[n] = <<>> /\ EntNow[n] = NoEntry /\ obj[n] = Closed  BY <1>2, <1>3, <1>4
  <2>2. ~Busy(n)  BY <1>2, Records DEF Busy
  <2> QED  BY <1>4, <2>1, <2>2 DEF Hangs, Noted
<1> HIDE DEF own
<1>8. LossInv(own)  BY <1>6, <1>7 DEF LossInv
<1> QED  BY <1>8 DEF own

LEMMA LossNext ==
  ASSUME NEW own, VolumeInv(own), LossInv(own), Next
  PROVE  \E own2 : VolumeInv(own2)' /\ LossInv(own2)'
<1>1. bound' = bound  BY DEF Next
<1>2. CASE Calls
  BY <1>1, <1>2, CallsKeep, CallsLoss
<1>3. CASE Fails
  BY <1>1, <1>3, FailsKeep, FailsLoss
<1>4. CASE \E hint \in bound.hints : Restart(hint)
  <2>1. bound.hints \subseteq Nat  BY FatAssumption DEF VolumeInv, BaseInv, TypeOK
  <2>2. PICK own2 \in Owns : VolumeInv(own2)'  BY <1>1, <1>4, <2>1, RestartKeeps
  <2> QED  BY <1>4, <2>2, FailsLoss
<1>5. CASE Proceed
  <2>1. CASE Silent
    BY <1>1, <2>1, SilentLoss, PlainKeeps DEF Silent, Plain
  <2>2. CASE FlushWindow \/ LoadWindow
    BY <1>1, <2>2, WindowLoss, FlushWindowKeeps, LoadWindowKeeps
  <2>3. CASE FindCreates \/ Entry \/ Sync
    BY <1>1, <2>3, CreatesLoss, EntryLoss, SyncLoss, PlainKeeps DEF Plain
  <2>4. CASE Free
    <3>1. PICK own2 : own2 = Freed(own, call.n)  OBVIOUS
    <3> QED  BY <1>1, <2>4, <3>1, FreeKeeps, FreeLoss
  <2>5. CASE ScanFinds /\ call.c = 0
    <3>1. PICK own2 : own2 = First(own, call.n, call.k)  OBVIOUS
    <3> QED  BY <1>1, <2>5, <3>1, ScanFindsFirst, ScanFirstLoss
  <2>6. CASE ScanFinds /\ call.c # 0
    BY <1>1, <2>6, ScanFindsNext, ScanNextLoss
  <2>7. CASE Link
    <3>1. PICK own2 : own2 = Longer(own, call.n, call.k)  OBVIOUS
    <3> QED  BY <1>1, <2>7, <3>1, LinkKeeps, LinkLoss
  <2> QED  BY <1>5, <2>1, <2>2, <2>3, <2>4, <2>5, <2>6, <2>7 DEF Proceed, Silent
<1> QED  BY <1>2, <1>3, <1>4, <1>5 DEF Next

\* Without a failure every cluster of the FAT is free or in the chain of a file,
\* in the middle of a call too.
THEOREM LossInvHolds == Spec => [](\E own : VolumeInv(own) /\ LossInv(own))
<1>1. Init => \E own : VolumeInv(own) /\ LossInv(own)  BY VolumeInit, LossInit
<1>2. /\ \E own : VolumeInv(own) /\ LossInv(own)
      /\ [Next]_vars
      => (\E own : VolumeInv(own) /\ LossInv(own))'
  <2>1. SUFFICES ASSUME NEW own, VolumeInv(own), LossInv(own), [Next]_vars
                 PROVE  \E own2 : VolumeInv(own2)' /\ LossInv(own2)'
    OBVIOUS
  <2>2. CASE Next  BY <2>1, <2>2, LossNext
  <2>3. CASE UNCHANGED vars
    <3>1. VolumeInv(own)'  BY <2>1, <2>3, StutterKeeps
    <3>2. LossInv(own)'
      <4>1. FatNow' = FatNow /\ EntNow' = EntNow  BY <2>3 DEF vars, FatNow, EntNow
      <4>2. obj' = obj /\ call' = call /\ faults' = faults  BY <2>3 DEF vars
      <4> QED  BY <2>1, <4>1, <4>2, LossSame
    <3> QED  BY <3>1, <3>2
  <2> QED  BY <2>1, <2>2, <2>3
<1> QED  BY <1>1, <1>2, PTL DEF Spec

\* Without a failure no cluster is lost: between two calls each one is free or
\* is reached from the entry or the object of a file.
THEOREM NothingLostHolds == Spec => []NothingLost
<1>1. ASSUME NEW own, VolumeInv(own), LossInv(own)  PROVE NothingLost
  <2>1. SUFFICES ASSUME faults = 0, call.at = "idle", NEW c \in Clusters, View.fat[c] # 0
                 PROVE  \E n \in Names : c \in Chain(View.fat, View.ent[n].start)
                                               \cup Chain(View.fat, obj[n].sclust)
    BY DEF NothingLost
  <2>2. /\ own \in Owns /\ Apart(own) /\ Linked(own, FatNow) /\ WinOk
    BY <1>1 DEF VolumeInv, ChainInv, BaseInv
  <2>3. View.fat = FatNow /\ View.ent = EntNow  BY <2>2, ViewIs
  <2>4. PICK n \in Names : \E i \in 1 .. Len(own[n]) : c = own[n][i]
    BY <1>1, <2>1, <2>3 DEF LossInv, Held
  <2>5. PICK i \in 1 .. Len(own[n]) : c = own[n][i]  BY <2>4
  <2>6. own[n] # <<>>
    <3>1. Len(<<>>) = 0  OBVIOUS
    <3> QED  BY <2>5, <3>1
  <2>7. own[n][1] \in {EntNow[n].start, obj[n].sclust}
    BY <1>1, <2>1, <2>6 DEF LossInv, Hangs, Busy
  <2>8. Chain(FatNow, own[n][1]) = {own[n][j] : j \in 1 .. Len(own[n])}
    BY <2>2, <2>6, WalkOnChain
  <2>9. c \in Chain(FatNow, own[n][1])  BY <2>5, <2>8
  <2> QED  BY <2>3, <2>7, <2>9
<1>2. (\E own : VolumeInv(own) /\ LossInv(own)) => NothingLost  BY <1>1
<1> QED  BY <1>2, LossInvHolds, PTL

-----------------------------------------------------------------------------
(* What is in the files.                                                   *)

\* The volume as the window shows it, with the bytes on the card.
Now == [fat |-> FatNow, ent |-> EntNow, data |-> card.data]

\* On a volume the first p bytes of n are there, in clusters of the chain w.
KeptIn(n, w, cd, p) ==
  /\ cd.ent[n].used /\ cd.ent[n].size >= p
  /\ p > 0 => /\ w # <<>> /\ cd.ent[n].start = w[1] /\ p <= SS * Len(w)
              /\ \A i \in 1 .. Len(w) : SS * (i - 1) < p =>
                   /\ cd.data[w[i]] = n
                   /\ SS * i < p => i < Len(w) /\ cd.fat[w[i]] = w[i + 1]

\* What was promised is on the card, in what it has programmed, and in what the
\* code works on.
KeptInv(own) ==
  \A n \in Names : kept[n] # None =>
    \A cd \in {Now, card, safe} : KeptIn(n, own[n], cd, kept[n])

\* What the program knows of the file is in the buffer or on the card.
ObjOk(n, w, o, data, p) ==
  /\ o.open /\ p # None => o.fsize >= p
  /\ o.good > 0 \/ o.dirty => o.sclust \in Clusters
  /\ o.good <= SS * Len(w) /\ o.dsect # DiskErr
  /\ \A i \in 1 .. Len(w) : SS * (i - 1) < o.good =>
       /\ o.dsect = w[i] => o.bufv = n
       /\ data[w[i]] = n \/ (o.dirty /\ o.dsect = w[i])
  /\ o.dirty => o.bufv = n /\ \E i \in 1 .. Len(w) : o.dsect = w[i]

\* A pointer inside a sector has it in the buffer.
Near(o) == o.fptr % SS # 0 => o.dsect = o.clust

\* In the call cl of the file n.
Fit(n, e, o, cl, p) ==
  /\ cl.op = "open" => /\ cl.m = "createalways" => p = None
                       /\ cl.at # "find" => cl.m = "createalways"
  /\ cl.op = "write" => /\ p # None => p <= SectorStart(cl.from)
                        /\ SectorStart(cl.from) <= o.fptr
  /\ cl.at = "inside" => o.dsect = o.clust
  /\ cl.at = "got" => Near(o) /\ (SS * (cl.scl - 1) < o.good => cl.v = n)
  /\ cl.at \in {"entry", "sync"} => ~o.dirty
  /\ cl.at = "sync" => e = [used |-> TRUE, start |-> o.sclust, size |-> o.fsize]

ByteInv(own) ==
  \A n \in Names :
    /\ ObjOk(n, own[n], obj[n], card.data, kept[n])
    /\ IF Busy(n) THEN Fit(n, EntNow[n], obj[n], call, kept[n])
       ELSE obj[n].open /\ ~obj[n].err => Near(obj[n])

\* A step of a call on the file n.
Carries(n, w, e, data, p) ==
  \E o : /\ obj' = [obj EXCEPT ![n] = o]
         /\ ObjOk(n, w, o, data, p)
         /\ \/ call'.at = "idle" /\ (o.open /\ ~o.err => Near(o))
            \/ call'.at # "idle" /\ call'.n = n /\ Fit(n, e, o, call', p)

LEMMA ByteStep ==
  ASSUME NEW own, VolumeInv(own), ByteInv(own), NEW n \in Names, NEW w,
         NEW own2, own2[n] = w, \A m \in Names \ {n} : own2[m] = own[m],
         call.at = "idle" \/ call.n = n,
         \A m \in Names \ {n} :
           /\ kept'[m] = kept[m]
           /\ \A i \in 1 .. Len(own[m]) : card'.data[own[m][i]] = card.data[own[m][i]],
         Carries(n, w, EntNow'[n], card'.data, kept'[n])
  PROVE  ByteInv(own2)'
<1>1. PICK o : /\ obj' = [obj EXCEPT ![n] = o]
               /\ ObjOk(n, w, o, card'.data, kept'[n])
               /\ \/ call'.at = "idle" /\ (o.open /\ ~o.err => Near(o))
                  \/ /\ call'.at # "idle" /\ call'.n = n
                     /\ Fit(n, EntNow'[n], o, call', kept'[n])
  BY DEF Carries
<1>2. obj \in [Names -> Files]  BY FileFacts
<1>3. own2[n] = w /\ obj'[n] = o  BY <1>1, <1>2
<1>4. ASSUME NEW m \in Names
      PROVE  /\ ObjOk(m, own2[m], obj'[m], card'.data, kept'[m])
             /\ IF Busy(m)' THEN Fit(m, EntNow'[m], obj'[m], call', kept'[m])
                ELSE obj'[m].open /\ ~obj'[m].err => Near(obj'[m])
  <2>1. CASE m = n  BY <1>1, <1>3, <2>1 DEF Busy
  <2>2. CASE m # n
    <3>1. own2[m] = own[m] /\ obj'[m] = obj[m] /\ kept'[m] = kept[m]
      BY <1>1, <1>2, <2>2
    <3>2. ~Busy(m) /\ ~Busy(m)'  BY <1>1, <2>2 DEF Busy
    <3>3. /\ ObjOk(m, own[m], obj[m], card.data, kept[m])
          /\ obj[m].open /\ ~obj[m].err => Near(obj[m])
      BY <3>2 DEF ByteInv
    <3>4. \A i \in 1 .. Len(own[m]) : card'.data[own[m][i]] = card.data[own[m][i]]
      BY <2>2
    <3>5. ObjOk(m, own[m], obj[m], card'.data, kept[m])  BY <3>3, <3>4 DEF ObjOk
    <3> QED  BY <3>1, <3>2, <3>3, <3>5
  <2> QED  BY <2>1, <2>2
<1> QED  BY <1>4 DEF ByteInv, ObjOk, Near, Fit

\* What has the same of a file keeps it.
Alike(n, w, cd2, cd) ==
  /\ cd2.ent[n] = cd.ent[n]
  /\ \A i \in 1 .. Len(w) : cd2.fat[w[i]] = cd.fat[w[i]] /\ cd2.data[w[i]] = cd.data[w[i]]

LEMMA KeptAlike ==
  ASSUME NEW n, NEW w \in Seq(Clusters), NEW cd, NEW cd2, NEW p, Alike(n, w, cd2, cd),
         KeptIn(n, w, cd, p)
  PROVE  KeptIn(n, w, cd2, p)
BY DEF Alike, KeptIn

LEMMA KeptLess ==
  ASSUME NEW n, NEW w \in Seq(Clusters), NEW cd, NEW p \in Nat, NEW q \in Nat, q <= p,
         KeptIn(n, w, cd, p), cd.ent[n].size \in Nat
  PROVE  KeptIn(n, w, cd, q)
<1>1. SS * Len(w) \in Nat /\ \A i \in 1 .. Len(w) : SS * i \in Nat /\ SS * (i - 1) \in Int
  BY FatAssumption, LenProperties
<1>2. SS * Len(w) >= p => SS * Len(w) >= q  BY <1>1
<1>3. \A i \in 1 .. Len(w) : /\ SS * (i - 1) < q => SS * (i - 1) < p
                             /\ SS * i < q => SS * i < p
  BY <1>1
<1> QED  BY <1>1, <1>2, <1>3 DEF KeptIn

\* A chain that grows keeps what is in it.
LEMMA KeptLonger ==
  ASSUME NEW n, NEW w \in Seq(Clusters), NEW w2 \in Seq(Clusters), Len(w) <= Len(w2),
         \A i \in 1 .. Len(w) : w2[i] = w[i],
         NEW cd, NEW p \in Nat, KeptIn(n, w, cd, p)
  PROVE  KeptIn(n, w2, cd, p)
<1>1. Len(w) \in Nat /\ Len(w2) \in Nat /\ SS * Len(w) \in Nat /\ SS * Len(w2) \in Nat
  BY FatAssumption, LenProperties
<1>2. SUFFICES ASSUME p > 0
               PROVE  /\ w2 # <<>> /\ cd.ent[n].start = w2[1] /\ p <= SS * Len(w2)
                      /\ \A i \in 1 .. Len(w2) : SS * (i - 1) < p =>
                           /\ cd.data[w2[i]] = n
                           /\ SS * i < p => i < Len(w2) /\ cd.fat[w2[i]] = w2[i + 1]
  BY DEF KeptIn
<1>3. w # <<>> /\ cd.ent[n].start = w[1] /\ p <= SS * Len(w)  BY <1>2 DEF KeptIn
<1>4. 1 \in 1 .. Len(w)  BY <1>3, Rest
<1>5. w2[1] = w[1] /\ w2 # <<>>
  <2>1. w2 = <<>> => Len(w2) = 0  OBVIOUS
  <2> QED  BY <1>1, <1>4, <2>1
<1>6. p <= SS * Len(w2)  BY <1>1, <1>3, Multiples
<1>7. ASSUME NEW i \in 1 .. Len(w2), SS * (i - 1) < p
      PROVE  /\ cd.data[w2[i]] = n
             /\ SS * i < p => i < Len(w2) /\ cd.fat[w2[i]] = w2[i + 1]
  <2>1. i \in Nat /\ i - 1 \in Nat  BY <1>1
  <2>2. SS * (i - 1) < SS * Len(w)
    <3>1. SS * (i - 1) \in Nat  BY <2>1, FatAssumption
    <3> QED  BY <1>1, <1>3, <1>7, <3>1
  <2>3. i - 1 < Len(w)
    <3>1. PICK k \in Nat : k = i - 1  BY <2>1
    <3>2. SS * k < SS * Len(w)  BY <2>2, <3>1
    <3>3. k < Len(w)  BY <1>1, <3>2, Multiples
    <3> QED  BY <3>1, <3>3
  <2>4. i \in 1 .. Len(w)  BY <1>1, <2>1, <2>3
  <2>5. cd.data[w[i]] = n /\ (SS * i < p => i < Len(w) /\ cd.fat[w[i]] = w[i + 1])
    BY <1>2, <1>7, <2>4 DEF KeptIn
  <2>6. SS * i < p => i + 1 \in 1 .. Len(w)  BY <1>1, <2>1, <2>5
  <2> QED  BY <1>1, <2>4, <2>5, <2>6
<1> QED  BY <1>3, <1>5, <1>6, <1>7

LEMMA KeptChange ==
  ASSUME NEW own \in Owns, KeptInv(own), NEW n \in Names, NEW w,
         NEW own2, own2[n] = w, \A m \in Names \ {n} : own2[m] = own[m],
         \A m \in Names \ {n} :
           /\ kept'[m] = kept[m]
           /\ \A cd2 \in {Now', card', safe'} : \E cd \in {Now, card, safe} :
                Alike(m, own[m], cd2, cd),
         kept'[n] # None => \A cd2 \in {Now', card', safe'} : KeptIn(n, w, cd2, kept'[n])
  PROVE  KeptInv(own2)'
<1>1. ASSUME NEW m \in Names, kept'[m] # None, NEW cd2 \in {Now', card', safe'}
      PROVE  KeptIn(m, own2[m], cd2, kept'[m])
  <2>1. CASE m = n
    <3>1. own2[m] = w  BY <2>1
    <3> QED  BY <1>1, <2>1, <3>1
  <2>2. CASE m # n
    <3>1. own2[m] = own[m] /\ kept'[m] = kept[m] /\ own[m] \in Seq(Clusters)
      BY <2>2 DEF Owns
    <3>2. PICK cd \in {Now, card, safe} : Alike(m, own[m], cd2, cd)  BY <1>1, <2>2
    <3>3. KeptIn(m, own[m], cd, kept[m])  BY <1>1, <3>1, <3>2 DEF KeptInv
    <3> QED  BY <3>1, <3>2, <3>3, KeptAlike
  <2> QED  BY <2>1, <2>2
<1> QED  BY <1>1 DEF KeptInv, KeptIn

\* No volume is new.
LEMMA KeptSame ==
  ASSUME NEW own, KeptInv(own), kept' = kept, {Now', card', safe'} \subseteq {Now, card, safe}
  PROVE  KeptInv(own)'
<1>1. ASSUME NEW m \in Names, kept'[m] # None, NEW cd2 \in {Now', card', safe'}
      PROVE  KeptIn(m, own[m], cd2, kept'[m])
  BY <1>1 DEF KeptInv
<1> QED  BY <1>1 DEF KeptInv, KeptIn

\* The bytes of c may change to one of vs.
Touch(d2, d, c, vs) == \A x \in Clusters : d2[x] = d[x] \/ (x = c /\ d2[x] \in vs)

DataAt(c, vs) ==
  /\ Touch(card'.data, card.data, c, vs)
  /\ \A cd2 \in {Now', card', safe'} : \E cd \in {Now, card, safe} :
       cd2.fat = cd.fat /\ cd2.ent = cd.ent /\ Touch(cd2.data, cd.data, c, vs)

LEMMA TouchForm ==
  ASSUME NEW cd \in Volumes, NEW c, NEW v \in Labels, NEW vs, v \in vs
  PROVE  Touch(WithData(cd, c, v).data, cd.data, c, vs) /\ Touch(cd.data, cd.data, c, vs)
<1>1. cd.data \in [Clusters -> Labels]  BY DEF Volumes
<1>2. Touch(cd.data, cd.data, c, vs)  BY DEF Touch
<1>3. CASE c \in Clusters
  <2>1. WithData(cd, c, v).data = [cd.data EXCEPT ![c] = v]  BY <1>3, WithDataForm
  <2> QED  BY <1>1, <1>2, <2>1 DEF Touch
<1>4. CASE c \notin Clusters
  <2>1. WithData(cd, c, v).data = cd.data  BY <1>4 DEF WithData
  <2> QED  BY <1>2, <2>1
<1> QED  BY <1>3, <1>4

LEMMA DataAtForm ==
  ASSUME WinOk, DiskData, win' = win, NEW c, NEW vs,
         Touch(card'.data, card.data, c, vs),
         \E cd \in {card, safe} :
           safe'.fat = cd.fat /\ safe'.ent = cd.ent /\ Touch(safe'.data, cd.data, c, vs)
  PROVE  DataAt(c, vs)
<1>1. FatNow' = FatNow /\ EntNow' = EntNow  BY WindowStays
<1>2. Now'.fat = Now.fat /\ Now'.ent = Now.ent /\ Now'.data = card'.data /\ Now.data = card.data
  BY <1>1 DEF Now
<1>3. card'.fat = card.fat /\ card'.ent = card.ent  BY DEF DiskData
<1> QED  BY <1>2, <1>3 DEF DataAt

LEMMA DataAtSteps ==
  ASSUME WinOk, win' = win, NEW c, NEW v \in Labels
  PROVE  /\ DiskWrite(WithData(card, c, v)) => DataAt(c, {v})
         /\ WriteFails(WithData(card, c, v)) => DataAt(c, {v})
         /\ Outdate(c) => DataAt(c, {Nobody})
         /\ card' = WithData(card, c, v) /\ safe' = WithData(card, c, Nobody)
              => DataAt(c, {v, Nobody})
<1>1. card \in Volumes /\ safe \in Volumes /\ Nobody \in Labels  BY DEF WinOk, Labels
<1>2. ASSUME DiskWrite(WithData(card, c, v))  PROVE DataAt(c, {v})
  <2>1. card' = WithData(card, c, v) /\ safe' = card  BY <1>2 DEF DiskWrite
  <2>2. Touch(card'.data, card.data, c, {v}) /\ Touch(card.data, card.data, c, {v})
    BY <1>1, <2>1, TouchForm
  <2>3. DiskData  BY <1>2, DataSteps
  <2> QED  BY <2>1, <2>2, <2>3, DataAtForm
<1>3. ASSUME WriteFails(WithData(card, c, v))  PROVE DataAt(c, {v})
  <2>1. CASE UNCHANGED <<card, safe>>
    <3>1. Touch(card.data, card.data, c, {v}) /\ Touch(safe.data, safe.data, c, {v})
      BY <1>1, TouchForm
    <3>2. DiskData  BY <2>1, DataSteps
    <3> QED  BY <2>1, <3>1, <3>2, DataAtForm
  <2> QED  BY <1>2, <1>3, <2>1 DEF WriteFails
<1>4. ASSUME Outdate(c)  PROVE DataAt(c, {Nobody})
  <2>1. card' = WithData(card, c, Nobody) /\ safe' = WithData(safe, c, Nobody)
    BY <1>4 DEF Outdate
  <2>4. Nobody \in {Nobody}  OBVIOUS
  <2>5. Touch(card'.data, card.data, c, {Nobody})  BY <1>1, <2>1, <2>4, TouchForm
  <2>6. Touch(safe'.data, safe.data, c, {Nobody})  BY <1>1, <2>1, <2>4, TouchForm
  <2>7. safe'.fat = safe.fat /\ safe'.ent = safe.ent
    BY <1>1, <2>1 DEF WithData, Volumes
  <2>2. /\ Touch(card'.data, card.data, c, {Nobody}) /\ Touch(safe'.data, safe.data, c, {Nobody})
        /\ safe'.fat = safe.fat /\ safe'.ent = safe.ent
    BY <2>5, <2>6, <2>7
  <2>3. DiskData  BY <1>4, DataSteps
  <2> QED  BY <2>2, <2>3, DataAtForm
<1>5. ASSUME card' = WithData(card, c, v), safe' = WithData(card, c, Nobody)
      PROVE  DataAt(c, {v, Nobody})
  <2>1. /\ Touch(card'.data, card.data, c, {v, Nobody})
        /\ Touch(safe'.data, card.data, c, {v, Nobody})
    BY <1>1, <1>5, TouchForm
  <2>2. /\ card' \in Volumes /\ safe' \in Volumes /\ card'.fat = card.fat /\ card'.ent = card.ent
        /\ safe'.fat = card.fat /\ safe'.ent = card.ent
    <3>1. card' \in Volumes /\ card'.fat = card.fat /\ card'.ent = card.ent
      BY <1>1, <1>5 DEF WithData, Volumes
    <3>2. safe' \in Volumes /\ safe'.fat = card.fat /\ safe'.ent = card.ent
      BY <1>1, <1>5 DEF WithData, Volumes
    <3> QED  BY <3>1, <3>2
  <2>3. DiskData  BY <2>2 DEF DiskData
  <2> QED  BY <2>1, <2>2, <2>3, DataAtForm
<1> QED  BY <1>2, <1>3, <1>4, <1>5

\* The bytes that change are good ones of their file, or nobody was promised them.
LEMMA KeptData ==
  ASSUME NEW own \in Owns, KeptInv(own), kept' = kept, NEW c, NEW vs, DataAt(c, vs),
         \A m \in Names : \A i \in 1 .. Len(own[m]) : own[m][i] = c =>
           vs \subseteq {m} \/ kept[m] = None \/ ~(SS * (i - 1) < kept[m])
  PROVE  KeptInv(own)'
<1>1. ASSUME NEW m \in Names, kept'[m] # None, NEW cd2 \in {Now', card', safe'}
      PROVE  KeptIn(m, own[m], cd2, kept'[m])
  <2>1. PICK cd \in {Now, card, safe} :
          cd2.fat = cd.fat /\ cd2.ent = cd.ent /\ Touch(cd2.data, cd.data, c, vs)
    BY DEF DataAt
  <2>2. KeptIn(m, own[m], cd, kept[m])  BY <1>1 DEF KeptInv
  <2>3. \A i \in 1 .. Len(own[m]) : own[m][i] \in Clusters
    BY ElementOfSeq DEF Owns
  <2>4. ASSUME NEW i \in 1 .. Len(own[m]), SS * (i - 1) < kept[m], kept[m] > 0
        PROVE  cd2.data[own[m][i]] = m
    <3>1. cd.data[own[m][i]] = m  BY <2>2, <2>4 DEF KeptIn
    <3>2. cd2.data[own[m][i]] = cd.data[own[m][i]]
            \/ (own[m][i] = c /\ cd2.data[own[m][i]] \in vs)
      BY <2>1, <2>3 DEF Touch
    <3>3. own[m][i] = c => vs \subseteq {m}  BY <1>1, <2>4
    <3> QED  BY <3>1, <3>2, <3>3
  <2> QED  BY <2>1, <2>2, <2>4 DEF KeptIn
<1> QED  BY <1>1 DEF KeptInv, KeptIn

ContentInv(own) == KeptInv(own) /\ ByteInv(own)

\* A step that leaves the disk as it is.
LEMMA QuietBytes ==
  ASSUME NEW own, VolumeInv(own), ContentInv(own), NEW n \in Names, call.at = "idle" \/ call.n = n,
         EntNow' = EntNow, kept' = kept, card'.data = card.data,
         {Now', card', safe'} \subseteq {Now, card, safe},
         Carries(n, own[n], EntNow[n], card.data, kept[n])
  PROVE  ContentInv(own)'
<1>1. PICK w : w = own[n]  OBVIOUS
<1>2. own = [own EXCEPT ![n] = w]  BY <1>1 DEF VolumeInv, Owns
<1>3. ByteInv(own)'  BY <1>1, ByteStep DEF ContentInv
<1>4. KeptInv(own)'  BY KeptSame DEF ContentInv
<1> QED  BY <1>3, <1>4 DEF ContentInv, KeptInv, ByteInv

\* One that changes the bytes in the jth cluster of its file.
LEMMA DataBytes ==
  ASSUME NEW own, VolumeInv(own), ContentInv(own), NEW n \in Names, call.at = "idle" \/ call.n = n,
         kept' = kept, NEW c, NEW vs, DataAt(c, vs), NEW j \in 1 .. Len(own[n]), c = own[n][j],
         vs \subseteq {n} \/ kept[n] = None \/ ~(SS * (j - 1) < kept[n]),
         Carries(n, own[n], EntNow'[n], card'.data, kept[n])
  PROVE  ContentInv(own)'
<1>1. PICK w : w = own[n]  OBVIOUS
<1>2. own = [own EXCEPT ![n] = w] /\ own \in Owns  BY <1>1 DEF VolumeInv, Owns
<1>3. Apart(own)  BY DEF VolumeInv, ChainInv
<1>4. \A m \in Names : \A i \in 1 .. Len(own[m]) : own[m][i] = c => m = n /\ i = j
  BY <1>3 DEF Apart
<1>5. KeptInv(own)'  BY <1>2, <1>4, KeptData DEF ContentInv
<1>6. ASSUME NEW m \in Names \ {n}, NEW i \in 1 .. Len(own[m])
      PROVE  card'.data[own[m][i]] = card.data[own[m][i]]
  <2>1. own[m][i] \in Clusters  BY <1>2, ElementOfSeq DEF Owns
  <2> QED  BY <1>4, <2>1 DEF DataAt, Touch
<1>7. ByteInv(own)'  BY <1>1, <1>2, <1>6, ByteStep DEF ContentInv
<1> QED  BY <1>5, <1>7 DEF ContentInv, KeptInv, ByteInv

\* An object of which no more is known, and whose buffer is the same.
SameBytes(q, o) ==
  /\ q.open => o.open /\ q.fsize >= o.fsize
  /\ q.dsect = o.dsect /\ q.bufv = o.bufv /\ q.dirty = o.dirty /\ q.good <= o.good
  /\ o.good > 0 \/ o.dirty => q.sclust = o.sclust

LEMMA SameBytesKeep ==
  ASSUME NEW n, NEW w \in Seq(Clusters), NEW o \in Files, NEW data, NEW p \in Nat \cup {None},
         ObjOk(n, w, o, data, p), NEW q \in Files, SameBytes(q, o)
  PROVE  ObjOk(n, w, q, data, p)
<1>1. /\ o.good \in Nat /\ q.good \in Nat /\ o.fsize \in Nat /\ q.fsize \in Nat
      /\ o.dirty \in BOOLEAN /\ SS * Len(w) \in Nat
      /\ \A i \in 1 .. Len(w) : SS * (i - 1) \in Int
  BY FatAssumption, LenProperties, SMTT(30) DEF Files
<1>2. q.open /\ p # None => q.fsize >= p
  <2>1. p # None => p \in Nat  OBVIOUS
  <2> QED  BY <1>1, <2>1 DEF ObjOk, SameBytes
<1>3. q.good > 0 \/ q.dirty => q.sclust \in Clusters
  BY <1>1 DEF ObjOk, SameBytes
<1>4. q.good <= SS * Len(w) /\ q.dsect # DiskErr  BY <1>1 DEF ObjOk, SameBytes
<1>5. ASSUME NEW i \in 1 .. Len(w), SS * (i - 1) < q.good
      PROVE  /\ q.dsect = w[i] => q.bufv = n
             /\ data[w[i]] = n \/ (q.dirty /\ q.dsect = w[i])
  <2>1. SS * (i - 1) < o.good  BY <1>1, <1>5 DEF SameBytes
  <2> QED  BY <2>1 DEF ObjOk, SameBytes
<1>6. q.dirty => q.bufv = n /\ \E i \in 1 .. Len(w) : q.dsect = w[i]
  BY DEF ObjOk, SameBytes
<1> QED  BY <1>2, <1>3, <1>4, <1>5, <1>6 DEF ObjOk

LEMMA ClosedBytes ==
  ASSUME NEW n, NEW w \in Seq(Clusters), NEW data, NEW p
  PROVE  ObjOk(n, w, Closed, data, p)
<1>1. /\ ~Closed.open /\ Closed.good = 0 /\ ~Closed.dirty /\ Closed.dsect = 0
  BY DEF Closed
<1>2. 0 <= SS * Len(w) /\ DiskErr # 0  BY FatAssumption, LenProperties, Constants
<1>3. \A i \in 1 .. Len(w) : ~(SS * (i - 1) < 0)
  <2>1. TAKE i \in 1 .. Len(w)
  <2>2. i - 1 \in Nat /\ SS \in Nat  BY FatAssumption, LenProperties
  <2>3. SS * (i - 1) \in Nat  BY <2>2
  <2> QED  BY <2>3
<1> QED  BY <1>1, <1>2, <1>3 DEF ObjOk

LEMMA StretchedBytes ==
  ASSUME NEW o \in Files, o.open
  PROVE  /\ Written(o) \in Files /\ SameBytes(Written(o), o) /\ Written(o).open
         /\ Sought(o) \in Files /\ SameBytes(Sought(o), o) /\ Sought(o).open
         /\ Near(o) => Near(Written(o)) /\ Near(Sought(o))
<1>1. ASSUME NEW s \in Nat, NEW b \in BOOLEAN, s >= o.fsize, NEW q,
             q = [o EXCEPT !.fsize = s, !.written = b]
      PROVE  q \in Files /\ SameBytes(q, o) /\ q.open /\ (Near(o) => Near(q))
  <2>1. /\ q \in Files /\ q.open /\ q.fsize = s /\ q.dsect = o.dsect /\ q.bufv = o.bufv
        /\ q.dirty = o.dirty /\ q.good = o.good /\ q.sclust = o.sclust /\ q.fptr = o.fptr
        /\ q.clust = o.clust /\ o.good \in Nat
    BY <1>1 DEF Files
  <2> QED  BY <1>1, <2>1 DEF SameBytes, Near
<1>2. o.fptr \in Nat /\ o.fsize \in Nat  BY DEF Files
<1>3. PICK s \in Nat : s = GreaterOf(o.fsize, o.fptr) /\ s >= o.fsize
  BY <1>2 DEF GreaterOf
<1>4. Written(o) = [o EXCEPT !.fsize = s, !.written = TRUE]  BY <1>3 DEF Written
<1>5. /\ Written(o) \in Files /\ SameBytes(Written(o), o) /\ Written(o).open
      /\ Near(o) => Near(Written(o))
  BY <1>1, <1>3, <1>4
<1>6. /\ Sought(o) \in Files /\ SameBytes(Sought(o), o) /\ Sought(o).open
      /\ Near(o) => Near(Sought(o))
  <2>1. CASE o.fptr <= o.fsize
    <3>1. Sought(o) = o  BY <2>1 DEF Sought
    <3>2. SameBytes(o, o)  BY <1>2 DEF SameBytes, Files
    <3> QED  BY <3>1, <3>2
  <2>2. CASE ~(o.fptr <= o.fsize)
    <3>1. Sought(o) = [o EXCEPT !.fsize = o.fptr, !.written = TRUE]  BY <2>2 DEF Sought
    <3>2. o.fptr >= o.fsize  BY <1>2, <2>2
    <3> QED  BY <1>1, <1>2, <3>1, <3>2
  <2> QED  BY <2>1, <2>2
<1> QED  BY <1>5, <1>6

\* What a write may have promised lies before the sector where it began.
Limit(o, cl, p) ==
  (p # None => p <= SectorStart(cl.from)) /\ SectorStart(cl.from) <= o.fptr

LEMMA WriteCarries ==
  ASSUME NEW n \in Names, NEW w \in Seq(Clusters), NEW e, NEW data, NEW p \in Nat \cup {None},
         NEW o \in Files, o.open, ObjOk(n, w, o, data, p), Near(o), last \in Nat,
         NEW cl \in Calling, cl.n = n, cl.op = "write", Limit(o, cl, p), WriteOn(o, cl)
  PROVE  Carries(n, w, e, data, p)
<1>0. o.clust \in Nat /\ o.fptr \in Nat /\ o.fsize \in Nat /\ o.good \in Nat /\ 0 \in Nat  BY DEF Files
<1>1. CASE cl.left = 0
  <2>1. obj' = [obj EXCEPT ![n] = Written(o)] /\ call' = Idle  BY <1>1 DEF WriteOn
  <2>2. ObjOk(n, w, Written(o), data, p) /\ Near(Written(o))
    BY StretchedBytes, SameBytesKeep
  <2> QED  BY <2>1, <2>2, Records DEF Carries
<1>2. ASSUME NEW q \in Files, NEW c2 \in Calling, Goes(q, c2), SameBytes(q, o), q.fptr = o.fptr,
             c2.n = n, c2.op = "write", c2.from = cl.from,
             c2.at \in {"inside", "stretch", "scan", "store"},
             c2.at = "inside" => q.dsect = q.clust
      PROVE  Carries(n, w, e, data, p)
  <2>1. obj' = [obj EXCEPT ![n] = q] /\ call' = c2  BY <1>2 DEF Goes
  <2>2. ObjOk(n, w, q, data, p)  BY <1>2, SameBytesKeep
  <2>3. Fit(n, e, q, c2, p)  BY <1>2 DEF Fit, Limit
  <2> QED  BY <1>2, <2>1, <2>2, <2>3 DEF Carries
<1>3. SameBytes(o, o)  BY <1>0 DEF SameBytes
<1>4. CASE cl.left # 0 /\ o.fptr % SS # 0
  <2> DEFINE c2 == Place(cl, "inside", 0)
  <2>1. Goes(o, c2)  BY <1>4 DEF WriteOn
  <2>3. c2 \in Calling /\ c2.n = n /\ c2.op = "write" /\ c2.at = "inside" /\ c2.from = cl.from
    BY <1>0 DEF Place, Calling, AtPlaces
  <2> HIDE DEF c2
  <2>4. o.dsect = o.clust  BY <1>4 DEF Near
  <2> QED  BY <1>2, <1>3, <2>1, <2>3, <2>4
<1>5. CASE cl.left # 0 /\ o.fptr % SS = 0 /\ o.fptr > 0
  <2> DEFINE c2 == Place(cl, "stretch", o.clust)
  <2>1. Goes(o, c2)  BY <1>5 DEF WriteOn
  <2>3. c2 \in Calling /\ c2.n = n /\ c2.op = "write" /\ c2.at = "stretch" /\ c2.from = cl.from
    BY <1>0 DEF Place, Calling, AtPlaces
  <2> HIDE DEF c2
  <2> QED  BY <1>2, <1>3, <2>1, <2>3
<1>6. CASE cl.left # 0 /\ o.fptr % SS = 0 /\ ~(o.fptr > 0) /\ o.sclust = 0
  <2>1. Goes(o, ScanFor(cl, 0, Hint))  BY <1>6 DEF WriteOn
  <2>2. Hint \in 1 .. NFatent - 1  BY Constants DEF Hint
  <2>3. PICK c2 \in Calling : /\ c2 = ScanFor(cl, 0, Hint) /\ c2.n = n
                              /\ c2.op = "write" /\ c2.at = "scan" /\ c2.from = cl.from
    BY <2>2, ScanForm
  <2> QED  BY <1>2, <1>3, <2>1, <2>3
<1>7. CASE cl.left # 0 /\ o.fptr % SS = 0 /\ ~(o.fptr > 0) /\ o.sclust \in Clusters
  <2> DEFINE q == [o EXCEPT !.clust = o.sclust]
  <2> DEFINE c2 == Place(cl, "store", 0)
  <2>1. Goes(q, c2)  BY <1>7, Constants DEF WriteOn
  <2>3. c2 \in Calling /\ c2.n = n /\ c2.op = "write" /\ c2.at = "store" /\ c2.from = cl.from
    BY <1>0 DEF Place, Calling, AtPlaces
  <2> HIDE DEF c2
  <2>4. q \in Files /\ SameBytes(q, o) /\ q.fptr = o.fptr  BY <1>0 DEF Files, SameBytes
  <2> HIDE DEF q
  <2> QED  BY <1>2, <2>1, <2>3, <2>4
<1>8. CASE cl.left # 0 /\ o.fptr % SS = 0 /\ ~(o.fptr > 0) /\ o.sclust # 0 /\ o.sclust \notin Clusters
  <2> DEFINE q == [o EXCEPT !.err = TRUE]
  <2>1. obj' = [obj EXCEPT ![n] = q] /\ call' = Idle  BY <1>8 DEF WriteOn
  <2>2. q \in Files /\ SameBytes(q, o) /\ q.err
    <3>1. /\ q \in Files /\ q.err /\ q.open /\ q.fsize = o.fsize /\ q.dsect = o.dsect
          /\ q.bufv = o.bufv /\ q.dirty = o.dirty /\ q.good = o.good /\ q.sclust = o.sclust
      BY DEF Files
    <3> HIDE DEF q
    <3> QED  BY <1>0, <3>1 DEF SameBytes
  <2> HIDE DEF q
  <2>3. ObjOk(n, w, q, data, p)  BY <2>2, SameBytesKeep
  <2> QED  BY <2>1, <2>2, <2>3, Records DEF Carries
<1> QED  BY <1>1, <1>4, <1>5, <1>6, <1>7, <1>8

LEMMA ReadCarries ==
  ASSUME NEW n \in Names, NEW w \in Seq(Clusters), NEW e, NEW data, NEW p \in Nat \cup {None},
         NEW o \in Files, o.open, ObjOk(n, w, o, data, p), Near(o),
         NEW cl \in Calling, cl.n = n, cl.op = "read", ReadOn(o, cl)
  PROVE  Carries(n, w, e, data, p)
<1>0. o.clust \in Nat /\ o.fptr \in Nat /\ o.fsize \in Nat /\ o.good \in Nat /\ 0 \in Nat  BY DEF Files
<1>1. CASE cl.left = 0
  <2>1. obj' = [obj EXCEPT ![n] = o] /\ call' = Idle  BY <1>1 DEF ReadOn
  <2> QED  BY <2>1, Records DEF Carries
<1>2. ASSUME NEW q \in Files, NEW c2 \in Calling, Goes(q, c2), SameBytes(q, o),
             c2.n = n, c2.op = "read", c2.at \in {"inside", "follow", "fetch"},
             c2.at = "inside" => q.dsect = q.clust
      PROVE  Carries(n, w, e, data, p)
  <2>1. obj' = [obj EXCEPT ![n] = q] /\ call' = c2  BY <1>2 DEF Goes
  <2>2. ObjOk(n, w, q, data, p)  BY <1>2, SameBytesKeep
  <2>3. Fit(n, e, q, c2, p)  BY <1>2 DEF Fit
  <2> QED  BY <1>2, <2>1, <2>2, <2>3 DEF Carries
<1>3. SameBytes(o, o)  BY <1>0 DEF SameBytes
<1>4. CASE cl.left # 0 /\ o.fptr % SS # 0
  <2> DEFINE c2 == [cl EXCEPT !.at = "inside"]
  <2>1. Goes(o, c2)  BY <1>4 DEF ReadOn
  <2>2. c2 \in Calling /\ c2.n = n /\ c2.op = "read" /\ c2.at = "inside"
    BY DEF Calling, AtPlaces
  <2>3. o.dsect = o.clust  BY <1>4 DEF Near
  <2> HIDE DEF c2
  <2> QED  BY <1>2, <1>3, <2>1, <2>2, <2>3
<1>5. CASE cl.left # 0 /\ o.fptr % SS = 0 /\ o.fptr > 0
  <2> DEFINE c2 == [cl EXCEPT !.at = "follow", !.c = o.clust]
  <2>1. Goes(o, c2)  BY <1>5 DEF ReadOn
  <2>2. c2 \in Calling /\ c2.n = n /\ c2.op = "read" /\ c2.at = "follow"
    BY <1>0 DEF Calling, AtPlaces
  <2> HIDE DEF c2
  <2> QED  BY <1>2, <1>3, <2>1, <2>2
<1>6. CASE cl.left # 0 /\ o.fptr % SS = 0 /\ ~(o.fptr > 0) /\ o.sclust \in Clusters
  <2> DEFINE q == [o EXCEPT !.clust = o.sclust]
  <2> DEFINE c2 == [cl EXCEPT !.at = "fetch"]
  <2>1. Goes(q, c2)  BY <1>6 DEF ReadOn
  <2>2. c2 \in Calling /\ c2.n = n /\ c2.op = "read" /\ c2.at = "fetch"
    BY DEF Calling, AtPlaces
  <2>4. q \in Files /\ SameBytes(q, o)  BY <1>0 DEF Files, SameBytes
  <2> HIDE DEF q, c2
  <2> QED  BY <1>2, <2>1, <2>2, <2>4
<1>7. CASE cl.left # 0 /\ o.fptr % SS = 0 /\ ~(o.fptr > 0) /\ o.sclust \notin Clusters
  <2> DEFINE q == [o EXCEPT !.err = TRUE]
  <2>1. obj' = [obj EXCEPT ![n] = q] /\ call' = Idle  BY <1>7 DEF ReadOn
  <2>2. q \in Files /\ SameBytes(q, o) /\ q.err
    <3>1. /\ q \in Files /\ q.err /\ q.open /\ q.fsize = o.fsize /\ q.dsect = o.dsect
          /\ q.bufv = o.bufv /\ q.dirty = o.dirty /\ q.good = o.good /\ q.sclust = o.sclust
      BY DEF Files
    <3> HIDE DEF q
    <3> QED  BY <1>0, <3>1 DEF SameBytes
  <2> HIDE DEF q
  <2>3. ObjOk(n, w, q, data, p)  BY <2>2, SameBytesKeep
  <2> QED  BY <2>1, <2>2, <2>3, Records DEF Carries
<1> QED  BY <1>1, <1>4, <1>5, <1>6, <1>7

LEMMA SeekCarries ==
  ASSUME NEW n \in Names, NEW w \in Seq(Clusters), NEW e, NEW data, NEW p \in Nat \cup {None},
         NEW o \in Files, o.open, ObjOk(n, w, o, data, p),
         NEW cl \in Calling, cl.n = n, cl.op = "seek", NEW c \in Nat, SeekOn(o, cl, c)
  PROVE  Carries(n, w, e, data, p)
<1>1. CASE cl.left > SS
  <2> DEFINE at == IF o.wr THEN "stretch" ELSE "follow"
  <2> DEFINE c2 == Place(cl, at, c)
  <2>1. Goes(o, c2)  BY <1>1 DEF SeekOn
  <2>2. at \in AtPlaces  BY DEF AtPlaces
  <2>3. at \in {"stretch", "follow"}  OBVIOUS
  <2> HIDE DEF at
  <2>4. c2 \in Calling /\ c2.n = n /\ c2.op = "seek" /\ c2.at = at
    BY <2>2 DEF Place, Calling
  <2> HIDE DEF c2
  <2>5. Fit(n, e, o, c2, p)  BY <2>3, <2>4 DEF Fit
  <2> QED  BY <2>1, <2>3, <2>4, <2>5 DEF Goes, Carries
<1>2. CASE ~(cl.left > SS)
  <2> DEFINE q == [o EXCEPT !.fptr = @ + cl.left]
  <2> DEFINE c1 == [cl EXCEPT !.left = 0]
  <2> DEFINE c2 == Place(c1, "fill", c)
  <2>1. Goes(q, c2)  BY <1>2 DEF SeekOn
  <2>2. c1 \in Calling /\ c1.n = n /\ c1.op = "seek"  BY DEF Calling
  <2>3. q \in Files /\ SameBytes(q, o)
    <3> DEFINE f == o.fptr + cl.left
    <3>1. f \in Nat /\ o.fsize \in Nat /\ o.good \in Nat  BY DEF Files, Calling
    <3> HIDE DEF f
    <3>2. q = [o EXCEPT !.fptr = f]  BY DEF f
    <3> QED  BY <3>1, <3>2 DEF Files, SameBytes
  <2> HIDE DEF q, c1
  <2>5. c2 \in Calling /\ c2.n = n /\ c2.op = "seek" /\ c2.at = "fill"
    BY <2>2 DEF Place, Calling, AtPlaces
  <2> HIDE DEF c2
  <2>6. ObjOk(n, w, q, data, p)  BY <2>3, SameBytesKeep
  <2>7. Fit(n, e, q, c2, p)  BY <2>5 DEF Fit
  <2> QED  BY <2>1, <2>5, <2>6, <2>7 DEF Goes, Carries
<1> QED  BY <1>1, <1>2

\* The disk is full.
LEMMA FullCarries ==
  ASSUME NEW n \in Names, NEW w \in Seq(Clusters), NEW e, NEW data, NEW p \in Nat \cup {None},
         NEW o \in Files, o.open, ObjOk(n, w, o, data, p), o = obj[n],
         call \in Calling, call.n = n, ChainReturns(0), call.op \in {"write", "seek"},
         call.op = "write" \/ call.c = 0 => o.fptr % SS = 0
  PROVE  Carries(n, w, e, data, p)
<1>1. CASE call.op = "write"
  <2>1. Return(Written(o))  BY <1>1 DEF ChainReturns, ChainToWrite
  <2>2. Near(o)  BY <1>1 DEF Near
  <2>3. ObjOk(n, w, Written(o), data, p) /\ Near(Written(o))
    BY <2>2, StretchedBytes, SameBytesKeep
  <2> QED  BY <2>1, <2>3, Records DEF Return, Carries
<1>2. CASE call.op = "seek" /\ call.c = 0
  <2> DEFINE q == [o EXCEPT !.clust = 0]
  <2>1. Return(q)  BY <1>2 DEF ChainReturns, ChainToSeek
  <2>2. q \in Files /\ q.fptr = o.fptr /\ SameBytes(q, o)
    <3>1. o.fsize \in Nat /\ o.good \in Nat  BY DEF Files
    <3> QED  BY <3>1 DEF Files, SameBytes
  <2> HIDE DEF q
  <2>3. ObjOk(n, w, q, data, p) /\ Near(q)  BY <1>2, <2>2, SameBytesKeep DEF Near
  <2> QED  BY <2>1, <2>3, Records DEF Return, Carries
<1>3. CASE call.op = "seek" /\ call.c # 0
  <2> DEFINE cl == [call EXCEPT !.left = SS]
  <2>1. SeekOn(o, cl, call.c)  BY <1>3 DEF ChainReturns, ChainToSeek
  <2>2. cl \in Calling /\ cl.n = n /\ cl.op = "seek" /\ call.c \in Nat
    BY <1>3, FatAssumption DEF Calling
  <2> HIDE DEF cl
  <2> QED  BY <2>1, <2>2, SeekCarries
<1> QED  BY <1>1, <1>2, <1>3

\* The file has got its first cluster, or its next one.
LEMMA ClusterCarries ==
  ASSUME NEW n \in Names, NEW w \in Seq(Clusters), NEW e, NEW data, NEW p \in Nat \cup {None},
         NEW o \in Files, o.open, ObjOk(n, w, o, data, p), o = obj[n],
         call \in Calling, call.n = n, NEW r \in Clusters, ChainReturns(r),
         call.op \in {"write", "seek"}, call.op = "write" => Limit(o, call, p),
         call.op = "seek" /\ call.c # 0 => call.left > SS,
         call.c = 0 \/ (call.op = "write" /\ o.fptr = 0) => o.sclust = 0
  PROVE  Carries(n, w, e, data, p)
<1>1. r \in Nat /\ r > 1 /\ o.fptr \in Nat /\ SS \in Nat /\ o.fsize \in Nat /\ o.good \in Nat
  BY FatAssumption DEF Clusters, Files
<1>2. o.sclust = 0 => ~(o.good > 0) /\ ~o.dirty  BY Constants DEF ObjOk
<1>3. CASE call.op = "write"
  <2> DEFINE s == IF o.fptr = 0 THEN r ELSE o.sclust
  <2> DEFINE q == [o EXCEPT !.clust = r, !.sclust = s]
  <2> DEFINE c2 == Place(call, "store", 0)
  <2>1. Goes(q, c2)  BY <1>1, <1>3 DEF ChainReturns, ChainToWrite
  <2>2. s \in Nat /\ (o.good > 0 \/ o.dirty => s = o.sclust)  BY <1>1, <1>2, <1>3 DEF Files
  <2> HIDE DEF s
  <2>9. /\ q \in Files /\ q.open = o.open /\ q.fsize = o.fsize /\ q.dsect = o.dsect
        /\ q.bufv = o.bufv /\ q.dirty = o.dirty /\ q.good = o.good /\ q.sclust = s
        /\ q.fptr = o.fptr
    BY <1>1, <2>2 DEF Files
  <2> HIDE DEF q
  <2>3. SameBytes(q, o)  BY <1>1, <2>2, <2>9 DEF SameBytes
  <2>5. c2 \in Calling /\ c2.n = n /\ c2.op = "write" /\ c2.at = "store" /\ c2.from = call.from
    BY <1>3 DEF Place, Calling, AtPlaces
  <2> HIDE DEF c2
  <2>6. ObjOk(n, w, q, data, p)  BY <2>3, <2>9, SameBytesKeep
  <2>7. Fit(n, e, q, c2, p)  BY <1>3, <2>5, <2>9 DEF Fit, Limit
  <2> QED  BY <2>1, <2>5, <2>6, <2>7 DEF Goes, Carries
<1>4. CASE call.op = "seek" /\ call.c = 0
  <2> DEFINE q == [o EXCEPT !.clust = r, !.sclust = r]
  <2>1. SeekOn(q, call, r)  BY <1>1, <1>4 DEF ChainReturns, ChainToSeek
  <2>4. /\ q \in Files /\ q.open = o.open /\ q.fsize = o.fsize /\ q.dsect = o.dsect
        /\ q.bufv = o.bufv /\ q.dirty = o.dirty /\ q.good = o.good /\ q.sclust = r
    BY <1>1 DEF Files
  <2> HIDE DEF q
  <2>2. q \in Files /\ SameBytes(q, o) /\ q.open
    BY <1>1, <1>2, <1>4, <2>4 DEF SameBytes
  <2>3. ObjOk(n, w, q, data, p)  BY <2>2, SameBytesKeep
  <2> QED  BY <1>1, <1>4, <2>1, <2>2, <2>3, SeekCarries
<1>5. CASE call.op = "seek" /\ call.c # 0
  <2> DEFINE f == o.fptr + SS
  <2> DEFINE l == call.left - SS
  <2> DEFINE q == [o EXCEPT !.clust = r, !.fptr = f]
  <2> DEFINE cl == [call EXCEPT !.left = l]
  <2>1. SeekOn(q, cl, r)  BY <1>1, <1>5 DEF ChainReturns, ChainToSeek
  <2>2. f \in Nat /\ l \in Nat  BY <1>1, <1>5, SMTT(30) DEF Calling
  <2> HIDE DEF f, l
  <2>6. /\ q \in Files /\ q.open = o.open /\ q.fsize = o.fsize /\ q.dsect = o.dsect
        /\ q.bufv = o.bufv /\ q.dirty = o.dirty /\ q.good = o.good /\ q.sclust = o.sclust
    BY <1>1, <2>2 DEF Files
  <2>4. cl \in Calling /\ cl.n = n /\ cl.op = "seek"  BY <1>5, <2>2 DEF Calling
  <2> HIDE DEF q, cl
  <2>3. q \in Files /\ SameBytes(q, o) /\ q.open  BY <1>1, <2>6 DEF SameBytes
  <2>5. ObjOk(n, w, q, data, p)  BY <2>3, SameBytesKeep
  <2> QED  BY <1>1, <2>1, <2>3, <2>4, <2>5, SeekCarries
<1> QED  BY <1>3, <1>4, <1>5

LEMMA SectorOf ==
  ASSUME NEW p \in Nat  PROVE  p \div SS \in Nat
<1>1. SS \in Nat \ {0}  BY FatAssumption
<1> QED  BY <1>1

LEMMA ForgetBytes ==
  ASSUME NEW o \in Files, call \in Calling
  PROVE  Forget(o) \in Files /\ SameBytes(Forget(o), o) /\ Forget(o).open = o.open
<1>1. o.good \in Nat /\ o.fsize \in Nat  BY DEF Files
<1>2. PICK g \in Nat : g = LesserOf(o.good, SectorStart(call.from)) /\ g <= o.good
  <2>1. SectorStart(call.from) \in Nat  BY SectorStartForm DEF Calling
  <2> QED  BY <1>1, <2>1 DEF LesserOf
<1>3. CASE call.op = "write"
  <2> DEFINE q == [o EXCEPT !.good = g]
  <2>1. Forget(o) = q  BY <1>2, <1>3 DEF Forget
  <2>2. /\ q \in Files /\ q.open = o.open /\ q.fsize = o.fsize /\ q.dsect = o.dsect
        /\ q.bufv = o.bufv /\ q.dirty = o.dirty /\ q.good = g /\ q.sclust = o.sclust
    BY DEF Files
  <2> HIDE DEF q
  <2> QED  BY <1>1, <1>2, <2>1, <2>2 DEF SameBytes
<1>4. CASE call.op # "write"
  <2>1. Forget(o) = o  BY <1>4 DEF Forget
  <2> QED  BY <1>1, <2>1 DEF SameBytes
<1> QED  BY <1>3, <1>4

\* After an error the object is not used again.
LEMMA AbortCarries ==
  ASSUME NEW n \in Names, NEW w \in Seq(Clusters), NEW e, NEW data, NEW p \in Nat \cup {None},
         NEW o \in Files, o.open, ObjOk(n, w, Forget(o), data, p), o = obj[n],
         call \in Calling, call.n = n, NEW r \in Nat, Abort(r),
         call.op = "write" /\ call.at = "scan" /\ call.c = 0 => o.sclust = 0
  PROVE  Carries(n, w, e, data, p)
<1> DEFINE f == Forget(o)
<1> DEFINE s == IF call.op = "write" /\ call.at = "scan" /\ call.c = 0 THEN r ELSE f.sclust
<1> DEFINE q == [f EXCEPT !.err = TRUE, !.sclust = s]
<1>1. f \in Files /\ f.sclust = o.sclust /\ f.fsize \in Nat /\ f.good \in Nat /\ f.open
  BY ForgetForm DEF Files
<1>2. f.sclust = 0 => ~(f.good > 0) /\ ~f.dirty  BY Constants DEF ObjOk
<1>3. obj' = [obj EXCEPT ![n] = q] /\ call' = Idle  BY DEF Abort, Return
<1>6. ObjOk(n, w, f, data, p)  OBVIOUS
<1> HIDE DEF f
<1>4. s \in Nat /\ (f.good > 0 \/ f.dirty => s = f.sclust)  BY <1>1, <1>2 DEF Files
<1> HIDE DEF s
<1>5. /\ q \in Files /\ q.open = f.open /\ q.fsize = f.fsize /\ q.dsect = f.dsect
      /\ q.bufv = f.bufv /\ q.dirty = f.dirty /\ q.good = f.good /\ q.sclust = s /\ q.err
  BY <1>1, <1>4 DEF Files
<1> HIDE DEF q
<1>7. SameBytes(q, f)  BY <1>1, <1>4, <1>5 DEF SameBytes
<1>8. ObjOk(n, w, q, data, p)  BY <1>1, <1>5, <1>6, <1>7, SameBytesKeep
<1> QED  BY <1>3, <1>5, <1>8, Records DEF Carries

LEMMA FailCarries ==
  ASSUME NEW n \in Names, NEW w \in Seq(Clusters), NEW e, NEW e2, NEW data,
         NEW p \in Nat \cup {None},
         NEW o \in Files, ObjOk(n, w, Forget(o), data, p), o = obj[n],
         call \in Calling, call.n = n, call.at # "idle", PlaceOk(w, e, o, call),
         Failed(DiskErr)
  PROVE  Carries(n, w, e2, data, p)
<1>1. CASE call.op \in {"open", "close"}
  <2>1. obj' = [obj EXCEPT ![n] = Closed] /\ call' = Idle  BY <1>1 DEF Failed, Return
  <2>2. ObjOk(n, w, Closed, data, p) /\ ~Closed.open  BY ClosedBytes DEF Closed
  <2> QED  BY <2>1, <2>2, Records DEF Carries
<1>2. CASE call.op \notin {"open", "close"}
  <2>1. Abort(DiskErr)  BY <1>2 DEF Failed
  <2>2. o.open
    BY <1>2 DEF PlaceOk, FreeOk, InOk, FirstOk, AfterOk, InsideOk, SectorOk, Calling, AtPlaces
  <2>3. call.at = "scan" /\ call.c = 0 => o.sclust = 0  BY DEF PlaceOk, FirstOk
  <2>4. DiskErr \in Nat  BY FatAssumption DEF DiskErr
  <2> QED  BY <2>1, <2>2, <2>3, <2>4, AbortCarries
<1> QED  BY <1>1, <1>2

\* n bytes of the cluster where the pointer stands.
LEMMA DeliverCarries ==
  ASSUME NEW n \in Names, NEW w \in Seq(Clusters), NEW e, NEW data, NEW p \in Nat \cup {None},
         NEW o \in Files, o.open, ObjOk(n, w, o, data, p),
         call \in Calling, call.n = n, call.op = "read",
         NEW d \in 0 .. call.left, NEW v \in Labels, Deliver(o, d, v),
         (o.fptr + d) % SS # 0 => o.dsect = o.clust,
         SS * (o.fptr \div SS) < o.good => v = n
  PROVE  Carries(n, w, e, data, p)
<1>1. o.fptr \in Nat /\ call.left \in Nat /\ SS \in Nat \ {0} /\ d \in Nat
      /\ o.fsize \in Nat /\ o.good \in Nat
  BY FatAssumption DEF Calling, Files
<1>13. PICK t \in Nat : t = o.fptr \div SS  BY <1>1, SectorOf
<1> DEFINE f == o.fptr + d
<1> DEFINE s == 1 + t
<1> DEFINE l == call.left - d
<1> DEFINE q == [o EXCEPT !.fptr = f]
<1> DEFINE got == [call EXCEPT !.left = l, !.v = v, !.c = 0, !.scl = s]
<1>2. IF got.left > 0 THEN ReadOn(q, got) ELSE Goes(q, [got EXCEPT !.at = "got"])
  BY <1>13 DEF Deliver
<1>14. f \in Nat  BY <1>1
<1>15. l \in Nat  BY <1>1
<1>3. f \in Nat /\ s \in Nat /\ l \in Nat  BY <1>13, <1>14, <1>15
<1>4. s - 1 = o.fptr \div SS  BY <1>13
<1>5. SS * (s - 1) < o.good => v = n  BY <1>4
<1>6. f % SS # 0 => o.dsect = o.clust  OBVIOUS
<1> HIDE DEF f, s, l
<1>7. /\ q \in Files /\ q.open = o.open /\ q.fsize = o.fsize /\ q.dsect = o.dsect
      /\ q.bufv = o.bufv /\ q.dirty = o.dirty /\ q.good = o.good /\ q.sclust = o.sclust
      /\ q.fptr = f /\ q.clust = o.clust
  BY <1>3 DEF Files
<1>8. got \in Calling /\ got.n = n /\ got.op = "read" /\ got.v = v /\ got.scl = s
  BY <1>3 DEF Calling
<1> HIDE DEF q, got
<1>9. SameBytes(q, o) /\ Near(q)  BY <1>1, <1>6, <1>7 DEF SameBytes, Near
<1>10. ObjOk(n, w, q, data, p)  BY <1>7, <1>9, SameBytesKeep
<1>11. CASE got.left > 0
  BY <1>2, <1>7, <1>8, <1>9, <1>10, <1>11, ReadCarries
<1>12. CASE ~(got.left > 0)
  <2> DEFINE c2 == [got EXCEPT !.at = "got"]
  <2>1. /\ c2 \in Calling /\ c2.at = "got" /\ c2.n = n /\ c2.op = "read" /\ c2.v = v
        /\ c2.scl = s
    BY <1>8 DEF Calling, AtPlaces
  <2>2. Goes(q, c2)  BY <1>2, <1>12
  <2> HIDE DEF c2
  <2>3. Fit(n, e, q, c2, p)  BY <1>5, <1>7, <1>9, <2>1 DEF Fit
  <2> QED  BY <1>10, <2>1, <2>2, <2>3 DEF Goes, Carries
<1> QED  BY <1>11, <1>12

-----------------------------------------------------------------------------
(* The steps that leave the bytes as they are.                             *)

LEMMA BusyBytes ==
  ASSUME NEW own, VolumeInv(own), ContentInv(own), call.at # "idle"
  PROVE  \E n \in Names, w \in Seq(Clusters), e \in Entries, o \in Files, p \in Nat \cup {None} :
           /\ n = call.n /\ w = own[n] /\ e = EntNow[n] /\ o = obj[n] /\ p = kept[n]
           /\ FileOk(w, e, o) /\ PlaceOk(w, e, o, call)
           /\ ObjOk(n, w, o, card.data, p) /\ Fit(n, e, o, call, p)
           /\ call \in Calling /\ obj \in [Names -> Files] /\ last \in Nat /\ WinOk
<1>1. PICK n \in Names : n = call.n /\ Busy(n) /\ PlaceOk(own[n], EntNow[n], obj[n], call)
  BY CallFacts
<1>2. /\ obj[n] \in Files /\ own[n] \in Seq(Clusters) /\ EntNow[n] \in Entries
      /\ FileOk(own[n], EntNow[n], obj[n]) /\ obj \in [Names -> Files] /\ call \in Calling
      /\ last \in Nat /\ WinOk
  BY FileFacts
<1>3. kept[n] \in Nat \cup {None}  BY DEF VolumeInv, BaseInv, TypeOK, Promises
<1>4. ObjOk(n, own[n], obj[n], card.data, kept[n]) /\ Fit(n, EntNow[n], obj[n], call, kept[n])
  BY <1>1 DEF ContentInv, ByteInv
<1> QED  BY <1>1, <1>2, <1>3, <1>4

LEMMA RestBytes ==
  ASSUME NEW own, VolumeInv(own), ContentInv(own), call.at = "idle", NEW n \in Names
  PROVE  \E w \in Seq(Clusters), e \in Entries, o \in Files, p \in Nat \cup {None} :
           /\ w = own[n] /\ e = EntNow[n] /\ o = obj[n] /\ p = kept[n]
           /\ FileOk(w, e, o) /\ (o.open /\ ~o.err => PtrOk(w, o) /\ Near(o))
           /\ ObjOk(n, w, o, card.data, p)
           /\ obj \in [Names -> Files] /\ last \in Nat
<1>1. /\ obj[n] \in Files /\ own[n] \in Seq(Clusters) /\ EntNow[n] \in Entries
      /\ FileOk(own[n], EntNow[n], obj[n]) /\ obj \in [Names -> Files] /\ last \in Nat
      /\ obj[n].open /\ ~obj[n].err => PtrOk(own[n], obj[n])
  BY FileFacts DEF Busy
<1>2. kept[n] \in Nat \cup {None}  BY DEF VolumeInv, BaseInv, TypeOK, Promises
<1>3. /\ ObjOk(n, own[n], obj[n], card.data, kept[n])
      /\ obj[n].open /\ ~obj[n].err => Near(obj[n])
  BY DEF ContentInv, ByteInv, Busy
<1> QED  BY <1>1, <1>2, <1>3

Carried(own) ==
  \E n \in Names : (call.at = "idle" \/ call.n = n) /\ Carries(n, own[n], EntNow[n], card.data, kept[n])

LEMMA CarriedKeeps ==
  ASSUME NEW own, VolumeInv(own), ContentInv(own), Carried(own), win' = win, card' = card,
         safe' \in {card, safe}, kept' = kept
  PROVE  ContentInv(own)'
<1>1. Now' = Now /\ EntNow' = EntNow  BY DEF Now, FatNow, EntNow
<1>2. {Now', card', safe'} \subseteq {Now, card, safe}  BY <1>1
<1>3. PICK n \in Names : /\ call.at = "idle" \/ call.n = n
                         /\ Carries(n, own[n], EntNow[n], card.data, kept[n])
  BY DEF Carried
<1>4. card'.data = card.data  OBVIOUS
<1> QED  BY <1>1, <1>2, <1>3, <1>4, QuietBytes

\* One that takes back part of what was promised of its file.
LEMMA LessKeeps ==
  ASSUME NEW own, VolumeInv(own), ContentInv(own), NEW n \in Names, call.at = "idle" \/ call.n = n,
         win' = win, card' = card, safe' = safe, NEW p2, kept' = [kept EXCEPT ![n] = p2],
         p2 = None \/ (p2 \in Nat /\ kept[n] # None /\ p2 <= kept[n]),
         Carries(n, own[n], EntNow[n], card.data, p2)
  PROVE  ContentInv(own)'
<1>1. Now' = Now /\ EntNow' = EntNow  BY DEF Now, FatNow, EntNow
<1>2. /\ kept \in [Names -> Nat \cup {None}] /\ own \in Owns /\ WinOk
      /\ own[n] \in Seq(Clusters)
  BY DEF VolumeInv, BaseInv, TypeOK, Promises, Owns
<1>3. kept'[n] = p2 /\ \A m \in Names \ {n} : kept'[m] = kept[m]  BY <1>2
<1>4. PICK w : w = own[n]  OBVIOUS
<1>6. ASSUME p2 # None, NEW cd \in {Now, card, safe}
      PROVE  KeptIn(n, w, cd, p2)
  <2>1. kept[n] \in Nat /\ kept[n] # None /\ p2 \in Nat /\ p2 <= kept[n]
    BY <1>2, <1>6 DEF None
  <2>2. KeptIn(n, w, cd, kept[n])  BY <1>4, <1>6, <2>1 DEF ContentInv, KeptInv
  <2>3. cd.ent \in [Names -> Entries]
    <3>1. Now.ent = EntNow  BY DEF Now
    <3> QED  BY <1>2, <1>6, <3>1, WindowForm DEF Volumes
  <2>4. cd.ent[n].size \in Nat  BY <2>3 DEF Entries
  <2> QED  BY <1>2, <1>4, <2>1, <2>2, <2>4, KeptLess
<1>7. KeptInv(own)'
  <2>1. \A m \in Names \ {n} :
           /\ kept'[m] = kept[m]
           /\ \A cd2 \in {Now', card', safe'} : \E cd \in {Now, card, safe} :
                Alike(m, own[m], cd2, cd)
    BY <1>1, <1>3 DEF Alike
  <2>2. kept'[n] # None => \A cd2 \in {Now', card', safe'} : KeptIn(n, w, cd2, kept'[n])
    BY <1>1, <1>3, <1>6
  <2> QED  BY <1>2, <1>4, <2>1, <2>2, KeptChange DEF ContentInv
<1>8. ByteInv(own)'
  <2>1. Carries(n, w, EntNow'[n], card'.data, kept'[n])  BY <1>1, <1>3, <1>4
  <2> QED  BY <1>3, <1>4, <2>1, ByteStep DEF ContentInv
<1> QED  BY <1>7, <1>8 DEF ContentInv, KeptInv, ByteInv

LEMMA LessBytes ==
  ASSUME NEW n, NEW w, NEW o \in Files, NEW data, NEW p \in Nat \cup {None}, NEW p2,
         p2 = None \/ (p2 \in Nat /\ p # None /\ p2 <= p), ObjOk(n, w, o, data, p)
  PROVE  ObjOk(n, w, o, data, p2)
<1>1. o.open /\ p2 # None => o.fsize >= p2
  <2>1. o.fsize \in Nat /\ (p # None => p \in Nat)  BY DEF Files
  <2> QED  BY <2>1 DEF ObjOk
<1> QED  BY <1>1 DEF ObjOk

LEMMA StartOpenContent ==
  ASSUME NEW own, VolumeInv(own), ContentInv(own), NEW n \in Names,
         NEW m \in {"existing", "openalways", "createalways"}, NEW wr \in BOOLEAN,
         StartOpen(n, m, wr)
  PROVE  ContentInv(own)'
<1>1. call.at = "idle" /\ win' = win /\ card' = card /\ safe' = safe  BY DEF StartOpen
<1>2. PICK w \in Seq(Clusters), e \in Entries, o \in Files, p \in Nat \cup {None} :
        /\ w = own[n] /\ e = EntNow[n] /\ o = obj[n] /\ p = kept[n]
        /\ ObjOk(n, w, o, card.data, p) /\ obj \in [Names -> Files]
  BY <1>1, RestBytes
<1> DEFINE cl == [Idle EXCEPT !.at = "find", !.op = "open", !.n = n, !.m = m, !.wr = wr]
<1>3. call' = cl /\ obj' = [obj EXCEPT ![n] = o]  BY <1>2 DEF StartOpen
<1>4. cl.at = "find" /\ cl.n = n /\ cl.op = "open" /\ cl.m = m  BY DEF Idle
<1> HIDE DEF cl
<1>5. PICK p2 : p2 = IF m = "createalways" THEN None ELSE p  OBVIOUS
<1>6. kept' = [kept EXCEPT ![n] = p2]
  <2>1. kept \in [Names -> Nat \cup {None}]  BY DEF VolumeInv, BaseInv, TypeOK, Promises
  <2> QED  BY <1>2, <1>5, <2>1 DEF StartOpen
<1>7. p2 = None \/ (p2 \in Nat /\ p # None /\ p2 <= p)  BY <1>5
<1>8. ObjOk(n, w, o, card.data, p2)  BY <1>2, <1>7, LessBytes
<1>9. Fit(n, e, o, cl, p2)  BY <1>4, <1>5 DEF Fit
<1>10. Carries(n, w, e, card.data, p2)  BY <1>3, <1>4, <1>8, <1>9 DEF Carries
<1> QED  BY <1>1, <1>2, <1>6, <1>7, <1>10, LessKeeps

LEMMA StartWriteContent ==
  ASSUME NEW own, VolumeInv(own), ContentInv(own), NEW n \in Names, NEW len \in Nat,
         StartWrite(n, len)
  PROVE  ContentInv(own)'
<1>1. call.at = "idle" /\ win' = win /\ card' = card /\ safe' = safe
  BY DEF StartWrite, CanStart
<1>2. PICK w \in Seq(Clusters), e \in Entries, o \in Files, p \in Nat \cup {None} :
        /\ w = own[n] /\ e = EntNow[n] /\ o = obj[n] /\ p = kept[n]
        /\ o.open /\ ~o.err => PtrOk(w, o) /\ Near(o)
        /\ ObjOk(n, w, o, card.data, p) /\ obj \in [Names -> Files] /\ last \in Nat
  BY <1>1, RestBytes
<1>3. o.open /\ ~o.err /\ o.fptr \in Nat  BY <1>2 DEF StartWrite, CanStart, Files
<1> DEFINE b == Begin(n, "write", len)
<1> DEFINE cl == [b EXCEPT !.from = o.fptr]
<1>4. WriteOn(o, cl)  BY <1>2 DEF StartWrite
<1>5. b \in Calling /\ b.n = n /\ b.op = "write"  BY Records
<1> HIDE DEF b
<1>6. cl \in Calling /\ cl.n = n /\ cl.op = "write" /\ cl.from = o.fptr
  BY <1>3, <1>5 DEF Calling
<1> HIDE DEF cl
<1>7. SectorStart(o.fptr) \in Nat /\ SectorStart(o.fptr) <= o.fptr  BY <1>3, SectorStartForm
<1>8. PICK t \in Nat : t = SectorStart(o.fptr) /\ t <= o.fptr  BY <1>7
<1>9. PICK p2 : p2 = IF p = None THEN None ELSE LesserOf(p, t)  OBVIOUS
<1>10. kept' = [kept EXCEPT ![n] = p2]
  <2>1. kept \in [Names -> Nat \cup {None}]  BY DEF VolumeInv, BaseInv, TypeOK, Promises
  <2> QED  BY <1>2, <1>8, <1>9, <2>1 DEF StartWrite
<1>11. p2 \in Nat \cup {None} /\ (p2 = None \/ (p2 \in Nat /\ p # None /\ p2 <= p /\ p2 <= t))
  <2>1. p # None => p \in Nat  OBVIOUS
  <2> QED  BY <1>9, <2>1 DEF LesserOf
<1>12. ObjOk(n, w, o, card.data, p2)  BY <1>2, <1>11, LessBytes
<1>13. Limit(o, cl, p2)  BY <1>6, <1>8, <1>11 DEF Limit
<1>14. Carries(n, w, e, card.data, p2)
  BY <1>2, <1>3, <1>4, <1>6, <1>11, <1>12, <1>13, WriteCarries
<1> QED  BY <1>1, <1>2, <1>10, <1>11, <1>14, LessKeeps

LEMMA StartsCarried ==
  ASSUME NEW own, VolumeInv(own), ContentInv(own), NEW n \in Names,
         StartClose(n) \/ \E len \in Nat : StartRead(n, len)
  PROVE  Carried(own)
<1>1. call.at = "idle"  BY DEF StartRead, StartClose, CanStart
<1>2. PICK w \in Seq(Clusters), e \in Entries, o \in Files, p \in Nat \cup {None} :
        /\ w = own[n] /\ e = EntNow[n] /\ o = obj[n] /\ p = kept[n]
        /\ o.open /\ ~o.err => PtrOk(w, o) /\ Near(o)
        /\ ObjOk(n, w, o, card.data, p) /\ obj \in [Names -> Files] /\ last \in Nat
  BY <1>1, RestBytes
<1>4. ASSUME NEW len \in Nat, StartRead(n, len)
      PROVE  Carries(n, w, e, card.data, p)
  <2>1. ReadOn(o, Begin(n, "read", len))  BY <1>2, <1>4 DEF StartRead
  <2>2. PICK cl \in Calling : cl = Begin(n, "read", len) /\ cl.n = n /\ cl.op = "read"
    BY Records
  <2>3. o.open /\ Near(o)  BY <1>2, <1>4 DEF StartRead, CanStart
  <2> QED  BY <1>2, <2>1, <2>2, <2>3, ReadCarries
<1>6. ASSUME StartClose(n)
      PROVE  Carries(n, w, e, card.data, p)
  <2>1. CASE o.written
    <3> DEFINE b == Begin(n, "close", 0)
    <3> DEFINE cl == [b EXCEPT !.at = IF o.dirty THEN "flush" ELSE "entry"]
    <3>1. call' = cl /\ obj' = [obj EXCEPT ![n] = o]  BY <1>2, <1>6, <2>1 DEF StartClose
    <3>2. b \in Calling /\ b.n = n /\ b.op = "close"  BY Records
    <3> HIDE DEF b
    <3>3. /\ cl.at \in {"flush", "entry"} /\ cl.n = n /\ cl.op = "close"
          /\ cl.at = "entry" => ~o.dirty
      BY <3>2 DEF Calling
    <3> HIDE DEF cl
    <3>4. Fit(n, e, o, cl, p)  BY <3>3 DEF Fit
    <3> QED  BY <1>2, <3>1, <3>3, <3>4 DEF Carries
  <2>2. CASE ~o.written
    <3>1. obj' = [obj EXCEPT ![n] = Closed] /\ call' = call  BY <1>2, <1>6, <2>2 DEF StartClose
    <3>2. ObjOk(n, w, Closed, card.data, p) /\ ~Closed.open  BY ClosedBytes DEF Closed
    <3> QED  BY <1>1, <3>1, <3>2 DEF Carries
  <2> QED  BY <2>1, <2>2
<1> QED  BY <1>1, <1>2, <1>4, <1>6 DEF Carried

\* An object of which only the pointer and its cluster may have changed.
SameButPlace(q, o) ==
  /\ q \in Files /\ q.open = o.open /\ q.fsize = o.fsize /\ q.dsect = o.dsect
  /\ q.bufv = o.bufv /\ q.dirty = o.dirty /\ q.good = o.good /\ q.sclust = o.sclust

LEMMA SeekCarried ==
  ASSUME NEW own, VolumeInv(own), ContentInv(own), NEW n \in Names, NEW ofs \in Nat,
         StartSeek(n, ofs)
  PROVE  Carried(own)
<1>1. call.at = "idle"  BY DEF StartSeek, CanStart
<1>2. PICK w \in Seq(Clusters), e \in Entries, o \in Files, p \in Nat \cup {None} :
        /\ w = own[n] /\ e = EntNow[n] /\ o = obj[n] /\ p = kept[n]
        /\ ObjOk(n, w, o, card.data, p) /\ obj \in [Names -> Files] /\ last \in Nat
  BY <1>1, RestBytes
<1> DEFINE to == IF o.wr THEN ofs ELSE LesserOf(ofs, o.fsize)
<1> DEFINE at == SectorStart(o.fptr - 1)
<1>3. to \in Nat /\ o.open /\ o.fsize \in Nat /\ o.good \in Nat
  BY <1>2 DEF LesserOf, Files, StartSeek, CanStart
<1>4. PICK cl \in Calling : cl = Begin(n, "seek", to) /\ cl.n = n /\ cl.op = "seek" /\ cl.left = to
  BY <1>3, Records
<1>5. IF to = 0
      THEN obj' = [obj EXCEPT ![n].fptr = 0] /\ UNCHANGED call
      ELSE IF o.fptr > 0 /\ to > at
      THEN SeekOn([o EXCEPT !.fptr = at], [cl EXCEPT !.left = to - at], o.clust)
      ELSE IF o.sclust # 0
      THEN SeekOn([o EXCEPT !.fptr = 0, !.clust = o.sclust], cl, o.sclust)
      ELSE Goes([o EXCEPT !.fptr = 0], ScanFor(cl, 0, Hint))
  BY <1>2, <1>4 DEF StartSeek
<1>6. o.fptr > 0 => at \in Nat
  <2>1. o.fptr > 0 => o.fptr - 1 \in Nat  BY DEF Files
  <2> QED  BY <2>1, SectorStartForm
<1> HIDE DEF to, at
<1>11. ASSUME NEW q, SameButPlace(q, o)
       PROVE  q \in Files /\ q.open /\ ObjOk(n, w, q, card.data, p)
  <2>1. q \in Files /\ SameBytes(q, o)  BY <1>3, <1>11 DEF SameBytes, SameButPlace
  <2> QED  BY <1>2, <1>3, <1>11, <2>1, SameBytesKeep DEF SameButPlace
<1>9. o.clust \in Nat /\ o.sclust \in Nat  BY DEF Files
<1>7. Carries(n, w, e, card.data, p)
  <2>1. CASE to = 0
    <3> DEFINE q == [o EXCEPT !.fptr = 0]
    <3>1. obj' = [obj EXCEPT ![n] = q] /\ call' = call  BY <1>2, <1>5, <2>1
    <3>5. SameButPlace(q, o) /\ q.fptr = 0  BY DEF Files, SameButPlace
    <3> HIDE DEF q
    <3>2. ObjOk(n, w, q, card.data, p) /\ q.fptr = 0  BY <1>11, <3>5
    <3>3. 0 % SS = 0  BY FatAssumption
    <3>4. Near(q)  BY <3>2, <3>3 DEF Near
    <3> QED  BY <1>1, <3>1, <3>2, <3>4 DEF Carries
  <2>2. CASE to # 0 /\ o.fptr > 0 /\ to > at
    <3> DEFINE q == [o EXCEPT !.fptr = at]
    <3> DEFINE l == to - at
    <3> DEFINE c2 == [cl EXCEPT !.left = l]
    <3>1. SeekOn(q, c2, o.clust)  BY <1>5, <2>2
    <3>5. SameButPlace(q, o)  BY <1>6, <2>2 DEF Files, SameButPlace
    <3>3. l \in Nat  BY <1>3, <1>6, <2>2
    <3> HIDE DEF l
    <3>4. c2 \in Calling /\ c2.n = n /\ c2.op = "seek"  BY <1>4, <3>3 DEF Calling
    <3> HIDE DEF q, c2
    <3>2. q \in Files /\ q.open /\ ObjOk(n, w, q, card.data, p)  BY <1>11, <3>5
    <3> QED  BY <1>9, <3>1, <3>2, <3>4, SeekCarries
  <2>3. CASE to # 0 /\ ~(o.fptr > 0 /\ to > at) /\ o.sclust # 0
    <3> DEFINE q == [o EXCEPT !.fptr = 0, !.clust = o.sclust]
    <3>1. SeekOn(q, cl, o.sclust)  BY <1>5, <2>3
    <3>3. SameButPlace(q, o)  BY <1>9 DEF Files, SameButPlace
    <3> HIDE DEF q
    <3>2. q \in Files /\ q.open /\ ObjOk(n, w, q, card.data, p)  BY <1>11, <3>3
    <3> QED  BY <1>4, <1>9, <3>1, <3>2, SeekCarries
  <2>4. CASE to # 0 /\ ~(o.fptr > 0 /\ to > at) /\ o.sclust = 0
    <3> DEFINE q == [o EXCEPT !.fptr = 0]
    <3> DEFINE sc == ScanFor(cl, 0, Hint)
    <3>1. Hint \in 1 .. NFatent - 1  BY <1>2, Constants DEF Hint
    <3>2. sc.at = "scan" /\ sc.n = n /\ sc.op = "seek"  BY <1>4, <3>1, ScanForm, SMTT(30)
    <3>3. obj' = [obj EXCEPT ![n] = q] /\ call' = sc  BY <1>5, <2>4, <3>2 DEF Goes
    <3>6. SameButPlace(q, o)  BY DEF Files, SameButPlace
    <3> HIDE DEF q, sc
    <3>4. ObjOk(n, w, q, card.data, p)  BY <1>11, <3>6
    <3>5. Fit(n, e, q, sc, p)  BY <3>2 DEF Fit
    <3> QED  BY <3>2, <3>3, <3>4, <3>5 DEF Carries
  <2> QED  BY <2>1, <2>2, <2>3, <2>4
<1> QED  BY <1>1, <1>2, <1>7 DEF Carried

LEMMA InsideStart ==
  ASSUME NEW w \in Seq(Clusters), NEW j, NEW p \in Nat, In(w, j, p), p % SS # 0
  PROVE  p \div SS = j - 1 /\ SectorStart(p) = SS * (j - 1) /\ j \in 1 .. Len(w)
<1>1. SS \in Nat \ {0} /\ j \in 1 .. Len(w) /\ Len(w) \in Nat  BY FatAssumption DEF In
<1>2. p < SS * j  BY Inside
<1>3. PICK m \in Int, l \in Int, i \in Int : m = SS * (j - 1) /\ l = SS * j /\ i = j - 1
  BY <1>1
<1>4. l = m + SS /\ m < p /\ p < l  BY <1>1, <1>2, <1>3, Multiples DEF In
<1>5. PICK r \in 0 .. SS - 1 : r = p - m  BY <1>1, <1>3, <1>4
<1>6. p = SS * i + r /\ p \in Int  BY <1>3, <1>5
<1>7. p \div SS = i  BY <1>1, <1>6, QuotientIs
<1>8. SectorStart(p) = SS * i  BY <1>1, <1>7 DEF SectorStart
<1> QED  BY <1>1, <1>3, <1>7, <1>8

\* A file is opened with what its last close promised.
LEMMA OpenedBytes ==
  ASSUME NEW n \in Names, NEW w \in Seq(Clusters), NEW e \in Entries, NEW data,
         NEW p \in Nat \cup {None}, NEW fresh \in BOOLEAN, call.n = n, kept[n] = p,
         NEW cd, cd.ent[n] = e, cd.data = data, p # None => KeptIn(n, w, cd, p)
  PROVE  ObjOk(n, w, Opened(e, fresh), data, p) /\ Near(Opened(e, fresh))
<1> DEFINE g == IF p = None THEN 0 ELSE p
<1> DEFINE q == [Closed EXCEPT !.open = TRUE, !.wr = call.wr, !.written = fresh,
                               !.fsize = e.size, !.sclust = e.start, !.good = g]
<1>1. Opened(e, fresh) = q  BY DEF Opened
<1>2. g \in Nat /\ (g > 0 => p = g /\ p # None)  OBVIOUS
<1>3. p # None => p = g  OBVIOUS
<1> HIDE DEF g
<1>4. /\ q.fsize = e.size /\ q.sclust = e.start /\ q.good = g /\ ~q.dirty
      /\ q.dsect = 0 /\ q.fptr = 0
  BY DEF Closed
<1> HIDE DEF q
<1>5. Near(q)  BY <1>4, Constants DEF Near
<1>6. p # None => e.size >= p  BY DEF KeptIn
<1>7. g > 0 => w # <<>> /\ e.start = w[1] /\ g <= SS * Len(w)  BY <1>2 DEF KeptIn
<1>8. g > 0 => e.start \in Clusters  BY <1>7, Rest
<1>9. g <= SS * Len(w)
  <2>1. SS * Len(w) \in Nat  BY FatAssumption, LenProperties
  <2> QED  BY <1>2, <1>7, <2>1
<1>10. ASSUME NEW i \in 1 .. Len(w), SS * (i - 1) < g
       PROVE  q.dsect # w[i] /\ data[w[i]] = n
  <2>1. w[i] \in Clusters  BY ElementOfSeq
  <2>2. q.dsect # w[i]  BY <1>4, <2>1, Constants
  <2>3. SS * (i - 1) \in Nat
    <3>1. i - 1 \in Nat /\ SS \in Nat  BY FatAssumption, LenProperties
    <3> QED  BY <3>1
  <2>4. g > 0  BY <1>2, <1>10, <2>3
  <2>5. data[w[i]] = n  BY <1>2, <1>10, <2>4 DEF KeptIn
  <2> QED  BY <2>2, <2>5
<1>11. q.dsect # DiskErr  BY <1>4, Constants
<1>12. ObjOk(n, w, q, data, p)  BY <1>4, <1>6, <1>8, <1>9, <1>10, <1>11 DEF ObjOk
<1> QED  BY <1>1, <1>5, <1>12

LEMMA DirectoryCarried ==
  ASSUME NEW own, VolumeInv(own), ContentInv(own), FindExisting \/ BackToEntry
  PROVE  Carried(own)
<1>1. win.copy = EntNow /\ call.at \in {"find", "back"}
  BY DirHere DEF FindExisting, BackToEntry
<1>2. PICK n \in Names, w \in Seq(Clusters), e \in Entries, o \in Files, p \in Nat \cup {None} :
        /\ n = call.n /\ w = own[n] /\ e = EntNow[n] /\ o = obj[n] /\ p = kept[n]
        /\ FileOk(w, e, o) /\ PlaceOk(w, e, o, call)
  BY <1>1, BusyBytes
<1>3. PICK cd : cd = Now  OBVIOUS
<1>4. cd.ent[n] = e /\ cd.data = card.data  BY <1>2, <1>3 DEF Now
<1>5. p # None => KeptIn(n, w, cd, p)  BY <1>2, <1>3 DEF ContentInv, KeptInv
<1>6. ASSUME NEW fresh \in BOOLEAN, Return(Opened(e, fresh))
      PROVE  Carries(n, w, e, card.data, p)
  <2>1. obj' = [obj EXCEPT ![n] = Opened(e, fresh)] /\ call' = Idle
    BY <1>2, <1>6 DEF Return
  <2>2. ObjOk(n, w, Opened(e, fresh), card.data, p) /\ Near(Opened(e, fresh))
    BY <1>2, <1>4, <1>5, OpenedBytes
  <2> QED  BY <2>1, <2>2, Records DEF Carries
<1>7. ASSUME Return(Closed)
      PROVE  Carries(n, w, e, card.data, p)
  <2>1. obj' = [obj EXCEPT ![n] = Closed] /\ call' = Idle  BY <1>2, <1>7 DEF Return
  <2>2. ObjOk(n, w, Closed, card.data, p) /\ ~Closed.open  BY ClosedBytes DEF Closed
  <2> QED  BY <2>1, <2>2, Records DEF Carries
<1>8. \/ \E fresh \in BOOLEAN : Return(Opened(e, fresh))
      \/ Return(Closed)
  BY <1>1, <1>2 DEF FindExisting, BackToEntry
<1> QED  BY <1>2, <1>6, <1>7, <1>8 DEF Carried

\* The search for a cluster.
LEMMA SearchCarried ==
  ASSUME NEW own, VolumeInv(own), ContentInv(own), Stretch \/ ScanPasses
  PROVE  Carried(own)
<1>1. call.at \in {"stretch", "scan"} /\ win.sect = Need
  BY DEF Stretch, ScanPasses, InWindow
<1>2. PICK n \in Names, w \in Seq(Clusters), e \in Entries, o \in Files, p \in Nat \cup {None} :
        /\ n = call.n /\ w = own[n] /\ e = EntNow[n] /\ o = obj[n] /\ p = kept[n]
        /\ FileOk(w, e, o) /\ PlaceOk(w, e, o, call)
        /\ ObjOk(n, w, o, card.data, p) /\ Fit(n, e, o, call, p)
        /\ call \in Calling /\ obj \in [Names -> Files]
  BY <1>1, BusyBytes
<1>3. o.open /\ call.op \in {"write", "seek"}
  BY <1>1, <1>2 DEF PlaceOk, InOk, FirstOk, AfterOk
<1>4. call.op = "write" => Limit(o, call, p)  BY <1>2 DEF Fit, Limit
<1>5. CASE Stretch
  <2>1. call.at = "stretch" /\ InOk(w, o, call)  BY <1>2, <1>5 DEF Stretch, InWindow, PlaceOk
  <2>2. CASE call.c \notin Clusters
    <3>1. FatEntry(call.c) = 1  BY <2>2 DEF FatEntry
    <3>2. ChainReturns(1)  BY <1>5, <3>1 DEF Stretch
    <3>3. Abort(1)  BY <1>3, <3>2 DEF ChainReturns, ChainToWrite, ChainToSeek
    <3>4. ObjOk(n, w, Forget(o), card.data, p)
      BY <1>2, ForgetBytes, SameBytesKeep
    <3>5. 1 \in Nat /\ call.at # "scan"  BY <2>1
    <3> QED  BY <1>2, <1>3, <3>3, <3>4, <3>5, AbortCarries DEF Carried
  <2>3. CASE call.c \in Clusters
    <3>1. PICK j \in 1 .. Len(w) : call.c = w[j]  BY <2>1, <2>3, InCluster
    <3>2. FatEntry(call.c) = FatNow[call.c]
      BY <1>1, <2>1, <2>3, FatHere DEF FatEntry, Need
    <3>3. FatNow[w[j]] = IF j < Len(w) THEN w[j + 1] ELSE EOC  BY <1>2, LinkedAt
    <3>4. CASE j < Len(w)
      <4>1. Len(w) \in Nat /\ j + 1 \in 1 .. Len(w)  BY <3>4, LenProperties
      <4>2. PICK r \in Clusters : r = w[j + 1] /\ r = FatEntry(call.c)
        BY <3>1, <3>2, <3>3, <3>4, <4>1, ElementOfSeq
      <4>3. ChainReturns(r)
        <5>1. r \in Clusters \cup {0, 1} /\ ~(r < 2) /\ FatEntry(call.c) = r
          BY FatAssumption, <4>2 DEF Clusters
        <5> QED  BY <1>5, <5>1 DEF Stretch
      <4>4. call.op = "write" => o.fptr > 0  BY <2>1 DEF InOk
      <4>5. call.op = "seek" => call.left > SS  BY <2>1 DEF InOk
      <4>6. call.c # 0  BY <2>3, Constants
      <4>7. ~(call.op = "write" /\ o.fptr = 0)  BY <4>4
      <4> QED  BY <1>2, <1>3, <1>4, <4>3, <4>5, <4>6, <4>7, ClusterCarries DEF Carried
    <3>5. CASE ~(j < Len(w))
      <4>1. FatEntry(call.c) = EOC /\ EOC \notin Clusters \cup {0, 1}
        BY <3>1, <3>2, <3>3, <3>5, FatAssumption DEF EOC, Clusters
      <4>2. call' = ScanFor(call, call.c, call.c) /\ obj' = obj  BY <1>5, <4>1 DEF Stretch
      <4>3. call.c \in 1 .. NFatent - 1 /\ call.c \in Nat  BY <2>3, Constants
      <4>4. call'.at = "scan" /\ call'.n = n /\ call'.op = call.op /\ call'.from = call.from
        BY <1>2, <4>2, <4>3, ScanForm
      <4>5. Fit(n, e, o, call', p)  BY <1>3, <1>2, <4>4 DEF Fit
      <4>6. obj' = [obj EXCEPT ![n] = o]  BY <1>2, <4>2
      <4> QED  BY <1>2, <4>4, <4>5, <4>6 DEF Carries, Carried
    <3> QED  BY <3>4, <3>5
  <2> QED  BY <2>2, <2>3
<1>6. CASE ScanPasses
  <2>1. call.at = "scan"  BY <1>6 DEF ScanPasses, InWindow
  <2>2. CASE ChainReturns(0)
    <3>1. call.c = 0 => o.fptr % SS = 0  BY <1>2, <2>1, Constants DEF PlaceOk, FirstOk
    <3>2. call.op = "write" /\ call.c # 0 => o.fptr % SS = 0
      BY <1>2, <2>1 DEF PlaceOk, AfterOk, InOk
    <3> QED  BY <1>2, <1>3, <2>2, <3>1, <3>2, FullCarries DEF Carried
  <2>3. CASE call' = [call EXCEPT !.k = Next1(@)] /\ obj' = obj
    <3>1. call'.at = "scan" /\ call'.n = n /\ call'.op = call.op /\ call'.from = call.from
      BY <1>2, <2>1, <2>3 DEF Calling
    <3>2. Fit(n, e, o, call', p)  BY <1>2, <1>3, <3>1 DEF Fit
    <3>3. obj' = [obj EXCEPT ![n] = o]  BY <1>2, <2>3
    <3> QED  BY <1>2, <3>1, <3>2, <3>3 DEF Carries, Carried
  <2> QED  BY <1>6, <2>2, <2>3 DEF ScanPasses
<1> QED  BY <1>5, <1>6

\* A clean buffer is filled from the card.
Filled(o, c, v) == [o EXCEPT !.dsect = c, !.bufv = v]

LEMMA LoadedBytes ==
  ASSUME NEW n, NEW w \in Seq(Clusters), NEW o \in Files, NEW data, NEW p,
         ObjOk(n, w, o, data, p), ~o.dirty, NEW c \in Clusters, data[c] \in Labels
  PROVE  ObjOk(n, w, Filled(o, c, data[c]), data, p)
<1> DEFINE q == Filled(o, c, data[c])
<1>1. c \in Nat /\ c # DiskErr  BY Constants
<1>2. /\ q \in Files /\ q.open = o.open /\ q.fsize = o.fsize /\ q.dsect = c
      /\ q.bufv = data[c] /\ q.dirty = o.dirty /\ q.good = o.good /\ q.sclust = o.sclust
  BY <1>1 DEF Files, Filled
<1> HIDE DEF q
<1>3. \A i \in 1 .. Len(w) : SS * (i - 1) < o.good =>
         /\ c = w[i] => data[c] = n
         /\ data[w[i]] = n
  BY DEF ObjOk
<1>4. ObjOk(n, w, q, data, p)  BY <1>1, <1>2, <1>3 DEF ObjOk
<1> QED  BY <1>4 DEF q

LEMMA FilledForm ==
  ASSUME NEW o \in Files, NEW c \in Clusters, NEW v \in Labels, NEW q, q = Filled(o, c, v)
  PROVE  /\ q \in Files /\ q.open = o.open /\ q.fptr = o.fptr /\ q.clust = o.clust
         /\ q.dsect = c /\ q.good = o.good
<1>1. c \in Nat  BY Constants
<1> QED  BY <1>1 DEF Files, Filled

\* A read in the sector of the pointer gets what was written there.
LEMMA ReadsCarried ==
  ASSUME NEW own, VolumeInv(own), ContentInv(own), ReadInside \/ ReadSector \/ ReadPart
  PROVE  Carried(own)
<1>1. call.at \in {"inside", "fetch"}  BY DEF ReadInside, ReadSector, ReadPart
<1>2. PICK n \in Names, w \in Seq(Clusters), e \in Entries, o \in Files, p \in Nat \cup {None} :
        /\ n = call.n /\ w = own[n] /\ e = EntNow[n] /\ o = obj[n] /\ p = kept[n]
        /\ PlaceOk(w, e, o, call)
        /\ ObjOk(n, w, o, card.data, p) /\ Fit(n, e, o, call, p)
        /\ call \in Calling /\ WinOk
  BY <1>1, BusyBytes
<1>3. o.open /\ call.op = "read"
  BY <1>1, <1>2 DEF PlaceOk, InsideOk, SectorOk, ReadInside, ReadSector, ReadPart
<1>4. call.left \in Nat /\ o.fptr \in Nat /\ SS \in Nat \ {0} /\ o.bufv \in Labels
  BY <1>2, FatAssumption DEF Calling, Files
<1>5. CASE ReadInside
  <2>1. o.fptr % SS # 0 /\ PtrOk(w, o) /\ o.fptr > 0 /\ o.dsect = o.clust
    BY <1>2, <1>5 DEF PlaceOk, InsideOk, Fit, ReadInside
  <2>2. PICK d \in 0 .. call.left : d = LesserOf(call.left, SS - (o.fptr % SS))
    <3>1. o.fptr \in Int  BY <1>4
    <3>2. o.fptr % SS \in 0 .. SS - 1  BY <1>4, <3>1, Quotient
    <3>3. PICK t \in Nat : t = SS - (o.fptr % SS)  BY <1>4, <3>2
    <3> QED  BY <1>4, <3>3 DEF LesserOf
  <2>3. Deliver(o, d, o.bufv)  BY <1>2, <1>5, <2>2 DEF ReadInside
  <2>4. PICK j \in 1 .. Len(w) : o.clust = w[j] /\ In(w, j, o.fptr)
    BY <1>2, <2>1 DEF PtrOk, ObjOk
  <2>5. o.fptr \div SS = j - 1  BY <1>4, <2>1, <2>4, InsideStart
  <2>6. SS * (o.fptr \div SS) < o.good => o.bufv = n
    BY <1>2, <2>1, <2>4, <2>5 DEF ObjOk
  <2>7. (o.fptr + d) % SS # 0 => o.dsect = o.clust  BY <2>1
  <2>8. Carries(n, w, e, card.data, p)
    BY <1>2, <1>3, <1>4, <2>3, <2>6, <2>7, DeliverCarries
  <2> QED  BY <1>2, <2>8 DEF Carried
<1>6. ASSUME call.at = "fetch"
      PROVE  \E j \in 1 .. Len(w) : /\ o.clust = w[j] /\ o.clust \in Clusters
                                    /\ o.fptr % SS = 0 /\ o.fptr \div SS = j - 1
                                    /\ (o.fptr + SS) % SS = 0
                                    /\ card.data[o.clust] \in Labels
  <2>1. StartOk(w, o)  BY <1>2, <1>6 DEF PlaceOk, SectorOk
  <2>2. PICK j \in 1 .. Len(w) : o.clust = w[j] /\ Begins(w, j, o.fptr)  BY <2>1 DEF StartOk
  <2>3. o.clust \in Clusters  BY <2>2, LenProperties, ElementOfSeq
  <2>4. o.fptr % SS = 0 /\ o.fptr \div SS = j - 1 /\ o.fptr + SS = SS * j
    BY <1>4, <2>2, Beginning
  <2>5. (o.fptr + SS) % SS = 0
    <3>1. j \in Int /\ SS * j \in Int  BY <1>4, LenProperties
    <3>2. PICK l \in Int : l = SS * j  BY <3>1
    <3>3. l % SS = 0  BY <1>4, <3>1, <3>2, Exactly
    <3> QED  BY <2>4, <3>2, <3>3
  <2> QED  BY <1>2, <2>2, <2>3, <2>4, <2>5, DataOnCard
<1>7. CASE ReadSector
  <2>1. call.at = "fetch"  BY <1>7 DEF ReadSector
  <2>2. PICK j \in 1 .. Len(w) : /\ o.clust = w[j] /\ o.clust \in Clusters
                                 /\ o.fptr \div SS = j - 1
                                 /\ (o.fptr + SS) % SS = 0
                                 /\ card.data[o.clust] \in Labels
    BY <1>6, <2>1
  <2>3. SS \in 0 .. call.left  BY <1>4, <1>7 DEF ReadSector
  <2>4. PICK v \in Labels : v = IF o.dirty /\ o.dsect = o.clust THEN o.bufv ELSE card.data[o.clust]
    BY <1>4, <2>2
  <2>5. Deliver(o, SS, v)  BY <1>2, <1>7, <2>4 DEF ReadSector
  <2>6. SS * (o.fptr \div SS) < o.good => v = n
    BY <1>2, <2>2, <2>4 DEF ObjOk
  <2> QED  BY <1>2, <1>3, <2>2, <2>3, <2>5, <2>6, DeliverCarries DEF Carried
<1>8. CASE ReadPart
  <2>1. call.at = "fetch" /\ call.left < SS /\ (o.dsect = o.clust \/ ~o.dirty)
    BY <1>2, <1>8 DEF ReadPart, BufferInWay
  <2>2. PICK j \in 1 .. Len(w) : /\ o.clust = w[j] /\ o.clust \in Clusters
                                 /\ o.fptr \div SS = j - 1
                                 /\ card.data[o.clust] \in Labels
    BY <1>6, <2>1
  <2>3. call.left \in 0 .. call.left  BY <1>4
  <2>4. CASE o.dsect = o.clust
    <3>1. Deliver(o, call.left, o.bufv)  BY <1>2, <1>8, <2>4 DEF ReadPart
    <3>2. SS * (o.fptr \div SS) < o.good => o.bufv = n
      BY <1>2, <2>2, <2>4 DEF ObjOk
    <3> QED  BY <1>2, <1>3, <1>4, <2>3, <2>4, <3>1, <3>2, DeliverCarries, SMTT(30) DEF Carried
  <2>5. CASE o.dsect # o.clust
    <3>1. PICK v \in Labels : v = card.data[o.clust]  BY <2>2
    <3> DEFINE q == Filled(o, o.clust, v)
    <3>2. Deliver(q, call.left, v)  BY <1>2, <1>8, <2>5, <3>1 DEF ReadPart, Filled
    <3>3. q = Filled(o, o.clust, card.data[o.clust])  BY <3>1
    <3> HIDE DEF q
    <3>6. ~o.dirty /\ ObjOk(n, w, o, card.data, p) /\ card.data[o.clust] \in Labels
      BY <1>2, <2>1, <2>2, <2>5
    <3>8. ObjOk(n, w, q, card.data, p)  BY <1>2, <2>2, <3>3, <3>6, LoadedBytes
    <3>9. q \in Files /\ q.open = o.open /\ q.fptr = o.fptr /\ q.clust = o.clust
          /\ q.dsect = o.clust /\ q.good = o.good
      BY <1>2, <2>2, <3>3, <3>6, FilledForm
    <3>7. q \in Files /\ q.open /\ q.fptr = o.fptr /\ q.clust = o.clust
          /\ q.dsect = o.clust /\ q.good = o.good
      BY <1>3, <3>9
    <3>4. SS * (o.fptr \div SS) < o.good => v = n
      BY <1>2, <2>1, <2>2, <2>5, <3>1 DEF ObjOk
    <3>5. SS * (q.fptr \div SS) < q.good => v = n  BY <3>4, <3>7
    <3> QED  BY <1>2, <1>3, <2>3, <3>2, <3>5, <3>7, <3>8, DeliverCarries DEF Carried
  <2> QED  BY <2>4, <2>5
<1> QED  BY <1>5, <1>7, <1>8

LEMMA FollowCarried ==
  ASSUME NEW own, VolumeInv(own), ContentInv(own), Follow
  PROVE  Carried(own)
<1>1. call.at = "follow"  BY DEF Follow, InWindow
<1>2. PICK n \in Names, w \in Seq(Clusters), e \in Entries, o \in Files, p \in Nat \cup {None} :
        /\ n = call.n /\ w = own[n] /\ e = EntNow[n] /\ o = obj[n] /\ p = kept[n]
        /\ PlaceOk(w, e, o, call)
        /\ ObjOk(n, w, o, card.data, p) /\ Fit(n, e, o, call, p) /\ call \in Calling
  BY <1>1, BusyBytes
<1>3. InOk(w, o, call) /\ call.op \in {"read", "seek"} /\ o.open
  BY <1>1, <1>2 DEF PlaceOk, InOk
<1>4. o.fptr \in Nat /\ SS \in Nat /\ o.fsize \in Nat /\ o.good \in Nat /\ call.left \in Nat
  BY <1>2, FatAssumption DEF Files, Calling
<1> DEFINE r == FatEntry(call.c)
<1>5. CASE r \notin Clusters
  <2>1. Abort(1)  BY <1>5 DEF Follow
  <2>2. ObjOk(n, w, Forget(o), card.data, p)  BY <1>2, ForgetBytes, SameBytesKeep
  <2>3. 1 \in Nat /\ call.at # "scan"  BY <1>1
  <2> QED  BY <1>2, <1>3, <2>1, <2>2, <2>3, AbortCarries DEF Carried
<1>6. ASSUME NEW c \in Nat, NEW f \in Nat, NEW q, q = [o EXCEPT !.clust = c, !.fptr = f]
      PROVE  SameButPlace(q, o)
  BY <1>6 DEF Files, SameButPlace
<1>7. ASSUME NEW q, SameButPlace(q, o)
      PROVE  q \in Files /\ q.open /\ ObjOk(n, w, q, card.data, p)
  <2>1. q \in Files /\ SameBytes(q, o)  BY <1>3, <1>4, <1>7 DEF SameBytes, SameButPlace
  <2> QED  BY <1>2, <1>3, <1>7, <2>1, SameBytesKeep DEF SameButPlace
<1>8. CASE r \in Clusters /\ call.op = "read"
  <2> DEFINE q == [o EXCEPT !.clust = r]
  <2> DEFINE cl == [call EXCEPT !.at = "fetch"]
  <2>1. Goes(q, cl)  BY <1>2, <1>8 DEF Follow
  <2>2. cl.at = "fetch" /\ cl.n = n /\ cl.op = "read"  BY <1>2, <1>8 DEF Calling
  <2>5. r \in Nat  BY <1>8, Constants
  <2> HIDE DEF r
  <2>3. SameButPlace(q, o)  BY <2>5 DEF Files, SameButPlace
  <2> HIDE DEF q, cl
  <2>6. ObjOk(n, w, q, card.data, p)  BY <1>7, <2>3
  <2>4. Fit(n, e, q, cl, p)  BY <2>2 DEF Fit
  <2> QED  BY <1>2, <2>1, <2>2, <2>4, <2>6 DEF Goes, Carries, Carried
<1>9. CASE r \in Clusters /\ call.op = "seek"
  <2> DEFINE f == o.fptr + SS
  <2> DEFINE l == call.left - SS
  <2> DEFINE q == [o EXCEPT !.clust = r, !.fptr = f]
  <2> DEFINE cl == [call EXCEPT !.left = l]
  <2>1. SeekOn(q, cl, r)  BY <1>2, <1>9 DEF Follow
  <2>2. r \in Nat  BY <1>9, Constants
  <2>3. call.left > SS  BY <1>3, <1>9 DEF InOk
  <2> HIDE DEF r
  <2>4. f \in Nat /\ l \in Nat  BY <1>4, <2>3
  <2> HIDE DEF f, l
  <2>5. SameButPlace(q, o)  BY <1>6, <2>2, <2>4
  <2>6. cl \in Calling /\ cl.n = n /\ cl.op = "seek"  BY <1>2, <1>9, <2>4 DEF Calling
  <2> HIDE DEF q, cl
  <2>7. q \in Files /\ q.open /\ ObjOk(n, w, q, card.data, p)  BY <1>7, <2>5
  <2> QED  BY <1>2, <2>1, <2>2, <2>6, <2>7, SeekCarries DEF Carried
<1> QED  BY <1>3, <1>5, <1>8, <1>9

\* The buffer is filled where the pointer has been moved to.
LEMMA SeekEndsCarried ==
  ASSUME NEW own, VolumeInv(own), ContentInv(own), SeekEnds
  PROVE  Carried(own)
<1>1. call.at = "fill"  BY DEF SeekEnds
<1>2. PICK n \in Names, w \in Seq(Clusters), e \in Entries, o \in Files, p \in Nat \cup {None} :
        /\ n = call.n /\ w = own[n] /\ e = EntNow[n] /\ o = obj[n] /\ p = kept[n]
        /\ PlaceOk(w, e, o, call) /\ obj \in [Names -> Files]
        /\ ObjOk(n, w, o, card.data, p) /\ call \in Calling /\ WinOk
  BY <1>1, BusyBytes
<1>3. o.open /\ call.c = o.clust  BY <1>1, <1>2 DEF PlaceOk
<1>4. ASSUME NEW q \in Files, q.open, ObjOk(n, w, q, card.data, p), Near(q), Return(Sought(q))
      PROVE  Carries(n, w, e, card.data, p)
  <2>1. ObjOk(n, w, Sought(q), card.data, p) /\ Near(Sought(q))
    BY <1>2, <1>4, StretchedBytes, SameBytesKeep
  <2>2. obj' = [obj EXCEPT ![n] = Sought(q)] /\ call' = Idle  BY <1>2, <1>4 DEF Return
  <2> QED  BY <2>1, <2>2, Records DEF Carries
<1>5. CASE o.fptr % SS = 0 \/ o.dsect = call.c
  <2>1. Return(Sought(o))  BY <1>2, <1>5 DEF SeekEnds
  <2>2. Near(o)  BY <1>3, <1>5 DEF Near
  <2> QED  BY <1>2, <1>3, <1>4, <2>1, <2>2 DEF Carried
<1>6. CASE ~(o.fptr % SS = 0 \/ o.dsect = call.c) /\ call.c \notin Clusters
  <2>1. Abort(1)  BY <1>2, <1>6 DEF SeekEnds
  <2>2. ObjOk(n, w, Forget(o), card.data, p)  BY <1>2, ForgetBytes, SameBytesKeep
  <2>3. 1 \in Nat /\ call.at # "scan"  BY <1>1
  <2> QED  BY <1>2, <1>3, <2>1, <2>2, <2>3, AbortCarries DEF Carried
<1>7. CASE ~(o.fptr % SS = 0 \/ o.dsect = call.c) /\ call.c \in Clusters
  <2>1. PICK v \in Labels : v = card.data[call.c]  BY <1>2, <1>7, DataOnCard
  <2>2. ~o.dirty  BY <1>1, <1>2, <1>7 DEF SeekEnds, BufferInWay
  <2> DEFINE q == Filled(o, call.c, v)
  <2>3. Return(Sought(q))  BY <1>2, <1>7, <2>1 DEF SeekEnds, Filled
  <2>6. q = Filled(o, call.c, card.data[call.c])  BY <2>1
  <2> HIDE DEF q
  <2>7. card.data[call.c] \in Labels  BY <2>1
  <2>8. ObjOk(n, w, q, card.data, p)  BY <1>2, <1>7, <2>2, <2>6, <2>7, LoadedBytes
  <2>9. q \in Files /\ q.open = o.open /\ q.clust = o.clust /\ q.dsect = call.c
    BY <1>2, <1>7, <2>6, <2>7, FilledForm
  <2>4. q \in Files /\ q.open /\ q.clust = o.clust /\ q.dsect = call.c
    BY <1>3, <2>9
  <2>5. Near(q)  BY <1>3, <2>4 DEF Near
  <2> QED  BY <1>2, <1>3, <1>4, <2>3, <2>4, <2>5, <2>8 DEF Carried
<1> QED  BY <1>5, <1>6, <1>7

LEMMA ReadEndsCarried ==
  ASSUME NEW own, VolumeInv(own), ContentInv(own), ReadEnds
  PROVE  Carried(own)
<1>1. call.at = "got"  BY DEF ReadEnds
<1>2. PICK n \in Names, w \in Seq(Clusters), e \in Entries, o \in Files, p \in Nat \cup {None} :
        /\ n = call.n /\ w = own[n] /\ e = EntNow[n] /\ o = obj[n] /\ p = kept[n]
        /\ ObjOk(n, w, o, card.data, p) /\ Fit(n, e, o, call, p)
  BY <1>1, BusyBytes
<1>3. obj' = [obj EXCEPT ![n] = o] /\ call' = Idle  BY <1>2 DEF ReadEnds, Return
<1>4. Near(o)  BY <1>1, <1>2 DEF Fit
<1> QED  BY <1>2, <1>3, <1>4, Records DEF Carries, Carried

-----------------------------------------------------------------------------
(* Accesses that fail.                                                     *)

LEMMA FailCarried ==
  ASSUME NEW own, VolumeInv(own), ContentInv(own), call.at # "idle", Failed(DiskErr)
  PROVE  Carried(own) /\ kept' = kept
<1>1. PICK n \in Names, w \in Seq(Clusters), e \in Entries, o \in Files, p \in Nat \cup {None} :
        /\ n = call.n /\ w = own[n] /\ e = EntNow[n] /\ o = obj[n] /\ p = kept[n]
        /\ PlaceOk(w, e, o, call) /\ ObjOk(n, w, o, card.data, p) /\ call \in Calling
  BY BusyBytes
<1>2. ObjOk(n, w, Forget(o), card.data, p)  BY <1>1, ForgetBytes, SameBytesKeep
<1>3. Carries(n, w, e, card.data, p)  BY <1>1, <1>2, FailCarries
<1> QED  BY <1>1, <1>3 DEF Carried, Failed

\* A read from the card.
LEMMA ReadFailsContent ==
  ASSUME NEW own, VolumeInv(own), ContentInv(own), ReadFails \/ FillFails
  PROVE  ContentInv(own)'
<1>1. /\ call.at # "idle" /\ Failed(DiskErr) /\ win' = win /\ card' = card
      /\ safe' \in {card, safe}
  BY DEF ReadFails, FillFails
<1> QED  BY <1>1, FailCarried, CarriedKeeps

\* The end of f_close.
LEMMA SyncFailsContent ==
  ASSUME NEW own, VolumeInv(own), ContentInv(own), SyncFails, bound' = bound
  PROVE  ContentInv(own)'
<1>1. call.at # "idle" /\ Failed(DiskErr) /\ card' = card /\ safe' = safe  BY DEF SyncFails
<1>2. Carried(own) /\ kept' = kept  BY <1>1, FailCarried
<1>3. FatNow' = FatNow /\ EntNow' = EntNow  BY SyncKeeps
<1>4. Now' = Now  BY <1>1, <1>3 DEF Now
<1>5. {Now', card', safe'} \subseteq {Now, card, safe} /\ card'.data = card.data  BY <1>1, <1>4
<1> QED  BY <1>2, <1>3, <1>5, QuietBytes DEF Carried

\* The window is written, and the card has what the code works on.
LEMMA StoredNow ==
  ASSUME WinOk, win.dirty
  PROVE  Stored(card, win.sect, win.copy) = Now
<1> DEFINE new == Stored(card, win.sect, win.copy)
<1>1. win.sect # NoSect  BY WindowForm
<1>2. new \in Volumes /\ new.fat = FatNow /\ new.ent = EntNow /\ new.data = card.data
  BY <1>1, WrittenBack
<1> HIDE DEF new
<1>3. new = [fat |-> new.fat, ent |-> new.ent, data |-> new.data]  BY <1>2 DEF Volumes
<1>4. new = Now  BY <1>2, <1>3 DEF Now
<1> QED  BY <1>4 DEF new

LEMMA WindowFailsContent ==
  ASSUME NEW own, VolumeInv(own), ContentInv(own), WindowFails
  PROVE  ContentInv(own)'
<1>1. Failed(DiskErr) /\ win' = win /\ WinOk  BY DEF VolumeInv, BaseInv, WindowFails
<1>2. call.at # "idle"  BY DEF WindowFails, Need
<1>3. Carried(own) /\ kept' = kept  BY <1>1, <1>2, FailCarried
<1>4. CASE UNCHANGED <<card, safe>>
  <2>1. safe' \in {card, safe} /\ card' = card  BY <1>4
  <2> QED  BY <1>1, <1>3, <2>1, CarriedKeeps
<1>5. CASE win.dirty /\ DiskWrite(Stored(card, win.sect, win.copy))
  <2>1. card' = Now /\ safe' = card  BY <1>1, <1>5, StoredNow DEF DiskWrite
  <2>2. card'.fat = FatNow /\ card'.ent = EntNow /\ card'.data = card.data  BY <2>1 DEF Now
  <2>3. FatNow' = FatNow /\ EntNow' = EntNow  BY <1>1, <2>2 DEF FatNow, EntNow
  <2>4. Now' = Now  BY <2>2, <2>3 DEF Now
  <2>5. {Now', card', safe'} \subseteq {Now, card, safe}  BY <2>1, <2>4
  <2> QED  BY <1>3, <2>2, <2>3, <2>5, QuietBytes DEF Carried
<1> QED  BY <1>4, <1>5 DEF WindowFails, WriteFails

\* Bytes may change where the program knows nothing of them, or to those of the file.
LEMMA TouchKeeps ==
  ASSUME NEW n, NEW w \in Seq(Clusters), NEW o, NEW d, NEW d2, NEW p, NEW c, NEW vs,
         ObjOk(n, w, o, d, p), Touch(d2, d, c, vs),
         \A i \in 1 .. Len(w) : w[i] = c => vs \subseteq {n} \/ ~(SS * (i - 1) < o.good)
  PROVE  ObjOk(n, w, o, d2, p)
<1>1. ASSUME NEW i \in 1 .. Len(w), SS * (i - 1) < o.good
      PROVE  d2[w[i]] = n \/ (o.dirty /\ o.dsect = w[i])
  <2>1. d[w[i]] = n \/ (o.dirty /\ o.dsect = w[i])  BY <1>1 DEF ObjOk
  <2>2. w[i] \in Clusters  BY ElementOfSeq
  <2>3. d2[w[i]] = d[w[i]] \/ (w[i] = c /\ d2[w[i]] \in vs)  BY <2>2 DEF Touch
  <2> QED  BY <1>1, <2>1, <2>3
<1> QED  BY <1>1 DEF ObjOk

\* The buffer cannot be written, or has been in spite of the error.
LEMMA BufferFailsContent ==
  ASSUME NEW own, VolumeInv(own), ContentInv(own), BufferFails
  PROVE  ContentInv(own)'
<1>1. call.at # "idle" /\ Failed(DiskErr) /\ kept' = kept  BY DEF BufferFails, BufferInWay, Failed
<1>2. PICK n \in Names, w \in Seq(Clusters), e \in Entries, o \in Files, p \in Nat \cup {None} :
        /\ n = call.n /\ w = own[n] /\ e = EntNow[n] /\ o = obj[n] /\ p = kept[n]
        /\ PlaceOk(w, e, o, call) /\ ObjOk(n, w, o, card.data, p) /\ call \in Calling /\ WinOk
  BY <1>1, BusyBytes
<1>3. o.dirty  BY <1>2 DEF BufferFails, BufferInWay
<1>4. PICK j \in 1 .. Len(w) : o.dsect = w[j] /\ o.bufv = n  BY <1>2, <1>3 DEF ObjOk
<1>5. DataAt(w[j], {n})
  <2>1. WriteFails(WithData(card, w[j], n)) /\ win' = win  BY <1>2, <1>4 DEF BufferFails
  <2>2. n \in Labels  BY DEF Labels
  <2> QED  BY <1>2, <2>1, <2>2, DataAtSteps
<1>6. ObjOk(n, w, Forget(o), card'.data, p)
  <2>1. ObjOk(n, w, Forget(o), card.data, p)  BY <1>2, ForgetBytes, SameBytesKeep
  <2>2. Touch(card'.data, card.data, w[j], {n})  BY <1>5 DEF DataAt
  <2> QED  BY <2>1, <2>2, TouchKeeps
<1>7. Carries(n, w, EntNow'[n], card'.data, p)  BY <1>1, <1>2, <1>6, FailCarries
<1> QED  BY <1>1, <1>2, <1>4, <1>5, <1>7, DataBytes

\* What was promised, and what is known after an error, is before the sector
\* that is written.
LEMMA BeforeStore ==
  ASSUME NEW w \in Seq(Clusters), NEW j, NEW from \in Nat, NEW f \in Nat,
         SectorStart(from) <= f, Begins(w, j, f) \/ (In(w, j, f) /\ f % SS # 0)
  PROVE  j \in 1 .. Len(w) /\ \A g \in Nat : g <= SectorStart(from) => ~(SS * (j - 1) < g)
<1>1. j \in 1 .. Len(w) /\ j \in Nat /\ j - 1 \in Nat /\ SS \in Nat \ {0}
  BY FatAssumption, LenProperties DEF Begins, In
<1>2. PICK t \in Nat : t = from \div SS  BY SectorOf
<1>3. SectorStart(from) = SS * t  BY <1>1, <1>2 DEF SectorStart
<1>4. f < SS * j
  <2>1. CASE Begins(w, j, f)
    <3>1. f + SS = SS * j  BY <2>1, Beginning
    <3> QED  BY <1>1, <3>1
  <2>2. CASE In(w, j, f) /\ f % SS # 0  BY <2>2, Inside
  <2> QED  BY <2>1, <2>2
<1>5. t < j
  <2>1. SS * j \in Nat /\ SS * t \in Nat  BY <1>1
  <2>2. SS * t < SS * j  BY <1>3, <1>4, <2>1
  <2> QED  BY <1>1, <2>2, Multiples
<1>6. SS * t <= SS * (j - 1) /\ SS * (j - 1) \in Int /\ SS * t \in Nat  BY <1>1, <1>5, Multiples
<1> QED  BY <1>1, <1>3, <1>6

\* The sector of a write cannot be written, or not be read into the buffer.
LEMMA StoreFailsContent ==
  ASSUME NEW own, VolumeInv(own), ContentInv(own), StoreFails
  PROVE  ContentInv(own)'
<1>1. call.at = "store" /\ Failed(DiskErr) /\ kept' = kept /\ win' = win
  BY DEF StoreFails, Failed
<1>2. CASE UNCHANGED <<card, safe>>
  <2>1. safe' \in {card, safe} /\ card' = card  BY <1>2
  <2> QED  BY <1>1, <2>1, FailCarried, CarriedKeeps
<1>3. CASE Outdate(obj[call.n].clust)
  <2>2. PICK n \in Names, w \in Seq(Clusters), e \in Entries, o \in Files, p \in Nat \cup {None} :
          /\ n = call.n /\ w = own[n] /\ e = EntNow[n] /\ o = obj[n] /\ p = kept[n]
          /\ PlaceOk(w, e, o, call) /\ ObjOk(n, w, o, card.data, p) /\ Fit(n, e, o, call, p)
          /\ call \in Calling /\ WinOk
    BY <1>1, BusyBytes
  <2>3. call.op = "write" /\ StartOk(w, o) /\ call.from \in Nat /\ o.fptr \in Nat
    BY <1>1, <2>2 DEF PlaceOk, SectorOk, Calling, Files
  <2>4. PICK j \in 1 .. Len(w) : o.clust = w[j] /\ Begins(w, j, o.fptr)  BY <2>3 DEF StartOk
  <2>5. (p # None => p <= SectorStart(call.from)) /\ SectorStart(call.from) <= o.fptr
    BY <2>2, <2>3 DEF Fit
  <2>6. \A g \in Nat : g <= SectorStart(call.from) => ~(SS * (j - 1) < g)
    BY <2>3, <2>4, <2>5, BeforeStore
  <2>7. DataAt(w[j], {Nobody})
    <3>1. Outdate(w[j]) /\ Nobody \in Labels  BY <1>3, <2>2, <2>4 DEF Labels
    <3> QED  BY <1>1, <2>2, <3>1, DataAtSteps
  <2>8. Forget(o).good \in Nat /\ Forget(o).good <= SectorStart(call.from)
    <3>1. SectorStart(call.from) \in Nat /\ o.good \in Nat  BY <2>3, SectorStartForm DEF Files
    <3> DEFINE g == LesserOf(o.good, SectorStart(call.from))
    <3>2. g \in Nat /\ g <= SectorStart(call.from)  BY <3>1 DEF LesserOf
    <3>3. Forget(o) = [o EXCEPT !.good = g]  BY <2>3 DEF Forget
    <3> HIDE DEF g
    <3> QED  BY <3>2, <3>3 DEF Files
  <2>9. \A i \in 1 .. Len(w) : w[i] = w[j] => i = j  BY <2>2, LinkedAt
  <2>10. ObjOk(n, w, Forget(o), card'.data, p)
    <3>1. ObjOk(n, w, Forget(o), card.data, p)  BY <2>2, ForgetBytes, SameBytesKeep
    <3>2. Touch(card'.data, card.data, w[j], {Nobody})  BY <2>7 DEF DataAt
    <3>3. ~(SS * (j - 1) < Forget(o).good)  BY <2>6, <2>8
    <3> QED  BY <2>9, <3>1, <3>2, <3>3, TouchKeeps
  <2>11. Carries(n, w, EntNow'[n], card'.data, p)  BY <1>1, <2>2, <2>10, FailCarries
  <2>12. p = None \/ ~(SS * (j - 1) < p)  BY <2>5, <2>6
  <2> QED  BY <1>1, <2>2, <2>7, <2>11, <2>12, DataBytes
<1> QED  BY <1>2, <1>3 DEF StoreFails

-----------------------------------------------------------------------------
(* What is written.                                                        *)

LEMMA WithDataThere ==
  ASSUME NEW cd \in Volumes, NEW c \in Clusters, NEW v \in Labels
  PROVE  WithData(cd, c, v).data[c] = v
<1>1. cd.data \in [Clusters -> Labels]  BY DEF Volumes
<1>2. WithData(cd, c, v) = [cd EXCEPT !.data[c] = v]  BY DEF WithData
<1> QED  BY <1>1, <1>2 DEF Volumes

\* The buffer goes to the card.
LEMMA FlushBufferContent ==
  ASSUME NEW own, VolumeInv(own), ContentInv(own), FlushBuffer
  PROVE  ContentInv(own)'
<1>1. call.at # "idle" /\ kept' = kept /\ win' = win  BY DEF FlushBuffer, BufferInWay
<1>2. PICK n \in Names, w \in Seq(Clusters), e \in Entries, o \in Files, p \in Nat \cup {None} :
        /\ n = call.n /\ w = own[n] /\ e = EntNow[n] /\ o = obj[n] /\ p = kept[n]
        /\ PlaceOk(w, e, o, call) /\ ObjOk(n, w, o, card.data, p) /\ Fit(n, e, o, call, p)
        /\ call \in Calling /\ WinOk
  BY <1>1, BusyBytes
<1>3. o.dirty  BY <1>2 DEF FlushBuffer, BufferInWay
<1>4. PICK j \in 1 .. Len(w) : o.dsect = w[j] /\ o.bufv = n  BY <1>2, <1>3 DEF ObjOk
<1>5. w[j] \in Clusters /\ n \in Labels  BY ElementOfSeq DEF Labels
<1>6. DiskWrite(WithData(card, w[j], n))  BY <1>2, <1>4 DEF FlushBuffer
<1>7. DataAt(w[j], {n})  BY <1>1, <1>2, <1>5, <1>6, DataAtSteps
<1>8. card'.data[w[j]] = n
  <2>1. card \in Volumes /\ card' = WithData(card, w[j], n)  BY <1>2, <1>6 DEF WinOk, DiskWrite
  <2> QED  BY <1>5, <2>1, WithDataThere
<1> DEFINE q == [o EXCEPT !.dirty = FALSE]
<1> DEFINE cl == IF call.at = "flush" THEN [call EXCEPT !.at = "entry"] ELSE call
<1>9. Goes(q, cl)  BY <1>2 DEF FlushBuffer
<1>10. /\ q.open = o.open /\ q.err = o.err /\ q.fptr = o.fptr /\ q.fsize = o.fsize
       /\ q.sclust = o.sclust /\ q.clust = o.clust /\ q.dsect = o.dsect /\ q.bufv = o.bufv
       /\ q.good = o.good /\ ~q.dirty
  BY DEF Files
<1>11. /\ cl.n = n /\ cl.op = call.op /\ cl.m = call.m /\ cl.from = call.from
       /\ cl.at \in {"store", "fetch", "fill", "entry"} /\ call.at # "find"
       /\ cl.at = "entry" => cl.op = "close"
  <2>1. call.at \in {"store", "flush", "fetch", "fill"}  BY DEF FlushBuffer, BufferInWay
  <2>2. call.at = "flush" => call.op = "close"  BY <1>2 DEF PlaceOk
  <2> QED  BY <1>2, <2>1, <2>2 DEF Calling, AtPlaces
<1> HIDE DEF q, cl
<1>12. ObjOk(n, w, q, card'.data, p)
  <2>1. ObjOk(n, w, o, card'.data, p)
    <3>1. Touch(card'.data, card.data, w[j], {n})  BY <1>7 DEF DataAt
    <3> QED  BY <1>2, <3>1, TouchKeeps
  <2>2. \A i \in 1 .. Len(w) : SS * (i - 1) < q.good =>
           /\ q.dsect = w[i] => q.bufv = n
           /\ card'.data[w[i]] = n
    BY <1>4, <1>8, <1>10, <2>1 DEF ObjOk
  <2> QED  BY <1>10, <2>1, <2>2 DEF ObjOk
<1>13. Fit(n, EntNow'[n], q, cl, p)  BY <1>2, <1>10, <1>11 DEF Fit
<1>14. Carries(n, w, EntNow'[n], card'.data, p)
  BY <1>2, <1>9, <1>11, <1>12, <1>13 DEF Carries, Goes
<1> QED  BY <1>1, <1>2, <1>4, <1>7, <1>14, DataBytes

\* What is known after bytes have been written behind what was known.
LEMMA AdvanceGood ==
  ASSUME NEW o \in Files, NEW d \in Nat
  PROVE  /\ Advance(o, d).good \in Nat /\ Advance(o, d).dsect = o.dsect
         /\ Advance(o, d).bufv = o.bufv /\ (~o.dirty => ~Advance(o, d).dirty)
         /\ \/ Advance(o, d).good = o.good
            \/ o.good >= o.fptr /\ Advance(o, d).good = o.fptr + d
<1> DEFINE f == o.fptr + d
<1> DEFINE g == IF o.good >= o.fptr THEN GreaterOf(o.good, f) ELSE o.good
<1>1. o.fptr \in Nat /\ o.good \in Nat  BY DEF Files
<1>2. f \in Nat  BY <1>1
<1>3. g \in Nat /\ (g = o.good \/ (o.good >= o.fptr /\ g = f))
  BY <1>1, <1>2 DEF GreaterOf
<1>4. Advance(o, d) = [o EXCEPT !.fptr = f, !.good = g]  BY DEF Advance
<1> HIDE DEF g
<1>5. Advance(o, d).good = g /\ Advance(o, d).dsect = o.dsect /\ Advance(o, d).bufv = o.bufv
      /\ (~o.dirty => ~Advance(o, d).dirty)
  BY <1>4 DEF Files
<1> QED  BY <1>3, <1>5

\* The pointer is in the jth cluster, and has sent d bytes on when the object is q.
Standing(w, o, j) ==
  /\ o.clust = w[j] /\ o.sclust \in Clusters
  /\ Begins(w, j, o.fptr) \/ (In(w, j, o.fptr) /\ o.fptr % SS # 0)

GoneOn(o, q, j, d) ==
  /\ o.fptr + d <= SS * j
  /\ q.open = o.open /\ q.fsize = o.fsize /\ q.sclust = o.sclust
  /\ q.fptr = o.fptr + d /\ q.clust = o.clust
  /\ q.good = o.good \/ (o.good >= o.fptr /\ q.good = o.fptr + d)

\* They are in the buffer, or on the card.
PutThere(n, c, o, q, data) ==
  \/ q.dirty /\ q.bufv = n /\ q.dsect = c /\ (o.dirty => o.dsect = c)
  \/ /\ ~q.dirty /\ ~o.dirty /\ q.dsect = o.dsect /\ data[c] = n
     /\ q.bufv = IF o.dsect = c THEN n ELSE o.bufv

\* The pointer goes on by d bytes in the jth cluster, which have been written
\* to the buffer or to the card.
LEMMA WroteBytes ==
  ASSUME NEW n, NEW w \in Seq(Clusters), NEW o \in Files, NEW data, NEW data2, NEW p, NEW vs,
         ObjOk(n, w, o, data, p), NEW j \in 1 .. Len(w), w[j] # DiskErr,
         \A i \in 1 .. Len(w) : w[i] = w[j] => i = j,
         Touch(data2, data, w[j], vs), o.sclust \in Clusters,
         NEW d \in Nat, SS * (j - 1) <= o.fptr,
         NEW q \in Files, GoneOn(o, q, j, d), PutThere(n, w[j], o, q, data2)
  PROVE  ObjOk(n, w, q, data2, p)
<1>8. /\ o.fptr + d <= SS * j /\ (q.open => o.open) /\ q.fsize = o.fsize /\ q.sclust = o.sclust
      /\ q.good = o.good \/ (o.good >= o.fptr /\ q.good = o.fptr + d)
  BY DEF GoneOn
<1>9. \/ q.dirty /\ q.bufv = n /\ q.dsect = w[j] /\ (o.dirty => o.dsect = w[j])
      \/ /\ ~q.dirty /\ ~o.dirty /\ q.dsect = o.dsect /\ data2[w[j]] = n
         /\ q.bufv = IF o.dsect = w[j] THEN n ELSE o.bufv
  BY DEF PutThere
<1>1. /\ j \in Nat /\ j - 1 \in Nat /\ SS \in Nat \ {0} /\ Len(w) \in Nat /\ j <= Len(w)
      /\ o.fptr \in Nat /\ o.good \in Nat /\ q.good \in Nat
  BY FatAssumption, LenProperties DEF Files
<1>2. SS * j \in Nat /\ SS * (j - 1) \in Nat /\ SS * (j - 1) = SS * j - SS /\ SS * j <= SS * Len(w)
      /\ SS * Len(w) \in Nat
  BY <1>1, Multiples
<1>3. q.open /\ p # None => q.fsize >= p  BY <1>8 DEF ObjOk
<1>4. q.good <= SS * Len(w)
  <2>1. PICK a \in Nat, b \in Nat : a = SS * j /\ b = SS * Len(w)  BY <1>2
  <2>2. a <= b  BY <1>2, <2>1
  <2>3. CASE q.good = o.good  BY <2>3 DEF ObjOk
  <2>4. CASE q.good = o.fptr + d
    <3>1. q.good <= a  BY <1>8, <2>1, <2>4
    <3>2. q.good <= b  BY <1>1, <2>1, <2>2, <3>1
    <3> QED  BY <2>1, <3>2
  <2> QED  BY <1>8, <2>3, <2>4
<1>5. ASSUME NEW i \in 1 .. Len(w), SS * (i - 1) < q.good, i # j
      PROVE  SS * (i - 1) < o.good
  <2>1. i \in Nat /\ i - 1 \in Nat /\ SS * (i - 1) \in Nat  BY <1>1
  <2>2. CASE q.good = o.good  BY <1>5, <2>2
  <2>4. o.good \in Nat /\ o.fptr \in Nat /\ SS \in Nat \ {0}  BY <1>1
  <2>3. CASE o.good >= o.fptr /\ q.good = o.fptr + d
    <3>6. PICK a \in Nat, b \in Nat : a = SS * (i - 1) /\ b = SS * j  BY <1>2, <2>1
    <3>7. a < q.good /\ q.good <= b  BY <1>5, <1>8, <2>3, <3>6
    <3>12. a \in Nat /\ b \in Nat /\ q.good \in Nat  BY <1>1, <3>6
    <3>8. a < b  BY <3>7, <3>12
    <3>1. SS * (i - 1) < SS * j  BY <3>6, <3>8
    <3>2. i - 1 < j  BY <1>1, <2>1, <3>1, Multiples
    <3>3. i - 1 < j - 1  BY <1>1, <1>5, <2>1, <3>2
    <3>4. SS * (i - 1) <= SS * (j - 1 - 1)  BY <1>1, <2>1, <3>3, Multiples
    <3>5. SS * (j - 1 - 1) = SS * (j - 1) - SS  BY <1>1, Multiples
    <3>9. PICK c \in Nat : c = SS * (j - 1)  BY <1>2
    <3>10. a <= c - SS /\ c <= o.fptr  BY <3>4, <3>5, <3>6, <3>9
    <3>13. a \in Nat /\ c \in Nat  BY <3>6, <3>9
    <3>11. a < o.good  BY <2>3, <2>4, <3>10, <3>13
    <3> QED  BY <3>6, <3>11
  <2> QED  BY <1>8, <2>2, <2>3
<1>6. ASSUME NEW i \in 1 .. Len(w), SS * (i - 1) < q.good
      PROVE  /\ q.dsect = w[i] => q.bufv = n
             /\ data2[w[i]] = n \/ (q.dirty /\ q.dsect = w[i])
  <2>1. CASE i = j  BY <1>9, <2>1
  <2>2. CASE i # j
    <3>1. w[i] # w[j] /\ w[i] \in Clusters  BY <2>2, ElementOfSeq
    <3>2. data2[w[i]] = data[w[i]]  BY <3>1 DEF Touch
    <3>3. /\ o.dsect = w[i] => o.bufv = n
          /\ data[w[i]] = n \/ (o.dirty /\ o.dsect = w[i])
      BY <1>5, <1>6, <2>2 DEF ObjOk
    <3> QED  BY <1>9, <3>1, <3>2, <3>3
  <2> QED  BY <2>1, <2>2
<1>7. q.dsect # DiskErr /\ (q.dirty => q.bufv = n /\ \E i \in 1 .. Len(w) : q.dsect = w[i])
  BY <1>9 DEF ObjOk
<1> QED  BY <1>3, <1>4, <1>6, <1>7, <1>8 DEF ObjOk

\* A step of f_write, after which the call goes on or returns.
LEMMA WroteContent ==
  ASSUME NEW own, VolumeInv(own), ContentInv(own), NEW n \in Names, n = call.n, call.op = "write",
         call \in Calling, call.at # "idle",
         NEW w \in Seq(Clusters), w = own[n], NEW o \in Files, o = obj[n], o.open,
         NEW p \in Nat \cup {None}, p = kept[n], kept' = kept, last \in Nat,
         ObjOk(n, w, o, card.data, p), Fit(n, EntNow[n], o, call, p),
         NEW j, Standing(w, o, j), NEW d \in 0 .. call.left,
         NEW vs, DataAt(w[j], vs),
         NEW q \in Files, GoneOn(o, q, j, d), Near(q), PutThere(n, w[j], o, q, card'.data),
         NEW cl, cl = [call EXCEPT !.left = call.left - d], WriteOn(q, cl)
  PROVE  ContentInv(own)'
<1>1. call.from \in Nat /\ o.fptr \in Nat /\ call.left \in Nat /\ d \in Nat  BY DEF Calling, Files
<1>2. (p # None => p <= SectorStart(call.from)) /\ SectorStart(call.from) <= o.fptr
  BY DEF Fit
<1>3. j \in 1 .. Len(w) /\ \A g \in Nat : g <= SectorStart(call.from) => ~(SS * (j - 1) < g)
  BY <1>1, <1>2, BeforeStore DEF Standing
<1>4. p = None \/ ~(SS * (j - 1) < p)  BY <1>2, <1>3
<1>5. w[j] \in Clusters /\ w[j] # DiskErr
  <2>1. w[j] \in Clusters  BY <1>3, ElementOfSeq
  <2> QED  BY <2>1, Constants
<1>6. \A i \in 1 .. Len(w) : w[i] = w[j] => i = j  BY <1>3, LinkedAt
<1>7. SS * (j - 1) <= o.fptr
  <2>1. SS * (j - 1) \in Int  BY <1>3, FatAssumption
  <2>2. CASE Begins(w, j, o.fptr)  BY <1>1, <2>1, <2>2 DEF Begins
  <2>3. CASE In(w, j, o.fptr)  BY <1>1, <2>1, <2>3 DEF In
  <2> QED  BY <2>2, <2>3 DEF Standing
<1>8. Touch(card'.data, card.data, w[j], vs)  BY DEF DataAt
<1>9. ObjOk(n, w, q, card'.data, p)
  BY <1>1, <1>3, <1>5, <1>6, <1>7, <1>8, WroteBytes DEF Standing
<1>10. cl \in Calling /\ cl.n = n /\ cl.op = "write" /\ cl.from = call.from
  <2>1. PICK l \in Nat : l = call.left - d  BY <1>1
  <2>2. cl = [call EXCEPT !.left = l]  BY <2>1
  <2> QED  BY <2>1, <2>2 DEF Calling
<1>11. Limit(q, cl, p)
  <2>1. SectorStart(call.from) \in Nat  BY <1>1, SectorStartForm
  <2>2. SectorStart(call.from) <= q.fptr  BY <1>1, <1>2, <2>1 DEF GoneOn
  <2> QED  BY <1>2, <1>10, <2>2 DEF Limit
<1>12. Carries(n, w, EntNow'[n], card'.data, p)
  <2>1. q.open  BY DEF GoneOn
  <2> QED  BY <1>9, <1>10, <1>11, <2>1, WriteCarries
<1> QED  BY <1>3, <1>4, <1>12, DataBytes

\* In the middle of a sector.
LEMMA WriteInsideContent ==
  ASSUME NEW own, VolumeInv(own), ContentInv(own), WriteInside
  PROVE  ContentInv(own)'
<1>1. call.at = "inside" /\ call.op = "write" /\ kept' = kept /\ win' = win  BY DEF WriteInside
<1>2. PICK n \in Names, w \in Seq(Clusters), e \in Entries, o \in Files, p \in Nat \cup {None} :
        /\ n = call.n /\ w = own[n] /\ e = EntNow[n] /\ o = obj[n] /\ p = kept[n]
        /\ PlaceOk(w, e, o, call) /\ ObjOk(n, w, o, card.data, p) /\ Fit(n, e, o, call, p)
        /\ call \in Calling /\ WinOk /\ last \in Nat
  BY <1>1, BusyBytes
<1>3. /\ o.open /\ o.fptr > 0 /\ o.fptr % SS # 0 /\ PtrOk(w, o) /\ o.dsect = o.clust
      /\ call.left \in Nat /\ o.fptr \in Nat /\ SS \in Nat \ {0}
  BY <1>1, <1>2, FatAssumption DEF PlaceOk, InsideOk, Fit, Calling, Files
<1>4. o.clust # DiskErr  BY <1>2, <1>3 DEF ObjOk
<1>5. o.sclust \in Clusters /\ \E j \in 1 .. Len(w) : o.clust = w[j] /\ In(w, j, o.fptr)
  BY <1>3, <1>4 DEF PtrOk
<1>6. PICK j \in 1 .. Len(w) : o.clust = w[j] /\ In(w, j, o.fptr)  BY <1>5
<1>7. PICK r \in 0 .. SS - 1 : r = o.fptr % SS
  <2>1. o.fptr \in Int  BY <1>3
  <2> QED  BY <1>3, <2>1, Quotient
<1>8. PICK b \in Nat : b = SS * j /\ SS - r = b - o.fptr
  <2>1. SS - r = SS * j - o.fptr /\ SS * j \in Nat
    <3>1. SS - (o.fptr % SS) = SS * j - o.fptr  BY <1>2, <1>3, <1>6, Inside
    <3>2. SS * j \in Nat  BY <1>3, LenProperties
    <3> QED  BY <1>7, <3>1, <3>2
  <2> QED  BY <2>1
<1>9. PICK d \in 0 .. call.left : d = LesserOf(call.left, SS - r) /\ o.fptr + d <= SS * j
  <2>1. PICK t \in Nat : t = SS - r  BY <1>3, <1>7
  <2>2. LesserOf(call.left, t) \in 0 .. call.left /\ LesserOf(call.left, t) <= t
    BY <1>3, <2>1 DEF LesserOf
  <2>3. o.fptr + LesserOf(call.left, t) <= b  BY <1>3, <1>8, <2>1, <2>2
  <2> QED  BY <1>8, <2>1, <2>2, <2>3
<1> DEFINE a == Advance(o, d)
<1> DEFINE q == [a EXCEPT !.dirty = TRUE, !.bufv = call.n]
<1> DEFINE cl == [call EXCEPT !.left = call.left - d]
<1>10. WriteOn(q, cl)  BY <1>2, <1>7, <1>9 DEF WriteInside, PutBuffer
<1>11. d \in Nat  BY <1>3, <1>9
<1>12. /\ a \in Files /\ a.open = o.open /\ a.sclust = o.sclust /\ a.clust = o.clust
       /\ a.fsize = o.fsize /\ a.fptr = o.fptr + d /\ a.dsect = o.dsect
       /\ a.good = o.good \/ (o.good >= o.fptr /\ a.good = o.fptr + d)
  BY <1>11, AdvanceForm, AdvanceGood
<1> HIDE DEF a
<1>13. /\ q \in Files /\ q.open = a.open /\ q.sclust = a.sclust /\ q.clust = a.clust
       /\ q.fsize = a.fsize /\ q.fptr = a.fptr /\ q.dsect = a.dsect /\ q.good = a.good
       /\ q.dirty /\ q.bufv = n
  BY <1>2, <1>12 DEF Files, Labels
<1> HIDE DEF q
<1>14. Near(q)  BY <1>3, <1>12, <1>13 DEF Near
<1>15. DataAt(w[j], {Nobody})
  <2>1. Outdate(w[j]) /\ Nobody \in Labels  BY <1>2, <1>3, <1>6 DEF WriteInside, Labels
  <2> QED  BY <1>1, <1>2, <2>1, DataAtSteps
<1>16. GoneOn(o, q, j, d) /\ PutThere(n, w[j], o, q, card'.data)
  <2>1. /\ q.open = o.open /\ q.fsize = o.fsize /\ q.sclust = o.sclust
        /\ q.fptr = o.fptr + d /\ q.clust = o.clust
        /\ q.good = o.good \/ (o.good >= o.fptr /\ q.good = o.fptr + d)
        /\ q.dsect = w[j] /\ o.dsect = w[j]
    BY <1>3, <1>6, <1>12, <1>13
  <2> QED  BY <1>9, <1>13, <2>1 DEF GoneOn, PutThere
<1>17. Standing(w, o, j)  BY <1>3, <1>5, <1>6 DEF Standing
<1>18. call.at # "idle" /\ o.open  BY <1>1, <1>3
<1> HIDE DEF cl
<1>19. cl = [call EXCEPT !.left = call.left - d]  BY DEF cl
<1> QED
  BY <1>1, <1>2, <1>9, <1>10, <1>13, <1>14, <1>15, <1>16, <1>17, <1>18, <1>19, WroteContent

\* At the start of a sector.
LEMMA StoreFacts ==
  ASSUME NEW own, VolumeInv(own), ContentInv(own), call.at = "store"
  PROVE  \E n \in Names, w \in Seq(Clusters), o \in Files, p \in Nat \cup {None} :
           /\ n = call.n /\ w = own[n] /\ o = obj[n] /\ p = kept[n]
           /\ call.op = "write" /\ call \in Calling /\ last \in Nat /\ WinOk /\ o.open
           /\ ObjOk(n, w, o, card.data, p) /\ Fit(n, EntNow[n], o, call, p)
           /\ o.sclust \in Clusters /\ call.left \in Nat /\ o.fptr \in Nat
           /\ \E j \in 1 .. Len(w) : /\ o.clust = w[j] /\ Begins(w, j, o.fptr)
                                     /\ w[j] \in Clusters /\ o.fptr + SS = SS * j
<1>1. PICK n \in Names, w \in Seq(Clusters), e \in Entries, o \in Files, p \in Nat \cup {None} :
        /\ n = call.n /\ w = own[n] /\ e = EntNow[n] /\ o = obj[n] /\ p = kept[n]
        /\ PlaceOk(w, e, o, call) /\ ObjOk(n, w, o, card.data, p) /\ Fit(n, e, o, call, p)
        /\ call \in Calling /\ WinOk /\ last \in Nat
  BY BusyBytes
<1>2. call.op = "write" /\ o.open /\ StartOk(w, o) /\ o.fptr \in Nat /\ call.left \in Nat
  BY <1>1 DEF PlaceOk, SectorOk, Calling, Files
<1>3. PICK j \in 1 .. Len(w) : o.clust = w[j] /\ Begins(w, j, o.fptr)  BY <1>2 DEF StartOk
<1>4. w[j] \in Clusters /\ o.fptr + SS = SS * j  BY <1>1, <1>2, <1>3, Beginning, ElementOfSeq
<1>5. o.sclust \in Clusters  BY <1>2 DEF StartOk
<1> QED  BY <1>1, <1>2, <1>3, <1>4, <1>5

\* Part of a sector goes to the buffer.
LEMMA WritePartContent ==
  ASSUME NEW own, VolumeInv(own), ContentInv(own), WritePart
  PROVE  ContentInv(own)'
<1>1. call.at = "store" /\ kept' = kept /\ win' = win  BY DEF WritePart
<1>2. PICK n \in Names, w \in Seq(Clusters), o \in Files, p \in Nat \cup {None} :
        /\ n = call.n /\ w = own[n] /\ o = obj[n] /\ p = kept[n]
        /\ call.op = "write" /\ call \in Calling /\ last \in Nat /\ WinOk /\ o.open
        /\ ObjOk(n, w, o, card.data, p) /\ Fit(n, EntNow[n], o, call, p)
        /\ o.sclust \in Clusters /\ call.left \in Nat /\ o.fptr \in Nat
        /\ \E j \in 1 .. Len(w) : /\ o.clust = w[j] /\ Begins(w, j, o.fptr)
                                  /\ w[j] \in Clusters /\ o.fptr + SS = SS * j
  BY <1>1, StoreFacts
<1>3. PICK j \in 1 .. Len(w) : /\ o.clust = w[j] /\ Begins(w, j, o.fptr)
                               /\ w[j] \in Clusters /\ o.fptr + SS = SS * j
  BY <1>2
<1>4. ~o.dirty /\ call.left < SS  BY <1>2 DEF WritePart
<1>5. PICK d \in 0 .. call.left : d = call.left  BY <1>2
<1>6. d \in Nat /\ o.fptr + d <= SS * j
  <2>1. SS \in Nat /\ d \in Nat /\ d < SS  BY <1>2, <1>4, <1>5, FatAssumption
  <2>2. o.fptr + d <= o.fptr + SS  BY <1>2, <2>1
  <2> QED  BY <1>3, <2>1, <2>2
<1> DEFINE x == [o EXCEPT !.dsect = o.clust]
<1> DEFINE a == Advance(x, d)
<1> DEFINE q == [a EXCEPT !.dirty = TRUE, !.bufv = call.n]
<1> DEFINE cl == [call EXCEPT !.left = call.left - d]
<1>7. WriteOn(q, cl)  BY <1>2, <1>5 DEF WritePart, PutBuffer
<1>8. o.clust \in Nat  BY DEF Files
<1>9. /\ x \in Files /\ x.open = o.open /\ x.sclust = o.sclust /\ x.clust = o.clust
      /\ x.fsize = o.fsize /\ x.fptr = o.fptr /\ x.dsect = o.clust /\ x.good = o.good
  BY <1>8 DEF Files
<1> HIDE DEF x
<1>10. /\ a \in Files /\ a.open = x.open /\ a.sclust = x.sclust /\ a.clust = x.clust
       /\ a.fsize = x.fsize /\ a.fptr = x.fptr + d /\ a.dsect = x.dsect
       /\ a.good = x.good \/ (x.good >= x.fptr /\ a.good = x.fptr + d)
  BY <1>6, <1>9, AdvanceForm, AdvanceGood
<1> HIDE DEF a
<1>11. /\ q \in Files /\ q.open = a.open /\ q.sclust = a.sclust /\ q.clust = a.clust
       /\ q.fsize = a.fsize /\ q.fptr = a.fptr /\ q.dsect = a.dsect /\ q.good = a.good
       /\ q.dirty /\ q.bufv = n
  BY <1>2, <1>10 DEF Files, Labels
<1> HIDE DEF q
<1>12. /\ q.open = o.open /\ q.fsize = o.fsize /\ q.sclust = o.sclust
       /\ q.fptr = o.fptr + d /\ q.clust = o.clust
       /\ q.good = o.good \/ (o.good >= o.fptr /\ q.good = o.fptr + d)
       /\ q.dsect = w[j] /\ q.dsect = q.clust
  BY <1>3, <1>9, <1>10, <1>11
<1>15. GoneOn(o, q, j, d) /\ PutThere(n, w[j], o, q, card'.data)
  BY <1>4, <1>6, <1>11, <1>12 DEF GoneOn, PutThere
<1>16. Standing(w, o, j)  BY <1>2, <1>3 DEF Standing
<1>13. Near(q)  BY <1>12 DEF Near
<1>14. DataAt(w[j], {Nobody})
  <2>1. Nobody \in Labels  BY DEF Labels
  <2>2. Outdate(w[j]) \/ DiskWrite(WithData(card, w[j], Nobody))
    BY <1>2, <1>3 DEF WritePart
  <2> QED  BY <1>1, <1>2, <2>1, <2>2, DataAtSteps
<1> HIDE DEF cl
<1>17. cl = [call EXCEPT !.left = call.left - d]  BY DEF cl
<1>18. call.at # "idle"  BY <1>1
<1> QED
  BY <1>1, <1>2, <1>5, <1>7, <1>11, <1>13, <1>14, <1>15, <1>16, <1>17, <1>18, WroteContent

\* A whole sector goes to the card.
LEMMA WriteSectorContent ==
  ASSUME NEW own, VolumeInv(own), ContentInv(own), WriteSector
  PROVE  ContentInv(own)'
<1>1. call.at = "store" /\ kept' = kept /\ win' = win  BY DEF WriteSector
<1>2. PICK n \in Names, w \in Seq(Clusters), o \in Files, p \in Nat \cup {None} :
        /\ n = call.n /\ w = own[n] /\ o = obj[n] /\ p = kept[n]
        /\ call.op = "write" /\ call \in Calling /\ last \in Nat /\ WinOk /\ o.open
        /\ ObjOk(n, w, o, card.data, p) /\ Fit(n, EntNow[n], o, call, p)
        /\ o.sclust \in Clusters /\ call.left \in Nat /\ o.fptr \in Nat
        /\ \E j \in 1 .. Len(w) : /\ o.clust = w[j] /\ Begins(w, j, o.fptr)
                                  /\ w[j] \in Clusters /\ o.fptr + SS = SS * j
  BY <1>1, StoreFacts
<1>3. PICK j \in 1 .. Len(w) : /\ o.clust = w[j] /\ Begins(w, j, o.fptr)
                               /\ w[j] \in Clusters /\ o.fptr + SS = SS * j
  BY <1>2
<1>4. ~o.dirty /\ call.left >= SS /\ SS \in Nat \ {0}
  BY <1>2, FatAssumption DEF WriteSector
<1>5. PICK d \in 0 .. call.left : d = SS  BY <1>2, <1>4
<1>6. d \in Nat /\ o.fptr + d <= SS * j /\ (o.fptr + d) % SS = 0
  <2>1. j \in Int /\ SS * j \in Int  BY <1>4, LenProperties
  <2>2. PICK l \in Int : l = SS * j  BY <2>1
  <2>3. l % SS = 0  BY <1>4, <2>1, <2>2, Exactly
  <2>4. o.fptr + d = l /\ l <= l  BY <1>3, <1>5, <2>2
  <2> QED  BY <1>4, <1>5, <2>2, <2>3, <2>4
<1> DEFINE a == Advance(o, d)
<1> DEFINE b == IF o.dsect = o.clust THEN n ELSE a.bufv
<1> DEFINE q == [a EXCEPT !.bufv = b]
<1> DEFINE cl == [call EXCEPT !.left = call.left - d]
<1>7. WriteOn(q, cl)  BY <1>2, <1>5 DEF WriteSector
<1>8. /\ a \in Files /\ a.open = o.open /\ a.sclust = o.sclust /\ a.clust = o.clust
      /\ a.fsize = o.fsize /\ a.fptr = o.fptr + d /\ a.dsect = o.dsect /\ a.bufv = o.bufv
      /\ a.good = o.good \/ (o.good >= o.fptr /\ a.good = o.fptr + d)
      /\ ~a.dirty
  BY <1>4, <1>6, AdvanceForm, AdvanceGood
<1> HIDE DEF a
<1>9. b \in Labels /\ b = IF o.dsect = w[j] THEN n ELSE o.bufv
  BY <1>3, <1>8 DEF Files, Labels
<1> HIDE DEF b
<1>10. /\ q \in Files /\ q.open = a.open /\ q.sclust = a.sclust /\ q.clust = a.clust
       /\ q.fsize = a.fsize /\ q.fptr = a.fptr /\ q.dsect = a.dsect /\ q.good = a.good
       /\ q.dirty = a.dirty /\ q.bufv = b
  BY <1>8, <1>9 DEF Files
<1> HIDE DEF q
<1>11. /\ q.open = o.open /\ q.fsize = o.fsize /\ q.sclust = o.sclust
       /\ q.fptr = o.fptr + d /\ q.clust = o.clust
       /\ q.good = o.good \/ (o.good >= o.fptr /\ q.good = o.fptr + d)
       /\ q.dsect = o.dsect /\ ~q.dirty /\ q.bufv = IF o.dsect = w[j] THEN n ELSE o.bufv
  BY <1>8, <1>9, <1>10
<1>12. card' = WithData(card, w[j], n) /\ safe' = WithData(card, w[j], Nobody)
  BY <1>2, <1>3 DEF WriteSector
<1>13. n \in Labels /\ card \in Volumes  BY <1>2 DEF Labels, WinOk
<1>14. card'.data[w[j]] = n  BY <1>3, <1>12, <1>13, WithDataThere
<1>15. GoneOn(o, q, j, d) /\ PutThere(n, w[j], o, q, card'.data)
  BY <1>4, <1>6, <1>11, <1>14 DEF GoneOn, PutThere
<1>16. Standing(w, o, j)  BY <1>2, <1>3 DEF Standing
<1>17. Near(q)  BY <1>6, <1>11 DEF Near
<1>18. DataAt(w[j], {n, Nobody})  BY <1>1, <1>2, <1>12, <1>13, DataAtSteps
<1> HIDE DEF cl
<1>19. cl = [call EXCEPT !.left = call.left - d]  BY DEF cl
<1>20. call.at # "idle"  BY <1>1
<1> QED
  BY <1>1, <1>2, <1>5, <1>7, <1>10, <1>15, <1>16, <1>17, <1>18, <1>19, <1>20, WroteContent

-----------------------------------------------------------------------------
(* The window and the entries.                                             *)

LEMMA SameBytesStep ==
  ASSUME NEW own, VolumeInv(own), ContentInv(own), obj' = obj, call' = call, kept' = kept,
         EntNow' = EntNow, card'.data = card.data,
         {Now', card', safe'} \subseteq {Now, card, safe}
  PROVE  ContentInv(own)'
<1>1. ByteInv(own)'
  <2>1. ASSUME NEW m \in Names
        PROVE  /\ ObjOk(m, own[m], obj'[m], card'.data, kept'[m])
               /\ IF Busy(m)' THEN Fit(m, EntNow'[m], obj'[m], call', kept'[m])
                  ELSE obj'[m].open /\ ~obj'[m].err => Near(obj'[m])
    BY DEF ContentInv, ByteInv, Busy
  <2> QED  BY <2>1 DEF ByteInv, ObjOk, Near, Fit
<1>2. KeptInv(own)'  BY KeptSame DEF ContentInv
<1> QED  BY <1>1, <1>2 DEF ContentInv, KeptInv, ByteInv

LEMMA FlushWindowContent ==
  ASSUME NEW own, VolumeInv(own), ContentInv(own), FlushWindow
  PROVE  ContentInv(own)'
<1>1. /\ win.dirty /\ DiskWrite(Stored(card, win.sect, win.copy)) /\ obj' = obj
      /\ call' = call /\ kept' = kept /\ WinOk
  BY DEF FlushWindow, VolumeInv, BaseInv
<1>2. card' = Now /\ safe' = card  BY <1>1, StoredNow DEF DiskWrite
<1>3. FatNow' = FatNow /\ EntNow' = EntNow /\ card'.data = card.data  BY <1>1, Flushed
<1>4. Now' = Now  BY <1>3 DEF Now
<1>5. {Now', card', safe'} \subseteq {Now, card, safe}  BY <1>2, <1>4
<1> QED  BY <1>1, <1>3, <1>5, SameBytesStep

LEMMA LoadWindowContent ==
  ASSUME NEW own, VolumeInv(own), ContentInv(own), LoadWindow, bound' = bound
  PROVE  ContentInv(own)'
<1>1. obj' = obj /\ call' = call /\ kept' = kept /\ card' = card /\ safe' = card
  BY DEF LoadWindow, DiskRead
<1>2. FatNow' = FatNow /\ EntNow' = EntNow  BY LoadWindowKeeps
<1>3. Now' = Now /\ card'.data = card.data  BY <1>1, <1>2 DEF Now
<1>4. {Now', card', safe'} \subseteq {Now, card, safe}  BY <1>1, <1>3
<1> QED  BY <1>1, <1>2, <1>3, <1>4, SameBytesStep

\* A step that writes no more than the entry of its file.
LEMMA EntryBytes ==
  ASSUME NEW own, VolumeInv(own), ContentInv(own), NEW n \in Names, call.at = "idle" \/ call.n = n,
         FatNow' = FatNow, card' = card, safe' \in {card, safe},
         \A m \in Names \ {n} : EntNow'[m] = EntNow[m] /\ kept'[m] = kept[m],
         kept'[n] # None =>
           \A cd2 \in {Now', card', safe'} : KeptIn(n, own[n], cd2, kept'[n]),
         Carries(n, own[n], EntNow'[n], card'.data, kept'[n])
  PROVE  ContentInv(own)'
<1>1. PICK w : w = own[n]  OBVIOUS
<1>2. own = [own EXCEPT ![n] = w] /\ own \in Owns  BY <1>1 DEF VolumeInv, Owns
<1>3. ASSUME NEW m \in Names \ {n}, NEW cd2 \in {Now', card', safe'}
      PROVE  \E cd \in {Now, card, safe} : Alike(m, own[m], cd2, cd)
  <2>1. CASE cd2 = Now'
    <3>1. Now'.ent[m] = Now.ent[m] /\ Now'.fat = Now.fat /\ Now'.data = Now.data
      BY DEF Now
    <3> QED  BY <2>1, <3>1 DEF Alike
  <2>2. CASE cd2 \in {card', safe'}
    <3>1. cd2 \in {card, safe} /\ Alike(m, own[m], cd2, cd2)  BY <2>2 DEF Alike
    <3> QED  BY <3>1
  <2> QED  BY <1>3, <2>1, <2>2
<1>4. KeptInv(own)'  BY <1>1, <1>2, <1>3, KeptChange DEF ContentInv
<1>5. ByteInv(own)'  BY <1>1, <1>2, ByteStep DEF ContentInv
<1> QED  BY <1>4, <1>5 DEF ContentInv, KeptInv, ByteInv

\* A new entry, or an empty one in place of the old: nothing is promised of the file.
LEMMA FindCreatesContent ==
  ASSUME NEW own, VolumeInv(own), ContentInv(own), FindCreates, bound' = bound
  PROVE  ContentInv(own)'
<1>1. call.at = "find" /\ InWindow("find") /\ card' = card /\ safe' = safe /\ kept' = kept
  BY DEF FindCreates, InWindow
<1>2. PICK n \in Names, w \in Seq(Clusters), e \in Entries, o \in Files, p \in Nat \cup {None} :
        /\ n = call.n /\ w = own[n] /\ e = EntNow[n] /\ o = obj[n] /\ p = kept[n]
        /\ FileOk(w, e, o) /\ PlaceOk(w, e, o, call) /\ ObjOk(n, w, o, card.data, p)
        /\ Fit(n, e, o, call, p) /\ call \in Calling /\ obj \in [Names -> Files]
  BY <1>1, BusyBytes
<1>3. win.copy[n] = e  BY <1>1, <1>2, DirHere
<1>4. FatNow' = FatNow /\ EntNow' = [EntNow EXCEPT ![n] = NewEntry]
  BY <1>2, FindCreatesKeeps
<1>5. EntNow \in [Names -> Entries]  BY FileFacts
<1>6. /\ EntNow'[n] = NewEntry
      /\ \A m \in Names \ {n} : EntNow'[m] = EntNow[m]
  BY <1>4, <1>5
<1>7. p = None
  <2>1. CASE e.used
    <3>1. call.m = "createalways" /\ call.op = "open"
      BY <1>1, <1>2, <1>3, <2>1 DEF FindCreates, PlaceOk
    <3> QED  BY <1>2, <3>1 DEF Fit
  <2>2. CASE ~e.used
    <3>1. p # None => KeptIn(n, w, Now, p)  BY <1>2 DEF ContentInv, KeptInv
    <3> QED  BY <1>2, <2>2, <3>1 DEF KeptIn, Now
  <2> QED  BY <2>1, <2>2
<1>8. Carries(n, w, EntNow'[n], card'.data, p)
  <2>1. CASE e.start = 0
    <3>1. Return(Opened(NewEntry, TRUE))
      BY <1>2, <1>3, <2>1, Constants DEF FindCreates
    <3>2. NewEntry \in Entries  BY DEF NewEntry, Entries
    <3>3. ObjOk(n, w, Opened(NewEntry, TRUE), card'.data, p) /\ Near(Opened(NewEntry, TRUE))
      <4>1. PICK cd : cd = [ent |-> [x \in Names |-> NewEntry], data |-> card'.data]  OBVIOUS
      <4>2. cd.ent[n] = NewEntry /\ cd.data = card'.data  BY <4>1
      <4> QED  BY <1>2, <1>7, <3>2, <4>2, OpenedBytes
    <3> QED  BY <1>2, <3>1, <3>3, Records DEF Return, Carries
  <2>2. CASE e.start # 0 /\ e.start \in Clusters
    <3>1. call' = [call EXCEPT !.at = "free", !.c = e.start, !.k = e.start] /\ obj' = obj
      BY <1>2, <1>3, <2>2 DEF FindCreates
    <3>2. e.used  BY <1>2, <2>2 DEF FileOk, EntryOk
    <3>3. call.m = "createalways" /\ call.op = "open"
      BY <1>1, <1>2, <1>3, <3>2 DEF FindCreates, PlaceOk
    <3>4. call'.at = "free" /\ call'.n = n /\ call'.op = "open" /\ call'.m = "createalways"
      BY <1>2, <3>1, <3>3 DEF Calling
    <3>5. Fit(n, EntNow'[n], o, call', p)  BY <1>7, <3>4 DEF Fit
    <3>6. obj' = [obj EXCEPT ![n] = o]  BY <1>2, <3>1
    <3> QED  BY <1>1, <1>2, <3>4, <3>5, <3>6 DEF Carries
  <2>3. CASE e.start # 0 /\ e.start \notin Clusters
    <3>1. Return(Closed)  BY <1>2, <1>3, <2>3 DEF FindCreates
    <3>2. ObjOk(n, w, Closed, card'.data, p) /\ ~Closed.open  BY ClosedBytes DEF Closed
    <3> QED  BY <1>2, <3>1, <3>2, Records DEF Return, Carries
  <2> QED  BY <2>1, <2>2, <2>3
<1> QED  BY <1>1, <1>2, <1>4, <1>6, <1>7, <1>8, EntryBytes

\* f_close writes the entry.
LEMMA EntryContent ==
  ASSUME NEW own, VolumeInv(own), ContentInv(own), Entry, bound' = bound
  PROVE  ContentInv(own)'
<1>1. call.at = "entry" /\ card' = card /\ safe' = safe /\ kept' = kept
  BY DEF Entry, InWindow
<1>2. PICK n \in Names, w \in Seq(Clusters), e \in Entries, o \in Files, p \in Nat \cup {None} :
        /\ n = call.n /\ w = own[n] /\ e = EntNow[n] /\ o = obj[n] /\ p = kept[n]
        /\ FileOk(w, e, o) /\ PlaceOk(w, e, o, call) /\ ObjOk(n, w, o, card.data, p)
        /\ Fit(n, e, o, call, p) /\ call \in Calling
  BY <1>1, BusyBytes
<1>3. o.open /\ call.op = "close" /\ ~o.dirty  BY <1>1, <1>2 DEF PlaceOk, Fit
<1> DEFINE e2 == [used |-> TRUE, start |-> o.sclust, size |-> o.fsize]
<1>4. FatNow' = FatNow /\ EntNow' = [EntNow EXCEPT ![n] = e2]  BY <1>2, EntryKeeps
<1>5. EntNow \in [Names -> Entries]  BY FileFacts
<1>6. /\ EntNow'[n] = e2
      /\ \A m \in Names \ {n} : EntNow'[m] = EntNow[m]
  BY <1>4, <1>5
<1>7. ASSUME p # None, NEW cd2 \in {Now', card', safe'}
      PROVE  KeptIn(n, w, cd2, p)
  <2>1. KeptIn(n, w, Now, p) /\ KeptIn(n, w, card, p) /\ KeptIn(n, w, safe, p)
    BY <1>2, <1>7 DEF ContentInv, KeptInv
  <2>2. CASE cd2 \in {card', safe'}  BY <1>1, <2>1, <2>2
  <2>3. CASE cd2 = Now'
    <3>1. cd2.ent[n] = e2 /\ cd2.fat = FatNow /\ cd2.data = card.data
      BY <1>1, <1>4, <1>6, <2>3 DEF Now
    <3>2. o.fsize >= p  BY <1>2, <1>3, <1>7 DEF ObjOk
    <3>3. ASSUME p > 0  PROVE e2.start = w[1]
      <4>1. w # <<>> /\ e.start = w[1]  BY <1>2, <2>1, <3>3 DEF KeptIn, Now
      <4>2. w[1] \in Clusters  BY <4>1, Rest
      <4>3. w[1] # 0  BY <4>2, Constants
      <4> QED  BY <1>2, <1>3, <4>1, <4>3 DEF FileOk
    <3>4. e2.used /\ e2.size >= p  BY <3>2
    <3> HIDE DEF e2
    <3>5. Now.fat = FatNow /\ Now.data = card.data  BY DEF Now
    <3> QED  BY <2>1, <3>1, <3>3, <3>4, <3>5 DEF KeptIn
  <2> QED  BY <1>7, <2>2, <2>3
<1>8. Carries(n, w, EntNow'[n], card'.data, p)
  <2> DEFINE q == [o EXCEPT !.written = FALSE]
  <2> DEFINE cl == [call EXCEPT !.at = "sync"]
  <2>1. Goes(q, cl)  BY <1>2 DEF Entry
  <2>2. /\ q \in Files /\ q.open = o.open /\ q.fsize = o.fsize /\ q.dsect = o.dsect
        /\ q.bufv = o.bufv /\ q.dirty = o.dirty /\ q.good = o.good /\ q.sclust = o.sclust
    BY DEF Files
  <2>3. cl.at = "sync" /\ cl.n = n /\ cl.op = "close"  BY <1>2, <1>3 DEF Calling
  <2> HIDE DEF q, cl
  <2>4. SameBytes(q, o)
    <3>1. o.fsize \in Nat /\ o.good \in Nat  BY DEF Files
    <3> QED  BY <2>2, <3>1 DEF SameBytes
  <2>5. ObjOk(n, w, q, card.data, p)  BY <1>2, <2>2, <2>4, SameBytesKeep
  <2>6. EntNow'[n] = [used |-> TRUE, start |-> q.sclust, size |-> q.fsize]  BY <1>6, <2>2
  <2>7. ~q.dirty  BY <1>3, <2>2
  <2>8. Fit(n, EntNow'[n], q, cl, p)  BY <2>3, <2>6, <2>7 DEF Fit
  <2> QED  BY <1>1, <1>2, <2>1, <2>3, <2>5, <2>8 DEF Goes, Carries
<1> QED  BY <1>1, <1>2, <1>4, <1>6, <1>7, <1>8, EntryBytes, ZenonT(40)

\* f_close returns, and promises.
LEMMA SyncContent ==
  ASSUME NEW own, VolumeInv(own), ContentInv(own), Sync, bound' = bound
  PROVE  ContentInv(own)'
<1>1. call.at = "sync" /\ ~win.dirty /\ card' = card /\ safe' = card  BY DEF Sync, DiskSync
<1>2. PICK n \in Names, w \in Seq(Clusters), e \in Entries, o \in Files, p \in Nat \cup {None} :
        /\ n = call.n /\ w = own[n] /\ e = EntNow[n] /\ o = obj[n] /\ p = kept[n]
        /\ FileOk(w, e, o) /\ PlaceOk(w, e, o, call) /\ ObjOk(n, w, o, card.data, p)
        /\ Fit(n, e, o, call, p) /\ call \in Calling /\ WinOk
  BY <1>1, BusyBytes
<1>3. /\ o.open /\ ~o.dirty /\ e = [used |-> TRUE, start |-> o.sclust, size |-> o.fsize]
      /\ o.good \in Nat /\ o.fsize \in Nat
  BY <1>1, <1>2 DEF PlaceOk, Fit, Files
<1>4. FatNow' = FatNow /\ EntNow' = EntNow  BY SyncKeeps
<1>5. FatNow = card.fat /\ EntNow = card.ent  BY <1>1, <1>2, OnCard
<1>6. PICK P \in Nat : P = Promise(o) /\ P <= o.good /\ P <= o.fsize
  BY <1>3 DEF Promise, LesserOf
<1>7. kept' = [kept EXCEPT ![n] = P] /\ Return(Closed)  BY <1>2, <1>6 DEF Sync
<1>8. kept'[n] = P /\ \A m \in Names \ {n} : kept'[m] = kept[m]
  <2>1. kept \in [Names -> Nat \cup {None}]  BY DEF VolumeInv, BaseInv, TypeOK, Promises
  <2> QED  BY <1>7, <2>1
<1>9. ASSUME NEW cd2 \in {Now', card', safe'}  PROVE KeptIn(n, w, cd2, P)
  <2>1. cd2.fat = FatNow /\ cd2.ent = EntNow /\ cd2.data = card.data
    BY <1>1, <1>4, <1>5, <1>9 DEF Now
  <2>2. cd2.ent[n].used /\ cd2.ent[n].size >= P /\ cd2.ent[n].start = o.sclust
    <3>1. cd2.ent[n] = e  BY <1>2, <2>1
    <3>2. e.used /\ e.size = o.fsize /\ e.start = o.sclust  BY <1>3
    <3> QED  BY <1>3, <1>6, <3>1, <3>2
  <2>3. ASSUME P > 0  PROVE w # <<>> /\ o.sclust = w[1] /\ P <= SS * Len(w)
    <3>1. o.good > 0  BY <1>3, <1>6, <2>3
    <3>2. o.sclust \in Clusters  BY <1>2, <3>1 DEF ObjOk
    <3>3. w # <<>> /\ w[1] = o.sclust /\ o.fsize <= SS * Len(w)
      BY <1>2, <3>2 DEF FileOk, LiesOn
    <3>4. SS * Len(w) \in Nat  BY FatAssumption, LenProperties
    <3> QED  BY <1>3, <1>6, <3>3, <3>4
  <2>4. ASSUME P > 0, NEW i \in 1 .. Len(w), SS * (i - 1) < P
        PROVE  /\ card.data[w[i]] = n
               /\ SS * i < P => i < Len(w) /\ FatNow[w[i]] = w[i + 1]
    <3>1. i \in Nat /\ Len(w) \in Nat /\ i <= Len(w) /\ SS \in Nat
      BY FatAssumption, LenProperties
    <3>2. SS * (i - 1) \in Int /\ SS * i \in Nat /\ SS * Len(w) \in Nat  BY <3>1
    <3>3. SS * (i - 1) < o.good  BY <1>3, <1>6, <2>4, <3>2
    <3>4. card.data[w[i]] = n  BY <1>2, <1>3, <3>3 DEF ObjOk
    <3>5. SS * i < P => SS * i < SS * Len(w)  BY <1>6, <2>3, <2>4, <3>2
    <3>6. SS * i < P => i < Len(w)  BY <3>1, <3>5, Multiples
    <3>7. i < Len(w) => FatNow[w[i]] = w[i + 1]  BY <1>2, LinkedAt
    <3> QED  BY <3>4, <3>6, <3>7
  <2> QED  BY <2>1, <2>2, <2>3, <2>4 DEF KeptIn
<1>10. Carries(n, w, EntNow'[n], card'.data, kept'[n])
  <2>1. ObjOk(n, w, Closed, card'.data, P) /\ ~Closed.open  BY ClosedBytes DEF Closed
  <2>2. obj' = [obj EXCEPT ![n] = Closed] /\ call' = Idle  BY <1>2, <1>7 DEF Return
  <2>3. Carries(n, w, EntNow'[n], card'.data, P)  BY <2>1, <2>2, Records DEF Carries
  <2> QED  BY <1>8, <2>3
<1>11. /\ \A m \in Names \ {n} : EntNow'[m] = EntNow[m] /\ kept'[m] = kept[m]
       /\ card' = card /\ safe' \in {card, safe}
       /\ call.at = "idle" \/ call.n = n
       /\ \A cd2 \in {Now', card', safe'} : KeptIn(n, own[n], cd2, kept'[n])
  BY <1>1, <1>2, <1>4, <1>8, <1>9
<1> QED  BY <1>2, <1>4, <1>10, <1>11, EntryBytes

-----------------------------------------------------------------------------
(* The steps that change the chains.                                       *)

\* On the card no more than bytes of the cluster c change.
Beside(c) ==
  /\ Touch(card'.data, card.data, c, {Nobody})
  /\ \A cd2 \in {card', safe'} : \E cd \in {card, safe} :
       cd2.fat = cd.fat /\ cd2.ent = cd.ent /\ Touch(cd2.data, cd.data, c, {Nobody})

LEMMA BesideSteps ==
  ASSUME WinOk, NEW c, Outdate(c) \/ UNCHANGED <<card, safe>>
  PROVE  Beside(c)
<1>1. card \in Volumes /\ safe \in Volumes /\ Nobody \in Labels  BY DEF WinOk, Labels
<1>2. CASE Outdate(c)
  <2>1. card' = WithData(card, c, Nobody) /\ safe' = WithData(safe, c, Nobody)
    BY <1>2 DEF Outdate
  <2>2. /\ WithData(card, c, Nobody).fat = card.fat /\ WithData(card, c, Nobody).ent = card.ent
        /\ WithData(safe, c, Nobody).fat = safe.fat /\ WithData(safe, c, Nobody).ent = safe.ent
    BY <1>1 DEF WithData, Volumes
  <2>3. Nobody \in {Nobody}  OBVIOUS
  <2>4. /\ Touch(WithData(card, c, Nobody).data, card.data, c, {Nobody})
        /\ Touch(WithData(safe, c, Nobody).data, safe.data, c, {Nobody})
    BY <1>1, <2>3, TouchForm
  <2> QED  BY <2>1, <2>2, <2>4 DEF Beside
<1>3. CASE UNCHANGED <<card, safe>>
  BY <1>3 DEF Beside, Touch
<1> QED  BY <1>2, <1>3

\* A file that has nothing there, and whose links stay, is as it was.
LEMMA BesideAlike ==
  ASSUME NEW own \in Owns, NEW m \in Names, NEW c, Beside(c), EntNow' = EntNow,
         \A i \in 1 .. Len(own[m]) :
           own[m][i] # c /\ FatNow'[own[m][i]] = FatNow[own[m][i]],
         NEW cd2 \in {Now', card', safe'}
  PROVE  \E cd \in {Now, card, safe} : Alike(m, own[m], cd2, cd)
<1>1. \A i \in 1 .. Len(own[m]) : own[m][i] \in Clusters  BY ElementOfSeq DEF Owns
<1>2. CASE cd2 = Now'
  <2>1. cd2.fat = FatNow' /\ cd2.ent = EntNow /\ cd2.data = card'.data
    BY <1>2 DEF Now
  <2>2. Now.fat = FatNow /\ Now.ent = EntNow /\ Now.data = card.data  BY DEF Now
  <2>3. \A i \in 1 .. Len(own[m]) : card'.data[own[m][i]] = card.data[own[m][i]]
    BY <1>1 DEF Beside, Touch
  <2>4. Alike(m, own[m], cd2, Now)  BY <2>1, <2>2, <2>3 DEF Alike
  <2> QED  BY <2>4
<1>3. CASE cd2 \in {card', safe'}
  <2>1. PICK cd \in {card, safe} :
          cd2.fat = cd.fat /\ cd2.ent = cd.ent /\ Touch(cd2.data, cd.data, c, {Nobody})
    BY <1>3 DEF Beside
  <2>2. Alike(m, own[m], cd2, cd)  BY <1>1, <2>1 DEF Alike, Touch
  <2> QED  BY <2>2
<1> QED  BY <1>2, <1>3

\* The file n gets the chain w, and the other files have nothing in c.
LEMMA ChainBytes ==
  ASSUME NEW own, VolumeInv(own), ContentInv(own), NEW n \in Names, call.n = n,
         NEW w, NEW own2, own2[n] = w, \A m \in Names \ {n} : own2[m] = own[m],
         kept' = kept, NEW c, Beside(c), EntNow' = EntNow,
         \A m \in Names \ {n} : \A i \in 1 .. Len(own[m]) :
           own[m][i] # c /\ FatNow'[own[m][i]] = FatNow[own[m][i]],
         kept[n] # None => \A cd2 \in {Now', card', safe'} : KeptIn(n, w, cd2, kept[n]),
         Carries(n, w, EntNow[n], card'.data, kept[n])
  PROVE  ContentInv(own2)'
<1>1. own \in Owns  BY DEF VolumeInv
<1>2. ASSUME NEW m \in Names \ {n}, NEW cd2 \in {Now', card', safe'}
      PROVE  \E cd \in {Now, card, safe} : Alike(m, own[m], cd2, cd)
  BY <1>1, BesideAlike
<1>3. KeptInv(own2)'  BY <1>1, <1>2, KeptChange DEF ContentInv
<1>4. \A m \in Names \ {n} :
        /\ kept'[m] = kept[m]
        /\ \A i \in 1 .. Len(own[m]) : card'.data[own[m][i]] = card.data[own[m][i]]
  <2>1. \A m \in Names : \A i \in 1 .. Len(own[m]) : own[m][i] \in Clusters
    BY <1>1, ElementOfSeq DEF Owns
  <2> QED  BY <2>1 DEF Beside, Touch
<1>5. Carries(n, w, EntNow'[n], card'.data, kept'[n])  OBVIOUS
<1>6. ByteInv(own2)'
  <2>1. ByteInv(own) /\ (call.at = "idle" \/ call.n = n)  BY DEF ContentInv
  <2> QED  BY <1>4, <1>5, <2>1, ByteStep
<1> QED  BY <1>3, <1>6 DEF ContentInv, KeptInv, ByteInv

\* A cluster of a chain is freed.
LEMMA FreeContent ==
  ASSUME NEW own, VolumeInv(own), ContentInv(own), Free, bound' = bound,
         NEW own2, own2 = Freed(own, call.n)
  PROVE  ContentInv(own2)'
<1>1. call.at = "free" /\ win.sect = FatSect(call.c) /\ kept' = kept /\ obj' = obj
  BY DEF Free, InWindow, Need
<1>2. PICK n \in Names, w \in Seq(Clusters), e \in Entries, o \in Files, p \in Nat \cup {None} :
        /\ n = call.n /\ w = own[n] /\ e = EntNow[n] /\ o = obj[n] /\ p = kept[n]
        /\ FileOk(w, e, o) /\ PlaceOk(w, e, o, call) /\ Fit(n, e, o, call, p)
        /\ call \in Calling /\ obj \in [Names -> Files] /\ WinOk
  BY <1>1, BusyBytes
<1>3. call.op = "open" /\ ~o.open  BY <1>1, <1>2 DEF PlaceOk, FreeOk
<1>4. call.m = "createalways" /\ p = None  BY <1>1, <1>2, <1>3 DEF Fit
<1>5. /\ EntNow' = EntNow /\ call.c \in Clusters /\ w # <<>> /\ call.c = w[1]
      /\ FatNow' = [FatNow EXCEPT ![call.c] = 0]
  BY <1>2, FreeKeeps
<1>6. PICK t \in Seq(Clusters) : t = Tail(w)  BY <1>5, Rest
<1>7. own2 = [own EXCEPT ![n] = t]  BY <1>2, <1>6 DEF Freed
<1>8. Outdate(call.c) \/ UNCHANGED <<card, safe>>  BY DEF Free
<1>9. Beside(call.c)  BY <1>2, <1>8, BesideSteps
<1>10. ASSUME NEW m \in Names \ {n}, NEW i \in 1 .. Len(own[m])
       PROVE  own[m][i] # call.c /\ FatNow'[own[m][i]] = FatNow[own[m][i]]
  <2>1. 1 \in 1 .. Len(own[n])  BY <1>2, <1>5, LenProperties, EmptySeq
  <2>2. own[m][i] # own[n][1]  BY <2>1, LinkedAt
  <2>3. own[m][i] # call.c  BY <1>2, <1>5, <2>2
  <2>4. own[m][i] \in Clusters /\ FatNow \in [Clusters -> Nat]
    BY ElementOfSeq, FileFacts DEF VolumeInv, Owns
  <2> QED  BY <1>5, <2>3, <2>4
<1>11. Carries(n, t, e, card'.data, p)
  <2>1. o = Closed  BY <1>2, <1>3 DEF FileOk
  <2>2. obj' = [obj EXCEPT ![n] = Closed]  BY <1>1, <1>2, <2>1
  <2>3. ObjOk(n, t, Closed, card'.data, p)  BY ClosedBytes
  <2>4. /\ call'.at \in {"free", "back"} /\ call'.n = n /\ call'.op = "open"
        /\ call'.m = "createalways"
    <3>1. \/ \E x : call' = [call EXCEPT !.c = x]
          \/ call' = [call EXCEPT !.at = "back"]
      BY DEF Free
    <3> QED  BY <1>1, <1>2, <1>3, <1>4, <3>1 DEF Calling
  <2>5. Fit(n, e, Closed, call', p)  BY <1>4, <2>4 DEF Fit
  <2> QED  BY <2>2, <2>3, <2>4, <2>5 DEF Carries
<1>12. Carries(n, t, EntNow[n], card'.data, kept[n]) /\ kept[n] = None /\ call.n = n
  BY <1>2, <1>4, <1>11
<1>13. own2[n] = t /\ \A m \in Names \ {n} : own2[m] = own[m]  BY <1>7 DEF VolumeInv, Owns
<1> QED  BY <1>1, <1>5, <1>9, <1>10, <1>12, <1>13, ChainBytes

\* The first cluster of a file is found.
LEMMA ScanFirstContent ==
  ASSUME NEW own, VolumeInv(own), ContentInv(own), ScanFinds, call.c = 0, bound' = bound,
         NEW own2, own2 = First(own, call.n, call.k)
  PROVE  ContentInv(own2)'
<1>1. call.at = "scan" /\ kept' = kept /\ ChainReturns(call.k) /\ Outdate(call.k)
  BY DEF ScanFinds, InWindow
<1>2. PICK n \in Names, w \in Seq(Clusters), e \in Entries, o \in Files, p \in Nat \cup {None} :
        /\ n = call.n /\ w = own[n] /\ e = EntNow[n] /\ o = obj[n] /\ p = kept[n]
        /\ FileOk(w, e, o) /\ PlaceOk(w, e, o, call) /\ ObjOk(n, w, o, card.data, p)
        /\ Fit(n, e, o, call, p) /\ call \in Calling /\ obj \in [Names -> Files] /\ WinOk
  BY <1>1, BusyBytes
<1>3. PICK k \in Clusters : k = call.k /\ EntNow' = EntNow /\ Unowned(own, k)
                            /\ FatNow' = [FatNow EXCEPT ![k] = EOC]
  BY ScanFindsFirst
<1>4. /\ o.open /\ o.sclust = 0 /\ o.fptr = 0 /\ call.op \in {"write", "seek"}
      /\ e.start \in {0, o.sclust}
  BY <1>1, <1>2 DEF PlaceOk, FirstOk, FileOk
<1>5. o.good = 0 /\ ~o.dirty /\ o.dsect # DiskErr /\ (p # None => o.fsize >= p)
  <2>1. o.good \in Nat /\ ~(o.good > 0 \/ o.dirty)  BY <1>2, <1>4, Constants DEF ObjOk, Files
  <2> QED  BY <1>2, <1>4, <2>1 DEF ObjOk
<1>6. PICK t \in Seq(Clusters) : t = <<k>> /\ Len(t) = 1
  <2>1. <<k>> \in Seq(Clusters) /\ Len(<<k>>) = 1  OBVIOUS
  <2> QED  BY <2>1
<1>7. own2[n] = t /\ \A m \in Names \ {n} : own2[m] = own[m]
  BY <1>2, <1>3, <1>6 DEF First, VolumeInv, Owns
<1>8. Beside(k)  BY <1>1, <1>2, <1>3, BesideSteps
<1>9. ASSUME NEW m \in Names, NEW i \in 1 .. Len(own[m])
      PROVE  own[m][i] # k /\ FatNow'[own[m][i]] = FatNow[own[m][i]]
  <2>1. own[m][i] # k  BY <1>3 DEF Unowned
  <2>2. own[m][i] \in Clusters /\ FatNow \in [Clusters -> Nat]
    BY ElementOfSeq, FileFacts DEF VolumeInv, Owns
  <2> QED  BY <1>3, <2>1, <2>2
<1>10. ASSUME p # None, NEW cd2 \in {Now', card', safe'}
       PROVE  KeptIn(n, t, cd2, p)
  <2>1. own \in Owns  BY DEF VolumeInv
  <2>2. PICK cd \in {Now, card, safe} : Alike(n, own[n], cd2, cd)
    BY <1>3, <1>8, <1>9, <2>1, BesideAlike
  <2>3. KeptIn(n, w, cd, p)  BY <1>2, <1>10 DEF ContentInv, KeptInv
  <2>4. p = 0
    <3>1. SUFFICES ASSUME p > 0  PROVE FALSE  BY <1>10
    <3>2. KeptIn(n, w, Now, p)  BY <1>2, <1>10 DEF ContentInv, KeptInv
    <3>3. w # <<>> /\ e.start = w[1]  BY <1>2, <3>1, <3>2 DEF KeptIn, Now
    <3>4. w[1] \in Clusters  BY <3>3, Rest
    <3> QED  BY <1>4, <3>3, <3>4, Constants
  <2> QED  BY <2>2, <2>3, <2>4 DEF KeptIn, Alike
<1>11. ObjOk(n, t, o, card'.data, p)
  <2>1. SS * Len(t) \in Nat  BY <1>6, FatAssumption
  <2>2. \A i \in 1 .. Len(t) : ~(SS * (i - 1) < o.good)  BY <1>5, <1>6, FatAssumption
  <2> QED  BY <1>5, <2>1, <2>2 DEF ObjOk
<1>12. Carries(n, t, e, card'.data, p)
  <2>1. call.op = "write" => Limit(o, call, p)  BY <1>2 DEF Fit, Limit
  <2> QED  BY <1>1, <1>2, <1>3, <1>4, <1>11, <2>1, ClusterCarries
<1>13. /\ Carries(n, t, EntNow[n], card'.data, kept[n]) /\ call.n = n
       /\ kept[n] # None => \A cd2 \in {Now', card', safe'} : KeptIn(n, t, cd2, kept[n])
  BY <1>2, <1>10, <1>12
<1> QED  BY <1>1, <1>3, <1>7, <1>8, <1>9, <1>13, ChainBytes

\* One that will follow the last one is found.
LEMMA ScanNextContent ==
  ASSUME NEW own, VolumeInv(own), ContentInv(own), ScanFinds, call.c # 0, bound' = bound
  PROVE  ContentInv(own)'
<1>1. /\ call.at = "scan" /\ kept' = kept /\ Outdate(call.k) /\ obj' = obj
      /\ call' = [call EXCEPT !.at = "link"]
  BY DEF ScanFinds, InWindow
<1>2. PICK n \in Names, w \in Seq(Clusters), e \in Entries, o \in Files, p \in Nat \cup {None} :
        /\ n = call.n /\ w = own[n] /\ e = EntNow[n] /\ o = obj[n] /\ p = kept[n]
        /\ PlaceOk(w, e, o, call) /\ ObjOk(n, w, o, card.data, p)
        /\ Fit(n, e, o, call, p) /\ call \in Calling /\ obj \in [Names -> Files] /\ WinOk
  BY <1>1, BusyBytes
<1>3. PICK k \in Clusters : k = call.k /\ EntNow' = EntNow /\ Unowned(own, k)
                            /\ FatNow' = [FatNow EXCEPT ![k] = EOC]
  BY ScanFindsNext
<1>4. call.op \in {"write", "seek"}  BY <1>1, <1>2 DEF PlaceOk, AfterOk
<1>5. Beside(k)  BY <1>1, <1>2, <1>3, BesideSteps
<1>6. ASSUME NEW m \in Names, NEW i \in 1 .. Len(own[m])
      PROVE  own[m][i] # k /\ FatNow'[own[m][i]] = FatNow[own[m][i]]
  <2>1. own[m][i] # k  BY <1>3 DEF Unowned
  <2>2. own[m][i] \in Clusters /\ FatNow \in [Clusters -> Nat]
    BY ElementOfSeq, FileFacts DEF VolumeInv, Owns
  <2> QED  BY <1>3, <2>1, <2>2
<1>7. ASSUME p # None, NEW cd2 \in {Now', card', safe'}
      PROVE  KeptIn(n, w, cd2, p)
  <2>1. own \in Owns  BY DEF VolumeInv
  <2>2. PICK cd \in {Now, card, safe} : Alike(n, own[n], cd2, cd)
    BY <1>3, <1>5, <1>6, <2>1, BesideAlike
  <2>3. KeptIn(n, w, cd, p)  BY <1>2, <1>7 DEF ContentInv, KeptInv
  <2> QED  BY <1>2, <2>2, <2>3, KeptAlike
<1>8. \A i \in 1 .. Len(w) : card'.data[w[i]] = card.data[w[i]]
  <2>1. \A i \in 1 .. Len(w) : w[i] \in Clusters /\ w[i] # k
    BY <1>2, <1>6, ElementOfSeq
  <2> QED  BY <1>5, <2>1 DEF Beside, Touch
<1>9. ObjOk(n, w, o, card'.data, p)  BY <1>2, <1>8 DEF ObjOk
<1>10. Carries(n, w, e, card'.data, p)
  <2>1. obj' = [obj EXCEPT ![n] = o]  BY <1>1, <1>2
  <2>2. /\ call'.at = "link" /\ call'.n = n /\ call'.op = call.op
        /\ call'.from = call.from
    BY <1>1, <1>2 DEF Calling
  <2>3. Fit(n, e, o, call', p)  BY <1>2, <1>4, <2>2 DEF Fit
  <2> QED  BY <1>9, <2>1, <2>2, <2>3 DEF Carries
<1>11. /\ Carries(n, w, EntNow[n], card'.data, kept[n]) /\ call.n = n /\ own[n] = w
       /\ kept[n] # None => \A cd2 \in {Now', card', safe'} : KeptIn(n, w, cd2, kept[n])
  BY <1>2, <1>7, <1>10
<1> QED  BY <1>1, <1>3, <1>5, <1>6, <1>11, ChainBytes

\* What is known of a file is known when its chain grows.
LEMMA LongerBytes ==
  ASSUME NEW n, NEW w \in Seq(Clusters), NEW t \in Seq(Clusters), Len(t) = Len(w) + 1,
         \A i \in 1 .. Len(w) : t[i] = w[i],
         NEW o \in Files, NEW data, NEW p, ObjOk(n, w, o, data, p)
  PROVE  ObjOk(n, t, o, data, p)
<1>1. o.good \in Nat /\ o.good <= SS * Len(w) /\ Len(w) \in Nat /\ SS \in Nat
  BY FatAssumption, LenProperties DEF Files, ObjOk
<1>2. PICK a \in Nat : a = SS * Len(w)  BY <1>1
<1>3. SS * Len(t) = a + SS  BY <1>1, <1>2
<1>4. o.good <= SS * Len(t)  BY <1>1, <1>2, <1>3
<1>5. ASSUME NEW i \in 1 .. Len(t), SS * (i - 1) < o.good
      PROVE  i \in 1 .. Len(w)
  <2>1. SUFFICES ASSUME i = Len(w) + 1  PROVE FALSE  BY <1>1
  <2>2. SS * (i - 1) = a  BY <1>1, <1>2, <2>1
  <2> QED  BY <1>1, <1>2, <1>5, <2>2
<1>6. o.dirty => \E i \in 1 .. Len(t) : o.dsect = t[i]
  <2>1. \A i \in 1 .. Len(w) : i \in 1 .. Len(t)  BY <1>1
  <2> QED  BY <2>1 DEF ObjOk
<1> QED  BY <1>4, <1>5, <1>6 DEF ObjOk

\* It follows it now.
LEMMA LinkContent ==
  ASSUME NEW own, VolumeInv(own), ContentInv(own), Link, bound' = bound,
         NEW own2, own2 = Longer(own, call.n, call.k)
  PROVE  ContentInv(own2)'
<1>1. /\ call.at = "link" /\ kept' = kept /\ ChainReturns(call.k)
      /\ card' = card /\ safe' = safe
  BY DEF Link, InWindow
<1>2. PICK n \in Names, w \in Seq(Clusters), e \in Entries, o \in Files, p \in Nat \cup {None} :
        /\ n = call.n /\ w = own[n] /\ e = EntNow[n] /\ o = obj[n] /\ p = kept[n]
        /\ PlaceOk(w, e, o, call) /\ ObjOk(n, w, o, card.data, p)
        /\ Fit(n, e, o, call, p) /\ call \in Calling /\ obj \in [Names -> Files] /\ WinOk
  BY <1>1, BusyBytes
<1>3. PICK k \in Clusters : k = call.k /\ EntNow' = EntNow /\ call.c \in Clusters
                            /\ FatNow' = [FatNow EXCEPT ![call.c] = k]
  BY LinkKeeps
<1>4. /\ o.open /\ call.op \in {"write", "seek"} /\ w # <<>> /\ call.c = w[Len(w)]
      /\ call.op = "write" => o.fptr > 0
      /\ call.op = "seek" => call.left > SS
  BY <1>1, <1>2 DEF PlaceOk, AfterOk, InOk
<1>5. PICK t \in Seq(Clusters) :
         /\ t = Append(w, k) /\ Len(t) = Len(w) + 1
         /\ \A i \in 1 .. Len(w) : t[i] = w[i]
  <2> DEFINE x == Append(w, k)
  <2>1. x \in Seq(Clusters) /\ Len(x) = Len(w) + 1 /\ \A i \in 1 .. Len(w) : x[i] = w[i]
    BY Grown
  <2>2. x = Append(w, k)  OBVIOUS
  <2> HIDE DEF x
  <2> QED  BY <2>1, <2>2
<1>6. own2[n] = t /\ \A m \in Names \ {n} : own2[m] = own[m]
  BY <1>2, <1>3, <1>5 DEF Longer, VolumeInv, Owns
<1>7. Len(w) \in 1 .. Len(w) /\ Len(w) \in Nat  BY <1>4, LenProperties, EmptySeq
<1>8. \A m \in Names : \A i \in 1 .. Len(own[m]) :
        own[m][i] \in Clusters /\ (own[m][i] = call.c => m = n /\ i = Len(w))
  <2>1. Apart(own) /\ own \in Owns  BY DEF VolumeInv, ChainInv
  <2>2. \A m \in Names : \A i \in 1 .. Len(own[m]) : own[m][i] \in Clusters
    BY <2>1, ElementOfSeq DEF Owns
  <2>3. ASSUME NEW m \in Names, NEW i \in 1 .. Len(own[m]), own[m][i] = call.c
        PROVE  m = n /\ i = Len(w)
    <3>1. Len(w) \in 1 .. Len(own[n]) /\ own[m][i] = own[n][Len(w)]
      BY <1>2, <1>4, <1>7, <2>3
    <3> QED  BY <2>1, <3>1 DEF Apart
  <2> QED  BY <2>2, <2>3
<1>9. Beside(0)  BY <1>1, <1>2, BesideSteps
<1>10. \A m \in Names \ {n} : \A i \in 1 .. Len(own[m]) :
         own[m][i] # 0 /\ FatNow'[own[m][i]] = FatNow[own[m][i]]
  BY <1>3, <1>8, FileFacts, Constants
<1>11. ASSUME p # None, NEW cd2 \in {Now', card', safe'}
       PROVE  KeptIn(n, t, cd2, p)
  <2>1. KeptIn(n, w, Now, p) /\ KeptIn(n, w, card, p) /\ KeptIn(n, w, safe, p)
    BY <1>2, <1>11 DEF ContentInv, KeptInv
  <2>2. KeptIn(n, w, cd2, p)
    <3>1. CASE cd2 \in {card', safe'}  BY <1>1, <2>1, <3>1
    <3>2. CASE cd2 = Now'
      <4>1. cd2.fat = FatNow' /\ cd2.ent = EntNow /\ cd2.data = card.data
        BY <1>1, <1>3, <3>2 DEF Now
      <4>2. Now.fat = FatNow /\ Now.ent = EntNow /\ Now.data = card.data  BY DEF Now
      <4>3. \A i \in 1 .. Len(w) : i < Len(w) => FatNow'[w[i]] = FatNow[w[i]]
        BY <1>2, <1>3, <1>7, <1>8, FileFacts
      <4> QED  BY <2>1, <4>1, <4>2, <4>3 DEF KeptIn
    <3> QED  BY <3>1, <3>2
  <2>3. Len(w) <= Len(t) /\ p \in Nat  BY <1>5, <1>7, <1>11
  <2> QED  BY <1>5, <2>2, <2>3, KeptLonger
<1>12. ObjOk(n, t, o, card'.data, p)
  <2>1. PICK d : d = card.data /\ ObjOk(n, w, o, d, p)  BY <1>2
  <2>2. Len(t) = Len(w) + 1 /\ \A i \in 1 .. Len(w) : t[i] = w[i]  BY <1>5
  <2>3. ObjOk(n, t, o, d, p)  BY <2>1, <2>2, LongerBytes, ZenonT(30)
  <2> QED  BY <1>1, <2>1, <2>3
<1>13. Carries(n, t, e, card'.data, p)
  <2>1. call.op = "write" => Limit(o, call, p)  BY <1>2 DEF Fit, Limit
  <2>2. call.c # 0  BY <1>3, Constants
  <2>3. call.op = "write" => o.fptr # 0  BY <1>4
  <2> QED  BY <1>1, <1>2, <1>3, <1>4, <1>12, <2>1, <2>2, <2>3, ClusterCarries
<1>14. /\ Carries(n, t, EntNow[n], card'.data, kept[n]) /\ call.n = n
       /\ kept[n] # None => \A cd2 \in {Now', card', safe'} : KeptIn(n, t, cd2, kept[n])
  BY <1>2, <1>11, <1>13
<1> QED  BY <1>1, <1>3, <1>6, <1>9, <1>10, <1>14, ChainBytes

-----------------------------------------------------------------------------
(* The promised bytes lie on any chain of their entry.                     *)

\* Along two chains from the same first cluster, of which both are linked.
LEMMA KeptElsewhere ==
  ASSUME NEW n, NEW w \in Seq(Clusters), NEW v \in Seq(Clusters), NEW cd, NEW p \in Nat,
         KeptIn(n, w, cd, p), cd.ent[n].size \in Nat,
         \A i \in 1 .. Len(v) : cd.fat[v[i]] = IF i < Len(v) THEN v[i + 1] ELSE EOC,
         LiesOn(v, cd.ent[n].start, cd.ent[n].size)
  PROVE  KeptIn(n, v, cd, p)
<1>1. SUFFICES ASSUME p > 0  PROVE KeptIn(n, v, cd, p)  BY DEF KeptIn
<1>2. /\ w # <<>> /\ cd.ent[n].start = w[1] /\ cd.ent[n].used /\ cd.ent[n].size >= p
      /\ \A i \in 1 .. Len(w) : SS * (i - 1) < p =>
           /\ cd.data[w[i]] = n
           /\ SS * i < p => i < Len(w) /\ cd.fat[w[i]] = w[i + 1]
  BY <1>1 DEF KeptIn
<1>3. w[1] \in Clusters /\ Len(w) \in Nat \ {0}  BY <1>2, Rest
<1>4. v # <<>> /\ v[1] = w[1] /\ cd.ent[n].size <= SS * Len(v)
  BY <1>2, <1>3 DEF LiesOn
<1>5. Len(v) \in Nat /\ SS \in Nat \ {0} /\ SS * Len(v) \in Nat
  BY FatAssumption, LenProperties
<1>6. p <= SS * Len(v)  BY <1>2, <1>4, <1>5
<1> DEFINE Bad == {i \in 1 .. Len(v) : SS * (i - 1) < p /\ ~(i \in 1 .. Len(w) /\ v[i] = w[i])}
<1>7. Bad = {}
  <2>1. SUFFICES ASSUME Bad # {}  PROVE FALSE  OBVIOUS
  <2>2. Bad \in SUBSET Nat  BY <1>5
  <2>3. PICK i \in Bad : \A j \in Bad : i <= j
    <3> HIDE DEF Bad
    <3> QED  BY <2>1, <2>2, Least
  <2>4. i \in 1 .. Len(v) /\ SS * (i - 1) < p /\ ~(i \in 1 .. Len(w) /\ v[i] = w[i])
    BY <2>3
  <2>5. i # 1  BY <1>3, <1>4, <2>4
  <2>6. PICK h \in Nat : h = i - 1 /\ i = h + 1 /\ h \in 1 .. Len(v) /\ h < Len(v)
    BY <1>5, <2>4, <2>5
  <2>7. SS * (h - 1) < p /\ SS * h < p
    <3>1. SS * (h - 1) = SS * h - SS /\ SS * h \in Nat  BY <2>6, Multiples
    <3>2. SS * h < p  BY <2>4, <2>6
    <3> QED  BY <1>5, <3>1, <3>2
  <2>8. h \in 1 .. Len(w) /\ v[h] = w[h]
    <3>1. h \notin Bad
      <4>1. ~(i <= h)  BY <2>6
      <4> QED  BY <2>3, <4>1
    <3> QED  BY <2>6, <2>7, <3>1
  <2>9. h < Len(w) /\ cd.fat[w[h]] = w[h + 1]  BY <1>2, <2>7, <2>8
  <2>10. cd.fat[v[h]] = v[h + 1]  BY <2>6
  <2>11. i \in 1 .. Len(w) /\ v[i] = w[i]  BY <1>3, <2>6, <2>8, <2>9, <2>10
  <2> QED  BY <2>4, <2>11
<1>8. ASSUME NEW i \in 1 .. Len(v), SS * (i - 1) < p
      PROVE  /\ cd.data[v[i]] = n
             /\ SS * i < p => i < Len(v) /\ cd.fat[v[i]] = v[i + 1]
  <2>1. i \in 1 .. Len(w) /\ v[i] = w[i]  BY <1>7, <1>8
  <2>2. cd.data[v[i]] = n  BY <1>2, <1>8, <2>1
  <2>3. SS * i < p => i < Len(v)
    <3>1. i \in Nat /\ SS * i \in Nat  BY <1>5
    <3>2. SS * i < p => SS * i < SS * Len(v)  BY <1>5, <1>6, <3>1
    <3> QED  BY <1>5, <3>1, <3>2, Multiples
  <2> QED  BY <2>2, <2>3
<1> QED  BY <1>2, <1>4, <1>6, <1>8 DEF KeptIn

\* What is promised of a file on a sound volume lies on any of its chains there.
LEMMA KeptOnChain ==
  ASSUME NEW own, VolumeInv(own), ContentInv(own), NEW n \in Names, kept[n] # None,
         NEW cd \in {card, safe}, NEW v \in Seq(Clusters), EntryOk(v, cd.ent[n]),
         \A i \in 1 .. Len(v) : cd.fat[v[i]] = IF i < Len(v) THEN v[i + 1] ELSE EOC
  PROVE  kept[n] \in Nat /\ KeptIn(n, v, cd, kept[n])
<1>1. kept[n] \in Nat  BY DEF VolumeInv, BaseInv, TypeOK, Promises
<1>2. KeptIn(n, own[n], cd, kept[n])  BY DEF ContentInv, KeptInv
<1>3. own[n] \in Seq(Clusters)  BY DEF VolumeInv, Owns
<1>4. cd.ent[n].size \in Nat  BY DEF VolumeInv, BaseInv, WinOk, Volumes, Entries
<1>5. LiesOn(v, cd.ent[n].start, cd.ent[n].size)  BY DEF EntryOk
<1> QED  BY <1>1, <1>2, <1>3, <1>4, <1>5, KeptElsewhere

\* After a restart each file has the chain that its entry has on the card.
LEMMA RestartContent ==
  ASSUME NEW own, VolumeInv(own), ContentInv(own), NEW hint \in Nat, Restart(hint),
         bound' = bound
  PROVE  \E own2 : VolumeInv(own2)' /\ ContentInv(own2)'
<1>1. /\ card' \in {card, safe} /\ safe' = card'
      /\ win' = [sect |-> NoSect, dirty |-> FALSE, copy |-> <<>>]
      /\ obj' = [n \in Names |-> Closed] /\ call' = Idle
      /\ last' \in Nat /\ faults' = faults + 1 /\ kept' = kept
  BY DEF Restart
<1>2. /\ card \in Volumes /\ safe \in Volumes /\ Sound(card) /\ Sound(safe)
      /\ faults' \in Nat /\ kept' \in Promises /\ bound' \in Bounds
  BY <1>1 DEF VolumeInv, BaseInv, TypeOK, WinOk, Solid
<1>3. PICK cd \in Volumes : cd = card' /\ cd \in {card, safe} /\ Sound(cd)  BY <1>1, <1>2
<1>4. PICK own2 \in Owns :
        /\ VolumeInv(own2)'
        /\ Apart(own2) /\ Linked(own2, cd.fat)
        /\ \A n \in Names : EntryOk(own2[n], cd.ent[n])
  BY <1>1, <1>2, <1>3, MountedKeeps
<1>5. FatNow' = cd.fat /\ EntNow' = cd.ent
  BY <1>1, <1>2, <1>3, NoWindow
<1>6. ASSUME NEW n \in Names, kept'[n] # None, NEW cd2 \in {Now', card', safe'}
      PROVE  KeptIn(n, own2[n], cd2, kept'[n])
  <2>1. kept[n] # None /\ own2[n] \in Seq(Clusters)  BY <1>1, <1>6 DEF Owns
  <2>2. KeptIn(n, own2[n], cd, kept[n])
    BY <1>3, <1>4, <2>1, KeptOnChain DEF Linked
  <2>3. cd2.fat = cd.fat /\ cd2.ent = cd.ent /\ cd2.data = cd.data
    BY <1>1, <1>3, <1>5, <1>6 DEF Now
  <2> QED  BY <1>1, <2>2, <2>3 DEF KeptIn
<1>7. ASSUME NEW n \in Names
      PROVE  /\ ObjOk(n, own2[n], obj'[n], card'.data, kept'[n])
             /\ ~Busy(n)' /\ ~obj'[n].open
  <2>1. obj'[n] = Closed /\ own2[n] \in Seq(Clusters)  BY <1>1 DEF Owns
  <2>2. ObjOk(n, own2[n], Closed, card'.data, kept'[n])  BY <2>1, ClosedBytes
  <2>3. ~Busy(n)'  BY <1>1, Records DEF Busy
  <2> QED  BY <2>1, <2>2, <2>3, Records
<1>8. KeptInv(own2)'  BY <1>6 DEF KeptInv, KeptIn
<1>9. ByteInv(own2)'  BY <1>7 DEF ByteInv, ObjOk, Near, Fit
<1> QED  BY <1>4, <1>8, <1>9 DEF ContentInv, KeptInv, ByteInv

LEMMA ContentInit ==
  ASSUME Init
  PROVE  ContentInv([n \in Names |-> <<>>])
<1> DEFINE own == [n \in Names |-> <<>>]
<1>1. /\ obj = [n \in Names |-> Closed] /\ call = Idle /\ kept = [n \in Names |-> None]
  BY DEF Init
<1>2. KeptInv(own)  BY <1>1 DEF KeptInv
<1>3. ASSUME NEW n \in Names
      PROVE  /\ ObjOk(n, own[n], obj[n], card.data, kept[n])
             /\ ~Busy(n) /\ ~obj[n].open
  <2>1. obj[n] = Closed /\ own[n] \in Seq(Clusters)  BY <1>1
  <2>2. ObjOk(n, own[n], Closed, card.data, kept[n])  BY <2>1, ClosedBytes
  <2>3. ~Busy(n)  BY <1>1, Records DEF Busy
  <2> QED  BY <2>1, <2>2, <2>3, Records
<1> HIDE DEF own
<1>4. ByteInv(own)  BY <1>3 DEF ByteInv
<1>5. ContentInv(own)  BY <1>2, <1>4 DEF ContentInv
<1> QED  BY <1>5 DEF own

LEMMA CallsContent ==
  ASSUME NEW own, VolumeInv(own), ContentInv(own), Calls
  PROVE  ContentInv(own)'
<1>1. bound.lens \subseteq Nat /\ bound.targets \subseteq Nat
  BY FatAssumption DEF VolumeInv, BaseInv, TypeOK
<1>2. PICK n \in Names :
        \/ \E m \in {"existing", "openalways", "createalways"}, wr \in BOOLEAN :
             StartOpen(n, m, wr)
        \/ \E len \in Nat : StartRead(n, len)
        \/ \E len \in Nat : StartWrite(n, len)
        \/ \E ofs \in Nat : StartSeek(n, ofs)
        \/ StartClose(n)
  BY <1>1 DEF Calls
<1>3. CASE \E m \in {"existing", "openalways", "createalways"}, wr \in BOOLEAN :
             StartOpen(n, m, wr)
  BY <1>3, StartOpenContent
<1>4. CASE \E len \in Nat : StartWrite(n, len)
  BY <1>4, StartWriteContent
<1>5. CASE StartClose(n) \/ \E len \in Nat : StartRead(n, len)
  <2>1. Carried(own)  BY <1>5, StartsCarried
  <2>2. win' = win /\ card' = card /\ safe' = safe /\ kept' = kept
    BY <1>5 DEF StartClose, StartRead
  <2> QED  BY <2>1, <2>2, CarriedKeeps
<1>6. CASE \E ofs \in Nat : StartSeek(n, ofs)
  <2>1. Carried(own)  BY <1>6, SeekCarried
  <2>2. win' = win /\ card' = card /\ safe' = safe /\ kept' = kept
    BY <1>6 DEF StartSeek
  <2> QED  BY <2>1, <2>2, CarriedKeeps
<1> QED  BY <1>2, <1>3, <1>4, <1>5, <1>6

\* The steps of a call that write nothing.
ReadOnly ==
  \/ FindExisting \/ BackToEntry \/ Stretch \/ ScanPasses
  \/ ReadInside \/ ReadSector \/ ReadPart \/ ReadEnds
  \/ Follow \/ SeekEnds

LEMMA ReadOnlyContent ==
  ASSUME NEW own, VolumeInv(own), ContentInv(own), ReadOnly
  PROVE  ContentInv(own)'
<1>1. CASE FindExisting \/ BackToEntry
  <2>1. Carried(own)  BY <1>1, DirectoryCarried
  <2>2. win' = win /\ card' = card /\ safe' = safe /\ kept' = kept
    BY <1>1 DEF FindExisting, BackToEntry
  <2> QED  BY <2>1, <2>2, CarriedKeeps
<1>2. CASE Stretch \/ ScanPasses
  <2>1. Carried(own)  BY <1>2, SearchCarried
  <2>2. win' = win /\ card' = card /\ safe' = safe /\ kept' = kept
    BY <1>2 DEF Stretch, ScanPasses
  <2> QED  BY <2>1, <2>2, CarriedKeeps
<1>3. CASE ReadInside \/ ReadSector \/ ReadPart
  <2>1. Carried(own)  BY <1>3, ReadsCarried
  <2>2. win' = win /\ card' = card /\ safe' \in {card, safe} /\ kept' = kept
    BY <1>3 DEF ReadInside, ReadSector, ReadPart, DiskRead
  <2> QED  BY <2>1, <2>2, CarriedKeeps
<1>4. CASE ReadEnds \/ Follow
  <2>1. Carried(own)  BY <1>4, ReadEndsCarried, FollowCarried
  <2>2. win' = win /\ card' = card /\ safe' = safe /\ kept' = kept
    BY <1>4 DEF ReadEnds, Follow
  <2> QED  BY <2>1, <2>2, CarriedKeeps
<1>5. CASE SeekEnds
  <2>1. Carried(own)  BY <1>5, SeekEndsCarried
  <2>2. win' = win /\ card' = card /\ safe' \in {card, safe} /\ kept' = kept
    BY <1>5 DEF SeekEnds, DiskRead
  <2> QED  BY <2>1, <2>2, CarriedKeeps
<1> QED  BY <1>1, <1>2, <1>3, <1>4, <1>5 DEF ReadOnly

LEMMA ContentNext ==
  ASSUME NEW own, VolumeInv(own), ContentInv(own), Next
  PROVE  \E own2 : VolumeInv(own2)' /\ ContentInv(own2)'
<1>1. bound' = bound  BY DEF Next
<1>2. CASE Calls
  BY <1>1, <1>2, CallsKeep, CallsContent
<1>3. CASE Fails
  <2>1. VolumeInv(own)'  BY <1>1, <1>3, FailsKeep
  <2>2. ContentInv(own)'
    BY <1>1, <1>3, WindowFailsContent, BufferFailsContent, StoreFailsContent,
       ReadFailsContent, SyncFailsContent DEF Fails
  <2> QED  BY <2>1, <2>2
<1>4. CASE \E hint \in bound.hints : Restart(hint)
  <2>1. bound.hints \subseteq Nat  BY FatAssumption DEF VolumeInv, BaseInv, TypeOK
  <2> QED  BY <1>1, <1>4, <2>1, RestartContent
<1>5. CASE Proceed
  <2>1. CASE ReadOnly
    <3>1. VolumeInv(own)'  BY <1>1, <2>1, PlainKeeps DEF ReadOnly, Plain
    <3>2. ContentInv(own)'  BY <2>1, ReadOnlyContent
    <3> QED  BY <3>1, <3>2
  <2>2. CASE FlushWindow \/ LoadWindow \/ FindCreates \/ Entry \/ Sync
    <3>1. VolumeInv(own)'  BY <1>1, <2>2, PlainKeeps DEF Plain
    <3>2. ContentInv(own)'
      BY <1>1, <2>2, FlushWindowContent, LoadWindowContent, FindCreatesContent,
         EntryContent, SyncContent
    <3> QED  BY <3>1, <3>2
  <2>3. CASE FlushBuffer \/ WriteInside \/ WriteSector \/ WritePart
    <3>1. VolumeInv(own)'  BY <1>1, <2>3, PlainKeeps DEF Plain
    <3>2. ContentInv(own)'
      BY <2>3, FlushBufferContent, WriteInsideContent, WriteSectorContent, WritePartContent
    <3> QED  BY <3>1, <3>2
  <2>4. CASE Free
    <3>1. PICK own2 : own2 = Freed(own, call.n)  OBVIOUS
    <3> QED  BY <1>1, <2>4, <3>1, FreeKeeps, FreeContent
  <2>5. CASE ScanFinds /\ call.c = 0
    <3>1. PICK own2 : own2 = First(own, call.n, call.k)  OBVIOUS
    <3> QED  BY <1>1, <2>5, <3>1, ScanFindsFirst, ScanFirstContent
  <2>6. CASE ScanFinds /\ call.c # 0
    BY <1>1, <2>6, ScanFindsNext, ScanNextContent
  <2>7. CASE Link
    <3>1. PICK own2 : own2 = Longer(own, call.n, call.k)  OBVIOUS
    <3> QED  BY <1>1, <2>7, <3>1, LinkKeeps, LinkContent
  <2> QED  BY <1>5, <2>1, <2>2, <2>3, <2>4, <2>5, <2>6, <2>7 DEF Proceed, ReadOnly
<1> QED  BY <1>2, <1>3, <1>4, <1>5 DEF Next

\* What each close promised is on the card, and what the program knows of an open
\* file is on the card or in its buffer, in the middle of a call too.
THEOREM ContentInvHolds == Spec => [](\E own : VolumeInv(own) /\ ContentInv(own))
<1>1. Init => \E own : VolumeInv(own) /\ ContentInv(own)  BY VolumeInit, ContentInit
<1>2. /\ \E own : VolumeInv(own) /\ ContentInv(own)
      /\ [Next]_vars
      => (\E own : VolumeInv(own) /\ ContentInv(own))'
  <2>1. SUFFICES ASSUME NEW own, VolumeInv(own), ContentInv(own), [Next]_vars
                 PROVE  \E own2 : VolumeInv(own2)' /\ ContentInv(own2)'
    OBVIOUS
  <2>2. CASE Next  BY <2>1, <2>2, ContentNext
  <2>3. CASE UNCHANGED vars
    <3>1. VolumeInv(own)'  BY <2>1, <2>3, StutterKeeps
    <3>2. ContentInv(own)'
      <4>1. EntNow' = EntNow /\ Now' = Now  BY <2>3 DEF vars, FatNow, EntNow, Now
      <4>2. /\ obj' = obj /\ call' = call /\ kept' = kept /\ card' = card /\ safe' = safe
        BY <2>3 DEF vars
      <4> QED  BY <2>1, <4>1, <4>2, SameBytesStep
    <3> QED  BY <3>1, <3>2
  <2> QED  BY <2>1, <2>2, <2>3
<1> QED  BY <1>1, <1>2, PTL DEF Spec

\* A read returns what was last written there, from the buffer or from the card,
\* through failed accesses and restarts, and however the calls interleave.
THEOREM ReadsBackHolds == Spec => []ReadsBack
<1>1. ASSUME NEW own, VolumeInv(own), ContentInv(own)  PROVE ReadsBack
  <2>1. SUFFICES ASSUME call.at = "got", SS * (call.scl - 1) < obj[call.n].good
                 PROVE  call.v = call.n
    BY DEF ReadsBack
  <2>2. call.at # "idle"  BY <2>1
  <2>3. PICK n \in Names, w \in Seq(Clusters), e \in Entries, o \in Files,
             p \in Nat \cup {None} :
           /\ n = call.n /\ w = own[n] /\ e = EntNow[n] /\ o = obj[n] /\ p = kept[n]
           /\ FileOk(w, e, o) /\ PlaceOk(w, e, o, call)
           /\ ObjOk(n, w, o, card.data, p) /\ Fit(n, e, o, call, p)
           /\ call \in Calling /\ obj \in [Names -> Files] /\ last \in Nat /\ WinOk
    BY <1>1, <2>2, BusyBytes
  <2> QED  BY <2>1, <2>3 DEF Fit
<1>2. (\E own : VolumeInv(own) /\ ContentInv(own)) => ReadsBack  BY <1>1
<1> QED  BY <1>2, ContentInvHolds, PTL

\* The sectors of the first p bytes.
LEMMA SectorsOf ==
  ASSUME NEW p \in Nat, NEW i \in 1 .. (p + SS - 1) \div SS
  PROVE  i \in Nat \ {0} /\ SS * (i - 1) < p /\ p > 0
<1>1. SS \in Nat \ {0} /\ p + SS - 1 \in Nat  BY FatAssumption
<1>2. PICK a \in Nat : a = p + SS - 1  BY <1>1
<1>3. a % SS \in 0 .. SS - 1 /\ a = SS * (a \div SS) + (a % SS) /\ a \div SS \in Int
  BY <1>1, <1>2, Quotient
<1>4. PICK q \in Int, r \in Nat : q = a \div SS /\ a = SS * q + r  BY <1>1, <1>3
<1>5. i \in Nat \ {0} /\ q \in Nat /\ i <= q  BY <1>2, <1>4
<1>6. SS * i <= SS * q /\ SS * (i - 1) = SS * i - SS /\ SS * i \in Nat /\ SS * q \in Nat
  BY <1>5, Multiples
<1>7. PICK x \in Nat, y \in Nat : x = SS * i /\ y = SS * q  BY <1>6
<1>8. x - SS < p  BY <1>1, <1>2, <1>4, <1>6, <1>7
<1>9. x >= SS  BY <1>1, <1>5, <1>7
<1> QED  BY <1>1, <1>5, <1>6, <1>7, <1>8, <1>9

\* What a close has promised is on the card, whatever fails and whenever the power
\* goes, until the file is emptied or those sectors are written again.
THEOREM KeptOnCardHolds == Spec => []KeptOnCard
<1>1. ASSUME NEW own, VolumeInv(own), ContentInv(own)  PROVE KeptOnCard
  <2>1. SUFFICES ASSUME NEW n \in Names, kept[n] # None
                 PROVE  /\ safe.ent[n].used /\ safe.ent[n].size >= kept[n]
                        /\ \A i \in 1 .. (kept[n] + SS - 1) \div SS :
                             safe.data[Walk(safe.fat, safe.ent[n].start)[i]] = n
    BY DEF KeptOnCard
  <2>2. PICK ch \in Owns : /\ Apart(ch) /\ Linked(ch, safe.fat)
                           /\ \A m \in Names : EntryOk(ch[m], safe.ent[m])
    BY <1>1 DEF VolumeInv, Solid, Sound
  <2>3. ch[n] \in Seq(Clusters) /\ EntryOk(ch[n], safe.ent[n])  BY <2>2 DEF Owns
  <2>4. kept[n] \in Nat /\ KeptIn(n, ch[n], safe, kept[n])
    BY <1>1, <2>1, <2>2, <2>3, KeptOnChain DEF Linked
  <2>5. PICK p \in Nat : p = kept[n] /\ KeptIn(n, ch[n], safe, p)  BY <2>4
  <2>6. ASSUME NEW i \in 1 .. (p + SS - 1) \div SS
        PROVE  safe.data[Walk(safe.fat, safe.ent[n].start)[i]] = n
    <3>1. i \in Nat \ {0} /\ SS * (i - 1) < p /\ p > 0  BY <2>5, <2>6, SectorsOf
    <3>2. /\ ch[n] # <<>> /\ safe.ent[n].start = ch[n][1] /\ p <= SS * Len(ch[n])
          /\ \A j \in 1 .. Len(ch[n]) : SS * (j - 1) < p => safe.data[ch[n][j]] = n
      BY <2>5, <3>1 DEF KeptIn
    <3>3. i \in 1 .. Len(ch[n])
      <4>1. i - 1 \in Nat /\ Len(ch[n]) \in Nat /\ SS \in Nat
        BY <2>3, <3>1, FatAssumption, LenProperties
      <4>2. SS * (i - 1) \in Nat /\ SS * Len(ch[n]) \in Nat  BY <4>1
      <4>3. SS * (i - 1) < SS * Len(ch[n])  BY <3>1, <3>2, <4>2
      <4>4. i - 1 < Len(ch[n])  BY <4>1, <4>3, Multiples
      <4> QED  BY <3>1, <4>1, <4>4
    <3>4. Walk(safe.fat, ch[n][1])[i] = ch[n][i]  BY <2>2, <3>2, <3>3, WalkOnChain
    <3> QED  BY <3>1, <3>2, <3>3, <3>4
  <2> QED  BY <2>5, <2>6 DEF KeptIn
<1>2. (\E own : VolumeInv(own) /\ ContentInv(own)) => KeptOnCard  BY <1>1
<1> QED  BY <1>2, ContentInvHolds, PTL

=============================================================================
