----------------------------- MODULE MCElfLoad -------------------------------
(* Cards with a file of up to three clusters, in two directories, for       *)
(* sectors of two units.                                                    *)
EXTENDS ElfLoad, Functions

MCPath == <<"de0", "boot">>

Entry(name, dir, volume, clust, size) ==
  [name |-> name, dir |-> dir, volume |-> volume, clust |-> clust, size |-> size]

Plain(name) == Entry(name, FALSE, FALSE, 0, 0)
Label(name) == Entry(name, FALSE, TRUE, 0, 0)
Directory(name, clust) == Entry(name, TRUE, FALSE, clust, 0)
File(name, clust, size) == Entry(name, FALSE, FALSE, clust, size)

\* What a volume has: where it begins and where sector 0 leads to, its
\* directories and the file, with the clusters of each, which may be linked in a loop.
Layouts == {
  [signed |-> TRUE, base |-> 0, first |-> 1, loop |-> FALSE, fat32 |-> FALSE, csize |-> 1, nroot |-> 4,
   root |-> << >>, sub |-> <<5, 2>>, chain |-> <<4, 3, 7, 6>>,
   top |-> <<Label("de0"), Plain("x"), Directory("de0", 5), Plain("end")>>],
  [signed |-> TRUE, base |-> 3, first |-> 3, loop |-> FALSE, fat32 |-> TRUE, csize |-> 2, nroot |-> 0,
   root |-> <<3, 6>>, sub |-> <<2>>, chain |-> <<7, 4, 5>>,
   top |-> <<Plain("x"), Label("de0"), Plain("x"), Plain("boot"),
             Directory("de0", 2), Plain("end"), Plain("end"), Plain("end")>>] }

Right(l) == {[layout |-> l, sub |-> <<Label("boot"), Plain("x"), File("boot", l.chain[1], size), Plain("end")>>,
              size |-> size] : size \in {2, 6, 8}}

Looped == {[l EXCEPT !.loop = TRUE, !.first = l.base] : l \in Layouts}

\* No boot record, no partition or one that is no volume, no directory, no file, a
\* chain too short, and the search for what is not there in a loop.
Wrong(l) ==
  LET sub == <<Plain("x"), Plain("x"), File("boot", l.chain[1], 8), Plain("end")>>
      volume(layout, entries) == [layout |-> layout, sub |-> entries, size |-> 8]
  IN
  {volume([l EXCEPT !.signed = FALSE], sub),
   volume([l EXCEPT !.base = 3, !.first = NoPartition], sub),
   volume([l EXCEPT !.base = 3, !.first = 2], sub),
   volume([l EXCEPT !.loop = TRUE], [i \in 1 .. 4 |-> Plain("x")]),
   volume([l EXCEPT !.loop = TRUE, !.top = [i \in DOMAIN l.top |-> Plain("x")]], sub),
   volume([l EXCEPT !.top = [i \in DOMAIN l.top |-> Plain("x")]], sub),
   volume([l EXCEPT !.top[1] = File("de0", 2, 8)], sub),
   volume(l, [i \in 1 .. 4 |-> Plain("x")]),
   volume(l, <<Directory("boot", 7), Plain("end"), Plain("end"), Plain("end")>>),
   volume([l EXCEPT !.chain = <<4>>], [sub EXCEPT ![3] = File("boot", 4, 8)])}

Links(l) ==
  UNION {{<<ch[i], CASE i < Len(ch) -> ch[i + 1]
                     [] i = Len(ch) /\ l.loop -> ch[1]
                     [] OTHER -> 15>> : i \in DOMAIN ch} : ch \in {l.root, l.sub, l.chain}}

\* Unit u of sector s of the cluster c.
InCluster(l, sub, c, s, u) ==
  LET Place(chain) == (CHOOSE i \in DOMAIN chain : chain[i] = c) - 1
      Unit(chain)  == (Place(chain) * l.csize + s) * SU + u
  IN
  CASE c \in Range(l.root)  -> l.top[Unit(l.root) + 1]
    [] c \in Range(l.sub)   -> sub[Unit(l.sub) + 1]
    [] c \in Range(l.chain) -> Unit(l.chain)
    [] OTHER -> Older

CardOf(v, good, elf, ph) ==
  LET l == v.layout
      root == l.nroot \div SU
      database == l.base + 2 + root
      sectors(chain) == {database + (chain[i] - 2) * l.csize + s : i \in DOMAIN chain, s \in 0 .. l.csize - 1}
      UnitOf(lba, u) ==
        CASE lba < l.base + 2 -> Older
          [] lba \in l.base + 2 .. database - 1 -> l.top[(lba - l.base - 2) * SU + u]
          [] OTHER -> InCluster(l, v.sub, (lba - database) \div l.csize + 2, (lba - database) % l.csize, u - 1)
  IN
  [signed |-> l.signed, base |-> l.base, first |-> l.first, rsvd |-> 1, fatsz |-> 1, nroot |-> l.nroot,
   csize |-> l.csize, tsect |-> 2 + root + 6 * l.csize, fat32 |-> l.fat32,
   rootclust |-> IF l.fat32 THEN l.root[1] ELSE 0,
   fat |-> [c \in 2 .. 7 |-> LET n == {k \in Links(l) : k[1] = c} IN
                               IF n = {} THEN 0 ELSE (CHOOSE k \in n : TRUE)[2]],
   units |-> [lba \in 0 .. database + 6 * l.csize - 1 |-> [u \in 1 .. SU |-> UnitOf(lba, u)]],
   dirs |-> <<IF l.fat32 THEN sectors(l.root) ELSE l.base + 2 .. database - 1, sectors(l.sub)>>,
   chain |-> l.chain, size |-> v.size, elf |-> elf, phnum |-> Len(ph), ph |-> ph,
   good |-> good /\ elf]

Segment(a) ==
  [load : {TRUE}, offset : {0, 2, 3, 4, 5, 7, 8}, addr : {a}, size : {0, 1, 4}]

Programs ==
  {<<p, q>> : p \in Segment(1), q \in Segment(5)}
  \union {<< >>, <<[NoHeader EXCEPT !.size = 2, !.addr = 3]>>,
           <<[load |-> TRUE, offset |-> 3, addr |-> Section, size |-> 2]>>}

MCCards ==
  {CardOf(v, TRUE, TRUE, ph) : v \in UNION {Right(l) : l \in Layouts}, ph \in Programs}
  \union {CardOf(v, TRUE, TRUE, <<p>>) : v \in UNION {Right(l) : l \in Looped}, p \in Segment(1)}
  \union {CardOf(v, TRUE, FALSE, << >>) : v \in UNION {Right(l) : l \in Layouts}}
  \union {CardOf(v, FALSE, TRUE, <<p>>) : v \in UNION {Wrong(l) : l \in Layouts}, p \in Segment(1)}
=============================================================================
