---------------------------- MODULE LayoutProofs ----------------------------
(***************************************************************************)
(* Proofs about Layout, for whatever references the user types, of whatever *)
(* length.                                                                 *)
(***************************************************************************)
EXTENDS Layout, ImageRefProofs

-----------------------------------------------------------------------------
(* Dump dirs.                                                              *)

\* What skopeo takes has no dots, and no ":" in the tag.
PlainRef(r) ==
  /\ WellFormed(r)
  /\ Plain(<<r.Host>> \o r.Path \o <<r.Tag>>)

\* A path with two more segments.
LEMMA TwoMore ==
  ASSUME NEW S, NEW e \in Seq(S), NEW a \in S, NEW b \in S
  PROVE  /\ e \o <<a, b>> \in Seq(S) /\ Len(e \o <<a, b>>) = Len(e) + 2
         /\ \A i \in 1..Len(e) : (e \o <<a, b>>)[i] = e[i]
         /\ (e \o <<a, b>>)[Len(e) + 1] = a /\ (e \o <<a, b>>)[Len(e) + 2] = b
OBVIOUS

\* The segments of a dump dir.
LEMMA DumpDirShape ==
  ASSUME NEW r, PlainRef(r)
  PROVE  LET d == RelDumpDir(r)
             m == Len(r.Path)
             mark == IF IsTagged(r) THEN <<"_tags">> ELSE <<"_digests">>
             leaf == IF IsTagged(r) THEN r.Tag ELSE r.Digest
         IN /\ m \in Nat \ {0}
            /\ d = <<r.Host>> \o r.Path \o <<mark, leaf>>
            /\ d \in Seq(Text) /\ Len(d) = m + 3
            /\ d[1] = r.Host /\ d[m + 2] = mark /\ d[m + 3] = leaf
            /\ \A i \in 1..m : d[i + 1] = r.Path[i]
<1> DEFINE m == Len(r.Path)
           mark == IF IsTagged(r) THEN <<"_tags">> ELSE <<"_digests">>
           leaf == IF IsTagged(r) THEN r.Tag ELSE r.Digest
           d == <<r.Host>> \o r.Path \o <<mark, leaf>>
           p == <<r.Host>> \o r.Path \o <<r.Tag>>
<1>1. /\ r.Host \in Text /\ r.Path \in Seq(Text) /\ leaf \in Text
      /\ m \in Nat \ {0}
  BY DEF PlainRef, WellFormed
<1>2. mark \in Text /\ mark \notin Dots
  BY WordsAssumption DEF FixedWords, Text, Dots
<1>3. /\ d \in Seq(Text) /\ Len(d) = m + 3
      /\ d[1] = r.Host /\ d[m + 2] = mark /\ d[m + 3] = leaf
      /\ \A i \in 1..m : d[i + 1] = r.Path[i]
  <2> HIDE DEF mark, leaf
  <2> DEFINE e == <<r.Host>> \o r.Path
  <2>1. e \in Seq(Text) /\ Len(e) = m + 1 /\ e[1] = r.Host /\ \A i \in 1..m : e[i + 1] = r.Path[i]
    BY <1>1
  <2>2. \A i \in 1..m : i + 1 \in 1..(m + 1)
    BY <1>1
  <2>3. 1 \in 1..(m + 1)
    BY <1>1
  <2> HIDE DEF e
  <2>4. /\ e \o <<mark, leaf>> \in Seq(Text) /\ Len(e \o <<mark, leaf>>) = m + 3
        /\ \A i \in 1..(m + 1) : (e \o <<mark, leaf>>)[i] = e[i]
        /\ (e \o <<mark, leaf>>)[m + 2] = mark /\ (e \o <<mark, leaf>>)[m + 3] = leaf
    <3>1. Len(e) + 1 = m + 2 /\ Len(e) + 2 = m + 3
      BY <1>1, <2>1
    <3> HIDE DEF m
    <3> QED
      BY <1>1, <1>2, <2>1, <3>1, TwoMore
  <2> QED  BY <2>1, <2>2, <2>3, <2>4 DEF e
<1>4. p \in Seq(Text) /\ Len(p) = m + 2 /\ p[1] = r.Host /\ p[m + 2] = r.Tag
      /\ \A i \in 1..m : p[i + 1] = r.Path[i]
  BY <1>1 DEF PlainRef, WellFormed
<1>5. r.Host \notin Dots /\ r.Tag \notin Dots /\ \A i \in 1..m : r.Path[i] \notin Dots
  <2>1. \A i \in 1..(m + 2) : p[i] \notin Dots
    <3>1. Plain(p) /\ DOMAIN p = 1..(m + 2)
      BY <1>1, <1>4 DEF PlainRef
    <3> HIDE DEF p
    <3> QED  BY <3>1 DEF Plain
  <2>2. 1 \in 1..(m + 2) /\ m + 2 \in 1..(m + 2) /\ \A i \in 1..m : i + 1 \in 1..(m + 2)
    BY <1>1
  <2> HIDE DEF p
  <2> QED
    BY <1>4, <2>1, <2>2
<1>6. leaf \notin Dots
  <2>1. ASSUME NEW h \in Hex
        PROVE  <<h>> \notin Dots
    BY HexAssumption, DottedAssumption DEF Dots
  <2> QED
    BY <1>5, <2>1 DEF PlainRef, WellFormed, IsTagged
<1>7. Plain(d)
  <2> SUFFICES ASSUME NEW i \in 1..(m + 3)
               PROVE  d[i] \notin Dots
    <3> HIDE DEF d
    <3>1. DOMAIN d = 1..(m + 3)
      BY <1>1, <1>3
    <3> QED
      BY <3>1 DEF Plain
  <2> HIDE DEF d, leaf, mark
  <2>1. CASE i \in 2..(m + 1)
    <3>1. i - 1 \in 1..m /\ (i - 1) + 1 = i
      BY <1>1, <2>1
    <3> QED
      BY <1>3, <1>5, <3>1
  <2>2. CASE i \in {1, m + 2, m + 3}
    BY <2>2, <1>2, <1>3, <1>5, <1>6
  <2> QED
    BY <1>1, <2>1, <2>2
<1>8. RelDumpDir(r) = d
  <2>1. IsTagged(r) => RelDumpDir(r) = Clean(d)
    BY DEF RelDumpDir, RelTagPath
  <2>2. ~IsTagged(r) => RelDumpDir(r) = Clean(d)
    BY DEF RelDumpDir, RelDigestPath
  <2> HIDE DEF d
  <2> QED
    BY <1>7, <2>1, <2>2 DEF Clean
<1> HIDE DEF d
<1> QED
  BY <1>1, <1>3, <1>8 DEF d

\* Above its last segment a dump dir has one marker, the last but one.
LEMMA OneMarker ==
  ASSUME NEW r, PlainRef(r), NEW n \in 2..(Len(RelDumpDir(r)) - 1)
  PROVE  RelDumpDir(r)[n] \in ReservedSegments <=> n = Len(RelDumpDir(r)) - 1
<1> DEFINE d == RelDumpDir(r)
           m == Len(r.Path)
<1>1. /\ m \in Nat \ {0} /\ Len(d) = m + 3
      /\ d[m + 2] \in ReservedSegments
      /\ \A i \in 1..m : d[i + 1] = r.Path[i]
  BY DumpDirShape DEF ReservedSegments
<1>2. \A i \in 1..m : r.Path[i] \notin ReservedSegments
  BY DEF PlainRef, WellFormed
<1> HIDE DEF d
<1>3. CASE n = m + 2
  BY <1>1, <1>3 DEF d
<1>4. CASE n # m + 2
  <2>1. n \in 2..(Len(d) - 1)
    BY DEF d
  <2>2. n - 1 \in 1..m /\ (n - 1) + 1 = n
    BY <1>1, <1>4, <2>1
  <2>3. d[n] \notin ReservedSegments
    BY <1>1, <1>2, <2>2
  <2>4. n # Len(d) - 1
    BY <1>1, <1>4
  <2> QED
    BY <2>3, <2>4 DEF d
<1> QED
  BY <1>3, <1>4

\* The walk back: a dump dir is read as the reference it was made for.
LEMMA ReadBack ==
  ASSUME NEW r, PlainRef(r)
  PROVE  parseDumpDirRel(RelDumpDir(r)) = r
<1> DEFINE d == RelDumpDir(r)
           m == Len(r.Path)
           t == Mark(d, <<"_tags">>)
           g == Mark(d, <<"_digests">>)
<1>1. /\ m \in Nat \ {0}
      /\ d \in Seq(Text) /\ Len(d) = m + 3 /\ d[1] = r.Host
      /\ IsTagged(r) => d[m + 2] = <<"_tags">> /\ d[m + 3] = r.Tag
      /\ ~IsTagged(r) => d[m + 2] = <<"_digests">> /\ d[m + 3] = r.Digest
      /\ \A i \in 1..m : d[i + 1] = r.Path[i]
  BY DumpDirShape
<1>2. \A n \in 2..(m + 2) : d[n] \in ReservedSegments <=> n = m + 2
  BY <1>1, OneMarker
<1>3. r.Path \in Seq(Text) /\ r = MkRef(r.Host, r.Path, r.Tag, r.Digest)
  BY DEF PlainRef, WellFormed, MkRef
<1>4. SubSeq(d, 2, m + 1) = r.Path
  BY <1>1, <1>3
<1>5. Leaf(d, m + 2) = d[m + 3]
  BY <1>1 DEF Leaf
<1> HIDE DEF d
<1>6. ASSUME NEW seg \in ReservedSegments
      PROVE  Mark(d, seg) = IF d[m + 2] = seg THEN m + 2 ELSE 0
  <2> DEFINE at == {n \in 2..(Len(d) - 1) : d[n] = seg}
  <2>1. at = IF d[m + 2] = seg THEN {m + 2} ELSE {}
    BY <1>1, <1>2
  <2>2. Mark(d, seg) = IF at = {} THEN 0 ELSE CHOOSE n \in at : \A k \in at : n <= k
    BY DEF Mark
  <2> HIDE DEF at
  <2>3. CASE d[m + 2] = seg
    <3>1. at = {m + 2}
      BY <2>1, <2>3
    <3>2. (CHOOSE n \in at : \A k \in at : n <= k) \in {m + 2}
      BY <1>1, <3>1
    <3> QED
      BY <2>2, <2>3, <3>1, <3>2
  <2>4. CASE d[m + 2] # seg
    BY <2>1, <2>2, <2>4
  <2> QED
    BY <2>3, <2>4
<1>7. CASE IsTagged(r)
  <2>1. t = m + 2 /\ r.Digest = <<>>
    BY <1>1, <1>6, <1>7 DEF ReservedSegments, PlainRef, WellFormed, IsTagged
  <2>2. parseDumpDirRel(d) = MkRef(d[1], SubSeq(d, 2, t - 1), Leaf(d, t), <<>>)
    BY <1>1, <2>1 DEF parseDumpDirRel
  <2>3. t - 1 = m + 1
    BY <1>1, <2>1
  <2>4. SubSeq(d, 2, t - 1) = r.Path /\ Leaf(d, t) = r.Tag
    BY <1>1, <1>4, <1>5, <1>7, <2>1, <2>3 DEF d
  <2> QED
    BY <1>1, <1>3, <2>1, <2>2, <2>4 DEF d
<1>8. CASE ~IsTagged(r)
  <2>1. t = 0 /\ g = m + 2 /\ r.Tag = <<>>
    BY <1>1, <1>6, <1>8 DEF ReservedSegments, IsTagged
  <2>2. parseDumpDirRel(d) = MkRef(d[1], SubSeq(d, 2, g - 1), <<>>, Leaf(d, g))
    BY <1>1, <2>1 DEF parseDumpDirRel
  <2>3. g - 1 = m + 1
    BY <1>1, <2>1
  <2>4. SubSeq(d, 2, g - 1) = r.Path /\ Leaf(d, g) = r.Digest
    BY <1>1, <1>4, <1>5, <1>8, <2>1, <2>3 DEF d
  <2> QED
    BY <1>1, <1>3, <2>1, <2>2, <2>4 DEF d
<1> QED
  BY <1>7, <1>8
\* Two references never share a dump dir.
THEOREM DumpDirsApart ==
  ASSUME NEW r, NEW q, PlainRef(r), PlainRef(q), RelDumpDir(r) = RelDumpDir(q)
  PROVE  r = q
BY ReadBack

\* What Parse returns and skopeo takes has no dots.
LEMMA TakenIsPlain ==
  ASSUME NEW s \in Typed, Parse(s) # NoRef, SkopeoTakes(Parse(s))
  PROVE  PlainRef(Parse(s))
BY ParseShape, TypedAssumption DEF PlainRef, SkopeoTakes, Canonical, Text

-----------------------------------------------------------------------------
(* The base dir.                                                           *)

\* Every image done has its dump dir, and its index.json where it belongs.
DoneInv ==
  \A r \in done : PlainRef(r) /\ RelDumpDir(r) \in dirs /\ <<RelDumpDir(r), r>> \in index

\* A path is the last of its own beginnings.
LEMMA WholePath ==
  ASSUME NEW S, NEW p \in Seq(S), p # <<>>
  PROVE  SubSeq(p, 1, Len(p)) = p /\ Len(p) \in 1..Len(p)
OBVIOUS

\* share is the beginning of share/sha256.
LEMMA OneOfTwo ==
  ASSUME NEW S, NEW p \in Seq(S), NEW q \in Seq(S),
         Len(p) = 2, Len(q) = 1, q[1] = p[1]
  PROVE  SubSeq(p, 1, 1) = q
<1> DEFINE z == SubSeq(p, 1, 1)
<1>1. z \in Seq(S) /\ Len(z) = 1 /\ z[1] = p[1]
  OBVIOUS
<1> HIDE DEF z
<1>2. z = q
  BY <1>1
<1> QED
  BY <1>2 DEF z

\* MkdirAll makes the dump dir, too.
LEMMA ParentsOfItself ==
  ASSUME NEW r, PlainRef(r)
  PROVE  RelDumpDir(r) \in Parents(RelDumpDir(r))
<1> DEFINE d == RelDumpDir(r)
<1>1. d \in Seq(Text) /\ Len(d) \in Nat \ {0}
  <2>1. d \in Seq(Text) /\ Len(d) = Len(r.Path) + 3 /\ Len(r.Path) \in Nat
    BY DumpDirShape
  <2> HIDE DEF d
  <2> QED
    BY <2>1
<1> HIDE DEF d
<1>2. d = SubSeq(d, 1, Len(d)) /\ Len(d) \in 1..Len(d)
  BY <1>1
<1> QED
  BY <1>2 DEF Parents, d

\* Writing the index.json of q leaves that of others alone.
LEMMA WritesKeeps ==
  ASSUME DoneInv, NEW q, PlainRef(q), Writes(RelDumpDir(q), q), NEW r \in done
  PROVE  <<RelDumpDir(r), r>> \in index'
<1>1. PlainRef(r) /\ <<RelDumpDir(r), r>> \in index
  BY DEF DoneInv
<1> DEFINE e == RelDumpDir(q)
<1>2. e = RelDumpDir(r) => r = q
  BY <1>1, DumpDirsApart
<1> DEFINE p == <<RelDumpDir(r), r>>
<1>3. p[1] = RelDumpDir(r) /\ p \in index
  BY <1>1
<1> HIDE DEF p
<1>4. CASE e = RelDumpDir(r)
  <2>1. p = <<e, q>>
    BY <1>2, <1>4 DEF p
  <2> QED
    BY <2>1 DEF Writes, p
<1>5. CASE e # RelDumpDir(r)
  <2>1. p \in {x \in index : x[1] # e}
    BY <1>3, <1>5
  <2> QED
    BY <2>1 DEF Writes, p
<1> QED
  BY <1>4, <1>5

\* Nothing is done in a new base dir.
LEMMA DoneInit == Init => DoneInv
BY DEF Init, DoneInv

\* What is done stays in its dir, whatever is dumped and mirrored next.
LEMMA DoneNext ==
  ASSUME DoneInv, [Next]_vars
  PROVE  DoneInv'
<1>1. dirs \subseteq dirs'
  BY DEF Next, vars, EnsureLayout, PutBlobs, Dump, Mirror, LoadImage
<1>2. ASSUME UNCHANGED <<index, done>>
      PROVE  DoneInv'
  BY <1>1, <1>2 DEF DoneInv
<1>3. ASSUME NEW s \in Typed, Parse(s) # NoRef, SkopeoTakes(Parse(s)),
             Parents(RelDumpDir(Parse(s))) \subseteq dirs',
             Writes(RelDumpDir(Parse(s)), Parse(s)), done' = done \cup {Parse(s)}
      PROVE  DoneInv'
  <2> DEFINE q == Parse(s)
  <2>1. PlainRef(q)
    BY <1>3, TakenIsPlain
  <2>2. RelDumpDir(q) \in dirs'
    BY <1>3, <2>1, ParentsOfItself
  <2> HIDE DEF q
  <2>3. <<RelDumpDir(q), q>> \in index'
    BY <1>3 DEF Writes, q
  <2>4. ASSUME NEW r \in done
        PROVE  PlainRef(r) /\ RelDumpDir(r) \in dirs' /\ <<RelDumpDir(r), r>> \in index'
    <3>1. PlainRef(r) /\ RelDumpDir(r) \in dirs'
      BY <1>1 DEF DoneInv
    <3> QED
      BY <1>3, <2>1, <3>1, WritesKeeps DEF q
  <2> QED
    BY <1>3, <2>1, <2>2, <2>3, <2>4 DEF DoneInv, q
<1>4. CASE EnsureLayout
  BY <1>2, <1>4 DEF EnsureLayout
<1>5. CASE PutBlobs
  BY <1>2, <1>5 DEF PutBlobs
<1>6. ASSUME NEW s \in Typed, Dump(s)
      PROVE  DoneInv'
  <2> DEFINE r == Parse(s)
             d == RelDumpDir(r)
  <2>1. CASE UNCHANGED <<index, done>>
    BY <1>2, <2>1
  <2>2. CASE /\ r # NoRef /\ SkopeoTakes(r)
             /\ dirs' = dirs \cup Parents(d)
             /\ Writes(d, r) /\ done' = done \cup {r}
    BY <1>3, <2>2
  <2> QED
    BY <1>6, <2>1, <2>2 DEF Dump
<1>7. ASSUME NEW s \in Typed, Mirror(s)
      PROVE  DoneInv'
  <2> DEFINE r == Parse(s)
             d == RelDumpDir(r)
  <2>1. CASE UNCHANGED <<index, done>>
    BY <1>2, <2>1
  <2>2. CASE Writes(d, r) /\ done' = done \cup {r}
    <3>1. /\ r # NoRef /\ SkopeoTakes(r)
          /\ dirs' = dirs \cup Parents(d) \cup {<<<<"__temp__">>>>}
      BY <1>7 DEF Mirror
    <3> QED
      BY <1>3, <2>2, <3>1
  <2> QED
    BY <1>7, <2>1, <2>2 DEF Mirror
<1>8. ASSUME NEW r \in done, LoadImage(r)
      PROVE  DoneInv'
  BY <1>2, <1>8 DEF LoadImage
<1>9. CASE UNCHANGED vars
  BY <1>2, <1>9 DEF vars
<1> QED
  BY <1>4, <1>5, <1>6, <1>7, <1>8, <1>9 DEF Next

\* An image that was brought in has its dir, and its index.json in there.
LEMMA DoneAlways == Spec => []DoneInv
<1>1. Init => DoneInv
  BY DoneInit
<1>2. DoneInv /\ [Next]_vars => DoneInv'
  BY DoneNext
<1> QED
  BY <1>1, <1>2, PTL DEF Spec

\* Every image brought into the base dir is found by the walk, as the reference it
\* was brought for: parseDumpDirRel undoes RelDumpDir, whatever the reference.
THEOREM ImagesAreListed == Spec => []DumpsAreListed
<1>1. DoneInv => DumpsAreListed
  <2> SUFFICES ASSUME DoneInv, NEW r \in done
               PROVE  RelDumpDir(r) \in walkDumpDirs /\ parseDumpDirRel(RelDumpDir(r)) = r
    BY DEF DumpsAreListed
  <2> DEFINE d == RelDumpDir(r)
             m == Len(r.Path)
  <2>1. PlainRef(r) /\ d \in dirs
    BY DEF DoneInv
  <2>2. parseDumpDirRel(d) = r
    BY <2>1, ReadBack
  <2>3. /\ m \in Nat \ {0} /\ Len(d) = m + 3 /\ d[1] = r.Host
        /\ d[m + 2] \in ReservedSegments
    BY <2>1, DumpDirShape DEF ReservedSegments
  <2>4. r.Host # <<"share">>
    BY <2>1 DEF PlainRef, WellFormed
  <2>5. \A n \in 2..(Len(d) - 1) : d[n] \in ReservedSegments <=> n = Len(d) - 1
    BY <2>1, OneMarker
  <2> HIDE DEF d, m
  <2>6. Marked(d, Len(d) - 1)
    BY <2>3 DEF Marked
  <2>7. \A n \in 1..(Len(d) - 2) : ~Marked(d, n)
    BY <2>3, <2>5 DEF Marked
  <2> QED
    BY <2>1, <2>2, <2>3, <2>4, <2>6, <2>7 DEF walkDumpDirs, d
<1> QED
  BY <1>1, DoneAlways, PTL

\* An image brought in stays in its tag dir, and no other ever takes its place.
THEOREM StaysInItsDir == Spec => []EachInItsDir
<1>1. DoneInv => EachInItsDir
  BY DEF DoneInv, EachInItsDir
<1> QED
  BY <1>1, DoneAlways, PTL

\* The dirs of the base dir that are no part of a dump dir.
OwnDirs == {RelSharePath, RelBlobDir, <<<<"__temp__">>>>}

\* All dirs are made by a command, or are the program's own.
DirsInv ==
  \A d \in dirs :
    \/ d \in OwnDirs
    \/ \E r \in asked : Canonical(r) /\ d \in Parents(RelDumpDir(r))

\* A dir above a dir is made with it.
LEMMA ParentsShape ==
  ASSUME NEW d, Len(d) \in Nat, d \in Seq(Text), NEW p \in Parents(d)
  PROVE  /\ p \in Seq(Text) /\ Len(p) \in 1..Len(d)
         /\ \A j \in 1..Len(p) : p[j] = d[j]
<1>1. PICK n \in 1..Len(d) : p = SubSeq(d, 1, n)
  BY DEF Parents
<1> QED
  BY <1>1

\* A dir made half has the beginnings of the whole.
LEMMA ParentsOfParent ==
  ASSUME NEW d \in Seq(Text), NEW n \in 1..Len(d)
  PROVE  Parents(SubSeq(d, 1, n)) \subseteq Parents(d)
<1> DEFINE e == SubSeq(d, 1, n)
<1>1. e \in Seq(Text) /\ Len(e) = n /\ \A k \in 1..n : SubSeq(e, 1, k) = SubSeq(d, 1, k)
  OBVIOUS
<1>2. \A k \in 1..n : k \in 1..Len(d)
  OBVIOUS
<1> HIDE DEF e
<1> QED
  BY <1>1, <1>2 DEF Parents, e

\* What Clean keeps of a path.
CleanStep ==
  [seg \in Text |-> [acc \in Seq(Text) |->
     IF seg = <<".">> THEN acc
     ELSE IF seg = <<"..">> /\ acc # <<>> /\ Last(acc) # <<"..">> THEN Front(acc)
     ELSE Append(acc, seg)]]

\* CleanDots is a loop of these steps.
LEMMA CleanSteps ==
  /\ CleanStep \in [Text -> [Seq(Text) -> Seq(Text)]]
  /\ \A p : CleanDots(p) = FoldText(CleanStep, <<>>, p)
<1>1. ASSUME NEW acc \in Seq(Text), acc # <<>>
      PROVE  Front(acc) \in Seq(Text)
  BY <1>1, LastAppended
<1>2. CleanStep \in [Text -> [Seq(Text) -> Seq(Text)]]
  BY <1>1 DEF CleanStep
<1> QED
  BY <1>2 DEF CleanStep, CleanDots, Text

\* CleanDots of a path with one segment more.
LEMMA CleanDotsAppend ==
  ASSUME NEW p \in Seq(Text), NEW seg \in Text
  PROVE  /\ CleanDots(<<>>) = <<>>
         /\ CleanDots(p) \in Seq(Text)
         /\ CleanDots(Append(p, seg)) = CleanStep[seg][CleanDots(p)]
<1> DEFINE A == Seq(Text)
<1>1. CleanStep \in [Text -> [A -> A]] /\ <<>> \in A
      /\ \A q : CleanDots(q) = FoldText(CleanStep, <<>>, q)
  BY CleanSteps
<1> HIDE DEF A
<1>2. FoldText(CleanStep, <<>>, <<>>) = <<>>
  BY <1>1, FoldTextEmpty
<1>3. FoldText(CleanStep, <<>>, p) \in A
      /\ FoldText(CleanStep, <<>>, Append(p, seg)) = CleanStep[seg][FoldText(CleanStep, <<>>, p)]
  BY <1>1, FoldTextAppend
<1> QED
  BY <1>1, <1>2, <1>3 DEF A

\* None of the segments is reserved.
Unreserved(p) == \A i \in DOMAIN p : p[i] \notin ReservedSegments

\* One segment more or less.
LEMMA UnreservedAppend ==
  ASSUME NEW p \in Seq(Text), NEW seg \in Text
  PROVE  /\ Unreserved(Append(p, seg)) <=> Unreserved(p) /\ seg \notin ReservedSegments
         /\ p # <<>> /\ Unreserved(p) => Unreserved(Front(p))
<1> DEFINE q == Append(p, seg)
<1>1. /\ Len(p) \in Nat /\ DOMAIN p = 1..Len(p) /\ DOMAIN q = 1..(Len(p) + 1)
      /\ q[Len(p) + 1] = seg /\ \A i \in 1..Len(p) : q[i] = p[i]
  OBVIOUS
<1> HIDE DEF q
<1>2. Unreserved(q) <=> Unreserved(p) /\ seg \notin ReservedSegments
  BY <1>1 DEF Unreserved
<1>3. ASSUME p # <<>>, Unreserved(p)
      PROVE  Unreserved(Front(p))
  <2> DEFINE f == Front(p)
  <2>1. DOMAIN f = 1..(Len(p) - 1) /\ \A i \in 1..(Len(p) - 1) : f[i] = p[i]
    BY <1>3 DEF Front
  <2> HIDE DEF f
  <2>2. Unreserved(f)
    BY <1>1, <1>3, <2>1 DEF Unreserved
  <2> QED  BY <2>2 DEF f
<1> QED
  BY <1>2, <1>3 DEF q

\* Clean makes no marker.
LEMMA CleanUnreserved ==
  ASSUME NEW p \in Seq(Text), Unreserved(p)
  PROVE  CleanDots(p) \in Seq(Text) /\ Unreserved(CleanDots(p))
<1> DEFINE S == {q \in Seq(Text) : Unreserved(q) => Unreserved(CleanDots(q))}
<1>0. <<>> \in Text
  BY DEF Text
<1>1. <<>> \in S
  <2> DEFINE e == <<>>
  <2>1. e \in Seq(Text) /\ Unreserved(e)
    BY DEF Unreserved
  <2>2. CleanDots(e) = e
    <3>1. \A seg \in Text, q \in Seq(Text) : CleanDots(e) = e
      BY CleanDotsAppend
    <3> HIDE DEF e
    <3> QED  BY <1>0, <2>1, <3>1
  <2> HIDE DEF e
  <2>3. e \in S
    BY <2>1, <2>2
  <2> QED  BY <2>3 DEF e
<1>2. ASSUME NEW q \in Seq(Text), NEW seg \in Text, q \in S
      PROVE  Append(q, seg) \in S
  <2> SUFFICES ASSUME Unreserved(Append(q, seg))
               PROVE  Unreserved(CleanDots(Append(q, seg)))
    <3>1. Append(q, seg) \in Seq(Text)
      OBVIOUS
    <3> QED  BY <3>1
  <2> DEFINE a == CleanDots(q)
  <2>1. a \in Seq(Text) /\ CleanDots(Append(q, seg)) = CleanStep[seg][a]
    BY CleanDotsAppend
  <2>2. Unreserved(a) /\ seg \notin ReservedSegments
    BY <1>2, UnreservedAppend
  <2> HIDE DEF a
  <2>3. Unreserved(Append(a, seg)) /\ (a # <<>> => Unreserved(Front(a)))
    BY <2>1, <2>2, UnreservedAppend
  <2> QED
    BY <2>1, <2>2, <2>3 DEF CleanStep
<1> HIDE DEF S
<1>3. \A q \in Seq(Text) : q \in S
  BY <1>1, <1>2, Sequences
<1>4. p \in S
  BY <1>3
<1>5. Unreserved(CleanDots(p))
  BY <1>4 DEF S
<1>6. CleanDots(p) \in Seq(Text)
  <2>1. \A seg \in Text : CleanDots(p) \in Seq(Text)
    BY CleanDotsAppend
  <2> QED
    BY <1>0, <2>1
<1> QED
  BY <1>5, <1>6

\* Whatever dots a reference has, no segment of its dump dir but the last two is a marker.
LEMMA DumpDirOfAny ==
  ASSUME NEW r, Canonical(r)
  PROVE  LET d == RelDumpDir(r)
         IN d \in Seq(Text) /\ \A n \in 1..(Len(d) - 2) : d[n] \notin ReservedSegments
<1> DEFINE q == <<r.Host>> \o r.Path
           mark == IF IsTagged(r) THEN <<"_tags">> ELSE <<"_digests">>
           leaf == IF IsTagged(r) THEN r.Tag ELSE r.Digest
           d == RelDumpDir(r)
           p == q \o <<mark, leaf>>
           Good(e) == e \in Seq(Text) /\ \A n \in 1..(Len(e) - 2) : e[n] \notin ReservedSegments
<1>1. r.Host \in Text /\ r.Path \in Seq(Text) /\ leaf \in Text /\ mark \in Text
      /\ mark # <<".">> /\ mark # <<"..">>
  BY WordsAssumption, SMTT(30) DEF Canonical, WellFormed, FixedWords, Text
<1>2. q \in Seq(Text) /\ Unreserved(q)
  <2>1. r.Host \notin ReservedSegments
    BY DottedAssumption DEF Canonical, looksLikeHost, ReservedSegments, FixedWords
  <2>2. \A i \in 1..Len(r.Path) : r.Path[i] \notin ReservedSegments
    BY <1>1 DEF Canonical, WellFormed
  <2>3. /\ q \in Seq(Text) /\ Len(q) = Len(r.Path) + 1 /\ q[1] = r.Host /\ Len(r.Path) \in Nat
        /\ \A i \in 1..Len(r.Path) : q[i + 1] = r.Path[i]
    BY <1>1, OneBefore
  <2> HIDE DEF q
  <2>4. \A i \in DOMAIN q : i = 1 \/ (i - 1 \in 1..Len(r.Path) /\ (i - 1) + 1 = i)
    BY <2>3, SMTT(30)
  <2> QED
    BY <2>1, <2>2, <2>3, <2>4 DEF Unreserved
<1> HIDE DEF mark, leaf
<1>3. d = Clean(p)
  BY DEF RelDumpDir, RelTagPath, RelDigestPath, mark, leaf
<1> HIDE DEF q, d
<1>4. ASSUME NEW e \in Seq(Text), Unreserved(e)
      PROVE  /\ Good(e) /\ Good(Append(e, mark)) /\ Good(Append(Append(e, mark), leaf))
  BY <1>1, <1>4 DEF Unreserved
<1>5. p = Append(Append(q, mark), leaf)
  BY <1>1, <1>2
<1> HIDE DEF p
<1>6. Good(p)
  <2> HIDE DEF Good
  <2> QED  BY <1>2, <1>4, <1>5
<1>7. Good(CleanDots(p))
  <2> DEFINE a == CleanDots(q)
             b == Append(a, mark)
  <2>1. a \in Seq(Text) /\ Unreserved(a)
    BY <1>2, CleanUnreserved
  <2>2. CleanDots(Append(q, mark)) = b
    <3>1. CleanDots(Append(q, mark)) = CleanStep[mark][a]
      BY <1>1, <1>2, CleanDotsAppend
    <3> HIDE DEF a
    <3> QED  BY <1>1, <2>1, <3>1 DEF CleanStep
  <2> HIDE DEF a
  <2>3. /\ b \in Seq(Text) /\ b # <<>> /\ Last(b) = mark /\ Front(b) = a
    <3>1. b \in Seq(Text) /\ b # <<>> /\ Last(b) = mark
      BY <1>1, <2>1 DEF Last
    <3>2. SubSeq(b, 1, Len(b) - 1) = a
      BY <1>1, <2>1
    <3> QED  BY <3>1, <3>2 DEF Front
  <2>4. CleanDots(p) = CleanStep[leaf][b]
    <3>1. Append(q, mark) \in Seq(Text)
      BY <1>1, <1>2
    <3> HIDE DEF b
    <3> QED  BY <1>1, <1>5, <2>2, <3>1, CleanDotsAppend
  <2>5. CleanDots(p) \in {a, b, Append(b, leaf)}
    <3> HIDE DEF b
    <3> QED  BY <1>1, <2>3, <2>4 DEF CleanStep
  <2>6. Good(a) /\ Good(b) /\ Good(Append(b, leaf))
    <3> HIDE DEF Good
    <3> QED  BY <1>4, <2>1
  <2> HIDE DEF b, Good
  <2> QED  BY <2>5, <2>6
<1>8. d \in {p, CleanDots(p)}
  BY <1>3 DEF Clean
<1> HIDE DEF Good
<1>9. Good(d)
  BY <1>6, <1>7, <1>8
<1> QED
  BY <1>9 DEF Good, d

\* A new base dir is empty.
LEMMA DirsInit == Init => DirsInv
BY DEF Init, DirsInv

\* Every command makes its own dirs only, also when it fails half way.
LEMMA DirsNext ==
  ASSUME DirsInv, [Next]_vars
  PROVE  DirsInv'
<1> DEFINE Known(p) ==
      \/ p \in OwnDirs
      \/ \E r \in asked' : Canonical(r) /\ p \in Parents(RelDumpDir(r))
<1>1. asked \subseteq asked'
  BY DEF Next, vars, EnsureLayout, PutBlobs, Dump, Mirror, LoadImage
<1>2. \A p \in dirs : Known(p)
  BY <1>1 DEF DirsInv
<1>3. ASSUME \A p \in dirs' \ dirs : Known(p)
      PROVE  DirsInv'
  <2>1. \A p \in dirs' : Known(p)
    BY <1>2, <1>3
  <2> QED
    BY <2>1 DEF DirsInv
<1>4. CASE EnsureLayout
  BY <1>3, <1>4 DEF EnsureLayout, OwnDirs
<1>5. CASE PutBlobs
  <2> DEFINE Names == {<<"share">>, <<"sha256">>}
  <2>1. Parents(RelBlobDir) \subseteq OwnDirs
    <3>1. /\ RelBlobDir \in Seq(Names) /\ RelSharePath \in Seq(Names)
          /\ Len(RelBlobDir) = 2 /\ Len(RelSharePath) = 1 /\ RelSharePath[1] = RelBlobDir[1]
      BY DEF RelBlobDir, RelSharePath
    <3> HIDE DEF Names
    <3>2. SubSeq(RelBlobDir, 1, 1) = RelSharePath
      BY <3>1, OneOfTwo
    <3>3. SubSeq(RelBlobDir, 1, 2) = RelBlobDir
      BY <3>1, WholePath
    <3>4. 1..2 = {1, 2}
      OBVIOUS
    <3> QED
      BY <3>1, <3>2, <3>3, <3>4 DEF Parents, OwnDirs
  <2> QED
    BY <1>3, <1>5, <2>1 DEF PutBlobs
<1>6. ASSUME NEW s \in Typed, Parse(s) # NoRef, asked' = asked \cup {Parse(s)}
      PROVE  Canonical(Parse(s)) /\ Parse(s) \in asked'
  BY <1>6, ParseShape, TypedAssumption DEF Text
<1>7. ASSUME NEW s \in Typed, Dump(s)
      PROVE  DirsInv'
  <2> DEFINE r == Parse(s)
             d == RelDumpDir(r)
  <2>1. Canonical(r) /\ r \in asked'
    BY <1>6, <1>7 DEF Dump
  <2>2. CASE dirs' = dirs \cup Parents(d)
    <3> HIDE DEF r
    <3> QED
      BY <1>3, <2>1, <2>2
  <2>3. ASSUME NEW n \in 1..Len(d), dirs' = dirs \cup Parents(SubSeq(d, 1, n))
        PROVE  DirsInv'
    <3>1. d \in Seq(Text)
      BY <2>1, DumpDirOfAny
    <3>2. Parents(SubSeq(d, 1, n)) \subseteq Parents(d)
      BY <3>1, ParentsOfParent
    <3> HIDE DEF r
    <3> QED
      BY <1>3, <2>1, <2>3, <3>2
  <2> QED
    BY <1>7, <2>2, <2>3 DEF Dump
<1>8. ASSUME NEW s \in Typed, Mirror(s)
      PROVE  DirsInv'
  <2> DEFINE r == Parse(s)
             d == RelDumpDir(r)
  <2>1. Canonical(r) /\ r \in asked'
    BY <1>6, <1>8 DEF Mirror
  <2>2. dirs' = dirs \cup Parents(d) \cup {<<<<"__temp__">>>>}
    BY <1>8 DEF Mirror
  <2> HIDE DEF r
  <2> QED
    BY <1>3, <2>1, <2>2 DEF OwnDirs
<1>9. ASSUME UNCHANGED dirs
      PROVE  DirsInv'
  BY <1>3, <1>9
<1> QED
  BY <1>4, <1>5, <1>7, <1>8, <1>9 DEF Next, LoadImage, vars

\* The walk lists the dump dirs of what was asked for and nothing else: not the blob
\* pool, not the temp dir, and nothing that a failed command has left, whatever dots the
\* references have.
THEOREM NothingElseIsListed == Spec => []ListedWereAsked
<1>1. Init => DirsInv
  BY DirsInit
<1>2. DirsInv /\ [Next]_vars => DirsInv'
  BY DirsNext
<1>3. DirsInv => ListedWereAsked
  <2> SUFFICES ASSUME DirsInv, NEW p \in walkDumpDirs
               PROVE  \E r \in asked : p = RelDumpDir(r)
    BY DEF ListedWereAsked
  <2>1. p \in dirs /\ p[1] # <<"share">> /\ Marked(p, Len(p) - 1)
    BY DEF walkDumpDirs
  <2>2. p \notin OwnDirs
    BY <2>1 DEF OwnDirs, RelSharePath, RelBlobDir, Marked
  <2>3. PICK r \in asked : Canonical(r) /\ p \in Parents(RelDumpDir(r))
    BY <2>1, <2>2 DEF DirsInv
  <2> DEFINE d == RelDumpDir(r)
  <2>4. d \in Seq(Text) /\ \A n \in 1..(Len(d) - 2) : d[n] \notin ReservedSegments
    BY <2>3, DumpDirOfAny
  <2> HIDE DEF d
  <2>5. Len(d) \in Nat
    BY <2>4
  <2>6. p \in Seq(Text) /\ Len(p) \in 1..Len(d) /\ \A j \in 1..Len(p) : p[j] = d[j]
    BY <2>3, <2>4, <2>5, ParentsShape DEF d
  <2>7. Len(p) = Len(d)
    <3>1. Len(p) - 1 \in 1..Len(p) /\ d[Len(p) - 1] \in ReservedSegments
      BY <2>1, <2>5, <2>6 DEF Marked
    <3> QED
      BY <2>4, <2>5, <2>6, <3>1
  <2>8. p = d
    BY <2>4, <2>6, <2>7
  <2> QED
    BY <2>8 DEF d
<1> QED
  BY <1>1, <1>2, <1>3, PTL DEF Spec

\* Every spelling of an image is read as a reference that is read back from its printed
\* form, whatever the user types.
THEOREM PrintedReadBack == Spec => []PrintedIsReadBack
<1>1. Init => PrintedIsReadBack
  BY DEF Init, PrintedIsReadBack
<1>2. ASSUME NEW s \in Typed, Parse(s) # NoRef
      PROVE  Parse(String(Parse(s))) = Parse(s)
  <2>1. Canonical(Parse(s))
    BY <1>2, ParseShape, TypedAssumption DEF Text
  <2> QED
    BY <2>1, Reparsed
<1>3. ASSUME [Next]_vars
      PROVE  asked' = asked \/ \E s \in Typed : Parse(s) # NoRef /\ asked' = asked \cup {Parse(s)}
  BY <1>3 DEF Next, vars, EnsureLayout, PutBlobs, Dump, Mirror, LoadImage
<1>4. PrintedIsReadBack /\ [Next]_vars => PrintedIsReadBack'
  BY <1>2, <1>3 DEF PrintedIsReadBack
<1> QED
  BY <1>1, <1>4, PTL DEF Spec

\* The type invariant of Layout: every index.json lies in a dir there is, and is that
\* of a reference a command was run for.
THEOREM LayoutTypes == Spec => []TypeOK
<1>1. Init => TypeOK
  BY StepsAssumption DEF Init, TypeOK
<1>2. ASSUME TypeOK, [Next]_vars
      PROVE  TypeOK'
  <2>1. ASSUME NEW d, NEW p \in Parents(d)
        PROVE  Len(p) > 0
    BY <2>1 DEF Parents
  <2>2. CASE EnsureLayout
    BY <1>2, <2>2 DEF EnsureLayout, RelSharePath, TypeOK
  <2>3. CASE PutBlobs
    BY <1>2, <2>1, <2>3 DEF PutBlobs, TypeOK
  <2>5. ASSUME NEW s \in Typed, Dump(s)
        PROVE  TypeOK'
    <3> DEFINE r == Parse(s)
               d == RelDumpDir(r)
    <3>1. /\ Command /\ r # NoRef /\ asked' = asked \cup {r}
      BY <2>5 DEF Dump
    <3>2. steps' \in 0..MaxSteps
      BY <1>2, <3>1, StepsAssumption DEF Command, TypeOK
    <3>3. CASE /\ SkopeoTakes(r)
               /\ dirs' = dirs \cup Parents(d)
               /\ Writes(d, r)
               /\ done' = done \cup {r}
      <4>1. PlainRef(r)
        BY <3>1, <3>3, TakenIsPlain
      <4>2. d \in dirs'
        BY <3>3, <4>1, ParentsOfItself
      <4> HIDE DEF r, d
      <4>3. \A p \in dirs' : Len(p) > 0
        BY <1>2, <2>1, <3>3 DEF TypeOK
      <4>4. index' \subseteq dirs' \X asked'
        BY <1>2, <3>1, <3>3, <4>2 DEF TypeOK, Writes
      <4> QED
        BY <1>2, <3>1, <3>2, <3>3, <4>3, <4>4 DEF TypeOK
    <3>4. ASSUME NEW n \in 1..Len(d), dirs' = dirs \cup Parents(SubSeq(d, 1, n)),
                 UNCHANGED <<index, done>>
          PROVE  TypeOK'
      <4> HIDE DEF r, d
      <4>1. \A p \in dirs' : Len(p) > 0
        BY <1>2, <2>1, <3>4 DEF TypeOK
      <4> QED
        BY <1>2, <3>1, <3>2, <3>4, <4>1 DEF TypeOK
    <3> QED
      BY <2>5, <3>3, <3>4 DEF Dump
  <2>6. ASSUME NEW s \in Typed, Mirror(s)
        PROVE  TypeOK'
    <3> DEFINE r == Parse(s)
               d == RelDumpDir(r)
    <3>1. /\ Command /\ r # NoRef /\ SkopeoTakes(r) /\ asked' = asked \cup {r}
          /\ dirs' = dirs \cup Parents(d) \cup {<<<<"__temp__">>>>}
          /\ \/ Writes(d, r) /\ done' = done \cup {r}
             \/ UNCHANGED <<index, done>>
      BY <2>6 DEF Mirror
    <3>2. steps' \in 0..MaxSteps
      BY <1>2, <3>1, StepsAssumption DEF Command, TypeOK
    <3>3. PlainRef(r)
      BY <3>1, TakenIsPlain
    <3>4. d \in dirs'
      BY <3>1, <3>3, ParentsOfItself
    <3> HIDE DEF r, d
    <3>5. \A p \in dirs' : Len(p) > 0
      BY <1>2, <2>1, <3>1 DEF TypeOK
    <3>6. index' \subseteq dirs' \X asked'
      BY <1>2, <3>1, <3>4 DEF TypeOK, Writes
    <3> QED
      BY <1>2, <3>1, <3>2, <3>5, <3>6 DEF TypeOK
  <2>7. ASSUME NEW r \in done, LoadImage(r)
        PROVE  TypeOK'
    BY <1>2, <2>7, StepsAssumption DEF LoadImage, Command, TypeOK
  <2>8. CASE UNCHANGED vars
    BY <1>2, <2>8 DEF vars, TypeOK
  <2> QED
    BY <1>2, <2>2, <2>3, <2>5, <2>6, <2>7, <2>8 DEF Next
<1> QED
  BY <1>1, <1>2, PTL DEF Spec

-----------------------------------------------------------------------------
(* The line for the shell of the peer.                                     *)

\* What f makes of the elements of q, one after the other.
Spread(f, q) == FlattenSeq([k \in DOMAIN q |-> f[q[k]]])
Grows(f, q, x) == Spread(f, Append(q, x)) = Spread(f, q) \o f[x]

\* One element more is spread behind the others.
LEMMA SpreadAppend ==
  ASSUME NEW D, NEW E, NEW f \in [D -> Seq(E)], NEW q \in Seq(D), NEW x \in D
  PROVE  /\ Spread(f, <<>>) = <<>>
         /\ Spread(f, q) \in Seq(E)
         /\ Grows(f, q, x)
<1> DEFINE A == Seq(E)
           t == Append(q, x)
           a == [k \in DOMAIN q |-> f[q[k]]]
           b == [k \in DOMAIN t |-> f[t[k]]]
           y == f[x]
           n == Len(q)
<1>1. /\ n \in Nat /\ DOMAIN q = 1..n /\ \A k \in 1..n : q[k] \in D
      /\ DOMAIN t = 1..(n + 1) /\ t[n + 1] = x /\ \A k \in 1..n : t[k] = q[k]
  OBVIOUS
<1> HIDE DEF t, n
<1>2. /\ a \in Seq(A) /\ Len(a) = n /\ y \in A
      /\ b \in Seq(A) /\ Len(b) = n + 1
      /\ b[n + 1] = y /\ \A k \in 1..n : b[k] = a[k]
  <2>1. \A z \in D : f[z] \in A
    OBVIOUS
  <2> HIDE DEF A
  <2>2. a \in Seq(A) /\ Len(a) = n /\ y \in A
    BY <1>1, <2>1
  <2>3. b \in Seq(A) /\ Len(b) = n + 1
    BY <1>1, <2>1
  <2>4. b[n + 1] = y /\ \A k \in 1..n : b[k] = a[k]
    BY <1>1
  <2> QED  BY <2>2, <2>3, <2>4
<1>3. Spread(f, <<>>) = <<>>
  BY DEF Spread, FlattenSeq
<1> HIDE DEF a, b, y, A
<1>4. b = Append(a, y)
  <2>1. n \in Nat
    BY <1>1
  <2> QED
    BY <1>2, <2>1
<1>5. FlattenSeq(a) \in Seq(E) /\ FlattenSeq(Append(a, y)) = FlattenSeq(a) \o y
  BY <1>2, FlattenAppend DEF A
<1> QED
  BY <1>3, <1>4, <1>5 DEF Grows, Spread, a, b, t, y

\* The reader of the shell.
ShStep == [c \in Atoms |-> [st \in ShStates |-> ShRead(st, c)]]
St(w, u, m) == [words |-> w, word |-> u, mode |-> m]

\* The shell is always in one of its states.
LEMMA ShReadTyped ==
  ASSUME NEW st \in ShStates, NEW c \in Atoms
  PROVE  ShRead(st, c) \in ShStates
<1>0. "expanded" \in Atoms
  BY AtomsAssumption DEF FixedAtoms
<1>1. /\ st.words \in Seq(Seq(Atoms)) /\ st.word \in Seq(Atoms)
      /\ Append(st.words, st.word) \in Seq(Seq(Atoms))
      /\ Append(st.word, c) \in Seq(Atoms) /\ Append(st.word, "expanded") \in Seq(Atoms)
      /\ <<>> \in Seq(Atoms)
  BY <1>0 DEF ShStates
<1> QED
  BY <1>1 DEF ShRead, ShStates

\* The shell begins between words, and reads one atom after the other.
LEMMA ShStateAppend ==
  ASSUME NEW s \in Seq(Atoms), NEW c \in Atoms
  PROVE  /\ ShState(<<>>) = St(<<>>, <<>>, "gap")
         /\ ShState(Append(s, c)) = ShRead(ShState(s), c)
<1> DEFINE A == ShStates
           start == St(<<>>, <<>>, "gap")
<1>1. ShStep \in [Atoms -> [A -> A]]
  BY ShReadTyped DEF ShStep
<1>2. start \in A
  BY DEF St, ShStates
<1>3. \A t : ShState(t) = FoldText(ShStep, start, t)
  BY DEF ShState, ShStep, St
<1> HIDE DEF A, start
<1>4. FoldText(ShStep, start, <<>>) = start
  BY <1>1, <1>2, FoldTextEmpty
<1>5. /\ FoldText(ShStep, start, s) \in A
      /\ FoldText(ShStep, start, Append(s, c)) = ShStep[c][FoldText(ShStep, start, s)]
  BY <1>1, <1>2, FoldTextAppend
<1>6. \A st \in A : ShStep[c][st] = ShRead(st, c)
  BY DEF ShStep, A
<1> QED
  BY <1>3, <1>4, <1>5, <1>6 DEF start

\* How it reads what shellQuote writes.
LEMMA ShReads ==
  ASSUME NEW w \in Seq(Seq(Atoms)), NEW u \in Seq(Atoms)
  PROVE  /\ ShRead(St(w, u, "word"), " ") = St(Append(w, u), <<>>, "gap")
         /\ ShRead(St(w, u, "gap"), "'") = St(w, u, "quoted")
         /\ ShRead(St(w, u, "word"), "'") = St(w, u, "quoted")
         /\ ShRead(St(w, u, "quoted"), "'") = St(w, u, "word")
         /\ ShRead(St(w, u, "word"), "\\") = St(w, u, "escaped")
         /\ ShRead(St(w, u, "escaped"), "'") = St(w, Append(u, "'"), "word")
         /\ \A c \in Atoms : c # "'" => ShRead(St(w, u, "quoted"), c) = St(w, Append(u, c), "quoted")
<1>1. ShRead(St(w, u, "word"), " ") = St(Append(w, u), <<>>, "gap")
  BY DEF ShRead, St
<1>2. ShRead(St(w, u, "gap"), "'") = St(w, u, "quoted")
  BY DEF ShRead, St
<1>3. ShRead(St(w, u, "word"), "'") = St(w, u, "quoted")
  BY DEF ShRead, St
<1>4. ShRead(St(w, u, "quoted"), "'") = St(w, u, "word")
  BY DEF ShRead, St
<1>5. ShRead(St(w, u, "word"), "\\") = St(w, u, "escaped")
  BY DEF ShRead, St
<1>6. ShRead(St(w, u, "escaped"), "'") = St(w, Append(u, "'"), "word")
  BY DEF ShRead, St
<1>7. \A c \in Atoms : c # "'" => ShRead(St(w, u, "quoted"), c) = St(w, Append(u, c), "quoted")
  BY DEF ShRead, St
<1> QED
  BY <1>1, <1>2, <1>3, <1>4, <1>5, <1>6, <1>7

\* A word in quotes, atom by atom.
Escaped == [x \in Atoms |-> IF x = "'" THEN <<"'", "\\", "'", "'">> ELSE <<x>>]

\* One atom more in quotes.
LEMMA QuotedAppend ==
  ASSUME NEW a \in Seq(Atoms), NEW x \in Atoms
  PROVE  /\ Quoted(<<>>) = <<>> /\ Quoted(a) \in Seq(Atoms)
         /\ Quoted(Append(a, x)) = Quoted(a) \o Escaped[x]
<1>1. Escaped \in [Atoms -> Seq(Atoms)]
  <2>1. "'" \in Atoms /\ "\\" \in Atoms
    BY AtomsAssumption DEF FixedAtoms
  <2>2. <<"'", "\\", "'", "'">> \in Seq(Atoms) /\ \A c \in Atoms : <<c>> \in Seq(Atoms)
    BY <2>1
  <2> QED
    BY <2>2 DEF Escaped
<1>2. ASSUME NEW b \in Seq(Atoms)
      PROVE  Quoted(b) = Spread(Escaped, b)
  <2>1. \A j \in DOMAIN b : b[j] \in Atoms
    OBVIOUS
  <2> QED
    BY <2>1 DEF Quoted, Spread, Escaped
<1>3. <<>> \in Seq(Atoms) /\ Append(a, x) \in Seq(Atoms)
  OBVIOUS
<1>4. /\ Spread(Escaped, <<>>) = <<>>
      /\ Spread(Escaped, a) \in Seq(Atoms)
      /\ Grows(Escaped, a, x)
  <2> HIDE DEF Escaped
  <2> QED  BY <1>1, SpreadAppend
<1> HIDE DEF Escaped
<1>5. Quoted(<<>>) = Spread(Escaped, <<>>)
  BY <1>2, <1>3
<1>6. Quoted(a) = Spread(Escaped, a)
  BY <1>2
<1>7. Quoted(Append(a, x)) = Spread(Escaped, Append(a, x))
  BY <1>2, <1>3
<1> QED
  BY <1>4, <1>5, <1>6, <1>7 DEF Grows

\* What shellQuote adds to a line are atoms.
LEMMA Marks == " " \in Atoms /\ "'" \in Atoms /\ "\\" \in Atoms
BY AtomsAssumption DEF FixedAtoms

\* One atom more, for a known state of the shell.
LEMMA ReadNext ==
  ASSUME NEW s \in Seq(Atoms), NEW c \in Atoms, NEW st, ShState(s) = st
  PROVE  Append(s, c) \in Seq(Atoms) /\ ShState(Append(s, c)) = ShRead(st, c)
BY ShStateAppend

\* Append and concatenation.
LEMMA AppendAcross ==
  ASSUME NEW s \in Seq(Atoms)
  PROVE  \A z \in Seq(Atoms), k \in Atoms :
           Append(z, k) \in Seq(Atoms) /\ s \o Append(z, k) = Append(s \o z, k)
<1> TAKE z \in Seq(Atoms), k \in Atoms
<1> DEFINE x == s \o Append(z, k)
           y == Append(s \o z, k)
<1>1. x \in Seq(Atoms) /\ y \in Seq(Atoms) /\ Len(x) = Len(y) /\ \A i \in 1..Len(x) : x[i] = y[i]
  OBVIOUS
<1> HIDE DEF x, y
<1>2. x = y
  BY <1>1
<1> QED
  BY <1>2 DEF x, y

\* The shell takes a word from its quotes as it was.
LEMMA ReadQuoted ==
  ASSUME NEW s \in Seq(Atoms), NEW w \in Seq(Seq(Atoms)), ShState(s) = St(w, <<>>, "quoted"),
         NEW a \in Seq(Atoms)
  PROVE  s \o Quoted(a) \in Seq(Atoms) /\ ShState(s \o Quoted(a)) = St(w, a, "quoted")
<1> DEFINE S == {b \in Seq(Atoms) : ShState(s \o Quoted(b)) = St(w, b, "quoted")}
<1>1. <<>> \in S
  <2>1. Quoted(<<>>) = <<>>
    BY Marks, QuotedAppend
  <2>2. s \o <<>> = s /\ <<>> \in Seq(Atoms)
    OBVIOUS
  <2> QED
    BY <2>1, <2>2
<1>2. ASSUME NEW b \in Seq(Atoms), NEW x \in Atoms, b \in S
      PROVE  Append(b, x) \in S
  <2> DEFINE q == Quoted(b)
             t == s \o q
             e == Escaped[x]
             v == Append(b, x)
  <2>1. q \in Seq(Atoms) /\ Quoted(v) = q \o e
    BY QuotedAppend
  <2>2. t \in Seq(Atoms)
    BY <2>1
  <2>3. v \in Seq(Atoms)
    OBVIOUS
  <2>4. ShState(t) = St(w, b, "quoted")
    BY <1>2
  <2>5. ASSUME x # "'"
        PROVE  s \o Quoted(v) = Append(t, x)
    <3>1. e = <<x>>
      BY <2>5 DEF Escaped
    <3> HIDE DEF e, v, q
    <3>2. s \o (q \o <<x>>) = Append(s \o q, x)
      BY <2>1
    <3> QED
      BY <2>1, <3>1, <3>2
  <2>6. ASSUME x = "'"
        PROVE  s \o Quoted(v) = Append(Append(Append(Append(t, "'"), "\\"), "'"), "'")
    <3>1. e = <<"'", "\\", "'", "'">>
      BY <2>6 DEF Escaped
    <3> HIDE DEF e, v, q
    <3>2. ASSUME NEW c \in Atoms, NEW d \in Atoms
          PROVE  s \o (q \o <<c, d, c, c>>) = Append(Append(Append(Append(s \o q, c), d), c), c)
      <4>1. \A z \in Seq(Atoms), k \in Atoms :
              Append(z, k) \in Seq(Atoms) /\ s \o Append(z, k) = Append(s \o z, k)
        BY AppendAcross
      <4>2. q \o <<c, d, c, c>> = Append(Append(Append(Append(q, c), d), c), c)
        BY <2>1, SMTT(30)
      <4> DEFINE q1 == Append(q, c)
                 q2 == Append(q1, d)
                 q3 == Append(q2, c)
      <4>3. q1 \in Seq(Atoms) /\ s \o q1 = Append(s \o q, c)
        BY <2>1, <4>1
      <4> HIDE DEF q1
      <4>4. q2 \in Seq(Atoms) /\ s \o q2 = Append(s \o q1, d)
        BY <4>1, <4>3
      <4> HIDE DEF q2
      <4>5. q3 \in Seq(Atoms) /\ s \o q3 = Append(s \o q2, c)
        BY <4>1, <4>4
      <4> HIDE DEF q3
      <4>6. s \o Append(q3, c) = Append(s \o q3, c)
        BY <4>1, <4>5
      <4>7. q \o <<c, d, c, c>> = Append(q3, c)
        BY <4>2 DEF q1, q2, q3
      <4>8. s \o q3 = Append(Append(Append(s \o q, c), d), c)
        BY <4>3, <4>4, <4>5, Zenon
      <4> QED
        BY <4>6, <4>7, <4>8, Zenon
    <3> QED
      BY <2>1, <3>1, <3>2, Marks, Zenon DEF t
  <2> HIDE DEF t, v
  <2>7. ShState(s \o Quoted(v)) = St(w, v, "quoted")
    <3>1. CASE x # "'"
      <4>1. ShState(Append(t, x)) = ShRead(St(w, b, "quoted"), x)
        BY <2>2, <2>4, ReadNext
      <4> QED
        BY <2>5, <3>1, <4>1, ShReads DEF v
    <3>2. CASE x = "'"
      <4> DEFINE t1 == Append(t, "'")
                 t2 == Append(t1, "\\")
                 t3 == Append(t2, "'")
                 t4 == Append(t3, "'")
      <4>1. t1 \in Seq(Atoms) /\ ShState(t1) = St(w, b, "word")
        <5>1. t1 \in Seq(Atoms) /\ ShState(t1) = ShRead(St(w, b, "quoted"), "'")
          BY <2>2, <2>4, ReadNext, Marks
        <5> QED
          BY <5>1, ShReads
      <4> HIDE DEF t1
      <4>2. t2 \in Seq(Atoms) /\ ShState(t2) = St(w, b, "escaped")
        <5>1. t2 \in Seq(Atoms) /\ ShState(t2) = ShRead(St(w, b, "word"), "\\")
          BY <4>1, ReadNext, Marks
        <5> QED
          BY <5>1, ShReads
      <4> HIDE DEF t2
      <4>3. t3 \in Seq(Atoms) /\ ShState(t3) = St(w, v, "word")
        <5>1. t3 \in Seq(Atoms) /\ ShState(t3) = ShRead(St(w, b, "escaped"), "'")
          BY <4>2, ReadNext, Marks
        <5>2. ShRead(St(w, b, "escaped"), "'") = St(w, v, "word")
          BY <3>2, ShReads DEF v
        <5> QED
          BY <5>1, <5>2
      <4> HIDE DEF t3
      <4>4. ShState(t4) = St(w, v, "quoted")
        <5>1. ShState(t4) = ShRead(St(w, v, "word"), "'")
          BY <4>3, ReadNext, Marks
        <5> QED
          BY <2>3, <5>1, ShReads
      <4> QED
        BY <2>6, <3>2, <4>4 DEF t1, t2, t3
    <3> QED
      BY <3>1, <3>2
  <2> QED
    BY <2>3, <2>7 DEF v
<1> HIDE DEF S
<1>3. \A b \in Seq(Atoms) : b \in S
  BY <1>1, <1>2, Sequences
<1>4. a \in S
  BY <1>3
<1>5. ShState(s \o Quoted(a)) = St(w, a, "quoted")
  BY <1>4 DEF S
<1>6. Quoted(a) \in Seq(Atoms)
  BY Marks, QuotedAppend
<1> QED
  BY <1>5, <1>6

Frame(q, c, d) == <<c, d>> \o q \o <<d>>
Framed(t, q, c, d) == t \o Frame(q, c, d) = Append(Append(Append(t, c), d) \o q, d)

\* A word between its quotes, behind what has been written.
LEMMA BetweenQuotes ==
  ASSUME NEW q \in Seq(Atoms), NEW c \in Atoms, NEW d \in Atoms
  PROVE  LET x == Frame(q, c, d)
         IN /\ x \in Seq(Atoms) /\ x # <<>>
            /\ Tail(x) = Append(Append(<<>>, d) \o q, d)
            /\ \A t \in Seq(Atoms) : Framed(t, q, c, d)
<1> DEFINE h == <<c, d>>
           g == h \o q
           x == g \o <<d>>
           e == <<>>
           b == Append(e, d)
           y == b \o q
<1>1. /\ h \in Seq(Atoms) /\ e \in Seq(Atoms) /\ Append(e, c) \in Seq(Atoms)
      /\ h = Append(Append(e, c), d)
  OBVIOUS
<1>2. \A z \in Seq(Atoms) : z \o e = z
  OBVIOUS
<1>3. \A z \in Seq(Atoms) : e \o z = z /\ Tail(Append(e, c) \o z) = z /\ Append(e, c) \o z # <<>>
  OBVIOUS
<1>4. \A z \in Seq(Atoms), k \in Atoms : z \o <<k>> = Append(z, k) /\ Append(z, k) \in Seq(Atoms)
  OBVIOUS
<1>5. \A z, v \in Seq(Atoms) : z \o v \in Seq(Atoms)
  OBVIOUS
<1>6. \A z, v \in Seq(Atoms), k \in Atoms : z \o Append(v, k) = Append(z \o v, k)
  BY AppendAcross
<1>7. \A u, v, w \in Seq(Atoms) : (u \o v) \o w = u \o (v \o w)
  <2>1. Assoc(Atoms)
    BY Associative
  <2> QED
    BY <2>1, Zenon DEF Assoc
<1> HIDE DEF h, e
<1>8. g \in Seq(Atoms) /\ x = Append(g, d) /\ x \in Seq(Atoms)
  BY <1>1, <1>4, <1>5, Zenon
<1>9. ASSUME NEW t \in Seq(Atoms)
      PROVE  t \o x = Append(Append(Append(t, c), d) \o q, d)
  <2>1. t \o x = Append(t \o g, d)
    BY <1>6, <1>8
  <2>2. t \o g = (t \o h) \o q
    BY <1>1, <1>7, Zenon
  <2>3. t \o h = Append(t \o Append(e, c), d)
    BY <1>1, <1>6, Zenon
  <2>4. t \o Append(e, c) = Append(t, c)
    BY <1>1, <1>2, <1>6
  <2> QED
    BY <2>1, <2>2, <2>3, <2>4, Zenon
<1>10. y \in Seq(Atoms) /\ b \in Seq(Atoms)
  BY <1>1, <1>4, <1>5, Zenon
<1>11. x = Append(e, c) \o Append(y, d)
  <2>1. h = Append(e, c) \o b
    BY <1>1, <1>2, <1>6
  <2>2. g = Append(e, c) \o y
    <3> DEFINE k == Append(e, c)
    <3>1. k \in Seq(Atoms) /\ h = k \o b
      BY <1>1, <2>1
    <3> HIDE DEF k, b
    <3>2. (k \o b) \o q = k \o (b \o q)
      BY <1>7, <1>10, <3>1
    <3> QED
      BY <3>1, <3>2, Zenon DEF k
  <2> QED
    <3> DEFINE k == Append(e, c)
    <3>1. k \in Seq(Atoms)
      BY <1>1
    <3> HIDE DEF k, y
    <3>2. k \o Append(y, d) = Append(k \o y, d)
      BY <1>6, <1>10, <3>1
    <3> QED
      BY <1>8, <2>2, <3>2, Zenon DEF k
<1>12. Append(y, d) \in Seq(Atoms)
  BY <1>4, <1>10, Zenon
<1>13. Tail(x) = Append(y, d) /\ x # <<>>
  BY <1>3, <1>11, <1>12, Zenon
<1> QED
  BY <1>8, <1>9, <1>13, Zenon DEF Framed, Frame, h, e

\* A word as shellQuote writes it.
InQuotes == [a \in Seq(Atoms) |-> Frame(Quoted(a), " ", "'")]

\* It is never empty.
LEMMA InQuotesTyped ==
  /\ InQuotes \in [Seq(Atoms) -> Seq(Atoms)]
  /\ \A a \in Seq(Atoms) : InQuotes[a] = Frame(Quoted(a), " ", "'") /\ InQuotes[a] # <<>>
<1>1. ASSUME NEW a \in Seq(Atoms)
      PROVE  /\ Frame(Quoted(a), " ", "'") \in Seq(Atoms)
             /\ Frame(Quoted(a), " ", "'") # <<>>
  <2> DEFINE q == Quoted(a)
  <2>1. q \in Seq(Atoms)
    BY Marks, QuotedAppend
  <2> HIDE DEF q
  <2>2. /\ Frame(q, " ", "'") \in Seq(Atoms)
        /\ Frame(q, " ", "'") # <<>>
    BY <2>1, Marks, BetweenQuotes
  <2> QED
    BY <2>2 DEF q
<1> QED
  BY <1>1 DEF InQuotes

\* After a word comes another.
LEMMA ReadAnother ==
  ASSUME NEW t \in Seq(Atoms), NEW p \in Seq(Seq(Atoms)), NEW l \in Seq(Atoms),
         ShState(t) = St(p, l, "word"), NEW a \in Seq(Atoms)
  PROVE  ShState(t \o InQuotes[a]) = St(Append(p, l), a, "word")
<1> DEFINE q == Quoted(a)
           t1 == Append(t, " ")
           t2 == Append(t1, "'")
           t3 == t2 \o q
           w == Append(p, l)
<1>1. q \in Seq(Atoms)
  BY Marks, QuotedAppend
<1>2. w \in Seq(Seq(Atoms)) /\ <<>> \in Seq(Atoms)
  OBVIOUS
<1>3. t \o Frame(q, " ", "'") = Append(t3, "'")
  <2> HIDE DEF q
  <2>1. Framed(t, q, " ", "'")
    BY <1>1, Marks, BetweenQuotes
  <2> QED
    BY <2>1 DEF Framed
<1>4. t1 \in Seq(Atoms) /\ ShState(t1) = St(w, <<>>, "gap")
  <2>1. t1 \in Seq(Atoms) /\ ShState(t1) = ShRead(St(p, l, "word"), " ")
    BY ReadNext, Marks
  <2> QED
    BY <2>1, ShReads
<1> HIDE DEF t1, w
<1>5. t2 \in Seq(Atoms) /\ ShState(t2) = St(w, <<>>, "quoted")
  <2>1. t2 \in Seq(Atoms) /\ ShState(t2) = ShRead(St(w, <<>>, "gap"), "'")
    BY <1>4, ReadNext, Marks
  <2> QED
    BY <1>2, <2>1, ShReads
<1> HIDE DEF t2
<1>6. t3 \in Seq(Atoms) /\ ShState(t3) = St(w, a, "quoted")
  BY <1>2, <1>5, ReadQuoted
<1> HIDE DEF t3
<1>7. ShState(Append(t3, "'")) = St(w, a, "word")
  <2>1. ShState(Append(t3, "'")) = ShRead(St(w, a, "quoted"), "'")
    BY <1>6, ReadNext, Marks
  <2> QED
    BY <1>2, <2>1, ShReads
<1>8. InQuotes[a] = Frame(q, " ", "'")
  BY InQuotesTyped
<1> HIDE DEF q
<1> QED
  BY <1>3, <1>7, <1>8, Zenon DEF w

\* The first word, of which the line has no blank.
LEMMA ReadFirst ==
  ASSUME NEW a \in Seq(Atoms)
  PROVE  ShState(Tail(InQuotes[a])) = St(<<>>, a, "word")
<1> DEFINE q == Quoted(a)
           w == <<>>
           e == <<>>
           t2 == Append(e, "'")
           t3 == t2 \o q
<1>1. q \in Seq(Atoms) /\ w \in Seq(Seq(Atoms)) /\ e \in Seq(Atoms)
  <2>1. q \in Seq(Atoms)
    BY Marks, QuotedAppend
  <2> QED
    BY <2>1
<1>2. Tail(Frame(q, " ", "'")) = Append(t3, "'")
  <2> HIDE DEF q
  <2> QED  BY <1>1, Marks, BetweenQuotes
<1>3. ShState(e) = St(w, e, "gap")
  BY <1>1, Marks, ShStateAppend
<1> HIDE DEF w, e
<1>4. t2 \in Seq(Atoms) /\ ShState(t2) = St(w, e, "quoted")
  <2>1. t2 \in Seq(Atoms) /\ ShState(t2) = ShRead(St(w, e, "gap"), "'")
    BY <1>1, <1>3, ReadNext, Marks
  <2> QED
    BY <1>1, <2>1, ShReads
<1> HIDE DEF t2
<1>5. t3 \in Seq(Atoms) /\ ShState(t3) = St(w, a, "quoted")
  <2>1. ShState(t2) = St(w, <<>>, "quoted")
    BY <1>4 DEF e
  <2> QED
    BY <1>1, <1>4, <2>1, ReadQuoted
<1> HIDE DEF t3
<1>6. ShState(Append(t3, "'")) = St(w, a, "word")
  <2>1. ShState(Append(t3, "'")) = ShRead(St(w, a, "quoted"), "'")
    BY <1>5, ReadNext, Marks
  <2> QED
    BY <1>1, <2>1, ShReads
<1>7. InQuotes[a] = Frame(q, " ", "'")
  BY InQuotesTyped
<1> HIDE DEF q
<1> QED
  BY <1>2, <1>6, <1>7, Zenon DEF w

\* A sequence has one last element.
LEMMA AppendedOnce ==
  ASSUME NEW D, NEW p \in Seq(D), NEW q \in Seq(D), NEW x \in D, NEW y \in D,
         Append(p, x) = Append(q, y)
  PROVE  p = q /\ x = y
<1> DEFINE t == Append(p, x)
           u == Append(q, y)
<1>1. /\ Len(p) \in Nat /\ Len(t) = Len(p) + 1 /\ t[Len(p) + 1] = x
      /\ \A i \in 1..Len(p) : t[i] = p[i]
  OBVIOUS
<1>2. /\ Len(q) \in Nat /\ Len(u) = Len(q) + 1 /\ u[Len(q) + 1] = y
      /\ \A i \in 1..Len(q) : u[i] = q[i]
  OBVIOUS
<1>3. t = u
  OBVIOUS
<1> HIDE DEF t, u
<1>4. Len(p) = Len(q) /\ x = y
  BY <1>1, <1>2, <1>3
<1>5. \A i \in 1..Len(p) : p[i] = q[i]
  BY <1>1, <1>2, <1>3, <1>4
<1> QED
  BY <1>4, <1>5

\* The shell takes from the line of a command the words it was made of.
THEOREM ShellUnquotes ==
  ASSUME NEW args \in Seq(Seq(Atoms)), args # <<>>
  PROVE  ShWords(shellQuote(args)) = args
<1> DEFINE Line(b) == Spread(InQuotes, b)
           Good(b) == \A p \in Seq(Seq(Atoms)), l \in Seq(Atoms) :
                        b = Append(p, l) => ShState(Tail(Line(b))) = St(p, l, "word")
           S == {b \in Seq(Seq(Atoms)) : Good(b)}
<1>1. <<>> \in S
  <2>1. ASSUME NEW p \in Seq(Seq(Atoms)), NEW l \in Seq(Atoms)
        PROVE  Append(p, l) # <<>>
    <3> DEFINE v == Append(p, l)
    <3>1. v \in Seq(Seq(Atoms)) /\ Len(v) = Len(p) + 1 /\ Len(p) \in Nat
      OBVIOUS
    <3> HIDE DEF v
    <3>2. v # <<>>
      BY <3>1
    <3> QED
      BY <3>2 DEF v
  <2>2. <<>> \in Seq(Seq(Atoms))
    OBVIOUS
  <2>3. Good(<<>>)
    BY <2>1, Zenon
  <2> HIDE DEF Good
  <2> QED
    BY <2>2, <2>3
<1>2. ASSUME NEW b \in Seq(Seq(Atoms)), NEW a \in Seq(Atoms)
      PROVE  /\ Line(<<>>) = <<>> /\ Line(b) \in Seq(Atoms)
             /\ Grows(InQuotes, b, a)
  BY InQuotesTyped, SpreadAppend
<1>3. ASSUME NEW b \in Seq(Seq(Atoms)), NEW a \in Seq(Atoms), b \in S
      PROVE  Append(b, a) \in S
  <2> DEFINE v == Append(b, a)
             y == InQuotes[a]
             t == Line(b)
  <2>1. v \in Seq(Seq(Atoms)) /\ \A p \in Seq(Seq(Atoms)), l \in Seq(Atoms) : v = Append(p, l) => p = b /\ l = a
    BY AppendedOnce, SMTT(30)
  <2>2. Line(v) = t \o y /\ t \in Seq(Atoms) /\ y \in Seq(Atoms)
    BY <1>2, InQuotesTyped DEF Grows
  <2>3. CASE b = <<>>
    <3>1. t = <<>>
      BY <1>2, <2>3
    <3> HIDE DEF v, y, t
    <3>2. t \o y = y
      BY <2>2, <3>1
    <3>3. ShState(Tail(y)) = St(b, a, "word")
      BY <2>3, ReadFirst DEF y
    <3> QED
      BY <2>1, <2>2, <3>2, <3>3 DEF v
  <2>4. CASE b # <<>>
    <3> DEFINE p == Front(b)
               l == b[Len(b)]
    <3>1. p \in Seq(Seq(Atoms)) /\ l \in Seq(Atoms) /\ b = Append(p, l)
      BY <2>4, LastAppended
    <3>2. ShState(Tail(t)) = St(p, l, "word")
      BY <1>3, <3>1
    <3>3. t # <<>>
      <4> DEFINE u == Line(p)
                 k == InQuotes[l]
      <4>1. t = u \o k /\ u \in Seq(Atoms) /\ k \in Seq(Atoms) /\ k # <<>>
        <5> HIDE DEF p, l
        <5>1. Grows(InQuotes, p, l)
          BY <1>2, <3>1
        <5> QED
          BY <1>2, <3>1, <5>1, InQuotesTyped DEF Grows
      <4> HIDE DEF t, u, k
      <4> QED
        BY <4>1
    <3> HIDE DEF v, y, t, p, l
    <3>4. Tail(t) \in Seq(Atoms) /\ Tail(t \o y) = Tail(t) \o y
      BY <2>2, <3>3
    <3>5. ShState(Tail(t) \o y) = St(b, a, "word")
      <4> DEFINE z == Tail(t)
      <4>1. z \in Seq(Atoms) /\ p \in Seq(Seq(Atoms)) /\ l \in Seq(Atoms) /\ a \in Seq(Atoms)
        BY <3>1, <3>4
      <4>2. ShState(z) = St(p, l, "word") /\ b = Append(p, l)
        BY <3>1, <3>2
      <4> HIDE DEF z
      <4>3. ShState(z \o InQuotes[a]) = St(Append(p, l), a, "word")
        BY <4>1, <4>2, ReadAnother
      <4> QED
        BY <4>2, <4>3 DEF y, z
    <3> QED
      BY <2>1, <2>2, <3>4, <3>5 DEF v
  <2> QED
    BY <2>3, <2>4
<1> HIDE DEF S
<1>4. \A b \in Seq(Seq(Atoms)) : b \in S
  BY <1>1, <1>3, Sequences
<1> DEFINE p == Front(args)
           l == args[Len(args)]
<1>5. p \in Seq(Seq(Atoms)) /\ l \in Seq(Atoms) /\ args = Append(p, l)
  BY LastAppended
<1>6. ShState(Tail(Line(args))) = St(p, l, "word")
  BY <1>4, <1>5 DEF S
<1>7. shellQuote(args) = Tail(Line(args))
  <2>1. \A i \in DOMAIN args : args[i] \in Seq(Atoms)
    OBVIOUS
  <2>2. \A i \in DOMAIN args : InQuotes[args[i]] = Frame(Quoted(args[i]), " ", "'")
    BY <2>1, InQuotesTyped
  <2>3. shellQuote(args) = Tail(FlattenSeq([i \in DOMAIN args |-> Frame(Quoted(args[i]), " ", "'")]))
    BY Zenon DEF shellQuote, Frame
  <2>4. [i \in DOMAIN args |-> InQuotes[args[i]]] = [i \in DOMAIN args |-> Frame(Quoted(args[i]), " ", "'")]
    BY <2>2
  <2> QED
    BY <2>3, <2>4, Zenon DEF Spread
<1> HIDE DEF p, l
<1> QED
  BY <1>5, <1>6, <1>7 DEF ShWords, St

\* The command for the peer is made of atoms.
LEMMA TextOfAtoms ==
  /\ \A s \in Text : s \in Seq(Atoms)
  /\ \A p \in Seq(Text) : p \in Seq(Seq(Atoms))
<1>1. ASSUME NEW s \in Text
      PROVE  s \in Seq(Atoms)
  <2>1. s \in Seq(Words) /\ \A w \in Words : w \in Atoms
    BY AtomsAssumption DEF Text
  <2> QED
    BY <2>1
<1>2. ASSUME NEW p \in Seq(Text)
      PROVE  p \in Seq(Seq(Atoms))
  <2> DEFINE A == Seq(Atoms)
  <2>1. \A s \in Text : s \in A
    BY <1>1
  <2> HIDE DEF A
  <2>2. p \in Seq(A)
    BY <2>1
  <2> QED
    BY <2>2 DEF A
<1> QED
  BY <1>1, <1>2

\* A path below the base dir.
LEMMA AbsOfAtoms ==
  ASSUME NEW p \in Seq(Text)
  PROVE  Abs(p) \in Seq(Atoms)
<1>1. p \in Seq(Seq(Atoms)) /\ "/" \in Atoms /\ <<>> \in Seq(Atoms)
  BY TextOfAtoms, AtomsAssumption, WordsAssumption DEF FixedWords
<1>2. \A x \in Seq(Atoms) : Led(p, "/") \in Seq(Atoms)
  BY <1>1, LedAppend
<1>3. Abs(p) = Base \o Led(p, "/")
  BY DEF Abs, Led
<1> DEFINE l == Led(p, "/")
<1>4. l \in Seq(Atoms)
  BY <1>1, <1>2
<1> HIDE DEF l
<1>5. Base \o l \in Seq(Atoms)
  BY <1>4, BaseAssumption
<1> QED
  BY <1>3, <1>5 DEF l

\* A printed reference.
LEMMA StringOfAtoms ==
  ASSUME NEW r, PlainRef(r)
  PROVE  String(r) \in Seq(Atoms)
<1> DEFINE name == Join(r.Path, "/")
           hash == <<"@", "sha256", ":">>
           sep == <<"/">>
           colon == <<":">>
<1>1. /\ r.Host \in Seq(Atoms) /\ r.Tag \in Seq(Atoms) /\ r.Digest \in Seq(Atoms)
      /\ r.Path \in Seq(Seq(Atoms)) /\ r.Path # <<>>
  BY TextOfAtoms DEF PlainRef, WellFormed
<1>2. /\ "/" \in Atoms
      /\ hash \in Seq(Atoms) /\ sep \in Seq(Atoms) /\ colon \in Seq(Atoms) /\ <<>> \in Seq(Atoms)
  <2>1. "/" \in Atoms /\ "@" \in Atoms /\ "sha256" \in Atoms /\ ":" \in Atoms
    BY AtomsAssumption, WordsAssumption DEF FixedWords
  <2> QED
    BY <2>1
<1>3. \A x \in Seq(Atoms) : name \in Seq(Atoms)
  BY <1>1, <1>2, JoinAppend
<1>4. name \in Seq(Atoms)
  BY <1>2, <1>3
<1>5. \A u, v \in Seq(Atoms) : u \o v \in Seq(Atoms)
  OBVIOUS
<1>6. String(r) = r.Host \o sep \o name \o (IF IsDigested(r) THEN hash \o r.Digest ELSE colon \o r.Tag)
  BY DEF String
<1> HIDE DEF name, hash, sep, colon
<1>7. r.Host \o sep \o name \in Seq(Atoms)
  BY <1>1, <1>2, <1>4, <1>5
<1>8. hash \o r.Digest \in Seq(Atoms) /\ colon \o r.Tag \in Seq(Atoms)
  BY <1>1, <1>2, <1>5
<1> QED
  BY <1>5, <1>6, <1>7, <1>8

\* The command of a load.
LEMMA LoadArgvOfAtoms ==
  ASSUME NEW r, PlainRef(r)
  PROVE  LoadArgv(r) \in Seq(Seq(Atoms)) /\ LoadArgv(r) # <<>>
<1> DEFINE A == Seq(Atoms)
           d == RelDumpDir(r)
<1>1. \A u, v \in A : u \o v \in A
  OBVIOUS
<1>2. <<"skopeo">> \in A /\ <<"copy">> \in A /\ <<"--src-shared-blob-dir">> \in A
  <2>1. "skopeo" \in Atoms /\ "copy" \in Atoms /\ "--src-shared-blob-dir" \in Atoms
    BY AtomsAssumption DEF FixedAtoms
  <2>2. \A c \in Atoms : <<c>> \in A
    OBVIOUS
  <2> QED
    BY <2>1, <2>2
<1>3. Abs(RelSharePath) \in A
  <2>1. RelSharePath \in Seq(Text)
    BY WordsAssumption DEF RelSharePath, FixedWords, Text
  <2> QED
    BY <2>1, AbsOfAtoms
<1>4. String(r) \in A
  BY StringOfAtoms
<1>5. Abs(d) \in A
  BY DumpDirShape, AbsOfAtoms
<1>6. <<"oci", ":">> \in A /\ <<":">> \in A /\ <<"containers-storage", ":">> \in A
  <2>1. "oci" \in Atoms /\ ":" \in Atoms /\ "containers-storage" \in Atoms
    BY AtomsAssumption, WordsAssumption DEF FixedAtoms, FixedWords
  <2>2. \A b, c \in Atoms : <<c>> \in A /\ <<b, c>> \in A
    OBVIOUS
  <2> QED
    BY <2>1, <2>2
<1> HIDE DEF A
<1>7. OciArg(d, r) \in A
  <2> DEFINE oci == <<"oci", ":">>
             colon == <<":">>
             path == Abs(d)
             image == String(r)
  <2>1. oci \in A /\ colon \in A /\ path \in A /\ image \in A
    BY <1>4, <1>5, <1>6
  <2>2. OciArg(d, r) = oci \o path \o colon \o image
    BY DEF OciArg
  <2> HIDE DEF oci, colon, path, image
  <2>3. oci \o path \o colon \o image \in A
    BY <1>1, <2>1
  <2> QED
    BY <2>2, <2>3
<1>8. LiveArg(r) \in A
  <2> DEFINE live == <<"containers-storage", ":">>
             image == String(r)
  <2>1. live \in A /\ image \in A
    BY <1>4, <1>6
  <2>2. LiveArg(r) = live \o image
    BY DEF LiveArg
  <2> HIDE DEF live, image
  <2> QED
    BY <1>1, <2>1, <2>2
<1>9. \A a1, a2, a3, a4, a5, a6 \in A :
        <<a1, a2, a3, a4, a5, a6>> \in Seq(A) /\ <<a1, a2, a3, a4, a5, a6>> # <<>>
  OBVIOUS
<1> QED
  BY <1>2, <1>3, <1>7, <1>8, <1>9 DEF LoadArgv, A

\* The peer is given the command as it was made, whatever blanks, quotes and "$" its base
\* dir or a reference has in its name.
THEOREM ArgvAlwaysArrives == Spec => []ArgvArrives
<1>1. Init => ArgvArrives
  <2>1. ShState(<<>>) = St(<<>>, <<>>, "gap")
    <3>1. \A s \in Seq(Atoms), c \in Atoms : ShState(<<>>) = St(<<>>, <<>>, "gap")
      BY ShStateAppend
    <3>2. <<>> \in Seq(Atoms)
      OBVIOUS
    <3> QED
      BY <3>1, <3>2, Marks
  <2> QED
    BY <2>1 DEF Init, ArgvArrives, ShWords, St
<1>2. ASSUME DoneInv, NEW r \in done, LoadImage(r)
      PROVE  ArgvArrives'
  <2>1. PlainRef(r)
    BY <1>2 DEF DoneInv
  <2> DEFINE a == LoadArgv(r)
  <2>2. argv' = a /\ line' = shellQuote(a)
    BY <1>2 DEF LoadImage
  <2>3. ShWords(shellQuote(a)) = a
    BY <2>1, LoadArgvOfAtoms, ShellUnquotes
  <2> HIDE DEF a
  <2>4. ArgvArrives' <=> ShWords(line') = argv'
    BY DEF ArgvArrives
  <2> QED
    BY <2>2, <2>3, <2>4
<1>3. ArgvArrives /\ DoneInv /\ [Next]_vars => ArgvArrives'
  <2> SUFFICES ASSUME ArgvArrives, DoneInv, [Next]_vars
               PROVE  ArgvArrives'
    OBVIOUS
  <2>1. ASSUME UNCHANGED <<argv, line>>
        PROVE  ArgvArrives'
    BY <2>1 DEF ArgvArrives
  <2>2. UNCHANGED <<argv, line>> \/ \E r \in done : LoadImage(r)
    BY DEF Next, vars, EnsureLayout, PutBlobs, Dump, Mirror
  <2> QED
    BY <1>2, <2>1, <2>2
<1> QED
  BY <1>1, <1>3, DoneAlways, PTL DEF Spec

-----------------------------------------------------------------------------
(* The paths that skopeo is told.                                          *)

\* Two parts have an e where one of them has one.
LEMMA FreeParts ==
  ASSUME NEW E, NEW u \in Seq(E), NEW v \in Seq(E), NEW e
  PROVE  Free(u \o v, e) <=> Free(u, e) /\ Free(v, e)
<1> DEFINE t == u \o v
           n == Len(u)
<1>1. ASSUME Free(u, e), Free(v, e) PROVE Free(t, e)
  BY <1>1 DEF Free
<1>2. /\ \A i \in DOMAIN u : i \in DOMAIN t /\ t[i] = u[i]
      /\ \A i \in DOMAIN v : n + i \in DOMAIN t /\ t[n + i] = v[i]
  OBVIOUS
<1> HIDE DEF t, n
<1>3. ASSUME Free(t, e) PROVE Free(u, e) /\ Free(v, e)
  <2>1. ASSUME NEW i \in DOMAIN u PROVE u[i] # e
    BY <1>2, <1>3, <2>1 DEF Free
  <2>2. ASSUME NEW i \in DOMAIN v PROVE v[i] # e
    BY <1>2, <1>3, <2>2 DEF Free
  <2> QED
    BY <2>1, <2>2 DEF Free
<1> QED
  BY <1>1, <1>3 DEF t

\* A line of segments has a c where a segment has one.
LEMMA LedFree ==
  ASSUME NEW c \in Atoms, NEW e, c # e, NEW p \in Seq(Seq(Atoms))
  PROVE  Free(Led(p, c), e) <=> \A i \in DOMAIN p : Free(p[i], e)
<1> DEFINE A == Seq(Atoms)
           Good(q) == Free(Led(q, c), e) <=> \A i \in DOMAIN q : Free(q[i], e)
           S == {q \in Seq(A) : Good(q)}
<1>1. <<>> \in S
  <2>1. Led(<<>>, c) = <<>>
    BY DEF Led, FlattenSeq
  <2> QED
    BY <2>1 DEF Free
<1>2. ASSUME NEW q \in Seq(A), NEW x \in A, q \in S
      PROVE  Append(q, x) \in S
  <2> DEFINE l == Led(q, c)
             t == Append(q, x)
  <2>1. l \in A /\ Led(t, c) = l \o (<<c>> \o x)
    BY LedAppend
  <2>2. Free(l, e) <=> \A i \in DOMAIN q : Free(q[i], e)
    BY <1>2
  <2>3. /\ t \in Seq(A) /\ DOMAIN t = DOMAIN q \cup {Len(q) + 1}
        /\ t[Len(q) + 1] = x /\ \A i \in DOMAIN q : t[i] = q[i]
    OBVIOUS
  <2> HIDE DEF l, t
  <2>4. Free(l \o (<<c>> \o x), e) <=> Free(l, e) /\ Free(x, e)
    <3> DEFINE y == <<c>> \o x
    <3>1. y \in Seq(Atoms) /\ <<c>> \in Seq(Atoms) /\ Free(<<c>>, e)
      BY DEF Free
    <3>2. Free(y, e) <=> Free(x, e)
      BY <3>1, FreeParts
    <3> HIDE DEF y
    <3> QED
      BY <2>1, <3>1, <3>2, FreeParts DEF y
  <2>5. Good(t)
    BY <2>1, <2>2, <2>3, <2>4
  <2> QED
    BY <2>3, <2>5 DEF t
<1> HIDE DEF S, A
<1>3. \A q \in Seq(A) : q \in S
  BY <1>1, <1>2, Sequences
<1> QED
  BY <1>3 DEF S, A

\* The path ends at the first ":".
LEMMA OciPathEnds ==
  ASSUME NEW x \in Seq(Atoms), NEW y \in Seq(Atoms)
  PROVE  OciPath(<<"oci", ":">> \o x \o <<":">> \o y) = x <=> Free(x, ":")
<1> DEFINE arg == <<"oci", ":">> \o x \o <<":">> \o y
           z == x \o (<<":">> \o y)
           n == First(z, ":")
<1>a. "oci" \in Atoms /\ ":" \in Atoms
  BY AtomsAssumption, WordsAssumption DEF FixedAtoms, FixedWords
<1>1. SubSeq(arg, 3, Len(arg)) = z
  <2> DEFINE w == SubSeq(arg, 3, Len(arg))
  <2>1. /\ arg \in Seq(Atoms) /\ Len(arg) = Len(x) + Len(y) + 3
        /\ \A i \in 1..Len(x) : arg[i + 2] = x[i]
        /\ arg[Len(x) + 3] = ":"
        /\ \A i \in 1..Len(y) : arg[Len(x) + 3 + i] = y[i]
    BY <1>a
  <2>2. /\ z \in Seq(Atoms) /\ Len(z) = Len(x) + Len(y) + 1
        /\ \A i \in 1..Len(x) : z[i] = x[i]
        /\ z[Len(x) + 1] = ":"
        /\ \A i \in 1..Len(y) : z[Len(x) + 1 + i] = y[i]
    BY <1>a
  <2>b. Len(x) \in Nat /\ Len(y) \in Nat
    OBVIOUS
  <2> HIDE DEF arg, z
  <2>3. w \in Seq(Atoms) /\ Len(w) = Len(z) /\ \A i \in 1..Len(w) : w[i] = arg[i + 2]
    BY <2>1, <2>2, <2>b
  <2> HIDE DEF w
  <2>4. ASSUME NEW i \in 1..Len(z) PROVE w[i] = z[i]
    <3>1. w[i] = arg[i + 2]
      BY <2>3
    <3>2. CASE i \in 1..Len(x)
      BY <2>1, <2>2, <3>1, <3>2
    <3>3. CASE i = Len(x) + 1
      BY <2>1, <2>2, <2>b, <3>1, <3>3
    <3>4. CASE i > Len(x) + 1
      <4> DEFINE k == i - Len(x) - 1
      <4>1. k \in 1..Len(y) /\ i = Len(x) + 1 + k /\ i + 2 = Len(x) + 3 + k
        BY <2>2, <2>b, <3>4
      <4> HIDE DEF k
      <4>2. z[i] = y[k]
        BY <2>2, <4>1
      <4>3. arg[i + 2] = y[k]
        BY <2>1, <4>1
      <4> QED
        BY <3>1, <4>2, <4>3
    <3> QED
      BY <2>2, <2>b, <3>2, <3>3, <3>4
  <2>5. w = z
    BY <2>2, <2>3, <2>4
  <2> QED
    BY <2>5 DEF w
<1>2. z \in Seq(Atoms) /\ Len(x) \in Nat /\ Len(z) \in Nat /\ Len(z) > Len(x)
      /\ \A i \in 1..Len(x) : z[i] = x[i]
  BY <1>a
<1>3. OciPath(arg) = SubSeq(z, 1, n - 1)
  BY <1>1 DEF OciPath
<1>4. Free(x, ":") => n = Len(x) + 1
  BY <1>a, FirstCut
<1>5. ~Free(x, ":") => n \in 1..Len(x)
  BY <1>a, FirstCut
<1> HIDE DEF arg, z, n
<1>6. CASE Free(x, ":")
  <2>1. SubSeq(z, 1, Len(x)) = x
    BY <1>2
  <2> QED
    <3>1. n - 1 = Len(x)
      BY <1>2, <1>4, <1>6
    <3>2. OciPath(arg) = x
      BY <1>3, <2>1, <3>1
    <3> QED
      BY <1>6, <3>2 DEF arg
<1>7. CASE ~Free(x, ":")
  <2>1. n - 1 \in 0..(Len(x) - 1)
    BY <1>2, <1>5, <1>7
  <2>2. Len(SubSeq(z, 1, n - 1)) = n - 1
    BY <1>2, <2>1
  <2>3. SubSeq(z, 1, n - 1) # x
    BY <1>2, <2>1, <2>2
  <2> QED
    BY <1>3, <1>7, <2>3 DEF arg
<1> QED
  BY <1>6, <1>7

\* TransportRef.Format: skopeo reads the path of oci:path:image as it was meant exactly
\* when there is no ":" in the base dir, no port in the host, and no tag beside a digest
\* (whose ":" is kept in the path), for whatever is typed.
THEOREM OciPathsRead ==
  ASSUME NEW s \in Typed, Parse(s) # NoRef, SkopeoTakes(Parse(s))
  PROVE  LET r == Parse(s)
             d == RelDumpDir(r)
         IN OciPath(OciArg(d, r)) = Abs(d)
              <=> /\ Free(Base, ":") /\ Free(r.Host, ":")
                  /\ Free(r.Path[Len(r.Path)], ":")
<1> DEFINE r == Parse(s)
           d == RelDumpDir(r)
           m == Len(r.Path)
<1>1. Canonical(r)
  BY ParseShape, TypedAssumption DEF Text
<1>2. PlainRef(r)
  BY <1>1 DEF PlainRef, SkopeoTakes, Canonical
<1>3. /\ r.Host \in Text /\ r.Path \in Seq(Text) /\ r.Tag \in Text /\ m \in Nat \ {0}
      /\ \/ r.Tag # <<>> /\ r.Digest = <<>>
         \/ r.Tag = <<>> /\ \E h \in Hex : r.Digest = <<h>>
  BY <1>2 DEF PlainRef, WellFormed
<1>4. /\ Free(r.Tag, ":")
      /\ \A i \in 1..m : i < m => Free(r.Path[i], ":")
  <2>1. Free(r.Tag, ":")
    BY DEF SkopeoTakes, Free
  <2>2. ASSUME NEW i \in 1..m, i < m PROVE Free(r.Path[i], ":")
    <3>1. First(r.Path[i], ":") = 0
      BY <1>3, <2>2 DEF SkopeoTakes
    <3> QED
      BY <1>3, <3>1, FirstIsPosition
  <2> QED
    BY <2>1, <2>2
<1>5. Free(r.Digest, ":")
  <2>1. ":" \notin Hex
    BY HexAssumption DEF FixedWords
  <2> QED
    BY <1>3, <2>1 DEF Free
<1>6. /\ d \in Seq(Text) /\ DOMAIN d = 1..(m + 3) /\ d[1] = r.Host
      /\ \A i \in 1..m : d[i + 1] = r.Path[i]
      /\ d[m + 2] \in ReservedSegments /\ d[m + 3] \in {r.Tag, r.Digest}
  <2> HIDE DEF r
  <2>1. /\ d \in Seq(Text) /\ Len(d) = m + 3 /\ d[1] = r.Host
        /\ \A i \in 1..m : d[i + 1] = r.Path[i]
        /\ d[m + 2] = IF IsTagged(r) THEN <<"_tags">> ELSE <<"_digests">>
        /\ d[m + 3] = IF IsTagged(r) THEN r.Tag ELSE r.Digest
    BY <1>2, DumpDirShape
  <2> HIDE DEF d, m
  <2>2. DOMAIN d = 1..(m + 3)
    BY <2>1
  <2>3. d[m + 2] \in ReservedSegments /\ d[m + 3] \in {r.Tag, r.Digest}
    BY <2>1 DEF ReservedSegments
  <2> QED
    BY <2>1, <2>2, <2>3
<1> HIDE DEF d, m, r
<1>7. (\A i \in DOMAIN d : Free(d[i], ":")) <=> Free(r.Host, ":") /\ Free(r.Path[m], ":")
  <2>1. Free(d[m + 2], ":") /\ Free(d[m + 3], ":")
    BY <1>4, <1>5, <1>6 DEF ReservedSegments, Free
  <2>2. ASSUME \A i \in DOMAIN d : Free(d[i], ":")
        PROVE  Free(r.Host, ":") /\ Free(r.Path[m], ":")
    <3>1. 1 \in DOMAIN d /\ m + 1 \in DOMAIN d /\ m \in 1..m
      BY <1>3, <1>6
    <3> QED
      BY <1>6, <2>2, <3>1
  <2>3. ASSUME Free(r.Host, ":"), Free(r.Path[m], ":"), NEW i \in DOMAIN d
        PROVE  Free(d[i], ":")
    <3>1. CASE i \in {1, m + 2, m + 3}
      BY <1>6, <2>1, <2>3, <3>1
    <3>2. CASE i \in 2..(m + 1)
      <4>1. i - 1 \in 1..m /\ (i - 1) + 1 = i /\ (i - 1 < m \/ i - 1 = m)
        BY <1>3, <3>2
      <4>2. Free(r.Path[i - 1], ":")
        BY <1>4, <2>3, <4>1
      <4> QED
        BY <1>6, <4>1, <4>2
    <3> QED
      BY <1>3, <1>6, <3>1, <3>2
  <2> QED
    BY <2>2, <2>3
<1> DEFINE l == Led(d, "/")
<1>8. l \in Seq(Atoms) /\ (Free(l, ":") <=> \A i \in DOMAIN d : Free(d[i], ":"))
  <2>1. d \in Seq(Seq(Atoms)) /\ "/" \in Atoms /\ "/" # ":"
    BY <1>6, TextOfAtoms, AtomsAssumption, WordsAssumption DEF FixedWords
  <2>2. l \in Seq(Atoms)
    <3>1. <<>> \in Seq(Atoms)
      OBVIOUS
    <3> QED
      BY <2>1, <3>1, LedAppend
  <2> QED
    BY <2>1, <2>2, LedFree
<1>9. Abs(d) = Base \o l /\ Abs(d) \in Seq(Atoms)
  BY <1>6, AbsOfAtoms DEF Abs, Led
<1> HIDE DEF l
<1>10. Free(Abs(d), ":") <=> Free(Base, ":") /\ Free(l, ":")
  BY <1>8, <1>9, BaseAssumption, FreeParts
<1>11. OciPath(OciArg(d, r)) = Abs(d) <=> Free(Abs(d), ":")
  <2> DEFINE x == Abs(d)
             y == String(r)
  <2>1. x \in Seq(Atoms) /\ y \in Seq(Atoms)
    BY <1>2, <1>9, StringOfAtoms
  <2>2. OciArg(d, r) = <<"oci", ":">> \o x \o <<":">> \o y
    BY DEF OciArg
  <2> HIDE DEF x, y
  <2>3. OciPath(<<"oci", ":">> \o x \o <<":">> \o y) = x <=> Free(x, ":")
    BY <2>1, OciPathEnds
  <2>4. OciPath(OciArg(d, r)) = OciPath(<<"oci", ":">> \o x \o <<":">> \o y)
    BY <2>2, Zenon
  <2> DEFINE o == OciPath(OciArg(d, r))
             o2 == OciPath(<<"oci", ":">> \o x \o <<":">> \o y)
  <2> HIDE DEF o, o2
  <2>5. o = o2 /\ (o2 = x <=> Free(x, ":"))
    BY <2>3, <2>4, Zenon DEF o, o2
  <2>6. o = x <=> Free(x, ":")
    BY <2>5
  <2> QED
    BY <2>6, Zenon DEF o, x
<1> QED
  BY <1>7, <1>8, <1>10, <1>11 DEF d, m, r
=============================================================================
