---------------------------- MODULE ShareProofs ----------------------------
(***************************************************************************)
(* Proofs about Share, for every set of images, refs and command lines.    *)
(***************************************************************************)
EXTENDS Share, TLAPS

-----------------------------------------------------------------------------
(* The data.                                                               *)

\* The blobs of an image are blobs.
LEMMA ClosureInBlobs ==
  ASSUME NEW m \in Images
  PROVE  Closure(m) \subseteq Blobs /\ Layers[m] \subseteq Blobs
BY DEF Closure, Blobs

\* A manifest that is in a pool is that of an image.
LEMMA PooledIsImage ==
  ASSUME NEW b \in SUBSET Blobs, NEW m \in Images \cup {None}, m \in b
  PROVE  m \in Images
BY NoneAssumption

\* The layers live storage needs for its tags are blobs.
LEMMA LayersInBlobs ==
  ASSUME NEW tags \in Tags
  PROVE  LayersOf(tags) \subseteq Blobs
<1>1. ASSUME NEW r \in Refs, tags[r] # None
      PROVE  Layers[tags[r]] \subseteq Blobs
  BY <1>1, ClosureInBlobs DEF Tags
<1> QED
  BY <1>1 DEF LayersOf

\* What Local.List sees is made of blobs.
LEMMA SeenInBlobs ==
  ASSUME NEW tags \in Tags, NEW seen \in SUBSET Listed(tags)
  PROVE  ClosuresSeen(tags, seen) \subseteq Blobs
<1>1. ASSUME NEW r \in seen
      PROVE  Closure(tags[r]) \subseteq Blobs
  BY <1>1, ClosureInBlobs DEF Tags, Listed
<1> QED
  BY <1>1 DEF ClosuresSeen

\* The rest of the command line is one.
LEMMA RestOfLine ==
  ASSUME NEW q \in Seq(Words), q # <<>>
  PROVE  Head(q) \in Words /\ Tail(q) \in Seq(Words)
OBVIOUS

\* The run works on the two sides.
LEMMA EndsAreSides == Src \in Sides /\ Dst \in Sides
BY DEF Src, Dst, Sides

\* A plan is made of blobs, and leaves out only what is counted on.
LEMMA PlanCovers ==
  ASSUME NEW m \in Images
  PROVE  /\ Plan(m) \subseteq Closure(m)
         /\ Closure(m) \subseteq Plan(m) \cup have
BY DEF Plan, MapKeyDiff, Closure

\* A tag of one side is changed.
LEMMA TagChanged ==
  ASSUME NEW f \in [Sides -> Tags], NEW s \in Sides, NEW r \in Refs,
         NEW m \in Images \cup {None}
  PROVE  [f EXCEPT ![s][r] = m] \in [Sides -> Tags]
BY DEF Tags

\* Only that tag is.
LEMMA OtherTagsStay ==
  ASSUME NEW f \in [Sides -> Tags], NEW s \in Sides, NEW r \in Refs, NEW m,
         NEW t \in Sides, NEW q \in Refs
  PROVE  [f EXCEPT ![s][r] = m][t][q] = IF t = s /\ q = r THEN m ELSE f[t][q]
BY DEF Tags

\* The pool, the store or the tag dirs of one side grow.
LEMMA SideGrows ==
  ASSUME NEW S, NEW f \in [Sides -> SUBSET S], NEW s \in Sides, NEW T \in SUBSET S
  PROVE  [f EXCEPT ![s] = @ \cup T] \in [Sides -> SUBSET S]
OBVIOUS

\* Command lines are well formed.
LEMMA CommandShape ==
  ASSUME NEW c \in Commands
  PROVE  c.assume \subseteq Blobs /\ c.args \in Seq(Words)
BY CommandsAssumption DEF CommandOK

-----------------------------------------------------------------------------
(* TypeOK.                                                                 *)

\* Initially every variable has its type.
LEMMA TypeInit == Init => TypeOK
<1> SUFFICES ASSUME Init PROVE TypeOK
  OBVIOUS
<1>1. live \in [Sides -> Tags]
  BY LiveAssumption DEF Init, Tags
<1>2. store \in [Sides -> SUBSET Blobs]
  <2>1. \A s \in Sides : LayersOf(LiveAtFirst[s]) \in SUBSET Blobs
    BY LiveAssumption, LayersInBlobs DEF Tags
  <2> QED
    BY <2>1 DEF Init
<1>3. index \in [Sides -> Tags] /\ claims \in [Sides -> Tags]
  BY DEF Init, Tags
<1>4. todo \in Seq(Words)
  BY DEF Init
<1> QED
  BY <1>1, <1>2, <1>3, <1>4 DEF Init, TypeOK

\* Every step keeps the types.
LEMMA TypeStep ==
  ASSUME TypeOK, RunOK, Next
  PROVE  TypeOK'
<1> USE DEF TypeOK, RunOK, OnImage, Idle, world, disk, image, report, env,
        End, ImageDone, ImageFailed, SpendFault
<1>1. ASSUME NEW c \in Commands, Start(c)
      PROVE  TypeOK'
  <2>1. todo' \in Seq(Words)
    BY <1>1, CommandShape DEF Start
  <2> QED
    BY <1>1, <2>1 DEF Start
<1>2. CASE EnumeratePeer
  <2>1. have' \subseteq Blobs
    BY <1>2, CommandShape DEF EnumeratePeer, ListBlobs, Sides
  <2> QED
    BY <1>2, <2>1 DEF EnumeratePeer, ListBlobs
<1>3. CASE EnumerateLocal
  <2>1. have' \subseteq Blobs
    <3>1. cmd.assume \subseteq Blobs /\ pool["local"] \subseteq Blobs
      BY <1>3, CommandShape DEF EnumerateLocal, Sides
    <3>2. ClosuresSeen(index["local"], Dumped) \subseteq Blobs
      <4>1. index["local"] \in Tags /\ Dumped \in SUBSET Listed(index["local"])
        BY DEF Dumped, Sides
      <4> QED
        BY <4>1, SeenInBlobs
    <3>3. \A seen \in SUBSET Listed(live["local"]) :
            ClosuresSeen(live["local"], seen) \subseteq Blobs
      <4>1. live["local"] \in Tags
        BY DEF Sides
      <4> QED
        BY <4>1, SeenInBlobs
    <3> QED
      BY <1>3, <3>1, <3>2, <3>3 DEF EnumerateLocal
  <2> QED
    BY <1>3, <2>1 DEF EnumerateLocal
<1>4. CASE NextImage
  <2>1. CASE Ref \in Refs
    BY <1>4, <2>1 DEF NextImage
  <2>2. CASE Ref \notin Refs
    <3>1. todo' \in Seq(Words)
      BY <1>4, <2>2, RestOfLine DEF NextImage
    <3>2. pc' \in {"loop", "idle"} /\ result' \in {result, "error"}
      BY <1>4, <2>2 DEF NextImage
    <3>3. failedCount' = failedCount + 1 /\ UNCHANGED reported
      BY <1>4, <2>2 DEF NextImage
    <3> QED
      BY <1>4, <3>1, <3>2, <3>3 DEF NextImage
  <2> QED
    BY <2>1, <2>2
<1>5. CASE LoopCancelled
  BY <1>5 DEF LoopCancelled
<1>6. CASE Finish
  BY <1>6 DEF Finish
<1>7. ASSUME NEW d \in Blobs, DumpBlob(d)
      PROVE  TypeOK'
  BY <1>7 DEF DumpBlob
<1>8. ASSUME NEW d \in Blobs, SendBlob(d)
      PROVE  TypeOK'
  BY <1>8 DEF SendBlob
<1>9. CASE DumpDone
  <2> DEFINE m == live["local"][Ref]
  <2>0. "local" \in Sides /\ Ref \in Refs /\ m \in Images
    BY <1>9 DEF DumpDone, Dumps, CanCopy, Sides, Tags
  <2>1. index' \in [Sides -> Tags] /\ claims' \in [Sides -> Tags]
    BY <1>9, <2>0, TagChanged DEF DumpDone
  <2>2. layout' \in [Sides -> SUBSET Refs]
    BY <1>9, <2>0 DEF DumpDone
  <2>3. Plan(m) \subseteq Blobs
    BY <2>0, PlanCovers, ClosureInBlobs
  <2>4. man' \in Images \cup {None} /\ toSend' \subseteq Blobs
    BY <1>9, <2>0, <2>3 DEF DumpDone, Plan
  <2>5. todo' \in Seq(Words) /\ reported' \subseteq Refs
    BY <1>9, <2>0, RestOfLine DEF DumpDone, Dumps
  <2>6. pc' \in {"loop", "layout"} /\ failedCount' = failedCount /\ result' = result
    BY <1>9 DEF DumpDone
  <2> QED
    BY <1>9, <2>1, <2>2, <2>4, <2>5, <2>6 DEF DumpDone
<1>10. CASE DryRun
  <2>0. Ref \in Refs /\ todo # <<>> /\ pool["peer"] \in SUBSET Blobs
    BY <1>10 DEF DryRun, Sides
  <2>1. man' \in Images
    BY <1>10, <2>0, PooledIsImage DEF DryRun, CanCopy, Tags, Sides
  <2>2. todo' \in Seq(Words) /\ reported' \subseteq Refs
    BY <1>10, <2>0, RestOfLine DEF DryRun
  <2>3. toSend' \subseteq Blobs
    <3>1. toSend' = Plan(man')
      BY <1>10 DEF DryRun, Plan
    <3> QED
      BY <2>1, <3>1, PlanCovers, ClosureInBlobs
  <2> QED
    BY <1>10, <2>1, <2>2, <2>3 DEF DryRun
<1>11. CASE ReadPeerManifest
  <2>0. Ref \in Refs /\ pool["peer"] \in SUBSET Blobs
    BY <1>11 DEF ReadPeerManifest, Sides
  <2>1. man' \in Images
    BY <1>11, <2>0, PooledIsImage DEF ReadPeerManifest, Tags, Sides
  <2>2. toSend' \subseteq Blobs
    <3>1. toSend' = Plan(man')
      BY <1>11 DEF ReadPeerManifest, Plan
    <3> QED
      BY <2>1, <3>1, PlanCovers, ClosureInBlobs
  <2> QED
    BY <1>11, <2>1, <2>2 DEF ReadPeerManifest
<1>12. CASE PutLayout
  <2>1. claims' \in [Sides -> Tags]
    BY <1>12, EndsAreSides, TagChanged DEF PutLayout
  <2>2. layout' \in [Sides -> SUBSET Refs]
    BY <1>12, EndsAreSides DEF PutLayout
  <2> QED
    BY <1>12, <2>1, <2>2 DEF PutLayout
<1>13. CASE PutIndex
  <2>1. index[Src][Ref] \in Images \cup {None} /\ Ref \in Refs
    BY <1>13, EndsAreSides DEF PutIndex, Tags
  <2>2. index' \in [Sides -> Tags]
    BY <1>13, <2>1, EndsAreSides, TagChanged DEF PutIndex
  <2> QED
    BY <1>13, <2>2 DEF PutIndex
<1>14. CASE BlobsPut
  BY <1>14 DEF BlobsPut
<1>15. CASE Load
  <2>0. Ref \in Refs /\ todo # <<>> /\ man \in Images /\ index[Dst][Ref] = man
    BY <1>15 DEF Load
  <2>1. live' \in [Sides -> Tags]
    BY <1>15, <2>0, EndsAreSides, TagChanged DEF Load, IntoLive
  <2>4. store' \in [Sides -> SUBSET Blobs]
    <3>1. Layers[man] \in SUBSET Blobs
      BY <2>0, ClosureInBlobs
    <3>2. store' = store \/ store' = [store EXCEPT ![Dst] = @ \cup Layers[man]]
      BY ONLY <1>15, <2>0 DEF Load, IntoLive
    <3> QED
      BY <3>1, <3>2, EndsAreSides
  <2>2. claims' \in [Sides -> Tags]
    BY <1>15, <2>0, EndsAreSides, TagChanged DEF Load
  <2>3. todo' \in Seq(Words)
    BY <1>15, <2>0, RestOfLine DEF Load
  <2> QED
    BY <1>15, <2>0, <2>1, <2>2, <2>3, <2>4 DEF Load
<1>16. CASE ImageError
  BY <1>16, RestOfLine DEF ImageError
<1>17. CASE ImageFault
  BY <1>17, RestOfLine DEF ImageFault
<1>18. CASE AnswerLost
  <2>0. Ref \in Refs /\ todo # <<>>
    BY <1>18 DEF AnswerLost
  <2>1. layout' \in [Sides -> SUBSET Refs]
    BY <1>18, <2>0, EndsAreSides DEF AnswerLost
  <2>2. index' \in [Sides -> Tags]
    <3>1. PICK m \in Images \cup {None} : m = index[Src][Ref]
      BY <2>0, EndsAreSides DEF Tags
    <3>2. index' = index \/ index' = [index EXCEPT ![Dst][Ref] = m]
      BY ONLY <1>18, <3>1 DEF AnswerLost, disk
    <3>3. index \in [Sides -> Tags] /\ Dst \in Sides
      BY EndsAreSides
    <3>4. [index EXCEPT ![Dst][Ref] = m] \in [Sides -> Tags]
      BY ONLY <2>0, <3>1, <3>3, TagChanged
    <3> QED
      BY ONLY <3>2, <3>3, <3>4
  <2>3. live' \in [Sides -> Tags] /\ store' \in [Sides -> SUBSET Blobs]
    <3>1. CASE UNCHANGED <<live, store>>
      BY <3>1
    <3>2. CASE pc = "load" /\ IntoLive
      <4>1. man \in Images /\ index[Dst][Ref] = man
        BY <3>2
      <4>2. /\ live' = [live EXCEPT ![Dst][Ref] = man]
            /\ store' = [store EXCEPT ![Dst] = @ \cup Layers[man]]
        BY ONLY <3>2, <4>1 DEF IntoLive
      <4>3. Layers[man] \in SUBSET Blobs
        BY <4>1, ClosureInBlobs
      <4>4. live' \in [Sides -> Tags]
        BY <2>0, <4>1, <4>2, EndsAreSides, TagChanged
      <4>5. store' \in [Sides -> SUBSET Blobs]
        BY <4>2, <4>3, EndsAreSides
      <4> QED
        BY <4>4, <4>5
    <3> QED
      BY ONLY <1>18, <3>1, <3>2 DEF AnswerLost
  <2>4. claims' \in [Sides -> Tags]
    BY <1>18, <2>0, EndsAreSides, TagChanged DEF AnswerLost
  <2>5. todo' \in Seq(Words)
    BY <1>18, <2>0, RestOfLine DEF AnswerLost
  <2> QED
    BY <1>18, <2>1, <2>2, <2>3, <2>4, <2>5 DEF AnswerLost
<1>19. CASE RunFault
  <2>1. faults' \in Nat
    BY <1>19 DEF RunFault
  <2>2. hit' \in BOOLEAN
    BY <1>19 DEF RunFault
  <2> QED
    BY <1>19, <2>1, <2>2 DEF RunFault
<1>20. CASE Cancel
  BY <1>20 DEF Cancel
<1>21. CASE Crash
  BY <1>21 DEF Crash
<1>22. ASSUME NEW p \in Builds, Build(p[1], p[2])
       PROVE  TypeOK'
  <2>0. p[1] \in Refs /\ p[2] \in Images /\ "local" \in Sides
    BY EnvAssumption DEF Sides
  <2>1. live' \in [Sides -> Tags] /\ claims' \in [Sides -> Tags]
    BY <1>22, <2>0, TagChanged DEF Build
  <2>2. store' \in [Sides -> SUBSET Blobs]
    BY <1>22, <2>0, SideGrows, ClosureInBlobs DEF Build
  <2> QED
    BY <1>22, <2>1, <2>2 DEF Build
<1>23. ASSUME NEW r \in Removals, Remove(r)
       PROVE  TypeOK'
  <2>0. r \in Refs /\ "local" \in Sides
    BY EnvAssumption DEF Sides
  <2>1. live' \in [Sides -> Tags] /\ claims' \in [Sides -> Tags]
    BY <1>23, <2>0, TagChanged DEF Remove
  <2>2. LayersOf(live'["local"]) \in SUBSET Blobs
    BY <2>0, <2>1, LayersInBlobs
  <2>3. store' \in [Sides -> SUBSET Blobs]
    BY <1>23, <2>0, <2>2 DEF Remove
  <2>4. faults' \in Nat /\ hit' = TRUE
    BY <1>23 DEF Remove
  <2>5. UNCHANGED <<disk, cmd, todo, pc, have, image, reported, failedCount, result, cancelled>>
    BY <1>23 DEF Remove
  <2> QED
    BY <2>1, <2>3, <2>4, <2>5
<1>24. ASSUME NEW p \in Others, PeerGets(p[1], p[2])
       PROVE  TypeOK'
  <2>0. p[1] \in Refs /\ p[2] \in Images /\ "peer" \in Sides
    BY EnvAssumption DEF Sides
  <2>1. index' \in [Sides -> Tags] /\ claims' \in [Sides -> Tags]
    BY <1>24, <2>0, TagChanged DEF PeerGets
  <2>2. layout' \in [Sides -> SUBSET Refs] /\ pool' \in [Sides -> SUBSET Blobs]
    BY <1>24, <2>0, SideGrows, ClosureInBlobs DEF PeerGets
  <2> QED
    BY <1>24, <2>1, <2>2 DEF PeerGets
<1> QED
  BY <1>1, <1>2, <1>3, <1>4, <1>5, <1>6, <1>7, <1>8, <1>9, <1>10, <1>11, <1>12,
     <1>13, <1>14, <1>15, <1>16, <1>17, <1>18, <1>19, <1>20, <1>21, <1>22,
     <1>23, <1>24 DEF Next, Step

-----------------------------------------------------------------------------
(* RunOK and HaveOK.                                                       *)

\* Between two images there is nothing to keep but the command line.
LEMMA BetweenImages ==
  ASSUME RunOK, ~Idle, cmd' = cmd, pc' \in {"idle", "loop"}
  PROVE  RunOK'
BY DEF RunOK, Idle, OnImage

\* Within an image the ends and the ref stay.
LEMMA SameImage ==
  ASSUME UNCHANGED <<cmd, todo>>
  PROVE  Src' = Src /\ Dst' = Dst /\ Ref' = Ref
BY DEF Src, Dst, Ref

\* Every step keeps RunOK.
LEMMA RunStep ==
  ASSUME TypeOK, RunOK, Next
  PROVE  RunOK'
<1> USE DEF Idle, world, disk, image, report, env
<1>1. ASSUME NEW c \in Commands, Start(c)
      PROVE  RunOK'
  BY <1>1 DEF Start, RunOK, OnImage
<1>2. CASE EnumeratePeer \/ EnumerateLocal
  BY <1>2, BetweenImages DEF EnumeratePeer, ListBlobs, EnumerateLocal
<1>3. CASE NextImage
  <2>1. CASE Ref \in Refs
    BY <1>3, <2>1, SameImage DEF NextImage, RunOK, OnImage
  <2>2. CASE Ref \notin Refs
    BY <1>3, <2>2, BetweenImages DEF NextImage, ImageFailed, End
  <2> QED
    BY <2>1, <2>2
<1>4. CASE LoopCancelled \/ Finish \/ RunFault
  BY <1>4, BetweenImages DEF LoopCancelled, Finish, RunFault, End
<1>5. CASE ImageError \/ ImageFault \/ AnswerLost
  BY <1>5, BetweenImages
     DEF ImageError, ImageFault, AnswerLost, OnImage, ImageFailed, End
<1>6. CASE Load \/ DryRun
  BY <1>6, BetweenImages DEF Load, DryRun, ImageDone
<1>7. CASE Crash
  BY <1>7 DEF Crash, End, RunOK, OnImage
<1>8. ASSUME NEW d \in Blobs, DumpBlob(d) \/ SendBlob(d)
      PROVE  RunOK'
  <2>1. \A s \in Sides : pool[s] \subseteq pool'[s]
    BY <1>8 DEF DumpBlob, SendBlob, TypeOK
  <2> QED
    BY <1>8, <2>1, SameImage, EndsAreSides DEF DumpBlob, SendBlob, Dumps, RunOK, OnImage
<1>9. CASE DumpDone
  <2>1. CASE cmd.op = "dump"
    BY <1>9, <2>1, BetweenImages DEF DumpDone, Dumps, ImageDone
  <2>2. CASE cmd.op = "push"
    <3>1. live["local"][Ref] \in Images
      BY <1>9 DEF DumpDone, Dumps, CanCopy, TypeOK, RunOK, OnImage, Tags, Sides
    <3>2. man' \in Images /\ toSend' = Plan(man') /\ have' = have
      BY <1>9, <2>2, <3>1 DEF DumpDone, Plan
    <3>3. Closure(man') \subseteq toSend' \cup have'
      BY <3>2, PlanCovers
    <3>4. index'["local"][Ref] = man'
      <4>1. index \in [Sides -> Tags] /\ Ref \in Refs /\ "local" \in Sides
        BY <1>9 DEF DumpDone, Dumps, TypeOK, RunOK, OnImage, Sides
      <4>2. index' = [index EXCEPT !["local"][Ref] = man']
        BY <1>9, <2>2 DEF DumpDone
      <4> QED
        BY ONLY <4>1, <4>2 DEF Tags
    <3>5. Src' = "local" /\ Ref' = Ref
      BY <1>9, <2>2, SameImage DEF DumpDone, Src
    <3> QED
      BY <1>9, <2>2, <3>2, <3>3, <3>4, <3>5 DEF DumpDone, Dumps, RunOK, OnImage
  <2> QED
    BY <1>9, <2>1, <2>2 DEF DumpDone, Dumps
<1>10. CASE ReadPeerManifest
  <2>1. man' \in Images
    BY <1>10, PooledIsImage DEF ReadPeerManifest, TypeOK, RunOK, OnImage, Tags, Sides
  <2>2. toSend' = Plan(man') /\ have' = have
    BY <1>10 DEF ReadPeerManifest, Plan
  <2>3. Closure(man') \subseteq toSend' \cup have'
    BY <2>1, <2>2, PlanCovers
  <2>4. Src' = "peer" /\ Ref' = Ref
    BY <1>10, SameImage DEF ReadPeerManifest, Src
  <2> QED
    BY <1>10, <2>1, <2>3, <2>4 DEF ReadPeerManifest, RunOK, OnImage
<1>11. CASE PutLayout
  <2>1. Src' = Src /\ Dst' = Dst /\ Ref' = Ref
    BY <1>11, SameImage DEF PutLayout
  <2>2. Ref \in layout'[Dst] /\ claims'[Dst][Ref] = None
    <3>1. /\ claims \in [Sides -> Tags] /\ layout \in [Sides -> SUBSET Refs]
          /\ Ref \in Refs
      BY <1>11 DEF PutLayout, TypeOK, RunOK, OnImage
    <3>2. /\ claims' = [claims EXCEPT ![Dst][Ref] = None]
          /\ layout' = [layout EXCEPT ![Dst] = @ \cup {Ref}]
      BY <1>11 DEF PutLayout
    <3>3. claims'[Dst][Ref] = None
      BY ONLY <3>1, <3>2, EndsAreSides DEF Tags
    <3>4. Ref \in layout'[Dst]
      BY ONLY <3>1, <3>2, EndsAreSides
    <3> QED
      BY <3>3, <3>4
  <2> QED
    BY <1>11, <2>1, <2>2 DEF PutLayout, RunOK, OnImage
<1>12. CASE PutIndex
  <2>1. Src' = Src /\ Dst' = Dst /\ Ref' = Ref
    BY <1>12, SameImage DEF PutIndex
  <2>2. index'[Dst][Ref] = man /\ index'[Src][Ref] = man
    <3>1. index \in [Sides -> Tags] /\ Ref \in Refs /\ index[Src][Ref] = man
      BY <1>12 DEF PutIndex, TypeOK, RunOK, OnImage
    <3>2. index' = [index EXCEPT ![Dst][Ref] = man]
      BY <1>12, <3>1 DEF PutIndex
    <3> QED
      BY ONLY <3>1, <3>2, EndsAreSides DEF Tags
  <2> QED
    BY <1>12, <2>1, <2>2 DEF PutIndex, RunOK, OnImage
<1>13. CASE BlobsPut
  BY <1>13, SameImage DEF BlobsPut, RunOK, OnImage
<1>14. CASE Cancel
  BY <1>14, SameImage DEF Cancel, RunOK, OnImage
<1>15. ASSUME NEW p \in Builds, Build(p[1], p[2])
       PROVE  RunOK'
  <2>1. Src' = Src /\ Dst' = Dst /\ Ref' = Ref
    BY <1>15, SameImage DEF Build
  <2>2. p[1] \in Refs /\ "local" \in Sides
    BY EnvAssumption DEF Sides
  <2>3. \A s \in Sides, q \in Refs : claims'[s][q] \in {claims[s][q], None}
    BY <1>15, <2>2, OtherTagsStay DEF Build, TypeOK
  <2>4. UNCHANGED <<disk, cmd, todo, pc, have, image, cancelled>>
    BY <1>15 DEF Build
  <2> QED
    BY <2>1, <2>3, <2>4, EndsAreSides DEF RunOK, OnImage
<1>16. ASSUME NEW r \in Removals, Remove(r)
       PROVE  RunOK'
  <2>1. Src' = Src /\ Dst' = Dst /\ Ref' = Ref
    BY <1>16, SameImage DEF Remove
  <2>2. r \in Refs /\ "local" \in Sides
    BY EnvAssumption DEF Sides
  <2>3. \A s \in Sides, q \in Refs : claims'[s][q] \in {claims[s][q], None}
    BY <1>16, <2>2, OtherTagsStay DEF Remove, TypeOK
  <2>4. UNCHANGED <<disk, cmd, todo, pc, have, image, cancelled>>
    BY <1>16 DEF Remove
  <2> QED
    BY <2>1, <2>3, <2>4, EndsAreSides DEF RunOK, OnImage
<1>17. ASSUME NEW p \in Others, PeerGets(p[1], p[2])
       PROVE  RunOK'
  BY <1>17 DEF PeerGets, RunOK, OnImage
<1> QED
  BY <1>1, <1>2, <1>3, <1>4, <1>5, <1>6, <1>7, <1>8, <1>9, <1>10, <1>11, <1>12,
     <1>13, <1>14, <1>15, <1>16, <1>17 DEF Next, Step

\* An image is a blob, and so not None.
LEMMA ImageIsSome ==
  ASSUME NEW m \in Images
  PROVE  m # None
BY NoneAssumption, ClosureInBlobs DEF Closure

\* What a step does to the mirrors of the two sides.
MirrorsKept ==
  \A s \in Sides : /\ pool[s] \subseteq pool'[s]
                   /\ layout[s] \subseteq layout'[s]
                   /\ \A r \in Refs : index[s][r] # None => index'[s][r] # None

\* No step takes anything from the mirrors.
LEMMA MirrorsStep ==
  ASSUME TypeOK, RunOK, Next
  PROVE  MirrorsKept
<1> USE DEF disk, world, MirrorsKept
<1>1. ASSUME NEW d \in Blobs, DumpBlob(d) \/ SendBlob(d)
      PROVE  MirrorsKept
  BY <1>1 DEF DumpBlob, SendBlob, TypeOK
<1>2. CASE DumpDone
  <2> DEFINE m == live["local"][Ref]
  <2>1. m # None /\ Ref \in Refs
    BY <1>2 DEF DumpDone, Dumps, CanCopy, RunOK, OnImage
  <2>2. /\ index' = [index EXCEPT !["local"][Ref] = m]
        /\ layout' = [layout EXCEPT !["local"] = @ \cup {Ref}]
        /\ UNCHANGED pool
    BY <1>2 DEF DumpDone
  <2> HIDE DEF m
  <2> QED
    BY <2>1, <2>2 DEF TypeOK, Tags
<1>3. CASE PutLayout
  BY <1>3 DEF PutLayout, TypeOK
<1>4. CASE PutIndex
  <2>1. man # None /\ index' = [index EXCEPT ![Dst][Ref] = man]
    BY <1>4, ImageIsSome DEF PutIndex, RunOK
  <2>2. UNCHANGED <<pool, layout>>
    BY <1>4 DEF PutIndex
  <2> QED
    BY <2>1, <2>2, EndsAreSides DEF TypeOK, Tags
<1>5. CASE AnswerLost
  <2>1. CASE pc = "layout"
    BY <1>5, <2>1 DEF AnswerLost, TypeOK
  <2>2. CASE pc = "index"
    <3>1. man # None /\ index' = [index EXCEPT ![Dst][Ref] = man]
      BY <1>5, <2>2, ImageIsSome DEF AnswerLost, RunOK
    <3>2. UNCHANGED <<pool, layout>>
      BY <1>5, <2>2 DEF AnswerLost
    <3> QED
      BY <3>1, <3>2, EndsAreSides DEF TypeOK, Tags
  <2>3. CASE pc = "load"
    BY <1>5, <2>3 DEF AnswerLost
  <2> QED
    BY <1>5, <2>1, <2>2, <2>3 DEF AnswerLost
<1>6. ASSUME NEW p \in Others, PeerGets(p[1], p[2])
      PROVE  MirrorsKept
  <2>1. p[2] # None
    BY EnvAssumption, ImageIsSome
  <2> QED
    BY <1>6, <2>1 DEF PeerGets, TypeOK, Tags
<1>7. ASSUME UNCHANGED disk
      PROVE  MirrorsKept
  BY <1>7
<1>8. ASSUME NEW c \in Commands, Start(c)
      PROVE  UNCHANGED disk
  BY <1>8 DEF Start
<1>9. CASE \/ EnumeratePeer \/ EnumerateLocal \/ NextImage \/ LoopCancelled \/ Finish
           \/ DryRun \/ ReadPeerManifest \/ BlobsPut \/ Load
  BY <1>7, <1>9 DEF EnumeratePeer, ListBlobs, EnumerateLocal, NextImage, LoopCancelled, Finish,
                    DryRun, ReadPeerManifest, BlobsPut, Load
<1>10. CASE ImageError \/ ImageFault \/ RunFault \/ Cancel \/ Crash
  BY <1>7, <1>10 DEF ImageError, ImageFault, RunFault, Cancel, Crash
<1>11. ASSUME NEW p \in Builds, Build(p[1], p[2])
       PROVE  UNCHANGED disk
  BY <1>11 DEF Build
<1>12. ASSUME NEW r \in Removals, Remove(r)
       PROVE  UNCHANGED disk
  BY <1>12 DEF Remove
<1> QED
  BY <1>1, <1>2, <1>3, <1>4, <1>5, <1>6, <1>7, <1>8, <1>9, <1>10, <1>11, <1>12
     DEF Next, Step

\* What is counted on was listed, or named by the user, and stays.
LEMMA HaveStep ==
  ASSUME TypeOK, RunOK, HaveOK, Next
  PROVE  HaveOK'
<1>0. pool["peer"] \subseteq pool'["peer"]
  BY MirrorsStep DEF MirrorsKept, Sides
<1> USE DEF Idle
<1>1. ASSUME NEW c \in Commands, Start(c)
      PROVE  HaveOK'
  BY <1>1 DEF Start, HaveOK, Usable, world, disk
<1>2. CASE EnumeratePeer
  BY <1>2 DEF EnumeratePeer, ListBlobs, HaveOK, world, disk
<1>3. CASE EnumerateLocal
  BY <1>3 DEF EnumerateLocal, HaveOK
<1>4. CASE Crash
  BY <1>4 DEF Crash, HaveOK, End
<1>5. ASSUME UNCHANGED <<cmd, have>>, ~Idle
      PROVE  HaveOK'
  BY <1>0, <1>5 DEF HaveOK
<1>6. CASE \/ NextImage \/ LoopCancelled \/ Finish
           \/ DumpDone \/ DryRun \/ ReadPeerManifest
           \/ PutLayout \/ PutIndex \/ BlobsPut \/ Load
  BY <1>5, <1>6 DEF NextImage, LoopCancelled, Finish, DumpDone, Dumps, DryRun,
                    ReadPeerManifest, PutLayout, PutIndex, BlobsPut, Load
<1>7. CASE ImageError \/ ImageFault \/ AnswerLost \/ RunFault \/ Cancel
  BY <1>5, <1>7 DEF ImageError, ImageFault, AnswerLost, RunFault, Cancel, OnImage
<1>8. ASSUME NEW d \in Blobs, DumpBlob(d) \/ SendBlob(d)
      PROVE  HaveOK'
  BY <1>5, <1>8 DEF DumpBlob, SendBlob, Dumps
<1>9. ASSUME UNCHANGED <<cmd, have, pc>>
      PROVE  HaveOK'
  BY <1>0, <1>9 DEF HaveOK
<1>10. ASSUME NEW p \in Builds, Build(p[1], p[2])
       PROVE  HaveOK'
  BY <1>9, <1>10 DEF Build
<1>11. ASSUME NEW r \in Removals, Remove(r)
       PROVE  HaveOK'
  BY <1>9, <1>11 DEF Remove
<1>12. ASSUME NEW p \in Others, PeerGets(p[1], p[2])
       PROVE  HaveOK'
  BY <1>9, <1>12 DEF PeerGets
<1> QED
  BY <1>1, <1>2, <1>3, <1>4, <1>6, <1>7, <1>8, <1>10, <1>11, <1>12 DEF Next, Step

-----------------------------------------------------------------------------
(* The claims.                                                             *)

\* A claim stands as long as its tag does and nothing it needs goes away.
LEMMA ClaimKept ==
  ASSUME NEW s, NEW r, ClaimOK(s, r),
         pool[s] \subseteq pool'[s], layout[s] \subseteq layout'[s],
         claims'[s][r] \in {claims[s][r], None},
         claims'[s][r] # None =>
           /\ index'[s][r] = index[s][r] /\ live'[s][r] = live[s][r]
           /\ Layers[claims[s][r]] \cap store[s] \subseteq store'[s]
  PROVE  ClaimOK(s, r)'
BY DEF ClaimOK, Delivered, Closure, Usable, Live

\* A load that succeeds delivers: live storage by its own check, and an oci: peer
\* because the plan and what was counted on are in its pool.
LEMMA LoadDelivers ==
  ASSUME TypeOK, RunOK, HaveOK, Load,
         NEW s, NEW r, s = Dst, r = Ref, Reliable(s)
  PROVE  ClaimOK(s, r)'
<1>0. /\ man \in Images /\ s \in Sides /\ r \in Refs /\ index[s][r] = man /\ r \in layout[s]
      /\ claims[s][r] = None /\ pc = "load"
  BY EndsAreSides DEF Load, RunOK, OnImage
<1>1. UNCHANGED disk
  BY DEF Load
<1>2. CASE cancelled
  <2>1. claims' = claims
    BY <1>2 DEF Load
  <2> QED
    BY <1>0, <2>1 DEF ClaimOK
<1>3. CASE ~cancelled
  <2>1. claims' = [claims EXCEPT ![s][r] = man]
    BY <1>3 DEF Load
  <2>2. claims'[s][r] = man
    BY ONLY <1>0, <2>1, TypeOK DEF TypeOK, Tags
  <2>3. CASE Live(s)
    <3>1. Loadable /\ IntoLive
      BY <2>3 DEF Load
    <3>2. live'[s][r] = man
      BY <1>0, <3>1 DEF IntoLive, TypeOK, Tags
    <3>3. {man, Config[man]} \subseteq pool[s] /\ Layers[man] \subseteq Usable(s)
      BY <1>0, <3>1 DEF Loadable
    <3>4. store[s] \subseteq store'[s]
      BY <3>1 DEF IntoLive, TypeOK
    <3> QED
      BY <1>0, <1>1, <2>2, <3>2, <3>3, <3>4
         DEF ClaimOK, Delivered, Closure, Usable, Live, disk
  <2>4. CASE ~Live(s)
    <3>1. cmd.op = "push" /\ s = "peer"
      BY <2>4 DEF Reliable, Dst
    <3>2. have \subseteq pool[s] /\ toSend \subseteq pool[s]
      BY <1>0, <1>3, <2>4, <3>1 DEF HaveOK, RunOK, Idle
    <3>3. Closure(man) \subseteq pool[s]
      BY <1>0, <3>2 DEF RunOK
    <3> QED
      BY <1>0, <1>1, <2>2, <2>4, <3>3
         DEF ClaimOK, Delivered, Closure, Usable, Live, disk
  <2> QED
    BY <2>3, <2>4
<1> QED
  BY <1>2, <1>3

\* Every step keeps every claim that can be relied on.
LEMMA ClaimStep ==
  ASSUME TypeOK, RunOK, HaveOK, Next,
         NEW s \in Sides, NEW r \in Refs, Reliable(s), ClaimOK(s, r)
  PROVE  ClaimOK(s, r)'
<1>0. pool[s] \subseteq pool'[s] /\ layout[s] \subseteq layout'[s]
  BY MirrorsStep DEF MirrorsKept
<1>K. ASSUME UNCHANGED <<live, store, index, claims>>
      PROVE  ClaimOK(s, r)'
  BY <1>0, <1>K, ClaimKept
<1>1. ASSUME NEW c \in Commands, Start(c)
      PROVE  ClaimOK(s, r)'
  BY <1>K, <1>1 DEF Start, world, disk
<1>2. CASE \/ EnumeratePeer \/ EnumerateLocal \/ NextImage \/ LoopCancelled \/ Finish
           \/ DryRun \/ ReadPeerManifest \/ BlobsPut
  BY <1>K, <1>2 DEF EnumeratePeer, ListBlobs, EnumerateLocal, NextImage, LoopCancelled, Finish,
                    DryRun, ReadPeerManifest, BlobsPut, world, disk, report
<1>3. CASE ImageError \/ ImageFault \/ RunFault \/ Cancel \/ Crash
  BY <1>K, <1>3 DEF ImageError, ImageFault, RunFault, Cancel, Crash, world, disk, report
<1>4. ASSUME NEW d \in Blobs, DumpBlob(d) \/ SendBlob(d)
      PROVE  ClaimOK(s, r)'
  BY <1>K, <1>4 DEF DumpBlob, SendBlob, report
<1>5. CASE DumpDone
  <2>1. /\ claims' = [claims EXCEPT !["local"][Ref] = None]
        /\ index' = [index EXCEPT !["local"][Ref] = live["local"][Ref]]
        /\ UNCHANGED <<live, store>>
    BY <1>5 DEF DumpDone
  <2>2. Ref \in Refs /\ "local" \in Sides
    BY <1>5 DEF DumpDone, Dumps, RunOK, OnImage, Sides
  <2>3. claims'[s][r] # None => index'[s][r] = index[s][r]
    BY <2>1, <2>2 DEF TypeOK, Tags
  <2>4. claims'[s][r] \in {claims[s][r], None}
    BY <2>1, <2>2 DEF TypeOK, Tags
  <2> QED
    BY <1>0, <2>1, <2>3, <2>4, ClaimKept
<1>6. CASE PutLayout
  <2>1. /\ claims' = [claims EXCEPT ![Dst][Ref] = None]
        /\ UNCHANGED <<live, store, index>>
    BY <1>6 DEF PutLayout
  <2>2. claims'[s][r] \in {claims[s][r], None}
    BY <2>1 DEF TypeOK, Tags
  <2> QED
    BY <1>0, <2>1, <2>2, ClaimKept
<1>7. CASE PutIndex
  <2>1. /\ index' = [index EXCEPT ![Dst][Ref] = index[Src][Ref]]
        /\ UNCHANGED <<live, store, claims>>
    BY <1>7 DEF PutIndex, report
  <2>2. claims[Dst][Ref] = None
    BY <1>7 DEF PutIndex, RunOK
  <2>3. claims'[s][r] # None => index'[s][r] = index[s][r]
    BY <2>1, <2>2 DEF TypeOK, Tags
  <2> QED
    BY <1>0, <2>1, <2>3, ClaimKept
<1>8. CASE Load
  <2>1. CASE s = Dst /\ r = Ref
    BY <1>8, <2>1, LoadDelivers
  <2>2. CASE ~(s = Dst /\ r = Ref)
    <3>1. claims'[s][r] = claims[s][r] /\ live'[s][r] = live[s][r]
      BY <1>8, <2>2 DEF Load, IntoLive, TypeOK, Tags
    <3>2. index' = index /\ store[s] \subseteq store'[s]
      BY <1>8 DEF Load, IntoLive, TypeOK, disk
    <3> QED
      BY <1>0, <3>1, <3>2, ClaimKept
  <2> QED
    BY <2>1, <2>2
<1>9. CASE AnswerLost
  <2>1. claims' = [claims EXCEPT ![Dst][Ref] = None]
    BY <1>9 DEF AnswerLost
  <2>2. claims'[s][r] \in {claims[s][r], None}
    BY <2>1 DEF TypeOK, Tags
  <2>3. store[s] \subseteq store'[s]
    BY <1>9 DEF AnswerLost, IntoLive, TypeOK
  <2>4. claims'[s][r] # None => ~(s = Dst /\ r = Ref)
    BY <2>1 DEF TypeOK, Tags
  <2>5. ~(s = Dst /\ r = Ref) => index'[s][r] = index[s][r]
    BY <1>9 DEF AnswerLost, TypeOK, Tags, disk
  <2>6. ~(s = Dst /\ r = Ref) => live'[s][r] = live[s][r]
    <3>1. live' = live \/ live' = [live EXCEPT ![Dst][Ref] = index[Dst][Ref]]
      BY ONLY <1>9 DEF AnswerLost, IntoLive
    <3> QED
      BY <3>1 DEF TypeOK, Tags
  <2> QED
    BY <1>0, <2>2, <2>3, <2>4, <2>5, <2>6, ClaimKept
<1>10. ASSUME NEW p \in Builds, Build(p[1], p[2])
       PROVE  ClaimOK(s, r)'
  <2>1. /\ claims' = [claims EXCEPT !["local"][p[1]] = None]
        /\ live' = [live EXCEPT !["local"][p[1]] = p[2]]
        /\ UNCHANGED index
    BY <1>10 DEF Build, disk
  <2>2. store[s] \subseteq store'[s]
    BY <1>10 DEF Build, TypeOK
  <2>3. claims'[s][r] # None => live'[s][r] = live[s][r]
    BY <2>1 DEF TypeOK, Tags
  <2>4. claims'[s][r] \in {claims[s][r], None}
    BY <2>1 DEF TypeOK, Tags
  <2> QED
    BY <1>0, <2>1, <2>2, <2>3, <2>4, ClaimKept
<1>11. ASSUME NEW q \in Removals, Remove(q)
       PROVE  ClaimOK(s, r)'
  <2>1. /\ claims' = [claims EXCEPT !["local"][q] = None]
        /\ live' = [live EXCEPT !["local"][q] = None]
        /\ store' = [store EXCEPT !["local"] = LayersOf(live'["local"])]
        /\ UNCHANGED index
    BY <1>11 DEF Remove, disk
  <2>2. claims'[s][r] # None => live'[s][r] = live[s][r]
    BY <2>1 DEF TypeOK, Tags
  <2>3. claims'[s][r] \in {claims[s][r], None}
    BY <2>1 DEF TypeOK, Tags
  <2>4. ASSUME claims'[s][r] # None
        PROVE  Layers[claims[s][r]] \cap store[s] \subseteq store'[s]
    <3>1. CASE s # "local"
      BY <2>1, <3>1 DEF TypeOK
    <3>2. CASE s = "local"
      <4>1. Live(s)
        BY <3>2 DEF Reliable
      <4>2. live'[s][r] = claims[s][r] /\ claims[s][r] # None
        BY <2>2, <2>3, <2>4, <4>1 DEF ClaimOK, Delivered
      <4>3. Layers[claims[s][r]] \subseteq LayersOf(live'[s])
        BY <4>2 DEF LayersOf
      <4>4. store'[s] = LayersOf(live'[s])
        BY <2>1, <3>2 DEF TypeOK
      <4> QED
        BY <4>3, <4>4
    <3> QED
      BY <3>1, <3>2
  <2> QED
    BY <1>0, <2>1, <2>2, <2>3, <2>4, ClaimKept
<1>12. ASSUME NEW p \in Others, PeerGets(p[1], p[2])
       PROVE  ClaimOK(s, r)'
  <2>1. /\ claims' = [claims EXCEPT !["peer"][p[1]] = None]
        /\ index' = [index EXCEPT !["peer"][p[1]] = p[2]]
        /\ UNCHANGED <<live, store>>
    BY <1>12 DEF PeerGets
  <2>2. claims'[s][r] # None => index'[s][r] = index[s][r]
    BY <2>1 DEF TypeOK, Tags
  <2>3. claims'[s][r] \in {claims[s][r], None}
    BY <2>1 DEF TypeOK, Tags
  <2> QED
    BY <1>0, <2>1, <2>2, <2>3, ClaimKept
<1> QED
  BY <1>1, <1>2, <1>3, <1>4, <1>5, <1>6, <1>7, <1>8, <1>9, <1>10, <1>11, <1>12
     DEF Next, Step

-----------------------------------------------------------------------------
(* The theorems.                                                           *)

\* The invariant holds at first and is kept by every step.
LEMMA InvariantInit == Init => IInv
<1> SUFFICES ASSUME Init PROVE IInv
  OBVIOUS
<1>1. TypeOK
  BY TypeInit
<1>2. RunOK /\ HaveOK
  BY DEF Init, RunOK, HaveOK, Idle, OnImage
<1>3. \A s \in Sides, r \in Refs : ClaimOK(s, r)
  BY DEF Init, ClaimOK
<1> QED
  BY <1>1, <1>2, <1>3 DEF IInv

\* Every step of a run, every fault and every change from outside keeps the invariant.
LEMMA InvariantStep == IInv /\ [Next]_vars => IInv'
<1> SUFFICES ASSUME IInv, [Next]_vars PROVE IInv'
  OBVIOUS
<1>1. CASE Next
  <2>1. TypeOK' /\ RunOK' /\ HaveOK'
    BY <1>1, TypeStep, RunStep, HaveStep DEF IInv
  <2>2. ASSUME NEW s \in Sides, NEW r \in Refs, Reliable(s)
        PROVE  ClaimOK(s, r)'
    BY <1>1, <2>2, ClaimStep DEF IInv
  <2>3. \A s \in Sides : Reliable(s)' = Reliable(s)
    BY DEF Reliable, Live
  <2> QED
    BY <2>1, <2>2, <2>3 DEF IInv
<1>2. CASE UNCHANGED vars
  BY <1>2 DEF vars, world, disk, image, report, env, IInv, TypeOK, RunOK, HaveOK,
              ClaimOK, Delivered, Usable, Reliable, Live, Idle, OnImage, Src, Dst, Ref
<1> QED
  BY <1>1, <1>2

\* The inductive invariant of the runs of the command line.
THEOREM ShareInvariant == Spec => []IInv
<1> QED
  BY InvariantInit, InvariantStep, PTL DEF Spec

\* Every variable always has its type.
THEOREM ShareTypes == Spec => []TypeOK
<1>1. IInv => TypeOK
  BY DEF IInv
<1> QED
  BY <1>1, ShareInvariant, PTL

\* An image reported without an error (PushImageReport, PullImageReport) is at the
\* destination and stays there, if the local side is live storage.
THEOREM ReportsAreTrue ==
  ASSUME LocalTransport = "live"
  PROVE  Spec => []ReportedOkIsDelivered
<1>1. IInv => ReportedOkIsDelivered
  BY DEF IInv, ReportedOkIsDelivered, Reliable, ClaimOK, Live, Sides
<1> QED
  BY <1>1, ShareInvariant, PTL

\* Runs only add to the shared pools and the tag dirs of the two sides.
THEOREM NothingIsPruned == Spec => MirrorsGrow
<1>1. IInv /\ [Next]_vars => [MirrorsKept]_vars
  <2>1. ASSUME IInv, Next
        PROVE  MirrorsKept
    BY <2>1, MirrorsStep DEF IInv
  <2> QED
    BY <2>1
<1> QED
  BY <1>1, ShareInvariant, PTL DEF Spec, MirrorsGrow, MirrorsKept

\* --dry-run leaves both mirrors and the peer's live storage as they are.
DryRunKept ==
  cmd.dryRun /\ ~Idle => UNCHANGED disk /\ UNCHANGED <<live["peer"], store["peer"]>>

\* A step of a dry run changes neither mirror nor live storage of the peer.
LEMMA DryRunStep ==
  ASSUME TypeOK, RunOK, Next
  PROVE  DryRunKept
<1> USE DEF DryRunKept, Idle, world, disk
<1>1. CASE \/ EnumeratePeer \/ EnumerateLocal \/ NextImage \/ LoopCancelled \/ Finish
           \/ DryRun \/ ReadPeerManifest \/ BlobsPut
  BY <1>1 DEF EnumeratePeer, ListBlobs, EnumerateLocal, NextImage, LoopCancelled, Finish, DryRun,
              ReadPeerManifest, BlobsPut
<1>2. CASE ImageError \/ ImageFault \/ RunFault \/ Cancel \/ Crash
  BY <1>2 DEF ImageError, ImageFault, RunFault, Cancel, Crash
<1>3. ASSUME NEW d \in Blobs, DumpBlob(d) \/ SendBlob(d)
      PROVE  DryRunKept
  BY <1>3 DEF DumpBlob, SendBlob, Dumps, RunOK
<1>4. CASE DumpDone
  BY <1>4 DEF DumpDone, Dumps
<1>5. CASE PutLayout \/ PutIndex \/ Load \/ AnswerLost
  BY <1>5 DEF PutLayout, PutIndex, Load, AnswerLost, RunOK
<1>6. ASSUME NEW p \in Builds, Build(p[1], p[2])
      PROVE  DryRunKept
  BY <1>6 DEF Build, TypeOK
<1>7. ASSUME NEW r \in Removals, Remove(r)
      PROVE  DryRunKept
  BY <1>7 DEF Remove, TypeOK
<1>8. ASSUME NEW p \in Others, PeerGets(p[1], p[2])
      PROVE  DryRunKept
  BY <1>8 DEF PeerGets
<1>9. ASSUME NEW c \in Commands, Start(c)
      PROVE  DryRunKept
  BY <1>9 DEF Start
<1> QED
  BY <1>1, <1>2, <1>3, <1>4, <1>5, <1>6, <1>7, <1>8, <1>9 DEF Next, Step

\* PushArgs.DryRun: a dry run changes nothing.
THEOREM DryRunsAreDry == Spec => DryRunChangesNothing
<1>1. IInv /\ [Next]_vars => [DryRunKept]_vars
  <2>1. ASSUME IInv, Next
        PROVE  DryRunKept
    BY <2>1, DryRunStep DEF IInv
  <2> QED
    BY <2>1
<1> QED
  BY <1>1, ShareInvariant, PTL DEF Spec, DryRunChangesNothing, DryRunKept
=============================================================================
