------------------------- MODULE ShareOutcomeProofs -------------------------
(***************************************************************************)
(* What the outcome of a run says: its plan, its errors and its exit code, *)
(* proved for every set of images, refs and command lines.                 *)
(***************************************************************************)
EXTENDS ShareProofs

\* A layer is an archive, manifests and configs are JSON: no blob is both.
LayersApart == \A m, n \in Images : Layers[m] \cap {n, Config[n]} = {}

LayerBlobs == UNION {Layers[m] : m \in Images}

-----------------------------------------------------------------------------
(* The inductive invariant.                                                *)

\* Live storage holds the layers of its images.
StoreOK == \A s \in Sides, r \in Refs : live[s][r] # None => Layers[live[s][r]] \subseteq store[s]

\* The layers counted on are there, unless local images were removed meanwhile.
CountedOn == ~Idle /\ (Dst = "peer" \/ ~hit) =>
               /\ cmd.assume \subseteq Usable(Dst)
               /\ have \cap LayerBlobs \subseteq Usable(Dst)

\* The plan: manifest and config whatever the destination has, and nothing foreign.
\* What a push sends it has dumped.
PlanOK == InTransfer =>
            /\ {man, Config[man]} \subseteq toSend /\ toSend \subseteq Closure(man)
            /\ cmd.op = "push" => Ref \in layout["local"] /\ Closure(man) \subseteq pool["local"]

\* A word of the command line is still to do, is reported, or has failed, and it has
\* not failed for nothing.
Queued(w) == \E i \in DOMAIN todo : todo[i] = w
Excused(w) == w \in Refs => hit \/ ~SourceHas(cmd, w)
WordOK(w) == Queued(w) \/ w \in reported \/ (failedCount > 0 /\ Excused(w))
ArgOK == \A i \in DOMAIN cmd.args : WordOK(cmd.args[i])
Asked(w) == \E i \in DOMAIN cmd.args : cmd.args[i] = w
ErrorOK == hit \/ ~WellPut(cmd)

LoopOK == ~Idle => /\ result = "none"
                   /\ ArgOK
                   /\ \A i \in DOMAIN todo : Asked(todo[i])
                   /\ failedCount > 0 => ErrorOK

OutcomeInv == /\ cancelled => hit
              /\ StoreOK
              /\ CountedOn
              /\ PlanOK
              /\ LoopOK
              /\ NoSpuriousFailure /\ ExitOkMeansAllDone /\ KeepGoingTriesAll

-----------------------------------------------------------------------------
(* Live storage and the pools.                                             *)

\* Faults are remembered until the next run.
LEMMA HitStep ==
  ASSUME TypeOK, cancelled => hit, Next, ~(\E c \in Commands : Start(c))
  PROVE  (hit => hit') /\ (cancelled' => hit')
BY DEF TypeOK, Next, Step, EnumeratePeer, EnumerateLocal, NextImage, LoopCancelled, Finish,
       DumpBlob, SendBlob, DumpDone, DryRun, ReadPeerManifest, PutLayout, PutIndex, BlobsPut,
       Load, ImageError, ImageFault, AnswerLost, RunFault, Cancel, Crash, Build, Remove,
       PeerGets, SpendFault, env

\* A side loses layers only when somebody removes a local image.
LEMMA StoreGrows ==
  ASSUME TypeOK, Next, NEW s \in Sides
  PROVE  store[s] \subseteq store'[s] \/ (s = "local" /\ hit')
<1> USE DEF TypeOK
<1>1. CASE store' = store
  BY <1>1
<1>2. CASE Load \/ AnswerLost
  BY <1>2 DEF Load, AnswerLost, IntoLive
<1>3. ASSUME NEW p \in Builds, Build(p[1], p[2])
      PROVE  store[s] \subseteq store'[s]
  BY <1>3 DEF Build
<1>4. ASSUME NEW r \in Removals, Remove(r)
      PROVE  store[s] \subseteq store'[s] \/ (s = "local" /\ hit')
  BY <1>4 DEF Remove, SpendFault
<1>5. ASSUME NEW c \in Commands, Start(c)
      PROVE  store' = store
  BY <1>5 DEF Start, world
<1>6. CASE Step /\ ~Load
  BY <1>6 DEF Step, EnumeratePeer, EnumerateLocal, NextImage, LoopCancelled, Finish, DumpBlob,
              SendBlob, DumpDone, DryRun, ReadPeerManifest, PutLayout, PutIndex, BlobsPut,
              ImageError, world
<1>7. CASE ImageFault \/ RunFault \/ Cancel \/ Crash
  BY <1>7 DEF ImageFault, RunFault, Cancel, Crash, world
<1>8. ASSUME NEW p \in Others, PeerGets(p[1], p[2])
      PROVE  store' = store
  BY <1>8 DEF PeerGets
<1> QED
  BY <1>1, <1>2, <1>3, <1>4, <1>5, <1>6, <1>7, <1>8 DEF Next

\* And so does what a load can use.
LEMMA UsableGrows ==
  ASSUME TypeOK, RunOK, Next, NEW s \in Sides, s = "peer" \/ ~hit'
  PROVE  Usable(s) \subseteq Usable(s)'
<1>1. pool[s] \subseteq pool'[s]
  BY MirrorsStep DEF MirrorsKept
<1>2. store[s] \subseteq store'[s]
  BY StoreGrows
<1> QED
  BY <1>1, <1>2 DEF Usable, Live

\* Live storage always holds the layers of its images.
LEMMA StoreStep ==
  ASSUME TypeOK, RunOK, StoreOK, Next
  PROVE  StoreOK'
<1> USE DEF TypeOK, StoreOK
<1>0. live \in [Sides -> Tags]
  OBVIOUS
<1>1. CASE UNCHANGED <<live, store>>
  BY <1>1
<1>2. CASE OnImage /\ IntoLive
  <2> DEFINE m == index[Dst][Ref]
  <2>0. Dst \in Sides /\ Ref \in Refs /\ m \in Images \cup {None}
    BY <1>2, EndsAreSides DEF RunOK, Tags
  <2>1. /\ live' = [live EXCEPT ![Dst][Ref] = m]
        /\ store' = [store EXCEPT ![Dst] = @ \cup Layers[m]]
    BY <1>2 DEF IntoLive
  <2> HIDE DEF m
  <2>2. ASSUME NEW s \in Sides, NEW r \in Refs, live'[s][r] # None
        PROVE  Layers[live'[s][r]] \subseteq store'[s]
    <3>1. live'[s][r] = IF s = Dst /\ r = Ref THEN m ELSE live[s][r]
      BY ONLY <1>0, <2>0, <2>1, <2>2 DEF Tags
    <3>2. store[s] \subseteq store'[s] /\ (s = Dst => Layers[m] \subseteq store'[s])
      BY <2>0, <2>1
    <3> QED
      BY <2>2, <3>1, <3>2
  <2> QED
    BY <2>2
<1>3. ASSUME NEW p \in Builds, Build(p[1], p[2])
      PROVE  StoreOK'
  <2>0. p[1] \in Refs /\ "local" \in Sides
    BY EnvAssumption DEF Sides
  <2>1. /\ live' = [live EXCEPT !["local"][p[1]] = p[2]]
        /\ store' = [store EXCEPT !["local"] = @ \cup Layers[p[2]]]
    BY <1>3 DEF Build
  <2>2. ASSUME NEW s \in Sides, NEW r \in Refs, live'[s][r] # None
        PROVE  Layers[live'[s][r]] \subseteq store'[s]
    <3>1. live'[s][r] = IF s = "local" /\ r = p[1] THEN p[2] ELSE live[s][r]
      BY ONLY <1>0, <2>0, <2>1, <2>2 DEF Tags
    <3>2. store[s] \subseteq store'[s] /\ (s = "local" => Layers[p[2]] \subseteq store'[s])
      BY <2>0, <2>1
    <3> QED
      BY <2>2, <3>1, <3>2
  <2> QED
    BY <2>2
<1>4. ASSUME NEW q \in Removals, Remove(q)
      PROVE  StoreOK'
  <2>0. q \in Refs /\ "local" \in Sides
    BY EnvAssumption DEF Sides
  <2>1. /\ live' = [live EXCEPT !["local"][q] = None]
        /\ store' = [store EXCEPT !["local"] = LayersOf(live'["local"])]
    BY <1>4 DEF Remove
  <2>2. ASSUME NEW s \in Sides, NEW r \in Refs, live'[s][r] # None
        PROVE  Layers[live'[s][r]] \subseteq store'[s]
    <3>1. CASE s = "local"
      BY <2>0, <2>1, <2>2, <3>1 DEF LayersOf
    <3>2. CASE s # "local"
      BY <2>0, <2>1, <2>2, <3>2
    <3> QED
      BY <3>1, <3>2
  <2> QED
    BY <2>2
<1>5. ASSUME NEW c \in Commands, Start(c)
      PROVE  UNCHANGED <<live, store>>
  BY <1>5 DEF Start, world
<1>6. CASE Step /\ ~Load
  BY <1>1, <1>6 DEF Step, EnumeratePeer, EnumerateLocal, NextImage, LoopCancelled, Finish,
              DumpBlob, SendBlob, DumpDone, DryRun, ReadPeerManifest, PutLayout, PutIndex,
              BlobsPut, ImageError, world
<1>7. CASE ImageFault \/ RunFault \/ Cancel \/ Crash
  BY <1>1, <1>7 DEF ImageFault, RunFault, Cancel, Crash, world
<1>8. ASSUME NEW p \in Others, PeerGets(p[1], p[2])
      PROVE  UNCHANGED <<live, store>>
  BY <1>8 DEF PeerGets
<1>9. CASE Load \/ AnswerLost
  BY <1>1, <1>2, <1>9 DEF Load, AnswerLost, OnImage
<1> QED
  BY <1>1, <1>3, <1>4, <1>5, <1>6, <1>7, <1>8, <1>9 DEF Next

-----------------------------------------------------------------------------
(* The plan.                                                               *)

\* What Local.List finds of the images of live storage is in live storage, as far as
\* layers go.
LEMMA SeenLayersStored ==
  ASSUME TypeOK, StoreOK, LayersApart, LocalTransport = "live",
         NEW seen \in SUBSET Listed(live["local"])
  PROVE  ClosuresSeen(live["local"], seen) \cap LayerBlobs \subseteq Usable("local")
<1>1. ASSUME NEW r \in seen, NEW d \in Closure(live["local"][r]) \cap LayerBlobs
      PROVE  d \in Usable("local")
  <2>1. "local" \in Sides /\ r \in Refs /\ live["local"][r] # None
    BY DEF Listed, Sides
  <2>2. live["local"][r] \in Images
    BY <2>1 DEF TypeOK, Tags
  <2>3. d \in Layers[live["local"][r]]
    BY <2>2 DEF Closure, LayerBlobs, LayersApart
  <2>4. d \in store["local"]
    BY <2>1, <2>3 DEF StoreOK
  <2> QED
    BY <2>4 DEF Usable, Live
<1> QED
  BY <1>1 DEF ClosuresSeen

\* What is counted on was there when it was listed, and stays.
LEMMA CountedStep ==
  ASSUME TypeOK, RunOK, StoreOK, CountedOn, cancelled => hit, Next,
         LayersApart, LocalTransport = "live"
  PROVE  CountedOn'
<1>1. ASSUME NEW c \in Commands, Start(c)
      PROVE  CountedOn'
  BY <1>1 DEF Start, CountedOn, Dst, Usable, Live, world, disk
<1> SUFFICES ASSUME ~(\E c \in Commands : Start(c))
             PROVE  CountedOn'
  BY <1>1
<1>2. hit => hit'
  BY HitStep
<1>3. ASSUME UNCHANGED <<cmd, have>>, ~Idle' => ~Idle
      PROVE  CountedOn'
  <2> SUFFICES ASSUME ~Idle', Dst' = "peer" \/ ~hit'
               PROVE  (cmd.assume \subseteq Usable(Dst) /\ have \cap LayerBlobs \subseteq Usable(Dst))'
    BY DEF CountedOn
  <2>1. Dst' = Dst /\ Dst \in Sides
    BY <1>3, EndsAreSides DEF Dst
  <2>2. Usable(Dst) \subseteq Usable(Dst)'
    BY <2>1, UsableGrows DEF Usable, Live
  <2>3. cmd.assume \subseteq Usable(Dst) /\ have \cap LayerBlobs \subseteq Usable(Dst)
    BY <1>2, <1>3, <2>1 DEF CountedOn
  <2> QED
    BY <1>3, <2>2, <2>3
<1>4. CASE EnumeratePeer
  <2>1. Dst = "peer" /\ Dst' = "peer" /\ UNCHANGED <<cmd, hit, live, store, pool>> /\ ~Idle
    BY <1>4 DEF EnumeratePeer, Dst, Idle, world, disk, env
  <2>2. Usable("peer")' = Usable("peer") /\ pool["peer"] \subseteq Usable("peer")
    BY <2>1 DEF Usable, Live
  <2>3. have' = cmd.assume \/ have' = pool["peer"]
    BY <1>4 DEF EnumeratePeer, ListBlobs
  <2> QED
    BY <2>1, <2>2, <2>3 DEF CountedOn
<1>5. CASE EnumerateLocal
  <2>1. Dst = "local" /\ Dst' = "local" /\ UNCHANGED <<cmd, hit, live, store, pool>> /\ ~Idle
    BY <1>5 DEF EnumerateLocal, Dst, Idle, world, disk, env
  <2>2. Usable("local")' = Usable("local") /\ pool["local"] \subseteq Usable("local")
    BY <2>1 DEF Usable, Live
  <2>3. \/ have' = cmd.assume
        \/ \E seen \in SUBSET Listed(live["local"]) :
             have' = ClosuresSeen(live["local"], seen) \cup pool["local"]
    BY <1>5 DEF EnumerateLocal, Live
  <2>4. ~hit => have' \cap LayerBlobs \subseteq Usable("local")
    BY <2>1, <2>2, <2>3, SeenLayersStored DEF CountedOn
  <2> QED
    BY <2>1, <2>2, <2>4 DEF CountedOn
<1>6. CASE Crash
  BY <1>6 DEF Crash, CountedOn, End, Idle
<1>7. CASE Step /\ ~EnumeratePeer /\ ~EnumerateLocal
  BY <1>3, <1>7 DEF Step, NextImage, LoopCancelled, Finish, DumpBlob, SendBlob, DumpDone, Dumps,
                    DryRun, ReadPeerManifest, PutLayout, PutIndex, BlobsPut, Load, ImageError,
                    OnImage, Idle
<1>8. CASE ImageFault \/ AnswerLost \/ RunFault \/ Cancel
  BY <1>3, <1>8 DEF ImageFault, AnswerLost, RunFault, Cancel, OnImage, Idle
<1>9. ASSUME NEW p \in Builds, Build(p[1], p[2])
      PROVE  CountedOn'
  BY <1>3, <1>9 DEF Build, Idle
<1>10. ASSUME NEW r \in Removals, Remove(r)
       PROVE  CountedOn'
  BY <1>3, <1>10 DEF Remove, Idle
<1>11. ASSUME NEW p \in Others, PeerGets(p[1], p[2])
       PROVE  CountedOn'
  BY <1>3, <1>11 DEF PeerGets, Idle
<1> QED
  BY <1>4, <1>5, <1>6, <1>7, <1>8, <1>9, <1>10, <1>11 DEF Next

\* The plan is made once for an image and carried out on what does not go away.
LEMMA PlanStep ==
  ASSUME TypeOK, RunOK, PlanOK, Next
  PROVE  PlanOK'
<1>1. ASSUME InTransfer' => InTransfer /\ UNCHANGED <<cmd, todo, man, toSend>>
      PROVE  PlanOK'
  <2> SUFFICES ASSUME InTransfer'
               PROVE  /\ {man, Config[man]}' \subseteq toSend' /\ toSend' \subseteq Closure(man)'
                      /\ cmd'.op = "push" => Ref' \in layout'["local"]
                                             /\ Closure(man)' \subseteq pool'["local"]
    BY DEF PlanOK
  <2>1. Ref' = Ref /\ UNCHANGED <<cmd, man, toSend>> /\ Closure(man)' = Closure(man)
    BY <1>1 DEF Ref, Closure
  <2>2. pool["local"] \subseteq pool'["local"] /\ layout["local"] \subseteq layout'["local"]
    BY MirrorsStep DEF MirrorsKept, Sides
  <2> QED
    BY <1>1, <2>1, <2>2 DEF PlanOK
<1>2. ASSUME ~InTransfer'
      PROVE  PlanOK'
  BY <1>2 DEF PlanOK
<1>3. CASE DumpDone
  <2>1. CASE cmd.op = "dump"
    BY <1>2, <1>3, <2>1 DEF DumpDone, ImageDone, InTransfer
  <2>2. CASE cmd.op # "dump"
    <3>1. /\ man' = live["local"][Ref] /\ toSend' = Plan(man') /\ UNCHANGED <<cmd, todo, pool>>
          /\ Closure(live["local"][Ref]) \subseteq pool["local"]
      BY <1>3, <2>2 DEF DumpDone, Plan
    <3>2. man' \in Images
      BY <1>3, <3>1 DEF DumpDone, Dumps, CanCopy, TypeOK, RunOK, OnImage, Tags, Sides
    <3>3. {man', Config[man']} \subseteq toSend' /\ toSend' \subseteq Closure(man')
      BY <3>1, <3>2 DEF Plan, MapKeyDiff, Closure
    <3>4. Ref \in layout'["local"]
      BY <1>3 DEF DumpDone, Dumps, TypeOK, RunOK, OnImage, Sides
    <3>5. Ref' = Ref /\ Closure(man)' = Closure(man')
      BY <3>1 DEF Ref, Closure
    <3> QED
      BY <3>1, <3>3, <3>4, <3>5 DEF PlanOK
  <2> QED
    BY <2>1, <2>2
<1>4. CASE ReadPeerManifest
  <2>1. man' \in Images
    BY <1>4, PooledIsImage DEF ReadPeerManifest, TypeOK, RunOK, OnImage, Tags, Sides
  <2>2. toSend' = Plan(man') /\ cmd'.op = "pull"
    BY <1>4 DEF ReadPeerManifest, Plan
  <2>3. {man', Config[man']} \subseteq toSend' /\ toSend' \subseteq Closure(man')
    BY <2>1, <2>2 DEF Plan, MapKeyDiff, Closure
  <2> QED
    BY <2>2, <2>3 DEF PlanOK, Closure
<1>5. CASE PutLayout \/ PutIndex \/ BlobsPut \/ Cancel
  BY <1>1, <1>5 DEF PutLayout, PutIndex, BlobsPut, Cancel, InTransfer, image
<1>6. ASSUME NEW d \in Blobs, DumpBlob(d) \/ SendBlob(d)
      PROVE  PlanOK'
  BY <1>1, <1>6 DEF DumpBlob, SendBlob, Dumps, InTransfer, image
<1>7. CASE \/ EnumeratePeer \/ EnumerateLocal \/ NextImage \/ LoopCancelled \/ Finish
           \/ DryRun \/ Load
  BY <1>2, <1>7 DEF EnumeratePeer, EnumerateLocal, NextImage, LoopCancelled, Finish, DryRun, Load,
                    ImageDone, ImageFailed, End, InTransfer
<1>8. CASE ImageError \/ ImageFault \/ AnswerLost \/ RunFault \/ Crash
  BY <1>2, <1>8 DEF ImageError, ImageFault, AnswerLost, RunFault, Crash, ImageFailed, End, InTransfer
<1>9. ASSUME NEW p \in Builds, Build(p[1], p[2])
      PROVE  PlanOK'
  BY <1>1, <1>9 DEF Build, InTransfer, image
<1>10. ASSUME NEW r \in Removals, Remove(r)
       PROVE  PlanOK'
  BY <1>1, <1>10 DEF Remove, InTransfer, image
<1>11. ASSUME NEW p \in Others, PeerGets(p[1], p[2])
       PROVE  PlanOK'
  BY <1>2, <1>11 DEF PeerGets, InTransfer, Idle
<1>12. ASSUME NEW c \in Commands, Start(c)
       PROVE  PlanOK'
  BY <1>2, <1>12 DEF Start, InTransfer
<1> QED
  BY <1>3, <1>4, <1>5, <1>6, <1>7, <1>8, <1>9, <1>10, <1>11, <1>12 DEF Next, Step

-----------------------------------------------------------------------------
(* Failures.                                                               *)

\* A run is of one of the three commands.
LEMMA OpIsKnown ==
  ASSUME RunOK, ~Idle
  PROVE  cmd.op \in {"push", "pull", "dump"} /\ cmd.args \in Seq(Words)
BY CommandsAssumption DEF RunOK, CommandOK

\* Where the source has the image and nothing has come in between, every step of the
\* image can be done.
LEMMA NotBroken ==
  ASSUME TypeOK, RunOK, CountedOn, PlanOK, cancelled => hit, ~hit, OnImage,
         SourceHas(cmd, Ref)
  PROVE  ~Broken
<1>0. ~Idle /\ Ref \in Refs /\ cmd.op \in {"push", "pull", "dump"}
  BY OpIsKnown DEF OnImage, Idle, RunOK
<1>1. CASE pc = "manifest"
  BY <1>0, <1>1 DEF Broken, SourceHas, Closure, CanCopy
<1>2. CASE InTransfer
  <2>1. /\ man \in Images /\ man = index[Src][Ref] /\ cmd.op \in {"push", "pull"}
        /\ {man, Config[man]} \subseteq toSend /\ toSend \subseteq Closure(man)
        /\ Closure(man) \subseteq toSend \cup have
    BY <1>0, <1>2 DEF InTransfer, RunOK, PlanOK
  <2>2. Ref \in layout[Src] /\ Closure(man) \subseteq pool[Src]
    <3>1. CASE cmd.op = "push"
      BY <1>2, <3>1 DEF PlanOK, Src
    <3>2. CASE cmd.op = "pull"
      BY <2>1, <3>2 DEF SourceHas, Src
    <3> QED
      BY <2>1, <3>1, <3>2
  <2>3. CASE pc = "layout"
    BY <2>1, <2>2, <2>3, ImageIsSome DEF Broken, Readable
  <2>4. CASE pc = "blobs"
    BY <2>1, <2>2, <2>4 DEF Broken
  <2>5. CASE pc = "load"
    <3>1. toSend \subseteq pool[Dst] /\ index[Dst][Ref] = man
      BY <2>5 DEF RunOK
    <3>2. Layers[man] \subseteq toSend \cup (have \cap LayerBlobs)
      BY <2>1 DEF Closure, LayerBlobs
    <3>3. have \cap LayerBlobs \subseteq Usable(Dst) /\ pool[Dst] \subseteq Usable(Dst)
      BY <1>0 DEF CountedOn, Usable
    <3>4. Loadable
      BY <2>1, <3>1, <3>2, <3>3 DEF Loadable
    <3> QED
      BY <2>5, <3>4 DEF Broken
  <2>6. CASE pc = "index"
    BY <2>6 DEF Broken
  <2> QED
    BY <1>2, <2>3, <2>4, <2>5, <2>6 DEF InTransfer
<1> QED
  BY <1>1, <1>2 DEF OnImage, InTransfer

\* A run does not touch its source, and others do not without being remembered.
LEMMA SourceStays ==
  ASSUME TypeOK, RunOK, Next, ~Idle, ~Crash, ~hit'
  PROVE  /\ cmd.op = "pull" => UNCHANGED <<layout["peer"], index["peer"], pool["peer"]>>
         /\ cmd.op # "pull" => UNCHANGED live["local"]
<1> DEFINE G == /\ cmd.op = "pull" => UNCHANGED <<layout["peer"], index["peer"], pool["peer"]>>
                /\ cmd.op # "pull" => UNCHANGED live["local"]
<1> USE DEF world, disk, TypeOK
<1>0. /\ cmd.op # "push" => Dst = "local"
      /\ cmd.op = "push" => Dst = "peer"
      /\ Sides = {"local", "peer"}
  BY DEF Dst, Sides
<1>1. CASE \/ EnumeratePeer \/ EnumerateLocal \/ NextImage \/ LoopCancelled \/ Finish
           \/ DryRun \/ ReadPeerManifest \/ BlobsPut \/ ImageError
  BY <1>1 DEF EnumeratePeer, EnumerateLocal, NextImage, LoopCancelled, Finish, DryRun,
              ReadPeerManifest, BlobsPut, ImageError
<1>2. ASSUME NEW d \in Blobs, DumpBlob(d) \/ SendBlob(d)
      PROVE  G
  BY <1>0, <1>2 DEF DumpBlob, SendBlob, Dumps
<1>3. CASE DumpDone
  BY <1>3 DEF DumpDone, Dumps
<1>4. CASE PutLayout \/ PutIndex
  BY <1>0, <1>4 DEF PutLayout, PutIndex
<1>5. CASE Load
  <2>1. UNCHANGED disk /\ cmd.op # "dump"
    BY <1>5 DEF Load, RunOK
  <2>2. Dst = "peer" => UNCHANGED live["local"]
    BY <1>0, <1>5 DEF Load, IntoLive
  <2>3. cmd.op \in {"push", "pull", "dump"}
    BY OpIsKnown
  <2> QED
    BY <2>1, <2>2, <2>3 DEF Dst
<1>6. CASE ImageFault \/ AnswerLost \/ RunFault \/ Cancel
  BY <1>6 DEF ImageFault, AnswerLost, RunFault, Cancel, SpendFault
<1>7. ASSUME NEW p \in Builds, Build(p[1], p[2])
      PROVE  FALSE
  BY <1>7 DEF Build, SpendFault
<1>8. ASSUME NEW r \in Removals, Remove(r)
      PROVE  FALSE
  BY <1>8 DEF Remove, SpendFault
<1>9. ASSUME NEW p \in Others, PeerGets(p[1], p[2])
      PROVE  FALSE
  BY <1>9 DEF PeerGets
<1>10. ASSUME NEW c \in Commands, Start(c)
       PROVE  FALSE
  BY <1>10 DEF Start
<1> QED
  BY <1>1, <1>2, <1>3, <1>4, <1>5, <1>6, <1>7, <1>8, <1>9, <1>10 DEF Next, Step

\* What excuses a failure goes on to do so.
LEMMA ExcuseStays ==
  ASSUME TypeOK, RunOK, cancelled => hit, Next, ~Idle, ~Crash, cmd' = cmd
  PROVE  /\ \A w : Excused(w) => Excused(w)'
         /\ ErrorOK => ErrorOK'
<1>1. hit => hit'
  BY HitStep DEF Start
<1>2. ASSUME ~hit', NEW r \in Refs, SourceHas(cmd, r)'
      PROVE  SourceHas(cmd, r)
  BY <1>2, SourceStays DEF SourceHas, Live
<1>3. \A w : Excused(w) => Excused(w)'
  BY <1>1, <1>2 DEF Excused
<1>4. ErrorOK => ErrorOK'
  BY <1>1, <1>2 DEF ErrorOK, WellPut
<1> QED
  BY <1>3, <1>4

\* What is left of a list of words.
LEMMA ListTail ==
  ASSUME NEW q \in Seq(Words), q # <<>>
  PROVE  /\ \A i \in DOMAIN q : q[i] = Head(q) \/ \E j \in DOMAIN Tail(q) : Tail(q)[j] = q[i]
         /\ \A j \in DOMAIN Tail(q) : \E i \in DOMAIN q : q[i] = Tail(q)[j]
         /\ \E i \in DOMAIN q : q[i] = Head(q)
<1>1. /\ Len(q) \in Nat /\ Len(q) > 0 /\ DOMAIN q = 1..Len(q) /\ Head(q) = q[1]
      /\ DOMAIN Tail(q) = 1..(Len(q) - 1)
      /\ \A j \in 1..(Len(q) - 1) : Tail(q)[j] = q[j + 1]
  OBVIOUS
<1>2. ASSUME NEW i \in DOMAIN q, q[i] # Head(q)
      PROVE  \E j \in DOMAIN Tail(q) : Tail(q)[j] = q[i]
  <2>1. i - 1 \in DOMAIN Tail(q) /\ Tail(q)[i - 1] = q[i]
    BY <1>1, <1>2
  <2> QED
    BY <2>1
<1>3. ASSUME NEW j \in DOMAIN Tail(q)
      PROVE  \E i \in DOMAIN q : q[i] = Tail(q)[j]
  <2>1. j + 1 \in DOMAIN q /\ q[j + 1] = Tail(q)[j]
    BY <1>1
  <2> QED
    BY <2>1
<1>4. 1 \in DOMAIN q
  BY <1>1
<1> QED
  BY <1>1, <1>2, <1>3, <1>4

-----------------------------------------------------------------------------
(* The loop over the images.                                               *)

\* What a run that has ended says.
Verdicts == NoSpuriousFailure /\ ExitOkMeansAllDone /\ KeepGoingTriesAll

\* While a run is on, nothing is said.
LEMMA NoVerdictYet ==
  ASSUME LoopOK, ~Idle
  PROVE  Verdicts
BY DEF LoopOK, Verdicts, NoSpuriousFailure, ExitOkMeansAllDone, KeepGoingTriesAll

\* A step within an image.
LEMMA LoopSame ==
  ASSUME TypeOK, RunOK, cancelled => hit, LoopOK, Next, ~Idle, ~Crash,
         UNCHANGED <<cmd, todo, reported, failedCount, result>>
  PROVE  LoopOK'
<1>1. ASSUME NEW i \in DOMAIN cmd.args
      PROVE  WordOK(cmd.args[i])'
  <2>1. PICK w : w = cmd.args[i]
    OBVIOUS
  <2>2. WordOK(w)
    BY <2>1 DEF LoopOK, ArgOK
  <2>3. Excused(w) => Excused(w)'
    BY ExcuseStays
  <2>4. WordOK(w)'
    BY <2>2, <2>3 DEF WordOK, Queued
  <2> QED
    BY <2>1, <2>4
<1>2. ErrorOK => ErrorOK'
  BY ExcuseStays
<1> QED
  BY <1>1, <1>2 DEF LoopOK, ArgOK, Asked

\* An image is done: its word is reported.
LEMMA LoopDone ==
  ASSUME TypeOK, RunOK, cancelled => hit, LoopOK, Next, ~Idle, ~Crash,
         ImageDone, todo # <<>>, cmd' = cmd
  PROVE  LoopOK'
<1>1. /\ todo' = Tail(todo) /\ reported' = reported \cup {Ref} /\ failedCount' = failedCount
      /\ result' = "none" /\ todo \in Seq(Words)
  BY DEF ImageDone, LoopOK, TypeOK
<1>2. ASSUME NEW i \in DOMAIN cmd.args
      PROVE  WordOK(cmd.args[i])'
  <2>1. PICK w : w = cmd.args[i]
    OBVIOUS
  <2>2. WordOK(w)
    BY <2>1 DEF LoopOK, ArgOK
  <2>3. Excused(w) => Excused(w)'
    BY ExcuseStays
  <2>4. Queued(w) => Queued(w)' \/ w = Ref
    BY <1>1, ListTail DEF Queued, Ref
  <2>5. WordOK(w)'
    BY <1>1, <2>2, <2>3, <2>4 DEF WordOK
  <2> QED
    BY <2>1, <2>5
<1>3. ErrorOK => ErrorOK'
  BY ExcuseStays
<1>4. ASSUME NEW j \in DOMAIN todo'
      PROVE  Asked(todo[j])'
  <2>1. PICK i \in DOMAIN todo : todo[i] = todo'[j]
    BY <1>1, ListTail
  <2>2. Asked(todo[i])
    BY DEF LoopOK
  <2> QED
    BY <2>1, <2>2 DEF Asked
<1> QED
  BY <1>1, <1>2, <1>3, <1>4 DEF LoopOK, ArgOK

\* An image fails: it is counted, and excused.
LEMMA LoopFailed ==
  ASSUME TypeOK, RunOK, cancelled => hit, LoopOK, Next, ~Idle, ~Crash,
         ImageFailed, todo # <<>>, cmd' = cmd, hit' \/ Excused(Ref)
  PROVE  LoopOK' /\ Verdicts'
<1>1. /\ todo' = Tail(todo) /\ reported' = reported /\ failedCount' > 0
      /\ todo \in Seq(Words)
      /\ IF cmd.keepGoing THEN pc' = "loop" /\ result' = result
         ELSE pc' = "idle" /\ result' = "error"
  BY DEF ImageFailed, End, TypeOK
<1>2. ASSUME NEW i \in DOMAIN cmd.args
      PROVE  WordOK(cmd.args[i])'
  <2>1. PICK w : w = cmd.args[i]
    OBVIOUS
  <2>2. WordOK(w)
    BY <2>1 DEF LoopOK, ArgOK
  <2>3. Excused(w) => Excused(w)'
    BY ExcuseStays
  <2>4. Queued(w) => Queued(w)' \/ w = Ref
    BY <1>1, ListTail DEF Queued, Ref
  <2>5. hit' => Excused(w)'
    BY DEF Excused
  <2>6. w = Ref => Excused(w)'
    BY <2>3, <2>5
  <2>7. WordOK(w)'
    BY <1>1, <2>2, <2>3, <2>4, <2>6 DEF WordOK
  <2> QED
    BY <2>1, <2>7
<1>3. ErrorOK'
  <2>1. CASE hit'
    BY <2>1 DEF ErrorOK
  <2>2. CASE ~hit'
    <3>1. PICK i \in DOMAIN todo : todo[i] = Ref
      BY <1>1, ListTail DEF Ref
    <3>2. Asked(Ref)
      BY <3>1 DEF LoopOK
    <3>3. ErrorOK
      BY <2>2, <3>2 DEF Excused, Asked, ErrorOK, WellPut
    <3> QED
      BY <3>3, ExcuseStays
  <2> QED
    BY <2>1, <2>2
<1>4. ASSUME NEW j \in DOMAIN todo'
      PROVE  Asked(todo[j])'
  <2>1. PICK i \in DOMAIN todo : todo[i] = todo'[j]
    BY <1>1, ListTail
  <2>2. Asked(todo[i])
    BY DEF LoopOK
  <2> QED
    BY <2>1, <2>2 DEF Asked
<1>5. LoopOK'
  BY <1>1, <1>2, <1>3, <1>4 DEF LoopOK, ArgOK, Idle
<1>6. CASE cmd.keepGoing
  <2>1. ~Idle'
    BY <1>1, <1>6 DEF Idle
  <2> QED
    BY <1>5, <2>1, NoVerdictYet, PTL
<1>7. CASE ~cmd.keepGoing
  <2>1. result' = "error" /\ ~cmd'.keepGoing
    BY <1>1, <1>7
  <2> QED
    BY <1>3, <1>5, <2>1
       DEF ErrorOK, Verdicts, NoSpuriousFailure, ExitOkMeansAllDone, KeepGoingTriesAll
<1> QED
  BY <1>6, <1>7

\* The end of the list: every word is reported, or has failed for a reason.
LEMMA LoopEnds ==
  ASSUME TypeOK, RunOK, cancelled => hit, LoopOK, Next, ~Idle, ~Crash, cmd' = cmd,
         LoopCancelled \/ Finish \/ RunFault
  PROVE  LoopOK' /\ Verdicts'
<1> USE DEF Idle, End
<1>0. LoopOK'
  BY DEF LoopCancelled, Finish, RunFault, LoopOK
<1>1. CASE LoopCancelled \/ RunFault
  <2>1. hit' /\ result' = "error"
    BY <1>1, HitStep DEF LoopCancelled, RunFault, SpendFault, Start, env
  <2> QED
    BY <1>0, <2>1 DEF Verdicts, NoSpuriousFailure, ExitOkMeansAllDone, KeepGoingTriesAll
<1>2. CASE Finish
  <2>1. /\ todo = <<>> /\ UNCHANGED <<reported, failedCount, hit, live, layout, index, pool>>
        /\ result' = IF failedCount > 0 THEN "error" ELSE "ok"
    BY <1>2 DEF Finish, world, disk, report, env
  <2>2. \A w : ~Queued(w)
    BY <2>1 DEF Queued
  <2>3. \A i \in DOMAIN cmd.args : WordOK(cmd.args[i])
    BY DEF LoopOK, ArgOK
  <2>4. failedCount > 0 => ErrorOK
    BY DEF LoopOK
  <2>5. WellPut(cmd)' = WellPut(cmd) /\ \A r \in Refs : SourceHas(cmd, r)' = SourceHas(cmd, r)
    BY <2>1 DEF WellPut, SourceHas, Live
  <2>6. NoSpuriousFailure'
    BY <2>1, <2>4, <2>5 DEF NoSpuriousFailure, ErrorOK
  <2>7. ExitOkMeansAllDone'
    BY <2>1, <2>2, <2>3 DEF ExitOkMeansAllDone, WordOK
  <2>8. KeepGoingTriesAll'
    BY <2>1, <2>2, <2>3, <2>5 DEF KeepGoingTriesAll, WordOK, Excused
  <2> QED
    BY <1>0, <2>6, <2>7, <2>8 DEF Verdicts
<1> QED
  BY <1>1, <1>2

\* Every step keeps the account of the images, and what is said of it at the end.
LEMMA LoopStep ==
  ASSUME TypeOK, RunOK, CountedOn, PlanOK, cancelled => hit, LoopOK, Verdicts, Next
  PROVE  LoopOK' /\ Verdicts'
<1> DEFINE G == LoopOK' /\ Verdicts'
<1>1. ASSUME LoopOK', ~Idle'
      PROVE  G
  BY <1>1, NoVerdictYet, PTL
<1>2. ASSUME NEW c \in Commands, Start(c)
      PROVE  G
  <2>1. /\ cmd' = c /\ todo' = c.args /\ failedCount' = 0 /\ result' = "none"
        /\ pc' \in {"loop", "enumerate"}
    BY <1>2 DEF Start
  <2>2. LoopOK'
    BY <2>1 DEF LoopOK, ArgOK, WordOK, Queued, Asked
  <2> QED
    BY <1>1, <2>1, <2>2 DEF Idle
<1>3. CASE Crash
  BY <1>3 DEF Crash, End, NoCommand, LoopOK, Idle, Verdicts, NoSpuriousFailure,
              ExitOkMeansAllDone, KeepGoingTriesAll
<1>4. ASSUME Idle, Idle', hit', UNCHANGED <<cmd, reported, result>>
      PROVE  G
  BY <1>4 DEF LoopOK, Verdicts, NoSpuriousFailure, ExitOkMeansAllDone, KeepGoingTriesAll
<1>5. ASSUME ~Idle, ~Idle', ~Crash, UNCHANGED <<cmd, todo, reported, failedCount, result>>
      PROVE  G
  BY <1>1, <1>5, LoopSame
<1>6. CASE ~Crash /\ (LoopCancelled \/ Finish \/ RunFault)
  BY <1>6, LoopEnds DEF LoopCancelled, Finish, RunFault, Idle
<1>7. CASE ~Crash /\ (EnumeratePeer \/ EnumerateLocal)
  BY <1>5, <1>7 DEF EnumeratePeer, EnumerateLocal, Idle, report
<1>8. CASE ~Crash /\ NextImage
  <2>1. todo # <<>> /\ ~Idle /\ cmd' = cmd
    BY <1>8 DEF NextImage, Idle
  <2>2. CASE Ref \in Refs
    BY <1>5, <1>8, <2>1, <2>2 DEF NextImage, Idle
  <2>3. CASE Ref \notin Refs
    BY <1>8, <2>1, <2>3, LoopFailed DEF NextImage, Excused
  <2> QED
    BY <2>2, <2>3
<1>9. ASSUME NEW d \in Blobs, ~Crash, DumpBlob(d) \/ SendBlob(d)
      PROVE  G
  BY <1>5, <1>9 DEF DumpBlob, SendBlob, Dumps, Idle, report
<1>10. ASSUME ~Idle, ~Crash, ImageDone, todo # <<>>, cmd' = cmd
       PROVE  G
  BY <1>1, <1>10, LoopDone DEF ImageDone, Idle
<1>11. CASE ~Crash /\ DumpDone
  <2>1. OnImage /\ cmd' = cmd
    BY <1>11 DEF DumpDone, Dumps, OnImage
  <2>2. CASE cmd.op = "dump"
    BY <1>10, <1>11, <2>1, <2>2 DEF DumpDone, RunOK, OnImage, Idle
  <2>3. CASE cmd.op # "dump"
    BY <1>5, <1>11, <2>1, <2>3 DEF DumpDone, OnImage, Idle
  <2> QED
    BY <2>2, <2>3
<1>12. CASE ~Crash /\ (DryRun \/ Load)
  BY <1>10, <1>12 DEF DryRun, Load, RunOK, OnImage, Idle
<1>13. CASE ~Crash /\ (ReadPeerManifest \/ PutLayout \/ PutIndex \/ BlobsPut)
  BY <1>5, <1>13 DEF ReadPeerManifest, PutLayout, PutIndex, BlobsPut, Idle, report
<1>14. CASE ~Crash /\ ImageError
  <2>1. OnImage /\ cmd' = cmd /\ ImageFailed /\ todo # <<>> /\ ~Idle
    BY <1>14 DEF ImageError, RunOK, OnImage, Idle
  <2>2. Excused(Ref)
    BY <1>14, NotBroken DEF ImageError, Excused
  <2> QED
    BY <1>14, <2>1, <2>2, LoopFailed
<1>15. CASE ~Crash /\ (ImageFault \/ AnswerLost)
  <2>1. OnImage /\ cmd' = cmd /\ ImageFailed /\ hit'
    BY <1>15 DEF ImageFault, AnswerLost, SpendFault, OnImage
  <2>2. todo # <<>> /\ ~Idle
    BY <2>1 DEF RunOK, OnImage, Idle
  <2> QED
    BY <1>15, <2>1, <2>2, LoopFailed
<1>16. CASE ~Crash /\ Cancel
  BY <1>5, <1>16 DEF Cancel, Idle, report
<1>17. ASSUME NEW p \in Builds, ~Crash, Build(p[1], p[2])
       PROVE  G
  BY <1>4, <1>5, <1>17 DEF Build, SpendFault, Idle
<1>18. ASSUME NEW r \in Removals, ~Crash, Remove(r)
       PROVE  G
  BY <1>4, <1>5, <1>18 DEF Remove, SpendFault, Idle
<1>19. ASSUME NEW p \in Others, PeerGets(p[1], p[2])
       PROVE  G
  BY <1>4, <1>19 DEF PeerGets, Idle
<1> QED
  BY <1>2, <1>3, <1>6, <1>7, <1>8, <1>9, <1>11, <1>12, <1>13, <1>14, <1>15, <1>16, <1>17,
     <1>18, <1>19 DEF Next, Step

-----------------------------------------------------------------------------
(* The theorems.                                                           *)

\* Before the first run nothing is promised.
LEMMA OutcomeInit == Init => OutcomeInv
<1> SUFFICES ASSUME Init PROVE OutcomeInv
  OBVIOUS
<1>1. StoreOK
  <2>1. ASSUME NEW s \in Sides, NEW r \in Refs, live[s][r] # None
        PROVE  Layers[live[s][r]] \subseteq store[s]
    <3>1. live[s] = LiveAtFirst[s] /\ store[s] = LayersOf(LiveAtFirst[s])
      BY DEF Init
    <3> QED
      BY <2>1, <3>1 DEF LayersOf
  <2> QED
    BY <2>1 DEF StoreOK
<1>2. CountedOn /\ PlanOK /\ LoopOK
  BY DEF Init, CountedOn, PlanOK, LoopOK, Idle, InTransfer
<1>3. NoSpuriousFailure /\ ExitOkMeansAllDone /\ KeepGoingTriesAll
  BY DEF Init, NoSpuriousFailure, ExitOkMeansAllDone, KeepGoingTriesAll
<1> QED
  BY <1>1, <1>2, <1>3 DEF OutcomeInv, Init

\* Every step of a run, every fault and every change from outside keeps what plans and
\* outcomes rest on.
LEMMA OutcomeStep ==
  ASSUME LayersApart, LocalTransport = "live"
  PROVE  IInv /\ OutcomeInv /\ [Next]_vars => OutcomeInv'
<1> SUFFICES ASSUME IInv, OutcomeInv, [Next]_vars PROVE OutcomeInv'
  OBVIOUS
<1>1. CASE Next
  <2>1. TypeOK /\ RunOK
    BY DEF IInv
  <2>2. StoreOK' /\ CountedOn' /\ PlanOK'
    BY <1>1, <2>1, StoreStep, CountedStep, PlanStep DEF OutcomeInv
  <2>3. LoopOK' /\ Verdicts'
    BY <1>1, <2>1, LoopStep DEF OutcomeInv, Verdicts
  <2>4. cancelled' => hit'
    BY <1>1, <2>1, HitStep DEF OutcomeInv, Start
  <2> QED
    BY <2>2, <2>3, <2>4 DEF OutcomeInv, Verdicts
<1>2. CASE UNCHANGED vars
  <2> USE <1>2 DEF vars, world, disk, image, report, env
  <2>1. UNCHANGED <<live, store, pool, index, layout, cmd, todo, pc, have, man, toSend,
                    reported, failedCount, result, cancelled, hit>>
    OBVIOUS
  <2>2. StoreOK' /\ CountedOn' /\ PlanOK'
    BY <2>1 DEF OutcomeInv, StoreOK, CountedOn, PlanOK, Usable, Live, Idle, InTransfer, Dst, Ref, Closure
  <2>3. LoopOK'
    BY <2>1 DEF OutcomeInv, LoopOK, ArgOK, WordOK, Queued, Excused, Asked, ErrorOK, WellPut,
                SourceHas, Live, Idle
  <2>4. NoSpuriousFailure' /\ ExitOkMeansAllDone' /\ KeepGoingTriesAll'
    BY <2>1 DEF OutcomeInv, NoSpuriousFailure, ExitOkMeansAllDone, KeepGoingTriesAll, WellPut,
                SourceHas, Live, Idle
  <2> QED
    BY <2>1, <2>2, <2>3, <2>4 DEF OutcomeInv
<1> QED
  BY <1>1, <1>2

\* The invariant of the outcome of a run, if the local side is live storage and no
\* layer is also a manifest or a config.
LEMMA OutcomeAlways ==
  ASSUME LayersApart, LocalTransport = "live"
  PROVE  Spec => []OutcomeInv
<1> QED
  BY OutcomeInit, OutcomeStep, ShareInvariant, PTL DEF Spec

\* mapKeyDiff: what the plan leaves out is at the destination, although it was listed
\* once for all images of the run.
THEOREM PlansAreComplete ==
  ASSUME LayersApart, LocalTransport = "live"
  PROVE  Spec => []NothingNeededIsSkipped
<1>1. IInv /\ OutcomeInv => NothingNeededIsSkipped
  <2> SUFFICES ASSUME IInv, OutcomeInv, InTransfer, Dst = "peer" \/ ~hit
               PROVE  Closure(man) \ toSend \subseteq Usable(Dst)
    BY DEF NothingNeededIsSkipped, InTransfer
  <2>1. /\ man \in Images /\ Closure(man) \subseteq toSend \cup have
        /\ {man, Config[man]} \subseteq toSend
    BY DEF IInv, RunOK, OutcomeInv, PlanOK, InTransfer
  <2>2. have \cap LayerBlobs \subseteq Usable(Dst)
    BY DEF OutcomeInv, CountedOn, Idle, InTransfer
  <2> QED
    BY <2>1, <2>2 DEF Closure, LayerBlobs
<1> QED
  BY <1>1, OutcomeAlways, ShareInvariant, PTL

\* A run over images that the source has, which nothing comes in between of, succeeds
\* on whatever earlier runs have left on the two hosts.
THEOREM LeftoversDoNoHarm ==
  ASSUME LayersApart, LocalTransport = "live"
  PROVE  Spec => []NoSpuriousFailure
<1>1. OutcomeInv => NoSpuriousFailure
  BY DEF OutcomeInv
<1> QED
  BY <1>1, OutcomeAlways, PTL

\* For the exit code it does not matter why an image has failed.
WordSeen(w) == Queued(w) \/ w \in reported \/ failedCount > 0
ExitInv == /\ ~Idle => result = "none" /\ \A i \in DOMAIN cmd.args : WordSeen(cmd.args[i])
           /\ ExitOkMeansAllDone

\* Every step keeps the books of the command line.
LEMMA ExitStep ==
  ASSUME TypeOK, RunOK, ExitInv, Next
  PROVE  ExitInv'
<1> USE DEF Idle, End, world, disk, image, report, env
<1>1. ASSUME NEW c \in Commands, Start(c)
      PROVE  ExitInv'
  BY <1>1 DEF Start, ExitInv, WordSeen, Queued, ExitOkMeansAllDone
<1>2. CASE Crash
  BY <1>2 DEF Crash, ExitInv, ExitOkMeansAllDone
<1>3. ASSUME UNCHANGED <<cmd, todo, reported, failedCount, result>>, Idle' <=> Idle
      PROVE  ExitInv'
  BY <1>3 DEF ExitInv, WordSeen, Queued, ExitOkMeansAllDone
<1>4. ASSUME ~Idle, todo # <<>>, cmd' = cmd, ImageDone
      PROVE  ExitInv'
  <2>1. /\ todo' = Tail(todo) /\ reported' = reported \cup {Ref} /\ todo \in Seq(Words)
        /\ UNCHANGED <<failedCount, result>>
    BY <1>4 DEF ImageDone, TypeOK
  <2>2. ASSUME NEW w, WordSeen(w)
        PROVE  WordSeen(w)'
    BY <1>4, <2>1, <2>2, ListTail DEF WordSeen, Queued, Ref
  <2> QED
    BY <1>4, <2>1, <2>2 DEF ExitInv, ExitOkMeansAllDone
<1>5. ASSUME ~Idle, todo # <<>>, cmd' = cmd, ImageFailed
      PROVE  ExitInv'
  <2>1. failedCount' > 0
    BY <1>5 DEF ImageFailed, TypeOK
  <2>2. result' \in {result, "error"} /\ (~Idle' => result' = result)
    BY <1>5 DEF ImageFailed
  <2> QED
    BY <1>5, <2>1, <2>2 DEF ExitInv, WordSeen, ExitOkMeansAllDone
<1>6. CASE LoopCancelled \/ RunFault
  BY <1>6 DEF LoopCancelled, RunFault, ExitInv, ExitOkMeansAllDone
<1>7. CASE Finish
  <2>1. \A w : ~Queued(w)
    BY <1>7 DEF Finish, Queued
  <2> QED
    BY <1>7, <2>1 DEF Finish, ExitInv, WordSeen, ExitOkMeansAllDone
<1>8. CASE NextImage
  BY <1>3, <1>5, <1>8 DEF NextImage
<1>9. CASE DumpDone
  BY <1>3, <1>4, <1>9 DEF DumpDone, Dumps, RunOK, OnImage
<1>10. CASE DryRun \/ Load
  BY <1>4, <1>10 DEF DryRun, Load, RunOK, OnImage
<1>11. CASE ImageError \/ ImageFault \/ AnswerLost
  BY <1>5, <1>11 DEF ImageError, ImageFault, AnswerLost, RunOK, OnImage
<1>12. CASE \/ EnumeratePeer \/ EnumerateLocal \/ ReadPeerManifest \/ PutLayout \/ PutIndex
            \/ BlobsPut \/ Cancel
  BY <1>3, <1>12 DEF EnumeratePeer, EnumerateLocal, ReadPeerManifest, PutLayout, PutIndex, BlobsPut,
                     Cancel
<1>13. ASSUME NEW d \in Blobs, DumpBlob(d) \/ SendBlob(d)
       PROVE  ExitInv'
  BY <1>3, <1>13 DEF DumpBlob, SendBlob
<1>14. ASSUME NEW p \in Builds, Build(p[1], p[2])
       PROVE  ExitInv'
  BY <1>3, <1>14 DEF Build
<1>15. ASSUME NEW r \in Removals, Remove(r)
       PROVE  ExitInv'
  BY <1>3, <1>15 DEF Remove
<1>16. ASSUME NEW p \in Others, PeerGets(p[1], p[2])
       PROVE  ExitInv'
  BY <1>3, <1>16 DEF PeerGets
<1> QED
  BY <1>1, <1>2, <1>6, <1>7, <1>8, <1>9, <1>10, <1>11, <1>12, <1>13, <1>14, <1>15, <1>16
     DEF Next, Step

\* runPush, runPull, runDump: exit code 0 says that every image was done.
THEOREM ExitCodeIsTrue == Spec => []ExitOkMeansAllDone
<1>1. Init => ExitInv
  BY DEF Init, ExitInv, Idle, ExitOkMeansAllDone
<1>2. IInv /\ ExitInv /\ [Next]_vars => ExitInv'
  <2>1. ASSUME ExitInv, UNCHANGED vars
        PROVE  ExitInv'
    BY <2>1 DEF ExitInv, WordSeen, Queued, ExitOkMeansAllDone, Idle, vars, report
  <2> QED
    BY <2>1, ExitStep DEF IInv
<1>3. ExitInv => ExitOkMeansAllDone
  BY DEF ExitInv
<1> QED
  BY <1>1, <1>2, <1>3, ShareInvariant, PTL DEF Spec

\* With --keep-going an image that failed does not keep the others from being done.
THEOREM KeepGoingGoesOn ==
  ASSUME LayersApart, LocalTransport = "live"
  PROVE  Spec => []KeepGoingTriesAll
<1>1. OutcomeInv => KeepGoingTriesAll
  BY DEF OutcomeInv
<1> QED
  BY <1>1, OutcomeAlways, PTL
=============================================================================
