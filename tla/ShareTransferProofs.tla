------------------------- MODULE ShareTransferProofs -------------------------
(***************************************************************************)
(* Push and pull between live storages implement ImageTransfer, for every  *)
(* set of images, refs and command lines, and any number of faults.        *)
(***************************************************************************)
EXTENDS ShareProofs

BothLive == LocalTransport = "live" /\ PeerTransport = "live"

-----------------------------------------------------------------------------
(* The mapping of the state.                                               *)

\* Between images nothing is on its way.
LEMMA NothingMoves ==
  ASSUME ~InTransfer
  PROVE  Moving = Transfer!Nothing
BY DEF Moving, Transfer!Nothing

\* In the steps of an image that image is.
LEMMA SomethingMoves ==
  ASSUME InTransfer
  PROVE  /\ Moving # Transfer!Nothing
         /\ Moving.to = Dst /\ Moving.ref = Ref /\ Moving.image = man
BY EndsAreSides DEF Moving, Transfer!Nothing, Sides

\* Steps that leave the image at hand as it is.
LEMMA SameMove ==
  ASSUME InTransfer' <=> InTransfer, InTransfer => UNCHANGED <<cmd, todo, man>>
  PROVE  Moving' = Moving
BY DEF Moving, Dst, Ref

\* Claims are only dropped.
LEMMA ClaimsAreForgotten ==
  ASSUME TypeOK,
         claims' = claims \/ \E s \in Sides, r \in Refs :
                               claims' = [claims EXCEPT ![s][r] = None]
  PROVE  Transfer!Forgets
<1>1. ASSUME NEW s \in Sides, NEW r \in Refs, claims' = [claims EXCEPT ![s][r] = None],
             NEW t \in Sides, NEW q \in Refs
      PROVE  claims'[t][q] \in {claims[t][q], None}
  BY <1>1, OtherTagsStay DEF TypeOK
<1> QED
  BY <1>1 DEF Transfer!Forgets, Transfer!Sides, Sides

\* A step that only forgets.
LEMMA Forgetting ==
  ASSUME TypeOK, UNCHANGED live, index'["peer"] = index["peer"], Moving' = Moving,
         claims' = claims \/ \E s \in Sides, r \in Refs :
                               claims' = [claims EXCEPT ![s][r] = None]
  PROVE  Transfer!Next
BY ClaimsAreForgotten DEF Transfer!Next, Transfer!Forget

\* The end of an image that does not arrive.
LEMMA GivingUp ==
  ASSUME TypeOK, InTransfer, ~InTransfer', UNCHANGED live, index'["peer"] = index["peer"],
         claims' = claims \/ \E s \in Sides, r \in Refs :
                               claims' = [claims EXCEPT ![s][r] = None]
  PROVE  Transfer!Next
<1>1. Moving' = Transfer!Nothing
  BY DEF Moving, Transfer!Nothing
<1> QED
  BY <1>1, ClaimsAreForgotten, SomethingMoves DEF Transfer!Next, Transfer!GiveUp

\* A step in which neither the tags, nor the mirror of the peer, nor the reports change.
Quiet == UNCHANGED <<live, claims>> /\ index'["peer"] = index["peer"]

\* Such a step within an image, or between two, stutters.
LEMMA Stutters ==
  ASSUME Quiet, Moving' = Moving
  PROVE  UNCHANGED Transfer!vars
BY DEF Quiet, Transfer!vars

-----------------------------------------------------------------------------
(* The steps.                                                              *)

\* An image is picked where the source had it.
LEMMA Picks ==
  ASSUME TypeOK, RunOK, BothLive, DumpDone \/ ReadPeerManifest
  PROVE  Transfer!Next
<1> USE DEF TypeOK
<1>0. Ref \in Refs /\ ~InTransfer /\ Moving = Transfer!Nothing
  BY NothingMoves DEF RunOK, OnImage, DumpDone, Dumps, ReadPeerManifest, InTransfer
<1>1. CASE DumpDone /\ cmd.op = "dump"
  <2>1. ~InTransfer' /\ Moving' = Moving
    BY <1>0, <1>1, SameMove DEF DumpDone, ImageDone, InTransfer
  <2>2. UNCHANGED live /\ index'["peer"] = index["peer"]
    BY <1>1 DEF DumpDone, Sides
  <2>3. claims' = [claims EXCEPT !["local"][Ref] = None]
    BY <1>1 DEF DumpDone
  <2> QED
    BY <1>0, <2>1, <2>2, <2>3, Forgetting DEF Sides
<1>2. CASE DumpDone /\ cmd.op # "dump"
  <2>1. cmd.op = "push"
    BY <1>2 DEF DumpDone, Dumps
  <2>2. live["local"][Ref] \in Images
    BY <1>0, <1>2 DEF DumpDone, CanCopy, Tags, Sides
  <2>3. Moving' = [to |-> "peer", ref |-> Ref, image |-> live["local"][Ref]]
    BY <1>2, <2>1 DEF DumpDone, Moving, InTransfer, Dst, Ref
  <2>4. UNCHANGED live /\ index'["peer"] = index["peer"]
    BY <1>2 DEF DumpDone, Sides
  <2>5. Transfer!Forgets
    BY <1>0, <1>2, ClaimsAreForgotten DEF DumpDone, Sides
  <2>6. Transfer!Pick(Ref)
    BY <1>0, <2>2, <2>3, <2>4, <2>5 DEF Transfer!Pick
  <2> QED
    BY <1>0, <2>6 DEF Transfer!Next
<1>3. CASE ReadPeerManifest
  <2>1. index["peer"][Ref] \in Images
    BY <1>0, <1>3, PooledIsImage DEF ReadPeerManifest, Tags, Sides
  <2>2. Moving' = [to |-> "local", ref |-> Ref, image |-> index["peer"][Ref]]
    BY <1>3 DEF ReadPeerManifest, Moving, InTransfer, Dst, Ref
  <2>3. UNCHANGED <<live, index, claims>>
    BY <1>3 DEF ReadPeerManifest, world, disk, report
  <2>4. Transfer!Forgets
    BY <2>3, ClaimsAreForgotten
  <2>5. Transfer!Pick(Ref)
    BY <1>0, <2>1, <2>2, <2>3, <2>4 DEF Transfer!Pick
  <2> QED
    BY <1>0, <2>5 DEF Transfer!Next
<1> QED
  BY <1>1, <1>2, <1>3

\* index.json of a push is the image on its way; that of a pull is local.
LEMMA Shelves ==
  ASSUME TypeOK, RunOK, pc = "index", UNCHANGED <<live, cmd>>,
         index' = [index EXCEPT ![Dst][Ref] = index[Src][Ref]],
         claims' = claims \/ claims' = [claims EXCEPT ![Dst][Ref] = None],
         Moving' \in {Moving, Transfer!Nothing}, Moving' = Moving \/ Dst = "peer"
  PROVE  Transfer!Next \/ UNCHANGED Transfer!vars
<1> USE DEF TypeOK
<1>0. /\ InTransfer /\ Ref \in Refs /\ man = index[Src][Ref] /\ man \in Images
      /\ claims[Dst][Ref] = None
  BY DEF RunOK, OnImage, InTransfer
<1>1. claims' = claims
  BY <1>0, EndsAreSides, OtherTagsStay DEF Tags
<1>2. CASE Dst = "peer"
  <2>1. index'["peer"] = [index["peer"] EXCEPT ![Ref] = man]
    BY <1>0, <1>2 DEF Sides
  <2>2. Transfer!Forgets
    BY <1>1, ClaimsAreForgotten
  <2>3. Transfer!Shelve
    BY <1>0, <1>2, <2>1, <2>2, SomethingMoves DEF Transfer!Shelve
  <2> QED
    BY <2>3 DEF Transfer!Next
<1>3. CASE Dst # "peer"
  <2>1. index'["peer"] = index["peer"]
    BY <1>3 DEF Sides
  <2> QED
    BY <1>1, <1>3, <2>1, Stutters DEF Quiet
<1> QED
  BY <1>2, <1>3

\* A load brings the image on its way; the run may not learn of it.
LEMMA Arrives ==
  ASSUME TypeOK, RunOK, pc = "load", IntoLive, ~InTransfer', UNCHANGED index,
         \E m \in {man, None} : claims' = [claims EXCEPT ![Dst][Ref] = m]
  PROVE  Transfer!Next
<1>0. InTransfer /\ index[Dst][Ref] = man
  BY DEF RunOK, OnImage, InTransfer
<1>1. Moving' = Transfer!Nothing
  BY DEF Moving, Transfer!Nothing
<1>2. Transfer!Arrive
  BY <1>0, <1>1, SomethingMoves DEF Transfer!Arrive, IntoLive
<1> QED
  BY <1>2 DEF Transfer!Next

\* An image that fails, an answer that is lost, a process that dies.
LEMMA Failures ==
  ASSUME TypeOK, RunOK, ImageError \/ ImageFault \/ AnswerLost \/ Crash
  PROVE  Transfer!Next \/ UNCHANGED Transfer!vars
<1>1. ~InTransfer'
  BY DEF ImageError, ImageFault, AnswerLost, Crash, ImageFailed, End, InTransfer
<1>2. CASE ImageError \/ ImageFault \/ Crash
  <2>1. Quiet
    BY <1>2 DEF ImageError, ImageFault, Crash, Quiet, world, disk, env
  <2>2. CASE InTransfer
    BY <1>1, <2>1, <2>2, GivingUp DEF Quiet
  <2>3. CASE ~InTransfer
    BY <1>1, <2>1, <2>3, SameMove, Stutters
  <2> QED
    BY <2>2, <2>3
<1>3. CASE AnswerLost
  <2> USE DEF AnswerLost
  <2>0. Ref \in Refs /\ Dst = "peer" /\ claims' = [claims EXCEPT ![Dst][Ref] = None]
    BY <1>3 DEF RunOK, OnImage
  <2>1. CASE pc = "layout"
    <3>1. UNCHANGED <<live, index>>
      BY <1>3, <2>1
    <3> QED
      BY <1>1, <2>0, <2>1, <3>1, GivingUp, EndsAreSides DEF InTransfer
  <2>2. CASE pc = "index"
    <3>1. /\ UNCHANGED <<live, cmd>>
          /\ index' = [index EXCEPT ![Dst][Ref] = index[Src][Ref]]
      BY <1>3, <2>2
    <3>2. Moving' = Transfer!Nothing
      BY <1>1 DEF Moving, Transfer!Nothing
    <3> QED
      BY <2>0, <2>2, <3>1, <3>2, Shelves
  <2>3. CASE pc = "load"
    <3>1. IntoLive /\ UNCHANGED index
      BY <1>3, <2>3 DEF disk
    <3> QED
      BY <1>1, <2>0, <2>3, <3>1, Arrives
  <2> QED
    BY <1>3, <2>1, <2>2, <2>3
<1> QED
  BY <1>2, <1>3

\* What the user of the local host and others on the peer do.
LEMMA Surroundings ==
  ASSUME TypeOK, \/ \E p \in Builds : Build(p[1], p[2])
                 \/ \E r \in Removals : Remove(r)
                 \/ \E p \in Others : PeerGets(p[1], p[2])
  PROVE  Transfer!Next
<1>1. ASSUME NEW p \in Builds, Build(p[1], p[2])
      PROVE  Transfer!Next
  <2>1. p[1] \in Refs /\ p[2] \in Images
    BY EnvAssumption
  <2>2. UNCHANGED <<index, cmd, todo, pc, man>>
    BY <1>1 DEF Build, disk, image
  <2>3. Transfer!Change(p[1], p[2])
    BY <1>1, <2>2, SameMove DEF Build, InTransfer, Transfer!Change
  <2> QED
    BY <2>1, <2>3 DEF Transfer!Next
<1>2. ASSUME NEW r \in Removals, Remove(r)
      PROVE  Transfer!Next
  <2>1. r \in Refs
    BY EnvAssumption
  <2>2. UNCHANGED <<index, cmd, todo, pc, man>>
    BY <1>2 DEF Remove, disk, image
  <2>3. Transfer!Change(r, None)
    BY <1>2, <2>2, SameMove DEF Remove, InTransfer, Transfer!Change
  <2> QED
    BY <2>1, <2>3 DEF Transfer!Next
<1>3. ASSUME NEW p \in Others, PeerGets(p[1], p[2])
      PROVE  Transfer!Next
  <2>1. p[1] \in Refs /\ p[2] \in Images /\ "peer" \in Sides
    BY EnvAssumption DEF Sides
  <2>2. ~InTransfer /\ Moving' = Moving
    BY <1>3, SameMove DEF PeerGets, Idle, InTransfer
  <2>3. Transfer!Forgets
    BY <1>3, <2>1, ClaimsAreForgotten DEF PeerGets
  <2>4. Transfer!Offer(p[1], p[2])
    BY <1>3, <2>1, <2>2, <2>3, NothingMoves DEF PeerGets, Transfer!Offer, TypeOK
  <2> QED
    BY <2>1, <2>4 DEF Transfer!Next
<1> QED
  BY <1>1, <1>2, <1>3

\* Every step maps to a step of ImageTransfer or to a stutter.
LEMMA TransferStep ==
  ASSUME TypeOK, RunOK, BothLive, Next
  PROVE  Transfer!Next \/ UNCHANGED Transfer!vars
<1> DEFINE G == Transfer!Next \/ UNCHANGED Transfer!vars
<1>1. ASSUME NEW c \in Commands, Start(c)
      PROVE  G
  <2>1. Quiet /\ ~InTransfer /\ ~InTransfer'
    BY <1>1 DEF Start, Quiet, InTransfer, Idle, world, disk
  <2> QED
    BY <2>1, SameMove, Stutters
<1>2. CASE EnumeratePeer \/ EnumerateLocal \/ NextImage \/ LoopCancelled \/ Finish
           \/ DryRun \/ RunFault
  <2>1. ~InTransfer
    BY <1>2 DEF EnumeratePeer, EnumerateLocal, NextImage, LoopCancelled, Finish, DryRun,
                RunFault, InTransfer
  <2>2. ~InTransfer'
    BY <1>2 DEF EnumeratePeer, EnumerateLocal, NextImage, LoopCancelled, Finish, DryRun,
                RunFault, InTransfer, ImageFailed, ImageDone, End
  <2>3. Quiet
    BY <1>2 DEF EnumeratePeer, EnumerateLocal, NextImage, LoopCancelled, Finish, DryRun,
                RunFault, Quiet, world, disk, report
  <2> QED
    BY <2>1, <2>2, <2>3, SameMove, Stutters
<1>3. ASSUME NEW d \in Blobs, DumpBlob(d) \/ SendBlob(d)
      PROVE  G
  BY <1>3, SameMove, Stutters DEF DumpBlob, SendBlob, Quiet, InTransfer, image, report
<1>4. CASE DumpDone \/ ReadPeerManifest
  BY <1>4, Picks
<1>5. CASE PutLayout
  <2>1. Ref \in Refs /\ claims' = [claims EXCEPT ![Dst][Ref] = None]
    BY <1>5 DEF RunOK, OnImage, PutLayout
  <2>2. UNCHANGED <<live, index, cmd, todo, man>> /\ InTransfer' = InTransfer
    BY <1>5 DEF PutLayout, InTransfer, image
  <2>3. Moving' = Moving
    BY <2>2, SameMove
  <2> QED
    BY <2>1, <2>2, <2>3, EndsAreSides, Forgetting
<1>6. CASE PutIndex
  <2>1. UNCHANGED <<live, cmd, todo, man, claims>> /\ InTransfer' = InTransfer
    BY <1>6 DEF PutIndex, InTransfer, image, report
  <2>2. Moving' = Moving
    BY <2>1, SameMove
  <2> QED
    BY <1>6, <2>1, <2>2, Shelves DEF PutIndex
<1>7. CASE BlobsPut \/ Cancel
  <2>1. UNCHANGED <<cmd, todo, man>> /\ InTransfer' = InTransfer /\ Quiet
    BY <1>7 DEF BlobsPut, Cancel, InTransfer, image, report, Quiet, world, disk
  <2> QED
    BY <2>1, SameMove, Stutters
<1>8. CASE Load
  <2>0. /\ pc = "load" /\ Ref \in Refs /\ claims[Dst][Ref] = None
        /\ index[Dst][Ref] = man
    BY <1>8 DEF Load, RunOK, OnImage
  <2>1. ~InTransfer' /\ IntoLive /\ UNCHANGED index
    BY <1>8 DEF Load, ImageDone, BothLive, Live, InTransfer, disk
  <2>2. \E m \in {man, None} : claims' = [claims EXCEPT ![Dst][Ref] = m]
    <3>1. claims = [claims EXCEPT ![Dst][Ref] = None]
      BY <2>0, EndsAreSides DEF TypeOK, Tags
    <3> QED
      BY <1>8, <3>1 DEF Load
  <2> QED
    BY <2>0, <2>1, <2>2, Arrives
<1>9. CASE ImageError \/ ImageFault \/ AnswerLost \/ Crash
  BY <1>9, Failures
<1>10. CASE \/ \E p \in Builds : Build(p[1], p[2])
            \/ \E r \in Removals : Remove(r)
            \/ \E p \in Others : PeerGets(p[1], p[2])
  BY <1>10, Surroundings
<1> QED
  BY <1>1, <1>2, <1>3, <1>4, <1>5, <1>6, <1>7, <1>8, <1>9, <1>10 DEF Next, Step

\* Local.Push and Local.Pull move whole images: what arrives under a tag is what the
\* source had when the run looked, and it arrives at once or not at all.
THEOREM MovesWholeImages ==
  ASSUME BothLive
  PROVE  Spec => TransferSpec
<1>1. Init => Transfer!Init
  <2> SUFFICES ASSUME Init PROVE Transfer!Init
    OBVIOUS
  <2>1. Moving = Transfer!Nothing
    BY NothingMoves DEF Init, InTransfer
  <2> QED
    BY <2>1, LiveAssumption DEF Init, Transfer!Init, Transfer!Sides, Sides
<1>2. IInv /\ [Next]_vars => [Transfer!Next]_(Transfer!vars)
  <2>1. ASSUME UNCHANGED vars
        PROVE  UNCHANGED Transfer!vars
    <3>1. Quiet /\ UNCHANGED <<pc, cmd, todo, man>>
      BY <2>1 DEF vars, world, disk, image, report, Quiet
    <3> QED
      BY <3>1, SameMove, Stutters DEF InTransfer
  <2> QED
    BY <2>1, TransferStep DEF IInv
<1> QED
  BY <1>1, <1>2, ShareInvariant, PTL DEF Spec, TransferSpec, Transfer!Spec
=============================================================================
