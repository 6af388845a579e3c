----------------------- MODULE BlobPoolOutcomeProofs -----------------------
(***************************************************************************)
(* What a call of PutBlobs returns: no error for nothing, and counters     *)
(* that cover every blob, for every set of blobs, limit and faults.        *)
(***************************************************************************)
EXTENDS BlobPoolProofs, FiniteSetTheorems

-----------------------------------------------------------------------------
(* Errors.                                                                 *)

\* Descriptors state the sizes of the blobs, none of them empty.  Without posix-rename
\* the sources never hold a part of a blob.
SizesStated == /\ \A d \in Blobs : Size[d] = Bytes[d] /\ Bytes[d] > 0
               /\ PosixRename \/ Blobs \subseteq Sound

SourceWhole == \A d \in asked : srcLen[d] = Bytes[d]

\* A part longer than the blob is removed before the source is opened.
PartFits == \A d \in Blobs : pc[d] = "openSrc" => startAt[d] <= Size[d]

\* Whatever earlier calls have left behind, a worker of a call over a source that has
\* everything fails only if something hits the call.
ErrorInv ==
  /\ PartFits
  /\ cancelled => hit
  /\ ~hit /\ SourceWhole => ~gErr /\ ~iterErr /\ \A d \in Blobs : pc[d] # "failed"

\* What is published or renamed is there to be renamed, and nothing is in its way.
LEMMA RenameIsReady ==
  ASSUME IInv, SizesStated, NEW d \in Blobs, pc[d] \in {"renamePart", "rename"}
  PROVE  RenameWorks(d)
<1>1. WorkerOK(d) /\ FileOK(d) /\ part[d] \in File /\ final[d] \in File /\ Bytes[d] \in Nat
  BY SizesAssumption DEF IInv, TypeOK
<1>2. part[d] # NoFile
  BY <1>1 DEF WorkerOK, Length, SizesStated
<1>3. PosixRename \/ final[d] = NoFile
  <2>1. CASE ~PosixRename /\ final[d] # NoFile
    <3>1. final[d] = Prefix(Bytes[d])
      BY <1>1, <2>1 DEF SizesStated, FileOK, Complete
    <3>2. Len(final[d]) = Size[d]
      BY <1>1, <3>1, PrefixIsSeq DEF SizesStated
    <3> QED
      BY <1>1, <2>1, <3>2 DEF WorkerOK, Calls
  <2> QED
    BY <2>1
<1> QED
  BY <1>2, <1>3 DEF RenameWorks

\* A worker works for a call.
LEMMA WorkerIsAsked ==
  ASSUME IInv, NEW d \in Blobs, pc[d] \notin {"idle", "done"}
  PROVE  d \in asked
BY DEF IInv, CallOK

\* The source has the rest of a part.
LEMMA SourceReaches ==
  ASSUME IInv, SizesStated, SourceWhole, PartFits, NEW d \in Blobs, pc[d] = "openSrc"
  PROVE  srcLen[d] # -1 /\ startAt[d] <= srcLen[d]
<1>1. d \in asked /\ Size[d] \in Nat
  BY WorkerIsAsked, SizesAssumption
<1>2. srcLen[d] = Size[d]
  BY <1>1 DEF SourceWhole, SizesStated
<1> QED
  BY <1>1, <1>2 DEF PartFits

\* Every step keeps it.
LEMMA ErrorStep ==
  ASSUME IInv, SizesStated, ErrorInv, Next
  PROVE  ErrorInv'
<1> USE DEF ErrorInv, SourceWhole, files, workers, call, group, tally, env
<1>T. pc \in [Blobs -> Steps] /\ startAt \in [Blobs -> Nat] /\ part \in [Blobs -> File]
  BY DEF IInv, TypeOK
<1>1. ASSUME NEW want, NEW restored, PutBlobs(want, restored)
      PROVE  ErrorInv'
  BY <1>T, <1>1 DEF PutBlobs, PartFits
<1>2. CASE Yield \/ Exhausted \/ Return
  BY <1>2 DEF Yield, Exhausted, Return, PartFits
<1>3. CASE IterFail \/ Cancel
  BY <1>3 DEF IterFail, Cancel, PartFits
<1>4. CASE Go
  BY <1>T, <1>4 DEF Go, PartFits
<1>5. CASE Crash
  BY <1>5 DEF Crash, PartFits
<1>6. ASSUME NEW d \in Blobs, PutOne(d)
      PROVE  ErrorInv'
  <2> DEFINE w == pc'[d]
  <2>1. /\ UNCHANGED <<asked, srcLen, hit, cancelled, iterErr>>
        /\ pc' = [pc EXCEPT ![d] = w]
    BY <1>T, <1>6 DEF PutOne, StatDst, StatPart, RemovePart, Rename, OpenSrc, OpenPart, CopyTurn, Finish
  <2>2. w = "openSrc" => startAt'[d] <= Size[d]
    <3>1. Length(part[d]) \in Nat /\ Size[d] \in Nat
      BY <1>T, SizesAssumption DEF Length, File
    <3> QED
      BY <1>T, <1>6, <3>1 DEF PutOne, StatDst, StatPart, RemovePart, Rename, OpenSrc, OpenPart,
                            CopyTurn, Finish, AfterPart
  <2>3. \A e \in Blobs \ {d} : startAt'[e] = startAt[e]
    BY <1>T, <1>6 DEF PutOne, StatDst, StatPart, RemovePart, Rename, OpenSrc, OpenPart, CopyTurn, Finish
  <2>4. ~hit /\ SourceWhole => w # "failed" /\ ~gErr'
    <3> SUFFICES ASSUME ~hit, SourceWhole PROVE w # "failed" /\ ~gErr'
      OBVIOUS
    <3>1. ~gctxDone /\ ~gErr /\ pc[d] # "failed"
      BY DEF gctxDone
    <3>2. CASE StatDst(d) \/ StatPart(d) \/ RemovePart(d) \/ OpenPart(d)
      BY <1>T, <3>1, <3>2 DEF StatDst, StatPart, RemovePart, OpenPart, AfterPart
    <3>3. CASE Rename(d)
      BY <1>T, <3>1, <3>3, RenameIsReady DEF Rename
    <3>4. CASE OpenSrc(d)
      BY <1>T, <3>1, <3>4, SourceReaches DEF OpenSrc
    <3>5. CASE CopyTurn(d)
      BY <1>T, <3>1, <3>5 DEF CopyTurn
    <3>6. CASE Finish(d)
      BY <1>T, <3>1, <3>6 DEF Finish
    <3> QED
      BY <1>6, <3>2, <3>3, <3>4, <3>5, <3>6 DEF PutOne
  <2> HIDE DEF w
  <2>5. PartFits'
    BY <1>T, <2>1, <2>2, <2>3 DEF PartFits
  <2> QED
    BY <1>T, <2>1, <2>4, <2>5
<1>7. ASSUME NEW d \in Blobs, CallFails(d) \/ RenameAnswerLost(d)
      PROVE  ErrorInv'
  <2>1. hit' /\ pc' = [pc EXCEPT ![d] = "failed"] /\ UNCHANGED <<startAt, cancelled>>
    BY <1>7 DEF CallFails, RenameAnswerLost, SpendFault
  <2> QED
    BY <1>T, <2>1 DEF PartFits
<1> QED
  BY <1>1, <1>2, <1>3, <1>4, <1>5, <1>6, <1>7 DEF Next

\* PutBlobs: a call that nothing hits, over a source that has every blob whole, returns
\* no error, whatever parts and files earlier calls and crashes have left.
THEOREM NoErrorForNothing ==
  ASSUME SizesStated
  PROVE  Spec => []NoSpuriousError
<1>1. Init => ErrorInv
  BY DEF Init, ErrorInv, PartFits
<1>2. IInv /\ ErrorInv /\ [Next]_vars => ErrorInv'
  <2>1. ASSUME ErrorInv, UNCHANGED vars
        PROVE  ErrorInv'
    BY <2>1 DEF ErrorInv, PartFits, SourceWhole, vars, workers, call, group, env
  <2> QED
    BY <2>1, ErrorStep
<1>3. IInv /\ ErrorInv => NoSpuriousError
  BY DEF IInv, GroupOK, ErrorInv, SourceWhole, NoSpuriousError
<1> QED
  BY <1>1, <1>2, <1>3, Inductive, PTL DEF Spec

-----------------------------------------------------------------------------
(* Counters.                                                               *)

DoneBlobs == {d \in Blobs : pc[d] = "done"}

\* Every worker that is done has been counted once, or has cancelled the group; a
\* blob that has not been given out has no worker yet.
CountInv ==
  /\ \A d \in todo : pc[d] = "idle"
  /\ phase # "idle" => /\ IsFiniteSet(DoneBlobs) /\ DoneBlobs \subseteq asked
                       /\ ~gErr => sent + reused = Cardinality(DoneBlobs)

\* A step that counts nothing keeps it.
LEMMA CountSame ==
  ASSUME CountInv, UNCHANGED <<asked, tally, gErr>>, DoneBlobs' = DoneBlobs,
         phase' # "idle" => phase # "idle", \A d \in todo' : pc'[d] = "idle"
  PROVE  CountInv'
BY DEF CountInv, tally

\* A worker that returns is counted.
LEMMA CountFinish ==
  ASSUME TypeOK, IInv, CountInv, NEW d \in Blobs, Finish(d)
  PROVE  CountInv'
<1>0. \A e \in todo' : pc'[e] = "idle"
  BY DEF CountInv, Finish, call, TypeOK
<1> SUFFICES ASSUME phase' # "idle"
             PROVE  /\ IsFiniteSet(DoneBlobs') /\ DoneBlobs' \subseteq asked'
                    /\ ~gErr' => sent' + reused' = Cardinality(DoneBlobs')
  BY <1>0 DEF CountInv
<1>1. phase # "idle" /\ pc[d] \in {"sent", "skipped", "failed"} /\ d \notin DoneBlobs
  BY DEF Finish, call, DoneBlobs
<1>2. DoneBlobs' = DoneBlobs \cup {d}
  BY DEF Finish, DoneBlobs, TypeOK
<1>3. d \in asked /\ asked' = asked
  BY <1>1, WorkerIsAsked DEF Finish, call
<1>4. IsFiniteSet(DoneBlobs) /\ DoneBlobs \subseteq asked
  BY <1>1 DEF CountInv
<1>5. IsFiniteSet(DoneBlobs') /\ Cardinality(DoneBlobs') = Cardinality(DoneBlobs) + 1
  BY <1>1, <1>2, <1>4, FS_AddElement
<1>6. ASSUME ~gErr'
      PROVE  sent' + reused' = Cardinality(DoneBlobs')
  <2>1. ~gErr /\ pc[d] # "failed"
    BY <1>6 DEF Finish
  <2>2. sent + reused = Cardinality(DoneBlobs)
    BY <1>1, <2>1 DEF CountInv
  <2>3. sent' + reused' = (sent + reused) + 1
    BY <1>1, <2>1 DEF Finish, TypeOK
  <2> QED
    BY <1>5, <2>2, <2>3
<1> QED
  BY <1>2, <1>3, <1>4, <1>5, <1>6

\* Every step keeps it.
LEMMA CountStep ==
  ASSUME TypeOK, IInv, CountInv, Next
  PROVE  CountInv'
<1> USE DEF workers, call, group, tally, env
<1>T. pc \in [Blobs -> Steps]
  BY DEF TypeOK
<1>1. ASSUME NEW want \in SUBSET Blobs, NEW restored \in SUBSET Blobs,
             PutBlobs(want, restored)
      PROVE  CountInv'
  <2>1. DoneBlobs' = {} /\ sent' = 0 /\ reused' = 0 /\ \A d \in todo' : pc'[d] = "idle"
    BY <1>1 DEF PutBlobs, DoneBlobs
  <2> QED
    BY <2>1, FS_EmptySet DEF CountInv
<1>2. CASE Yield \/ Exhausted \/ Return \/ IterFail \/ Cancel
  BY <1>2, CountSame DEF Yield, Exhausted, Return, IterFail, Cancel, DoneBlobs, CountInv
<1>3. CASE Go
  <2>1. PICK d \in todo : pc' = [pc EXCEPT ![d] = "statDst"] /\ todo' = todo \ {d}
    BY <1>3 DEF Go
  <2>2. d \in Blobs /\ pc[d] # "done"
    BY DEF CountInv, TypeOK
  <2>3. DoneBlobs' = DoneBlobs
    BY <1>T, <2>1, <2>2 DEF DoneBlobs
  <2>4. \A e \in todo' : pc'[e] = "idle"
    BY <1>T, <2>1 DEF CountInv, TypeOK
  <2> QED
    BY <1>3, <2>3, <2>4, CountSame DEF Go
<1>4. CASE Crash
  BY <1>4 DEF Crash, CountInv
<1>5. ASSUME NEW d \in Blobs, PutOne(d), ~Finish(d)
      PROVE  CountInv'
  <2>1. pc[d] \notin {"idle", "done"} /\ pc' = [pc EXCEPT ![d] = pc'[d]] /\ pc'[d] # "done"
    BY <1>T, <1>5 DEF PutOne, StatDst, StatPart, RemovePart, Rename, OpenSrc, OpenPart, CopyTurn,
                      AfterPart
  <2>2. UNCHANGED <<phase, asked, todo, sent, reused, gErr>>
    BY <1>5 DEF PutOne, StatDst, StatPart, RemovePart, Rename, OpenSrc, OpenPart, CopyTurn
  <2>3. DoneBlobs' = DoneBlobs
    BY <1>T, <2>1 DEF DoneBlobs
  <2>4. \A e \in todo' : pc'[e] = "idle"
    BY <1>T, <2>1, <2>2 DEF CountInv, TypeOK
  <2> QED
    BY <2>2, <2>3, <2>4, CountSame
<1>6. ASSUME NEW d \in Blobs, CallFails(d) \/ RenameAnswerLost(d)
      PROVE  CountInv'
  <2>1. pc[d] \notin {"idle", "done"} /\ pc' = [pc EXCEPT ![d] = "failed"]
    BY <1>6 DEF CallFails, RenameAnswerLost, Calls
  <2>2. DoneBlobs' = DoneBlobs
    BY <1>T, <2>1 DEF DoneBlobs
  <2>3. \A e \in todo' : pc'[e] = "idle"
    BY <1>T, <1>6, <2>1 DEF CallFails, RenameAnswerLost, CountInv
  <2> QED
    BY <1>6, <2>2, <2>3, CountSame DEF CallFails, RenameAnswerLost
<1> QED
  BY <1>1, <1>2, <1>3, <1>4, <1>5, <1>6, CountFinish DEF Next

\* The counters never miss a worker.
LEMMA CountsKept == Spec => []CountInv
<1>1. Init => CountInv
  BY DEF Init, CountInv
<1>2. IInv /\ CountInv /\ [Next]_vars => CountInv'
  <2>1. ASSUME CountInv, UNCHANGED vars
        PROVE  CountInv'
    BY <2>1 DEF CountInv, DoneBlobs, vars, workers, call, group, tally
  <2> QED
    BY <2>1, CountStep DEF IInv
<1> QED
  BY <1>1, <1>2, Inductive, PTL DEF Spec

\* PutBlobsResult: the counters of a call that succeeds cover every blob it was asked
\* for exactly once, in whatever order the workers end.
THEOREM CountersAreRight == Spec => []CountersCoverTheCall
<1>1. IInv /\ CountInv => CountersCoverTheCall
  <2> SUFFICES ASSUME IInv, CountInv, phase = "returned", outcome = "ok", ~cancelled
               PROVE  sent + reused = Cardinality(asked)
    BY DEF CountersCoverTheCall
  <2>1. ~gErr /\ todo = {} /\ asked \subseteq Blobs
    BY DEF IInv, GroupOK, gctxDone, TypeOK
  <2>2. ASSUME NEW d \in asked
        PROVE  pc[d] = "done"
    BY <2>1, <2>2 DEF IInv, CallOK, Active
  <2>3. DoneBlobs = asked
    BY <2>1, <2>2 DEF CountInv, DoneBlobs
  <2> QED
    BY <2>1, <2>3 DEF CountInv
<1> QED
  BY <1>1, CountsKept, Inductive, PTL

-----------------------------------------------------------------------------
(* Progress of the workers.                                                *)

\* What the measure of a worker is made of.
LEMMA AheadTyped ==
  ASSUME TypeOK, NEW d \in Blobs
  PROVE  srcLen[d] \in Int /\ startAt[d] \in Nat /\ rd[d] \in Nat /\ pc[d] \in Steps
BY DEF TypeOK

\* A step of the worker of another blob, or of the caller, leaves the worker alone, unless
\* the call begins or dies with it.
LEMMA OthersStandStill ==
  ASSUME TypeOK, IInv, CountInv, Next, NEW d \in Running
  PROVE  \/ pc'[d] = pc[d] /\ rd'[d] = rd[d]
         \/ pc'[d] = "idle"
         \/ PutOne(d) \/ CallFails(d) \/ RenameAnswerLost(d)
<1> USE DEF files, workers, call, group, tally, env
<1>0. d \in Blobs /\ pc[d] \notin {"idle", "done"} /\ Active
  BY DEF Running, IInv, CallOK
<1>1. ASSUME NEW want, NEW restored, PutBlobs(want, restored)
      PROVE  FALSE
  BY <1>0, <1>1 DEF PutBlobs
<1>2. CASE Yield \/ Exhausted \/ IterFail \/ Return \/ Cancel
  BY <1>2 DEF Yield, Exhausted, IterFail, Return, Cancel
<1>3. CASE Go
  <2>1. PICK e \in todo : pc' = [pc EXCEPT ![e] = "statDst"]
    BY <1>3 DEF Go
  <2>2. e # d \/ pc[d] = "idle"
    BY <1>0, <2>1 DEF CountInv
  <2> QED
    BY <1>0, <1>3, <2>1, <2>2 DEF Go, TypeOK
<1>4. CASE Crash
  BY <1>0, <1>4 DEF Crash
<1>5. ASSUME NEW e \in Blobs, PutOne(e), e # d
      PROVE  pc'[d] = pc[d] /\ rd'[d] = rd[d]
  BY <1>0, <1>5 DEF PutOne, StatDst, StatPart, RemovePart, Rename, OpenSrc, OpenPart, CopyTurn,
                    Finish, TypeOK
<1>6. ASSUME NEW e \in Blobs, CallFails(e) \/ RenameAnswerLost(e), e # d
      PROVE  pc'[d] = pc[d] /\ rd'[d] = rd[d]
  BY <1>0, <1>6 DEF CallFails, RenameAnswerLost, TypeOK
<1> QED
  BY <1>1, <1>2, <1>3, <1>4, <1>5, <1>6 DEF Next

\* A call of putOne that fails leaves nothing but the return.
LEMMA FailingGetsOn ==
  ASSUME TypeOK, NEW d \in Blobs, CallFails(d) \/ RenameAnswerLost(d)
  PROVE  Ahead(d)' < Ahead(d)
<1>1. pc[d] \in Calls /\ pc'[d] = "failed"
  BY DEF CallFails, RenameAnswerLost, Calls, TypeOK
<1>2. Ahead(d)' = 1
  BY <1>1 DEF Ahead
<1> QED
  BY <1>1, <1>2, AheadTyped DEF Ahead, Calls

\* Neither does one that succeeds go back: a part removed is not looked at again, a source
\* that ends is not opened again.
LEMMA PutOneGetsOn ==
  ASSUME TypeOK, IInv, NEW d \in Blobs, PutOne(d)
  PROVE  Ahead(d)' < Ahead(d)
<1> USE DEF env
<1>0. /\ srcLen[d] \in Int /\ startAt[d] \in Nat /\ rd[d] \in Nat
      /\ Length(part[d]) \in Nat /\ srcLen' = srcLen
  <2>1. Length(part[d]) \in Nat
    BY DEF TypeOK, File, Length
  <2>2. srcLen' = srcLen
    BY DEF PutOne, StatDst, StatPart, RemovePart, Rename, OpenSrc, OpenPart, CopyTurn, Finish
  <2> QED
    BY <2>1, <2>2, AheadTyped
<1>1. CASE StatDst(d)
  BY <1>0, <1>1 DEF StatDst, Ahead, TypeOK
<1>2. CASE StatPart(d)
  <2>1. \/ pc'[d] = "removePart"
        \/ pc'[d] = "renamePart"
        \/ pc'[d] = "openSrc" /\ startAt'[d] = Length(part[d])
    BY <1>2 DEF StatPart, AfterPart, TypeOK
  <2> QED
    BY <1>0, <1>2, <2>1 DEF StatPart, Ahead
<1>3. CASE RemovePart(d)
  <2>1. pc'[d] = "renamePart" \/ (pc'[d] = "openSrc" /\ startAt'[d] = 0)
    BY <1>3 DEF RemovePart, AfterPart, TypeOK
  <2> QED
    BY <1>0, <1>3, <2>1 DEF RemovePart, Ahead
<1>4. CASE Rename(d)
  BY <1>0, <1>4 DEF Rename, Ahead, TypeOK
<1>5. CASE OpenSrc(d)
  <2>1. pc'[d] = "failed" \/ (pc'[d] = "openPart" /\ rd'[d] = startAt[d])
    BY <1>5 DEF OpenSrc, TypeOK
  <2> QED
    BY <1>0, <1>5, <2>1 DEF OpenSrc, Ahead
<1>6. CASE OpenPart(d)
  BY <1>0, <1>6 DEF OpenPart, Ahead, TypeOK
<1>7. CASE CopyTurn(d)
  <2>1. \/ pc'[d] \in {"failed", "rename"}
        \/ pc'[d] = "copy" /\ rd[d] < srcLen[d] /\ rd'[d] = rd[d] + 1
    BY <1>7 DEF CopyTurn, TypeOK
  <2> QED
    BY <1>0, <1>7, <2>1 DEF CopyTurn, Ahead
<1>8. CASE Finish(d)
  BY <1>8 DEF Finish, Ahead, TypeOK
<1> QED
  BY <1>1, <1>2, <1>3, <1>4, <1>5, <1>6, <1>7, <1>8 DEF PutOne

\* putOne never goes round in circles, whatever it finds and whatever fails: a worker makes
\* at most 7 calls and one for each unit of its source.
THEOREM WorkersEnd == Spec => WorkersGetOn
<1>1. ASSUME IInv, CountInv, Next, NEW d \in Running, <<pc[d], rd[d]>> # <<pc'[d], rd'[d]>>
      PROVE  Ahead(d)' < Ahead(d)
  <2>1. TypeOK /\ d \in Blobs /\ pc[d] \notin {"idle", "done"}
    BY <1>1 DEF IInv, Running
  <2>2. CASE pc'[d] = "idle"
    <3>1. Ahead(d)' = 0
      BY <2>2 DEF Ahead
    <3>2. /\ srcLen[d] \in Int /\ startAt[d] \in Nat /\ rd[d] \in Nat
          /\ pc[d] \in Steps \ {"idle", "done"}
      BY <2>1, AheadTyped
    <3>3. Ahead(d) > 0
      BY <3>2 DEF Ahead, Steps, Calls
    <3> QED
      BY <3>1, <3>3
  <2>3. CASE PutOne(d)
    BY <1>1, <2>1, <2>3, PutOneGetsOn
  <2>4. CASE CallFails(d) \/ RenameAnswerLost(d)
    BY <2>1, <2>4, FailingGetsOn
  <2> QED
    BY <1>1, <2>1, <2>2, <2>3, <2>4, OthersStandStill
<1>2. IInv /\ CountInv /\ [Next]_vars =>
        \A d \in Running : <<pc[d], rd[d]>> # <<pc'[d], rd'[d]>> => Ahead(d)' < Ahead(d)
  BY <1>1 DEF vars, workers
<1> QED
  BY <1>2, CountsKept, Inductive, PTL DEF Spec, WorkersGetOn
=============================================================================
