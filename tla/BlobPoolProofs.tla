--------------------------- MODULE BlobPoolProofs ---------------------------
(***************************************************************************)
(* What TLC checks of BlobPool on two blobs, for every set of     *)
(* blobs, sizes, sources, worker limit and number of faults.               *)
(***************************************************************************)
EXTENDS BlobPool, TLAPS

-----------------------------------------------------------------------------
(* Files.                                                                  *)

\* Prefix(n) is a sequence of n units.
LEMMA PrefixIsSeq ==
  ASSUME NEW n \in Nat
  PROVE  Prefix(n) \in Seq(Nat) /\ Len(Prefix(n)) = n
  BY DEF Prefix

\* Copying the next unit to the end of a prefix gives the next longer prefix:
\* one turn of io.CopyBuffer when reader and writer stand at the same offset.
LEMMA CopyExtendsPrefix ==
  ASSUME NEW f \in Seq(Nat), f = Prefix(Len(f))
  PROVE  WriteAt(f, Len(f), Len(f) + 1) = Prefix(Len(f) + 1)
  <1> DEFINE n == Len(f)
  <1>1. n \in Nat
    OBVIOUS
  <1>2. \A i \in 1..n : f[i] = i
    BY DEF Prefix
  <1>3. WriteAt(f, n, n + 1)
          = [i \in 1..(n + 1) |-> IF i = n + 1 THEN n + 1 ELSE IF i <= n THEN f[i] ELSE 0]
    BY <1>1 DEF WriteAt
  <1>4. \A i \in 1..(n + 1) :
          (IF i = n + 1 THEN n + 1 ELSE IF i <= n THEN f[i] ELSE 0) = i
    BY <1>1, <1>2
  <1> QED
    BY <1>3, <1>4 DEF Prefix

\* A function on 1..m is a sequence.
LEMMA FunctionIsSeq ==
  ASSUME NEW m \in Nat, NEW g \in [1..m -> Nat]
  PROVE  g \in Seq(Nat)
  OBVIOUS

\* WriteAt always leaves a file.
LEMMA WriteAtIsFile ==
  ASSUME NEW f \in Seq(Nat), NEW p \in Nat, NEW u \in Nat
  PROVE  WriteAt(f, p, u) \in Seq(Nat)
  <1> DEFINE m == IF p < Len(f) THEN Len(f) ELSE p + 1
  <1>1. m \in Nat
    OBVIOUS
  <1>2. WriteAt(f, p, u) \in [1..m -> Nat]
    BY DEF WriteAt
  <1> HIDE DEF m
  <1> QED
    BY ONLY <1>1, <1>2, FunctionIsSeq

-----------------------------------------------------------------------------
(* Types.                                                                  *)

\* A copying worker has its part file open, so WriteAt is applied to a file.
CopyingHasPart == \A d \in Blobs : pc[d] = "copy" => part[d] # NoFile

TInv == TypeOK /\ CopyingHasPart

\* A pool not yet used is typed.
LEMMA TypeInit == Init => TInv
  <1> SUFFICES ASSUME Init PROVE TInv
    OBVIOUS
  <1> USE DEF Init
  <1>1. final \in [Blobs -> File] /\ part \in [Blobs -> File]
    BY DEF File
  <1>2. srcLen \in [Blobs -> Nat \cup {-1}]
    BY SizesAssumption
  <1>3. pc \in [Blobs -> Steps]
    BY DEF Steps
  <1>4. startAt \in [Blobs -> Nat] /\ rd \in [Blobs -> Nat] /\ wr \in [Blobs -> Nat]
    OBVIOUS
  <1>5. CopyingHasPart
    BY DEF CopyingHasPart
  <1> QED
    BY <1>1, <1>2, <1>3, <1>4, <1>5 DEF TInv, TypeOK

\* A failing call leaves the fault counters well typed.
LEMMA SpendFaultTyped ==
  ASSUME TypeOK, SpendFault
  PROVE  faults' \in Nat /\ hit' \in BOOLEAN
  <1>1. CASE UNCHANGED <<faults, hit>>
    BY <1>1 DEF TypeOK
  <1>2. CASE faults' = faults + 1 /\ hit' = TRUE
    BY <1>2 DEF TypeOK
  <1> QED
    BY <1>1, <1>2 DEF SpendFault

\* Every step of a call, and every fault, keeps the types.
LEMMA TypeNext == TInv /\ [Next]_vars => TInv'
  <1> SUFFICES ASSUME TInv, [Next]_vars PROVE TInv'
    OBVIOUS
  <1> USE DEF TInv, TypeOK, CopyingHasPart,
              files, workers, call, group, tally, env
  <1>1. ASSUME NEW want \in SUBSET Blobs, NEW restored \in SUBSET Blobs,
               PutBlobs(want, restored)
        PROVE  TInv'
    BY <1>1, SizesAssumption DEF PutBlobs, Steps
  <1>2. CASE Yield
    BY <1>2 DEF Yield
  <1>3. CASE Exhausted
    BY <1>3 DEF Exhausted
  <1>4. CASE IterFail
    BY <1>4 DEF IterFail
  <1>5. CASE Go
    BY <1>5 DEF Go, Steps, Calls
  <1>6. CASE Return
    BY <1>6 DEF Return
  <1>7. ASSUME NEW d \in Blobs, StatDst(d) PROVE TInv'
    BY <1>7 DEF StatDst, Steps, Calls
  <1>8. ASSUME NEW d \in Blobs, StatPart(d) PROVE TInv'
    <2>1. Length(part[d]) \in Nat
      BY DEF Length, File
    <2> QED
      BY <1>8, <2>1 DEF StatPart, AfterPart, Steps, Calls
  <1>9. ASSUME NEW d \in Blobs, RemovePart(d) PROVE TInv'
    BY <1>9 DEF RemovePart, AfterPart, File, Steps, Calls
  <1>10. ASSUME NEW d \in Blobs, Rename(d) PROVE TInv'
    BY <1>10 DEF Rename, RenameWorks, File, Steps
  <1>11. ASSUME NEW d \in Blobs, OpenSrc(d) PROVE TInv'
    BY <1>11 DEF OpenSrc, Steps, Calls
  <1>12. ASSUME NEW d \in Blobs, OpenPart(d) PROVE TInv'
    <2>1. <<>> \in Seq(Nat)
      OBVIOUS
    <2>2. (IF part[d] = NoFile THEN <<>> ELSE part[d]) \in File \ {NoFile}
      BY <2>1, NoFileAssumption DEF File
    <2> QED
      BY <1>12, <2>2 DEF OpenPart, Steps, Calls
  <1>13. ASSUME NEW d \in Blobs, CopyTurn(d) PROVE TInv'
    <2>1. WriteAt(part[d], wr[d], rd[d] + 1) \in Seq(Nat)
      BY <1>13, WriteAtIsFile DEF CopyTurn, File
    <2>2. WriteAt(part[d], wr[d], rd[d] + 1) \in File \ {NoFile}
      BY <2>1, NoFileAssumption DEF File
    <2> QED
      BY <1>13, <2>2 DEF CopyTurn, Steps, Calls
  <1>14. ASSUME NEW d \in Blobs, Finish(d) PROVE TInv'
    BY <1>14 DEF Finish, Steps
  <1>15. ASSUME NEW d \in Blobs, CallFails(d) PROVE TInv'
    <2>1. faults' \in Nat /\ hit' \in BOOLEAN
      BY <1>15, SpendFaultTyped DEF CallFails
    <2> QED
      BY <1>15, <2>1 DEF CallFails, Steps
  <1>16. ASSUME NEW d \in Blobs, RenameAnswerLost(d) PROVE TInv'
    <2>1. faults' \in Nat /\ hit' \in BOOLEAN
      BY <1>16, SpendFaultTyped DEF RenameAnswerLost
    <2> QED
      BY <1>16, <2>1 DEF RenameAnswerLost, RenameWorks, File, Steps
  <1>17. CASE Cancel
    BY <1>17 DEF Cancel
  <1>18. CASE Crash
    BY <1>18 DEF Crash, Steps
  <1>19. CASE UNCHANGED vars
    BY <1>19 DEF vars
  <1> QED
    BY <1>1, <1>2, <1>3, <1>4, <1>5, <1>6, <1>7, <1>8, <1>9, <1>10, <1>11, <1>12,
       <1>13, <1>14, <1>15, <1>16, <1>17, <1>18, <1>19 DEF Next, PutOne

\* Type correctness of the pool, its workers and the call.
THEOREM TypeCorrect == Spec => []TypeOK
  <1>1. Spec => []TInv
    BY TypeInit, TypeNext, PTL DEF Spec
  <1>2. TInv => TypeOK
    BY DEF TInv
  <1> QED
    BY <1>1, <1>2, PTL

-----------------------------------------------------------------------------
(* The inductive invariant.                                                *)

BlobOK(d) == FileOK(d) /\ WorkerOK(d) /\ CallOK(d)

\* A step that leaves everything of blob e alone keeps what holds of e: the
\* workers of other blobs only reach it through the error of the group.
LEMMA OtherBlobs ==
  ASSUME NEW e \in Blobs, BlobOK(e),
         final'[e] = final[e], part'[e] = part[e], srcLen'[e] = srcLen[e],
         pc'[e] = pc[e], startAt'[e] = startAt[e], rd'[e] = rd[e], wr'[e] = wr[e],
         phase' = phase \/ (Active /\ Active'),
         asked' = asked, e \in todo <=> e \in todo', gErr => gErr'
  PROVE  BlobOK(e)'
  <1>1. FileOK(e)'
    BY DEF BlobOK, FileOK, Complete, Sound
  <1>2. WorkerOK(e)'
    BY DEF BlobOK, WorkerOK, Length
  <1>3. CallOK(e)'
    <2>1. Delivered(e) => Delivered(e)'
      BY DEF Delivered, Complete
    <2>2. Active' <=> Active
      BY DEF Active
    <2>3. phase = "idle" <=> phase' = "idle"
      BY DEF Active
    <2> QED
      BY <2>1, <2>2, <2>3 DEF BlobOK, CallOK
  <1> QED
    BY <1>1, <1>2, <1>3 DEF BlobOK

\* With nothing begun no file is torn and no call has claimed anything.
LEMMA InvInit == Init => IInv
  <1> SUFFICES ASSUME Init PROVE IInv
    OBVIOUS
  <1>1. TypeOK
    BY TypeInit DEF TInv
  <1>2. GroupOK
    BY DEF Init, GroupOK
  <1>3. ASSUME NEW d \in Blobs PROVE FileOK(d) /\ WorkerOK(d) /\ CallOK(d)
    <2>1. FileOK(d)
      BY DEF Init, FileOK, Sound
    <2>2. WorkerOK(d)
      BY DEF Init, WorkerOK, Calls
    <2>3. CallOK(d)
      BY DEF Init, CallOK, Active
    <2> QED
      BY <2>1, <2>2, <2>3
  <1> QED
    BY <1>1, <1>2, <1>3 DEF IInv

\* The steps of the goroutine that calls PutBlobs, and of the faults around it.
LEMMA InvCaller ==
  ASSUME IInv, TypeOK',
         \/ Yield \/ Exhausted \/ IterFail \/ Cancel \/ UNCHANGED vars
  PROVE  IInv'
  <1> USE DEF files, workers, call, group, tally, env, vars
  <1>1. GroupOK'
    BY DEF IInv, TypeOK, GroupOK, gctxDone, Active, Yield, Exhausted, IterFail, Cancel
  <1>2. ASSUME NEW e \in Blobs PROVE BlobOK(e)'
    <2>1. phase' = phase \/ (Active /\ Active')
      BY DEF Active, Yield, Exhausted, IterFail, Cancel
    <2>2. BlobOK(e)
      BY DEF IInv, BlobOK
    <2>3. /\ final' = final /\ part' = part /\ srcLen' = srcLen /\ pc' = pc
          /\ startAt' = startAt /\ rd' = rd /\ wr' = wr
          /\ asked' = asked /\ todo' = todo /\ gErr' = gErr
      BY DEF Yield, Exhausted, IterFail, Cancel
    <2> QED
      BY <2>1, <2>2, <2>3, OtherBlobs
  <1> QED
    BY <1>1, <1>2 DEF IInv, BlobOK

\* A new call finds no worker running and starts with none.
LEMMA InvPutBlobs ==
  ASSUME IInv, TypeOK', NEW want \in SUBSET Blobs, NEW restored \in SUBSET Blobs,
         PutBlobs(want, restored)
  PROVE  IInv'
  <1> USE DEF PutBlobs, files
  <1>1. GroupOK'
    BY DEF GroupOK
  <1>2. ASSUME NEW e \in Blobs PROVE BlobOK(e)'
    <2>1. pc'[e] = "idle" /\ final' = final /\ part' = part
      OBVIOUS
    <2>2. srcLen'[e] \in {srcLen[e], Bytes[e]}
      BY DEF IInv, TypeOK
    <2>3. FileOK(e)'
      BY <2>1, <2>2 DEF IInv, FileOK, Complete, Sound
    <2>4. WorkerOK(e)'
      BY <2>1 DEF WorkerOK, Calls
    <2>5. CallOK(e)'
      BY <2>1 DEF CallOK
    <2> QED
      BY <2>3, <2>4, <2>5 DEF BlobOK
  <1> QED
    BY <1>1, <1>2 DEF IInv, BlobOK

\* g.Go takes blob d out of the iterator and starts its worker.
LEMMA InvGo ==
  ASSUME IInv, TypeOK', Go
  PROVE  IInv'
  <1> USE DEF Go, files, group, tally, env
  <1>1. PICK d \in todo : pc' = [pc EXCEPT ![d] = "statDst"] /\ todo' = todo \ {d}
    OBVIOUS
  <1>2. d \in Blobs /\ pc'[d] = "statDst"
    BY <1>1 DEF IInv, TypeOK
  <1>3. GroupOK'
    BY <1>1 DEF IInv, GroupOK
  <1>4. ASSUME NEW e \in Blobs, e # d PROVE BlobOK(e)'
    <2>1. pc'[e] = pc[e] /\ (e \in todo <=> e \in todo')
      BY <1>1, <1>4 DEF IInv, TypeOK
    <2>2. Active /\ Active'
      BY DEF Active
    <2>3. BlobOK(e)
      BY DEF IInv, BlobOK
    <2> QED
      BY <2>1, <2>2, <2>3, OtherBlobs
  <1>5. BlobOK(d)'
    <2>1. FileOK(d)'
      BY <1>2 DEF IInv, FileOK, Complete, Sound
    <2>2. WorkerOK(d)'
      BY <1>2 DEF WorkerOK
    <2>3. d \in asked
      BY <1>1, <1>2 DEF IInv, GroupOK
    <2>4. CallOK(d)'
      BY <1>2, <2>3 DEF CallOK, Active
    <2> QED
      BY <2>1, <2>2, <2>4 DEF BlobOK
  <1> QED
    BY <1>3, <1>4, <1>5 DEF IInv, BlobOK

\* g.Wait returns when no worker runs.
LEMMA InvReturn ==
  ASSUME IInv, TypeOK', Return
  PROVE  IInv'
  <1> USE DEF Return, files, workers, group, tally, env
  <1>1. GroupOK'
    BY DEF IInv, GroupOK, gctxDone
  <1>2. ASSUME NEW e \in Blobs PROVE BlobOK(e)'
    <2>1. pc[e] \in {"idle", "done"}
      BY DEF Running
    <2>2. BlobOK(e)
      BY DEF IInv, BlobOK
    <2>3. FileOK(e)'
      BY <2>2 DEF BlobOK, FileOK, Complete, Sound
    <2>4. WorkerOK(e)'
      BY <2>1 DEF WorkerOK, Calls
    <2>5. Delivered(e) => Delivered(e)'
      BY DEF Delivered, Complete
    <2>6. CallOK(e)'
      BY <2>1, <2>2, <2>5 DEF BlobOK, CallOK, Active
    <2> QED
      BY <2>3, <2>4, <2>6 DEF BlobOK
  <1> QED
    BY <1>1, <1>2 DEF IInv, BlobOK

\* A crash leaves the files as they are and no worker.
LEMMA InvCrash ==
  ASSUME IInv, TypeOK', Crash
  PROVE  IInv'
  <1> USE DEF Crash, files
  <1>1. GroupOK'
    BY DEF GroupOK
  <1>2. ASSUME NEW e \in Blobs PROVE BlobOK(e)'
    <2>1. pc'[e] = "idle"
      OBVIOUS
    <2>2. FileOK(e)'
      BY DEF IInv, FileOK, Complete, Sound
    <2>3. WorkerOK(e)'
      BY <2>1 DEF WorkerOK, Calls
    <2>4. CallOK(e)'
      BY <2>1 DEF CallOK, Active
    <2> QED
      BY <2>2, <2>3, <2>4 DEF BlobOK
  <1> QED
    BY <1>1, <1>2 DEF IInv, BlobOK

\* A step of the worker of d: it runs inside a call, and all it can do to the
\* other blobs is to put the group in error.
LEMMA WorkerStep ==
  ASSUME IInv, TypeOK', NEW d \in Blobs,
         pc[d] \notin {"idle", "done"},
         call' = call, srcLen' = srcLen,
         cancelled' = cancelled, iterErr' = iterErr, gErr => gErr',
         \A e \in Blobs \ {d} :
            /\ final'[e] = final[e] /\ part'[e] = part[e] /\ pc'[e] = pc[e]
            /\ startAt'[e] = startAt[e] /\ rd'[e] = rd[e] /\ wr'[e] = wr[e],
         BlobOK(d)'
  PROVE  IInv'
  <1> USE DEF call
  <1>1. phase \notin {"idle", "returned"}
    BY DEF IInv, CallOK, Active
  <1>2. GroupOK'
    BY <1>1 DEF IInv, GroupOK, gctxDone
  <1>3. ASSUME NEW e \in Blobs, e # d PROVE BlobOK(e)'
    <2>1. BlobOK(e)
      BY DEF IInv, BlobOK
    <2> QED
      BY <1>3, <2>1, OtherBlobs
  <1> QED
    BY <1>2, <1>3 DEF IInv, BlobOK

\* What a worker that keeps its files knows about its call is not disturbed.
LEMMA CallKept ==
  ASSUME NEW d \in Blobs, CallOK(d), TypeOK, TypeOK',
         pc[d] \notin {"idle", "done"}, pc'[d] \notin {"idle", "done", "sent", "skipped"},
         call' = call
  PROVE  CallOK(d)'
  BY DEF CallOK, Active, call

\* Stat of the destination: a blob is skipped only if it is there in its size.
LEMMA InvStatDst ==
  ASSUME IInv, TypeOK', NEW d \in Blobs, StatDst(d)
  PROVE  IInv'
  <1> USE DEF StatDst, files, call, group, tally, env
  <1>1. TypeOK /\ BlobOK(d)
    BY DEF IInv, BlobOK
  <1>2. FileOK(d)'
    BY <1>1 DEF BlobOK, FileOK, Complete, Sound
  <1>3. CASE final[d] # NoFile /\ Len(final[d]) = Size[d]
    <2>1. pc'[d] = "skipped"
      BY <1>1, <1>3 DEF TypeOK
    <2>2. WorkerOK(d)'
      BY <2>1 DEF WorkerOK, Calls
    <2>3. Delivered(d)'
      BY <1>1, <1>3 DEF BlobOK, FileOK, Delivered, Complete
    <2>4. CallOK(d)'
      BY <1>1, <2>1, <2>3 DEF BlobOK, CallOK, Active
    <2> QED
      BY <1>1, <1>2, <2>2, <2>4, WorkerStep DEF BlobOK, TypeOK
  <1>4. CASE ~(final[d] # NoFile /\ Len(final[d]) = Size[d])
    <2>1. pc'[d] = "statPart"
      BY <1>1, <1>4 DEF TypeOK
    <2>2. WorkerOK(d)'
      BY <1>4, <2>1 DEF WorkerOK
    <2>3. CallOK(d)'
      BY <1>1, <2>1, CallKept DEF BlobOK
    <2> QED
      BY <1>1, <1>2, <2>2, <2>3, WorkerStep DEF BlobOK, TypeOK
  <1> QED
    BY <1>3, <1>4

\* Stat of the part: the resume point is its length.
LEMMA InvStatPart ==
  ASSUME IInv, TypeOK', NEW d \in Blobs, StatPart(d)
  PROVE  IInv'
  <1> USE DEF StatPart, files, call, group, tally, env
  <1>1. TypeOK /\ BlobOK(d)
    BY DEF IInv, BlobOK
  <1>2. FileOK(d)'
    BY <1>1 DEF BlobOK, FileOK, Complete, Sound
  <1>3. ~(final[d] # NoFile /\ Len(final[d]) = Size[d])
    BY <1>1 DEF BlobOK, WorkerOK, Calls
  <1>4. CASE Length(part[d]) > Size[d]
    <2>1. pc'[d] = "removePart"
      BY <1>1, <1>4 DEF TypeOK
    <2>2. WorkerOK(d)'
      BY <1>3, <1>4, <2>1 DEF WorkerOK, Length
    <2>3. CallOK(d)'
      BY <1>1, <2>1, CallKept DEF BlobOK
    <2> QED
      BY <1>1, <1>2, <2>2, <2>3, WorkerStep DEF BlobOK, TypeOK
  <1>5. CASE ~(Length(part[d]) > Size[d])
    <2>1. /\ startAt'[d] = Length(part[d])
          /\ pc'[d] = AfterPart(d, Length(part[d]))
      BY <1>1, <1>5 DEF TypeOK
    <2>2. WorkerOK(d)'
      BY <1>3, <2>1 DEF WorkerOK, Length, AfterPart
    <2>3. CallOK(d)'
      BY <1>1, <2>1, CallKept DEF BlobOK, AfterPart
    <2> QED
      BY <1>1, <1>2, <1>5, <2>2, <2>3, WorkerStep DEF BlobOK, TypeOK
  <1> QED
    BY <1>4, <1>5

\* An oversize part goes, and the worker begins at its start.
LEMMA InvRemovePart ==
  ASSUME IInv, TypeOK', NEW d \in Blobs, RemovePart(d)
  PROVE  IInv'
  <1> USE DEF RemovePart, call, group, tally, env
  <1>1. TypeOK /\ BlobOK(d)
    BY DEF IInv, BlobOK
  <1>2. /\ part'[d] = NoFile /\ startAt'[d] = 0
        /\ pc'[d] = AfterPart(d, 0)
    BY <1>1 DEF TypeOK
  <1>3. FileOK(d)'
    BY <1>1, <1>2 DEF BlobOK, FileOK, Complete, Sound
  <1>4. ~(final[d] # NoFile /\ Len(final[d]) = Size[d])
    BY <1>1 DEF BlobOK, WorkerOK, Calls
  <1>5. WorkerOK(d)'
    BY <1>2, <1>4 DEF WorkerOK, Length, AfterPart
  <1>6. CallOK(d)'
    BY <1>1, <1>2, CallKept DEF BlobOK, AfterPart
  <1> QED
    BY <1>1, <1>3, <1>5, <1>6, WorkerStep DEF BlobOK, TypeOK

\* A part that is about to be renamed is the whole source blob, or was found to
\* have the stated size: publishing it is right for a sound blob.
LEMMA ReadyToPublish ==
  ASSUME IInv, NEW d \in Blobs, pc[d] \in {"renamePart", "rename"}, part[d] # NoFile
  PROVE  /\ part[d] = Prefix(Len(part[d]))
         /\ d \in Sound => Len(part[d]) = Bytes[d]
         /\ Size[d] = Bytes[d] /\ srcLen[d] = Bytes[d] => Len(part[d]) = Bytes[d]
  <1>1. FileOK(d) /\ WorkerOK(d) /\ part[d] \in Seq(Nat)
    BY DEF IInv, TypeOK, File
  <1>2. CASE pc[d] = "renamePart"
    <2>1. Len(part[d]) = Size[d]
      BY <1>1, <1>2 DEF WorkerOK, Length
    <2> QED
      BY <1>1, <2>1 DEF FileOK, Sound
  <1>3. CASE pc[d] = "rename"
    <2>1. Len(part[d]) = srcLen[d] /\ Len(part[d]) \in Nat
      BY <1>1, <1>3 DEF WorkerOK
    <2> QED
      BY <1>1, <2>1 DEF FileOK
  <1> QED
    BY <1>2, <1>3

\* The rename took effect, whether the worker learns of it or not.
LEMMA InvPublish ==
  ASSUME IInv, TypeOK', NEW d \in Blobs,
         pc[d] \in {"renamePart", "rename"}, RenameWorks(d),
         final' = [final EXCEPT ![d] = part[d]],
         part' = [part EXCEPT ![d] = NoFile],
         pc' = [pc EXCEPT ![d] = "sent"] \/ pc' = [pc EXCEPT ![d] = "failed"],
         UNCHANGED <<startAt, rd, wr, call, group, srcLen>>
  PROVE  IInv'
  <1> USE DEF call, group
  <1>1. TypeOK /\ BlobOK(d) /\ part[d] # NoFile
    BY DEF IInv, BlobOK, RenameWorks
  <1>2. final'[d] = part[d] /\ part'[d] = NoFile /\ pc'[d] \in {"sent", "failed"}
    BY <1>1 DEF TypeOK
  <1>3. /\ part[d] = Prefix(Len(part[d]))
        /\ d \in Sound => Len(part[d]) = Bytes[d]
        /\ Size[d] = Bytes[d] /\ srcLen[d] = Bytes[d] => Len(part[d]) = Bytes[d]
    BY <1>1, ReadyToPublish
  <1>4. FileOK(d)'
    BY <1>1, <1>2, <1>3 DEF BlobOK, FileOK, Complete, Sound
  <1>5. WorkerOK(d)'
    BY <1>2 DEF WorkerOK, Calls
  <1>6. Delivered(d)'
    BY <1>1, <1>2, <1>3 DEF Delivered, Complete
  <1>7. CallOK(d)'
    BY <1>1, <1>2, <1>6 DEF BlobOK, CallOK, Active
  <1> QED
    BY <1>1, <1>4, <1>5, <1>7, WorkerStep DEF BlobOK, TypeOK

\* A worker that gives up leaves the files to the next call.
LEMMA InvFails ==
  ASSUME IInv, TypeOK', NEW d \in Blobs, pc[d] \in Calls,
         pc' = [pc EXCEPT ![d] = "failed"],
         UNCHANGED <<files, startAt, rd, wr, call, group, srcLen>>
  PROVE  IInv'
  <1> USE DEF files, call, group
  <1>1. TypeOK /\ BlobOK(d) /\ pc'[d] = "failed"
    BY DEF IInv, BlobOK, TypeOK
  <1>2. FileOK(d)'
    BY <1>1 DEF BlobOK, FileOK, Complete, Sound
  <1>3. WorkerOK(d)'
    BY <1>1 DEF WorkerOK, Calls
  <1>4. CallOK(d)'
    BY <1>1, CallKept DEF BlobOK, Calls
  <1> QED
    BY <1>1, <1>2, <1>3, <1>4, WorkerStep DEF BlobOK, TypeOK, Calls

\* Rename: what is published is a part that was found complete.
LEMMA InvRename ==
  ASSUME IInv, TypeOK', NEW d \in Blobs, Rename(d)
  PROVE  IInv'
  <1>1. CASE RenameWorks(d)
    BY <1>1, InvPublish DEF Rename, tally, env
  <1>2. CASE ~RenameWorks(d)
    BY <1>2, InvFails DEF Rename, Calls, tally, env
  <1> QED
    BY <1>1, <1>2

\* The source is opened at the resume point.
LEMMA InvOpenSrc ==
  ASSUME IInv, TypeOK', NEW d \in Blobs, OpenSrc(d)
  PROVE  IInv'
  <1> USE DEF OpenSrc, files, call, group, env
  <1>1. TypeOK /\ BlobOK(d)
    BY DEF IInv, BlobOK
  <1>2. CASE srcLen[d] # -1 /\ startAt[d] <= srcLen[d]
    <2>1. rd'[d] = startAt[d] /\ pc'[d] = "openPart"
      BY <1>1, <1>2 DEF TypeOK
    <2>2. FileOK(d)'
      BY <1>1 DEF BlobOK, FileOK, Complete, Sound
    <2>3. WorkerOK(d)'
      BY <1>1, <1>2, <2>1 DEF BlobOK, WorkerOK, Length, Calls
    <2>4. CallOK(d)'
      BY <1>1, <2>1, CallKept DEF BlobOK
    <2> QED
      BY <1>1, <1>2, <2>2, <2>3, <2>4, WorkerStep DEF BlobOK, TypeOK
  <1>3. CASE ~(srcLen[d] # -1 /\ startAt[d] <= srcLen[d])
    BY <1>3, InvFails DEF Calls
  <1> QED
    BY <1>2, <1>3

\* The part is opened at the same place.
LEMMA InvOpenPart ==
  ASSUME IInv, TypeOK', NEW d \in Blobs, OpenPart(d)
  PROVE  IInv'
  <1> USE DEF OpenPart, call, group, tally, env
  <1>1. TypeOK /\ BlobOK(d)
    BY DEF IInv, BlobOK
  <1>2. /\ part'[d] = IF part[d] = NoFile THEN <<>> ELSE part[d]
        /\ wr'[d] = startAt[d] /\ pc'[d] = "copy"
    BY <1>1 DEF TypeOK
  <1>3. <<>> # NoFile /\ Prefix(0) = <<>>
    <2>1. <<>> \in Seq(Nat)
      OBVIOUS
    <2>2. Prefix(0) = <<>>
      BY DEF Prefix
    <2> QED
      BY <2>1, <2>2, NoFileAssumption
  <1>4. part'[d] # NoFile /\ Len(part'[d]) = Length(part[d])
    BY <1>2, <1>3 DEF Length
  <1>5. FileOK(d)'
    BY <1>1, <1>2, <1>3 DEF BlobOK, FileOK, Complete, Sound
  <1>6. WorkerOK(d)'
    BY <1>1, <1>2, <1>4 DEF BlobOK, WorkerOK, Calls
  <1>7. CallOK(d)'
    BY <1>1, <1>2, CallKept DEF BlobOK
  <1> QED
    BY <1>1, <1>5, <1>6, <1>7, WorkerStep DEF BlobOK, TypeOK

\* A turn of the copy keeps reader and writer at one place.
LEMMA InvCopyTurn ==
  ASSUME IInv, TypeOK', NEW d \in Blobs, CopyTurn(d)
  PROVE  IInv'
  <1> USE DEF CopyTurn, call, group, tally, env
  <1>1. TypeOK /\ BlobOK(d) /\ pc[d] = "copy"
    BY DEF IInv, BlobOK
  <1>2. /\ part[d] # NoFile /\ part[d] \in Seq(Nat) /\ part[d] = Prefix(Len(part[d]))
        /\ rd[d] = Len(part[d]) /\ wr[d] = Len(part[d]) /\ rd[d] <= srcLen[d]
    BY <1>1 DEF BlobOK, FileOK, WorkerOK, TypeOK, File
  <1>3. ~(final[d] # NoFile /\ Len(final[d]) = Size[d])
    BY <1>1 DEF BlobOK, WorkerOK, Calls
  <1>4. CASE pc' = [pc EXCEPT ![d] = "failed"] /\ UNCHANGED <<part, rd, wr>>
    BY <1>1, <1>4, InvFails DEF Calls, files
  <1>5. CASE /\ rd[d] < srcLen[d]
             /\ part' = [part EXCEPT ![d] = WriteAt(@, wr[d], rd[d] + 1)]
             /\ rd' = [rd EXCEPT ![d] = @ + 1]
             /\ wr' = [wr EXCEPT ![d] = @ + 1]
             /\ UNCHANGED pc
    <2>1. /\ part'[d] = Prefix(Len(part[d]) + 1)
          /\ rd'[d] = rd[d] + 1 /\ wr'[d] = wr[d] + 1 /\ pc'[d] = "copy"
      BY <1>1, <1>2, <1>5, CopyExtendsPrefix DEF TypeOK
    <2>2. Len(part'[d]) = Len(part[d]) + 1 /\ part'[d] \in Seq(Nat)
      BY <1>2, <2>1, PrefixIsSeq
    <2>3. part'[d] # NoFile
      BY <2>2, NoFileAssumption
    <2>4. FileOK(d)'
      BY <1>1, <2>1, <2>2 DEF BlobOK, FileOK, Complete, Sound
    <2>5. rd'[d] <= srcLen[d]
      <3>1. rd[d] \in Nat /\ srcLen[d] \in Int
        BY <1>1 DEF TypeOK
      <3> QED
        BY <1>5, <2>1, <3>1
    <2>6. WorkerOK(d)'
      BY <1>2, <1>3, <2>1, <2>2, <2>3, <2>5 DEF WorkerOK
    <2>7. CallOK(d)'
      BY <1>1, <2>1, CallKept DEF BlobOK
    <2> QED
      BY <1>1, <1>5, <2>4, <2>6, <2>7, WorkerStep DEF BlobOK, TypeOK
  <1>6. CASE /\ rd[d] >= srcLen[d]
             /\ pc' = [pc EXCEPT ![d] = "rename"]
             /\ UNCHANGED <<part, rd, wr>>
    <2>1. pc'[d] = "rename"
      BY <1>1, <1>6 DEF TypeOK
    <2>2. Len(part[d]) = srcLen[d]
      BY <1>1, <1>2, <1>6 DEF TypeOK
    <2>3. FileOK(d)'
      BY <1>1, <1>6 DEF BlobOK, FileOK, Complete, Sound
    <2>4. WorkerOK(d)'
      BY <1>2, <1>3, <1>6, <2>1, <2>2 DEF WorkerOK
    <2>5. CallOK(d)'
      BY <1>1, <2>1, CallKept DEF BlobOK
    <2> QED
      BY <1>1, <1>6, <2>3, <2>4, <2>5, WorkerStep DEF BlobOK, TypeOK
  <1> QED
    BY <1>4, <1>5, <1>6

\* A worker that ends has delivered its blob or fails the group.
LEMMA InvFinish ==
  ASSUME IInv, TypeOK', NEW d \in Blobs, Finish(d)
  PROVE  IInv'
  <1> USE DEF Finish, files, call, env
  <1>1. TypeOK /\ BlobOK(d) /\ pc'[d] = "done"
    BY DEF IInv, BlobOK, TypeOK
  <1>2. FileOK(d)'
    BY <1>1 DEF BlobOK, FileOK, Complete, Sound
  <1>3. WorkerOK(d)'
    BY <1>1 DEF WorkerOK, Calls
  <1>4. Delivered(d) => Delivered(d)'
    BY DEF Delivered, Complete
  <1>5. pc[d] = "failed" => gErr'
    OBVIOUS
  <1>6. CallOK(d)'
    BY <1>1, <1>4, <1>5 DEF BlobOK, CallOK, Active
  <1> QED
    BY <1>1, <1>2, <1>3, <1>6, WorkerStep DEF BlobOK, TypeOK

\* Every step keeps the invariant.
LEMMA InvNext == IInv /\ TInv /\ [Next]_vars => IInv'
  <1> SUFFICES ASSUME IInv, TInv, [Next]_vars PROVE IInv'
    OBVIOUS
  <1>1. TypeOK'
    BY TypeNext DEF TInv
  <1>2. CASE Yield \/ Exhausted \/ IterFail \/ Cancel \/ UNCHANGED vars
    BY <1>1, <1>2, InvCaller
  <1>3. CASE \E want, restored \in SUBSET Blobs : PutBlobs(want, restored)
    BY <1>1, <1>3, InvPutBlobs
  <1>4. CASE Go \/ Return \/ Crash
    BY <1>1, <1>4, InvGo, InvReturn, InvCrash
  <1>5. ASSUME NEW d \in Blobs, PutOne(d) PROVE IInv'
    BY <1>1, <1>5, InvStatDst, InvStatPart, InvRemovePart, InvRename, InvOpenSrc,
       InvOpenPart, InvCopyTurn, InvFinish DEF PutOne
  <1>6. ASSUME NEW d \in Blobs, CallFails(d) PROVE IInv'
    BY <1>1, <1>6, InvFails DEF CallFails
  <1>7. ASSUME NEW d \in Blobs, RenameAnswerLost(d) PROVE IInv'
    BY <1>1, <1>7, InvPublish DEF RenameAnswerLost
  <1> QED
    BY <1>2, <1>3, <1>4, <1>5, <1>6, <1>7 DEF Next

\* The inductive invariant of BlobPool: whatever its workers, faults and crashes do.
THEOREM Inductive == Spec => [](IInv /\ TInv)
  BY InvInit, InvNext, TypeInit, TypeNext, PTL DEF Spec

-----------------------------------------------------------------------------
(* What follows from it.                                                   *)

\* Whatever fails, is cancelled or dies, in any interleaving of any number of
\* workers: no torn file, and sound blobs are published whole or not at all.
THEOREM Intact == Spec => []FinalIntact
  <1>1. IInv => FinalIntact
    BY DEF IInv, FinalIntact, FileOK, Sound
  <1> QED
    BY <1>1, Inductive, PTL

\* A nil error of a call that was not cancelled means delivered.
THEOREM SuccessDelivers == Spec => []SuccessMeansDelivered
  <1>1. ASSUME IInv, phase = "returned", outcome = "ok", ~cancelled,
               NEW d \in asked, Size[d] = Bytes[d], srcLen[d] = Bytes[d]
        PROVE  Complete(d)
    <2>1. d \in Blobs
      BY <1>1 DEF IInv, TypeOK
    <2>2. ~gErr /\ todo = {}
      BY <1>1 DEF IInv, GroupOK, gctxDone
    <2>3. pc[d] = "done"
      BY <1>1, <2>1, <2>2 DEF IInv, CallOK, Active
    <2> QED
      BY <1>1, <2>1, <2>2, <2>3 DEF IInv, CallOK, Delivered
  <1>2. IInv => SuccessMeansDelivered
    BY <1>1 DEF SuccessMeansDelivered
  <1> QED
    BY <1>2, Inductive, PTL

\* The steps that touch the files of a blob, and what they do to them.
LEMMA FileSteps ==
  ASSUME IInv, TInv, [Next]_vars, NEW e \in Blobs
  PROVE  \/ final'[e] = final[e] /\ part'[e] = part[e]
         \/ /\ pc[e] = "removePart"
            /\ final'[e] = final[e] /\ part'[e] = NoFile
         \/ /\ pc[e] \in {"renamePart", "rename"} /\ part[e] # NoFile
            /\ final'[e] = part[e] /\ part'[e] = NoFile
         \/ /\ pc[e] = "openPart" /\ part[e] = NoFile
            /\ final'[e] = final[e] /\ part'[e] # NoFile
         \/ /\ pc[e] = "copy" /\ final'[e] = final[e]
            /\ part'[e] \in Seq(Nat) /\ Len(part'[e]) = Len(part[e]) + 1
  <1> USE DEF files, workers, call, group, tally, env
  <1>1. /\ final \in [Blobs -> File] /\ part \in [Blobs -> File]
        /\ FileOK(e) /\ WorkerOK(e) /\ TypeOK'
    BY TypeNext DEF IInv, TInv, TypeOK
  <1>2. CASE UNCHANGED files
    BY <1>2
  <1>3. ASSUME NEW d \in Blobs, RemovePart(d) \/ Rename(d) \/ RenameAnswerLost(d),
               d # e
        PROVE  final'[e] = final[e] /\ part'[e] = part[e]
    BY <1>1, <1>3 DEF RemovePart, Rename, RenameAnswerLost
  <1>4. ASSUME NEW d \in Blobs, OpenPart(d) \/ CopyTurn(d), d # e
        PROVE  final'[e] = final[e] /\ part'[e] = part[e]
    BY <1>1, <1>4 DEF OpenPart, CopyTurn
  <1>5. CASE RemovePart(e)
    BY <1>1, <1>5 DEF RemovePart
  <1>6. CASE Rename(e) \/ RenameAnswerLost(e)
    BY <1>1, <1>6 DEF Rename, RenameAnswerLost, RenameWorks
  <1>7. CASE OpenPart(e)
    <2>1. <<>> \in Seq(Nat)
      OBVIOUS
    <2>2. <<>> # NoFile
      BY <2>1, NoFileAssumption
    <2> QED
      BY <1>1, <1>7, <2>2 DEF OpenPart
  <1>8. CASE CopyTurn(e)
    <2>1. CASE part' = [part EXCEPT ![e] = WriteAt(@, wr[e], rd[e] + 1)]
      <3>1. /\ pc[e] = "copy" /\ part[e] \in Seq(Nat) /\ part[e] = Prefix(Len(part[e]))
            /\ rd[e] = Len(part[e]) /\ wr[e] = Len(part[e])
        BY <1>1, <1>8 DEF CopyTurn, WorkerOK, FileOK, File
      <3>2. part'[e] = Prefix(Len(part[e]) + 1)
        BY <1>1, <2>1, <3>1, CopyExtendsPrefix
      <3> QED
        BY <1>8, <3>1, <3>2, PrefixIsSeq DEF CopyTurn
    <2> QED
      BY <1>8, <2>1 DEF CopyTurn
  <1>9. CASE ~UNCHANGED files
    <2>1. \E d \in Blobs : \/ RemovePart(d) \/ Rename(d) \/ RenameAnswerLost(d)
                           \/ OpenPart(d) \/ CopyTurn(d)
      BY <1>9 DEF Next, PutOne, PutBlobs, Yield, Exhausted, IterFail, Go, Return,
                  StatDst, StatPart, OpenSrc, Finish, CallFails, Cancel, Crash, vars
    <2> QED
      BY <2>1, <1>3, <1>4, <1>5, <1>6, <1>7, <1>8
  <1> QED
    BY <1>2, <1>9

\* No retry, resume or late worker rewrites a blob published at its stated size.
THEOREM PublishedForever == Spec => PublishedStays
  <1>1. ASSUME IInv, TInv, [Next]_vars, NEW d \in Blobs,
               final[d] # NoFile, Len(final[d]) = Size[d]
        PROVE  final'[d] = final[d]
    <2>1. pc[d] \notin {"renamePart", "rename"}
      BY <1>1 DEF IInv, WorkerOK, Calls
    <2> QED
      BY <1>1, <2>1, FileSteps
  <1>2. IInv /\ TInv /\ [Next]_vars =>
          \A d \in Blobs : final[d] # NoFile /\ Len(final[d]) = Size[d] => final'[d] = final[d]
    BY <1>1
  <1> QED
    BY <1>2, Inductive, PTL DEF Spec, PublishedStays

\* Bytes received for a blob are kept until the blob is published.
THEOREM BytesKept == Spec => ResumeKeepsBytes
  <1>1. ASSUME IInv, TInv, [Next]_vars, NEW d \in Blobs,
               part[d] # NoFile, Len(part[d]) <= Size[d]
        PROVE  \/ part'[d] # NoFile /\ Len(part[d]) <= Len(part'[d])
               \/ part'[d] = NoFile /\ final'[d] = part[d]
    <2>1. pc[d] # "removePart"
      <3>1. Len(part[d]) \in Nat /\ Size[d] \in Nat
        BY <1>1, SizesAssumption DEF TInv, TypeOK, File
      <3> QED
        BY <1>1, <3>1 DEF IInv, WorkerOK, Length
    <2>2. Len(part[d]) \in Nat
      BY <1>1 DEF TInv, TypeOK, File
    <2>3. NoFile \notin Seq(Nat)
      BY NoFileAssumption
    <2> QED
      BY <1>1, <2>1, <2>2, <2>3, FileSteps
  <1>2. IInv /\ TInv /\ [Next]_vars =>
          \A d \in Blobs : part[d] # NoFile /\ Len(part[d]) <= Size[d] =>
            \/ part'[d] # NoFile /\ Len(part[d]) <= Len(part'[d])
            \/ part'[d] = NoFile /\ final'[d] = part[d]
    BY <1>1
  <1> QED
    BY <1>2, Inductive, PTL DEF Spec, ResumeKeepsBytes

-----------------------------------------------------------------------------
(* PutBlobs implements the contract of OciDirs.                            *)

Published == {d \in Sound : final[d] # NoFile}
CallState == IF Active THEN "busy" ELSE IF phase = "idle" THEN "idle" ELSE outcome

\* A step that neither starts, ends nor interrupts the call, and publishes at
\* most one sound blob, is a step of the contract.
LEMMA QuietStep ==
  ASSUME Published' = Published \/ (Active /\ \E d \in asked \cap Sound :
                                       Published' = Published \cup {d}),
         asked' = asked, cancelled' = cancelled, CallState' = CallState
  PROVE  [Contract!Next]_(Contract!vars)
  BY DEF Contract!Next, Contract!Deliver, Contract!vars, Published, CallState

\* Publishing a blob puts it into the pool of the contract if it is sound.
LEMMA PublishStep ==
  ASSUME IInv, TInv, NEW d \in Blobs, part[d] # NoFile,
         pc[d] \in {"renamePart", "rename"},
         final' = [final EXCEPT ![d] = part[d]],
         UNCHANGED <<call, group>>
  PROVE  [Contract!Next]_(Contract!vars)
  <1> USE DEF call, group
  <1>1. Active /\ d \in asked
    BY DEF IInv, CallOK
  <1>2. CallState' = CallState
    BY DEF CallState, Active
  <1>3. \A e \in Blobs : final'[e] = IF e = d THEN part[d] ELSE final[e]
    BY DEF TInv, TypeOK
  <1>4. CASE d \in Sound
    <2>1. Published' = Published \cup {d}
      BY <1>3, <1>4 DEF Published, Sound
    <2> QED
      BY <1>1, <1>2, <1>4, <2>1, QuietStep
  <1>5. CASE d \notin Sound
    <2>1. Published' = Published
      BY <1>3, <1>5 DEF Published, Sound
    <2> QED
      BY <1>2, <2>1, QuietStep
  <1> QED
    BY <1>4, <1>5

\* A step of BlobPool is a step of the contract of OciDirs, or none.
LEMMA ContractStep ==
  IInv /\ TInv /\ [Next]_vars => [Contract!Next]_(Contract!vars)
  <1> SUFFICES ASSUME IInv, TInv, [Next]_vars
               PROVE  [Contract!Next]_(Contract!vars)
    OBVIOUS
  <1> USE DEF files, workers, call, group, tally, env
  <1>1. ASSUME NEW want \in SUBSET Blobs, NEW restored \in SUBSET Blobs,
               PutBlobs(want, restored)
        PROVE  Contract!Next
    <2>1. Contract!Begin(want \cap Sound)
      BY <1>1 DEF PutBlobs, Active, IInv, TypeOK, Contract!Begin
    <2> QED
      BY <2>1 DEF Contract!Next
  <1>2. CASE Return
    <2>1. Active /\ ~Active' /\ phase' = "returned"
      BY <1>2 DEF Return, Active
    <2>2. UNCHANGED <<final, asked, cancelled>>
      BY <1>2 DEF Return
    <2>3. CASE iterErr \/ gErr
      <3>1. Contract!ReturnError
        BY <1>2, <2>1, <2>2, <2>3 DEF Return, Contract!ReturnError
      <3> QED
        BY <3>1 DEF Contract!Next
    <2>4. CASE ~(iterErr \/ gErr)
      <3>1. ASSUME ~cancelled, NEW d \in asked \cap Sound
            PROVE  final[d] # NoFile
        <4>1. d \in Blobs /\ todo = {}
          BY <1>2, <2>4, <3>1 DEF Return, IInv, TypeOK, GroupOK, gctxDone
        <4>2. pc[d] = "done"
          BY <1>2, <4>1 DEF Return, IInv, CallOK, Running
        <4> QED
          BY <2>4, <4>1, <4>2 DEF IInv, CallOK, Delivered
      <3>2. Contract!ReturnOk
        BY <1>2, <2>1, <2>2, <2>4, <3>1 DEF Return, Contract!ReturnOk
      <3> QED
        BY <3>2 DEF Contract!Next
    <2> QED
      BY <2>3, <2>4
  <1>3. CASE Cancel
    <2>1. Contract!Interrupt
      BY <1>3 DEF Cancel, Active, Contract!Interrupt
    <2> QED
      BY <2>1 DEF Contract!Next
  <1>4. CASE Crash
    <2>1. Contract!Die
      BY <1>4 DEF Crash, Active, Contract!Die
    <2> QED
      BY <2>1 DEF Contract!Next
  <1>5. CASE Yield \/ Exhausted \/ IterFail \/ Go \/ UNCHANGED vars
    <2>1. final' = final /\ asked' = asked /\ cancelled' = cancelled
      BY <1>5 DEF Yield, Exhausted, IterFail, Go, vars
    <2>2. CallState' = CallState
      BY <1>5 DEF Yield, Exhausted, IterFail, Go, vars, CallState, Active
    <2> QED
      BY <2>1, <2>2, QuietStep DEF Published
  <1>6. ASSUME NEW d \in Blobs,
               \/ StatDst(d) \/ StatPart(d) \/ RemovePart(d) \/ OpenSrc(d)
               \/ OpenPart(d) \/ CopyTurn(d) \/ Finish(d) \/ CallFails(d)
               \/ Rename(d) /\ ~RenameWorks(d)
        PROVE  [Contract!Next]_(Contract!vars)
    <2>1. final' = final /\ asked' = asked /\ cancelled' = cancelled /\ phase' = phase
          /\ outcome' = outcome
      BY <1>6 DEF StatDst, StatPart, RemovePart, OpenSrc, OpenPart, CopyTurn, Finish,
                  CallFails, Rename
    <2> QED
      BY <2>1, QuietStep DEF Published, CallState, Active
  <1>7. ASSUME NEW d \in Blobs,
               RenameAnswerLost(d) \/ (Rename(d) /\ RenameWorks(d))
        PROVE  [Contract!Next]_(Contract!vars)
    BY <1>7, PublishStep DEF RenameAnswerLost, Rename, RenameWorks
  <1> QED
    BY <1>1, <1>2, <1>3, <1>4, <1>5, <1>6, <1>7 DEF Next, PutOne

\* Every behaviour of the pool is one of the contract: complete blobs are only
\* ever added, during a call and among those it was asked for, and ok means all.
THEOREM Implements == Spec => ContractSpec
  <1>1. Init => Contract!Init
    <2> SUFFICES ASSUME Init PROVE Contract!Init
      OBVIOUS
    <2>1. {d \in Sound : final[d] # NoFile} = {}
      BY DEF Init, Sound
    <2> QED
      BY <2>1 DEF Init, Active, Contract!Init
  <1> QED
    BY <1>1, ContractStep, Inductive, PTL DEF Spec, ContractSpec, Contract!Spec
=============================================================================
