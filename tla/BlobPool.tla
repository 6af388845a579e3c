------------------------------ MODULE BlobPool ------------------------------
(***************************************************************************)
(* FsOciDirs.PutBlobs and putOne (pkg/skopeoimageshare/fsocidirs.go): a    *)
(* bounded group of workers streams blobs into a shared pool, each through *)
(* a `.part` file that a later call resumes and that an atomic rename      *)
(* publishes.  One step per file-system call, because a call can fail, the *)
(* context can be cancelled and the process can die between any two.       *)
(*                                                                         *)
(* A blob is the sequence of its units 1, 2, ..., Bytes[d]: enough to tell *)
(* a prefix from a torn file.  A file is such a sequence, or NoFile.       *)
(***************************************************************************)
EXTENDS Integers, Sequences, FiniteSets

CONSTANTS
  Blobs,        \* digests; naturals, so that the lexical order of blobIter is <=
  Bytes,        \* Bytes[d]: the units blob d really has
  Size,         \* Size[d]: BlobUpload.Size, 0 when the descriptor had none
  SrcInit,      \* SrcInit[d]: units the source pool holds at first, -1 when absent
  Limit,        \* the worker limit of NewFsOciDirs
  PosixRename,  \* rename replaces an existing target (sftpfs.Rename)
  MaxFaults,    \* bound: failing calls, cancellations and crashes together
  NoFile        \* no such file

ASSUME BlobsAssumption == Blobs \subseteq Nat
ASSUME SizesAssumption == /\ Bytes \in [Blobs -> Nat]
                          /\ Size \in [Blobs -> Nat]
                          /\ SrcInit \in [Blobs -> Nat \cup {-1}]
ASSUME LimitAssumption == Limit \in Nat \ {0}
ASSUME RenameAssumption == PosixRename \in BOOLEAN
ASSUME FaultsAssumption == MaxFaults \in Nat
ASSUME NoFileAssumption == NoFile \notin Seq(Nat)

VARIABLES
  final,      \* final[d]: share/<algo>/<hex>
  part,       \* part[d]: share/<algo>/<hex>.part
  srcLen,     \* srcLen[d]: units the source pool holds now, -1 when absent
  pc,         \* pc[d]: the next file-system call of d's worker
  startAt,    \* startAt[d]: putOne's startAt
  rd, wr,     \* rd[d], wr[d]: offsets of the source reader and of the part writer
  phase,      \* where the goroutine that called PutBlobs is
  asked,      \* the blobs of the current (or last) call
  todo,       \* those the iterator has not handed to a worker
  cancelled,  \* the caller's ctx is cancelled
  gErr,       \* a worker has returned an error: errgroup cancelled gctx
  iterErr,    \* the iterator yielded an error
  sent, reused, \* PutBlobsResult
  outcome,    \* how the last call returned
  faults,     \* faults so far
  hit         \* a fault hit the current (or last) call

files == <<final, part>>
workers == <<pc, startAt, rd, wr>>
call == <<phase, asked, todo, outcome>>
group == <<cancelled, gErr, iterErr>>
tally == <<sent, reused>>
env == <<srcLen, faults, hit>>
vars == <<files, workers, call, group, tally, env>>

-----------------------------------------------------------------------------
File == Seq(Nat) \cup {NoFile}
Prefix(n) == [i \in 1..n |-> i]
Length(f) == IF f = NoFile THEN 0 ELSE Len(f)

\* Write unit u at offset p; a gap before it reads as zeros.
WriteAt(f, p, u) ==
  [i \in 1..(IF p < Len(f) THEN Len(f) ELSE p + 1) |->
     IF i = p + 1 THEN u ELSE IF i <= Len(f) THEN f[i] ELSE 0]

Calls == {"statDst", "statPart", "removePart", "renamePart",
          "openSrc", "openPart", "copy", "rename"}
Steps == Calls \cup {"idle", "sent", "skipped", "failed", "done"}
Running == {d \in Blobs : pc[d] \notin {"idle", "done"}}
Active == phase \in {"loop", "go", "wait"}

\* errgroup.WithContext: gctx ends with the caller's ctx or the first worker error.
gctxDone == cancelled \/ gErr

-----------------------------------------------------------------------------
Init ==
  /\ final = [d \in Blobs |-> NoFile]
  /\ part = [d \in Blobs |-> NoFile]
  /\ srcLen = SrcInit
  /\ pc = [d \in Blobs |-> "idle"]
  /\ startAt = [d \in Blobs |-> 0]
  /\ rd = [d \in Blobs |-> 0]
  /\ wr = [d \in Blobs |-> 0]
  /\ phase = "idle" /\ asked = {} /\ todo = {} /\ outcome = "none"
  /\ cancelled = FALSE /\ gErr = FALSE /\ iterErr = FALSE
  /\ sent = 0 /\ reused = 0
  /\ faults = 0 /\ hit = FALSE

-----------------------------------------------------------------------------
(* The goroutine that calls PutBlobs.                                      *)

\* A first call, or the user's retry: the group, the result and ctx are new.  A
\* dump or a push by the source's own user may have completed blobs of the
\* source pool since the last call.
PutBlobs(want, restored) ==
  /\ ~Active
  /\ srcLen' = [d \in Blobs |-> IF d \in restored THEN Bytes[d] ELSE srcLen[d]]
  /\ phase' = "loop" /\ asked' = want /\ todo' = want /\ outcome' = "none"
  /\ cancelled' = FALSE /\ gErr' = FALSE /\ iterErr' = FALSE
  /\ sent' = 0 /\ reused' = 0
  /\ pc' = [d \in Blobs |-> "idle"]
  /\ startAt' = [d \in Blobs |-> 0]
  /\ rd' = [d \in Blobs |-> 0]
  /\ wr' = [d \in Blobs |-> 0]
  /\ hit' = FALSE
  /\ UNCHANGED <<files, faults>>

\* The iterator yields a blob: leave the loop if gctx is done, else call g.Go.
Yield ==
  /\ phase = "loop"
  /\ todo # {}
  /\ phase' = IF gctxDone THEN "wait" ELSE "go"
  /\ UNCHANGED <<files, workers, asked, todo, outcome, group, tally, env>>

\* The iterator is exhausted.
Exhausted ==
  /\ phase = "loop"
  /\ todo = {}
  /\ phase' = "wait"
  /\ UNCHANGED <<files, workers, asked, todo, outcome, group, tally, env>>

IterFail ==
  /\ phase = "loop"
  /\ faults < MaxFaults
  /\ phase' = "wait"
  /\ iterErr' = TRUE
  /\ faults' = faults + 1 /\ hit' = TRUE
  /\ UNCHANGED <<files, workers, asked, todo, outcome, cancelled, gErr, tally, srcLen>>

\* Mutant: the limit is off by one.
GoOneTooFew ==
  /\ phase = "go"
  /\ Cardinality(Running) < Limit - 1
  /\ \E d \in todo : /\ pc' = [pc EXCEPT ![d] = "statDst"]
                     /\ todo' = todo \ {d}
  /\ phase' = "loop"
  /\ UNCHANGED <<files, startAt, rd, wr, asked, outcome, group, tally, env>>

\* sortedDigests: blobIter yields in lexical order.
NextInOrder(d) == d \in todo /\ \A e \in todo : d <= e

\* g.Go blocks for a slot and then starts the worker, cancelled or not.
Go ==
  /\ phase = "go"
  /\ Cardinality(Running) < Limit
  /\ \E d \in todo :
       /\ NextInOrder(d)
       /\ pc' = [pc EXCEPT ![d] = "statDst"]
       /\ todo' = todo \ {d}
  /\ phase' = "loop"
  /\ UNCHANGED <<files, startAt, rd, wr, asked, outcome, group, tally, env>>

\* Mutant: the error of g.Wait is dropped.
ReturnIterErrOnly ==
  /\ phase = "wait"
  /\ Running = {}
  /\ phase' = "returned"
  /\ outcome' = IF iterErr THEN "error" ELSE "ok"
  /\ UNCHANGED <<files, workers, asked, todo, group, tally, env>>

\* Mutant: the result is returned before the workers are done.
ReturnEarly ==
  /\ phase = "wait"
  /\ phase' = "returned"
  /\ outcome' = IF iterErr \/ gErr THEN "error" ELSE "ok"
  /\ UNCHANGED <<files, workers, asked, todo, group, tally, env>>

\* g.Wait returns the first worker error, and never that of the caller's ctx.
Return ==
  /\ phase = "wait"
  /\ Running = {}
  /\ phase' = "returned"
  /\ outcome' = IF iterErr \/ gErr THEN "error" ELSE "ok"
  /\ UNCHANGED <<files, workers, asked, todo, group, tally, env>>

-----------------------------------------------------------------------------
(* putOne, in the worker of blob d.                                        *)

\* Mutant: any file of that name counts as complete.
StatDstExists(d) ==
  /\ pc[d] = "statDst"
  /\ pc' = [pc EXCEPT ![d] = IF final[d] # NoFile THEN "skipped" ELSE "statPart"]
  /\ UNCHANGED <<files, startAt, rd, wr, call, group, tally, env>>

\* Mutant: the destination is not looked at.
StatDstNever(d) ==
  /\ pc[d] = "statDst"
  /\ pc' = [pc EXCEPT ![d] = "statPart"]
  /\ UNCHANGED <<files, startAt, rd, wr, call, group, tally, env>>

StatDst(d) ==
  /\ pc[d] = "statDst"
  /\ pc' = [pc EXCEPT ![d] = IF final[d] # NoFile /\ Len(final[d]) = Size[d]
                             THEN "skipped" ELSE "statPart"]
  /\ UNCHANGED <<files, startAt, rd, wr, call, group, tally, env>>

\* A complete part only needs the rename: Open is not called for it.
AfterPart(d, at) == IF at = Size[d] THEN "renamePart" ELSE "openSrc"

\* Mutant: an oversize part is resumed like any other.
StatPartKeepOversize(d) ==
  /\ pc[d] = "statPart"
  /\ startAt' = [startAt EXCEPT ![d] = Length(part[d])]
  /\ pc' = [pc EXCEPT ![d] = AfterPart(d, Length(part[d]))]
  /\ UNCHANGED <<files, rd, wr, call, group, tally, env>>

\* Mutant: resume from the last unit instead of after it.
StatPartOffByOne(d) ==
  /\ pc[d] = "statPart"
  /\ startAt' = [startAt EXCEPT ![d] = Length(part[d]) - 1]
  /\ pc' = [pc EXCEPT ![d] = AfterPart(d, Length(part[d]))]
  /\ UNCHANGED <<files, rd, wr, call, group, tally, env>>

StatPart(d) ==
  /\ pc[d] = "statPart"
  /\ IF Length(part[d]) > Size[d]
     THEN /\ pc' = [pc EXCEPT ![d] = "removePart"]
          /\ UNCHANGED startAt
     ELSE /\ startAt' = [startAt EXCEPT ![d] = Length(part[d])]
          /\ pc' = [pc EXCEPT ![d] = AfterPart(d, Length(part[d]))]
  /\ UNCHANGED <<files, rd, wr, call, group, tally, env>>

\* An oversize part cannot be a prefix of the blob: start again.
RemovePart(d) ==
  /\ pc[d] = "removePart"
  /\ part' = [part EXCEPT ![d] = NoFile]
  /\ startAt' = [startAt EXCEPT ![d] = 0]
  /\ pc' = [pc EXCEPT ![d] = AfterPart(d, 0)]
  /\ UNCHANGED <<final, rd, wr, call, group, tally, env>>

\* Without posix-rename the SFTP rename refuses an existing target.
RenameWorks(d) == part[d] # NoFile /\ (PosixRename \/ final[d] = NoFile)

\* fs.Rename(part, dst), of a part found complete or just completed.
Rename(d) ==
  /\ pc[d] \in {"renamePart", "rename"}
  /\ IF RenameWorks(d)
     THEN /\ final' = [final EXCEPT ![d] = part[d]]
          /\ part' = [part EXCEPT ![d] = NoFile]
          /\ pc' = [pc EXCEPT ![d] = "sent"]
     ELSE /\ pc' = [pc EXCEPT ![d] = "failed"]
          /\ UNCHANGED files
  /\ UNCHANGED <<startAt, rd, wr, call, group, tally, env>>

\* bu.Open: the blob must exist and reach the offset (OpenSeekedBlob).
OpenSrc(d) ==
  /\ pc[d] = "openSrc"
  /\ IF srcLen[d] # -1 /\ startAt[d] <= srcLen[d]
     THEN /\ rd' = [rd EXCEPT ![d] = startAt[d]]
          /\ pc' = [pc EXCEPT ![d] = "openPart"]
     ELSE /\ pc' = [pc EXCEPT ![d] = "failed"]
          /\ UNCHANGED rd
  /\ UNCHANGED <<files, startAt, wr, call, group, sent, reused, env>>

\* Mutant: the Seek is forgotten.
OpenPartNoSeek(d) ==
  /\ pc[d] = "openPart"
  /\ part' = [part EXCEPT ![d] = IF @ = NoFile THEN <<>> ELSE @]
  /\ wr' = [wr EXCEPT ![d] = 0]
  /\ pc' = [pc EXCEPT ![d] = "copy"]
  /\ UNCHANGED <<final, startAt, rd, call, group, tally, env>>

\* Mutant: O_TRUNC.
OpenPartTrunc(d) ==
  /\ pc[d] = "openPart"
  /\ part' = [part EXCEPT ![d] = <<>>]
  /\ wr' = [wr EXCEPT ![d] = startAt[d]]
  /\ pc' = [pc EXCEPT ![d] = "copy"]
  /\ UNCHANGED <<final, startAt, rd, call, group, tally, env>>

\* Mutant: O_EXCL.
OpenPartExcl(d) ==
  /\ pc[d] = "openPart"
  /\ part' = [part EXCEPT ![d] = IF @ = NoFile THEN <<>> ELSE @]
  /\ wr' = [wr EXCEPT ![d] = startAt[d]]
  /\ pc' = [pc EXCEPT ![d] = IF part[d] = NoFile THEN "copy" ELSE "failed"]
  /\ UNCHANGED <<final, startAt, rd, call, group, tally, env>>

\* O_WRONLY|O_CREATE without O_TRUNC, then Seek(startAt).
OpenPart(d) ==
  /\ pc[d] = "openPart"
  /\ part' = [part EXCEPT ![d] = IF @ = NoFile THEN <<>> ELSE @]
  /\ wr' = [wr EXCEPT ![d] = startAt[d]]
  /\ pc' = [pc EXCEPT ![d] = "copy"]
  /\ UNCHANGED <<final, startAt, rd, call, group, tally, env>>

\* Mutant: a source that ends too early is opened again.
CopyTurnAgain(d) ==
  /\ pc[d] = "copy"
  /\ \/ /\ rd[d] < srcLen[d]
        /\ part' = [part EXCEPT ![d] = WriteAt(@, wr[d], rd[d] + 1)]
        /\ rd' = [rd EXCEPT ![d] = @ + 1]
        /\ wr' = [wr EXCEPT ![d] = @ + 1]
        /\ UNCHANGED <<pc, startAt>>
     \/ /\ rd[d] >= srcLen[d]
        /\ pc' = [pc EXCEPT ![d] = IF wr[d] < Size[d] THEN "openSrc" ELSE "rename"]
        /\ startAt' = [startAt EXCEPT ![d] = wr[d]]
        /\ UNCHANGED <<part, rd, wr>>
  /\ UNCHANGED <<final, call, group, tally, env>>

\* One turn of io.CopyBuffer: the cancellable reader looks at gctx first; EOF
\* is where the source ends, whatever Size says.
CopyTurn(d) ==
  /\ pc[d] = "copy"
  /\ \/ /\ gctxDone
        /\ pc' = [pc EXCEPT ![d] = "failed"]
        /\ UNCHANGED <<part, rd, wr>>
     \/ /\ ~gctxDone
        /\ rd[d] < srcLen[d]
        /\ part' = [part EXCEPT ![d] = WriteAt(@, wr[d], rd[d] + 1)]
        /\ rd' = [rd EXCEPT ![d] = @ + 1]
        /\ wr' = [wr EXCEPT ![d] = @ + 1]
        /\ UNCHANGED pc
     \/ /\ ~gctxDone
        /\ rd[d] >= srcLen[d]
        /\ pc' = [pc EXCEPT ![d] = "rename"]
        /\ UNCHANGED <<part, rd, wr>>
  /\ UNCHANGED <<final, startAt, call, group, tally, env>>

\* Mutant: a skipped blob is not counted.
FinishSkipUncounted(d) ==
  /\ pc[d] \in {"sent", "skipped", "failed"}
  /\ pc' = [pc EXCEPT ![d] = "done"]
  /\ sent' = IF pc[d] = "sent" THEN sent + 1 ELSE sent
  /\ gErr' = (gErr \/ pc[d] = "failed")
  /\ UNCHANGED <<files, startAt, rd, wr, call, cancelled, iterErr, reused, env>>

\* The closure given to g.Go returns: count the blob, or cancel the group.
Finish(d) ==
  /\ pc[d] \in {"sent", "skipped", "failed"}
  /\ pc' = [pc EXCEPT ![d] = "done"]
  /\ sent' = IF pc[d] = "sent" THEN sent + 1 ELSE sent
  /\ reused' = IF pc[d] = "skipped" THEN reused + 1 ELSE reused
  /\ gErr' = (gErr \/ pc[d] = "failed")
  /\ UNCHANGED <<files, startAt, rd, wr, call, cancelled, iterErr, env>>

-----------------------------------------------------------------------------
(* What goes wrong around it.                                              *)

\* Once ctx is cancelled, forceClose tears the connection down under every
\* call; before that a failing call spends one of the faults.
SpendFault == \/ cancelled /\ UNCHANGED <<faults, hit>>
              \/ ~cancelled /\ faults < MaxFaults /\ faults' = faults + 1 /\ hit' = TRUE

CallFails(d) ==
  /\ pc[d] \in Calls
  /\ SpendFault
  /\ pc' = [pc EXCEPT ![d] = "failed"]
  /\ UNCHANGED <<files, startAt, rd, wr, call, group, tally, srcLen>>

\* The rename took effect, but its answer was lost.
RenameAnswerLost(d) ==
  /\ pc[d] \in {"renamePart", "rename"}
  /\ RenameWorks(d)
  /\ SpendFault
  /\ final' = [final EXCEPT ![d] = part[d]]
  /\ part' = [part EXCEPT ![d] = NoFile]
  /\ pc' = [pc EXCEPT ![d] = "failed"]
  /\ UNCHANGED <<startAt, rd, wr, call, group, tally, srcLen>>

Cancel ==
  /\ Active
  /\ ~cancelled
  /\ faults < MaxFaults
  /\ cancelled' = TRUE
  /\ faults' = faults + 1 /\ hit' = TRUE
  /\ UNCHANGED <<files, workers, call, gErr, iterErr, tally, srcLen>>

\* The process dies: nothing but the files is left.
Crash ==
  /\ Active
  /\ faults < MaxFaults
  /\ phase' = "idle" /\ todo' = {}
  /\ pc' = [d \in Blobs |-> "idle"]
  /\ faults' = faults + 1 /\ hit' = TRUE
  /\ UNCHANGED <<files, startAt, rd, wr, asked, outcome, group, tally, srcLen>>

-----------------------------------------------------------------------------
Caller == Yield \/ Exhausted \/ Go \/ Return

PutOne(d) == \/ StatDst(d) \/ StatPart(d) \/ RemovePart(d) \/ Rename(d)
             \/ OpenSrc(d) \/ OpenPart(d) \/ CopyTurn(d) \/ Finish(d)

Next == \/ \E want, restored \in SUBSET Blobs : PutBlobs(want, restored)
        \/ Yield \/ Exhausted \/ IterFail \/ Go \/ Return
        \/ \E d \in Blobs : \/ PutOne(d)
                            \/ CallFails(d)
                            \/ RenameAnswerLost(d)
        \/ Cancel
        \/ Crash

Spec == Init /\ [][Next]_vars

\* Goroutines are scheduled, and the user runs the command again until it has
\* put everything: the retry is disabled during a call, hence SF.
Fairness == /\ WF_vars(Caller)
            /\ \A d \in Blobs : WF_vars(PutOne(d))
            /\ SF_vars(\E restored \in SUBSET Blobs : PutBlobs(Blobs, restored))

FairSpec == Spec /\ Fairness

-----------------------------------------------------------------------------
(* Properties.                                                             *)

TypeOK ==
  /\ final \in [Blobs -> File] /\ part \in [Blobs -> File]
  /\ srcLen \in [Blobs -> Nat \cup {-1}]
  /\ pc \in [Blobs -> Steps]
  /\ startAt \in [Blobs -> Nat] /\ rd \in [Blobs -> Nat] /\ wr \in [Blobs -> Nat]
  /\ phase \in {"idle", "loop", "go", "wait", "returned"}
  /\ asked \subseteq Blobs /\ todo \subseteq Blobs
  /\ outcome \in {"none", "ok", "error"}
  /\ cancelled \in BOOLEAN /\ gErr \in BOOLEAN /\ iterErr \in BOOLEAN
  /\ sent \in Nat /\ reused \in Nat
  /\ faults \in Nat /\ hit \in BOOLEAN

\* The descriptor states the true size and the source never holds less.
Sound == {d \in Blobs : /\ Bytes[d] > 0
                        /\ Size[d] = Bytes[d]
                        /\ SrcInit[d] \in {-1, Bytes[d]}}
Complete(d) == final[d] = Prefix(Bytes[d])

\* No interleaving, failed call, cancellation or crash tears a file: part files
\* and published blobs are always prefixes of the blob (resume by offset in
\* putOne is right), and a sound blob is published whole or not at all.
FinalIntact ==
  /\ \A d \in Blobs : /\ final[d] # NoFile => final[d] = Prefix(Len(final[d]))
                      /\ part[d] # NoFile => part[d] = Prefix(Len(part[d]))
  /\ \A d \in Sound : final[d] # NoFile => Complete(d)

\* A nil error of a call that was not cancelled means that each blob asked for is
\* at the destination, whole, if the source has it whole under the stated size.
SuccessMeansDelivered ==
  phase = "returned" /\ outcome = "ok" /\ ~cancelled =>
    \A d \in asked : Size[d] = Bytes[d] /\ srcLen[d] = Bytes[d] => Complete(d)

\* A call that no fault hits, over a source that has everything, succeeds whatever
\* earlier calls left behind: no leftover part file can wedge putOne.
NoSpuriousError ==
  phase = "returned" /\ ~hit /\ (\A d \in asked : srcLen[d] = Bytes[d]) =>
    outcome = "ok"

\* The two counters of a successful call cover every blob exactly once.
CountersCoverTheCall ==
  phase = "returned" /\ outcome = "ok" /\ ~cancelled =>
    sent + reused = Cardinality(asked)

\* A blob published at its stated size is never rewritten or removed: retries and
\* resumed calls skip it (OciDirs.PutBlobs: "blobs already accepted remain").
PublishedStays ==
  [][\A d \in Blobs : final[d] # NoFile /\ Len(final[d]) = Size[d] => final'[d] = final[d]]_vars

\* Received bytes are not given up: a part within the stated size only grows, or
\* becomes the published blob.
ResumeKeepsBytes ==
  [][\A d \in Blobs : part[d] # NoFile /\ Len(part[d]) <= Size[d] =>
       \/ part'[d] # NoFile /\ Len(part[d]) <= Len(part'[d])
       \/ part'[d] = NoFile /\ final'[d] = part[d]]_vars

\* Every call returns, or dies with its process: workers waiting for a slot, the
\* loop blocked in g.Go and g.Wait never wait on each other for good.
CallsEnd == Active ~> ~Active

\* The steps that the worker of d still has before it at most.
Ahead(d) ==
  LET units(at) == IF at < srcLen[d] THEN srcLen[d] - at ELSE 0
  IN  CASE pc[d] \in {"idle", "done"} -> 0
        [] pc[d] \in {"sent", "skipped", "failed"} -> 1
        [] pc[d] \in {"renamePart", "rename"} -> 2
        [] pc[d] = "copy" -> units(rd[d]) + 3
        [] pc[d] = "openPart" -> units(rd[d]) + 4
        [] pc[d] = "openSrc" -> units(startAt[d]) + 5
        [] pc[d] = "removePart" -> units(0) + 6
        [] pc[d] = "statPart" -> units(0) + 7
        [] pc[d] = "statDst" -> units(0) + 8

\* putOne never goes round in circles: whatever parts, sizes and sources it meets, and
\* whatever fails, each call it makes leaves it fewer to make.
WorkersGetOn ==
  [][\A d \in Running : <<pc[d], rd[d]>> # <<pc'[d], rd'[d]>> => Ahead(d)' < Ahead(d)]_vars

\* With retries, once the source has every blob whole, the pool gets them all.
RetriesDeliver ==
  <>[](\A d \in Blobs : srcLen[d] = Bytes[d]) => <>[](\A d \in Blobs : Complete(d))

\* PutBlobs keeps the contract of OciDirs for the sound blobs.
Contract == INSTANCE BlobContract WITH
  Digests <- Sound,
  pool <- {d \in Sound : final[d] # NoFile},
  asked <- asked \cap Sound,
  state <- IF Active THEN "busy" ELSE IF phase = "idle" THEN "idle" ELSE outcome,
  cancelled <- cancelled
ContractSpec == Contract!Spec

-----------------------------------------------------------------------------
(* The inductive invariant: why the properties hold.                       *)

\* Files hold a prefix of their blob, and sound blobs are published whole.
FileOK(d) ==
  /\ final[d] # NoFile => final[d] = Prefix(Len(final[d]))
  /\ part[d] # NoFile => part[d] = Prefix(Len(part[d]))
  /\ d \in Sound => /\ srcLen[d] \in {-1, Bytes[d]}
                    /\ final[d] # NoFile => Complete(d)

\* What putOne has learnt of the files stays true until it acts on it: nobody
\* else touches the files of a digest while its worker runs.
WorkerOK(d) ==
  /\ pc[d] \in Calls \ {"statDst"} => ~(final[d] # NoFile /\ Len(final[d]) = Size[d])
  /\ pc[d] = "removePart" => Length(part[d]) > Size[d]
  /\ pc[d] \in {"renamePart", "openSrc", "openPart"} => startAt[d] = Length(part[d])
  /\ pc[d] = "renamePart" => startAt[d] = Size[d]
  /\ pc[d] = "openPart" => rd[d] = startAt[d] /\ rd[d] <= srcLen[d]
  /\ pc[d] = "copy" => /\ part[d] # NoFile
                       /\ rd[d] = Len(part[d]) /\ wr[d] = Len(part[d])
                       /\ rd[d] <= srcLen[d]
  /\ pc[d] = "rename" => part[d] # NoFile /\ Len(part[d]) = srcLen[d]

Delivered(d) ==
  /\ final[d] # NoFile
  /\ Size[d] = Bytes[d] /\ srcLen[d] = Bytes[d] => Complete(d)

\* What the call knows of blob d: its worker started if the iterator gave it out,
\* and succeeded if it is done and the group has no error.
CallOK(d) ==
  /\ ~Active => pc[d] \in {"idle", "done"}
  /\ Active /\ pc[d] # "idle" => d \in asked
  /\ phase # "idle" /\ d \in asked \ todo => pc[d] # "idle"
  /\ pc[d] \in {"sent", "skipped"} => Delivered(d)
  /\ pc[d] = "done" /\ ~gErr => Delivered(d)

GroupOK ==
  /\ todo \subseteq asked
  /\ phase \in {"wait", "returned"} /\ ~gctxDone /\ ~iterErr => todo = {}
  /\ phase = "returned" => outcome = IF iterErr \/ gErr THEN "error" ELSE "ok"

\* FinalIntact and SuccessMeansDelivered are not inductive by themselves: they
\* rest on the offsets of each worker and on the book-keeping of the group.
IInv == TypeOK /\ GroupOK /\ \A d \in Blobs : FileOK(d) /\ WorkerOK(d) /\ CallOK(d)
=============================================================================
