# skopeo-image-share: a TLA+ verification project

`skopeo-image-share` moves OCI images between two hosts without a registry. Each
side keeps a mirror under a base dir: one tag dir per image (`oci-layout`,
`index.json`) and one pool of blobs shared by all images (`share/sha256/<hex>`).
`push` dumps an image from live storage into the local mirror, ships what the peer
lacks over SFTP, and lets the peer load it; `pull` goes the other way. There is no
locking, no database and no log: what the tool promises about interrupted
transfers rests on the order in which files are written and renamed.

The modules below model that order, and everything that can come in between.

## The system

| Component | State | Operations | Interacts with |
| --- | --- | --- | --- |
| `FsOciDirs` (`fsocidirs.go`) | `share/<algo>/<hex>`, `<hex>.part`, the tag files; per call: an errgroup, the result | `PutBlobs`, `putOne`, `PutTagFile`, `Blob`, `Image` | a `vroot.Fs` (local, or SFTP) and the iterator of its caller |
| `OciDirs` (`ocidirs.go`) | - | the interface: what `PutBlobs` promises | its callers, push and pull |
| `Local.Push`, `Local.Pull`, `dump` (`push.go`, `pull.go`, `commands/`) | the run: images left, reports, failed count, `remoteHas`/`localHas` | `pushOne`, `pullOne`, `mapKeyDiff`, `mirrorTagFiles` | both mirrors, skopeo on both hosts |
| Enumeration (`enumerate.go`, `remote.go`, `local.go`) | none of its own | `ListBlobs`, `List`, `walkDumpDirs` | mirrors, podman/docker, `skopeo inspect` |
| `sshRemote` (`remote.go`, `ssh.go`) | `closed`, the mutex, the ssh subprocess, the watcher goroutine | `NewRemote`, `startWatch`, `Close`, `forceClose`, `waitCmd` | the SFTP client of all workers, the signal context |
| `SftpFs` (`sftpfs.go`) | base path | `Rename`, `Remove`, `OpenFile`, `Stat` ... | the SFTP server |
| `ocidir` | - | `ReadManifest`, `AllDescriptors`, `OpenSeekedBlob` | a mirror |
| `imageref` | - | `Parse`, `String`: a reference as typed, kept and printed | everybody |
| Layout of the base dir (`paths.go`, the walk of `enumerate.go`, `parseDumpDirRel` of `remote.go`) | the directories of a base dir | `RelDumpDir`, `EnsureLayout`, `walkDumpDirs`, a directory back to its reference | both mirrors; skopeo and the peer's shell are told its paths |
| wrappers (`pkg/cli`) | - | argument vectors for skopeo, podman, docker, ssh | the tools, which are external |

What is hard about it, and what makes each part correct:

* **Blob pool.** Up to `limit` workers and the loop of `PutBlobs` run at once; a
  part file outlives the process and is continued by offset; the context can end, a
  call can fail, an SFTP answer can be lost, the process can die between any two
  calls. Nothing compares a digest. Correct means: no file is ever torn, a nil error
  means that the blobs are there, leftovers never block a retry, a published blob
  is never touched again, received bytes are kept, and every call ends.
* **Orchestration.** What a side has is enumerated once per run and used for all its
  images; tag files are written *before* the blobs they name; a run may stop
  anywhere and be repeated with other arguments. Correct means: a report without an
  error is true and stays true, the plan leaves out nothing that is missing, a
  run over healthy images succeeds whatever earlier runs left, exit code and
  `--keep-going` account for every image, a dry run writes nothing.
* **Session.** `Close` by the user races `forceClose` by the watcher; workers
  blocked in SFTP do not see the context. Correct means: one teardown, no process
  left, every blocked call released, no goroutine leaked.
* **Layout.** A reference becomes a directory by `path.Join`, which cleans; a
  directory becomes a reference again by the first marker found in it; the walk takes
  what it finds for images; paths go to skopeo in `oci:path:tag` and to the shell of
  the peer in one line. Correct means: every image is listed as the reference it was
  brought for, nothing else is, no image gets into the dir of another, and the tools
  read the paths that were meant.

`PROJECT.json` lists these hazards at the lines where they bite, with the
properties that cover them or the reason why none does.

## Modules

| Module | Contents |
| --- | --- |
| `BlobContract` | what `OciDirs.PutBlobs` promises: a pool of complete blobs that only grows, within calls; success means delivered unless cancelled |
| `BlobPool` | `FsOciDirs.PutBlobs` and `putOne`, one step per file-system call; refines `BlobContract` |
| `BlobPoolProofs`, `BlobPoolOutcomeProofs` | theorems about files and the refinement; about errors and counters |
| `ImageTransfer` | what push and pull promise their user: whole images, at once or not at all |
| `Share` | runs of `push`, `pull`, `dump` on two hosts; refines `ImageTransfer` |
| `ShareProofs`, `ShareOutcomeProofs`, `ShareTransferProofs` | theorems about reports and mirrors; about plans, errors and exit status; the refinement |
| `RemoteSession` | the life of one `sshRemote` |
| `RemoteSessionProofs` | its theorems |
| `ImageRef` | `Parse` and `String` of package `imageref` |
| `Layout` | a base dir in use: dumps, mirrors, the walk, the command lines; built on `ImageRef` |
| `ImageRefProofs` | the text theorems: cutting and joining, what `Parse` accepts and `String` prints; the induction principles they need |
| `LayoutProofs` | theorems about directories, the walk and the command lines |
| `MCBlobPool`, `MCShare`, `MCLayout` | constants of the small instances |

Operators named in comments as *Mutant* are variants of the definition that
follows, with a plausible bug in it. No specification uses them; each property is
checked to fail when its definition is replaced by the mutant named in
`PROJECT.json`.

### BlobPool

A blob is the sequence `1, 2, ..., Bytes[d]` of its units, so that a file can be
seen to be a prefix, too short, too long or torn. `final[d]` and `part[d]` are the
two files of a digest. `pc[d]` is the next file-system call of the worker of `d`:

| pc | code | action |
| --- | --- | --- |
| `statDst` | stat of the destination, skip when the size matches | `StatDst` |
| `statPart` | stat of the part, resume point, oversize check | `StatPart` |
| `removePart` | remove an oversize part | `RemovePart` |
| `openSrc` | `bu.Open` at the offset | `OpenSrc` |
| `openPart` | open without truncation, seek | `OpenPart` |
| `copy` | one turn of `io.CopyBuffer` behind the cancellable reader | `CopyTurn` |
| `renamePart`, `rename` | rename of a part found, or just made, complete | `Rename` |
| `sent`, `skipped`, `failed` | the closure given to `g.Go` returns | `Finish` |

`phase` is where the caller's goroutine is: in the loop (`Yield`, `Exhausted`,
`IterFail`), blocked in `g.Go` (`Go`), in `g.Wait` (`Return`), or back. The errgroup
is `gErr` (a worker failed) and `cancelled` (the caller's context); `gctxDone` is
their disjunction. As in the code, `Return` reports worker and iterator errors, and
never the caller's context.

The world: `CallFails` (any call returns an error), `RenameAnswerLost` (the server
did it, the client does not know), `Cancel`, `Crash` (only the files are left), and
in `PutBlobs` a source that has been completed between two calls. Once the context
is cancelled calls fail freely, since `forceClose` tears the connection down.

### Share

A side is its live storage (`live`: what a tag means there, `store`: its
layers) and its mirror (`pool`, `layout`, `index`). One run has a command line
`cmd`; `pc` walks `enumerate`, then per image `manifest`, `layout`, `index`, `blobs`,
`load`. `skopeo copy` into the mirror is `DumpBlob`, blob by blob, and `DumpDone`;
`PutBlobs` is `SendBlob` and `BlobsPut`, written after `Deliver` and `ReturnOk` of
`BlobContract`, the cancelled nil error included. (They are not an INSTANCE of it:
the pool of a side also grows by what skopeo and other hosts put there, of which the
contract of one caller does not speak.) A load takes manifest and config
from the pool and layers from the pool or from live storage. `claims[s][r]` records
the image last reported, without error and by a run that was not cancelled, as
brought to `s` under the name `r`; it is dropped when a later run starts to overwrite the tag dir or
somebody else changes the tag. It is a history variable.

`ImageTransfer` is the same seen from outside, for live storage on both sides: `tags`
is `live`, `shelf` the `index.json` files of the peer, `moving` the image between
`layout` and `load`, `told` the claims. All of the pool, the plan, the tag dirs and
the enumeration is gone from it: a run picks an image, and either it arrives whole
under its tag, or the tag stays as it was.

Faults: an error of any tool at any step, an answer of the peer lost after the peer
acted, cancellation, death of the process, images built or removed locally at any
time. Between two runs the peer may receive images from others; during a run it
may not, because the repository's README rules out two runs on one base dir.

### RemoteSession

Two threads, the user's goroutine and the watcher, share the teardown actions
(`Lock`, `SftpClose`, `Kill`, `Wait`, `Timer`, `Waited`); workers only make requests
and wait. The ssh process, the peer and `pkg/sftp` are external. Whether
`sftp.Client.Close` waits for its receiver is not decided in this repository:
`closeWaits` is either, and the liveness properties say in so many words what is
lost if it does and the peer is silent.

### ImageRef and Layout

A text is a sequence of words and separators, since the code looks at no more of a
word than whether it is one of its own, has a dot, or is the hex of a digest. `Parse`,
`String`, `RelDumpDir`, `parseDumpDirRel`, `shellQuote` and `TransportRef.Format` are
operators that follow the code's cuts and conditions; `Clean` is `path.Join`, dots
included. Every loop over a text is one fold, `FoldText`, so that one induction serves
all of them. `Atoms` are the words together with the characters of paths, flags and
quotes: what a command line is made of. The state of `Layout` is the directories below a base dir and which
`index.json` is whose; its actions are what makes directories: `EnsureLayout`,
`PutBlobs`, `Dump` (with every way to end half made), `Mirror` (with the `__temp__`
dir of `SafeWrite`), and `LoadImage`, the one command whose argument vector goes
through a shell. `walkDumpDirs` and `parseDumpDirRel` read the state back. `ShWords`
says what `sh` makes of a line, `OciPath` where skopeo ends a path, `SkopeoTakes`
which references the tools accept: these are external.

## What is checked

| Run | Instance | Question |
| --- | --- | --- |
| `put_sound` | 2 blobs of 2 units, 2 workers, 2 faults, no posix-rename, one blob absent at first | files intact, success means delivered, no wedge, counters, refinement of the contract |
| `put_sources` | one source too long, one too short until restored, 1 worker, 2 faults, fairness | wrong sizes are repaired, right files never rewritten, calls end, retries deliver, no worker goes round in circles, the inductive invariant |
| `share_runs` | 7 command lines with all flags, 2 images sharing a layer, 2 faults, builds, removal, foreign pushes | every safety property of a run; refinement of `ImageTransfer` |
| `share_rerun` | push and pull repeated, `oci:` peer, rebuilds, 2 faults, fairness | reruns deliver |
| `session` | 2 workers, 3 requests, 2 calls of Close, both kinds of client | one teardown, never stuck, no lost wakeup, and its liveness |
| `names` | 40 spellings of references, 2 commands, a base dir with a blank, a quote and a dollar sign | references and directories correspond; the shell reads what was meant |

Six runs show a disagreement between the code and what it says of itself:

| Run | What TLC shows |
| --- | --- |
| `put_nosize` | a blob whose descriptor has no size fails on every call: its missing part counts as complete |
| `share_oci_pull` | with `--local-transport=oci` a pull repeated after an interruption reports success without the layers, because enumeration counts what manifests name, not what the pool has |
| `share_cancel` | a cancellation between two blobs yields a nil error and a report of success |
| `session_grace` | the watcher never waits for `ForceCloseGrace`: its `select` has a `default` |
| `session_stall` | a peer silent during the SFTP handshake leaves `NewRemote` and ssh beyond the reach of the context |
| `names_port` | a registry with a port puts a colon into the path given to skopeo as `oci:path:tag`, and skopeo ends the path there |

**Bounds.** `MaxFaults` bounds failures, cancellations and crashes together. Two are
enough for a fault in the repair of an earlier fault. A third adds nothing of a new
kind, since all a fault leaves is a file, and each digest has two of them; the passing
`put_*` and `share_*` instances were also run once with `MaxFaults = 3`, and `share_runs`
with an `oci:` peer, with the same outcome.
Two units per blob give absent, partial and complete parts, three an oversize
one; a worker touches only the files of its digest, so that two blobs show
every way two workers meet in the group. Two images, one with a layer of its own
and one shared, and two references give stale plans, half-written tag dirs and
retagging. In `Layout` two commands are enough for one image to overwrite or to hide
another, which is all its properties exclude; the spellings cover every branch of
`Parse` and the names the layout uses for itself. `MaxRequests` and `MaxCloses` only keep the session finite.

**Fairness.** Goroutines, timers and a live SFTP server make progress: weak fairness
of the caller, of each worker and of each teardown thread. That the user repeats a
command is strong fairness of the start of a run, because a run disables it.
Failures, cancellations, stalls and lost connections have no fairness. The
session ends, and so do the `MaxSteps` commands of `names`: their deadlock check is
off.

## What is proved

TLAPS checks these for every value of the constants under the named assumptions of
the modules (natural numbers for sizes, a positive limit, well-formed command lines):

* `BlobPoolProofs`: `TypeCorrect`, `Inductive`, `Intact`, `SuccessDelivers`,
  `PublishedForever`, `BytesKept`, and `Implements` (`BlobPool` refines
  `BlobContract`). `BlobPoolOutcomeProofs`: `CountersAreRight`, and `NoErrorForNothing`
  under `SizesStated` (each size stated is the blob's own and not 0; without
  posix-rename the sources are sound); `WorkersEnd`, whatever the sizes.
* `ShareProofs`: `ShareInvariant`, `ShareTypes`, `NothingIsPruned`, `DryRunsAreDry`,
  and `ReportsAreTrue` for live storage on the local side. `ShareOutcomeProofs`:
  `ExitCodeIsTrue`, and `PlansAreComplete`, `LeftoversDoNoHarm`, `KeepGoingGoesOn` for
  live storage on the local side and `LayersApart` (no blob is a layer of one image
  and the manifest or config of another). `ShareTransferProofs`: `MovesWholeImages`
  (`Share` refines `ImageTransfer`) for live storage on both sides.
* `RemoteSessionProofs`: `SessionInvariant`, `TearsDownOnce`, `CloseReaps`,
  `TeardownIsNeverStuck`, `NoWakeupIsLost`.
* `ImageRefProofs`, for every text and every word class: `SplitJoin` (joining what
  `strings.Split` cuts gives the text back), `ParseShape` (a reference that `Parse`
  accepts has a host, a path without markers and a tag or a digest), `Reparsed`
  (`String` of it is parsed to the same reference).
* `LayoutProofs`: `LayoutTypes`, `DumpDirsApart`, `ImagesAreListed`, `StaysInItsDir`,
  `NothingElseIsListed`, `PrintedReadBack`, `ShellUnquotes` (what `sh` makes of a line
  that `shellQuote` wrote is the argument vector it was given), `ArgvAlwaysArrives`, and
  `OciPathsRead`: skopeo reads the path of `oci:path:image` as it was meant exactly when
  the base dir has no `:`, the host no port and no tag stands beside a digest. It draws
  the line that `names_port` crosses.
  None of them assumes more than that the words of the layout (`Atoms`) include the
  ones it names itself.

The arguments:

* *No torn file.* `FinalIntact` is not inductive: an append preserves it only if the
  writer stands at the end of the part and the reader at the same place. `WorkerOK`
  says so, and that what a worker has learnt of its two files holds until it acts,
  because no other worker has its digest.
* *Success means delivered.* `CallOK` ties each blob of the call to its worker: one
  that was handed out is running or done, and is delivered if done and the group
  has no error. `GroupOK` says that the loop leaves nothing in the iterator without
  an error or a cancellation.
* *Refinement.* `ContractStep` maps every step to a step of the contract or to a
  stutter. Only renames deliver, and the blob renamed was asked for: `CallOK` again.
* *Reports are true.* At `load`, the manifest read, the one in the destination's
  `index.json` and the one the plan was made for are the same (`RunOK`), and every
  blob of it was shipped or was listed as there. Live storage
  rejects a load whose layers it cannot find; an `oci:` peer rejects
  nothing, and there `HaveOK` is needed: what was listed of a pool that is never
  pruned is still there. For an `oci:` *local* side the claim is false
  (`share_oci_pull`), and `ReportsAreTrue` assumes `LocalTransport = "live"`.
* *One teardown.* `closed` does not say how far the teardown has come; the mutex
  does. `Underway` and `Over` count the calls made so far by the step of its holder.
* *Never stuck, never forgotten.* What the liveness of the session rests on is an
  invariant: whoever waits for the mutex waits for a thread in the teardown
  (`MutexOK`), which waits at most for the end of ssh, whose input it has closed
  (`PipesOK`); and a watcher that exists has been told of a cancelled context or a Close
  (`WatchOK`), also if it began after the cancellation. Only that enabled
  steps are taken in the end is left to TLC.
* *Workers end.* `Ahead` bounds the steps before a worker from above and each
  step lowers it: this is the safety half of `CallsEnd`, whose other half, that the loop
  and the workers are scheduled and that `g.Go` never waits for nothing, TLC checks.
* *No error for nothing.* With sizes stated, a worker reaches the rename only over a
  part that is there (`WorkerOK`), and resumes its source within it (`PartFits`); so a
  call of `putOne` can only fail by a fault, which is what the property excepts.
* *Counters.* Each blob asked for is counted once, by the worker that ends: the sum of
  both counters is the cardinality of the set of blobs done.
* *Plans and outcomes.* The layers counted on stay where they are as long as no
  local image is removed (`CountedOn`), manifest and config are shipped in any case
  (`PlanOK`), so that no step of an image whose source is healthy is `Broken`
  (`NotBroken`); and each word of the command line is still to do, reported, or failed
  with an excuse (`LoopOK`).
* *Whole images.* The mapping sends `DumpDone` and `ReadPeerManifest` to `Pick`,
  `PutIndex` of a push to `Shelve`, `Load` to `Arrive`, failures to `GiveUp`; a lost
  answer is any of the last three. That what arrives is what was picked is `RunOK`.
* *One image, one directory.* `ReadBack`: cutting `host/path/_tags/tag` at its first
  marker gives the reference back, because `Parse` refuses a path with a marker in it
  and the tools refuse dots. Distinct references therefore have distinct directories
  (`DumpDirsApart`).
* *Nothing else is listed.* `path.Join` drops and moves segments but makes none. A
  directory that has a marker just above its end lies on the way to the dump dir of a
  reference asked for (`DirsInv`), and since no marker comes earlier on that way, it is
  the dump dir.
* *Texts.* `Split`, `Clean` and the reading of a shell line are folds. The induction
  theorems of the library take an operator and cannot be used; instead, the set of the
  lengths of texts for which a claim fails has a least element, and the text of that
  length is one atom longer than one for which the claim holds. With this a fold is
  determined by what it does at the empty text and at one more atom, and the theorems
  are about a single atom: `Split` of a text and one atom more (`Cuts`), the state
  `ShRead` is in after each quoted word.

TLC checks the same invariants (`IInv`) on the instances above. Every safety property of
a passing run has a theorem, under the hypotheses named above where it has some. Only model-checked: the liveness properties (`CallsEnd`, `RetriesDeliver`,
`RerunDelivers`, `CancelUnblocks`, `CloseReturns`, `WatcherEnds`), since the prover
reasons neither about fairness nor about ENABLED.

## What is left out

* Contents: digests are never compared by this program, so a blob of the right
  size and wrong contents is not modelled. Byte counts, summary lines and logging.
* What skopeo, podman, docker, ssh and the SFTP server do inside. A call of theirs
  succeeds, fails, or succeeds unseen.
* Loss of written data: nothing is synced, and a power failure can undo a
  rename or empty a file. The model's crash is that of the process.
* JSON: the validation of manifests in `ocidir`, the output of `inspect` and of the
  image listings. Each check is one condition on one document; a document that fails
  it is an image step that fails.
* An `index.json` with several manifests: what skopeo keeps of an earlier one is not
  decided in this repository. Tag files on a server without posix-rename: README.md:75
  asks for the sftp-server of a standard sshd.
* Methods of `SftpFs` that nothing in the program calls, `RedactArgv` and `TailBytes`
  (texts of error messages), cobra and the flags, the cached `Local.Validate` (a run
  makes its own `Local`). `internal/cmd` prepares test data.

## Plan

Done, in this order: `BlobContract` and `BlobPool`; their proofs; `Share`; its
proofs; `RemoteSession`; its proofs; `ImageRef` and `Layout`; their proofs; the
outcomes of calls and runs; `ImageTransfer` and its refinement; the proofs about texts;
the safety that the liveness of the session and of the calls rests on.

Left: a measure for a run of `Share` like the one for a worker.

## Running it

    tlc -config put_sound.cfg MCBlobPool      # put_* runs
    tlc -config share_runs.cfg MCShare        # share_* runs
    tlc -config session.cfg RemoteSession     # session* runs
    tlc -config names.cfg MCLayout            # names* runs
    tlapm BlobPoolProofs.tla                  # and the other *Proofs modules
