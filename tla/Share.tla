------------------------------- MODULE Share -------------------------------
(***************************************************************************)
(* Local.Push, Local.Pull and the dump command (pkg/skopeoimageshare,      *)
(* cmd/skopeo-image-share/commands): what one run of the command line does *)
(* to the two hosts, image by image, when the run can fail, be cancelled   *)
(* or die at any step and the user runs it again.                          *)
(*                                                                         *)
(* The shared blob pool of a side is the set of its complete blobs, and    *)
(* PutBlobs is what BlobContract promises of it.  skopeo, podman and       *)
(* docker are external: modelled from what the code expects of them.       *)
(***************************************************************************)
EXTENDS Naturals, Sequences

CONSTANTS
  Refs,            \* image references
  Words,           \* what the user may type for one: Refs, and what does not parse
  Images,          \* image manifests, by digest
  Config, Layers,  \* Config[m], Layers[m]: the other blobs of manifest m
  LocalTransport,  \* "live" (containers-storage, docker-daemon) or "oci"
  PeerTransport,
  Commands,        \* the command lines the user may run
  LiveAtFirst,     \* LiveAtFirst[s][r]: the image live storage of s has as r
  Builds,          \* pairs <<r, m>>: the user may tag m as r in local live storage
  Removals,        \* refs the user may remove from it
  Others,          \* pairs <<r, m>>: the peer may get m as r from somebody else
  MaxFaults,       \* bound: failures, cancellations, crashes, builds and removals
  None             \* no image

Sides == {"local", "peer"}
Closure(m) == {m, Config[m]} \cup Layers[m]
Blobs == UNION {Closure(m) : m \in Images}

\* runDump has no flags of the kind: it goes on after a failure.
CommandOK(c) ==
  /\ DOMAIN c = {"op", "dryRun", "keepGoing", "assume", "args"}
  /\ c.op \in {"push", "pull", "dump"}
  /\ c.dryRun \in BOOLEAN /\ c.keepGoing \in BOOLEAN
  /\ c.op = "dump" => ~c.dryRun /\ c.keepGoing
  /\ c.assume \subseteq Blobs
  /\ c.args \in Seq(Words)

ASSUME RefsAssumption == Refs \subseteq Words
ASSUME NoneAssumption == None \notin Blobs
ASSUME TransportAssumption == {LocalTransport, PeerTransport} \subseteq {"live", "oci"}
ASSUME CommandsAssumption == \A c \in Commands : CommandOK(c)
ASSUME LiveAssumption == LiveAtFirst \in [Sides -> [Refs -> Images \cup {None}]]
ASSUME EnvAssumption == /\ Builds \subseteq Refs \X Images
                        /\ Others \subseteq Refs \X Images
                        /\ Removals \subseteq Refs
ASSUME FaultsAssumption == MaxFaults \in Nat

VARIABLES
  live,       \* live[s][r]: the image live storage of side s has as r
  store,      \* store[s]: the layers live storage of side s holds
  pool,       \* pool[s]: the complete blobs in share/
  index,      \* index[s][r]: the manifest named by index.json in r's tag dir
  layout,     \* layout[s]: refs whose tag dir has an oci-layout
  cmd, todo,  \* the run's command line, and what is left of its images
  pc,         \* the next step of the run
  have,       \* remoteHas or localHas
  man, toSend, \* the image at hand: its manifest, the blobs to ship (or to fetch)
  reported,   \* refs with a report whose Err is nil
  failedCount,
  result,     \* how the last run ended
  cancelled,  \* the run's ctx is cancelled
  claims,     \* claims[s][r]: the image last reported as brought to s by a run not cancelled
  faults,
  hit         \* one of the faults came in this (or the last) run

disk == <<pool, index, layout>>
world == <<live, store, disk>>
image == <<man, toSend>>
report == <<reported, failedCount, claims>>
env == <<cancelled, faults, hit>>
vars == <<world, cmd, todo, pc, have, image, report, result, env>>

-----------------------------------------------------------------------------
Live(s) == (IF s = "local" THEN LocalTransport ELSE PeerTransport) = "live"
Src == IF cmd.op = "push" THEN "local" ELSE "peer"
Dst == IF cmd.op = "push" THEN "peer" ELSE "local"
Ref == Head(todo)
Idle == pc = "idle"

\* What the load of an image on side s can use.
Usable(s) == pool[s] \cup (IF Live(s) THEN store[s] ELSE {})

LayersOf(tags) == UNION {Layers[tags[r]] : r \in {q \in Refs : tags[q] # None}}
NoCommand == [op |-> "none", dryRun |-> FALSE, keepGoing |-> FALSE,
              assume |-> {}, args |-> <<>>]

Init ==
  /\ live = LiveAtFirst
  /\ store = [s \in Sides |-> LayersOf(LiveAtFirst[s])]
  /\ pool = [s \in Sides |-> {}]
  /\ index = [s \in Sides |-> [r \in Refs |-> None]]
  /\ layout = [s \in Sides |-> {}]
  /\ cmd = NoCommand /\ todo = <<>> /\ pc = "idle" /\ have = {}
  /\ man = None /\ toSend = {}
  /\ reported = {} /\ failedCount = 0 /\ result = "none"
  /\ claims = [s \in Sides |-> [r \in Refs |-> None]]
  /\ cancelled = FALSE /\ faults = 0 /\ hit = FALSE

-----------------------------------------------------------------------------
(* The run: enumeration, the loop over the images, one image.              *)

\* --assume-... states what the user knows the destination to have.
Start(c) ==
  /\ Idle
  /\ c.assume \subseteq Usable(IF c.op = "push" THEN "peer" ELSE "local")
  /\ cmd' = c /\ todo' = c.args
  /\ pc' = IF c.op = "dump" THEN "loop" ELSE "enumerate"
  /\ have' = {} /\ man' = None /\ toSend' = {}
  /\ reported' = {} /\ failedCount' = 0 /\ result' = "none"
  /\ cancelled' = FALSE /\ hit' = FALSE
  /\ UNCHANGED <<world, claims, faults>>

\* Remote.ListBlobs: the files of share/ named like a digest; `.part` files are not.
ListBlobs == pool["peer"]

\* Mutant: what index.json and the manifests promise counts as there.
EnumeratePeerClosures ==
  /\ pc = "enumerate" /\ cmd.op = "push"
  /\ have' = ListBlobs \cup
       UNION {Closure(index["peer"][r]) :
                r \in {q \in Refs : index["peer"][q] \in pool["peer"]}}
  /\ pc' = "loop"
  /\ UNCHANGED <<world, cmd, todo, image, report, result, env>>

\* Mutant: files of share/ that are no blobs are listed as well.
EnumeratePeerJunk ==
  /\ pc = "enumerate" /\ cmd.op = "push"
  /\ have' = ListBlobs \cup {None}
  /\ pc' = "loop"
  /\ UNCHANGED <<world, cmd, todo, image, report, result, env>>

\* resolveRemoteHas: what the peer's share/ holds, unless the user said.
EnumeratePeer ==
  /\ pc = "enumerate" /\ cmd.op = "push"
  /\ have' = IF cmd.assume # {} THEN cmd.assume ELSE ListBlobs
  /\ pc' = "loop"
  /\ UNCHANGED <<world, cmd, todo, image, report, result, env>>

\* Local.List: what can be inspected of the images known locally, and share/.
ClosuresSeen(tags, seen) == UNION {Closure(tags[r]) : r \in seen}
Listed(tags) == {r \in Refs : tags[r] # None}
Dumped == {r \in Listed(index["local"]) : index["local"][r] \in pool["local"]}

EnumerateLocal ==
  /\ pc = "enumerate" /\ cmd.op = "pull"
  /\ \/ /\ cmd.assume # {}
        /\ have' = cmd.assume
     \/ /\ cmd.assume = {} /\ Live("local")
        /\ \E seen \in SUBSET Listed(live["local"]) :
             have' = ClosuresSeen(live["local"], seen) \cup pool["local"]
     \/ /\ cmd.assume = {} /\ ~Live("local")
        /\ have' = ClosuresSeen(index["local"], Dumped) \cup pool["local"]
  /\ pc' = "loop"
  /\ UNCHANGED <<world, cmd, todo, image, report, result, env>>

End(how) == pc' = "idle" /\ result' = how

\* The image at hand is done, well or not; without --keep-going a failure ends
\* the run.
ImageDone ==
  /\ todo' = Tail(todo)
  /\ reported' = reported \cup {Ref}
  /\ pc' = "loop"
  /\ UNCHANGED <<failedCount, result>>

\* Mutant: break instead of continue.
ImageFailedBreak ==
  /\ todo' = <<>>
  /\ failedCount' = failedCount + 1
  /\ IF cmd.keepGoing THEN pc' = "loop" /\ UNCHANGED result ELSE End("error")
  /\ UNCHANGED reported

ImageFailed ==
  /\ todo' = Tail(todo)
  /\ failedCount' = failedCount + 1
  /\ IF cmd.keepGoing THEN pc' = "loop" /\ UNCHANGED result ELSE End("error")
  /\ UNCHANGED reported

\* The head of the loop: ctx, then imageref.Parse.
NextImage ==
  /\ pc = "loop" /\ todo # <<>>
  /\ cmd.op = "dump" \/ ~cancelled
  /\ IF Ref \in Refs
     THEN pc' = "manifest" /\ UNCHANGED <<todo, reported, failedCount, result>>
     ELSE ImageFailed
  /\ man' = None /\ toSend' = {}
  /\ UNCHANGED <<world, cmd, have, claims, env>>

LoopCancelled ==
  /\ pc = "loop" /\ todo # <<>>
  /\ cmd.op # "dump" /\ cancelled
  /\ End("error")
  /\ UNCHANGED <<world, cmd, todo, have, image, report, env>>

\* Mutant: the commands look at the error only.
FinishOk ==
  /\ pc = "loop" /\ todo = <<>>
  /\ End("ok")
  /\ UNCHANGED <<world, cmd, todo, have, image, report, env>>

\* The commands turn a FailedCount above 0 into an error.
Finish ==
  /\ pc = "loop" /\ todo = <<>>
  /\ End(IF failedCount > 0 THEN "error" ELSE "ok")
  /\ UNCHANGED <<world, cmd, todo, have, image, report, env>>

\* Mutant: nothing is pinned.
MapKeyDiffUnpinned(need, had, pinned) == need \ had

MapKeyDiff(need, had, pinned) == pinned \cup (need \ had)
Plan(m) == MapKeyDiff(Closure(m), have, {m, Config[m]})

\* Mutant: --dry-run is forgotten.
DumpsAlways == pc = "manifest" /\ cmd.op \in {"push", "dump"}

\* Local.Dump and dumpAndDeriveClosurePush run skopeo copy, which fills the pool
\* blob by blob and writes the tag dir last.  No oci: source has a tag to copy.
Dumps == pc = "manifest" /\ cmd.op \in {"push", "dump"} /\ ~cmd.dryRun
CanCopy == Live("local") /\ live["local"][Ref] # None

DumpBlob(d) ==
  /\ Dumps /\ CanCopy /\ ~cancelled
  /\ d \in Closure(live["local"][Ref]) \ pool["local"]
  /\ pool' = [pool EXCEPT !["local"] = @ \cup {d}]
  /\ UNCHANGED <<live, store, index, layout, cmd, todo, pc, have, image, report, result, env>>

DumpDone ==
  /\ Dumps /\ CanCopy /\ ~cancelled
  /\ Closure(live["local"][Ref]) \subseteq pool["local"]
  /\ index' = [index EXCEPT !["local"][Ref] = live["local"][Ref]]
  /\ layout' = [layout EXCEPT !["local"] = @ \cup {Ref}]
  /\ claims' = [claims EXCEPT !["local"][Ref] = None]
  /\ IF cmd.op = "dump"
     THEN ImageDone /\ UNCHANGED image
     ELSE /\ man' = live["local"][Ref]
          /\ toSend' = Plan(man')
          /\ pc' = "layout"
          /\ UNCHANGED <<todo, reported, failedCount, result>>
  /\ UNCHANGED <<live, store, pool, cmd, have, env>>

\* --dry-run: the manifest is inspected (push) or read (pull), the plan printed.
DryRun ==
  /\ pc = "manifest" /\ cmd.dryRun
  /\ IF cmd.op = "push" THEN CanCopy /\ ~cancelled
     ELSE index["peer"][Ref] \in pool["peer"]
  /\ man' = IF cmd.op = "push" THEN live["local"][Ref] ELSE index["peer"][Ref]
  /\ toSend' = Plan(man')
  /\ ImageDone
  /\ UNCHANGED <<world, cmd, have, claims, env>>

\* ocidir.ReadManifest in the peer's tag dir.
ReadPeerManifest ==
  /\ pc = "manifest" /\ cmd.op = "pull" /\ ~cmd.dryRun
  /\ index["peer"][Ref] \in pool["peer"]
  /\ man' = index["peer"][Ref]
  /\ toSend' = Plan(man')
  /\ pc' = "layout"
  /\ UNCHANGED <<world, cmd, todo, have, report, result, env>>

\* mirrorTagFiles, mirrorTagFilesFromPeer: oci-layout, then index.json.
Readable == Ref \in layout[Src] /\ index[Src][Ref] # None

\* Mutant: the tag dir is made anew.
PutLayoutAnew ==
  /\ pc = "layout" /\ Readable
  /\ layout' = [layout EXCEPT ![Dst] = @ \cup {Ref}]
  /\ index' = [index EXCEPT ![Dst][Ref] = None]
  /\ claims' = [claims EXCEPT ![Dst][Ref] = None]
  /\ pc' = "index"
  /\ UNCHANGED <<live, store, pool, cmd, todo, have, image,
                 reported, failedCount, result, env>>

\* Mutant: O_EXCL.
PutLayoutExcl ==
  /\ pc = "layout" /\ Readable
  /\ Ref \notin layout[Dst]
  /\ layout' = [layout EXCEPT ![Dst] = @ \cup {Ref}]
  /\ claims' = [claims EXCEPT ![Dst][Ref] = None]
  /\ pc' = "index"
  /\ UNCHANGED <<live, store, pool, index, cmd, todo, have, image,
                 reported, failedCount, result, env>>

PutLayout ==
  /\ pc = "layout" /\ Readable
  /\ layout' = [layout EXCEPT ![Dst] = @ \cup {Ref}]
  /\ claims' = [claims EXCEPT ![Dst][Ref] = None]
  /\ pc' = "index"
  /\ UNCHANGED <<live, store, pool, index, cmd, todo, have, image,
                 reported, failedCount, result, env>>

\* Mutant: an index.json that is there is kept.
PutIndexOnce ==
  /\ pc = "index"
  /\ index' = [index EXCEPT ![Dst][Ref] = IF @ = None THEN index[Src][Ref] ELSE @]
  /\ pc' = "blobs"
  /\ UNCHANGED <<live, store, pool, layout, cmd, todo, have, image, report, result, env>>

PutIndex ==
  /\ pc = "index"
  /\ index' = [index EXCEPT ![Dst][Ref] = index[Src][Ref]]
  /\ pc' = "blobs"
  /\ UNCHANGED <<live, store, pool, layout, cmd, todo, have, image, report, result, env>>

\* PutBlobs, as BlobContract has it: Deliver, then ReturnOk.
SendBlob(d) ==
  /\ pc = "blobs"
  /\ d \in toSend \ pool[Dst]
  /\ d \in pool[Src]
  /\ pool' = [pool EXCEPT ![Dst] = @ \cup {d}]
  /\ UNCHANGED <<live, store, index, layout, cmd, todo, pc, have, image, report, result, env>>

\* Mutant: the error of PutBlobs is dropped.
BlobsPutAnyhow ==
  /\ pc = "blobs"
  /\ pc' = "load"
  /\ UNCHANGED <<world, cmd, todo, have, image, report, result, env>>

BlobsPut ==
  /\ pc = "blobs"
  /\ toSend \subseteq pool[Dst] \/ cancelled
  /\ pc' = "load"
  /\ UNCHANGED <<world, cmd, todo, have, image, report, result, env>>

\* skopeo copy from the mirror to live storage.  Manifest and config come from
\* the pool; a layer that live storage has is not asked of it.
Loadable == /\ ~cancelled
            /\ {index[Dst][Ref], Config[index[Dst][Ref]]} \subseteq pool[Dst]
            /\ Layers[index[Dst][Ref]] \subseteq Usable(Dst)
IntoLive == /\ live' = [live EXCEPT ![Dst][Ref] = index[Dst][Ref]]
            /\ store' = [store EXCEPT ![Dst] = @ \cup Layers[index[Dst][Ref]]]

\* Mutant: the error of the load is dropped.
LoadAnyhow ==
  /\ pc = "load"
  /\ IF Live(Dst) /\ Loadable THEN IntoLive ELSE UNCHANGED <<live, store>>
  /\ claims' = IF cancelled THEN claims ELSE [claims EXCEPT ![Dst][Ref] = man]
  /\ ImageDone
  /\ UNCHANGED <<disk, cmd, have, image, env>>

\* LoadImage does nothing for an oci: destination.
Load ==
  /\ pc = "load"
  /\ IF Live(Dst) THEN Loadable /\ IntoLive ELSE UNCHANGED <<live, store>>
  /\ claims' = IF cancelled THEN claims ELSE [claims EXCEPT ![Dst][Ref] = man]
  /\ ImageDone
  /\ UNCHANGED <<disk, cmd, have, image, env>>

-----------------------------------------------------------------------------
(* What goes wrong, and what others do meanwhile.                          *)

SpendFault == faults < MaxFaults /\ faults' = faults + 1 /\ hit' = TRUE

\* The step of the image at hand cannot succeed on what it finds.
Broken ==
  \/ pc = "manifest" /\ IF cmd.op = "pull" THEN index["peer"][Ref] \notin pool["peer"]
                        ELSE ~CanCopy
  \/ pc = "layout" /\ ~Readable
  \/ pc = "blobs" /\ ~(toSend \subseteq pool[Dst] \cup pool[Src])
  \/ pc = "load" /\ Live(Dst) /\ ~Loadable

OnImage == pc \in {"manifest", "layout", "index", "blobs", "load"}

\* An error of the tools, or of ctx: exec and the torn-down connection fail.
ImageError ==
  /\ OnImage
  /\ Broken \/ cancelled
  /\ ImageFailed
  /\ UNCHANGED <<world, cmd, have, image, claims, env>>

ImageFault ==
  /\ OnImage /\ ~cancelled
  /\ SpendFault
  /\ ImageFailed
  /\ UNCHANGED <<world, cmd, have, image, claims, cancelled>>

\* The peer did it, and the answer was lost with the connection.
AnswerLost ==
  /\ Dst = "peer"
  /\ SpendFault
  /\ \/ /\ pc = "layout" /\ Readable
        /\ layout' = [layout EXCEPT ![Dst] = @ \cup {Ref}]
        /\ UNCHANGED <<live, store, pool, index>>
     \/ /\ pc = "index"
        /\ index' = [index EXCEPT ![Dst][Ref] = index[Src][Ref]]
        /\ UNCHANGED <<live, store, pool, layout>>
     \/ /\ pc = "load" /\ Live(Dst) /\ Loadable
        /\ IntoLive
        /\ UNCHANGED disk
  /\ claims' = [claims EXCEPT ![Dst][Ref] = None]
  /\ ImageFailed
  /\ UNCHANGED <<cmd, have, image, cancelled>>

\* Nothing can be connected, validated or listed; a cancelled ctx is enough.
RunFault ==
  /\ pc = "enumerate"
  /\ \/ cancelled /\ UNCHANGED <<faults, hit>>
     \/ ~cancelled /\ SpendFault
  /\ End("error")
  /\ UNCHANGED <<world, cmd, todo, have, image, report, cancelled>>

Cancel ==
  /\ ~Idle /\ ~cancelled
  /\ SpendFault
  /\ cancelled' = TRUE
  /\ UNCHANGED <<world, cmd, todo, pc, have, image, report, result>>

\* The process dies: what is on the two hosts stays.
Crash ==
  /\ ~Idle
  /\ SpendFault
  /\ cmd' = NoCommand /\ todo' = <<>> /\ End("none")
  /\ have' = {} /\ man' = None /\ toSend' = {}
  /\ reported' = {} /\ failedCount' = 0
  /\ UNCHANGED <<world, claims, cancelled>>

\* Live storage is the user's: images are built, tagged and removed at any time.
Build(r, m) ==
  /\ Live("local") /\ live["local"][r] # m
  /\ SpendFault
  /\ live' = [live EXCEPT !["local"][r] = m]
  /\ store' = [store EXCEPT !["local"] = @ \cup Layers[m]]
  /\ claims' = [claims EXCEPT !["local"][r] = None]
  /\ UNCHANGED <<disk, cmd, todo, pc, have, image, reported, failedCount, result, cancelled>>

Remove(r) ==
  /\ live["local"][r] # None
  /\ SpendFault
  /\ live' = [live EXCEPT !["local"][r] = None]
  /\ store' = [store EXCEPT !["local"] = LayersOf(live'["local"])]
  /\ claims' = [claims EXCEPT !["local"][r] = None]
  /\ UNCHANGED <<disk, cmd, todo, pc, have, image, reported, failedCount, result, cancelled>>

\* The mirrors are not: README rules out concurrent runs on one base dir.
PeerGets(r, m) ==
  /\ Idle
  /\ index["peer"][r] # m
  /\ index' = [index EXCEPT !["peer"][r] = m]
  /\ layout' = [layout EXCEPT !["peer"] = @ \cup {r}]
  /\ pool' = [pool EXCEPT !["peer"] = @ \cup Closure(m)]
  /\ claims' = [claims EXCEPT !["peer"][r] = None]
  /\ hit' = TRUE
  /\ UNCHANGED <<live, store, cmd, todo, pc, have, image,
                 reported, failedCount, result, cancelled, faults>>

-----------------------------------------------------------------------------
Step == \/ EnumeratePeer \/ EnumerateLocal
        \/ NextImage \/ LoopCancelled \/ Finish
        \/ (\E d \in Blobs : DumpBlob(d) \/ SendBlob(d))
        \/ DumpDone \/ DryRun \/ ReadPeerManifest
        \/ PutLayout \/ PutIndex \/ BlobsPut \/ Load
        \/ ImageError

Next == \/ \E c \in Commands : Start(c)
        \/ Step
        \/ ImageFault \/ AnswerLost \/ RunFault \/ Cancel \/ Crash
        \/ \E p \in Builds : Build(p[1], p[2])
        \/ \E r \in Removals : Remove(r)
        \/ \E p \in Others : PeerGets(p[1], p[2])

Spec == Init /\ [][Next]_vars

\* A run goes on by itself, and the user runs each command again and again: a
\* command is disabled while another runs, hence SF.
FairSpec == /\ Spec
            /\ WF_vars(Step)
            /\ \A c \in Commands : SF_vars(Start(c))

-----------------------------------------------------------------------------
(* Properties.                                                             *)

Tags == [Refs -> Images \cup {None}]

TypeOK ==
  /\ live \in [Sides -> Tags] /\ index \in [Sides -> Tags] /\ claims \in [Sides -> Tags]
  /\ store \in [Sides -> SUBSET Blobs] /\ pool \in [Sides -> SUBSET Blobs]
  /\ layout \in [Sides -> SUBSET Refs]
  /\ cmd \in Commands \cup {NoCommand} /\ todo \in Seq(Words)
  /\ pc \in {"idle", "enumerate", "loop", "manifest", "layout", "index", "blobs", "load"}
  /\ have \subseteq Blobs /\ toSend \subseteq Blobs /\ man \in Images \cup {None}
  /\ reported \subseteq Refs /\ failedCount \in Nat
  /\ result \in {"none", "ok", "error"}
  /\ cancelled \in BOOLEAN /\ faults \in Nat /\ hit \in BOOLEAN

\* Image m is at side s as r: its tag dir names it, every blob can be had, and
\* live storage, where there is one, has it under that name.
Delivered(s, r, m) ==
  /\ r \in layout[s] /\ index[s][r] = m
  /\ Closure(m) \subseteq Usable(s)
  /\ Live(s) => live[s][r] = m

\* "tells the peer to load" (README, step 5), said of the report: an image reported
\* without an error is at the destination, and stays there through every later
\* failure, cancellation, crash and run for other images that share its blobs.
ReportedOkIsDelivered ==
  \A s \in Sides, r \in Refs :
    claims[s][r] # None => Delivered(s, r, claims[s][r])

\* PushImageReport (push.go): "on success Err is nil".  The same of every report,
\* those of a cancelled run included.
NilErrMeansDelivered ==
  cmd.op \in {"push", "pull"} /\ ~cmd.dryRun =>
    \A r \in reported : Closure(index[Dst][r]) \subseteq Usable(Dst)

\* The blobs the plan leaves out are at the destination when they are counted on
\* (mapKeyDiff's have, computed once for all images of the run, is not stale).
NothingNeededIsSkipped ==
  pc \in {"layout", "index", "blobs", "load"} /\ (Dst = "peer" \/ ~hit) =>
    Closure(man) \ toSend \subseteq Usable(Dst)

\* Whatever earlier runs left behind, a run that nothing disturbs succeeds if the
\* source has all its images: leftovers are neither missing nor in the way.
SourceHas(c, r) ==
  IF c.op = "pull"
  THEN /\ r \in layout["peer"] /\ index["peer"][r] # None
       /\ Closure(index["peer"][r]) \subseteq pool["peer"]
  ELSE Live("local") /\ live["local"][r] # None
WellPut(c) == \A i \in DOMAIN c.args : c.args[i] \in Refs /\ SourceHas(c, c.args[i])
NoSpuriousFailure == result = "error" /\ ~hit => ~WellPut(cmd)

\* Exit code 0 says that every image of the command line was done, through parse
\* errors, --keep-going and cancellation.
ExitOkMeansAllDone ==
  result = "ok" => {cmd.args[i] : i \in DOMAIN cmd.args} \subseteq reported

\* With --keep-going a run that is not cut short gets to every image: what it
\* failed on is counted, and does not keep the others from being done.
KeepGoingTriesAll ==
  Idle /\ cmd.keepGoing /\ ~cancelled /\ result # "none" =>
    \A i \in DOMAIN cmd.args :
      cmd.args[i] \in Refs \ reported => hit \/ ~SourceHas(cmd, cmd.args[i])

\* PushArgs.DryRun: no local dump, no transfer, no load.
DryRunChangesNothing ==
  [][cmd.dryRun /\ ~Idle => UNCHANGED disk /\ UNCHANGED <<live["peer"], store["peer"]>>]_vars

\* The tag dir and the pool of a side are only ever added to by the runs: no blob
\* that some image relies on goes away, and no tag dir loses its files.
MirrorsGrow ==
  [][\A s \in Sides : /\ pool[s] \subseteq pool'[s]
                      /\ layout[s] \subseteq layout'[s]
                      /\ \A r \in Refs : index[s][r] # None => index'[s][r] # None]_vars

\* Push and pull, seen from outside, move whole images: what arrives under a tag is
\* what the source had when the run looked, whatever the mirrors hold of other runs.
InTransfer == pc \in {"layout", "index", "blobs", "load"}
Moving == IF InTransfer THEN [to |-> Dst, ref |-> Ref, image |-> man]
          ELSE [to |-> "nowhere", ref |-> None, image |-> None]
Transfer == INSTANCE ImageTransfer WITH
  tags <- live, shelf <- index["peer"], moving <- Moving, told <- claims
TransferSpec == Transfer!Spec

\* The user who runs a command again gets its images delivered: after any failure,
\* once the source has them, from whatever the failure left.
RerunDelivers ==
  \A c \in Commands :
    c.op # "dump" /\ ~c.dryRun =>
      (<>[]WellPut(c) => \A i \in DOMAIN c.args :
                           []<>(claims[IF c.op = "push" THEN "peer" ELSE "local"]
                                      [c.args[i]] # None))

-----------------------------------------------------------------------------
(* The inductive invariant: why a report can be relied on.                 *)

\* The image at hand: what the run has written, and what it still has to write,
\* is the mirror of the manifest it has read.  A claim about that tag is dropped
\* before its tag dir changes.
RunOK ==
  /\ ~Idle => cmd \in Commands
  /\ pc = "enumerate" => cmd.op # "dump"
  /\ OnImage => todo # <<>> /\ Ref \in Refs
  /\ pc \in {"layout", "index", "blobs", "load"} =>
       /\ cmd.op # "dump" /\ ~cmd.dryRun
       /\ man \in Images /\ man = index[Src][Ref]
       /\ Closure(man) \subseteq toSend \cup have
  /\ pc \in {"index", "blobs", "load"} => Ref \in layout[Dst] /\ claims[Dst][Ref] = None
  /\ pc \in {"blobs", "load"} => index[Dst][Ref] = man
  /\ pc = "load" => toSend \subseteq pool[Dst] \/ cancelled

\* An oci: peer has what remoteHas says, whenever it was listed: its pool is never
\* pruned.
HaveOK == ~Live("peer") /\ cmd.op = "push" /\ ~Idle =>
            have \subseteq pool["peer"] /\ cmd.assume \subseteq pool["peer"]

\* The side an image was reported at has its manifest and config as files; only
\* live storage can supply a layer in place of the pool.
ClaimOK(s, r) ==
  claims[s][r] # None => /\ Delivered(s, r, claims[s][r])
                         /\ {claims[s][r], Config[claims[s][r]]} \subseteq pool[s]

\* An oci: store on the pulling side is left out: there localHas counts layers the
\* pool does not hold, and the claim fails.
Reliable(s) == s = "peer" \/ Live("local")

\* ReportedOkIsDelivered is not inductive: that a load finds its blobs rests on the
\* plan, on what was enumerated, and on the tag dir still naming the manifest.
IInv == /\ TypeOK
        /\ RunOK
        /\ HaveOK
        /\ \A s \in Sides, r \in Refs : Reliable(s) => ClaimOK(s, r)
=============================================================================
