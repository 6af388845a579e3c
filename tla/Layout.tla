------------------------------- MODULE Layout -------------------------------
(***************************************************************************)
(* The layout of a base dir (paths.go): which directory belongs to which   *)
(* reference, how the walk finds the references again (enumerate.go,       *)
(* remote.go), and how a directory is named to skopeo and, over ssh, to    *)
(* the shell of the peer (skopeo.go, sshrunner.go).                        *)
(*                                                                         *)
(* A path below the base dir is the sequence of its segments, each a text. *)
(***************************************************************************)
EXTENDS ImageRef

CONSTANTS
  Atoms,           \* what a command line is made of: words, separators, blanks, quotes
  Typed,           \* what the user types for references
  Base,            \* the base dir, a text without ":"
  MaxSteps         \* bound: commands run on the base dir

\* Those of the commands for the peer, those its shell knows, and what is in the place
\* of a "$" that the shell has expanded.
FixedAtoms == {"skopeo", "copy", "--src-shared-blob-dir", "oci", "containers-storage",
               " ", "'", "\\", "$", "expanded"}

ASSUME AtomsAssumption == Words \cup FixedAtoms \subseteq Atoms
ASSUME TypedAssumption == Typed \subseteq Seq(Words)
ASSUME BaseAssumption == Base \in Seq(Atoms) /\ \A i \in DOMAIN Base : Base[i] # ":"
ASSUME StepsAssumption == MaxSteps \in Nat

VARIABLES
  dirs,            \* the directories below the base dir
  index,           \* pairs <<d, r>>: the index.json in directory d is that of r
  asked,           \* the references commands were run for
  done,            \* those brought into the base dir without an error
  argv, line,      \* the last command for the peer, and what its shell is given
  steps

vars == <<dirs, index, asked, done, argv, line, steps>>

-----------------------------------------------------------------------------
(* Directories.                                                            *)

Dots == {<<".">>, <<"..">>}
Plain(p) == \A i \in DOMAIN p : p[i] \notin Dots

\* path.Clean of a path with "." and "..".
CleanDots(p) ==
  FoldText([seg \in Seq(Words) |-> [acc \in Seq(Seq(Words)) |->
              IF seg = <<".">> THEN acc
              ELSE IF seg = <<"..">> /\ acc # <<>> /\ Last(acc) # <<"..">> THEN Front(acc)
              ELSE Append(acc, seg)]],
           <<>>, p)

Clean(p) == IF Plain(p) THEN p ELSE CleanDots(p)

\* Mutant: the marker of tags is used for both.
RelDigestPathTagged(r) == Clean(<<r.Host>> \o r.Path \o <<<<"_tags">>, r.Digest>>)

RelTagPath(r) == Clean(<<r.Host>> \o r.Path \o <<<<"_tags">>, r.Tag>>)
RelDigestPath(r) == Clean(<<r.Host>> \o r.Path \o <<<<"_digests">>, r.Digest>>)
RelDumpDir(r) == IF IsTagged(r) THEN RelTagPath(r) ELSE RelDigestPath(r)

RelSharePath == <<<<"share">>>>
RelBlobDir == <<<<"share">>, <<"sha256">>>>

\* resolvePath, after Clean: nothing above the base dir.
isLocalSlash(p) == p = <<>> \/ p[1] # <<"..">>

\* Mutant: path.Dir(p) is made only.
ParentsShort(p) == {SubSeq(p, 1, n) : n \in 1..(Len(p) - 1)}

\* The directories MkdirAll makes for p.
Parents(p) == {SubSeq(p, 1, n) : n \in 1..Len(p)}

\* walkDumpDirs, walkRepoTree: below every host but share, what is in a marker
\* dir; a marker dir is not searched for others.
Marked(d, n) == n \in 2..Len(d) /\ d[n] \in ReservedSegments
walkDumpDirs ==
  {d \in dirs : /\ d[1] # <<"share">>
                /\ Marked(d, Len(d) - 1)
                /\ \A n \in 1..(Len(d) - 2) : ~Marked(d, n)}

\* The first "/_tags/" of the path, or else its first "/_digests/".
Mark(d, seg) == LET at == {n \in 2..(Len(d) - 1) : d[n] = seg}
                IN IF at = {} THEN 0 ELSE CHOOSE n \in at : \A m \in at : n <= m
Leaf(d, n) == IF n = Len(d) - 1 THEN d[Len(d)] ELSE Join(SubSeq(d, n + 1, Len(d)), "/")

\* Mutant: the digest dirs come back as tags.
parseDumpDirRelTags(d) ==
  LET t == Mark(d, <<"_tags">>)
      g == Mark(d, <<"_digests">>)
      n == IF t = 0 THEN g ELSE t
  IN IF n > 2 THEN MkRef(d[1], SubSeq(d, 2, n - 1), Leaf(d, n), <<>>) ELSE NoRef

parseDumpDirRel(d) ==
  LET t == Mark(d, <<"_tags">>)
      g == Mark(d, <<"_digests">>)
  IN CASE t > 2 -> MkRef(d[1], SubSeq(d, 2, t - 1), Leaf(d, t), <<>>)
       [] t = 0 /\ g > 2 -> MkRef(d[1], SubSeq(d, 2, g - 1), <<>>, Leaf(d, g))
       [] OTHER -> NoRef

-----------------------------------------------------------------------------
(* Commands.                                                               *)

Abs(p) == Base \o FlattenSeq([i \in DOMAIN p |-> <<"/">> \o p[i]])

\* TransportRef.Format
OciArg(p, r) == <<"oci", ":">> \o Abs(p) \o <<":">> \o String(r)
LiveArg(r) == <<"containers-storage", ":">> \o String(r)

\* Skopeo.Copy, from the mirror to live storage.
LoadArgv(r) == << <<"skopeo">>, <<"copy">>, <<"--src-shared-blob-dir">>, Abs(RelSharePath),
                  OciArg(RelDumpDir(r), r), LiveArg(r) >>

\* Mutant: words without a separator go unquoted.
shellQuoteSome(args) ==
  Tail(FlattenSeq([i \in DOMAIN args |->
         IF Len(args[i]) = 1 THEN <<" ">> \o args[i]
         ELSE <<" ", "'">> \o args[i] \o <<"'">>]))

\* A quote ends the quoting, and comes after a backslash.
Quoted(a) == FlattenSeq([j \in DOMAIN a |->
               IF a[j] = "'" THEN <<"'", "\\", "'", "'">> ELSE <<a[j]>>])

shellQuote(args) ==
  Tail(FlattenSeq([i \in DOMAIN args |-> <<" ", "'">> \o Quoted(args[i]) \o <<"'">>]))

\* What sh makes of a line: blanks separate, quotes keep, a backslash keeps one,
\* "$" outside of quotes is expanded.
ShStates == [words : Seq(Seq(Atoms)), word : Seq(Atoms), mode : {"gap", "word", "quoted", "escaped"}]

ShRead(st, c) ==
  LET bare == st.mode \in {"gap", "word"}
  IN CASE st.mode = "quoted" /\ c = "'" -> [st EXCEPT !.mode = "word"]
       [] st.mode = "quoted" /\ c # "'" -> [st EXCEPT !.word = Append(@, c)]
       [] bare /\ c = "'" -> [st EXCEPT !.mode = "quoted"]
       [] bare /\ c = "\\" -> [st EXCEPT !.mode = "escaped"]
       [] bare /\ c = "$" -> [st EXCEPT !.word = Append(@, "expanded"), !.mode = "word"]
       [] st.mode = "gap" /\ c = " " -> st
       [] st.mode = "word" /\ c = " " ->
            [words |-> Append(st.words, st.word), word |-> <<>>, mode |-> "gap"]
       [] OTHER -> [st EXCEPT !.word = Append(@, c), !.mode = "word"]

ShState(s) == FoldText([c \in Atoms |-> [st \in ShStates |-> ShRead(st, c)]],
                       [words |-> <<>>, word |-> <<>>, mode |-> "gap"], s)

ShWords(s) == LET end == ShState(s)
              IN IF end.mode = "word" THEN Append(end.words, end.word) ELSE end.words

-----------------------------------------------------------------------------
(* What the tools do with it.                                              *)

\* The grammar of references that skopeo, podman and docker share: no "." or ".."
\* for a component, a ":" in the host or before a tag that a digest follows.
SkopeoTakes(r) ==
  /\ Plain(<<r.Host>> \o r.Path \o <<r.Tag>>)
  /\ \A i \in DOMAIN r.Tag : r.Tag[i] # ":"
  /\ \A i \in DOMAIN r.Path : /\ r.Path[i] # <<>> /\ r.Path[i][1] \notin {":", "@"}
                              /\ i < Len(r.Path) => First(r.Path[i], ":") = 0
  /\ r.Host[1] # ":"

\* The path that skopeo reads in oci:path:image, which ends at the first ":".
OciPath(arg) == LET rest == SubSeq(arg, 3, Len(arg))
                IN SubSeq(rest, 1, First(rest, ":") - 1)

-----------------------------------------------------------------------------
(* The base dir in use.                                                    *)

Init == /\ dirs = {} /\ index = {} /\ asked = {} /\ done = {}
        /\ argv = <<>> /\ line = <<>> /\ steps = 0

Command == steps < MaxSteps /\ steps' = steps + 1

\* NewLocal: EnsureLayout; and PutBlobs makes the dir of the algorithm.
EnsureLayout ==
  /\ dirs' = dirs \cup {RelSharePath}
  /\ UNCHANGED <<index, asked, done, argv, line, steps>>

PutBlobs ==
  /\ dirs' = dirs \cup Parents(RelBlobDir)
  /\ UNCHANGED <<index, asked, done, argv, line, steps>>

Writes(d, r) == index' = {p \in index : p[1] # d} \cup {<<d, r>>}

\* Local.Dump: MkdirAll, then skopeo copy.  What would be left of another path is no
\* name for an image, and skopeo refuses it.
Dump(s) ==
  LET r == Parse(s)
      d == RelDumpDir(r)
  IN /\ Command
     /\ r # NoRef /\ isLocalSlash(d)
     /\ asked' = asked \cup {r}
     /\ \/ /\ SkopeoTakes(r) /\ OciPath(OciArg(d, r)) = Abs(d)
           /\ dirs' = dirs \cup Parents(d)
           /\ Writes(d, r)
           /\ done' = done \cup {r}
        \/ \E n \in 1..Len(d) :      \* not all made, or skopeo fails
             /\ dirs' = dirs \cup Parents(SubSeq(d, 1, n))
             /\ UNCHANGED <<index, done>>
     /\ UNCHANGED <<argv, line>>

\* mirrorTagFiles, PutTagFile: SafeWrite goes through a file in __temp__.  A pull of
\* reg.io/app/. reads and writes the mirror of reg.io/app, and is no case of its own.
Mirror(s) ==
  LET r == Parse(s)
      d == RelDumpDir(r)
  IN /\ Command
     /\ r # NoRef /\ isLocalSlash(d) /\ SkopeoTakes(r)
     /\ asked' = asked \cup {r}
     /\ dirs' = dirs \cup Parents(d) \cup {<<<<"__temp__">>>>}
     /\ \/ Writes(d, r) /\ done' = done \cup {r}
        \/ UNCHANGED <<index, done>>
     /\ UNCHANGED <<argv, line>>

\* sshRemote.LoadImage
LoadImage(r) ==
  /\ Command
  /\ argv' = LoadArgv(r)
  /\ line' = shellQuote(LoadArgv(r))
  /\ UNCHANGED <<dirs, index, asked, done>>

Next == \/ EnsureLayout \/ PutBlobs
        \/ \E s \in Typed : Dump(s) \/ Mirror(s)
        \/ \E r \in done : LoadImage(r)

Spec == Init /\ [][Next]_vars

-----------------------------------------------------------------------------
(* Properties.                                                             *)

TypeOK ==
  /\ \A d \in dirs : Len(d) > 0
  /\ index \subseteq dirs \X asked
  /\ done \subseteq asked /\ NoRef \notin asked
  /\ steps \in 0..MaxSteps

\* Parse and ImageRef.String: the printed form of a reference is read back as the
\* same reference, so that every spelling of an image ends up in one tag dir.
PrintedIsReadBack == \A r \in asked : Parse(String(r)) = r

\* walkDumpDirs, parseDumpDirRel: every image brought into the base dir is listed, as
\* the reference it was brought for; no two of them share a directory.
DumpsAreListed ==
  \A r \in done : RelDumpDir(r) \in walkDumpDirs /\ parseDumpDirRel(RelDumpDir(r)) = r

\* Nothing else is listed: not share/, the temp dir, the dirs above a dump or a dump
\* dir made half.
ListedWereAsked == \A d \in walkDumpDirs : \E r \in asked : d = RelDumpDir(r)

\* What skopeo.go writes as "oci:path:tag" is read as that path, so that an image can
\* be staged in its dump dir and loaded from there.
OciArgIsRead == \A r \in asked : OciPath(OciArg(RelDumpDir(r), r)) = Abs(RelDumpDir(r))

\* Local.Dump, mirrorTagFiles: an image brought in stays in its tag dir, and the tag
\* dir is never another's, whatever is dumped and mirrored afterwards.
EachInItsDir == \A r \in done : <<RelDumpDir(r), r>> \in index

\* SshRunner.Run: "argv is sent verbatim to the remote shell", whatever blanks,
\* quotes and "$" the base dir of the peer has in its name.
ArgvArrives == ShWords(line) = argv
=============================================================================
