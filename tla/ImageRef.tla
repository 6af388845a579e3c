------------------------------ MODULE ImageRef ------------------------------
(***************************************************************************)
(* Package imageref: image references as the user types them, as the       *)
(* program keeps them, and as it prints them.                              *)
(*                                                                         *)
(* A text is a sequence of atoms: the separators "/", ":" and "@", and     *)
(* words that contain none of them; two words never stand side by side.    *)
(* Of a word the program looks at no more than whether it is one of a few  *)
(* fixed ones, has a dot, or is the hex form of a digest.                  *)
(***************************************************************************)
EXTENDS Naturals, FiniteSets, SequencesExt

CONSTANTS
  Words,           \* the words and separators there are
  Dotted,          \* the words with a "." in them
  Hex              \* the words validateHex accepts

\* Those the program knows.
FixedWords == {"localhost", "library", "_tags", "_digests", "latest", "sha256", "share", "/", ":", "@"}

ASSUME WordsAssumption == FixedWords \cup Dotted \cup Hex \subseteq Words
ASSUME DottedAssumption == {"docker.io", ".", ".."} \subseteq Dotted /\ Dotted \cap FixedWords = {}
ASSUME HexAssumption == Hex \cap (FixedWords \cup Dotted) = {}

-----------------------------------------------------------------------------
(* Texts.                                                                  *)

First(s, c) == SelectInSeq(s, LAMBDA x : x = c)
LastOf(s, c) == SelectLastInSeq(s, LAMBDA x : x = c)

\* A loop over the atoms of a text, from left to right; step[x] is what the atom x makes
\* of the result so far.
FoldText(step, start, s) ==
  LET upto[n \in 0..Len(s)] == IF n = 0 THEN start ELSE step[s[n]][upto[n - 1]]
  IN upto[Len(s)]

\* strings.Split: the pieces between the separators c, one more than there are of those.
Split(s, c) ==
  FoldText([x \in Words |-> [pieces \in Seq(Seq(Words)) |->
              IF x = c THEN Append(pieces, <<>>)
              ELSE [pieces EXCEPT ![Len(pieces)] = Append(@, x)]]],
           << <<>> >>, s)

\* strings.Join, of one piece at least.
Join(pieces, c) == Tail(FlattenSeq([k \in DOMAIN pieces |-> <<c>> \o pieces[k]]))

-----------------------------------------------------------------------------
(* References.                                                             *)

DefaultRegistry == <<"docker.io">>
DockerLibraryNamespace == <<"library">>
ReservedSegments == {<<"_tags">>, <<"_digests">>}

\* Path is the sequence of the segments of the path, Digest the hex alone.
MkRef(host, path, tag, digest) == [Host |-> host, Path |-> path, Tag |-> tag, Digest |-> digest]

\* ImageRef{}: what Parse returns with its errors.
NoRef == MkRef(<<>>, <<>>, <<>>, <<>>)

IsTagged(r) == r.Tag # <<>>
IsDigested(r) == r.Digest # <<>>

\* Mutant: the names docker prints, without the default registry.
StringShort(r) ==
  (IF r.Host = DefaultRegistry THEN <<>> ELSE r.Host \o <<"/">>) \o Join(r.Path, "/") \o
  (IF IsDigested(r) THEN <<"@", "sha256", ":">> \o r.Digest ELSE <<":">> \o r.Tag)

String(r) ==
  r.Host \o <<"/">> \o Join(r.Path, "/") \o
  (IF IsDigested(r) THEN <<"@", "sha256", ":">> \o r.Digest ELSE <<":">> \o r.Tag)

looksLikeHost(seg) ==
  seg = <<"localhost">> \/ \E i \in DOMAIN seg : seg[i] = ":" \/ seg[i] \in Dotted

\* DigestPrefix, then validateHex.
IsDigest(s) == Len(s) = 3 /\ s[1] = "sha256" /\ s[2] = ":" /\ s[3] \in Hex

\* The ":" of the tag: the first one after the last "/".
TagColon(s) ==
  LET slash == LastOf(s, "/")
      colon == First(SubSeq(s, slash + 1, Len(s)), ":")
  IN IF colon = 0 THEN 0 ELSE slash + colon

\* Docker Hub: a path of one segment is in the library namespace.
CanonicalPath(host, path) ==
  IF host = DefaultRegistry /\ Len(path) = 1 THEN <<DockerLibraryNamespace>> \o path ELSE path

\* Mutant: a path may have the segments the layout uses for itself.
ParseUnreserved(s) ==
  LET at == LastOf(s, "@")
      colon == IF at = 0 THEN TagColon(s) ELSE 0
      stop == IF at # 0 THEN at ELSE IF colon # 0 THEN colon ELSE Len(s) + 1
      parts == Split(SubSeq(s, 1, stop - 1), "/")
      hosted == Len(parts) > 1 /\ looksLikeHost(parts[1])
      host == IF hosted THEN parts[1] ELSE DefaultRegistry
      path == CanonicalPath(host, IF hosted THEN Tail(parts) ELSE parts)
  IN IF stop = Len(s) \/ <<>> \in {path[i] : i \in DOMAIN path} THEN NoRef
     ELSE MkRef(host, path,
                IF at # 0 THEN <<>> ELSE IF colon = 0 THEN <<"latest">> ELSE SubSeq(s, colon + 1, Len(s)),
                IF at # 0 THEN <<Last(s)>> ELSE <<>>)

\* An empty text, a missing path and a leading or trailing "/" all leave an
\* empty segment.
Parse(s) ==
  LET at == LastOf(s, "@")
      name == IF at = 0 THEN s ELSE SubSeq(s, 1, at - 1)
      digest == IF at = 0 THEN <<>> ELSE SubSeq(s, at + 1, Len(s))
      colon == IF at = 0 THEN TagColon(s) ELSE 0
      tag == IF colon = 0 THEN <<>> ELSE SubSeq(s, colon + 1, Len(s))
      parts == Split(IF colon = 0 THEN name ELSE SubSeq(s, 1, colon - 1), "/")
      hosted == Len(parts) > 1 /\ looksLikeHost(parts[1])
      host == IF hosted THEN parts[1] ELSE DefaultRegistry
      path == CanonicalPath(host, IF hosted THEN Tail(parts) ELSE parts)
  IN IF /\ at # 0 => IsDigest(digest)
        /\ colon # 0 => tag # <<>>
        /\ \A i \in DOMAIN path : path[i] \notin ReservedSegments \cup {<<>>}
     THEN MkRef(host, path, IF at = 0 /\ colon = 0 THEN <<"latest">> ELSE tag,
                IF at = 0 THEN <<>> ELSE <<digest[3]>>)
     ELSE NoRef
=============================================================================
