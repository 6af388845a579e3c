------------------------------ MODULE MCShare ------------------------------
(***************************************************************************)
(* Small instances of Share for TLC.                                       *)
(***************************************************************************)
EXTENDS Share, TLC

\* Two images that share a layer.
TwoImages == {"m1", "m2"}
TwoConfig == ("m1" :> "c1") @@ ("m2" :> "c2")
TwoLayers == ("m1" :> {"x"}) @@ ("m2" :> {"x", "y"})

TwoRefs == {"a", "b"}
TwoWords == {"a", "b", "?"}

Line(o, words) == [op |-> o, dryRun |-> FALSE, keepGoing |-> o = "dump",
                   assume |-> {}, args |-> words]
KeepGoing(c) == [c EXCEPT !.keepGoing = TRUE]
Dry(c) == [c EXCEPT !.dryRun = TRUE]
Assume(c, blobs) == [c EXCEPT !.assume = blobs]

\* Every way of running push, pull and dump once, with and without flags.
AllLines == {KeepGoing(Line("push", <<"a", "?", "b">>)),
             Assume(Line("push", <<"b">>), {"x"}),
             Dry(Line("push", <<"b">>)),
             KeepGoing(Line("pull", <<"b", "a">>)),
             Assume(Line("pull", <<"b">>), {"x"}),
             Dry(Line("pull", <<"a">>)),
             Line("dump", <<"a">>)}

\* Well-put commands, one per direction.
PushAndPull == {Line("push", <<"a", "b">>), Line("pull", <<"b">>)}
PullOnly == {Line("pull", <<"b">>)}

NoTags == [r \in TwoRefs |-> None]
LocalHasBoth == ("local" :> (("a" :> "m1") @@ ("b" :> "m2"))) @@ ("peer" :> NoTags)
LocalHasOne == ("local" :> (("a" :> "m1") @@ ("b" :> None))) @@ ("peer" :> NoTags)
PeerHasOne == ("local" :> (("a" :> "m1") @@ ("b" :> "m2")))
              @@ ("peer" :> (("a" :> "m1") @@ ("b" :> None)))

NoPairs == {}
Rebuilds == {<<"a", "m2">>}
PeerImages == {<<"a", "m1">>, <<"b", "m2">>}
NoneRemoved == {}
\* The image with a layer of its own.
OneRemoved == {"b"}
=============================================================================
