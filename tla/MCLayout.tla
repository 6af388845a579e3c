------------------------------ MODULE MCLayout ------------------------------
(***************************************************************************)
(* Small instances of Layout for TLC.                                      *)
(***************************************************************************)
EXTENDS Layout

MCDotted == {"docker.io", "reg.io", "a.b", ".", ".."}
\* Stands for the 64 hex digits of a digest; a tag may look like one too.
MCHex == {"feed"}
MCWords == FixedWords \cup MCDotted \cup MCHex \cup {"app", "v1", "v2", "5000"}
\* A home directory that has everything a shell could trip over.
MCBase == <<"/", "o", "'", "neil", " ", "$", "HOME">>
MCAtoms == MCWords \cup FixedAtoms \cup {"o", "neil", "HOME"}

Hosts == {<<>>, <<"docker.io", "/">>, <<"reg.io", "/">>}
Names == {<<"app">>, <<"a.b", "/", "app">>}
Pins == {<<>>, <<":", "feed">>, <<":", "_tags">>, <<"@", "sha256", ":", "feed">>}

Usual == {h \o n \o p : h \in Hosts, n \in Names, p \in Pins}

\* Ports, both a tag and a digest, two tags, dots, names that the layout uses, and
\* what is no reference.
Odd == {<<"localhost", ":", "5000", "/", "app">>,
        <<"localhost", ":", "5000", "/", "app", "@", "sha256", ":", "feed">>,
        <<"reg.io", "/", "app", ":", "v1", "@", "sha256", ":", "feed">>,
        <<"app", ":", "v1", ":", "v2">>,
        <<"reg.io", "/", "app", "/", ".">>,
        <<"reg.io", "/", "..", "/", "share", "/", "app">>,
        <<"..", "/", "app">>,
        <<"app", ":", "..">>,
        <<"share", "/", "app">>,
        <<"reg.io", "/", "share">>}
Refused == {<<>>, <<"app", ":">>, <<"reg.io", "/">>, <<"app", "@", "feed">>,
            <<"reg.io", "/", "_tags", "/", "app">>, <<"_digests">>}

ManyNames == Usual \cup Odd \cup Refused
PortName == {<<"localhost", ":", "5000", "/", "app">>}
=============================================================================
