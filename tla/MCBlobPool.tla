----------------------------- MODULE MCBlobPool -----------------------------
(***************************************************************************)
(* Small instances of BlobPool for TLC.                                    *)
(***************************************************************************)
EXTENDS BlobPool, TLC

\* Two blobs of two units, sound.
TwoBlobs == 1..2
TwoBytes == [d \in TwoBlobs |-> 2]
\* Blob 2 is short in the source until it is restored, and blob 1 oversize:
\* the part and the final of either can be of the wrong length.
TwoSrcOff == (1 :> 3) @@ (2 :> 1)
\* Blob 2 is absent from the source until it is restored.
TwoSrcAbsent == (1 :> 2) @@ (2 :> -1)
\* Blob 1 has no size in its descriptor.
NoSize == (1 :> 0) @@ (2 :> 2)
=============================================================================
