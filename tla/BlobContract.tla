---------------------------- MODULE BlobContract ----------------------------
(***************************************************************************)
(* What OciDirs.PutBlobs promises to its caller (ocidirs.go, the interface *)
(* comment), with nothing of how FsOciDirs keeps the promise: a pool of    *)
(* complete blobs that only grows, and only during a call, and a call      *)
(* whose nil error means that everything asked for is in the pool.         *)
(* A cancelled call is the exception the code makes, see BlobPool.         *)
(***************************************************************************)
CONSTANT Digests        \* the blobs the contract speaks about

VARIABLES pool,         \* the complete blobs at the destination
          asked,        \* what the current (or last) call was asked to put
          state,        \* "idle", "busy", or how the last call returned
          cancelled     \* the caller has cancelled the current call

vars == <<pool, asked, state, cancelled>>

TypeOK == /\ pool \subseteq Digests
          /\ asked \subseteq Digests
          /\ state \in {"idle", "busy", "ok", "error"}
          /\ cancelled \in BOOLEAN

Init == /\ pool = {}
        /\ asked = {}
        /\ state = "idle"
        /\ cancelled = FALSE

Begin(want) == /\ state # "busy"
               /\ asked' = want
               /\ state' = "busy"
               /\ cancelled' = FALSE
               /\ UNCHANGED pool

Deliver(d) == /\ state = "busy"
              /\ d \in asked
              /\ pool' = pool \cup {d}
              /\ UNCHANGED <<asked, state, cancelled>>

Interrupt == /\ state = "busy"
             /\ cancelled' = TRUE
             /\ UNCHANGED <<pool, asked, state>>

ReturnOk == /\ state = "busy"
            /\ asked \subseteq pool \/ cancelled
            /\ state' = "ok"
            /\ UNCHANGED <<pool, asked, cancelled>>

ReturnError == /\ state = "busy"
               /\ state' = "error"
               /\ UNCHANGED <<pool, asked, cancelled>>

\* The process that made the call dies; the pool stays.
Die == /\ state = "busy"
       /\ state' = "idle"
       /\ UNCHANGED <<pool, asked, cancelled>>

Next == \/ \E want \in SUBSET Digests : Begin(want)
        \/ \E d \in Digests : Deliver(d)
        \/ Interrupt
        \/ ReturnOk
        \/ ReturnError
        \/ Die

Spec == Init /\ [][Next]_vars
=============================================================================
