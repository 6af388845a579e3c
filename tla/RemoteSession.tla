--------------------------- MODULE RemoteSession ---------------------------
(***************************************************************************)
(* The life of one sshRemote (pkg/skopeoimageshare/remote.go): NewRemote   *)
(* starts the ssh subprocess and a goroutine that watches the context;     *)
(* workers wait for answers of the SFTP server; the session is torn down   *)
(* by Close, called by its user, or by forceClose, called by the watcher.  *)
(* The ssh process, the peer and pkg/sftp are external.                    *)
(***************************************************************************)
EXTENDS Naturals

CONSTANTS
  Workers,     \* goroutines that use the SFTP client (PutBlobs)
  MaxCloses,   \* bound: calls of Close
  MaxRequests, \* bound: requests of all workers together
  Transports,  \* the peer's transport is one of these, of "live" and "oci"
  CloseWaits,  \* a subset of BOOLEAN: does sftp.Client.Close wait for the end of
               \* the server's stream (pkg/sftp waits for its receiver)
  Nobody       \* holds the mutex when it is free

Threads == {"user", "watcher"}

ASSUME TransportsAssumption == Transports \subseteq {"live", "oci"}
ASSUME WaitsAssumption == CloseWaits \subseteq BOOLEAN
ASSUME BoundsAssumption == MaxCloses \in Nat /\ MaxRequests \in Nat
ASSUME NobodyAssumption == Nobody \notin Threads

VARIABLES
  pc,           \* pc[t]: the next step of the user's goroutine and of the watcher
  mu,           \* r.mu
  closed,       \* r.closed
  cancelled,    \* the parent context
  watchDone,    \* wctx, by cancelWatch or with its parent
  grace,        \* ForceCloseGrace has passed since the cancellation
  stdin,        \* the subprocess: its standard input is open,
  alive,        \* it runs,
  stalled,      \* the peer has stopped answering,
  waits,        \* cmd.Wait was called so often,
  reaped,       \* and returned
  pending,      \* workers that wait for an answer
  requests, closes, \* so many so far
  sftpCloses,   \* calls of sftp.Client.Close
  closeWaits    \* the member of CloseWaits

session == <<closed, cancelled, watchDone, grace>>
process == <<stdin, alive, stalled, waits, reaped>>
use == <<pending, requests, closes>>
vars == <<pc, mu, session, process, use, sftpCloses, closeWaits>>

Init ==
  /\ pc = [t \in Threads |-> IF t = "user" THEN "new" ELSE "none"]
  /\ mu = Nobody /\ closed = FALSE
  /\ cancelled = FALSE /\ watchDone = FALSE /\ grace = FALSE
  /\ stdin = FALSE /\ alive = FALSE /\ stalled = FALSE /\ waits = 0 /\ reaped = FALSE
  /\ pending = {} /\ requests = 0 /\ closes = 0 /\ sftpCloses = 0
  /\ closeWaits \in CloseWaits

Goto(t, step) == pc' = [pc EXCEPT ![t] = step]

-----------------------------------------------------------------------------
(* NewRemote.                                                              *)

\* ssh.Subsystem: the subprocess does not end with the context.
Subsystem ==
  /\ pc["user"] = "new"
  /\ \/ /\ stdin' = TRUE /\ alive' = TRUE
        /\ Goto("user", "handshake")
     \/ /\ Goto("user", "gone")
        /\ UNCHANGED <<stdin, alive>>
  /\ UNCHANGED <<mu, session, stalled, waits, reaped, use, sftpCloses, closeWaits>>

\* Mutant: the watch begins with a context of its own.
HandshakeFresh ==
  /\ pc["user"] = "handshake"
  /\ alive /\ ~stalled
  /\ pc' = [pc EXCEPT !["user"] = "resolve", !["watcher"] = "watch"]
  /\ watchDone' = FALSE
  /\ UNCHANGED <<mu, closed, cancelled, grace, process, use, sftpCloses, closeWaits>>

\* sftp.NewClientPipe, then startWatch.
Handshake ==
  /\ pc["user"] = "handshake"
  /\ alive /\ ~stalled
  /\ pc' = [pc EXCEPT !["user"] = "resolve", !["watcher"] = "watch"]
  /\ watchDone' = cancelled
  /\ UNCHANGED <<mu, closed, cancelled, grace, process, use, sftpCloses, closeWaits>>

\* It failed: stdin.Close, Kill, Wait.  Nobody watches the context yet.
HandshakeFails ==
  /\ pc["user"] = "handshake"
  /\ ~alive \/ ~stalled
  /\ stdin' = FALSE /\ alive' = FALSE
  /\ waits' = waits + 1 /\ reaped' = TRUE
  /\ Goto("user", "gone")
  /\ UNCHANGED <<mu, session, stalled, use, sftpCloses, closeWaits>>

\* resolveBaseDir: with oci: the dir is given (or missing); else runRemote looks at
\* closed under the mutex and runs its command on a connection of its own, which may
\* fail.  After a failure NewRemote closes.
ResolveBaseDir ==
  /\ pc["user"] = "resolve"
  /\ \E transport \in Transports :
       /\ transport # "oci" => mu = Nobody
       /\ \/ /\ transport # "oci" => ~closed
             /\ Goto("user", "use")
             /\ UNCHANGED closes
          \/ /\ Goto("user", "close")
             /\ closes' = closes + 1
  /\ UNCHANGED <<mu, session, process, pending, requests, sftpCloses, closeWaits>>

-----------------------------------------------------------------------------
(* Workers: a call on the SFTP client ends with its answer, or when the    *)
(* server's stream ends; nothing else ends it.                             *)

Request(w) ==
  /\ pc["user"] = "use"
  /\ w \notin pending
  /\ requests < MaxRequests
  /\ pending' = pending \cup {w}
  /\ requests' = requests + 1
  /\ UNCHANGED <<pc, mu, session, process, closes, sftpCloses, closeWaits>>

RequestEnds(w) ==
  /\ w \in pending
  /\ ~alive \/ ~stalled
  /\ pending' = pending \ {w}
  /\ UNCHANGED <<pc, mu, session, process, requests, closes, sftpCloses, closeWaits>>

\* The user is done, or its workers failed: all of them have returned (g.Wait).
CallClose ==
  /\ \/ pc["user"] = "use" /\ pending = {}
     \/ pc["user"] = "gone" /\ closes > 0
  /\ closes < MaxCloses
  /\ closes' = closes + 1
  /\ Goto("user", "close")
  /\ UNCHANGED <<mu, session, process, pending, requests, sftpCloses, closeWaits>>

-----------------------------------------------------------------------------
(* The watcher.                                                            *)

\* Mutant: the watcher waits for Close, not for the context.
WatcherWakesLate ==
  /\ pc["watcher"] = "watch"
  /\ closed
  /\ Goto("watcher", "close")
  /\ UNCHANGED <<mu, session, process, use, sftpCloses, closeWaits>>

\* select with a default: the fresh timer is never ready, default is taken.
WatcherWakes ==
  /\ pc["watcher"] = "watch"
  /\ watchDone
  /\ Goto("watcher", "close")
  /\ UNCHANGED <<mu, session, process, use, sftpCloses, closeWaits>>

-----------------------------------------------------------------------------
(* Close and forceClose, in thread t.                                      *)

\* Mutant: the second to come does not look at closed.
LockAnyhow(t) ==
  /\ pc[t] = "close"
  /\ mu = Nobody
  /\ closed' = TRUE
  /\ mu' = t
  /\ watchDone' = (watchDone \/ t = "user")
  /\ Goto(t, "sftp")
  /\ UNCHANGED <<cancelled, grace, process, use, sftpCloses, closeWaits>>

\* Mutant: cancelWatch is not called.
LockNoCancel(t) ==
  /\ pc[t] = "close"
  /\ mu = Nobody
  /\ IF closed
     THEN Goto(t, "gone") /\ UNCHANGED <<mu, closed>>
     ELSE mu' = t /\ closed' = TRUE /\ Goto(t, "sftp")
  /\ UNCHANGED <<cancelled, watchDone, grace, process, use, sftpCloses, closeWaits>>

\* r.mu.Lock; return if closed, else set it; Close ends the watch as well.
Lock(t) ==
  /\ pc[t] = "close"
  /\ mu = Nobody
  /\ IF closed
     THEN Goto(t, "gone") /\ UNCHANGED <<mu, closed, watchDone>>
     ELSE /\ mu' = t
          /\ closed' = TRUE
          /\ watchDone' = (watchDone \/ t = "user")
          /\ Goto(t, "sftp")
  /\ UNCHANGED <<cancelled, grace, process, use, sftpCloses, closeWaits>>

\* Close waits for the process at once; forceClose kills it first.
AfterSftp(t) == IF t = "user" THEN "wait" ELSE "kill"

SftpClose(t) ==
  /\ pc[t] = "sftp"
  /\ stdin' = FALSE
  /\ sftpCloses' = sftpCloses + 1
  /\ Goto(t, IF closeWaits THEN "receiver" ELSE AfterSftp(t))
  /\ UNCHANGED <<mu, session, alive, stalled, waits, reaped, use, closeWaits>>

\* The receiver of pkg/sftp ends with the stream of the process.
ReceiverEnds(t) ==
  /\ pc[t] = "receiver"
  /\ ~alive
  /\ Goto(t, AfterSftp(t))
  /\ UNCHANGED <<mu, session, process, use, sftpCloses, closeWaits>>

Kill(t) ==
  /\ pc[t] = "kill"
  /\ alive' = FALSE
  /\ Goto(t, "wait")
  /\ UNCHANGED <<mu, session, stdin, stalled, waits, reaped, use, sftpCloses, closeWaits>>

\* waitCmd: a goroutine calls cmd.Wait; the select waits for it or for the timer.
Wait(t) ==
  /\ pc[t] = "wait"
  /\ waits' = waits + 1
  /\ Goto(t, "waiting")
  /\ UNCHANGED <<mu, session, stdin, alive, stalled, reaped, use, sftpCloses, closeWaits>>

\* Mutant: after the timer the wait is given up.
TimerGivesUp(t) ==
  /\ pc[t] = "waiting"
  /\ alive
  /\ mu' = Nobody
  /\ Goto(t, "gone")
  /\ UNCHANGED <<session, process, use, sftpCloses, closeWaits>>

\* Mutant: the process is not killed.
TimerNoKill(t) ==
  /\ pc[t] = "waiting"
  /\ alive
  /\ UNCHANGED vars

Timer(t) ==
  /\ pc[t] = "waiting"
  /\ alive
  /\ alive' = FALSE
  /\ UNCHANGED <<pc, mu, session, stdin, stalled, waits, reaped, use, sftpCloses, closeWaits>>

\* Mutant: the mutex is not unlocked.
WaitedLocked(t) ==
  /\ pc[t] = "waiting"
  /\ ~alive
  /\ reaped' = TRUE
  /\ Goto(t, "gone")
  /\ UNCHANGED <<mu, session, stdin, alive, stalled, waits, use, sftpCloses, closeWaits>>

\* cmd.Wait has returned; so does the call, and unlocks.
Waited(t) ==
  /\ pc[t] = "waiting"
  /\ ~alive
  /\ reaped' = TRUE
  /\ mu' = Nobody
  /\ Goto(t, "gone")
  /\ UNCHANGED <<session, stdin, alive, stalled, waits, use, sftpCloses, closeWaits>>

-----------------------------------------------------------------------------
(* The world.                                                              *)

Cancel ==
  /\ ~cancelled
  /\ cancelled' = TRUE
  /\ watchDone' = (watchDone \/ pc["watcher"] # "none")
  /\ UNCHANGED <<pc, mu, closed, grace, process, use, sftpCloses, closeWaits>>

GracePasses ==
  /\ cancelled /\ ~grace
  /\ grace' = TRUE
  /\ UNCHANGED <<pc, mu, closed, cancelled, watchDone, process, use, sftpCloses, closeWaits>>

\* The connection breaks, or the server exits.
ConnectionLost ==
  /\ alive
  /\ alive' = FALSE
  /\ UNCHANGED <<pc, mu, session, stdin, stalled, waits, reaped, use, sftpCloses, closeWaits>>

\* The peer, or the network, goes silent: no answer, no end.
PeerStalls ==
  /\ alive /\ ~stalled
  /\ stalled' = TRUE
  /\ UNCHANGED <<pc, mu, session, stdin, alive, waits, reaped, use, sftpCloses, closeWaits>>

\* The server sees the end of its input, and ssh exits after it.
SshExits ==
  /\ alive /\ ~stdin /\ ~stalled
  /\ alive' = FALSE
  /\ UNCHANGED <<pc, mu, session, stdin, stalled, waits, reaped, use, sftpCloses, closeWaits>>

-----------------------------------------------------------------------------
Teardown(t) == \/ Lock(t) \/ SftpClose(t) \/ ReceiverEnds(t)
               \/ Kill(t) \/ Wait(t) \/ Timer(t) \/ Waited(t)

Next == \/ Subsystem \/ Handshake \/ HandshakeFails \/ ResolveBaseDir \/ CallClose
        \/ \E w \in Workers : Request(w) \/ RequestEnds(w)
        \/ WatcherWakes
        \/ \E t \in Threads : Teardown(t)
        \/ Cancel \/ GracePasses
        \/ ConnectionLost \/ PeerStalls \/ SshExits

Spec == Init /\ [][Next]_vars

\* Goroutines and timers run, the deferred Close is called; a server that is not
\* stalled answers and exits.  Losing or stalling the connection, the context and
\* what the user asks for are up to the world.
User == Subsystem \/ Handshake \/ HandshakeFails \/ ResolveBaseDir \/ CallClose
Fairness == /\ WF_vars(User) /\ WF_vars(WatcherWakes)
            /\ \A w \in Workers : WF_vars(RequestEnds(w))
            /\ \A t \in Threads : WF_vars(Teardown(t))
            /\ WF_vars(SshExits)

FairSpec == Spec /\ Fairness

-----------------------------------------------------------------------------
(* Properties.                                                             *)

Steps == {"none", "new", "handshake", "resolve", "use", "watch", "close", "sftp",
          "receiver", "kill", "wait", "waiting", "gone"}
InTeardown == {"sftp", "receiver", "kill", "wait", "waiting"}

TypeOK ==
  /\ pc \in [Threads -> Steps]
  /\ mu \in Threads \cup {Nobody}
  /\ closed \in BOOLEAN /\ cancelled \in BOOLEAN /\ watchDone \in BOOLEAN /\ grace \in BOOLEAN
  /\ stdin \in BOOLEAN /\ alive \in BOOLEAN /\ stalled \in BOOLEAN /\ reaped \in BOOLEAN
  /\ waits \in Nat /\ requests \in Nat /\ closes \in Nat /\ sftpCloses \in Nat
  /\ pending \subseteq Workers
  /\ closeWaits \in BOOLEAN

\* However Close and forceClose race, the client is closed once and the process
\* waited for once (a second cmd.Wait is an error of os/exec).
TornDownOnce == waits <= 1 /\ sftpCloses <= 1

\* A Close that has returned leaves no process behind, not even when it found the
\* session closed by the watcher; nor does a NewRemote that failed.
ClosedMeansReaped ==
  pc["user"] = "gone" => /\ ~alive
                         /\ waits > 0 => reaped

\* What t needs for its next step of Close or forceClose.
CanStep(t) == \/ pc[t] = "close" /\ mu = Nobody
              \/ pc[t] = "receiver" /\ ~alive
              \/ pc[t] \in {"sftp", "kill", "wait", "waiting"}

\* Close and forceClose are never stuck: the caller, or the holder of the mutex it waits
\* for, has a step, or ssh is about to exit and give it one.  The exception is a silent
\* peer under a client that waits for it.
TeardownGoesOn ==
  \A t \in Threads :
    pc[t] \in {"close"} \cup InTeardown =>
      \/ CanStep(IF mu = Nobody THEN t ELSE mu)
      \/ alive /\ ~stdin /\ ~stalled
      \/ stalled /\ closeWaits

\* No wakeup is lost: as long as a worker waits under a cancelled context, and after the
\* last Close, the watcher is on its way, whichever of the context, the handshake and
\* Close came first; and then nobody keeps it from the mutex.
WatcherIsTold ==
  /\ cancelled /\ pending # {} /\ alive =>
       \/ pc["watcher"] = "watch" /\ watchDone
       \/ pc["watcher"] = "close" /\ mu = Nobody
       \/ mu = "watcher"
  /\ pc["user"] = "gone" /\ pc["watcher"] \notin {"none", "gone"} =>
       /\ pc["watcher"] = "close" \/ (pc["watcher"] = "watch" /\ watchDone)
       /\ mu = Nobody

\* startWatch: a cancelled context unblocks every pending call, if the peer answers
\* or closing the client does not wait for it.
CancelUnblocks ==
  \A w \in Workers :
    (cancelled /\ w \in pending) ~> (w \notin pending \/ (stalled /\ closeWaits))

\* A Close returns under the same condition, whoever tears the session down.
CloseReturns ==
  (pc["user"] = "close") ~> (pc["user"] = "gone" \/ (stalled /\ closeWaits))

\* The goroutine of startWatch ends with the session.
WatcherEnds ==
  (pc["user"] = "gone" /\ pc["watcher"] # "none") ~> (pc["watcher"] = "gone")

\* Subsystem (ssh.go): the subprocess survives the context, so "callers are expected
\* to manage shutdown explicitly": a cancelled context ends it, however far NewRemote
\* has come.
CancelEndsProcess == (cancelled /\ alive) ~> ~alive

\* startWatch (remote.go): the watcher "waits ForceCloseGrace and then closes".
GraceGiven == pc["watcher"] \in InTeardown => grace

-----------------------------------------------------------------------------
(* The inductive invariant.                                                *)

UserSteps == {"new", "handshake", "resolve", "use", "close", "gone"} \cup InTeardown
WatcherSteps == {"none", "watch", "close", "gone"} \cup InTeardown

\* Nobody tears the session down yet: only a failed handshake has waited.
Untouched ==
  /\ mu = Nobody /\ sftpCloses = 0
  /\ pc["user"] \in {"new", "handshake"} =>
       pc["watcher"] = "none" /\ waits = 0 /\ closes = 0
  /\ pc["user"] \in {"resolve", "use", "close"} => pc["watcher"] # "none" /\ waits = 0
  /\ pc["user"] = "gone" => /\ pc["watcher"] = "none" /\ closes = 0
                            /\ ~alive
                            /\ waits = 0 \/ (waits = 1 /\ reaped)
  /\ pc["user"] = "new" => ~alive

\* The holder of the mutex has got to its step.
Underway(t) ==
  /\ pc["user"] \notin {"new", "handshake", "gone"} /\ pc["watcher"] # "none"
  /\ sftpCloses = IF pc[t] = "sftp" THEN 0 ELSE 1
  /\ waits = IF pc[t] = "waiting" THEN 1 ELSE 0

Over ==
  /\ pc["user"] \notin {"new", "handshake"} /\ pc["watcher"] # "none"
  /\ sftpCloses = 1 /\ waits = 1 /\ reaped /\ ~alive

\* Who holds the mutex is tearing down, and the other way round.
MutexOK == /\ pc["user"] \in UserSteps /\ pc["watcher"] \in WatcherSteps
           /\ \A t \in Threads : pc[t] \in InTeardown <=> mu = t

StageOK == /\ ~closed => Untouched
           /\ closed /\ mu # Nobody => Underway(mu)
           /\ closed /\ mu = Nobody => Over

\* closed alone does not say how far the teardown has come; the mutex does.
Stages == TypeOK /\ MutexOK /\ StageOK

\* Once there is a watcher, a cancelled context and a Close both reach it; it never
\* leaves an open session; workers wait only while the session is in use.
WatchOK ==
  /\ (cancelled /\ pc["watcher"] # "none") \/ closed => watchDone
  /\ pc["watcher"] \notin {"none", "watch"} => watchDone
  /\ pc["watcher"] = "gone" => closed
  /\ pending # {} => pc["user"] = "use"

\* The step after sftp.Client.Close, which has closed the input of ssh.
PipesOK ==
  \A t \in Threads : /\ pc[t] = "receiver" => closeWaits
                     /\ pc[t] \in InTeardown \ {"sftp"} => ~stdin

IInv == Stages /\ WatchOK /\ PipesOK
=============================================================================
