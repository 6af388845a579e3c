------------------------ MODULE RemoteSessionProofs ------------------------
(***************************************************************************)
(* Proofs about RemoteSession, for any number of workers and any bounds.   *)
(***************************************************************************)
EXTENDS RemoteSession, TLAPS

USE DEF Threads

\* Before NewRemote there is nothing to tear down.
LEMMA InitStages ==
  ASSUME Init
  PROVE  Stages
<1> USE WaitsAssumption, NobodyAssumption DEF Init
<1>1. pc \in [Threads -> Steps]
  BY DEF Steps
<1>2. TypeOK
  BY <1>1 DEF TypeOK
<1>3. MutexOK
  BY DEF MutexOK, UserSteps, WatcherSteps, InTeardown
<1>4. StageOK
  BY DEF StageOK, Untouched
<1> QED
  BY <1>2, <1>3, <1>4 DEF Stages

\* The steps of the user's goroutine keep the stages.
LEMMA UserStages ==
  ASSUME Stages, User
  PROVE  Stages'
<1>0. TypeOK /\ MutexOK /\ StageOK
  BY DEF Stages
<1> USE DEF session, process, use
<1>1. CASE Subsystem
  <2>1. TypeOK'
    <3>1. stdin' \in BOOLEAN /\ alive' \in BOOLEAN
      BY <1>0, <1>1 DEF Subsystem, TypeOK
    <3>2. pc' \in [Threads -> Steps]
      BY <1>0, <1>1 DEF Subsystem, TypeOK, Steps, Goto
    <3>3. UNCHANGED <<mu, closed, cancelled, watchDone, grace, stalled, waits, reaped, pending,
                      requests, closes, sftpCloses, closeWaits>>
      BY <1>1 DEF Subsystem
    <3> QED
      BY ONLY <1>0, <3>1, <3>2, <3>3 DEF TypeOK
  <2>2. MutexOK'
    BY <1>0, <1>1, NobodyAssumption
       DEF Subsystem, TypeOK, MutexOK, UserSteps, WatcherSteps, InTeardown, Goto, AfterSftp
  <2>3. StageOK'
    BY <1>0, <1>1, NobodyAssumption
       DEF Subsystem, TypeOK, MutexOK, StageOK, Untouched, Underway, Over, InTeardown,
           Goto, AfterSftp
  <2> QED
    BY <2>1, <2>2, <2>3 DEF Stages
<1>2. CASE Handshake
  <2>1. TypeOK'
    BY <1>0, <1>2, NobodyAssumption DEF Handshake, TypeOK, Steps, Goto, AfterSftp
  <2>2. MutexOK'
    <3>1. mu = Nobody
      BY <1>0, <1>2 DEF Handshake, StageOK, Untouched, Underway, Over
    <3>2. pc' = [pc EXCEPT !["user"] = "resolve", !["watcher"] = "watch"] /\ mu' = mu
      BY <1>2 DEF Handshake
    <3> QED
      BY <1>0, <3>1, <3>2, NobodyAssumption
         DEF TypeOK, MutexOK, UserSteps, WatcherSteps, InTeardown
  <2>3. StageOK'
    BY <1>0, <1>2, NobodyAssumption
       DEF Handshake, TypeOK, MutexOK, StageOK, Untouched, Underway, Over, InTeardown,
           Goto, AfterSftp
  <2> QED
    BY <2>1, <2>2, <2>3 DEF Stages
<1>3. CASE HandshakeFails
  <2>1. TypeOK'
    <3>1. waits' \in Nat
      BY <1>0, <1>3 DEF HandshakeFails, TypeOK
    <3>2. /\ stdin' \in BOOLEAN /\ alive' \in BOOLEAN /\ reaped' \in BOOLEAN
          /\ pc' \in [Threads -> Steps]
      BY <1>0, <1>3 DEF HandshakeFails, TypeOK, Steps, Goto
    <3>3. UNCHANGED <<mu, closed, cancelled, watchDone, grace, stalled,
                      pending, requests, closes, sftpCloses, closeWaits>>
      BY <1>3 DEF HandshakeFails
    <3> QED
      BY ONLY <1>0, <3>1, <3>2, <3>3 DEF TypeOK
  <2>2. MutexOK'
    BY <1>0, <1>3, NobodyAssumption
       DEF HandshakeFails, TypeOK, MutexOK, UserSteps, WatcherSteps, InTeardown, Goto
  <2>3. StageOK'
    BY <1>0, <1>3, NobodyAssumption
       DEF HandshakeFails, TypeOK, MutexOK, StageOK, Untouched, Underway, Over,
           InTeardown, Goto
  <2> QED
    BY <2>1, <2>2, <2>3 DEF Stages
<1>4. CASE ResolveBaseDir
  <2>1. TypeOK'
    BY <1>0, <1>4, NobodyAssumption DEF ResolveBaseDir, TypeOK, Steps, Goto, AfterSftp
  <2>2. MutexOK'
    BY <1>0, <1>4, NobodyAssumption
       DEF ResolveBaseDir, TypeOK, MutexOK, UserSteps, WatcherSteps, InTeardown, Goto, AfterSftp
  <2>3. StageOK'
    BY <1>0, <1>4, NobodyAssumption
       DEF ResolveBaseDir, TypeOK, MutexOK, StageOK, Untouched, Underway, Over, InTeardown,
           Goto, AfterSftp
  <2> QED
    BY <2>1, <2>2, <2>3 DEF Stages
<1>5. CASE CallClose
  <2>1. TypeOK'
    BY <1>0, <1>5, NobodyAssumption DEF CallClose, TypeOK, Steps, Goto, AfterSftp
  <2>2. MutexOK'
    BY <1>0, <1>5, NobodyAssumption
       DEF CallClose, TypeOK, MutexOK, UserSteps, WatcherSteps, InTeardown, Goto, AfterSftp
  <2>3. StageOK'
    BY <1>0, <1>5, NobodyAssumption
       DEF CallClose, TypeOK, MutexOK, StageOK, Untouched, Underway, Over, InTeardown,
           Goto, AfterSftp
  <2> QED
    BY <2>1, <2>2, <2>3 DEF Stages
<1> QED
  BY <1>1, <1>2, <1>3, <1>4, <1>5 DEF User

\* So do those of Close and forceClose.
LEMMA TeardownStages ==
  ASSUME Stages, NEW t \in Threads, Teardown(t)
  PROVE  Stages'
<1>0. TypeOK /\ MutexOK /\ StageOK
  BY DEF Stages
<1> USE DEF session, process, use
<1>1. CASE Lock(t)
  <2>1. TypeOK'
    <3>1. mu' \in Threads \cup {Nobody} /\ closed' \in BOOLEAN /\ watchDone' \in BOOLEAN
      BY <1>0, <1>1 DEF Lock, TypeOK
    <3>2. pc' \in [Threads -> Steps]
      BY <1>0, <1>1 DEF Lock, TypeOK, Steps, Goto
    <3>3. UNCHANGED <<cancelled, grace, stdin, alive, stalled, waits, reaped, pending,
                      requests, closes, sftpCloses, closeWaits>>
      BY <1>1 DEF Lock
    <3> QED
      BY ONLY <1>0, <3>1, <3>2, <3>3 DEF TypeOK
  <2>2. MutexOK'
    <3>1. CASE closed
      BY <1>0, <1>1, <3>1, NobodyAssumption
         DEF Lock, TypeOK, MutexOK, UserSteps, WatcherSteps, InTeardown, Goto
    <3>2. CASE ~closed
      <4>1. mu = Nobody /\ mu' = t /\ pc' = [pc EXCEPT ![t] = "sftp"]
        BY <1>1, <3>2 DEF Lock, Goto
      <4>2. \A u \in Threads : pc[u] \notin InTeardown
        BY <1>0, <4>1, NobodyAssumption DEF MutexOK
      <4>3. \A u \in Threads : pc'[u] = IF u = t THEN "sftp" ELSE pc[u]
        BY <1>0, <4>1 DEF TypeOK
      <4>4. \A u \in Threads : pc'[u] \in InTeardown <=> mu' = u
        BY <4>1, <4>2, <4>3 DEF InTeardown
      <4>5. pc'["user"] \in UserSteps /\ pc'["watcher"] \in WatcherSteps
        BY <1>0, <4>3 DEF MutexOK, UserSteps, WatcherSteps, InTeardown
      <4> QED
        BY <4>4, <4>5 DEF MutexOK
    <3> QED
      BY <3>1, <3>2
  <2>3. StageOK'
    <3>1. CASE closed
      <4>1. pc' = [pc EXCEPT ![t] = "gone"] /\ UNCHANGED <<mu, closed, process, sftpCloses>>
        BY <1>1, <3>1 DEF Lock, Goto
      <4>2. Over /\ mu = Nobody
        BY <1>0, <1>1, <3>1 DEF Lock, StageOK
      <4> QED
        BY <1>0, <3>1, <4>1, <4>2 DEF TypeOK, StageOK, Over
    <3>2. CASE ~closed
      <4>1. /\ mu = Nobody /\ mu' = t /\ closed' = TRUE /\ pc[t] = "close"
            /\ pc' = [pc EXCEPT ![t] = "sftp"] /\ UNCHANGED <<process, sftpCloses>>
        BY <1>1, <3>2 DEF Lock, Goto
      <4>2. pc["user"] \in {"resolve", "use", "close"} /\ pc["watcher"] # "none"
        BY <1>0, <3>2, <4>1, NobodyAssumption
           DEF StageOK, Untouched, MutexOK, UserSteps, InTeardown
      <4>3. sftpCloses = 0 /\ waits = 0
        BY <1>0, <3>2, <4>2 DEF StageOK, Untouched
      <4>4. Underway(t)'
        BY <1>0, <4>1, <4>2, <4>3 DEF TypeOK, Underway
      <4> QED
        BY <4>1, <4>4, NobodyAssumption DEF StageOK, Underway
    <3> QED
      BY <3>1, <3>2
  <2> QED
    BY <2>1, <2>2, <2>3 DEF Stages
<1>2. CASE SftpClose(t)
  <2>1. TypeOK'
    <3>1. sftpCloses' \in Nat
      BY <1>0, <1>2 DEF SftpClose, TypeOK
    <3>2. stdin' \in BOOLEAN /\ pc' \in [Threads -> Steps]
      BY <1>0, <1>2 DEF SftpClose, TypeOK, Steps, Goto, AfterSftp
    <3>3. UNCHANGED <<mu, closed, cancelled, watchDone, grace, alive, stalled, waits,
                      reaped, pending, requests, closes, closeWaits>>
      BY <1>2 DEF SftpClose
    <3> QED
      BY ONLY <1>0, <3>1, <3>2, <3>3 DEF TypeOK
  <2>2. MutexOK'
    BY <1>0, <1>2, NobodyAssumption
       DEF SftpClose, TypeOK, MutexOK, UserSteps, WatcherSteps, InTeardown, Goto, AfterSftp
  <2>3. StageOK'
    BY <1>0, <1>2, NobodyAssumption
       DEF SftpClose, TypeOK, MutexOK, StageOK, Untouched, Underway, Over, InTeardown,
           Goto, AfterSftp
  <2> QED
    BY <2>1, <2>2, <2>3 DEF Stages
<1>3. CASE ReceiverEnds(t)
  <2>1. TypeOK'
    BY <1>0, <1>3, NobodyAssumption DEF ReceiverEnds, TypeOK, Steps, Goto, AfterSftp
  <2>2. MutexOK'
    BY <1>0, <1>3, NobodyAssumption
       DEF ReceiverEnds, TypeOK, MutexOK, UserSteps, WatcherSteps, InTeardown, Goto, AfterSftp
  <2>3. StageOK'
    BY <1>0, <1>3, NobodyAssumption
       DEF ReceiverEnds, TypeOK, MutexOK, StageOK, Untouched, Underway, Over, InTeardown,
           Goto, AfterSftp
  <2> QED
    BY <2>1, <2>2, <2>3 DEF Stages
<1>4. CASE Kill(t)
  <2>1. TypeOK'
    BY <1>0, <1>4, NobodyAssumption DEF Kill, TypeOK, Steps, Goto, AfterSftp
  <2>2. MutexOK'
    BY <1>0, <1>4, NobodyAssumption
       DEF Kill, TypeOK, MutexOK, UserSteps, WatcherSteps, InTeardown, Goto, AfterSftp
  <2>3. StageOK'
    BY <1>0, <1>4, NobodyAssumption
       DEF Kill, TypeOK, MutexOK, StageOK, Untouched, Underway, Over, InTeardown,
           Goto, AfterSftp
  <2> QED
    BY <2>1, <2>2, <2>3 DEF Stages
<1>5. CASE Wait(t)
  <2>1. TypeOK'
    BY <1>0, <1>5, NobodyAssumption DEF Wait, TypeOK, Steps, Goto, AfterSftp
  <2>2. MutexOK'
    BY <1>0, <1>5, NobodyAssumption
       DEF Wait, TypeOK, MutexOK, UserSteps, WatcherSteps, InTeardown, Goto, AfterSftp
  <2>3. StageOK'
    BY <1>0, <1>5, NobodyAssumption
       DEF Wait, TypeOK, MutexOK, StageOK, Untouched, Underway, Over, InTeardown,
           Goto, AfterSftp
  <2> QED
    BY <2>1, <2>2, <2>3 DEF Stages
<1>6. CASE Timer(t)
  <2>1. TypeOK'
    BY <1>0, <1>6, NobodyAssumption DEF Timer, TypeOK, Steps, Goto, AfterSftp
  <2>2. MutexOK'
    BY <1>0, <1>6, NobodyAssumption
       DEF Timer, TypeOK, MutexOK, UserSteps, WatcherSteps, InTeardown, Goto, AfterSftp
  <2>3. StageOK'
    BY <1>0, <1>6, NobodyAssumption
       DEF Timer, TypeOK, MutexOK, StageOK, Untouched, Underway, Over, InTeardown,
           Goto, AfterSftp
  <2> QED
    BY <2>1, <2>2, <2>3 DEF Stages
<1>7. CASE Waited(t)
  <2>1. TypeOK'
    BY <1>0, <1>7, NobodyAssumption DEF Waited, TypeOK, Steps, Goto, AfterSftp
  <2>2. MutexOK'
    BY <1>0, <1>7, NobodyAssumption
       DEF Waited, TypeOK, MutexOK, UserSteps, WatcherSteps, InTeardown, Goto, AfterSftp
  <2>3. StageOK'
    BY <1>0, <1>7, NobodyAssumption
       DEF Waited, TypeOK, MutexOK, StageOK, Untouched, Underway, Over, InTeardown,
           Goto, AfterSftp
  <2> QED
    BY <2>1, <2>2, <2>3 DEF Stages
<1> QED
  BY <1>1, <1>2, <1>3, <1>4, <1>5, <1>6, <1>7 DEF Teardown

\* What the world does: the mutex and the steps of the threads stay.
LEMMA WorldStages ==
  ASSUME Stages, Cancel \/ GracePasses \/ ConnectionLost \/ PeerStalls \/ SshExits
  PROVE  Stages'
<1>0. TypeOK /\ MutexOK /\ StageOK
  BY DEF Stages
<1>1. UNCHANGED <<pc, mu, closed, waits, reaped, sftpCloses, closes>>
  BY DEF Cancel, GracePasses, ConnectionLost, PeerStalls, SshExits, session, process, use
<1>2. ~alive => ~alive'
  BY DEF Cancel, GracePasses, ConnectionLost, PeerStalls, SshExits, session, process, use
<1>3. TypeOK'
  <2>1. CASE Cancel
    <3>1. watchDone' \in BOOLEAN /\ cancelled' \in BOOLEAN
      BY <2>1 DEF Cancel
    <3>2. UNCHANGED <<grace, process, use, closeWaits>>
      BY <2>1 DEF Cancel
    <3> QED
      BY <1>0, <1>1, <3>1, <3>2 DEF TypeOK, process, use
  <2>2. CASE GracePasses
    BY <1>0, <2>2 DEF GracePasses, TypeOK, process, use
  <2>3. CASE ConnectionLost
    BY <1>0, <2>3 DEF ConnectionLost, TypeOK, session, use
  <2>4. CASE PeerStalls
    BY <1>0, <2>4 DEF PeerStalls, TypeOK, session, use
  <2>5. CASE SshExits
    BY <1>0, <2>5 DEF SshExits, TypeOK, session, use
  <2> QED
    BY <2>1, <2>2, <2>3, <2>4, <2>5
<1>4. MutexOK'
  BY <1>0, <1>1 DEF MutexOK
<1>5. StageOK'
  BY <1>0, <1>1, <1>2 DEF StageOK, Untouched, Underway, Over
<1> QED
  BY <1>3, <1>4, <1>5 DEF Stages

\* So does every step.
LEMMA NextStages ==
  ASSUME Stages, [Next]_vars
  PROVE  Stages'
<1>0. TypeOK /\ MutexOK /\ StageOK
  BY DEF Stages
<1> USE DEF session, process, use
<1>1. CASE User
  BY <1>1, UserStages
<1>2. ASSUME NEW t \in Threads, Teardown(t) PROVE Stages'
  BY <1>2, TeardownStages
<1>3. CASE Cancel \/ GracePasses \/ ConnectionLost \/ PeerStalls \/ SshExits
  BY <1>3, WorldStages
<1>4. ASSUME NEW w \in Workers, Request(w) \/ RequestEnds(w) PROVE Stages'
  <2>1. UNCHANGED <<pc, mu, session, process, closes, sftpCloses, closeWaits>>
    BY <1>4 DEF Request, RequestEnds
  <2>2. TypeOK'
    BY <1>0, <1>4, <2>1 DEF TypeOK, Request, RequestEnds
  <2>3. MutexOK' /\ StageOK'
    BY <1>0, <2>1 DEF MutexOK, StageOK, Untouched, Underway, Over
  <2> QED
    BY <2>2, <2>3 DEF Stages
<1>5. CASE WatcherWakes
  <2>1. TypeOK'
    BY <1>0, <1>5 DEF WatcherWakes, TypeOK, Steps, Goto
  <2>2. MutexOK'
    BY <1>0, <1>5, NobodyAssumption
       DEF WatcherWakes, TypeOK, MutexOK, UserSteps, WatcherSteps, InTeardown, Goto
  <2>3. StageOK'
    BY <1>0, <1>5, NobodyAssumption
       DEF WatcherWakes, TypeOK, MutexOK, StageOK, Untouched, Underway, Over,
           InTeardown, Goto
  <2> QED
    BY <2>1, <2>2, <2>3 DEF Stages
<1>6. CASE UNCHANGED vars
  BY <1>0, <1>6 DEF vars, Stages, TypeOK, MutexOK, StageOK, Untouched, Underway, Over
<1> QED
  BY <1>1, <1>2, <1>3, <1>4, <1>5, <1>6 DEF Next, User

\* Nothing has been promised to a watcher before there is one.
LEMMA InitWakes ==
  ASSUME Init
  PROVE  WatchOK /\ PipesOK
BY DEF Init, WatchOK, PipesOK, InTeardown

\* The watch is ended by the context, even by one cancelled during the handshake, and by
\* Close; only the watcher itself moves on from there.
LEMMA NextWatch ==
  ASSUME Stages, WatchOK, [Next]_vars
  PROVE  WatchOK'
<1>0. TypeOK /\ MutexOK /\ StageOK
  BY DEF Stages
<1> USE DEF session, process, use
<1>1. CASE Subsystem
  BY <1>0, <1>1 DEF Subsystem, WatchOK, TypeOK, StageOK, Untouched, Underway, Over, Goto
<1>2. CASE Handshake
  BY <1>0, <1>2 DEF Handshake, WatchOK, TypeOK, StageOK, Untouched, Underway, Over
<1>3. CASE HandshakeFails
  BY <1>0, <1>3 DEF HandshakeFails, WatchOK, TypeOK, StageOK, Untouched, Underway, Over, Goto
<1>4. CASE ResolveBaseDir
  BY <1>0, <1>4 DEF ResolveBaseDir, WatchOK, TypeOK, Goto
<1>5. CASE CallClose
  BY <1>0, <1>5 DEF CallClose, WatchOK, TypeOK, Goto
<1>6. ASSUME NEW w \in Workers, Request(w) \/ RequestEnds(w) PROVE WatchOK'
  BY <1>6 DEF Request, RequestEnds, WatchOK
<1>7. CASE WatcherWakes
  BY <1>0, <1>7 DEF WatcherWakes, WatchOK, TypeOK, Goto
<1>8. ASSUME NEW t \in Threads, Teardown(t) PROVE WatchOK'
  <2>1. CASE Lock(t)
    BY <1>0, <2>1 DEF Lock, WatchOK, TypeOK, Goto
  <2>2. CASE \/ SftpClose(t) \/ ReceiverEnds(t) \/ Kill(t) \/ Wait(t) \/ Timer(t) \/ Waited(t)
    <3>1. UNCHANGED <<closed, cancelled, watchDone, pending>>
      BY <2>2 DEF SftpClose, ReceiverEnds, Kill, Wait, Timer, Waited
    <3>2. pc[t] \in InTeardown /\ \E step : pc' = [pc EXCEPT ![t] = step]
      <4>1. pc[t] \in InTeardown
        BY <2>2 DEF SftpClose, ReceiverEnds, Kill, Wait, Timer, Waited, InTeardown
      <4>2. \E step : pc' = [pc EXCEPT ![t] = step]
        <5>1. CASE Timer(t)
          <6>1. pc' = [pc EXCEPT ![t] = pc[t]]
            BY <1>0, <5>1 DEF Timer, TypeOK
          <6> QED  BY <6>1
        <5> QED
          BY <2>2, <5>1 DEF SftpClose, ReceiverEnds, Kill, Wait, Waited, Goto
      <4> QED
        BY <4>1, <4>2
    <3>3. closed
      BY <1>0, <3>2, NobodyAssumption DEF MutexOK, StageOK, Untouched
    <3> QED
      BY <1>0, <3>1, <3>2, <3>3 DEF WatchOK, TypeOK, InTeardown
  <2> QED
    BY <1>8, <2>1, <2>2 DEF Teardown
<1>9. CASE Cancel \/ GracePasses \/ ConnectionLost \/ PeerStalls \/ SshExits
  <2>1. CASE Cancel
    <3>1. UNCHANGED <<pc, closed, pending>>
      BY <2>1 DEF Cancel
    <3>2. pc["watcher"] # "none" => watchDone'
      BY <2>1 DEF Cancel
    <3>3. watchDone => watchDone'
      BY <2>1 DEF Cancel
    <3> QED
      BY <1>0, <3>1, <3>2, <3>3 DEF WatchOK, StageOK, Untouched, Underway, Over
  <2>2. CASE GracePasses \/ ConnectionLost \/ PeerStalls \/ SshExits
    BY <2>2 DEF GracePasses, ConnectionLost, PeerStalls, SshExits, WatchOK
  <2> QED
    BY <1>9, <2>1, <2>2
<1>10. CASE UNCHANGED vars
  BY <1>10 DEF vars, WatchOK
<1> QED
  BY <1>1, <1>2, <1>3, <1>4, <1>5, <1>6, <1>7, <1>8, <1>9, <1>10 DEF Next

\* Whoever is past sftp.Client.Close has closed the input of ssh, and nobody opens it
\* again.
LEMMA NextPipes ==
  ASSUME Stages, PipesOK, [Next]_vars
  PROVE  PipesOK'
<1>0. TypeOK /\ MutexOK /\ StageOK
  BY DEF Stages
<1> USE DEF session, process, use
<1>1. CASE Subsystem
  <2>1. \A t \in Threads : pc'[t] \notin InTeardown
    BY <1>0, <1>1, NobodyAssumption
       DEF Subsystem, TypeOK, MutexOK, StageOK, Untouched, Underway, Over, InTeardown, Goto
  <2> QED
    BY <2>1 DEF PipesOK, InTeardown
<1>2. CASE Handshake
  BY <1>0, <1>2 DEF Handshake, PipesOK, TypeOK, InTeardown
<1>3. CASE HandshakeFails \/ ResolveBaseDir \/ CallClose \/ WatcherWakes
  BY <1>0, <1>3 DEF HandshakeFails, ResolveBaseDir, CallClose, WatcherWakes, PipesOK,
       TypeOK, InTeardown, Goto
<1>4. ASSUME NEW w \in Workers, Request(w) \/ RequestEnds(w) PROVE PipesOK'
  BY <1>4 DEF Request, RequestEnds, PipesOK
<1>5. ASSUME NEW t \in Threads, Teardown(t) PROVE PipesOK'
  <2>1. CASE Lock(t) \/ ReceiverEnds(t) \/ Kill(t) \/ Wait(t) \/ Timer(t) \/ Waited(t)
    BY <1>0, <2>1 DEF Lock, ReceiverEnds, Kill, Wait, Timer, Waited, PipesOK, TypeOK,
         InTeardown, Goto, AfterSftp
  <2>2. CASE SftpClose(t)
    BY <1>0, <2>2 DEF SftpClose, PipesOK, TypeOK, InTeardown, Goto, AfterSftp
  <2> QED
    BY <1>5, <2>1, <2>2 DEF Teardown
<1>6. CASE Cancel \/ GracePasses \/ ConnectionLost \/ PeerStalls \/ SshExits
  BY <1>6 DEF Cancel, GracePasses, ConnectionLost, PeerStalls, SshExits, PipesOK
<1>7. CASE UNCHANGED vars
  BY <1>7 DEF vars, PipesOK
<1> QED
  BY <1>1, <1>2, <1>3, <1>4, <1>5, <1>6, <1>7 DEF Next

\* The invariant that says how far the teardown has come (remote.go, Close and
\* forceClose).
THEOREM SessionInvariant == Spec => []IInv
<1>1. Init => IInv
  BY InitStages, InitWakes DEF IInv
<1>2. IInv /\ [Next]_vars => IInv'
  BY NextStages, NextWatch, NextPipes DEF IInv
<1> QED
  BY <1>1, <1>2, PTL DEF Spec

\* TornDownOnce: Close and forceClose, in whatever order they come, never close the
\* client or wait for the process twice.
THEOREM TearsDownOnce == Spec => []TornDownOnce
<1>1. IInv => TornDownOnce
  <2> SUFFICES ASSUME IInv PROVE TornDownOnce
    OBVIOUS
  <2>1. CASE ~closed
    BY <2>1, NobodyAssumption
       DEF IInv, Stages, MutexOK, StageOK, Untouched, UserSteps, InTeardown, TornDownOnce
  <2>2. CASE closed /\ mu # Nobody
    BY <2>2 DEF IInv, Stages, StageOK, Underway, TornDownOnce
  <2>3. CASE closed /\ mu = Nobody
    BY <2>3 DEF IInv, Stages, StageOK, Over, TornDownOnce
  <2> QED
    BY <2>1, <2>2, <2>3
<1> QED
  BY <1>1, SessionInvariant, PTL

\* ClosedMeansReaped: a Close that has returned leaves no process behind.
THEOREM CloseReaps == Spec => []ClosedMeansReaped
<1>1. IInv => ClosedMeansReaped
  BY DEF IInv, Stages, StageOK, Untouched, Underway, Over, ClosedMeansReaped
<1> QED
  BY <1>1, SessionInvariant, PTL

\* TeardownGoesOn: a call of Close or forceClose, or the one that it waits for, always has
\* a step, unless a client waits for a silent peer.
THEOREM TeardownIsNeverStuck == Spec => []TeardownGoesOn
<1>1. IInv => TeardownGoesOn
  <2> SUFFICES ASSUME IInv, NEW t \in Threads, pc[t] \in {"close"} \cup InTeardown
               PROVE  \/ CanStep(IF mu = Nobody THEN t ELSE mu)
                      \/ alive /\ ~stdin /\ ~stalled
                      \/ stalled /\ closeWaits
    BY DEF TeardownGoesOn
  <2>1. MutexOK /\ PipesOK /\ TypeOK
    BY DEF IInv, Stages
  <2>2. CASE mu = Nobody
    BY <2>1, <2>2, NobodyAssumption DEF MutexOK, CanStep
  <2>3. CASE mu # Nobody
    <3>1. mu \in Threads /\ pc[mu] \in InTeardown
      BY <2>1, <2>3 DEF TypeOK, MutexOK
    <3>2. CASE pc[mu] = "receiver"
      <4>1. closeWaits /\ ~stdin
        BY <2>1, <3>1, <3>2 DEF PipesOK, InTeardown
      <4> QED
        BY <2>3, <3>2, <4>1 DEF CanStep
    <3>3. CASE pc[mu] # "receiver"
      BY <2>3, <3>1, <3>3 DEF CanStep, InTeardown
    <3> QED
      BY <3>2, <3>3
  <2> QED
    BY <2>2, <2>3
<1> QED
  BY <1>1, SessionInvariant, PTL

\* WatcherIsTold: the watcher learns of a cancelled context while workers wait, and of the
\* last Close, whichever of the context, the handshake and Close came first.
THEOREM NoWakeupIsLost == Spec => []WatcherIsTold
<1>1. IInv => WatcherIsTold
  <2> SUFFICES ASSUME IInv PROVE WatcherIsTold
    OBVIOUS
  <2>1. TypeOK /\ MutexOK /\ StageOK /\ WatchOK
    BY DEF IInv, Stages
  <2>2. ASSUME cancelled, pending # {}, alive
        PROVE  \/ pc["watcher"] = "watch" /\ watchDone
               \/ pc["watcher"] = "close" /\ mu = Nobody
               \/ mu = "watcher"
    <3>1. pc["user"] = "use"
      BY <2>1, <2>2 DEF WatchOK
    <3>2. mu \in {Nobody, "watcher"}
      BY <2>1, <3>1 DEF TypeOK, MutexOK, InTeardown
    <3>3. pc["watcher"] # "none" /\ (closed => mu # Nobody)
      BY <2>1, <2>2, <3>1 DEF StageOK, Untouched, Underway, Over
    <3>4. watchDone /\ (pc["watcher"] = "gone" => closed)
      BY <2>1, <2>2, <3>3 DEF WatchOK
    <3>5. CASE mu = Nobody
      <4>1. pc["watcher"] \notin InTeardown
        BY <2>1, <3>5, NobodyAssumption DEF MutexOK
      <4> QED
        BY <2>1, <3>3, <3>4, <3>5, <4>1 DEF MutexOK, WatcherSteps
    <3> QED
      BY <3>2, <3>5
  <2>3. ASSUME pc["user"] = "gone", pc["watcher"] \notin {"none", "gone"}
        PROVE  /\ pc["watcher"] = "close" \/ (pc["watcher"] = "watch" /\ watchDone)
               /\ mu = Nobody
    <3>1. closed /\ mu = Nobody
      BY <2>1, <2>3 DEF StageOK, Untouched, Underway
    <3>2. pc["watcher"] \notin InTeardown
      BY <2>1, <3>1, NobodyAssumption DEF MutexOK
    <3> QED
      BY <2>1, <2>3, <3>1, <3>2 DEF MutexOK, WatcherSteps, WatchOK
  <2> QED
    BY <2>2, <2>3 DEF WatcherIsTold
<1> QED
  BY <1>1, SessionInvariant, PTL
=============================================================================
