--------------------------- MODULE PhoneAppProofs ---------------------------
(***************************************************************************)
(* Proofs about PhoneApp, for any number of connects and taps.             *)
(***************************************************************************)
EXTENDS PhoneApp, TLAPS

Active(i) == tap[i].at \notin {"none", "done"}
Told(i) == tap[i].at \in {"bye", "cancel", "finish"}

\* Attempts begin in order, and no more than were asked for.
Fresh == /\ attempts + asked <= MaxAttempts
         /\ \A a \in Attempts : a > attempts => at[a] = "none"

\* An attempt has channels once it has opened them, and its engine does not run before it
\* got there.
Reached == \A a \in Attempts :
    /\ at[a] \in {"none", "opening"} => chan[a] = "none"
    /\ chan[a] = "none" => at[a] \in {"none", "opening", "done"}
    /\ at[a] \in {"none", "opening", "handshake", "greeted", "attach", "publish", "start"}
           => ~camera[a]

\* Two attempts that are in use at the same time are both marked.
Exclusive == \A a, b \in Attempts : a # b /\ InUse(a) /\ InUse(b) => overlap[a] = "early"

\* What the view model and a disconnect hold on to has got that far.
Known == /\ vm.controller # Nobody => at[vm.controller] \notin {"none", "opening"}
         /\ \A i \in Taps : Active(i) => tap[i].who # Nobody
         /\ \A i \in Taps : Told(i) => at[tap[i].who] \notin {"none", "opening"}

\* An attempt that nothing disturbed early is the one the view model shows.
Shown == \A a \in Attempts : Plain(a) =>
    /\ at[a] = "opening" => vm.payload
    /\ chan[a] \in {"open", "lost"} => vm.controller = a /\ vm.payload
    /\ vm.controller = a => vm.payload

\* A disconnect under way has marked what still opens, and is about the session shown.
Ended == \A i \in Taps :
    /\ tap[i].at = "finish" => chan[tap[i].who] = "closed"
    /\ \A a \in Attempts : /\ Active(i) /\ at[a] = "opening" => overlap[a] = "early"
                           /\ Told(i) /\ Plain(a) /\ chan[a] \in {"open", "lost"}
                                  => tap[i].who = a

\* An engine the view model got after a disconnect is never started.
Engines == \A a \in Attempts : vm.engine = a /\ Plain(a) /\ ~vm.payload =>
    ~camera[a] /\ chan[a] = "closed" /\ at[a] \notin {"none", "opening", "start"}

\* An attempt that nothing disturbed is shown, and so is its emitter until a disconnect,
\* which stops it first.
Undisturbed == \A a \in Attempts : overlap[a] = "none" =>
    /\ Connecting(a) => /\ vm.payload /\ \A i \in Taps : ~Active(i)
                        /\ at[a] # "opening" => chan[a] \in {"open", "lost"}
    /\ emitter[a] \in {"starting", "on"} =>
           /\ vm.emitter = a /\ vm.payload /\ at[a] = "done" /\ chan[a] \in {"open", "lost"}
           /\ \A i \in Taps : Active(i) => tap[i].at = "emitter" /\ tap[i].who = a

\* The inductive invariant.
IInv == /\ TypeOK /\ Fresh /\ Reached /\ Exclusive /\ Known /\ Shown /\ Ended /\ Engines
        /\ Undisturbed

-----------------------------------------------------------------------------
(* What the steps of a disconnect do, field by field. *)

\* What disconnect does to the view model: everything is let go of, but the emitter ...
Clears == vm'.payload = FALSE /\ vm'.controller = Nobody /\ vm'.engine = Nobody

\* ... to the marks: they are only ever raised ...
Marks ==
    /\ overlap' \in [Attempts -> {"none", "late", "early"}]
    /\ \A a \in Attempts :
           /\ at[a] = "opening" \/ overlap[a] = "early" => overlap'[a] = "early"
           /\ overlap'[a] = "none" => overlap[a] = "none" /\ ~Connecting(a)

\* ... and when the controller there is told.
Tells(i) ==
    /\ vm'.emitter = Nobody /\ \A j \in Taps : j # i => tap'[j] = tap[j]
    /\ \/ Clears /\ vm.controller = Nobody /\ tap'[i].at = "done"
       \/ /\ vm.controller # Nobody /\ vm'.payload = vm.payload
          /\ vm'.controller = vm.controller /\ vm'.engine = vm.engine
          /\ tap'[i].at = "bye" /\ tap'[i].who = vm.controller

\* It leaves the attempts alone.
Elsewhere == at' = at /\ chan' = chan /\ camera' = camera

\* TapDisconnect.
TapEffect(i) ==
    /\ Marks /\ Elsewhere /\ emitter' = emitter /\ vm.payload = TRUE /\ tap[i].at = "none"
    /\ \/ vm.emitter = Nobody /\ Tells(i)
       \/ /\ vm.emitter # Nobody /\ tap'[i].at = "emitter" /\ tap'[i].who = vm.emitter
          /\ vm' = vm /\ \A j \in Taps : j # i => tap'[j] = tap[j]

\* StopEmitter.
StopEffect(i) ==
    /\ Marks /\ Elsewhere /\ Tells(i) /\ tap[i].at = "emitter"
    /\ tap[i].who \in Attempts /\ emitter[tap[i].who] = "starting"
           => overlap'[tap[i].who] # "none"
    /\ \A a \in Attempts :
           emitter'[a] = IF a = tap[i].who /\ emitter[a] = "on" THEN "off" ELSE emitter[a]

\* Finish.
FinishEffect(i) ==
    /\ Marks /\ Elsewhere /\ Clears /\ emitter' = emitter /\ vm'.emitter = vm.emitter
    /\ tap[i].at = "finish" /\ tap'[i].at = "done" /\ \A j \in Taps : j # i => tap'[j] = tap[j]

-----------------------------------------------------------------------------
\* No attempt is Nobody.
LEMMA ZeroIsNobody == Nobody \notin Attempts
  BY DEF Nobody, Attempts

\* A mark is only ever raised: a disconnect makes those that still open "early", and
\* leaves no attempt that is connecting unmarked.
LEMMA OverlapGrows ==
    ASSUME TypeOK
    PROVE  /\ Overlapped \in [Attempts -> {"none", "late", "early"}]
           /\ \A a \in Attempts :
                  /\ at[a] = "opening" \/ overlap[a] = "early" => Overlapped[a] = "early"
                  /\ Overlapped[a] = "none" => overlap[a] = "none" /\ ~Connecting(a)
<1> USE DEF TypeOK, Connecting
<1>1. \A a \in Attempts :
          Overlapped[a] = IF at[a] = "opening" THEN "early"
                          ELSE IF Connecting(a) /\ overlap[a] = "none" THEN "late"
                          ELSE overlap[a]
  BY DEF Overlapped
<1>2. \A a \in Attempts : Overlapped[a] \in {"none", "late", "early"}
  BY <1>1
<1>3. Overlapped \in [Attempts -> {"none", "late", "early"}]
  BY <1>2 DEF Overlapped
<1> QED
  BY <1>1, <1>3

\* A step of disconnect raises the marks ...
LEMMA DisconnectMarks == ASSUME TypeOK, overlap' = Overlapped PROVE Marks
  BY OverlapGrows DEF Marks

\* ... and stopping an emitter that has not started marks its attempt, too.
LEMMA StopMarks ==
    ASSUME TypeOK, NEW i \in Taps, StopEmitter(i)
    PROVE  /\ Marks
           /\ tap[i].who \in Attempts /\ emitter[tap[i].who] = "starting"
                  => overlap'[tap[i].who] # "none"
<1> DEFINE e == tap[i].who
           mark == IF emitter[e] = "starting" /\ Overlapped[e] = "none" THEN "late"
                   ELSE Overlapped[e]
<1>1. overlap' = [Overlapped EXCEPT ![e] = mark]
  BY DEF StopEmitter
<1>2. Overlapped \in [Attempts -> {"none", "late", "early"}]
  BY OverlapGrows
<1>3. e \in Attempts => mark \in {"none", "late", "early"}
  BY <1>2
<1> HIDE DEF mark
<1>4. overlap' \in [Attempts -> {"none", "late", "early"}]
  BY <1>1, <1>2, <1>3
<1>5. \A a \in Attempts : overlap'[a] = IF a = e THEN mark ELSE Overlapped[a]
  BY <1>1, <1>2
<1> QED
  BY <1>4, <1>5, OverlapGrows DEF Marks, mark

\* What TellController does.
LEMMA TellsController ==
    ASSUME TypeOK, NEW i \in Taps, TellController(i)
    PROVE  vm' \in ViewModels /\ tap' \in [Taps -> Disconnects] /\ Tells(i)
<1> USE DEF TypeOK, Tells, Clears
<1>1. CASE vm.controller = Nobody
  <2>1. vm' = IdleVm /\ tap' = [tap EXCEPT ![i] = [at |-> "done", who |-> Nobody]]
    BY <1>1 DEF TellController
  <2>2. IdleVm \in ViewModels /\ IdleVm.payload = FALSE /\ IdleVm.controller = Nobody
        /\ IdleVm.engine = Nobody /\ IdleVm.emitter = Nobody
    BY DEF IdleVm, ViewModels
  <2>3. [at |-> "done", who |-> Nobody] \in Disconnects
    BY DEF Disconnects
  <2> QED
    BY <1>1, <2>1, <2>2, <2>3
<1>2. CASE vm.controller # Nobody
  <2>1. /\ vm' = [vm EXCEPT !.emitter = Nobody]
        /\ tap' = [tap EXCEPT ![i] = [at |-> "bye", who |-> vm.controller]]
    BY <1>2 DEF TellController
  <2>2. /\ vm' \in ViewModels /\ vm'.payload = vm.payload /\ vm'.controller = vm.controller
        /\ vm'.engine = vm.engine /\ vm'.emitter = Nobody
    BY <2>1 DEF ViewModels
  <2>3. [at |-> "bye", who |-> vm.controller] \in Disconnects
    BY DEF Disconnects, ViewModels
  <2> QED
    BY <1>2, <2>1, <2>2, <2>3
<1> QED
  BY <1>1, <1>2

\* What the end of a disconnect does.
LEMMA FinishClears ==
    ASSUME TypeOK, vm' = Cleared PROVE vm' \in ViewModels /\ Clears /\ vm'.emitter = vm.emitter
  BY DEF TypeOK, ViewModels, Cleared, IdleVm, Clears

\* A tap either has an emitter to stop or tells the controller.
LEMMA TapDoes == ASSUME TypeOK, NEW i \in Taps, TapDisconnect(i) PROVE TapEffect(i)
<1> USE DEF TapDisconnect
<1>1. Marks
  BY DisconnectMarks
<1>2. vm.emitter = Nobody => Tells(i)
  BY TellsController
<1>3. ASSUME vm.emitter # Nobody
      PROVE  tap' = [tap EXCEPT ![i] = [at |-> "emitter", who |-> vm.emitter]] /\ vm' = vm
  BY <1>3
<1>4. tap \in [Taps -> Disconnects]
  BY DEF TypeOK
<1>5. vm.emitter # Nobody => /\ tap'[i].at = "emitter" /\ tap'[i].who = vm.emitter
                             /\ vm' = vm /\ \A j \in Taps : j # i => tap'[j] = tap[j]
  BY <1>3, <1>4
<1>6. vm.payload = TRUE
  BY DEF TypeOK, ViewModels
<1> QED
  BY <1>1, <1>2, <1>5, <1>6 DEF TapEffect, Elsewhere, session_

\* Once the emitter is stopped, the controller is told.
LEMMA StopDoes == ASSUME TypeOK, NEW i \in Taps, StopEmitter(i) PROVE StopEffect(i)
<1>1. \A a \in Attempts :
          emitter'[a] = IF a = tap[i].who /\ emitter[a] = "on" THEN "off" ELSE emitter[a]
  BY DEF StopEmitter, TypeOK
<1> QED
  BY <1>1, StopMarks, TellsController DEF StopEmitter, StopEffect, Elsewhere, session_

\* The rest of disconnect lets go of everything.
LEMMA FinishDoes == ASSUME TypeOK, NEW i \in Taps, Finish(i) PROVE FinishEffect(i)
<1>1. Marks /\ Clears /\ vm'.emitter = vm.emitter
  BY DisconnectMarks, FinishClears DEF Finish
<1>2. tap' = [tap EXCEPT ![i].at = "done"] /\ tap \in [Taps -> Disconnects]
  BY DEF Finish, TypeOK
<1>3. tap'[i].at = "done" /\ \A j \in Taps : j # i => tap'[j] = tap[j]
  BY <1>2 DEF Disconnects
<1> QED
  BY <1>1, <1>3 DEF Finish, FinishEffect, Elsewhere, session_

\* What is held on to is an attempt or nobody.
LEMMA Holds ==
    ASSUME TypeOK
    PROVE  /\ vm.controller \in Attempts \cup {Nobody} /\ vm.engine \in Attempts \cup {Nobody}
           /\ \A i \in Taps : tap[i].who \in Attempts \cup {Nobody}
  BY DEF TypeOK, ViewModels, Disconnects

\* Every step keeps the types.
LEMMA TypeStep == IInv /\ [Next]_vars => TypeOK'
<1> SUFFICES ASSUME IInv, [Next]_vars PROVE TypeOK'
  OBVIOUS
<1> USE PhoneAssumption, ZeroIsNobody DEF IInv, TypeOK, session_, Fresh, ViewModels, Disconnects
<1>1. ASSUME Ask PROVE TypeOK'
  BY <1>1 DEF Ask
<1>2. ASSUME Begin PROVE TypeOK'
  <2>1. asked' \in 0 .. MaxAttempts /\ attempts' \in 0 .. MaxAttempts
    BY <1>2 DEF Begin
  <2>2. vm' \in ViewModels
    BY <1>2 DEF Begin
  <2> QED
    BY <1>2, <2>1, <2>2 DEF Begin
<1>3. ASSUME NEW a \in Attempts, Opened(a) PROVE TypeOK'
  BY <1>3 DEF Opened
<1>4. ASSUME NEW a \in Attempts, Stopped(a) PROVE TypeOK'
  BY <1>4 DEF Stopped
<1>5. ASSUME NEW a \in Attempts, HandshakeOk(a) PROVE TypeOK'
  BY <1>5 DEF HandshakeOk
<1>6. ASSUME NEW a \in Attempts, HandshakeFails(a) PROVE TypeOK'
  BY <1>6 DEF HandshakeFails
<1>7. ASSUME NEW a \in Attempts, Greeted(a) PROVE TypeOK'
  BY <1>7 DEF Greeted
<1>8. ASSUME NEW a \in Attempts, Attach(a) PROVE TypeOK'
  BY <1>8 DEF Attach
<1>9. ASSUME NEW a \in Attempts, Publish(a) PROVE TypeOK'
  BY <1>9 DEF Publish
<1>10. ASSUME NEW a \in Attempts, StartCamera(a) PROVE TypeOK'
  <2>1. CASE camera' = [camera EXCEPT ![a] = TRUE] /\ at' = [at EXCEPT ![a] = "started"]
    BY <1>10, <2>1 DEF StartCamera
  <2>2. CASE camera' = camera /\ at' = [at EXCEPT ![a] = "failing"]
    BY <1>10, <2>2 DEF StartCamera
  <2> QED
    BY <1>10, <2>1, <2>2 DEF StartCamera
<1>11. ASSUME NEW a \in Attempts, StartTelemetry(a) PROVE TypeOK'
  BY <1>11 DEF StartTelemetry
<1>12. ASSUME NEW a \in Attempts, EmitterStarts(a) PROVE TypeOK'
  BY <1>12 DEF EmitterStarts
<1>13. ASSUME NEW a \in Attempts, PeerLeaves(a) PROVE TypeOK'
  BY <1>13 DEF PeerLeaves
<1>14. ASSUME NEW i \in Taps, TapDisconnect(i) PROVE TypeOK'
  <2>1. overlap' \in [Attempts -> {"none", "late", "early"}]
    BY <1>14, DisconnectMarks DEF Marks, TapDisconnect
  <2>2. CASE vm.emitter = Nobody
    BY <1>14, <2>1, <2>2, TellsController DEF TapDisconnect
  <2>3. CASE vm.emitter # Nobody
    <3>1. [at |-> "emitter", who |-> vm.emitter] \in Disconnects
      OBVIOUS
    <3> QED
      BY <1>14, <2>1, <2>3, <3>1 DEF TapDisconnect
  <2> QED
    BY <2>2, <2>3
<1>15. ASSUME NEW i \in Taps, StopEmitter(i) PROVE TypeOK'
  <2>1. vm' \in ViewModels /\ tap' \in [Taps -> Disconnects]
    BY <1>15, TellsController DEF StopEmitter
  <2>2. emitter' \in [Attempts -> {"none", "starting", "on", "off"}]
    BY <1>15 DEF StopEmitter
  <2>3. overlap' \in [Attempts -> {"none", "late", "early"}]
    BY <1>15, StopMarks DEF Marks
  <2> QED
    BY <1>15, <2>1, <2>2, <2>3 DEF StopEmitter
<1>16. ASSUME NEW i \in Taps, SayBye(i) PROVE TypeOK'
  BY <1>16 DEF SayBye
<1>17. ASSUME NEW i \in Taps, Cancel(i) PROVE TypeOK'
  BY <1>17 DEF Cancel
<1>18. ASSUME NEW i \in Taps, Finish(i) PROVE TypeOK'
  <2>1. vm' \in ViewModels
    BY <1>18, FinishClears DEF Finish
  <2>2. overlap' \in [Attempts -> {"none", "late", "early"}]
    BY <1>18, DisconnectMarks DEF Marks, Finish
  <2>3. tap' \in [Taps -> Disconnects]
    BY <1>18 DEF Finish
  <2> QED
    BY <1>18, <2>1, <2>2, <2>3 DEF Finish
<1>19. CASE UNCHANGED vars
  BY <1>19 DEF vars
<1> QED
  BY <1>1, <1>2, <1>3, <1>4, <1>5, <1>6, <1>7, <1>8, <1>9, <1>10,
     <1>11, <1>12, <1>13, <1>14, <1>15, <1>16, <1>17, <1>18, <1>19 DEF Next, Attempt, Disconnect

\* Attempts are numbered in order.
LEMMA FreshStep == IInv /\ [Next]_vars => Fresh'
<1> SUFFICES ASSUME IInv, [Next]_vars PROVE Fresh'
  OBVIOUS
<1> USE PhoneAssumption, ZeroIsNobody DEF IInv, TypeOK, session_, Fresh, Attempts
<1>1. ASSUME Ask PROVE Fresh'
  BY <1>1 DEF Ask
<1>2. ASSUME Begin PROVE Fresh'
  BY <1>2 DEF Begin, InUse, Busy, Connecting
<1>3. ASSUME NEW a \in Attempts, Opened(a) PROVE Fresh'
  BY <1>3 DEF Opened
<1>4. ASSUME NEW a \in Attempts, Stopped(a) PROVE Fresh'
  BY <1>4 DEF Stopped
<1>5. ASSUME NEW a \in Attempts, HandshakeOk(a) PROVE Fresh'
  BY <1>5 DEF HandshakeOk
<1>6. ASSUME NEW a \in Attempts, HandshakeFails(a) PROVE Fresh'
  BY <1>6 DEF HandshakeFails
<1>7. ASSUME NEW a \in Attempts, Greeted(a) PROVE Fresh'
  BY <1>7 DEF Greeted
<1>8. ASSUME NEW a \in Attempts, Attach(a) PROVE Fresh'
  BY <1>8 DEF Attach
<1>9. ASSUME NEW a \in Attempts, Publish(a) PROVE Fresh'
  BY <1>9 DEF Publish
<1>10. ASSUME NEW a \in Attempts, StartCamera(a) PROVE Fresh'
  BY <1>10 DEF StartCamera
<1>11. ASSUME NEW a \in Attempts, StartTelemetry(a) PROVE Fresh'
  BY <1>11 DEF StartTelemetry
<1>12. ASSUME NEW a \in Attempts, EmitterStarts(a) PROVE Fresh'
  BY <1>12 DEF EmitterStarts
<1>13. ASSUME NEW a \in Attempts, PeerLeaves(a) PROVE Fresh'
  BY <1>13 DEF PeerLeaves
<1>14. ASSUME NEW i \in Taps, TapDisconnect(i) PROVE Fresh'
  BY <1>14, DisconnectMarks, TellsController DEF TapDisconnect, Tells, Clears, Marks
<1>15. ASSUME NEW i \in Taps, StopEmitter(i) PROVE Fresh'
  BY <1>15, StopMarks, TellsController DEF StopEmitter, Tells, Clears, Marks
<1>16. ASSUME NEW i \in Taps, SayBye(i) PROVE Fresh'
  BY <1>16 DEF SayBye
<1>17. ASSUME NEW i \in Taps, Cancel(i) PROVE Fresh'
  BY <1>17 DEF Cancel
<1>18. ASSUME NEW i \in Taps, Finish(i) PROVE Fresh'
  BY <1>18, DisconnectMarks, FinishClears DEF Finish, Clears, Marks
<1>19. CASE UNCHANGED vars
  BY <1>19 DEF vars
<1> QED
  BY <1>1, <1>2, <1>3, <1>4, <1>5, <1>6, <1>7, <1>8, <1>9, <1>10,
     <1>11, <1>12, <1>13, <1>14, <1>15, <1>16, <1>17, <1>18, <1>19 DEF Next, Attempt, Disconnect

\* Nothing of an attempt runs ahead of it.
LEMMA ReachedStep == IInv /\ [Next]_vars => Reached'
<1> SUFFICES ASSUME IInv, [Next]_vars PROVE Reached'
  OBVIOUS
<1> USE PhoneAssumption, ZeroIsNobody DEF IInv, TypeOK, session_, Fresh, Reached, Known,
        Attempts, Nobody
<1>1. ASSUME Ask PROVE Reached'
  BY <1>1 DEF Ask
<1>2. ASSUME Begin PROVE Reached'
  BY <1>2 DEF Begin, InUse, Busy, Connecting
<1>3. ASSUME NEW a \in Attempts, Opened(a) PROVE Reached'
  BY <1>3 DEF Opened
<1>4. ASSUME NEW a \in Attempts, Stopped(a) PROVE Reached'
  BY <1>4 DEF Stopped
<1>5. ASSUME NEW a \in Attempts, HandshakeOk(a) PROVE Reached'
  BY <1>5 DEF HandshakeOk
<1>6. ASSUME NEW a \in Attempts, HandshakeFails(a) PROVE Reached'
  BY <1>6 DEF HandshakeFails
<1>7. ASSUME NEW a \in Attempts, Greeted(a) PROVE Reached'
  BY <1>7 DEF Greeted
<1>8. ASSUME NEW a \in Attempts, Attach(a) PROVE Reached'
  BY <1>8 DEF Attach
<1>9. ASSUME NEW a \in Attempts, Publish(a) PROVE Reached'
  BY <1>9 DEF Publish
<1>10. ASSUME NEW a \in Attempts, StartCamera(a) PROVE Reached'
  BY <1>10 DEF StartCamera
<1>11. ASSUME NEW a \in Attempts, StartTelemetry(a) PROVE Reached'
  BY <1>11 DEF StartTelemetry
<1>12. ASSUME NEW a \in Attempts, EmitterStarts(a) PROVE Reached'
  BY <1>12 DEF EmitterStarts
<1>13. ASSUME NEW a \in Attempts, PeerLeaves(a) PROVE Reached'
  BY <1>13 DEF PeerLeaves
<1>14. ASSUME NEW i \in Taps, TapDisconnect(i) PROVE Reached'
  BY <1>14, DisconnectMarks, TellsController DEF TapDisconnect, Tells, Clears, Marks
<1>15. ASSUME NEW i \in Taps, StopEmitter(i) PROVE Reached'
  BY <1>15, StopMarks, TellsController DEF StopEmitter, Tells, Clears, Marks
<1>16. ASSUME NEW i \in Taps, SayBye(i) PROVE Reached'
  BY <1>16 DEF SayBye
<1>17. ASSUME NEW i \in Taps, Cancel(i) PROVE Reached'
  <2>1. tap[i].who \in Attempts /\ at[tap[i].who] \notin {"none", "opening"}
    BY <1>17 DEF Cancel, Active, Told, Disconnects
  <2>2. CASE attached[tap[i].who]
    BY <1>17, <2>1, <2>2 DEF Cancel
  <2>3. CASE ~attached[tap[i].who]
    BY <1>17, <2>1, <2>3 DEF Cancel
  <2> QED
    BY <2>2, <2>3
<1>18. ASSUME NEW i \in Taps, Finish(i) PROVE Reached'
  BY <1>18, DisconnectMarks, FinishClears DEF Finish, Clears, Marks
<1>19. CASE UNCHANGED vars
  BY <1>19 DEF vars
<1> QED
  BY <1>1, <1>2, <1>3, <1>4, <1>5, <1>6, <1>7, <1>8, <1>9, <1>10,
     <1>11, <1>12, <1>13, <1>14, <1>15, <1>16, <1>17, <1>18, <1>19 DEF Next, Attempt, Disconnect

\* A connect that begins marks itself and every attempt in use.
LEMMA ExclusiveStep == IInv /\ [Next]_vars => Exclusive'
<1> SUFFICES ASSUME IInv, [Next]_vars PROVE Exclusive'
  OBVIOUS
<1> USE PhoneAssumption, ZeroIsNobody DEF IInv, TypeOK, session_, Fresh, Reached, Exclusive,
        Known, InUse, Connecting, Attempts, Nobody
<1>1. ASSUME Ask PROVE Exclusive'
  BY <1>1 DEF Ask
<1>2. ASSUME Begin PROVE Exclusive'
  BY <1>2 DEF Begin, Busy
<1>3. ASSUME NEW a \in Attempts, Opened(a) PROVE Exclusive'
  BY <1>3 DEF Opened
<1>4. ASSUME NEW a \in Attempts, Stopped(a) PROVE Exclusive'
  BY <1>4 DEF Stopped
<1>5. ASSUME NEW a \in Attempts, HandshakeOk(a) PROVE Exclusive'
  BY <1>5 DEF HandshakeOk
<1>6. ASSUME NEW a \in Attempts, HandshakeFails(a) PROVE Exclusive'
  BY <1>6 DEF HandshakeFails
<1>7. ASSUME NEW a \in Attempts, Greeted(a) PROVE Exclusive'
  BY <1>7 DEF Greeted
<1>8. ASSUME NEW a \in Attempts, Attach(a) PROVE Exclusive'
  BY <1>8 DEF Attach
<1>9. ASSUME NEW a \in Attempts, Publish(a) PROVE Exclusive'
  BY <1>9 DEF Publish
<1>10. ASSUME NEW a \in Attempts, StartCamera(a) PROVE Exclusive'
  BY <1>10 DEF StartCamera
<1>11. ASSUME NEW a \in Attempts, StartTelemetry(a) PROVE Exclusive'
  BY <1>11 DEF StartTelemetry
<1>12. ASSUME NEW a \in Attempts, EmitterStarts(a) PROVE Exclusive'
  BY <1>12 DEF EmitterStarts
<1>13. ASSUME NEW a \in Attempts, PeerLeaves(a) PROVE Exclusive'
  BY <1>13 DEF PeerLeaves
<1>14. ASSUME NEW i \in Taps, TapDisconnect(i) PROVE Exclusive'
  <2> HIDE DEF TypeOK, Attempts
  <2>1. TapEffect(i)
    BY <1>14, TapDoes
  <2> USE Holds DEF TapEffect, Tells, Clears, Marks, Elsewhere
  <2>2. CASE vm.emitter = Nobody /\ Tells(i)
    BY <2>1, <2>2
  <2>3. CASE vm.emitter # Nobody
    BY <2>1, <2>3
  <2> QED
    BY <2>1, <2>2, <2>3
<1>15. ASSUME NEW i \in Taps, StopEmitter(i) PROVE Exclusive'
  <2> HIDE DEF TypeOK, Attempts
  <2>1. StopEffect(i)
    BY <1>15, StopDoes
  <2> USE Holds DEF StopEffect, Tells, Clears, Marks, Elsewhere
  <2> QED
    BY <2>1
<1>16. ASSUME NEW i \in Taps, SayBye(i) PROVE Exclusive'
  BY <1>16 DEF SayBye
<1>17. ASSUME NEW i \in Taps, Cancel(i) PROVE Exclusive'
  BY <1>17 DEF Cancel
<1>18. ASSUME NEW i \in Taps, Finish(i) PROVE Exclusive'
  <2> HIDE DEF TypeOK, Attempts
  <2>1. FinishEffect(i)
    BY <1>18, FinishDoes
  <2> USE Holds DEF FinishEffect, Clears, Marks, Elsewhere
  <2> QED
    BY <2>1
<1>19. CASE UNCHANGED vars
  BY <1>19 DEF vars
<1> QED
  BY <1>1, <1>2, <1>3, <1>4, <1>5, <1>6, <1>7, <1>8, <1>9, <1>10,
     <1>11, <1>12, <1>13, <1>14, <1>15, <1>16, <1>17, <1>18, <1>19 DEF Next, Attempt, Disconnect

\* The view model and the disconnects hold on to attempts that have a controller.
LEMMA KnownStep == IInv /\ [Next]_vars => Known'
<1> SUFFICES ASSUME IInv, [Next]_vars PROVE Known'
  OBVIOUS
<1> USE PhoneAssumption, ZeroIsNobody DEF IInv, TypeOK, session_, Known, Active, Told,
        ViewModels, Disconnects, Nobody
<1>1. ASSUME Ask PROVE Known'
  BY <1>1 DEF Ask
<1>2. ASSUME Begin PROVE Known'
  <2>1. \A b \in Attempts : at'[b] = IF b = attempts + 1 THEN "opening" ELSE at[b]
    BY <1>2 DEF Begin
  <2>2. vm'.controller = vm.controller /\ tap' = tap
    BY <1>2 DEF Begin
  <2>3. attempts + 1 \in Attempts => at[attempts + 1] = "none"
    BY DEF Fresh
  <2> QED
    BY <2>1, <2>2, <2>3
<1>3. ASSUME NEW a \in Attempts, Opened(a) PROVE Known'
  BY <1>3 DEF Opened
<1>4. ASSUME NEW a \in Attempts, Stopped(a) PROVE Known'
  BY <1>4 DEF Stopped
<1>5. ASSUME NEW a \in Attempts, HandshakeOk(a) PROVE Known'
  BY <1>5 DEF HandshakeOk
<1>6. ASSUME NEW a \in Attempts, HandshakeFails(a) PROVE Known'
  BY <1>6 DEF HandshakeFails
<1>7. ASSUME NEW a \in Attempts, Greeted(a) PROVE Known'
  BY <1>7 DEF Greeted
<1>8. ASSUME NEW a \in Attempts, Attach(a) PROVE Known'
  BY <1>8 DEF Attach
<1>9. ASSUME NEW a \in Attempts, Publish(a) PROVE Known'
  BY <1>9 DEF Publish
<1>10. ASSUME NEW a \in Attempts, StartCamera(a) PROVE Known'
  BY <1>10 DEF StartCamera
<1>11. ASSUME NEW a \in Attempts, StartTelemetry(a) PROVE Known'
  BY <1>11 DEF StartTelemetry
<1>12. ASSUME NEW a \in Attempts, EmitterStarts(a) PROVE Known'
  BY <1>12 DEF EmitterStarts
<1>13. ASSUME NEW a \in Attempts, PeerLeaves(a) PROVE Known'
  BY <1>13 DEF PeerLeaves
<1>14. ASSUME NEW i \in Taps, TapDisconnect(i) PROVE Known'
  <2> HIDE DEF TypeOK, ViewModels, Disconnects
  <2>1. TapEffect(i)
    BY <1>14, TapDoes
  <2> USE Holds DEF TapEffect, Tells, Clears, Marks, Elsewhere
  <2>2. CASE vm.emitter = Nobody /\ Tells(i)
    BY <2>1, <2>2
  <2>3. CASE vm.emitter # Nobody
    BY <2>1, <2>3
  <2> QED
    BY <2>1, <2>2, <2>3
<1>15. ASSUME NEW i \in Taps, StopEmitter(i) PROVE Known'
  <2> HIDE DEF TypeOK, ViewModels, Disconnects
  <2>1. StopEffect(i)
    BY <1>15, StopDoes
  <2> USE Holds DEF StopEffect, Tells, Clears, Marks, Elsewhere
  <2> QED
    BY <2>1
<1>16. ASSUME NEW i \in Taps, SayBye(i) PROVE Known'
  BY <1>16 DEF SayBye
<1>17. ASSUME NEW i \in Taps, Cancel(i) PROVE Known'
  BY <1>17 DEF Cancel
<1>18. ASSUME NEW i \in Taps, Finish(i) PROVE Known'
  <2> HIDE DEF TypeOK, ViewModels, Disconnects
  <2>1. FinishEffect(i)
    BY <1>18, FinishDoes
  <2> USE Holds DEF FinishEffect, Clears, Marks, Elsewhere
  <2> QED
    BY <2>1
<1>19. CASE UNCHANGED vars
  BY <1>19 DEF vars
<1> QED
  BY <1>1, <1>2, <1>3, <1>4, <1>5, <1>6, <1>7, <1>8, <1>9, <1>10,
     <1>11, <1>12, <1>13, <1>14, <1>15, <1>16, <1>17, <1>18, <1>19 DEF Next, Attempt, Disconnect

\* An attempt stays shown until a disconnect has closed its channels.
LEMMA ShownStep == IInv /\ [Next]_vars => Shown'
<1> SUFFICES ASSUME IInv, [Next]_vars PROVE Shown'
  OBVIOUS
<1> USE PhoneAssumption, ZeroIsNobody DEF IInv, TypeOK, session_, Reached, Exclusive, Known,
        Shown, Ended, Plain, InUse, Connecting, Active, Told, ViewModels, Disconnects, Nobody
<1>1. ASSUME Ask PROVE Shown'
  BY <1>1 DEF Ask
<1>2. ASSUME Begin PROVE Shown'
  BY <1>2 DEF Begin, Busy
<1>3. ASSUME NEW a \in Attempts, Opened(a) PROVE Shown'
  BY <1>3 DEF Opened
<1>4. ASSUME NEW a \in Attempts, Stopped(a) PROVE Shown'
  BY <1>4 DEF Stopped
<1>5. ASSUME NEW a \in Attempts, HandshakeOk(a) PROVE Shown'
  BY <1>5 DEF HandshakeOk
<1>6. ASSUME NEW a \in Attempts, HandshakeFails(a) PROVE Shown'
  BY <1>6 DEF HandshakeFails
<1>7. ASSUME NEW a \in Attempts, Greeted(a) PROVE Shown'
  BY <1>7 DEF Greeted
<1>8. ASSUME NEW a \in Attempts, Attach(a) PROVE Shown'
  BY <1>8 DEF Attach
<1>9. ASSUME NEW a \in Attempts, Publish(a) PROVE Shown'
  BY <1>9 DEF Publish
<1>10. ASSUME NEW a \in Attempts, StartCamera(a) PROVE Shown'
  BY <1>10 DEF StartCamera
<1>11. ASSUME NEW a \in Attempts, StartTelemetry(a) PROVE Shown'
  BY <1>11 DEF StartTelemetry
<1>12. ASSUME NEW a \in Attempts, EmitterStarts(a) PROVE Shown'
  BY <1>12 DEF EmitterStarts
<1>13. ASSUME NEW a \in Attempts, PeerLeaves(a) PROVE Shown'
  BY <1>13 DEF PeerLeaves
<1>14. ASSUME NEW i \in Taps, TapDisconnect(i) PROVE Shown'
  <2> HIDE DEF TypeOK, ViewModels, Disconnects
  <2>1. TapEffect(i)
    BY <1>14, TapDoes
  <2> USE Holds DEF TapEffect, Tells, Clears, Marks, Elsewhere
  <2>2. CASE vm.emitter = Nobody /\ Tells(i)
    BY <2>1, <2>2
  <2>3. CASE vm.emitter # Nobody
    BY <2>1, <2>3
  <2> QED
    BY <2>1, <2>2, <2>3
<1>15. ASSUME NEW i \in Taps, StopEmitter(i) PROVE Shown'
  <2> HIDE DEF TypeOK, ViewModels, Disconnects
  <2>1. StopEffect(i)
    BY <1>15, StopDoes
  <2> USE Holds DEF StopEffect, Tells, Clears, Marks, Elsewhere
  <2> QED
    BY <2>1
<1>16. ASSUME NEW i \in Taps, SayBye(i) PROVE Shown'
  BY <1>16 DEF SayBye
<1>17. ASSUME NEW i \in Taps, Cancel(i) PROVE Shown'
  BY <1>17 DEF Cancel
<1>18. ASSUME NEW i \in Taps, Finish(i) PROVE Shown'
  <2> HIDE DEF TypeOK, ViewModels, Disconnects
  <2>1. FinishEffect(i)
    BY <1>18, FinishDoes
  <2> USE Holds DEF FinishEffect, Clears, Marks, Elsewhere
  <2> QED
    BY <2>1
<1>19. CASE UNCHANGED vars
  BY <1>19 DEF vars
<1> QED
  BY <1>1, <1>2, <1>3, <1>4, <1>5, <1>6, <1>7, <1>8, <1>9, <1>10,
     <1>11, <1>12, <1>13, <1>14, <1>15, <1>16, <1>17, <1>18, <1>19 DEF Next, Attempt, Disconnect

\* A disconnect has marked what still opens and is about the session shown.
LEMMA EndedStep == IInv /\ [Next]_vars => Ended'
<1> SUFFICES ASSUME IInv, [Next]_vars PROVE Ended'
  OBVIOUS
<1> USE PhoneAssumption, ZeroIsNobody DEF IInv, TypeOK, session_, Reached, Exclusive, Known,
        Shown, Ended, Plain, InUse, Connecting, Active, Told, ViewModels, Disconnects, Nobody
<1>1. ASSUME Ask PROVE Ended'
  BY <1>1 DEF Ask
<1>2. ASSUME Begin PROVE Ended'
  BY <1>2 DEF Begin, Busy
<1>3. ASSUME NEW a \in Attempts, Opened(a) PROVE Ended'
  BY <1>3 DEF Opened
<1>4. ASSUME NEW a \in Attempts, Stopped(a) PROVE Ended'
  BY <1>4 DEF Stopped
<1>5. ASSUME NEW a \in Attempts, HandshakeOk(a) PROVE Ended'
  BY <1>5 DEF HandshakeOk
<1>6. ASSUME NEW a \in Attempts, HandshakeFails(a) PROVE Ended'
  BY <1>6 DEF HandshakeFails
<1>7. ASSUME NEW a \in Attempts, Greeted(a) PROVE Ended'
  BY <1>7 DEF Greeted
<1>8. ASSUME NEW a \in Attempts, Attach(a) PROVE Ended'
  BY <1>8 DEF Attach
<1>9. ASSUME NEW a \in Attempts, Publish(a) PROVE Ended'
  BY <1>9 DEF Publish
<1>10. ASSUME NEW a \in Attempts, StartCamera(a) PROVE Ended'
  BY <1>10 DEF StartCamera
<1>11. ASSUME NEW a \in Attempts, StartTelemetry(a) PROVE Ended'
  BY <1>11 DEF StartTelemetry
<1>12. ASSUME NEW a \in Attempts, EmitterStarts(a) PROVE Ended'
  BY <1>12 DEF EmitterStarts
<1>13. ASSUME NEW a \in Attempts, PeerLeaves(a) PROVE Ended'
  BY <1>13 DEF PeerLeaves
<1>14. ASSUME NEW i \in Taps, TapDisconnect(i) PROVE Ended'
  <2> HIDE DEF TypeOK, ViewModels, Disconnects
  <2>1. TapEffect(i)
    BY <1>14, TapDoes
  <2> USE Holds DEF TapEffect, Tells, Clears, Marks, Elsewhere
  <2>2. CASE vm.emitter = Nobody /\ Tells(i)
    BY <2>1, <2>2
  <2>3. CASE vm.emitter # Nobody
    BY <2>1, <2>3
  <2> QED
    BY <2>1, <2>2, <2>3
<1>15. ASSUME NEW i \in Taps, StopEmitter(i) PROVE Ended'
  <2> HIDE DEF TypeOK, ViewModels, Disconnects
  <2>1. StopEffect(i)
    BY <1>15, StopDoes
  <2> USE Holds DEF StopEffect, Tells, Clears, Marks, Elsewhere
  <2> QED
    BY <2>1
<1>16. ASSUME NEW i \in Taps, SayBye(i) PROVE Ended'
  BY <1>16 DEF SayBye
<1>17. ASSUME NEW i \in Taps, Cancel(i) PROVE Ended'
  BY <1>17 DEF Cancel
<1>18. ASSUME NEW i \in Taps, Finish(i) PROVE Ended'
  <2> HIDE DEF TypeOK, ViewModels, Disconnects
  <2>1. FinishEffect(i)
    BY <1>18, FinishDoes
  <2> USE Holds DEF FinishEffect, Clears, Marks, Elsewhere
  <2> QED
    BY <2>1
<1>19. CASE UNCHANGED vars
  BY <1>19 DEF vars
<1> QED
  BY <1>1, <1>2, <1>3, <1>4, <1>5, <1>6, <1>7, <1>8, <1>9, <1>10,
     <1>11, <1>12, <1>13, <1>14, <1>15, <1>16, <1>17, <1>18, <1>19 DEF Next, Attempt, Disconnect

\* An engine made after a disconnect is not started.
LEMMA EnginesStep == IInv /\ [Next]_vars => Engines'
<1> SUFFICES ASSUME IInv, [Next]_vars PROVE Engines'
  OBVIOUS
<1> USE PhoneAssumption, ZeroIsNobody DEF IInv, TypeOK, session_, Reached, Known, Shown, Ended,
        Engines, Plain, InUse, Connecting, Active, Told, ViewModels, Disconnects, Nobody
<1>1. ASSUME Ask PROVE Engines'
  BY <1>1 DEF Ask
<1>2. ASSUME Begin PROVE Engines'
  BY <1>2 DEF Begin, Busy
<1>3. ASSUME NEW a \in Attempts, Opened(a) PROVE Engines'
  BY <1>3 DEF Opened
<1>4. ASSUME NEW a \in Attempts, Stopped(a) PROVE Engines'
  BY <1>4 DEF Stopped
<1>5. ASSUME NEW a \in Attempts, HandshakeOk(a) PROVE Engines'
  BY <1>5 DEF HandshakeOk
<1>6. ASSUME NEW a \in Attempts, HandshakeFails(a) PROVE Engines'
  BY <1>6 DEF HandshakeFails
<1>7. ASSUME NEW a \in Attempts, Greeted(a) PROVE Engines'
  BY <1>7 DEF Greeted
<1>8. ASSUME NEW a \in Attempts, Attach(a) PROVE Engines'
  BY <1>8 DEF Attach
<1>9. ASSUME NEW a \in Attempts, Publish(a) PROVE Engines'
  BY <1>9 DEF Publish
<1>10. ASSUME NEW a \in Attempts, StartCamera(a) PROVE Engines'
  BY <1>10 DEF StartCamera
<1>11. ASSUME NEW a \in Attempts, StartTelemetry(a) PROVE Engines'
  BY <1>11 DEF StartTelemetry
<1>12. ASSUME NEW a \in Attempts, EmitterStarts(a) PROVE Engines'
  BY <1>12 DEF EmitterStarts
<1>13. ASSUME NEW a \in Attempts, PeerLeaves(a) PROVE Engines'
  BY <1>13 DEF PeerLeaves
<1>14. ASSUME NEW i \in Taps, TapDisconnect(i) PROVE Engines'
  <2> HIDE DEF TypeOK, ViewModels, Disconnects
  <2>1. TapEffect(i)
    BY <1>14, TapDoes
  <2> USE Holds DEF TapEffect, Tells, Clears, Marks, Elsewhere
  <2>2. CASE vm.emitter = Nobody /\ Tells(i)
    BY <2>1, <2>2
  <2>3. CASE vm.emitter # Nobody
    BY <2>1, <2>3
  <2> QED
    BY <2>1, <2>2, <2>3
<1>15. ASSUME NEW i \in Taps, StopEmitter(i) PROVE Engines'
  <2> HIDE DEF TypeOK, ViewModels, Disconnects
  <2>1. StopEffect(i)
    BY <1>15, StopDoes
  <2> USE Holds DEF StopEffect, Tells, Clears, Marks, Elsewhere
  <2> QED
    BY <2>1
<1>16. ASSUME NEW i \in Taps, SayBye(i) PROVE Engines'
  BY <1>16 DEF SayBye
<1>17. ASSUME NEW i \in Taps, Cancel(i) PROVE Engines'
  BY <1>17 DEF Cancel
<1>18. ASSUME NEW i \in Taps, Finish(i) PROVE Engines'
  <2> HIDE DEF TypeOK, ViewModels, Disconnects
  <2>1. FinishEffect(i)
    BY <1>18, FinishDoes
  <2> USE Holds DEF FinishEffect, Clears, Marks, Elsewhere
  <2> QED
    BY <2>1
<1>19. CASE UNCHANGED vars
  BY <1>19 DEF vars
<1> QED
  BY <1>1, <1>2, <1>3, <1>4, <1>5, <1>6, <1>7, <1>8, <1>9, <1>10,
     <1>11, <1>12, <1>13, <1>14, <1>15, <1>16, <1>17, <1>18, <1>19 DEF Next, Attempt, Disconnect

\* A disconnect stops the emitter of the attempt it ends.
LEMMA UndisturbedStep == IInv /\ [Next]_vars => Undisturbed'
<1> SUFFICES ASSUME IInv, [Next]_vars PROVE Undisturbed'
  OBVIOUS
<1> USE PhoneAssumption, ZeroIsNobody DEF IInv, TypeOK, session_, Fresh, Reached, Exclusive,
        Known, Undisturbed, InUse, Connecting, Active, Told, ViewModels, Disconnects, Nobody
<1>1. ASSUME Ask PROVE Undisturbed'
  BY <1>1 DEF Ask
<1>2. ASSUME Begin PROVE Undisturbed'
  BY <1>2 DEF Begin, Busy
<1>3. ASSUME NEW a \in Attempts, Opened(a) PROVE Undisturbed'
  BY <1>3 DEF Opened
<1>4. ASSUME NEW a \in Attempts, Stopped(a) PROVE Undisturbed'
  BY <1>4 DEF Stopped
<1>5. ASSUME NEW a \in Attempts, HandshakeOk(a) PROVE Undisturbed'
  BY <1>5 DEF HandshakeOk
<1>6. ASSUME NEW a \in Attempts, HandshakeFails(a) PROVE Undisturbed'
  BY <1>6 DEF HandshakeFails
<1>7. ASSUME NEW a \in Attempts, Greeted(a) PROVE Undisturbed'
  BY <1>7 DEF Greeted
<1>8. ASSUME NEW a \in Attempts, Attach(a) PROVE Undisturbed'
  BY <1>8 DEF Attach
<1>9. ASSUME NEW a \in Attempts, Publish(a) PROVE Undisturbed'
  BY <1>9 DEF Publish
<1>10. ASSUME NEW a \in Attempts, StartCamera(a) PROVE Undisturbed'
  BY <1>10 DEF StartCamera
<1>11. ASSUME NEW a \in Attempts, StartTelemetry(a) PROVE Undisturbed'
  <2>1. \A b \in Attempts : emitter'[b] = IF b = a THEN "starting" ELSE emitter[b]
    BY <1>11 DEF StartTelemetry
  <2>2. \A b \in Attempts : at'[b] = IF b = a THEN "done" ELSE at[b]
    BY <1>11 DEF StartTelemetry
  <2>3. vm'.emitter = a /\ vm'.payload = vm.payload /\ tap' = tap /\ chan' = chan
        /\ overlap' = overlap
    BY <1>11 DEF StartTelemetry
  <2>4. at[a] = "started"
    BY <1>11 DEF StartTelemetry
  <2> HIDE DEF ViewModels, Disconnects
  <2> QED
    BY <2>1, <2>2, <2>3, <2>4
<1>12. ASSUME NEW a \in Attempts, EmitterStarts(a) PROVE Undisturbed'
  BY <1>12 DEF EmitterStarts
<1>13. ASSUME NEW a \in Attempts, PeerLeaves(a) PROVE Undisturbed'
  BY <1>13 DEF PeerLeaves
<1>14. ASSUME NEW i \in Taps, TapDisconnect(i) PROVE Undisturbed'
  <2> HIDE DEF TypeOK, ViewModels, Disconnects
  <2>1. TapEffect(i)
    BY <1>14, TapDoes
  <2> USE Holds DEF TapEffect, Tells, Clears, Marks, Elsewhere
  <2>2. CASE vm.emitter = Nobody /\ Tells(i)
    BY <2>1, <2>2
  <2>3. CASE vm.emitter # Nobody
    BY <2>1, <2>3
  <2> QED
    BY <2>1, <2>2, <2>3
<1>15. ASSUME NEW i \in Taps, StopEmitter(i) PROVE Undisturbed'
  <2> HIDE DEF TypeOK, ViewModels, Disconnects
  <2>1. StopEffect(i)
    BY <1>15, StopDoes
  <2> USE Holds DEF StopEffect, Tells, Clears, Marks, Elsewhere
  <2> QED
    BY <2>1
<1>16. ASSUME NEW i \in Taps, SayBye(i) PROVE Undisturbed'
  BY <1>16 DEF SayBye
<1>17. ASSUME NEW i \in Taps, Cancel(i) PROVE Undisturbed'
  BY <1>17 DEF Cancel
<1>18. ASSUME NEW i \in Taps, Finish(i) PROVE Undisturbed'
  <2> HIDE DEF TypeOK, ViewModels, Disconnects
  <2>1. FinishEffect(i)
    BY <1>18, FinishDoes
  <2> USE Holds DEF FinishEffect, Clears, Marks, Elsewhere
  <2> QED
    BY <2>1
<1>19. CASE UNCHANGED vars
  BY <1>19 DEF vars
<1> QED
  BY <1>1, <1>2, <1>3, <1>4, <1>5, <1>6, <1>7, <1>8, <1>9, <1>10,
     <1>11, <1>12, <1>13, <1>14, <1>15, <1>16, <1>17, <1>18, <1>19 DEF Next, Attempt, Disconnect

\* The phone starts with nothing shown.
LEMMA InitIInv == Init => IInv
<1> SUFFICES ASSUME Init PROVE IInv
  OBVIOUS
<1> USE PhoneAssumption DEF Init, Attempts, Nobody
<1>1. vm \in ViewModels
  BY DEF IdleVm, ViewModels
<1>2. tap \in [Taps -> Disconnects]
  BY DEF NoTap, Disconnects
<1>3. TypeOK
  BY <1>1, <1>2 DEF TypeOK
<1>4. Fresh /\ Reached /\ Exclusive
  BY DEF Fresh, Reached, Exclusive, InUse, Connecting
<1>5. Known
  BY DEF Known, IdleVm, NoTap, Active, Told
<1>6. Shown /\ Engines
  BY DEF Shown, Engines, IdleVm
<1>7. Ended /\ Undisturbed
  BY DEF Ended, Undisturbed, NoTap, Active, Told, Connecting
<1> QED
  BY <1>3, <1>4, <1>5, <1>6, <1>7 DEF IInv

\* The invariant holds in every state of the phone.
THEOREM Invariance == Spec => []IInv
<1>1. IInv /\ [Next]_vars => IInv'
  BY TypeStep, FreshStep, ReachedStep, ExclusiveStep, KnownStep, ShownStep, EndedStep,
     EnginesStep, UndisturbedStep DEF IInv
<1> QED
  BY InitIInv, <1>1, PTL DEF Spec

\* ConnectViewModel and the attempts it starts are always well typed.
THEOREM TypeCorrect == Spec => []TypeOK
<1>1. IInv => TypeOK
  BY DEF IInv
<1> QED
  BY Invariance, <1>1, PTL

\* Whatever connects and taps interleave, an open session no other connect came between,
\* nor a disconnect while it opened its TCP connections, is the one ConnectViewModel has,
\* with its disconnect button shown.
THEOREM SessionsControlled == Spec => []SessionUnderControl
<1>1. IInv => SessionUnderControl
  BY DEF IInv, Shown, SessionUnderControl, Live
<1> QED
  BY Invariance, <1>1, PTL

\* Behind the QR scanner no such attempt's camera runs: disconnect stopped its engine, or
\* nothing holds on to the engine that connect made after it.
THEOREM CameraOff == Spec => []CameraOffAtRest
<1>1. ASSUME IInv, Rest, NEW a \in Attempts, Plain(a) PROVE ~CameraRuns(a)
  <2>1. ~vm.payload /\ ~Connecting(a) /\ \A i \in Taps : tap[i].at \in {"none", "done"}
    BY <1>1 DEF Rest
  <2>2. ~Live(a) /\ vm.controller # a
    BY <1>1, <2>1 DEF IInv, Shown, Live
  <2>3. ~Retained(a)
    BY <2>1, <2>2 DEF Retained
  <2>4. vm.engine = a => ~camera[a]
    BY <1>1, <2>1 DEF IInv, Engines
  <2> QED
    BY <2>3, <2>4 DEF CameraRuns
<1>2. IInv => CameraOffAtRest
  BY <1>1 DEF CameraOffAtRest
<1> QED
  BY Invariance, <1>2, PTL

\* Behind the QR scanner an emitter that still runs belongs to an attempt that a tap or
\* another connect disturbed.
THEOREM EmitterOff == Spec => []EmitterOffAtRest
<1>1. IInv => EmitterOffAtRest
  BY DEF IInv, Undisturbed, EmitterOffAtRest, Rest
<1> QED
  BY Invariance, <1>1, PTL
=============================================================================
