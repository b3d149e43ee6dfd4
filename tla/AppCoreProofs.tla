---------------------------- MODULE AppCoreProofs ----------------------------
(***************************************************************************)
(* Proofs about AppCore for any number of connections and any capacities,  *)
(* and about the PairingStore it keeps, for any calls, devices and keys.   *)
(***************************************************************************)
EXTENDS AppCore, PairingStore, TLAPS

-----------------------------------------------------------------------------
(* The inductive invariant.  A connection's control socket is forwarded and *)
(* served at most once, so a session is spawned only for a connection that  *)
(* has none (Order); the safety properties follow from that, each with the  *)
(* strengthening that the clones of the snapshot and the USB loop need.     *)

Serving(c) == loop.pc \in {"handshake", "accepted"} /\ loop.conn = c
Unserved(c) == phone[c] = "dialed" /\ sess[c] = "none" /\ ~Serving(c)
Authenticated(c) == phone[c] \in {"authed", "bound"}

ControlOnce ==
    LET ctl == backlog["control"] IN
    /\ \A i, j \in 1..Len(ctl) : ctl[i] = ctl[j] => i = j
    /\ \A i, j \in 1..Len(wifiq) : wifiq[i][1] = "control" /\ wifiq[i] = wifiq[j] => i = j
    /\ \A i \in 1..Len(ctl), j \in 1..Len(wifiq) : wifiq[j] # <<"control", ctl[i]>>
    /\ \A i \in 1..Len(ctl) : Unserved(ctl[i])
    /\ \A j \in 1..Len(wifiq) : wifiq[j][1] = "control" => Unserved(wifiq[j][2])

LoopServes ==
    /\ loop.pc = "handshake" => /\ loop.conn \in WifiConns
                                /\ phone[loop.conn] = "dialed" /\ sess[loop.conn] = "none"
    /\ loop.pc = "accepted" => /\ loop.conn \in WifiConns
                               /\ Authenticated(loop.conn) /\ sess[loop.conn] = "none"

\* A dial that waits in a channel, and what the consumer of start g does with the one
\* it has taken.
Waits(u) == phone[u] = "dialed" /\ sess[u] = "none" /\ \A h \in Starts : usb[h].conn # u
Serves(g) ==
    /\ usb[g].conn = None <=> usb[g].pc \in {"off", "recv", "aborted"}
    /\ usb[g].conn # None => sess[usb[g].conn] = "none"
    /\ usb[g].pc \in {"lookup", "handshake"} => phone[usb[g].conn] = "dialed"
    /\ usb[g].pc \notin {"off", "recv", "aborted", "lookup", "handshake"} =>
          Authenticated(usb[g].conn)

UsbOnce ==
    /\ \A g, h \in Starts : \A i \in 1..Len(usbq[g]), j \in 1..Len(usbq[h]) :
          usbq[g][i] = usbq[h][j] => g = h /\ i = j
    /\ \A g \in Starts : \A i \in 1..Len(usbq[g]) : Waits(usbq[g][i])
UsbServes ==
    /\ \A g \in Starts : Serves(g)
    /\ \A g, h \in Starts : usb[g].conn = usb[h].conn /\ usb[g].conn # None => g = h

SessionOrder ==
    \A c \in Conns :
       /\ sess[c] # "none" => Authenticated(c)
       /\ op[c] # None => sess[c] = IF op[c] = "ready" THEN "spawned" ELSE "running"

Order == ControlOnce /\ LoopServes /\ UsbOnce /\ UsbServes /\ SessionOrder

Alone(c) == \A d \in Conns \ {c} : NeverAuthenticated(d)
SoleSlots ==
    /\ \A c \in WifiConns : waiter[c] # "none" => Authenticated(c)
    /\ \A g \in Starts : usb[g].pc \in {"setCounter", "mediaHello"} /\ Alone(usb[g].conn) =>
                             outbound = usb[g].conn
    /\ \A c \in Conns :
          Alone(c) /\ sess[c] \in {"spawned", "running"} =>
             /\ outbound = c
             /\ c \in WifiConns /\ waiter[c] = "attached" => counter = c

Known(s) == /\ s.device # None => phone[s.device] # "off"
            /\ s.cameras # None => phone[s.cameras] # "off"
SoleShown ==
    /\ Known(snap)
    /\ \A c \in Conns : op[c] # None => Known(copy[c])
    /\ \A c \in Conns :
          (\A d \in Conns \ {c} : phone[d] = "off") =>
             /\ Running(c) => snap.state = ReadyState(c)
             /\ op[c] \notin {None, "ready"} => copy[c].state = ReadyState(c)

IInv == TypeOK /\ Order /\ ReadyHasSession /\ OutboundNotFinished /\ SoleSlots /\ SoleShown

-----------------------------------------------------------------------------
USE DEF Conns, Kinds, PhoneStates, LoopPCs, UsbPCs, WaiterStates, SessStates,
        AtRest, LoopTypes

\* What taking the head of a queue leaves.
LEMMA TailFacts ==
    ASSUME NEW S, NEW q \in Seq(S), q # <<>>
    PROVE  /\ Head(q) \in S
           /\ Tail(q) \in Seq(S)
           /\ Len(q) > 0
           /\ Len(Tail(q)) = Len(q) - 1
           /\ Head(q) = q[1]
           /\ \A i \in 1..Len(Tail(q)) : Tail(q)[i] = q[i + 1]
  OBVIOUS

\* What appending to a queue adds.
LEMMA AppendFacts ==
    ASSUME NEW S, NEW q \in Seq(S), NEW e \in S
    PROVE  /\ Append(q, e) \in Seq(S)
           /\ Len(Append(q, e)) = Len(q) + 1
           /\ Append(q, e)[Len(q) + 1] = e
           /\ \A i \in 1..Len(q) : Append(q, e)[i] = q[i]
  OBVIOUS

\* The listeners, the accept loop and the media waiters keep the types.
LEMMA WifiTypes == TypeOK /\ Wifi => TypeOK'
<1> SUFFICES ASSUME TypeOK, Wifi PROVE TypeOK'
  OBVIOUS
<1> USE DEF TypeOK, Snapshots, StateKinds, wifiVars, usbVars, sessVars, sharedVars
<1>1. ASSUME NEW k \in Kinds, Forward(k) PROVE TypeOK'
  <2>1. backlog[k] \in Seq(WifiConns) /\ Head(backlog[k]) \in WifiConns
        /\ Tail(backlog[k]) \in Seq(WifiConns)
    BY <1>1 DEF Forward
  <2>2. wifiq' \in Seq(Kinds \X WifiConns) /\ Len(wifiq') <= WifiCap
    BY <1>1, <2>1, CapAssumption DEF Forward
  <2>3. backlog' \in [Kinds -> Seq(WifiConns)]
    BY <1>1, <2>1 DEF Forward
  <2> QED
    BY <1>1, <2>2, <2>3 DEF Forward
<1>2. ASSUME NEW k \in Kinds, ListenerExits(k) PROVE TypeOK'
  BY <1>2 DEF ListenerExits
<1>3. ASSUME NEW c \in WifiConns, TakeControl(c) PROVE TypeOK'
  <2>1. wifiq' \in Seq(Kinds \X WifiConns) /\ Len(wifiq') <= WifiCap
    BY <1>3, CapAssumption, TailFacts DEF TakeControl
  <2> QED
    BY <1>3, <2>1 DEF TakeControl
<1>4. ASSUME NEW c \in WifiConns, HandshakeOk(c) PROVE TypeOK'
  <2>1. phone' \in [Conns -> PhoneStates] /\ loop' \in LoopTypes(LoopPCs, WifiConns)
    BY <1>4 DEF HandshakeOk
  <2> QED
    BY <1>4, <2>1 DEF HandshakeOk
<1>5. ASSUME NEW c \in WifiConns, HandshakeFails(c) PROVE TypeOK'
  BY <1>5 DEF HandshakeFails
<1>6. ASSUME NEW c \in WifiConns, Register(c) PROVE TypeOK'
  BY <1>6 DEF Register
<1>7. ASSUME NEW c \in WifiConns, TakeMedia(c) PROVE TypeOK'
  <2>1. wifiq' \in Seq(Kinds \X WifiConns) /\ Len(wifiq') <= WifiCap
    BY <1>7, CapAssumption, TailFacts DEF TakeMedia
  <2> QED
    BY <1>7, <2>1 DEF TakeMedia
<1>8. ASSUME NEW c \in WifiConns, MediaHelloOk(c) PROVE TypeOK'
  BY <1>8 DEF MediaHelloOk
<1>9. ASSUME NEW c \in WifiConns, MediaHelloFails(c) PROVE TypeOK'
  BY <1>9 DEF MediaHelloFails
<1>10. ASSUME NEW c \in WifiConns, AttachMedia(c) PROVE TypeOK'
  BY <1>10 DEF AttachMedia
<1> QED
  BY <1>1, <1>2, <1>3, <1>4, <1>5, <1>6, <1>7, <1>8, <1>9, <1>10 DEF Wifi

\* What phones and networks do keeps the types.
LEMMA PhoneTypes == TypeOK /\ Phone => TypeOK'
<1> SUFFICES ASSUME TypeOK, Phone PROVE TypeOK'
  OBVIOUS
<1> USE DEF TypeOK, wifiVars, usbVars, sessVars, sharedVars
<1>1. ASSUME NEW c \in WifiConns, Dial(c) PROVE TypeOK'
  <2>1. \A k \in Kinds : Append(backlog[k], c) \in Seq(WifiConns)
    BY AppendFacts
  <2>2. backlog' \in [Kinds -> Seq(WifiConns)]
    BY <1>1, <2>1 DEF Dial
  <2> QED
    BY <1>1, <2>2 DEF Dial
<1>2. ASSUME NEW c \in Conns, SendMediaHello(c) PROVE TypeOK'
  BY <1>2 DEF SendMediaHello
<1> QED
  BY <1>1, <1>2 DEF Phone

\* Both halves of a snapshot update, and the cleanup, keep the types.
LEMMA SessionTypes == TypeOK /\ Session => TypeOK'
<1> SUFFICES ASSUME TypeOK, Session PROVE TypeOK'
  OBVIOUS
<1> USE DEF TypeOK, wifiVars, usbVars, sessVars, sharedVars
<1>1. ASSUME NEW c \in Conns, NEW o \in Ops, BeginUpdate(c, o) PROVE TypeOK'
  BY <1>1 DEF BeginUpdate
<1>2. ASSUME NEW c \in Conns, FinishUpdate(c) PROVE TypeOK'
  <2>1. op[c] \in Ops /\ copy[c] \in Snapshots
    BY <1>2 DEF FinishUpdate
  <2>2. snap' \in Snapshots
    <3>1. ReadyState(c) \in StateKinds
      BY DEF ReadyState, StateKinds
    <3>2. op[c] \in {"ready", "device", "cameras", "telemetry", "reconnecting", "closed"}
      BY <2>1, MessagesAssumption DEF Ops
    <3>3. Apply(op[c], c, copy[c]) \in Snapshots
      BY <2>1, <3>1, <3>2 DEF Apply, Snapshots, StateKinds
    <3> QED
      BY <1>2, <3>3 DEF FinishUpdate
  <2>3. AfterUpdate(op[c]) \in SessStates
    BY DEF AfterUpdate
  <2> QED
    BY <1>2, <2>2, <2>3 DEF FinishUpdate
<1>3. ASSUME NEW c \in Conns, ClearOutbound(c) PROVE TypeOK'
  BY <1>3 DEF ClearOutbound
<1>4. ASSUME NEW c \in Conns, ClearCounter(c) PROVE TypeOK'
  BY <1>4 DEF ClearCounter
<1> QED
  BY <1>1, <1>2, <1>3, <1>4 DEF Session

\* The USB supervisor and consumer keep the types.
LEMMA UsbTypes == TypeOK /\ Usb => TypeOK'
<1> SUFFICES ASSUME TypeOK, Usb PROVE TypeOK'
  OBVIOUS
<1> USE DEF TypeOK, wifiVars, usbVars, sessVars, sharedVars
<1>1. ASSUME NEW g \in Starts, NEW u \in UsbConns, UsbDial(g, u) PROVE TypeOK'
  <2>1. usbq[g] \in Seq(UsbConns) /\ Len(usbq[g]) <= UsbCap
    OBVIOUS
  <2>2. usbq'[g] \in Seq(UsbConns) /\ Len(usbq'[g]) <= UsbCap
    BY <1>1, <2>1, CapAssumption, AppendFacts DEF UsbDial
  <2>3. usbq' \in [Starts -> Seq(UsbConns)] /\ \A h \in Starts : Len(usbq'[h]) <= UsbCap
    BY <1>1, <2>2 DEF UsbDial
  <2> QED
    BY <1>1, <2>3 DEF UsbDial
<1>2. ASSUME NEW g \in Starts, NEW u \in UsbConns, UsbTake(g, u) PROVE TypeOK'
  <2>1. usbq[g] \in Seq(UsbConns) /\ Len(usbq[g]) <= UsbCap
    OBVIOUS
  <2>2. usbq'[g] \in Seq(UsbConns) /\ Len(usbq'[g]) <= UsbCap
    BY <1>2, <2>1, CapAssumption, TailFacts DEF UsbTake
  <2>3. usbq' \in [Starts -> Seq(UsbConns)] /\ \A h \in Starts : Len(usbq'[h]) <= UsbCap
    BY <1>2, <2>2 DEF UsbTake
  <2> QED
    BY <1>2, <2>3 DEF UsbTake, Snapshots, StateKinds
<1>3. ASSUME NEW g \in Starts, NEW u \in UsbConns, UsbKeyFound(g, u) PROVE TypeOK'
  <2>1. usb' \in [Starts -> LoopTypes(UsbPCs, UsbConns)]
    BY <1>3 DEF UsbKeyFound
  <2> QED
    BY <1>3, <2>1 DEF UsbKeyFound
<1>4. ASSUME NEW g \in Starts, NEW u \in UsbConns, UsbNoKey(g, u) PROVE TypeOK'
  BY <1>4 DEF UsbNoKey, Snapshots, StateKinds
<1>5. ASSUME NEW g \in Starts, NEW u \in UsbConns, UsbStoreError(g, u) PROVE TypeOK'
  BY <1>5 DEF UsbStoreError
<1>6. ASSUME NEW g \in Starts, NEW u \in UsbConns, UsbHandshakeFails(g, u) PROVE TypeOK'
  BY <1>6 DEF UsbHandshakeFails, Snapshots, StateKinds
<1>7. ASSUME NEW g \in Starts, NEW u \in UsbConns, UsbHandshakeOk(g, u) PROVE TypeOK'
  <2>1. phone' \in [Conns -> PhoneStates] /\ usb' \in [Starts -> LoopTypes(UsbPCs, UsbConns)]
    BY <1>7 DEF UsbHandshakeOk
  <2> QED
    BY <1>7, <2>1 DEF UsbHandshakeOk
<1>8. ASSUME NEW g \in Starts, NEW u \in UsbConns, UsbSetOutbound(g, u) PROVE TypeOK'
  <2>1. usb' \in [Starts -> LoopTypes(UsbPCs, UsbConns)]
    BY <1>8 DEF UsbSetOutbound
  <2> QED
    BY <1>8, <2>1 DEF UsbSetOutbound
<1>9. ASSUME NEW g \in Starts, NEW u \in UsbConns, UsbSetCounter(g, u) PROVE TypeOK'
  <2>1. usb' \in [Starts -> LoopTypes(UsbPCs, UsbConns)]
    BY <1>9 DEF UsbSetCounter
  <2> QED
    BY <1>9, <2>1 DEF UsbSetCounter
<1>10. ASSUME NEW g \in Starts, NEW u \in UsbConns, UsbMediaHelloOk(g, u) PROVE TypeOK'
  BY <1>10 DEF UsbMediaHelloOk
<1>11. ASSUME NEW g \in Starts, NEW u \in UsbConns, UsbMediaHelloFails(g, u) PROVE TypeOK'
  <2>1. usb' \in [Starts -> LoopTypes(UsbPCs, UsbConns)]
    BY <1>11 DEF UsbMediaHelloFails
  <2> QED
    BY <1>11, <2>1 DEF UsbMediaHelloFails
<1>12. ASSUME NEW g \in Starts, NEW u \in UsbConns, UsbUnsetCounter(g, u) PROVE TypeOK'
  <2>1. usb' \in [Starts -> LoopTypes(UsbPCs, UsbConns)]
    BY <1>12 DEF UsbUnsetCounter
  <2> QED
    BY <1>12, <2>1 DEF UsbUnsetCounter
<1>13. ASSUME NEW g \in Starts, NEW u \in UsbConns, UsbUnsetOutbound(g, u) PROVE TypeOK'
  BY <1>13 DEF UsbUnsetOutbound
<1> QED
  BY <1>1, <1>2, <1>3, <1>4, <1>5, <1>6, <1>7, <1>8, <1>9, <1>10, <1>11, <1>12, <1>13
     DEF Usb

\* Starting the USB side and shutting down keep the types.
LEMMA AppTypes == TypeOK /\ App => TypeOK'
<1> SUFFICES ASSUME TypeOK, App PROVE TypeOK'
  OBVIOUS
<1> USE DEF TypeOK, wifiVars, usbVars, sessVars, sharedVars
<1>1. ASSUME NEW g \in Starts, StartUsbSupervisor(g) PROVE TypeOK'
  BY <1>1 DEF StartUsbSupervisor
<1>0. ASSUME NEW g, Abort(g)
      PROVE  /\ usb' \in [Starts -> LoopTypes(UsbPCs, UsbConns)]
             /\ usbq' \in [Starts -> Seq(UsbConns)]
             /\ \A h \in Starts : Len(usbq'[h]) <= UsbCap
  BY <1>0, CapAssumption DEF Abort
<1>2. ASSUME NEW g \in Starts, StoreConsumer(g) PROVE TypeOK'
  <2>1. Abort(consumer)
    BY <1>2 DEF StoreConsumer
  <2> QED
    BY <1>0, <1>2, <2>1 DEF StoreConsumer
<1>3. CASE Shutdown
  <2>1. /\ usb' \in [Starts -> LoopTypes(UsbPCs, UsbConns)]
        /\ usbq' \in [Starts -> Seq(UsbConns)]
        /\ \A h \in Starts : Len(usbq'[h]) <= UsbCap
        /\ consumer' \in Starts \cup {None}
    BY <1>0, <1>3 DEF Shutdown
  <2> QED
    BY <1>3, <2>1, CapAssumption DEF Shutdown
<1> QED
  BY <1>1, <1>2, <1>3 DEF App

\* The types hold when AppCore::start returns.
LEMMA InitTypes == Init => TypeOK
<1> SUFFICES ASSUME Init PROVE TypeOK
  OBVIOUS
<1> USE DEF Init
<1>1. /\ phone \in [Conns -> PhoneStates]
      /\ waiter \in [WifiConns -> WaiterStates] /\ sess \in [Conns -> SessStates]
      /\ op \in [Conns -> Ops \cup {None}] /\ copy \in [Conns -> Snapshots \cup {None}]
      /\ \A c \in Conns : op[c] # None => copy[c] \in Snapshots
  OBVIOUS
<1>2. /\ backlog \in [Kinds -> Seq(WifiConns)] /\ listening \in SUBSET Kinds
      /\ wifiq \in Seq(Kinds \X WifiConns) /\ usbq \in [Starts -> Seq(UsbConns)]
      /\ Len(wifiq) <= WifiCap /\ \A g \in Starts : Len(usbq[g]) <= UsbCap
  BY CapAssumption
<1>3. snap \in Snapshots
  BY DEF InitSnap, Snapshots, StateKinds
<1>4. /\ loop \in LoopTypes(LoopPCs, WifiConns) /\ usb \in [Starts -> LoopTypes(UsbPCs, UsbConns)]
      /\ starting \in SUBSET Starts /\ consumer \in Starts \cup {None}
      /\ pending \in SUBSET WifiConns /\ outbound \in Conns \cup {None}
      /\ counter \in Conns \cup {None} /\ stopped \in BOOLEAN
  OBVIOUS
<1> QED
  BY <1>1, <1>2, <1>3, <1>4 DEF TypeOK

\* TypeOK is inductive by itself.
LEMMA TypeStep == TypeOK /\ [Next]_vars => TypeOK'
<1> SUFFICES ASSUME TypeOK, [Next]_vars PROVE TypeOK'
  OBVIOUS
<1>1. CASE UNCHANGED vars
  BY <1>1 DEF TypeOK, vars, wifiVars, usbVars, sessVars, sharedVars
<1> QED
  BY <1>1, WifiTypes, PhoneTypes, SessionTypes, UsbTypes, AppTypes DEF Next

\* Every reachable state is well typed, for any sets of connections and any
\* channel capacities: the loops, slots and queues of lib.rs never hold anything
\* but what the code puts there.
THEOREM TypeCorrect == Spec => []TypeOK
  BY InitTypes, TypeStep, PTL DEF Spec

-----------------------------------------------------------------------------
\* A step that leaves the queues alone and serves nobody keeps ControlOnce.
LEMMA KeepsUnserved ==
    ASSUME TypeOK, ControlOnce, UNCHANGED <<backlog, wifiq>>,
           \A x \in WifiConns : Unserved(x) => Unserved(x)'
    PROVE  ControlOnce'
<1>1. \A i \in 1..Len(backlog["control"]) : backlog["control"][i] \in WifiConns
  BY DEF TypeOK
<1>2. \A j \in 1..Len(wifiq) : wifiq[j][2] \in WifiConns
  BY DEF TypeOK
<1> QED
  BY <1>1, <1>2 DEF ControlOnce

\* A control socket waits at one place only, until it is served.
LEMMA ControlOnceStep == TypeOK /\ Order /\ [Next]_vars => ControlOnce'
<1> SUFFICES ASSUME TypeOK, Order, [Next]_vars PROVE ControlOnce'
  OBVIOUS
<1> USE DEF wifiVars, usbVars, sessVars, sharedVars
<1>1. CASE UNCHANGED <<phone, backlog, wifiq, loop, sess>>
  BY <1>1, KeepsUnserved DEF Unserved, Serving, Order
<1>2. ASSUME NEW c \in WifiConns, Dial(c) PROVE ControlOnce'
  <2> DEFINE ctl == backlog["control"]
  <2>1. ctl \in Seq(WifiConns) /\ wifiq \in Seq(Kinds \X WifiConns)
    BY DEF TypeOK
  <2>2. ctl' = ctl \/ ctl' = Append(ctl, c)
    BY <1>2 DEF Dial
  <2>3. phone[c] = "off" /\ phone' = [phone EXCEPT ![c] = "dialed"]
        /\ UNCHANGED <<wifiq, loop, sess>>
    BY <1>2 DEF Dial
  <2>4. \A x \in WifiConns : Unserved(x) => Unserved(x)' /\ x # c
    BY <2>3 DEF Unserved, Serving, TypeOK
  <2>5. Unserved(c)'
    BY <2>3 DEF Unserved, Serving, TypeOK, Order, SessionOrder, LoopServes, Authenticated
  <2>6. /\ \A i \in 1..Len(ctl) : ctl[i] \in WifiConns /\ Unserved(ctl[i])
        /\ \A j \in 1..Len(wifiq) : wifiq[j] \in Kinds \X WifiConns
    BY <2>1 DEF Order, ControlOnce
  <2>9. \A j \in 1..Len(wifiq) :
           wifiq[j][1] = "control" => wifiq[j][2] \in WifiConns /\ Unserved(wifiq[j][2])
    BY <2>6 DEF Order, ControlOnce
  <2>7. CASE ctl' = ctl
    BY <2>3, <2>4, <2>6, <2>7, <2>9 DEF Order, ControlOnce
  <2>8. CASE ctl' = Append(ctl, c)
    <3>1. /\ Len(ctl') = Len(ctl) + 1 /\ ctl'[Len(ctl) + 1] = c
          /\ \A i \in 1..Len(ctl) : ctl'[i] = ctl[i]
      BY <2>1, <2>8, AppendFacts
    <3>2. \A i \in 1..Len(ctl') : i = Len(ctl) + 1 \/ i \in 1..Len(ctl)
      BY <2>1, <3>1
    <3>3. \A i \in 1..Len(ctl) : ctl[i] # c
      BY <2>4, <2>6
    <3>4. \A i, j \in 1..Len(ctl') : ctl'[i] = ctl'[j] => i = j
      BY <3>1, <3>2, <3>3 DEF Order, ControlOnce
    <3>5. \A i \in 1..Len(ctl') : Unserved(ctl[i])' 
      BY <3>1, <3>2, <2>4, <2>5, <2>6
    <3>6. \A j \in 1..Len(wifiq) : wifiq[j][1] = "control" =>
                                   wifiq[j][2] # c /\ Unserved(wifiq[j][2])'
      BY <2>3, <2>4, <2>9
    <3>7. \A i \in 1..Len(ctl'), j \in 1..Len(wifiq) : wifiq[j] # <<"control", ctl'[i]>>
      <4>1. \A i \in 1..Len(ctl), j \in 1..Len(wifiq) : wifiq[j] # <<"control", ctl[i]>>
        BY DEF Order, ControlOnce
      <4>2. \A j \in 1..Len(wifiq) : wifiq[j] # <<"control", c>>
        BY <3>6
      <4> SUFFICES ASSUME NEW i \in 1..Len(ctl'), NEW j \in 1..Len(wifiq)
                   PROVE  wifiq[j] # <<"control", ctl'[i]>>
        OBVIOUS
      <4>3. CASE i = Len(ctl) + 1
        BY <4>2, <4>3, <3>1
      <4>4. CASE i \in 1..Len(ctl)
        BY <4>1, <4>4, <3>1
      <4> QED
        BY <3>2, <4>3, <4>4
    <3> QED
      BY <2>3, <3>4, <3>5, <3>6, <3>7 DEF Order, ControlOnce
  <2> QED
    BY <2>2, <2>7, <2>8
<1>3. ASSUME NEW c \in WifiConns, TakeControl(c) PROVE ControlOnce'
  <2>1. /\ wifiq \in Seq(Kinds \X WifiConns) /\ wifiq # <<>> /\ wifiq' = Tail(wifiq)
        /\ Head(wifiq) = <<"control", c>> /\ loop.pc = "recv"
        /\ loop' = [pc |-> "handshake", conn |-> c] /\ UNCHANGED <<phone, sess, backlog>>
    BY <1>3 DEF TakeControl, TypeOK
  <2>2. /\ Len(wifiq) > 0 /\ Len(wifiq') = Len(wifiq) - 1 /\ wifiq[1] = <<"control", c>>
        /\ \A i \in 1..Len(wifiq') : wifiq'[i] = wifiq[i + 1]
    BY <2>1, TailFacts
  <2>3. \A i \in 1..Len(wifiq') : i + 1 \in 1..Len(wifiq) /\ i + 1 # 1
    BY <2>1, <2>2
  <2>4. \A x \in WifiConns : Unserved(x) /\ x # c => Unserved(x)'
    BY <2>1 DEF Unserved, Serving
  <2>12. \A i, j \in 1..Len(wifiq) : wifiq[i][1] = "control" /\ wifiq[i] = wifiq[j] => i = j
    BY DEF Order, ControlOnce
  <2>13. \A i \in 1..Len(backlog["control"]), j \in 1..Len(wifiq) :
            wifiq[j] # <<"control", backlog["control"][i]>>
    BY DEF Order, ControlOnce
  <2>14. 1 \in 1..Len(wifiq) /\ wifiq[1][1] = "control"
    BY <2>1, <2>2
  <2>5. \A i \in 1..Len(wifiq') : wifiq'[i] # <<"control", c>>
    <3> SUFFICES ASSUME NEW i \in 1..Len(wifiq'), wifiq'[i] = <<"control", c>>
                 PROVE  FALSE
      OBVIOUS
    <3>1. wifiq[1] = wifiq[i + 1]
      BY <2>2
    <3> QED
      BY <2>3, <2>12, <2>14, <3>1
  <2>6. \A i \in 1..Len(backlog["control"]) : backlog["control"][i] # c
    BY <2>2, <2>13, <2>14
  <2>7. \A i \in 1..Len(backlog["control"]) : Unserved(backlog["control"][i])'
    <3>1. \A i \in 1..Len(backlog["control"]) :
             backlog["control"][i] \in WifiConns /\ Unserved(backlog["control"][i])
      BY DEF Order, ControlOnce, TypeOK
    <3> QED
      BY <2>1, <2>4, <2>6, <3>1
  <2>8. \A j \in 1..Len(wifiq') : wifiq'[j] \in Kinds \X WifiConns
    BY <2>1, <2>2, <2>3
  <2>9. \A j \in 1..Len(wifiq') : wifiq'[j][1] = "control" => Unserved(wifiq[j][2])'
    BY <2>2, <2>3, <2>4, <2>5, <2>8 DEF Order, ControlOnce
  <2>10. \A i, j \in 1..Len(wifiq') : wifiq'[i][1] = "control" /\ wifiq'[i] = wifiq'[j] => i = j
    <3> SUFFICES ASSUME NEW i \in 1..Len(wifiq'), NEW j \in 1..Len(wifiq'),
                        wifiq'[i][1] = "control", wifiq'[i] = wifiq'[j]
                 PROVE  i = j
      OBVIOUS
    <3>1. wifiq[i + 1][1] = "control" /\ wifiq[i + 1] = wifiq[j + 1]
      BY <2>2
    <3>2. i + 1 = j + 1
      BY <2>3, <2>12, <3>1
    <3> QED
      BY <3>2
  <2>11. \A i \in 1..Len(backlog["control"]), j \in 1..Len(wifiq') :
            wifiq'[j] # <<"control", backlog["control"][i]>>
    BY <2>2, <2>3, <2>13
  <2> QED
    BY <2>1, <2>7, <2>9, <2>10, <2>11 DEF Order, ControlOnce
<1>4. ASSUME NEW c \in WifiConns, HandshakeOk(c) PROVE ControlOnce'
  <2>1. \A x \in WifiConns : Unserved(x) => Unserved(x)'
    BY <1>4 DEF HandshakeOk, Unserved, Serving, TypeOK
  <2>2. UNCHANGED <<backlog, wifiq>>
    BY <1>4 DEF HandshakeOk
  <2> QED
    BY <2>1, <2>2, KeepsUnserved DEF Order
<1>5. ASSUME NEW c \in WifiConns, HandshakeFails(c) PROVE ControlOnce'
  <2>1. \A x \in WifiConns : Unserved(x) => Unserved(x)'
    BY <1>5 DEF HandshakeFails, Unserved, Serving, TypeOK
  <2>2. UNCHANGED <<backlog, wifiq>>
    BY <1>5 DEF HandshakeFails
  <2> QED
    BY <2>1, <2>2, KeepsUnserved DEF Order
<1>6. ASSUME NEW c \in WifiConns, Register(c) PROVE ControlOnce'
  <2>1. \A x \in WifiConns : Unserved(x) => Unserved(x)'
    BY <1>6 DEF Register, Unserved, Serving, TypeOK
  <2>2. UNCHANGED <<backlog, wifiq>>
    BY <1>6 DEF Register
  <2> QED
    BY <2>1, <2>2, KeepsUnserved DEF Order
<1>7. ASSUME NEW c \in WifiConns, TakeMedia(c) PROVE ControlOnce'
  BY <1>7 DEF TakeMedia, ControlOnce, Unserved, Serving, TypeOK, Order
<1>8. ASSUME NEW c \in WifiConns, MediaHelloOk(c) PROVE ControlOnce'
  <2>1. \A x \in WifiConns : Unserved(x) => Unserved(x)'
    BY <1>8 DEF MediaHelloOk, Unserved, Serving, TypeOK
  <2>2. UNCHANGED <<backlog, wifiq>>
    BY <1>8 DEF MediaHelloOk
  <2> QED
    BY <2>1, <2>2, KeepsUnserved DEF Order
<1>9. ASSUME NEW c \in WifiConns, MediaHelloFails(c) PROVE ControlOnce'
  <2>1. \A x \in WifiConns : Unserved(x) => Unserved(x)'
    BY <1>9 DEF MediaHelloFails, Unserved, Serving, TypeOK
  <2>2. UNCHANGED <<backlog, wifiq>>
    BY <1>9 DEF MediaHelloFails
  <2> QED
    BY <2>1, <2>2, KeepsUnserved DEF Order
<1>10. ASSUME NEW c \in Conns, SendMediaHello(c) PROVE ControlOnce'
  <2>1. \A x \in WifiConns : Unserved(x) => Unserved(x)'
    BY <1>10 DEF SendMediaHello, Unserved, Serving, TypeOK
  <2>2. UNCHANGED <<backlog, wifiq>>
    BY <1>10 DEF SendMediaHello
  <2> QED
    BY <2>1, <2>2, KeepsUnserved DEF Order
<1>11. ASSUME NEW c \in Conns, FinishUpdate(c) PROVE ControlOnce'
  <2>1. sess[c] # "none"
    BY <1>11 DEF FinishUpdate, Order, SessionOrder
  <2>2. \A x \in WifiConns : Unserved(x) => Unserved(x)'
    BY <1>11, <2>1 DEF FinishUpdate, Unserved, Serving, TypeOK
  <2>3. UNCHANGED <<backlog, wifiq>>
    BY <1>11 DEF FinishUpdate
  <2> QED
    BY <2>2, <2>3, KeepsUnserved DEF Order
<1>12. ASSUME NEW c \in Conns, ClearOutbound(c) PROVE ControlOnce'
  <2>1. \A x \in WifiConns : Unserved(x) => Unserved(x)'
    BY <1>12 DEF ClearOutbound, Unserved, Serving, TypeOK
  <2>2. UNCHANGED <<backlog, wifiq>>
    BY <1>12 DEF ClearOutbound
  <2> QED
    BY <2>1, <2>2, KeepsUnserved DEF Order
<1>13. ASSUME NEW c \in Conns, ClearCounter(c) PROVE ControlOnce'
  <2>1. \A x \in WifiConns : Unserved(x) => Unserved(x)'
    BY <1>13 DEF ClearCounter, Unserved, Serving, TypeOK
  <2>2. UNCHANGED <<backlog, wifiq>>
    BY <1>13 DEF ClearCounter
  <2> QED
    BY <2>1, <2>2, KeepsUnserved DEF Order
<1>14. ASSUME NEW k \in Kinds, Forward(k) PROVE ControlOnce'
  <2> DEFINE ctl == backlog["control"]
             e == <<k, Head(backlog[k])>>
  <2>1. /\ wifiq \in Seq(Kinds \X WifiConns) /\ backlog[k] \in Seq(WifiConns)
        /\ backlog[k] # <<>> /\ wifiq' = Append(wifiq, e) /\ backlog'[k] = Tail(backlog[k])
        /\ UNCHANGED <<phone, sess, loop>>
    BY <1>14 DEF Forward, TypeOK
  <2>2. \A x \in WifiConns : Unserved(x)' = Unserved(x)
    BY <2>1 DEF Unserved, Serving
  <2>3. e \in Kinds \X WifiConns
    BY <2>1, TailFacts
  <2>4. /\ Len(wifiq') = Len(wifiq) + 1 /\ wifiq'[Len(wifiq) + 1] = e
        /\ \A i \in 1..Len(wifiq) : wifiq'[i] = wifiq[i]
    BY <2>1, <2>3, AppendFacts
  <2>5. \A i \in 1..Len(wifiq') : i = Len(wifiq) + 1 \/ i \in 1..Len(wifiq)
    BY <2>1, <2>4
  <2>6. /\ ctl \in Seq(WifiConns) /\ \A i \in 1..Len(ctl) : ctl[i] \in WifiConns
        /\ \A j \in 1..Len(wifiq) : wifiq[j][2] \in WifiConns
    BY <2>1 DEF TypeOK
  <2>7. CASE k = "control"
    <3>1. /\ Len(ctl) > 0 /\ Len(ctl') = Len(ctl) - 1 /\ e = <<"control", ctl[1]>>
          /\ \A i \in 1..Len(ctl') : ctl'[i] = ctl[i + 1]
      <4>1. ctl # <<>> /\ ctl' = Tail(ctl) /\ e = <<"control", Head(ctl)>>
        BY <2>1, <2>7
      <4> QED
        BY <2>6, <4>1, TailFacts
    <3>2. \A i \in 1..Len(ctl') : i + 1 \in 1..Len(ctl) /\ i + 1 # 1
      BY <2>6, <3>1
    <3>3. 1 \in 1..Len(ctl)
      BY <2>6, <3>1
    <3>4. \A i \in 1..Len(wifiq) : wifiq[i] # e
      BY <3>1, <3>3 DEF Order, ControlOnce
    <3>5. \A i, j \in 1..Len(ctl') : ctl'[i] = ctl'[j] => i = j
      BY <3>1, <3>2 DEF Order, ControlOnce
    <3>6. \A i, j \in 1..Len(wifiq') : wifiq'[i][1] = "control" /\ wifiq'[i] = wifiq'[j] => i = j
      BY <2>4, <2>5, <3>4 DEF Order, ControlOnce
    <3>7. \A i \in 1..Len(ctl') : ctl'[i] # ctl[1] /\ Unserved(ctl'[i])
      BY <3>1, <3>2, <3>3 DEF Order, ControlOnce
    <3>8. \A i \in 1..Len(ctl'), j \in 1..Len(wifiq') : wifiq'[j] # <<"control", ctl'[i]>>
      <4>1. \A i \in 1..Len(ctl') : e # <<"control", ctl'[i]>>
        BY <3>1, <3>7
      <4>2. \A i \in 1..Len(ctl'), j \in 1..Len(wifiq) : wifiq[j] # <<"control", ctl'[i]>>
        <5>1. \A i \in 1..Len(ctl), j \in 1..Len(wifiq) : wifiq[j] # <<"control", ctl[i]>>
          BY DEF Order, ControlOnce
        <5>2. TAKE i \in 1..Len(ctl'), j \in 1..Len(wifiq)
        <5>3. i + 1 \in 1..Len(ctl) /\ ctl'[i] = ctl[i + 1]
          BY <3>1, <3>2
        <5> QED
          BY <5>1, <5>3
      <4> QED
        BY <2>4, <2>5, <4>1, <4>2
    <3>9. \A i \in 1..Len(ctl') : Unserved(ctl[i])'
      BY <2>2, <2>6, <3>1, <3>2, <3>7
    <3>10. \A j \in 1..Len(wifiq') : wifiq'[j][1] = "control" => Unserved(wifiq[j][2])'
      <4>1. \A j \in 1..Len(wifiq) :
               wifiq[j][1] = "control" => wifiq[j][2] \in WifiConns /\ Unserved(wifiq[j][2])
        BY <2>6 DEF Order, ControlOnce
      <4>2. ctl[1] \in WifiConns /\ Unserved(ctl[1]) /\ e[2] = ctl[1]
        BY <2>6, <3>1, <3>3 DEF Order, ControlOnce
      <4>3. \A c \in WifiConns : Unserved(c) => Unserved(c)'
        BY <2>2
      <4>4. \A j \in 1..Len(wifiq') : wifiq'[j] = e \/ (j \in 1..Len(wifiq) /\ wifiq'[j] = wifiq[j])
        BY <2>4, <2>5
      <4> QED
        BY <4>1, <4>2, <4>3, <4>4
    <3> QED
      BY <3>5, <3>6, <3>8, <3>9, <3>10 DEF ControlOnce
  <2>8. CASE k = "media"
    <3>1. ctl' = ctl
      BY <1>14, <2>8 DEF Forward, TypeOK
    <3>2. \A j \in 1..Len(wifiq') : wifiq'[j][1] = "control" =>
                                   j \in 1..Len(wifiq) /\ wifiq'[j] = wifiq[j]
      BY <2>4, <2>5, <2>8
    <3>3. \A i, j \in 1..Len(wifiq') : wifiq'[i][1] = "control" /\ wifiq'[i] = wifiq'[j] => i = j
      BY <3>2 DEF Order, ControlOnce
    <3>4. \A i \in 1..Len(ctl), j \in 1..Len(wifiq') : wifiq'[j] # <<"control", ctl[i]>>
      BY <3>2 DEF Order, ControlOnce
    <3>5. \A i \in 1..Len(ctl) : Unserved(ctl[i])'
      BY <2>2, <2>6, <3>1 DEF Order, ControlOnce
    <3>6. \A j \in 1..Len(wifiq') : wifiq'[j][1] = "control" => Unserved(wifiq[j][2])'
      BY <2>2, <2>6, <3>2 DEF Order, ControlOnce
    <3> QED
      BY <3>1, <3>3, <3>4, <3>5, <3>6 DEF Order, ControlOnce
  <2> QED
    BY <2>7, <2>8
<1>15. ASSUME NEW k \in Kinds, ListenerExits(k) PROVE ControlOnce'
  <2>1. UNCHANGED <<wifiq, phone, sess, loop>> /\ \A x : Unserved(x)' = Unserved(x)
    BY <1>15 DEF ListenerExits, Unserved, Serving
  <2>2. backlog'["control"] = backlog["control"] \/ backlog'["control"] = <<>>
    BY <1>15 DEF ListenerExits, TypeOK
  <2> QED
    BY <2>1, <2>2 DEF Order, ControlOnce
<1>16. ASSUME NEW g \in Starts, NEW u \in UsbConns, UsbDial(g, u) PROVE ControlOnce'
  <2>1. \A x \in WifiConns : Unserved(x) => Unserved(x)'
    BY <1>16 DEF UsbDial, sessVars, wifiVars, Unserved, Serving, TypeOK
  <2>2. UNCHANGED <<backlog, wifiq>>
    BY <1>16 DEF UsbDial, wifiVars
  <2> QED
    BY <2>1, <2>2, KeepsUnserved DEF Order
<1>17. ASSUME NEW g \in Starts, NEW u \in UsbConns, UsbHandshakeOk(g, u) PROVE ControlOnce'
  <2>1. \A x \in WifiConns : Unserved(x) => Unserved(x)'
    BY <1>17, ConnsAssumption DEF UsbHandshakeOk, Unserved, Serving, TypeOK
  <2>2. UNCHANGED <<backlog, wifiq>>
    BY <1>17 DEF UsbHandshakeOk
  <2> QED
    BY <2>1, <2>2, KeepsUnserved DEF Order
<1>18. ASSUME NEW g \in Starts, NEW u \in UsbConns, UsbMediaHelloOk(g, u) PROVE ControlOnce'
  <2>1. \A x \in WifiConns : Unserved(x) => Unserved(x)'
    BY <1>18, ConnsAssumption DEF UsbMediaHelloOk, Unserved, Serving, TypeOK
  <2>2. UNCHANGED <<backlog, wifiq>>
    BY <1>18 DEF UsbMediaHelloOk
  <2> QED
    BY <2>1, <2>2, KeepsUnserved DEF Order
<1>19. ASSUME Shutdown PROVE ControlOnce'
  BY <1>19 DEF Shutdown, ControlOnce, Unserved, Serving, TypeOK, Order
<1>20. ASSUME NEW c \in Conns,
             \/ AttachMedia(c)
      PROVE  UNCHANGED <<phone, backlog, wifiq, loop, sess>>
  BY <1>20 DEF AttachMedia
<1>21. ASSUME NEW g \in Starts, NEW u \in UsbConns,
             \/ UsbTake(g, u) \/ UsbKeyFound(g, u) \/ UsbNoKey(g, u) \/ UsbStoreError(g, u)
             \/ UsbHandshakeFails(g, u) \/ UsbSetOutbound(g, u) \/ UsbSetCounter(g, u)
             \/ UsbMediaHelloFails(g, u) \/ UsbUnsetCounter(g, u) \/ UsbUnsetOutbound(g, u)
      PROVE  UNCHANGED <<phone, backlog, wifiq, loop, sess>>
  BY <1>21 DEF UsbTake, UsbKeyFound, UsbNoKey, UsbStoreError, UsbHandshakeFails,
       UsbSetOutbound, UsbSetCounter, UsbMediaHelloFails, UsbUnsetCounter,
       UsbUnsetOutbound
<1>22. ASSUME NEW g \in Starts, StartUsbSupervisor(g) \/ StoreConsumer(g)
      PROVE  UNCHANGED <<phone, backlog, wifiq, loop, sess>>
  BY <1>22 DEF StartUsbSupervisor, StoreConsumer
<1>23. ASSUME NEW c \in Conns, NEW o \in Ops, BeginUpdate(c, o) PROVE UNCHANGED <<phone, backlog, wifiq, loop, sess>>
  BY <1>23 DEF BeginUpdate
<1>24. CASE UNCHANGED vars
  BY <1>24, <1>1 DEF vars
<1> QED
  BY <1>1, <1>2, <1>3, <1>4, <1>5, <1>6, <1>7, <1>8, <1>9, <1>10, <1>11, <1>12,
       <1>13, <1>14, <1>15, <1>16, <1>17, <1>18, <1>19, <1>20, <1>21, <1>22, <1>23,
       <1>24
     DEF Next, Phone, Wifi, Usb, Session, App

\* The accept loop serves connections that have no session yet.
LEMMA LoopServesStep == TypeOK /\ Order /\ [Next]_vars => LoopServes'
<1> SUFFICES ASSUME TypeOK, Order, [Next]_vars PROVE LoopServes'
  OBVIOUS
<1> USE DEF wifiVars, usbVars, sessVars, sharedVars
<1>1. CASE UNCHANGED <<phone, loop, sess>>
  BY <1>1 DEF LoopServes, TypeOK, Authenticated, Order
<1>2. ASSUME NEW c \in WifiConns, Dial(c) PROVE LoopServes'
  BY <1>2 DEF Dial, LoopServes, TypeOK, Authenticated, Order
<1>3. ASSUME NEW c \in WifiConns, TakeControl(c) PROVE LoopServes'
  <2>1. c \in WifiConns /\ phone[c] = "dialed" /\ sess[c] = "none"
    <3>1. 1 \in 1..Len(wifiq) /\ wifiq[1] = <<"control", c>>
      BY <1>3, TailFacts DEF TakeControl, TypeOK
    <3>2. Unserved(wifiq[1][2]) /\ wifiq[1][2] = c
      BY <3>1 DEF Order, ControlOnce
    <3> QED
      BY <3>2 DEF Unserved
  <2> QED
    BY <1>3, <2>1 DEF TakeControl, LoopServes
<1>4. ASSUME NEW c \in WifiConns, HandshakeOk(c) PROVE LoopServes'
  BY <1>4 DEF HandshakeOk, LoopServes, TypeOK, Authenticated, Order
<1>5. ASSUME NEW c \in WifiConns, HandshakeFails(c) PROVE LoopServes'
  BY <1>5 DEF HandshakeFails, LoopServes, TypeOK, Authenticated, Order
<1>6. ASSUME NEW c \in WifiConns, Register(c) PROVE LoopServes'
  BY <1>6 DEF Register, LoopServes, TypeOK, Authenticated, Order
<1>7. ASSUME NEW c \in WifiConns, TakeMedia(c) PROVE LoopServes'
  BY <1>7 DEF TakeMedia, LoopServes, TypeOK, Authenticated, Order
<1>8. ASSUME NEW c \in WifiConns, MediaHelloOk(c) PROVE LoopServes'
  BY <1>8 DEF MediaHelloOk, LoopServes, TypeOK, Authenticated, Order
<1>9. ASSUME NEW c \in WifiConns, MediaHelloFails(c) PROVE LoopServes'
  BY <1>9 DEF MediaHelloFails, LoopServes, TypeOK, Authenticated, Order
<1>10. ASSUME NEW c \in Conns, SendMediaHello(c) PROVE LoopServes'
  BY <1>10 DEF SendMediaHello, LoopServes, TypeOK, Authenticated, Order
<1>11. ASSUME NEW c \in Conns, FinishUpdate(c) PROVE LoopServes'
  BY <1>11 DEF FinishUpdate, LoopServes, TypeOK, Authenticated, Order, SessionOrder
<1>12. ASSUME NEW c \in Conns, ClearOutbound(c) PROVE LoopServes'
  BY <1>12 DEF ClearOutbound, LoopServes, TypeOK, Authenticated, Order
<1>13. ASSUME NEW c \in Conns, ClearCounter(c) PROVE LoopServes'
  BY <1>13 DEF ClearCounter, LoopServes, TypeOK, Authenticated, Order
<1>14. ASSUME NEW g \in Starts, NEW u \in UsbConns, UsbDial(g, u) PROVE LoopServes'
  BY <1>14 DEF UsbDial, LoopServes, TypeOK, Authenticated, Order
<1>15. ASSUME NEW g \in Starts, NEW u \in UsbConns, UsbHandshakeOk(g, u) PROVE LoopServes'
  BY <1>15, ConnsAssumption DEF UsbHandshakeOk, LoopServes, TypeOK, Authenticated, Order
<1>16. ASSUME NEW g \in Starts, NEW u \in UsbConns, UsbMediaHelloOk(g, u) PROVE LoopServes'
  BY <1>16, ConnsAssumption DEF UsbMediaHelloOk, LoopServes, TypeOK, Authenticated, Order
<1>17. ASSUME Shutdown PROVE LoopServes'
  BY <1>17 DEF Shutdown, LoopServes, TypeOK, Authenticated, Order
<1>18. ASSUME NEW c \in Conns,
             \/ AttachMedia(c)
      PROVE  UNCHANGED <<phone, loop, sess>>
  BY <1>18 DEF AttachMedia
<1>19. ASSUME NEW g \in Starts, NEW u \in UsbConns,
             \/ UsbTake(g, u) \/ UsbKeyFound(g, u) \/ UsbNoKey(g, u) \/ UsbStoreError(g, u)
             \/ UsbHandshakeFails(g, u) \/ UsbSetOutbound(g, u) \/ UsbSetCounter(g, u)
             \/ UsbMediaHelloFails(g, u) \/ UsbUnsetCounter(g, u) \/ UsbUnsetOutbound(g, u)
      PROVE  UNCHANGED <<phone, loop, sess>>
  BY <1>19 DEF UsbTake, UsbKeyFound, UsbNoKey, UsbStoreError, UsbHandshakeFails,
       UsbSetOutbound, UsbSetCounter, UsbMediaHelloFails, UsbUnsetCounter,
       UsbUnsetOutbound
<1>20. ASSUME NEW k \in Kinds,
             \/ Forward(k) \/ ListenerExits(k)
      PROVE  UNCHANGED <<phone, loop, sess>>
  BY <1>20 DEF Forward, ListenerExits
<1>21. ASSUME NEW g \in Starts, StartUsbSupervisor(g) \/ StoreConsumer(g)
      PROVE  UNCHANGED <<phone, loop, sess>>
  BY <1>21 DEF StartUsbSupervisor, StoreConsumer
<1>22. ASSUME NEW c \in Conns, NEW o \in Ops, BeginUpdate(c, o) PROVE UNCHANGED <<phone, loop, sess>>
  BY <1>22 DEF BeginUpdate
<1>23. CASE UNCHANGED vars
  BY <1>23, <1>1 DEF vars
<1> QED
  BY <1>1, <1>2, <1>3, <1>4, <1>5, <1>6, <1>7, <1>8, <1>9, <1>10, <1>11, <1>12,
       <1>13, <1>14, <1>15, <1>16, <1>17, <1>18, <1>19, <1>20, <1>21, <1>22, <1>23
     DEF Next, Phone, Wifi, Usb, Session, App

\* What a consumer's move to its next await point changes.
LEMMA PcMoves ==
    ASSUME TypeOK, NEW g \in Starts, NEW u \in UsbConns, NEW p \in UsbPCs, NEW q \in UsbPCs,
           usb[g] = [pc |-> q, conn |-> u], usb' = [usb EXCEPT ![g].pc = p]
    PROVE  /\ usb' = [usb EXCEPT ![g] = [pc |-> p, conn |-> u]]
           /\ usb'[g] = [pc |-> p, conn |-> u]
           /\ \A h \in Starts : usb'[h].conn = usb[h].conn
<1>1. usb \in [Starts -> LoopTypes(UsbPCs, UsbConns)]
  BY DEF TypeOK
<1>2. [usb[g] EXCEPT !.pc = p] = [pc |-> p, conn |-> u]
  OBVIOUS
<1>3. usb' = [usb EXCEPT ![g] = [usb[g] EXCEPT !.pc = p]]
  OBVIOUS
<1>4. usb' = [usb EXCEPT ![g] = [pc |-> p, conn |-> u]]
  BY <1>2, <1>3
<1>5. usb'[g] = [pc |-> p, conn |-> u] /\ \A h \in Starts : h # g => usb'[h] = usb[h]
  BY <1>1, <1>4
<1>6. ASSUME NEW h \in Starts PROVE usb'[h].conn = usb[h].conn
  <2>1. CASE h = g
    <3>1. usb'[h].conn = u
      BY <1>5, <2>1
    <3>2. usb[h].conn = u
      BY <2>1
    <3> QED
      BY <3>1, <3>2
  <2>2. CASE h # g
    BY <1>5, <2>2
  <2> QED
    BY <2>1, <2>2
<1> QED
  BY <1>4, <1>5, <1>6

\* A step that leaves the consumers alone and takes no session from the devices they
\* serve keeps UsbServes.
LEMMA KeepsServing ==
    ASSUME TypeOK, UsbServes, UNCHANGED usb,
           \A u \in UsbConns : /\ phone[u] = "dialed" => phone'[u] = "dialed"
                               /\ Authenticated(u) => Authenticated(u)'
                               /\ sess[u] = "none" /\ phone[u] # "off" => sess'[u] = "none"
    PROVE  UsbServes'
<1>1. ASSUME NEW g \in Starts PROVE Serves(g)'
  <2>1. usb[g] \in LoopTypes(UsbPCs, UsbConns) /\ Serves(g)
    BY DEF TypeOK, UsbServes
  <2> QED
    BY <2>1, ConnsAssumption DEF Serves, Authenticated
<1> QED
  BY <1>1 DEF UsbServes

\* A step of one consumer alone keeps UsbServes when it is right for that consumer.
LEMMA OneServes ==
    ASSUME TypeOK, UsbServes, NEW g \in Starts, NEW p, NEW x,
           usb' = [usb EXCEPT ![g] = [pc |-> p, conn |-> x]],
           x \in {None, usb[g].conn}, Serves(g)',
           \A u \in UsbConns \ {x} : phone'[u] = phone[u] /\ sess'[u] = sess[u]
    PROVE  UsbServes'
<1>1. ASSUME NEW h \in Starts, h # g PROVE Serves(h)'
  <2>1. usb'[h] = usb[h] /\ usb[h] \in LoopTypes(UsbPCs, UsbConns) /\ Serves(h)
    BY <1>1 DEF TypeOK, UsbServes
  <2>2. usb[h].conn # None => usb[h].conn # usb[g].conn
    BY <1>1 DEF UsbServes
  <2>3. usb[h].conn # None => usb[h].conn \in UsbConns \ {x}
    BY <2>1, <2>2
  <2>4. usb[h].pc \notin {"off", "recv", "aborted"} => usb[h].conn # None
    BY <2>1 DEF Serves
  <2> QED
    BY <2>1, <2>3, <2>4 DEF Serves, Authenticated
<1>2. \A h \in Starts : usb'[h].conn \in {None, usb[h].conn}
  BY DEF TypeOK
<1> QED
  BY <1>1, <1>2 DEF UsbServes

\* The USB consumers serve devices that have no session yet, each its own.
LEMMA UsbServesStep == TypeOK /\ Order /\ [Next]_vars => UsbServes'
<1> SUFFICES ASSUME TypeOK, Order, [Next]_vars PROVE UsbServes'
  OBVIOUS
<1> USE DEF wifiVars, usbVars, sessVars, sharedVars
<1>0. UsbServes
  BY DEF Order
<1>1. CASE UNCHANGED <<phone, usb, sess>>
  BY <1>0, <1>1, KeepsServing DEF Authenticated
<1>2. ASSUME NEW c \in WifiConns, Dial(c) \/ HandshakeOk(c) \/ Register(c) PROVE UsbServes'
  <2>1. c \notin UsbConns
    BY ConnsAssumption
  <2>2. UNCHANGED usb /\ \A u \in UsbConns : phone'[u] = phone[u] /\ sess'[u] = sess[u]
    BY <1>2, <2>1 DEF Dial, HandshakeOk, Register, TypeOK
  <2> QED
    BY <1>0, <2>2, KeepsServing DEF Authenticated
<1>5. ASSUME NEW c \in Conns, SendMediaHello(c) PROVE UsbServes'
  <2>1. UNCHANGED <<usb, sess>>
    BY <1>5 DEF SendMediaHello
  <2>2. \A u \in UsbConns : phone[u] = "dialed" => phone'[u] = "dialed"
    BY <1>5 DEF SendMediaHello, TypeOK
  <2>3. \A u \in UsbConns : Authenticated(u) => Authenticated(u)'
    BY <1>5 DEF SendMediaHello, TypeOK, Authenticated
  <2> QED
    BY <1>0, <2>1, <2>2, <2>3, KeepsServing
<1>6. ASSUME NEW c \in Conns, FinishUpdate(c) \/ ClearOutbound(c) \/ ClearCounter(c)
      PROVE  UsbServes'
  <2>1. sess[c] # "none"
    BY <1>6 DEF FinishUpdate, ClearOutbound, ClearCounter, Order, SessionOrder
  <2>2. UNCHANGED <<usb, phone>> /\ \A d \in Conns : d # c => sess'[d] = sess[d]
    BY <1>6 DEF FinishUpdate, ClearOutbound, ClearCounter, TypeOK
  <2> QED
    BY <1>0, <2>1, <2>2, KeepsServing DEF Authenticated
<1>9. ASSUME NEW g \in Starts, NEW u \in UsbConns, UsbDial(g, u) PROVE UsbServes'
  <2>1. UNCHANGED <<usb, sess>> /\ phone[u] = "off" /\ \A d \in Conns : d # u => phone'[d] = phone[d]
    BY <1>9 DEF UsbDial, TypeOK
  <2> QED
    BY <1>0, <2>1, KeepsServing DEF Authenticated
<1>10. ASSUME NEW g \in Starts, NEW u \in UsbConns, UsbTake(g, u) PROVE UsbServes'
  <2>1. 1 \in 1..Len(usbq[g]) /\ usbq[g][1] = u
    BY <1>10, TailFacts DEF UsbTake, TypeOK
  <2>2. Waits(u)
    BY <2>1 DEF Order, UsbOnce
  <2>3. /\ usb' = [usb EXCEPT ![g] = [pc |-> "lookup", conn |-> u]]
        /\ UNCHANGED <<phone, sess>> /\ u # None
    BY <1>10, ConnsAssumption DEF UsbTake
  <2>4. \A h \in Starts : h # g => usb'[h] = usb[h] /\ usb[h].conn # u
    BY <2>2, <2>3 DEF TypeOK, Waits
  <2>5. usb'[g] = [pc |-> "lookup", conn |-> u]
    BY <2>3 DEF TypeOK
  <2>6. \A h \in Starts : Serves(h)'
    BY <1>0, <2>2, <2>3, <2>4, <2>5 DEF UsbServes, Serves, Waits, Authenticated
  <2>7. \A h, k \in Starts : usb'[h].conn = usb'[k].conn /\ usb'[h].conn # None => h = k
    BY <1>0, <2>4, <2>5 DEF UsbServes
  <2> QED
    BY <2>6, <2>7 DEF UsbServes
<1>11. ASSUME NEW g \in Starts, NEW u \in UsbConns,
              \/ UsbNoKey(g, u) \/ UsbStoreError(g, u) \/ UsbHandshakeFails(g, u)
              \/ UsbUnsetOutbound(g, u)
       PROVE  UsbServes'
  <2>1. usb' = [usb EXCEPT ![g] = [pc |-> "recv", conn |-> None]] /\ UNCHANGED <<phone, sess>>
    BY <1>11 DEF UsbNoKey, UsbStoreError, UsbHandshakeFails, UsbUnsetOutbound
  <2>2. Serves(g)'
    BY <2>1 DEF Serves, TypeOK
  <2> QED
    BY <1>0, <2>1, <2>2, OneServes
<1>12. ASSUME NEW g \in Starts, NEW u \in UsbConns, UsbKeyFound(g, u) PROVE UsbServes'
  <2>1. /\ usb' = [usb EXCEPT ![g] = [pc |-> "handshake", conn |-> u]]
        /\ usb[g] = [pc |-> "lookup", conn |-> u] /\ UNCHANGED <<phone, sess>>
    BY <1>12, PcMoves DEF UsbKeyFound
  <2>2. Serves(g)'
    <3>1. usb'[g] = [pc |-> "handshake", conn |-> u] /\ Serves(g)
      BY <1>0, <2>1 DEF UsbServes, TypeOK
    <3> QED
      BY <2>1, <3>1, ConnsAssumption DEF Serves
  <2>3. /\ u \in {None, usb[g].conn}
        /\ \A v \in UsbConns \ {u} : phone'[v] = phone[v] /\ sess'[v] = sess[v]
    BY <2>1
  <2> QED
    BY <1>0, <2>1, <2>2, <2>3, OneServes
<1>15. ASSUME NEW g \in Starts, NEW u \in UsbConns, UsbHandshakeOk(g, u) PROVE UsbServes'
  <2>1. /\ usb' = [usb EXCEPT ![g] = [pc |-> "setOutbound", conn |-> u]]
        /\ usb[g] = [pc |-> "handshake", conn |-> u]
        /\ phone'[u] = "authed" /\ \A d \in Conns : d # u => phone'[d] = phone[d]
        /\ UNCHANGED sess
    <3>1. phone \in [Conns -> PhoneStates] /\ u \in Conns
      BY DEF TypeOK
    <3> QED
      BY <1>15, <3>1, PcMoves DEF UsbHandshakeOk
  <2>2. Serves(g)'
    <3>1. usb'[g] = [pc |-> "setOutbound", conn |-> u] /\ Serves(g)
      BY <1>0, <2>1 DEF UsbServes, TypeOK
    <3> QED
      BY <2>1, <3>1, ConnsAssumption DEF Serves, Authenticated
  <2>3. /\ u \in {None, usb[g].conn}
        /\ \A v \in UsbConns \ {u} : phone'[v] = phone[v] /\ sess'[v] = sess[v]
    BY <2>1
  <2> QED
    BY <1>0, <2>1, <2>2, <2>3, OneServes
<1>16. ASSUME NEW g \in Starts, NEW u \in UsbConns,
              \/ UsbSetOutbound(g, u) \/ UsbSetCounter(g, u) \/ UsbMediaHelloFails(g, u)
              \/ UsbUnsetCounter(g, u)
       PROVE  UsbServes'
  <2>1. PICK p \in {"setCounter", "mediaHello", "unsetCounter", "unsetOutbound"} :
           usb' = [usb EXCEPT ![g] = [pc |-> p, conn |-> u]]
    BY <1>16, PcMoves DEF UsbSetOutbound, UsbSetCounter, UsbMediaHelloFails, UsbUnsetCounter
  <2>2. /\ usb[g].conn = u /\ UNCHANGED <<phone, sess>>
        /\ usb[g].pc \notin {"off", "recv", "aborted", "lookup", "handshake"}
    BY <1>16 DEF UsbSetOutbound, UsbSetCounter, UsbMediaHelloFails, UsbUnsetCounter
  <2>3. Serves(g)'
    BY <1>0, <2>1, <2>2, ConnsAssumption DEF UsbServes, Serves, TypeOK, Authenticated
  <2> QED
    BY <1>0, <2>1, <2>2, <2>3, OneServes
<1>18. ASSUME NEW g \in Starts, NEW u \in UsbConns, UsbMediaHelloOk(g, u) PROVE UsbServes'
  <2>1. /\ usb' = [usb EXCEPT ![g] = [pc |-> "recv", conn |-> None]]
        /\ usb[g].conn = u /\ UNCHANGED phone /\ \A d \in Conns : d # u => sess'[d] = sess[d]
    BY <1>18 DEF UsbMediaHelloOk, TypeOK
  <2>2. ASSUME NEW h \in Starts PROVE Serves(h)'
    <3>1. CASE h = g
      BY <2>1, <3>1 DEF Serves, TypeOK
    <3>2. CASE h # g
      <4>1. usb'[h] = usb[h] /\ usb[h].conn # u /\ Serves(h)
        BY <1>0, <2>1, <3>2, ConnsAssumption DEF UsbServes, TypeOK
      <4>2. usb[h].conn \in Conns \cup {None}
        BY DEF TypeOK
      <4> QED
        BY <2>1, <4>1, <4>2 DEF Serves, Authenticated
    <3> QED
      BY <3>1, <3>2
  <2>3. \A h \in Starts : usb'[h].conn \in {None, usb[h].conn}
    BY <2>1 DEF TypeOK
  <2> QED
    BY <1>0, <2>2, <2>3 DEF UsbServes
<1>22. ASSUME NEW g \in Starts, StartUsbSupervisor(g) PROVE UsbServes'
  <2>1. usb' = [usb EXCEPT ![g] = [pc |-> "recv", conn |-> None]] /\ UNCHANGED <<phone, sess>>
    BY <1>22 DEF StartUsbSupervisor
  <2>2. Serves(g)'
    BY <2>1 DEF Serves, TypeOK
  <2> QED
    BY <1>0, <2>1, <2>2, OneServes
<1>23. ASSUME NEW g, Abort(g), UNCHANGED <<phone, sess>> PROVE UsbServes'
  <2>1. \A h \in Starts : usb'[h] = [pc |-> "aborted", conn |-> None] \/ usb'[h] = usb[h]
    BY <1>23 DEF Abort
  <2>2. ASSUME NEW h \in Starts PROVE Serves(h)'
    <3>1. CASE usb'[h] = usb[h]
      BY <1>0, <1>23, <3>1 DEF UsbServes, Serves, Authenticated
    <3>2. CASE usb'[h] = [pc |-> "aborted", conn |-> None]
      BY <3>2 DEF Serves
    <3> QED
      BY <2>1, <3>1, <3>2
  <2> QED
    BY <1>0, <2>1, <2>2 DEF UsbServes
<1>24. ASSUME (\E g \in Starts : StoreConsumer(g)) \/ Shutdown PROVE UsbServes'
  BY <1>1, <1>23, <1>24 DEF StoreConsumer, Shutdown
<1>25. ASSUME NEW c \in Conns,
             \/ TakeControl(c) \/ HandshakeFails(c) \/ TakeMedia(c)
             \/ MediaHelloOk(c) \/ MediaHelloFails(c) \/ AttachMedia(c)
      PROVE  UNCHANGED <<phone, usb, sess>>
  BY <1>25 DEF TakeControl, HandshakeFails, TakeMedia, MediaHelloOk, MediaHelloFails,
       AttachMedia
<1>26. ASSUME NEW k \in Kinds, Forward(k) \/ ListenerExits(k)
       PROVE  UNCHANGED <<phone, usb, sess>>
  BY <1>26 DEF Forward, ListenerExits
<1>27. ASSUME NEW c \in Conns, NEW o \in Ops, BeginUpdate(c, o)
       PROVE  UNCHANGED <<phone, usb, sess>>
  BY <1>27 DEF BeginUpdate
<1>28. CASE UNCHANGED vars
  BY <1>28, <1>1 DEF vars
<1> QED
  BY <1>1, <1>2, <1>5, <1>6, <1>9, <1>10, <1>11, <1>12, <1>15, <1>16, <1>18, <1>22,
     <1>24, <1>25, <1>26, <1>27, <1>28
     DEF Next, Phone, Wifi, Usb, Session, App

\* Only authenticated connections have sessions, and updates happen in their phase.
LEMMA SessionOrderStep == TypeOK /\ Order /\ [Next]_vars => SessionOrder'
<1> SUFFICES ASSUME TypeOK, Order, [Next]_vars PROVE SessionOrder'
  OBVIOUS
<1> USE DEF wifiVars, usbVars, sessVars, sharedVars
<1>1. CASE UNCHANGED <<phone, sess, op>>
  BY <1>1 DEF SessionOrder, TypeOK, Authenticated, Order
<1>2. ASSUME NEW c \in WifiConns, Dial(c) PROVE SessionOrder'
  BY <1>2 DEF Dial, SessionOrder, TypeOK, Authenticated, Order
<1>3. ASSUME NEW c \in WifiConns, HandshakeOk(c) PROVE SessionOrder'
  BY <1>3 DEF HandshakeOk, SessionOrder, TypeOK, Authenticated, Order
<1>4. ASSUME NEW c \in WifiConns, Register(c) PROVE SessionOrder'
  BY <1>4 DEF Register, SessionOrder, TypeOK, Authenticated, Order, LoopServes
<1>5. ASSUME NEW c \in Conns, SendMediaHello(c) PROVE SessionOrder'
  BY <1>5 DEF SendMediaHello, SessionOrder, TypeOK, Authenticated, Order
<1>6. ASSUME NEW c \in Conns, FinishUpdate(c) PROVE SessionOrder'
  BY <1>6 DEF FinishUpdate, SessionOrder, TypeOK, Authenticated, Order, AfterUpdate
<1>7. ASSUME NEW c \in Conns, ClearOutbound(c) PROVE SessionOrder'
  BY <1>7 DEF ClearOutbound, SessionOrder, TypeOK, Authenticated, Order
<1>8. ASSUME NEW c \in Conns, ClearCounter(c) PROVE SessionOrder'
  BY <1>8 DEF ClearCounter, SessionOrder, TypeOK, Authenticated, Order
<1>9. ASSUME NEW c \in Conns, NEW o \in Ops, BeginUpdate(c, o) PROVE SessionOrder'
  BY <1>9 DEF BeginUpdate, SessionOrder, TypeOK, Authenticated, Order
<1>10. ASSUME NEW g \in Starts, NEW u \in UsbConns, UsbDial(g, u) PROVE SessionOrder'
  BY <1>10 DEF UsbDial, SessionOrder, TypeOK, Authenticated, Order
<1>11. ASSUME NEW g \in Starts, NEW u \in UsbConns, UsbHandshakeOk(g, u) PROVE SessionOrder'
  BY <1>11 DEF UsbHandshakeOk, SessionOrder, TypeOK, Authenticated, Order
<1>12. ASSUME NEW g \in Starts, NEW u \in UsbConns, UsbMediaHelloOk(g, u) PROVE SessionOrder'
  <2>1. Authenticated(u) /\ sess[u] = "none"
    BY <1>12, ConnsAssumption DEF UsbMediaHelloOk, Order, UsbServes, Serves
  <2>2. op[u] = None
    BY <2>1 DEF Order, SessionOrder
  <2>3. UNCHANGED <<phone, op>> /\ \A d \in Conns : d # u => sess'[d] = sess[d]
    BY <1>12 DEF UsbMediaHelloOk, TypeOK
  <2> QED
    BY <2>1, <2>2, <2>3 DEF Order, SessionOrder, Authenticated
<1>13. ASSUME NEW c \in Conns,
             \/ TakeControl(c) \/ HandshakeFails(c) \/ TakeMedia(c)
             \/ MediaHelloOk(c) \/ MediaHelloFails(c) \/ AttachMedia(c)
      PROVE  UNCHANGED <<phone, sess, op>>
  BY <1>13 DEF TakeControl, HandshakeFails, TakeMedia, MediaHelloOk, MediaHelloFails,
       AttachMedia
<1>14. ASSUME NEW g \in Starts, NEW u \in UsbConns,
             \/ UsbTake(g, u) \/ UsbKeyFound(g, u) \/ UsbNoKey(g, u) \/ UsbStoreError(g, u)
             \/ UsbHandshakeFails(g, u) \/ UsbSetOutbound(g, u) \/ UsbSetCounter(g, u)
             \/ UsbMediaHelloFails(g, u) \/ UsbUnsetCounter(g, u) \/ UsbUnsetOutbound(g, u)
      PROVE  UNCHANGED <<phone, sess, op>>
  BY <1>14 DEF UsbTake, UsbKeyFound, UsbNoKey, UsbStoreError, UsbHandshakeFails,
       UsbSetOutbound, UsbSetCounter, UsbMediaHelloFails, UsbUnsetCounter,
       UsbUnsetOutbound
<1>15. ASSUME NEW k \in Kinds,
             \/ Forward(k) \/ ListenerExits(k)
      PROVE  UNCHANGED <<phone, sess, op>>
  BY <1>15 DEF Forward, ListenerExits
<1>16. ASSUME App PROVE UNCHANGED <<phone, sess, op>>
  BY <1>16 DEF App, StartUsbSupervisor, StoreConsumer, Shutdown
<1>17. CASE UNCHANGED vars
  BY <1>17, <1>1 DEF vars
<1> QED
  BY <1>1, <1>2, <1>3, <1>4, <1>5, <1>6, <1>7, <1>8, <1>9, <1>10, <1>11, <1>12,
       <1>13, <1>14, <1>15, <1>16, <1>17
     DEF Next, Phone, Wifi, Usb, Session, App

\* A step that leaves the channels alone, or drops one, and serves none of the dials that
\* wait in them keeps UsbOnce.
LEMMA KeepsWaiting ==
    ASSUME TypeOK, UsbOnce, \A g \in Starts : usbq'[g] \in {usbq[g], <<>>},
           \A u \in UsbConns : Waits(u) => Waits(u)'
    PROVE  UsbOnce'
<1>1. \A g \in Starts : \A i \in 1..Len(usbq'[g]) :
         i \in 1..Len(usbq[g]) /\ usbq'[g][i] = usbq[g][i] /\ usbq[g][i] \in UsbConns
  BY DEF TypeOK
<1>2. \A g \in Starts : \A i \in 1..Len(usbq'[g]) : Waits(usbq[g][i])'
  BY <1>1 DEF UsbOnce
<1>3. \A g, h \in Starts : \A i \in 1..Len(usbq'[g]), j \in 1..Len(usbq'[h]) :
         usbq'[g][i] = usbq'[h][j] => g = h /\ i = j
  BY <1>1 DEF UsbOnce
<1> QED
  BY <1>2, <1>3 DEF UsbOnce

\* A dialed device waits in one channel once, until it is served.
LEMMA UsbOnceStep == TypeOK /\ Order /\ [Next]_vars => UsbOnce'
<1> SUFFICES ASSUME TypeOK, Order, [Next]_vars PROVE UsbOnce'
  OBVIOUS
<1> USE DEF wifiVars, usbVars, sessVars, sharedVars
<1>0. UsbOnce
  BY DEF Order
<1>1. CASE UNCHANGED <<phone, usbq, usb, sess>>
  BY <1>0, <1>1, KeepsWaiting DEF Waits
<1>2. ASSUME NEW c \in WifiConns, Dial(c) \/ HandshakeOk(c) \/ Register(c) PROVE UsbOnce'
  <2>1. c \notin UsbConns
    BY ConnsAssumption
  <2>2. UNCHANGED <<usb, usbq>> /\ \A u \in UsbConns : phone'[u] = phone[u] /\ sess'[u] = sess[u]
    BY <1>2, <2>1 DEF Dial, HandshakeOk, Register, TypeOK
  <2> QED
    BY <1>0, <2>2, KeepsWaiting DEF Waits
<1>5. ASSUME NEW c \in Conns, SendMediaHello(c) PROVE UsbOnce'
  <2>1. UNCHANGED <<usb, usbq, sess>>
        /\ \A u \in UsbConns : phone[u] = "dialed" => phone'[u] = "dialed"
    BY <1>5 DEF SendMediaHello, TypeOK
  <2> QED
    BY <1>0, <2>1, KeepsWaiting DEF Waits
<1>6. ASSUME NEW c \in Conns, FinishUpdate(c) \/ ClearOutbound(c) \/ ClearCounter(c)
      PROVE  UsbOnce'
  <2>1. sess[c] # "none"
    BY <1>6 DEF FinishUpdate, ClearOutbound, ClearCounter, Order, SessionOrder
  <2>2. UNCHANGED <<usb, usbq, phone>> /\ \A d \in Conns : d # c => sess'[d] = sess[d]
    BY <1>6 DEF FinishUpdate, ClearOutbound, ClearCounter, TypeOK
  <2> QED
    BY <1>0, <2>1, <2>2, KeepsWaiting DEF Waits
<1>9. ASSUME NEW g \in Starts, NEW u \in UsbConns, UsbDial(g, u) PROVE UsbOnce'
  <2> DEFINE q == usbq[g]
  <2>1. /\ q \in Seq(UsbConns) /\ q' = Append(q, u) /\ phone[u] = "off" /\ phone'[u] = "dialed"
        /\ \A d \in Conns : d # u => phone'[d] = phone[d]
        /\ UNCHANGED <<usb, sess>> /\ \A h \in Starts : h # g => usbq'[h] = usbq[h]
    BY <1>9 DEF UsbDial, TypeOK
  <2>2. /\ Len(q') = Len(q) + 1 /\ q'[Len(q) + 1] = u
        /\ \A i \in 1..Len(q) : q'[i] = q[i]
    BY <2>1, AppendFacts
  <2>3. \A i \in 1..Len(q') : i = Len(q) + 1 \/ i \in 1..Len(q)
    BY <2>1, <2>2
  <2>4. \A h \in Starts : \A i \in 1..Len(usbq[h]) :
           /\ usbq[h][i] \in UsbConns /\ Waits(usbq[h][i]) /\ usbq[h][i] # u
    BY <1>0, <2>1 DEF UsbOnce, Waits, TypeOK
  <2>5. \A x \in UsbConns : Waits(x) => Waits(x)'
    BY <2>1 DEF Waits
  <2>6. Waits(u)'
    <3>1. sess[u] = "none"
      BY <2>1 DEF Order, SessionOrder, Authenticated
    <3>2. ASSUME NEW h \in Starts, usb[h].conn = u PROVE FALSE
      <4>1. usb[h].conn # None /\ usb[h].pc \in UsbPCs /\ Serves(h)
        BY <3>2, ConnsAssumption DEF TypeOK, Order, UsbServes
      <4> QED
        BY <2>1, <3>2, <4>1 DEF Serves, Authenticated
    <3> QED
      BY <2>1, <3>1, <3>2 DEF Waits
  <2>7. \A h \in Starts : \A i \in 1..Len(usbq'[h]) :
           \/ h = g /\ i = Len(q) + 1 /\ usbq'[h][i] = u
           \/ i \in 1..Len(usbq[h]) /\ usbq'[h][i] = usbq[h][i]
    BY <2>1, <2>2, <2>3
  <2>8. \A h \in Starts : \A i \in 1..Len(usbq'[h]) : Waits(usbq[h][i])'
    BY <2>4, <2>5, <2>6, <2>7
  <2>9. \A h, k \in Starts : \A i \in 1..Len(usbq'[h]), j \in 1..Len(usbq'[k]) :
           usbq'[h][i] = usbq'[k][j] => h = k /\ i = j
    BY <1>0, <2>4, <2>7 DEF UsbOnce
  <2> QED
    BY <2>8, <2>9 DEF UsbOnce
<1>10. ASSUME NEW g \in Starts, NEW u \in UsbConns, UsbTake(g, u) PROVE UsbOnce'
  <2> DEFINE q == usbq[g]
  <2>1. /\ q \in Seq(UsbConns) /\ q # <<>> /\ q' = Tail(q) /\ Head(q) = u
        /\ usb'[g].conn = u /\ \A h \in Starts : h # g => usb'[h] = usb[h] /\ usbq'[h] = usbq[h]
        /\ UNCHANGED <<phone, sess>>
    BY <1>10 DEF UsbTake, TypeOK
  <2>2. /\ Len(q) > 0 /\ Len(q') = Len(q) - 1 /\ q[1] = u
        /\ \A i \in 1..Len(q') : q'[i] = q[i + 1]
    BY <2>1, TailFacts
  <2>3. 1 \in 1..Len(q) /\ \A i \in 1..Len(q') : i + 1 \in 1..Len(q) /\ i + 1 # 1
    BY <2>1, <2>2
  <2>4. \A x \in UsbConns : Waits(x) /\ x # u => Waits(x)'
    BY <2>1 DEF Waits
  <2> DEFINE at(h, i) == IF h = g THEN i + 1 ELSE i
  <2>5. \A h \in Starts : \A i \in 1..Len(usbq'[h]) :
           /\ at(h, i) \in 1..Len(usbq[h]) /\ usbq'[h][i] = usbq[h][at(h, i)]
           /\ h = g => at(h, i) # 1
    BY <2>1, <2>2, <2>3
  <2>6. \A h, k \in Starts : \A i \in 1..Len(usbq[h]), j \in 1..Len(usbq[k]) :
           usbq[h][i] = usbq[k][j] => h = k /\ i = j
    BY <1>0 DEF UsbOnce
  <2>7. \A h \in Starts : \A i \in 1..Len(usbq'[h]) : usbq'[h][i] # u
    BY <2>2, <2>3, <2>5, <2>6
  <2>8. \A h \in Starts : \A i \in 1..Len(usbq[h]) : usbq[h][i] \in UsbConns /\ Waits(usbq[h][i])
    BY <1>0 DEF UsbOnce, TypeOK
  <2>9. \A h \in Starts : \A i \in 1..Len(usbq'[h]) : Waits(usbq[h][i])'
    BY <2>4, <2>5, <2>7, <2>8
  <2>10. \A h, k \in Starts : \A i \in 1..Len(usbq'[h]), j \in 1..Len(usbq'[k]) :
            usbq'[h][i] = usbq'[k][j] => h = k /\ i = j
    <3> SUFFICES ASSUME NEW h \in Starts, NEW k \in Starts, NEW i \in 1..Len(usbq'[h]),
                        NEW j \in 1..Len(usbq'[k]), usbq'[h][i] = usbq'[k][j]
                 PROVE  h = k /\ i = j
      OBVIOUS
    <3>1. h = k /\ at(h, i) = at(k, j)
      <4>1. /\ at(h, i) \in 1..Len(usbq[h]) /\ at(k, j) \in 1..Len(usbq[k])
            /\ usbq[h][at(h, i)] = usbq[k][at(k, j)]
        BY <2>5
      <4> HIDE DEF at
      <4> QED
        BY <2>6, <4>1
    <3> QED
      BY <3>1
  <2> QED
    BY <2>9, <2>10 DEF UsbOnce
<1>11. ASSUME NEW g \in Starts, NEW u \in UsbConns,
              \/ UsbKeyFound(g, u) \/ UsbNoKey(g, u) \/ UsbStoreError(g, u)
              \/ UsbHandshakeFails(g, u) \/ UsbSetOutbound(g, u) \/ UsbSetCounter(g, u)
              \/ UsbMediaHelloFails(g, u) \/ UsbUnsetCounter(g, u) \/ UsbUnsetOutbound(g, u)
       PROVE  UsbOnce'
  <2>1. UNCHANGED <<phone, sess, usbq>>
    BY <1>11 DEF UsbKeyFound, UsbNoKey, UsbStoreError, UsbHandshakeFails, UsbSetOutbound,
         UsbSetCounter, UsbMediaHelloFails, UsbUnsetCounter, UsbUnsetOutbound
  <2>2. \A h \in Starts : usb'[h].conn \in {None, usb[h].conn}
    <3>1. CASE UsbKeyFound(g, u) \/ UsbSetOutbound(g, u) \/ UsbSetCounter(g, u)
      BY <3>1, PcMoves DEF UsbKeyFound, UsbSetOutbound, UsbSetCounter
    <3>2. CASE UsbMediaHelloFails(g, u) \/ UsbUnsetCounter(g, u)
      BY <3>2, PcMoves DEF UsbMediaHelloFails, UsbUnsetCounter
    <3>3. CASE \/ UsbNoKey(g, u) \/ UsbStoreError(g, u) \/ UsbHandshakeFails(g, u)
               \/ UsbUnsetOutbound(g, u)
      <4>1. usb' = [usb EXCEPT ![g] = [pc |-> "recv", conn |-> None]]
        BY <3>3 DEF UsbNoKey, UsbStoreError, UsbHandshakeFails, UsbUnsetOutbound
      <4> QED
        BY <4>1 DEF TypeOK
    <3> QED
      BY <1>11, <3>1, <3>2, <3>3
  <2> QED
    BY <1>0, <2>1, <2>2, ConnsAssumption, KeepsWaiting DEF Waits
<1>12. ASSUME NEW g \in Starts, NEW u \in UsbConns, UsbHandshakeOk(g, u) \/ UsbMediaHelloOk(g, u)
       PROVE  UsbOnce'
  <2>1. /\ UNCHANGED usbq /\ \A h \in Starts : usb'[h].conn \in {None, usb[h].conn}
        /\ \A d \in Conns : d # u => phone'[d] = phone[d] /\ sess'[d] = sess[d]
    <3>1. phone \in [Conns -> PhoneStates] /\ sess \in [Conns -> SessStates] /\ u \in Conns
      BY DEF TypeOK
    <3>2. CASE UsbHandshakeOk(g, u)
      BY <3>1, <3>2, PcMoves DEF UsbHandshakeOk
    <3>3. CASE UsbMediaHelloOk(g, u)
      <4>1. usb' = [usb EXCEPT ![g] = [pc |-> "recv", conn |-> None]]
        BY <3>3 DEF UsbMediaHelloOk
      <4>2. \A h \in Starts : usb'[h].conn \in {None, usb[h].conn}
        BY <4>1 DEF TypeOK
      <4> QED
        BY <3>1, <3>3, <4>2 DEF UsbMediaHelloOk
    <3> QED
      BY <1>12, <3>2, <3>3
  <2>2. ~Waits(u)
    BY <1>12 DEF UsbHandshakeOk, UsbMediaHelloOk, Waits
  <2> QED
    BY <1>0, <2>1, <2>2, ConnsAssumption, KeepsWaiting DEF Waits
<1>22. ASSUME NEW g \in Starts, StartUsbSupervisor(g) PROVE UsbOnce'
  <2>1. UNCHANGED <<phone, sess, usbq>> /\ \A h \in Starts : usb'[h].conn \in {None, usb[h].conn}
    BY <1>22 DEF StartUsbSupervisor, TypeOK
  <2> QED
    BY <1>0, <2>1, ConnsAssumption, KeepsWaiting DEF Waits
<1>23. ASSUME NEW g, Abort(g), UNCHANGED <<phone, sess>> PROVE UsbOnce'
  <2>1. \A h \in Starts : usb'[h].conn \in {None, usb[h].conn} /\ usbq'[h] \in {usbq[h], <<>>}
    BY <1>23 DEF Abort
  <2> QED
    BY <1>0, <1>23, <2>1, ConnsAssumption, KeepsWaiting DEF Waits
<1>24. ASSUME (\E g \in Starts : StoreConsumer(g)) \/ Shutdown PROVE UsbOnce'
  BY <1>1, <1>23, <1>24 DEF StoreConsumer, Shutdown
<1>25. ASSUME NEW c \in Conns,
             \/ TakeControl(c) \/ HandshakeFails(c) \/ TakeMedia(c)
             \/ MediaHelloOk(c) \/ MediaHelloFails(c) \/ AttachMedia(c)
      PROVE  UNCHANGED <<phone, usbq, usb, sess>>
  BY <1>25 DEF TakeControl, HandshakeFails, TakeMedia, MediaHelloOk, MediaHelloFails,
       AttachMedia
<1>26. ASSUME NEW k \in Kinds, Forward(k) \/ ListenerExits(k)
       PROVE  UNCHANGED <<phone, usbq, usb, sess>>
  BY <1>26 DEF Forward, ListenerExits
<1>27. ASSUME NEW c \in Conns, NEW o \in Ops, BeginUpdate(c, o)
       PROVE  UNCHANGED <<phone, usbq, usb, sess>>
  BY <1>27 DEF BeginUpdate
<1>28. CASE UNCHANGED vars
  BY <1>28, <1>1 DEF vars
<1> QED
  BY <1>1, <1>2, <1>5, <1>6, <1>9, <1>10, <1>11, <1>12, <1>22, <1>24, <1>25, <1>26,
     <1>27, <1>28
     DEF Next, Phone, Wifi, Usb, Session, App

\* Order is inductive.
LEMMA OrderStep == TypeOK /\ Order /\ [Next]_vars => Order'
  BY ControlOnceStep, LoopServesStep, UsbOnceStep, UsbServesStep, SessionOrderStep DEF Order

-----------------------------------------------------------------------------
\* No step leaves a Ready behind without a running session.
LEMMA ReadyStep == TypeOK /\ Order /\ ReadyHasSession /\ [Next]_vars => ReadyHasSession'
<1> SUFFICES ASSUME TypeOK, Order, ReadyHasSession, [Next]_vars PROVE ReadyHasSession'
  OBVIOUS
<1> USE DEF wifiVars, usbVars, sessVars, sharedVars
<1>1. CASE UNCHANGED <<snap, sess>>
  BY <1>1 DEF ReadyHasSession, Running, Ready, TypeOK
<1>2. ASSUME NEW c \in WifiConns, TakeControl(c) PROVE ReadyHasSession'
  BY <1>2 DEF TakeControl, ReadyHasSession, Running, Ready, TypeOK
<1>3. ASSUME NEW c \in WifiConns, HandshakeFails(c) PROVE ReadyHasSession'
  BY <1>3 DEF HandshakeFails, ReadyHasSession, Running, Ready, TypeOK
<1>4. ASSUME NEW c \in WifiConns, Register(c) PROVE ReadyHasSession'
  BY <1>4 DEF Register, ReadyHasSession, Running, Ready, TypeOK, Order, LoopServes
<1>5. ASSUME NEW c \in Conns, FinishUpdate(c) PROVE ReadyHasSession'
  <2>1. sess' = [sess EXCEPT ![c] = AfterUpdate(op[c])] /\ sess'[c] = AfterUpdate(op[c])
    BY <1>5 DEF FinishUpdate, TypeOK
  <2>2. CASE op[c] \in {"reconnecting", "closed"}
    <3>1. copy[c] \in Snapshots
      BY <1>5 DEF FinishUpdate, TypeOK
    <3>2. snap'.state \in {"Reconnecting", "Closed"}
      BY <1>5, <2>2, <3>1 DEF FinishUpdate, Apply, Snapshots
    <3> QED
      BY <3>2 DEF ReadyHasSession, Ready
  <2>3. CASE op[c] \notin {"reconnecting", "closed"}
    BY <2>1, <2>3 DEF AfterUpdate, ReadyHasSession, Running
  <2> QED
    BY <2>2, <2>3
<1>6. ASSUME NEW c \in Conns, ClearOutbound(c) PROVE ReadyHasSession'
  BY <1>6 DEF ClearOutbound, ReadyHasSession, Running, Ready, TypeOK
<1>7. ASSUME NEW c \in Conns, ClearCounter(c) PROVE ReadyHasSession'
  BY <1>7 DEF ClearCounter, ReadyHasSession, Running, Ready, TypeOK
<1>8. ASSUME NEW g \in Starts, NEW u \in UsbConns, UsbTake(g, u) PROVE ReadyHasSession'
  BY <1>8 DEF UsbTake, ReadyHasSession, Running, Ready, TypeOK
<1>9. ASSUME NEW g \in Starts, NEW u \in UsbConns, UsbNoKey(g, u) PROVE ReadyHasSession'
  BY <1>9 DEF UsbNoKey, ReadyHasSession, Running, Ready, TypeOK
<1>10. ASSUME NEW g \in Starts, NEW u \in UsbConns, UsbHandshakeFails(g, u) PROVE ReadyHasSession'
  BY <1>10 DEF UsbHandshakeFails, ReadyHasSession, Running, Ready, TypeOK
<1>11. ASSUME NEW g \in Starts, NEW u \in UsbConns, UsbMediaHelloOk(g, u) PROVE ReadyHasSession'
  <2>1. sess[u] = "none" /\ UNCHANGED snap
    BY <1>11, ConnsAssumption DEF UsbMediaHelloOk, Order, UsbServes, Serves
  <2>2. \A d \in Conns : d # u => sess'[d] = sess[d]
    BY <1>11 DEF UsbMediaHelloOk, TypeOK
  <2> QED
    BY <2>1, <2>2 DEF ReadyHasSession, Running
<1>12. ASSUME NEW c \in Conns,
             \/ Dial(c) \/ HandshakeOk(c) \/ TakeMedia(c) \/ MediaHelloOk(c)
             \/ MediaHelloFails(c) \/ AttachMedia(c) \/ SendMediaHello(c)
      PROVE  UNCHANGED <<snap, sess>>
  BY <1>12 DEF Dial, HandshakeOk, TakeMedia, MediaHelloOk, MediaHelloFails,
       AttachMedia, SendMediaHello
<1>13. ASSUME NEW g \in Starts, NEW u \in UsbConns,
             \/ UsbDial(g, u) \/ UsbKeyFound(g, u) \/ UsbStoreError(g, u) \/ UsbHandshakeOk(g, u)
             \/ UsbSetOutbound(g, u) \/ UsbSetCounter(g, u) \/ UsbMediaHelloFails(g, u)
             \/ UsbUnsetCounter(g, u) \/ UsbUnsetOutbound(g, u)
      PROVE  UNCHANGED <<snap, sess>>
  BY <1>13 DEF UsbDial, UsbKeyFound, UsbStoreError, UsbHandshakeOk, UsbSetOutbound,
       UsbSetCounter, UsbMediaHelloFails, UsbUnsetCounter, UsbUnsetOutbound
<1>14. ASSUME NEW k \in Kinds,
             \/ Forward(k) \/ ListenerExits(k)
      PROVE  UNCHANGED <<snap, sess>>
  BY <1>14 DEF Forward, ListenerExits
<1>15. ASSUME App PROVE UNCHANGED <<snap, sess>>
  BY <1>15 DEF App, StartUsbSupervisor, StoreConsumer, Shutdown
<1>16. ASSUME NEW c \in Conns, NEW o \in Ops, BeginUpdate(c, o) PROVE UNCHANGED <<snap, sess>>
  BY <1>16 DEF BeginUpdate
<1>17. CASE UNCHANGED vars
  BY <1>17, <1>1 DEF vars
<1> QED
  BY <1>1, <1>2, <1>3, <1>4, <1>5, <1>6, <1>7, <1>8, <1>9, <1>10, <1>11, <1>12,
       <1>13, <1>14, <1>15, <1>16, <1>17
     DEF Next, Phone, Wifi, Usb, Session, App

\* A finished session has left the outbound slot, and nobody puts it back.
LEMMA OutboundStep == TypeOK /\ Order /\ OutboundNotFinished /\ [Next]_vars => OutboundNotFinished'
<1> SUFFICES ASSUME TypeOK, Order, OutboundNotFinished, [Next]_vars PROVE OutboundNotFinished'
  OBVIOUS
<1> USE DEF wifiVars, usbVars, sessVars, sharedVars
<1>1. CASE UNCHANGED <<outbound, sess>>
  BY <1>1 DEF OutboundNotFinished, TypeOK
<1>2. ASSUME NEW c \in WifiConns, Register(c) PROVE OutboundNotFinished'
  BY <1>2, ConnsAssumption DEF Register, OutboundNotFinished, TypeOK, Order, LoopServes
<1>3. ASSUME NEW c \in Conns, FinishUpdate(c) PROVE OutboundNotFinished'
  BY <1>3 DEF FinishUpdate, OutboundNotFinished, TypeOK, AfterUpdate
<1>4. ASSUME NEW c \in Conns, ClearOutbound(c) PROVE OutboundNotFinished'
  BY <1>4, ConnsAssumption DEF ClearOutbound, OutboundNotFinished, TypeOK
<1>5. ASSUME NEW c \in Conns, ClearCounter(c) PROVE OutboundNotFinished'
  BY <1>5, ConnsAssumption DEF ClearCounter, OutboundNotFinished, TypeOK
<1>6. ASSUME NEW g \in Starts, NEW u \in UsbConns, UsbSetOutbound(g, u) PROVE OutboundNotFinished'
  BY <1>6, ConnsAssumption DEF UsbSetOutbound, OutboundNotFinished, TypeOK, Order, UsbServes, Serves
<1>7. ASSUME NEW g \in Starts, NEW u \in UsbConns, UsbMediaHelloOk(g, u) PROVE OutboundNotFinished'
  BY <1>7 DEF UsbMediaHelloOk, OutboundNotFinished, TypeOK, Order, UsbServes, Serves
<1>8. ASSUME NEW g \in Starts, NEW u \in UsbConns, UsbUnsetOutbound(g, u) PROVE OutboundNotFinished'
  BY <1>8, ConnsAssumption DEF UsbUnsetOutbound, OutboundNotFinished, TypeOK
<1>9. ASSUME NEW c \in Conns,
             \/ Dial(c) \/ TakeControl(c) \/ HandshakeOk(c) \/ HandshakeFails(c)
             \/ TakeMedia(c) \/ MediaHelloOk(c) \/ MediaHelloFails(c)
             \/ AttachMedia(c) \/ SendMediaHello(c)
      PROVE  UNCHANGED <<outbound, sess>>
  BY <1>9 DEF Dial, TakeControl, HandshakeOk, HandshakeFails, TakeMedia,
       MediaHelloOk, MediaHelloFails, AttachMedia, SendMediaHello
<1>10. ASSUME NEW g \in Starts, NEW u \in UsbConns,
             \/ UsbDial(g, u) \/ UsbTake(g, u) \/ UsbKeyFound(g, u) \/ UsbNoKey(g, u)
             \/ UsbStoreError(g, u) \/ UsbHandshakeFails(g, u) \/ UsbHandshakeOk(g, u)
             \/ UsbSetCounter(g, u) \/ UsbMediaHelloFails(g, u) \/ UsbUnsetCounter(g, u)
      PROVE  UNCHANGED <<outbound, sess>>
  BY <1>10 DEF UsbDial, UsbTake, UsbKeyFound, UsbNoKey, UsbStoreError,
       UsbHandshakeFails, UsbHandshakeOk, UsbSetCounter, UsbMediaHelloFails,
       UsbUnsetCounter
<1>11. ASSUME NEW k \in Kinds,
             \/ Forward(k) \/ ListenerExits(k)
      PROVE  UNCHANGED <<outbound, sess>>
  BY <1>11 DEF Forward, ListenerExits
<1>12. ASSUME App PROVE UNCHANGED <<outbound, sess>>
  BY <1>12 DEF App, StartUsbSupervisor, StoreConsumer, Shutdown
<1>13. ASSUME NEW c \in Conns, NEW o \in Ops, BeginUpdate(c, o) PROVE UNCHANGED <<outbound, sess>>
  BY <1>13 DEF BeginUpdate
<1>14. CASE UNCHANGED vars
  BY <1>14, <1>1 DEF vars
<1> QED
  BY <1>1, <1>2, <1>3, <1>4, <1>5, <1>6, <1>7, <1>8, <1>9, <1>10, <1>11, <1>12,
       <1>13, <1>14
     DEF Next, Phone, Wifi, Usb, Session, App

\* A connection never comes back from being authenticated, nor from being dialed.
LEMMA PhoneMonotone ==
    TypeOK /\ [Next]_vars =>
       \A d \in Conns : /\ NeverAuthenticated(d)' => NeverAuthenticated(d)
                        /\ Authenticated(d) => Authenticated(d)'
                        /\ phone'[d] = "off" => phone[d] = "off"
<1> DEFINE Goal == \A d \in Conns : /\ NeverAuthenticated(d)' => NeverAuthenticated(d)
                                    /\ Authenticated(d) => Authenticated(d)'
                                    /\ phone'[d] = "off" => phone[d] = "off"
<1> SUFFICES ASSUME TypeOK, [Next]_vars PROVE Goal
  OBVIOUS
<1> USE DEF wifiVars, usbVars, sessVars, sharedVars
<1>1. CASE UNCHANGED <<phone>>
  BY <1>1 DEF NeverAuthenticated, Authenticated, TypeOK
<1>2. ASSUME NEW c \in WifiConns, Dial(c) PROVE Goal
  BY <1>2 DEF Dial, NeverAuthenticated, Authenticated, TypeOK
<1>3. ASSUME NEW c \in WifiConns, HandshakeOk(c) PROVE Goal
  BY <1>3 DEF HandshakeOk, NeverAuthenticated, Authenticated, TypeOK
<1>4. ASSUME NEW c \in Conns, SendMediaHello(c) PROVE Goal
  BY <1>4 DEF SendMediaHello, NeverAuthenticated, Authenticated, TypeOK
<1>5. ASSUME NEW g \in Starts, NEW u \in UsbConns, UsbDial(g, u) PROVE Goal
  BY <1>5 DEF UsbDial, NeverAuthenticated, Authenticated, TypeOK
<1>6. ASSUME NEW g \in Starts, NEW u \in UsbConns, UsbHandshakeOk(g, u) PROVE Goal
  BY <1>6 DEF UsbHandshakeOk, NeverAuthenticated, Authenticated, TypeOK
<1>7. ASSUME NEW c \in Conns,
             \/ TakeControl(c) \/ HandshakeFails(c) \/ Register(c) \/ TakeMedia(c)
             \/ MediaHelloOk(c) \/ MediaHelloFails(c) \/ AttachMedia(c)
             \/ FinishUpdate(c) \/ ClearOutbound(c) \/ ClearCounter(c)
      PROVE  UNCHANGED <<phone>>
  BY <1>7 DEF TakeControl, HandshakeFails, Register, TakeMedia, MediaHelloOk,
       MediaHelloFails, AttachMedia, FinishUpdate, ClearOutbound,
       ClearCounter
<1>8. ASSUME NEW g \in Starts, NEW u \in UsbConns,
             \/ UsbTake(g, u) \/ UsbKeyFound(g, u) \/ UsbNoKey(g, u) \/ UsbStoreError(g, u)
             \/ UsbHandshakeFails(g, u) \/ UsbSetOutbound(g, u) \/ UsbSetCounter(g, u)
             \/ UsbMediaHelloOk(g, u) \/ UsbMediaHelloFails(g, u) \/ UsbUnsetCounter(g, u)
             \/ UsbUnsetOutbound(g, u)
      PROVE  UNCHANGED <<phone>>
  BY <1>8 DEF UsbTake, UsbKeyFound, UsbNoKey, UsbStoreError, UsbHandshakeFails,
       UsbSetOutbound, UsbSetCounter, UsbMediaHelloOk, UsbMediaHelloFails,
       UsbUnsetCounter, UsbUnsetOutbound
<1>9. ASSUME NEW k \in Kinds,
             \/ Forward(k) \/ ListenerExits(k)
      PROVE  UNCHANGED <<phone>>
  BY <1>9 DEF Forward, ListenerExits
<1>10. ASSUME App PROVE UNCHANGED <<phone>>
  BY <1>10 DEF App, StartUsbSupervisor, StoreConsumer, Shutdown
<1>11. ASSUME NEW c \in Conns, NEW o \in Ops, BeginUpdate(c, o) PROVE UNCHANGED <<phone>>
  BY <1>11 DEF BeginUpdate
<1>12. CASE UNCHANGED vars
  BY <1>12, <1>1 DEF vars
<1> QED
  BY <1>1, <1>2, <1>3, <1>4, <1>5, <1>6, <1>7, <1>8, <1>9, <1>10, <1>11, <1>12
     DEF Next, Phone, Wifi, Usb, Session, App

\* While an authenticated connection c acts, only c can be alone: the slots have to be
\* right for c.
LEMMA OneActs ==
    ASSUME NEW c \in Conns, Authenticated(c)',
           \A w \in WifiConns : waiter'[w] # "none" => Authenticated(w)',
           \A h \in Starts : usb'[h].pc \in {"setCounter", "mediaHello"} => usb'[h].conn \in Conns,
           Alone(c)' =>
              /\ \A h \in Starts : usb'[h].pc \in {"setCounter", "mediaHello"} /\ usb'[h].conn = c =>
                                    outbound' = c
              /\ sess'[c] \in {"spawned", "running"} =>
                    outbound' = c /\ (c \in WifiConns /\ waiter'[c] = "attached" => counter' = c)
    PROVE  SoleSlots'
<1>1. \A d \in Conns : d # c => ~Alone(d)'
  BY DEF Alone, Authenticated, NeverAuthenticated
<1> QED
  BY <1>1 DEF SoleSlots

\* Only another authenticated connection can take the slots from a session.
LEMMA SoleSlotsStep == TypeOK /\ Order /\ SoleSlots /\ [Next]_vars => SoleSlots'
<1> SUFFICES ASSUME TypeOK, Order, SoleSlots, [Next]_vars PROVE SoleSlots'
  OBVIOUS
<1> USE DEF wifiVars, usbVars, sessVars, sharedVars
<1>0. \A d \in Conns : /\ NeverAuthenticated(d)' => NeverAuthenticated(d)
                       /\ Authenticated(d) => Authenticated(d)'
  BY PhoneMonotone
<1>00. \A d \in Conns : Alone(d)' => Alone(d)
  BY <1>0 DEF Alone
<1>000. \A w \in WifiConns : waiter[w] # "none" => Authenticated(w)'
  BY <1>0 DEF SoleSlots
<1>a. \A h \in Starts : /\ usb[h].conn \in UsbConns \cup {None}
                        /\ usb[h].conn # None => sess[usb[h].conn] = "none"
  BY DEF TypeOK, Order, UsbServes, Serves
<1>b. \A h \in Starts : usb'[h].pc \in {"setCounter", "mediaHello"} => usb'[h].conn \in Conns
  <2>1. TypeOK' /\ UsbServes'
    BY TypeStep, OrderStep DEF Order
  <2> QED
    BY <2>1 DEF TypeOK, UsbServes, Serves
<1>c. ASSUME UNCHANGED <<outbound, counter, sess, waiter>>,
             \A h \in Starts : \/ usb'[h] = usb[h]
                               \/ usb'[h].pc \notin {"setCounter", "mediaHello"}
      PROVE  SoleSlots'
  <2>1. \A h \in Starts : usb'[h].pc \in {"setCounter", "mediaHello"} /\ Alone(usb[h].conn)' =>
                            outbound' = usb'[h].conn
    <3> SUFFICES ASSUME NEW h \in Starts, usb'[h].pc \in {"setCounter", "mediaHello"},
                        Alone(usb[h].conn)'
                 PROVE  outbound' = usb'[h].conn
      OBVIOUS
    <3>1. usb'[h] = usb[h] /\ usb[h].conn \in Conns
      BY <1>b, <1>c
    <3>2. Alone(usb[h].conn)
      BY <1>00, <3>1 DEF Alone
    <3> QED
      BY <1>c, <3>1, <3>2 DEF SoleSlots
  <2> QED
    BY <1>00, <1>000, <1>c, <2>1 DEF SoleSlots
<1>d. ASSUME NEW g \in Starts, NEW u \in UsbConns, usb[g].conn = u,
             usb[g].pc \notin {"off", "recv", "aborted", "lookup", "handshake"}
      PROVE  /\ Authenticated(u)' /\ sess[u] = "none" /\ u \notin WifiConns /\ u \in Conns
             /\ \A h \in Starts : h # g => usb[h].conn # u
  BY <1>0, <1>d, ConnsAssumption DEF Order, UsbServes, Serves
<1>1. CASE UNCHANGED <<outbound, counter, sess, waiter, usb>>
  BY <1>1, <1>c
<1>2. ASSUME NEW c \in WifiConns, Register(c) PROVE SoleSlots'
  <2>1. /\ Authenticated(c)' /\ UNCHANGED usb /\ outbound' = c /\ waiter'[c] = "waiting"
        /\ \A w \in WifiConns : w # c => waiter'[w] = waiter[w]
    BY <1>0, <1>2 DEF Register, TypeOK, Order, LoopServes
  <2> QED
    BY <1>000, <1>b, <2>1, OneActs
<1>3. ASSUME NEW c \in WifiConns, MediaHelloOk(c) PROVE SoleSlots'
  <2>1. /\ Authenticated(c)' /\ UNCHANGED <<outbound, counter, sess, usb>>
        /\ waiter'[c] # "attached" \/ waiter' = waiter
        /\ \A w \in WifiConns : w # c => waiter'[w] = waiter[w]
    BY <1>0, <1>3 DEF MediaHelloOk, TypeOK, Authenticated
  <2> QED
    BY <1>00, <1>000, <1>b, <2>1, OneActs DEF SoleSlots
<1>4. ASSUME NEW c \in WifiConns, AttachMedia(c) PROVE SoleSlots'
  <2>1. /\ Authenticated(c)' /\ UNCHANGED <<outbound, sess, usb>> /\ counter' = c
        /\ \A w \in WifiConns : w # c => waiter'[w] = waiter[w]
    BY <1>0, <1>4 DEF AttachMedia, TypeOK, SoleSlots
  <2> QED
    BY <1>00, <1>000, <1>b, <2>1, OneActs DEF SoleSlots
<1>5. ASSUME NEW c \in Conns, FinishUpdate(c) \/ ClearOutbound(c) \/ ClearCounter(c)
      PROVE  SoleSlots'
  <2>1. /\ Authenticated(c)' /\ UNCHANGED <<waiter, usb>> /\ sess[c] # "none"
        /\ \/ sess[c] \in {"spawned", "running"} /\ UNCHANGED <<outbound, counter>>
           \/ sess'[c] \in {"cleared", "done"}
    BY <1>0, <1>5 DEF FinishUpdate, ClearOutbound, ClearCounter, TypeOK, Order, SessionOrder
  <2>2. \A h \in Starts : usb[h].conn # c
    BY <1>a, <2>1, ConnsAssumption
  <2> QED
    BY <1>00, <1>000, <1>b, <2>1, <2>2, OneActs DEF SoleSlots
<1>8. ASSUME NEW g \in Starts, NEW u \in UsbConns,
             \/ UsbDial(g, u) \/ UsbTake(g, u) \/ UsbKeyFound(g, u) \/ UsbNoKey(g, u)
             \/ UsbStoreError(g, u) \/ UsbHandshakeFails(g, u) \/ UsbHandshakeOk(g, u)
             \/ UsbMediaHelloFails(g, u)
      PROVE  SoleSlots'
  <2>1. UNCHANGED <<outbound, counter, sess, waiter>>
    BY <1>8 DEF UsbDial, UsbTake, UsbKeyFound, UsbNoKey, UsbStoreError, UsbHandshakeFails,
         UsbHandshakeOk, UsbMediaHelloFails
  <2>2. \A h \in Starts : \/ usb'[h] = usb[h]
                          \/ usb'[h].pc \notin {"setCounter", "mediaHello"}
    BY <1>8 DEF UsbDial, UsbTake, UsbKeyFound, UsbNoKey, UsbStoreError, UsbHandshakeFails,
         UsbHandshakeOk, UsbMediaHelloFails, TypeOK
  <2> QED
    BY <1>c, <2>1, <2>2
<1>14. ASSUME NEW g \in Starts, NEW u \in UsbConns, UsbSetOutbound(g, u) PROVE SoleSlots'
  <2>1. /\ usb[g].conn = u /\ usb[g].pc = "setOutbound" /\ outbound' = u
        /\ UNCHANGED <<waiter, sess>>
    BY <1>14 DEF UsbSetOutbound
  <2>2. Authenticated(u)' /\ sess'[u] = "none" /\ u \in Conns
    BY <1>d, <2>1
  <2> QED
    BY <1>000, <1>b, <2>1, <2>2, OneActs
<1>15. ASSUME NEW g \in Starts, NEW u \in UsbConns, UsbSetCounter(g, u) PROVE SoleSlots'
  <2>1. /\ usb[g].conn = u /\ usb[g].pc = "setCounter" /\ UNCHANGED <<outbound, waiter, sess>>
    BY <1>15 DEF UsbSetCounter
  <2>2. Authenticated(u)' /\ sess'[u] = "none" /\ u \in Conns
    BY <1>d, <2>1
  <2>3. Alone(u)' => outbound' = u
    BY <1>00, <2>1, <2>2 DEF SoleSlots
  <2> QED
    BY <1>000, <1>b, <2>1, <2>2, <2>3, OneActs
<1>16. ASSUME NEW g \in Starts, NEW u \in UsbConns, UsbMediaHelloOk(g, u) PROVE SoleSlots'
  <2>1. /\ usb[g].conn = u /\ usb[g].pc = "mediaHello" /\ UNCHANGED <<outbound, waiter>>
    BY <1>16 DEF UsbMediaHelloOk
  <2>2. Authenticated(u)' /\ u \notin WifiConns /\ u \in Conns
    BY <1>d, <2>1
  <2>3. Alone(u)' => outbound' = u
    BY <1>00, <2>1, <2>2 DEF SoleSlots
  <2> QED
    BY <1>000, <1>b, <2>1, <2>2, <2>3, OneActs
<1>18. ASSUME NEW g \in Starts, NEW u \in UsbConns, UsbUnsetCounter(g, u) \/ UsbUnsetOutbound(g, u)
       PROVE  SoleSlots'
  <2>1. /\ usb[g].conn = u /\ usb[g].pc \in {"unsetCounter", "unsetOutbound"}
        /\ UNCHANGED <<waiter, sess>>
    BY <1>18 DEF UsbUnsetCounter, UsbUnsetOutbound
  <2>2. /\ Authenticated(u)' /\ sess'[u] = "none" /\ u \in Conns
        /\ \A h \in Starts : h # g => usb[h].conn # u
    BY <1>d, <2>1
  <2>3. usb'[g].pc \notin {"setCounter", "mediaHello"} /\ \A h \in Starts : h # g => usb'[h] = usb[h]
    BY <1>18 DEF UsbUnsetCounter, UsbUnsetOutbound, TypeOK
  <2> QED
    BY <1>000, <1>b, <2>1, <2>2, <2>3, OneActs
<1>20. ASSUME NEW g \in Starts, StartUsbSupervisor(g) \/ StoreConsumer(g) PROVE SoleSlots'
  BY <1>20, <1>c DEF StartUsbSupervisor, StoreConsumer, Abort, TypeOK
<1>21. ASSUME Shutdown PROVE SoleSlots'
  <2>1. /\ UNCHANGED <<outbound, counter, sess>>
        /\ \A h \in Starts : usb'[h] = usb[h] \/ usb'[h].pc \notin {"setCounter", "mediaHello"}
    BY <1>21 DEF Shutdown, Abort
  <2>2. \A w \in WifiConns : /\ waiter'[w] # "none" => waiter[w] # "none"
                             /\ waiter'[w] = "attached" => waiter[w] = "attached"
    BY <1>21 DEF Shutdown
  <2>3. ASSUME NEW h \in Starts, usb'[h].pc \in {"setCounter", "mediaHello"},
               Alone(usb[h].conn)'
        PROVE  outbound' = usb'[h].conn
    <3>1. usb'[h] = usb[h] /\ usb[h].conn \in Conns
      BY <1>b, <2>1, <2>3
    <3>2. Alone(usb[h].conn)
      BY <1>00, <2>3, <3>1 DEF Alone
    <3> QED
      BY <2>1, <2>3, <3>1, <3>2 DEF SoleSlots
  <2> QED
    BY <1>00, <1>000, <2>1, <2>2, <2>3 DEF SoleSlots
<1>22. ASSUME NEW c \in Conns,
             \/ Dial(c) \/ TakeControl(c) \/ HandshakeOk(c) \/ HandshakeFails(c)
             \/ TakeMedia(c) \/ MediaHelloFails(c) \/ SendMediaHello(c)
      PROVE  UNCHANGED <<outbound, counter, sess, waiter, usb>>
  BY <1>22 DEF Dial, TakeControl, HandshakeOk, HandshakeFails, TakeMedia,
       MediaHelloFails, SendMediaHello
<1>24. ASSUME NEW k \in Kinds, Forward(k) \/ ListenerExits(k)
      PROVE  UNCHANGED <<outbound, counter, sess, waiter, usb>>
  BY <1>24 DEF Forward, ListenerExits
<1>25. ASSUME NEW c \in Conns, NEW o \in Ops, BeginUpdate(c, o)
       PROVE  UNCHANGED <<outbound, counter, sess, waiter, usb>>
  BY <1>25 DEF BeginUpdate
<1>26. CASE UNCHANGED vars
  BY <1>26, <1>1 DEF vars
<1> QED
  BY <1>1, <1>2, <1>3, <1>4, <1>5, <1>8, <1>14, <1>15, <1>16, <1>18, <1>20, <1>21,
     <1>22, <1>24, <1>25, <1>26
     DEF Next, Phone, Wifi, Usb, Session, App

\* A loop that overwrites the state while it serves c, which has no session yet,
\* hides no sole session.
LEMMA SnapStateOnly ==
    ASSUME TypeOK, SoleShown, NEW c \in Conns, NEW st,
           phone[c] # "off", sess[c] = "none",
           UNCHANGED <<phone, sess, op, copy>>, snap' = [snap EXCEPT !.state = st]
    PROVE  SoleShown'
<1>1. snap'.device = snap.device /\ snap'.cameras = snap.cameras
  BY DEF TypeOK, Snapshots
<1>2. Known(snap)' /\ \A x \in Conns : op'[x] # None => Known(copy[x])'
  BY <1>1 DEF SoleShown, Known
<1>3. ASSUME NEW x \in Conns, \A d \in Conns \ {x} : phone[d] = "off"
      PROVE  ~Running(x)'
  BY <1>3 DEF Running
<1> QED
  BY <1>2, <1>3 DEF SoleShown, ReadyState

\* Only another dialed connection can hide a running session from the snapshot.
LEMMA SoleShownStep == TypeOK /\ Order /\ SoleShown /\ [Next]_vars => SoleShown'
<1> SUFFICES ASSUME TypeOK, Order, SoleShown, [Next]_vars PROVE SoleShown'
  OBVIOUS
<1> USE DEF wifiVars, usbVars, sessVars, sharedVars
<1>0. \A d \in Conns : phone'[d] = "off" => phone[d] = "off"
  BY PhoneMonotone
<1>00. /\ snap.device \in Conns \cup {None} /\ snap.cameras \in Conns \cup {None}
       /\ \A c \in Conns : op[c] # None => /\ copy[c].device \in Conns \cup {None}
                                           /\ copy[c].cameras \in Conns \cup {None}
  BY DEF TypeOK, Snapshots
<1>1. CASE UNCHANGED <<snap, sess, op, copy>>
  BY <1>1, <1>0, <1>00 DEF SoleShown, Running, Known
<1>2. ASSUME NEW c \in WifiConns, TakeControl(c) PROVE SoleShown'
  <2>1. phone[c] = "dialed" /\ sess[c] = "none"
    <3>1. 1 \in 1..Len(wifiq) /\ wifiq[1] = <<"control", c>>
      BY <1>2, TailFacts DEF TakeControl, TypeOK
    <3>2. Unserved(wifiq[1][2]) /\ wifiq[1][2] = c
      BY <3>1 DEF Order, ControlOnce
    <3> QED
      BY <3>2 DEF Unserved
  <2>2. UNCHANGED <<phone, sess, op, copy>> /\ snap' = [snap EXCEPT !.state = "WifiHandshake"]
    BY <1>2 DEF TakeControl
  <2> QED
    BY <2>1, <2>2, SnapStateOnly
<1>3. ASSUME NEW c \in WifiConns, HandshakeFails(c) PROVE SoleShown'
  <2>1. phone[c] = "dialed" /\ sess[c] = "none"
    BY <1>3 DEF HandshakeFails, Order, LoopServes
  <2>2. UNCHANGED <<phone, sess, op, copy>> /\ snap' = [snap EXCEPT !.state = "Listening0"]
    BY <1>3 DEF HandshakeFails
  <2> QED
    BY <2>1, <2>2, SnapStateOnly
<1>4. ASSUME NEW c \in WifiConns, Register(c) PROVE SoleShown'
  BY <1>4, <1>0, <1>00 DEF Register, SoleShown, Running, Known, TypeOK
<1>5. ASSUME NEW c \in Conns, FinishUpdate(c) PROVE SoleShown'
  <2>1. /\ copy[c] \in Snapshots /\ op[c] \in Ops /\ op[c] # None /\ Known(copy[c])
        /\ snap' = Apply(op[c], c, copy[c]) /\ op' = [op EXCEPT ![c] = None]
        /\ copy' = [copy EXCEPT ![c] = None] /\ UNCHANGED phone
        /\ sess' = [sess EXCEPT ![c] = AfterUpdate(op[c])]
    BY <1>5 DEF FinishUpdate, TypeOK, SoleShown
  <2>2. /\ sess[c] = IF op[c] = "ready" THEN "spawned" ELSE "running"
        /\ phone[c] # "off"
    BY <2>1 DEF Order, SessionOrder, Authenticated
  <2>3. op[c] \in {"ready", "device", "cameras", "telemetry", "reconnecting", "closed"}
    BY <2>1, MessagesAssumption DEF Ops
  <2>4. Known(snap)'
    BY <2>1, <2>2, <2>3, ConnsAssumption DEF Known, Apply, Snapshots
  <2>5. \A x \in Conns : op'[x] # None => op[x] # None /\ x # c /\ copy'[x] = copy[x] /\ op'[x] = op[x]
    BY <2>1 DEF TypeOK
  <2>6. \A x \in Conns : op'[x] # None => Known(copy[x])'
    BY <2>1, <2>5 DEF Known, SoleShown
  <2>7. ASSUME NEW x \in Conns, \A d \in Conns \ {x} : phone[d] = "off"
        PROVE  /\ Running(x)' => snap'.state = ReadyState(x)
               /\ op'[x] \notin {None, "ready"} => copy'[x].state = ReadyState(x)
    <3>1. x = c
      BY <2>2, <2>7
    <3>2. Running(c)' => op[c] \in {"ready", "device", "cameras", "telemetry"}
      BY <2>1, <2>3 DEF Running, AfterUpdate, TypeOK
    <3>3. op[c] # "ready" => copy[c].state = ReadyState(c)
      BY <2>1, <2>7, <3>1 DEF SoleShown
    <3>4. Running(c)' => snap'.state = ReadyState(c)
      BY <2>1, <3>2, <3>3 DEF Apply, Snapshots
    <3> QED
      BY <2>5, <3>1, <3>4
  <2> QED
    BY <2>1, <2>4, <2>6, <2>7 DEF SoleShown, ReadyState
<1>6. ASSUME NEW c \in Conns, ClearOutbound(c) PROVE SoleShown'
  BY <1>6, <1>0, <1>00 DEF ClearOutbound, SoleShown, Running, Known, TypeOK
<1>7. ASSUME NEW c \in Conns, ClearCounter(c) PROVE SoleShown'
  BY <1>7, <1>0, <1>00 DEF ClearCounter, SoleShown, Running, Known, TypeOK
<1>8. ASSUME NEW c \in Conns, NEW o \in Ops, BeginUpdate(c, o) PROVE SoleShown'
  BY <1>8, <1>0, <1>00 DEF BeginUpdate, SoleShown, Running, Known, TypeOK
<1>9. ASSUME NEW g \in Starts, NEW u \in UsbConns, UsbTake(g, u) PROVE SoleShown'
  <2>1. phone[u] = "dialed" /\ sess[u] = "none"
    <3>1. 1 \in 1..Len(usbq[g]) /\ usbq[g][1] = u
      BY <1>9, TailFacts DEF UsbTake, TypeOK
    <3> QED
      BY <3>1 DEF Order, UsbOnce, Waits
  <2>2. UNCHANGED <<phone, sess, op, copy>> /\ snap' = [snap EXCEPT !.state = "UsbHandshake"]
    BY <1>9 DEF UsbTake
  <2> QED
    BY <2>1, <2>2, SnapStateOnly
<1>10. ASSUME NEW g \in Starts, NEW u \in UsbConns, UsbNoKey(g, u) PROVE SoleShown'
  <2>1. phone[u] = "dialed" /\ sess[u] = "none"
    BY <1>10, ConnsAssumption DEF UsbNoKey, Order, UsbServes, Serves
  <2>2. UNCHANGED <<phone, sess, op, copy>> /\ snap' = [snap EXCEPT !.state = "Idle"]
    BY <1>10 DEF UsbNoKey
  <2> QED
    BY <2>1, <2>2, SnapStateOnly
<1>11. ASSUME NEW g \in Starts, NEW u \in UsbConns, UsbHandshakeFails(g, u) PROVE SoleShown'
  <2>1. phone[u] = "dialed" /\ sess[u] = "none"
    BY <1>11, ConnsAssumption DEF UsbHandshakeFails, Order, UsbServes, Serves
  <2>2. UNCHANGED <<phone, sess, op, copy>> /\ snap' = [snap EXCEPT !.state = "Idle"]
    BY <1>11 DEF UsbHandshakeFails
  <2> QED
    BY <2>1, <2>2, SnapStateOnly
<1>12. ASSUME NEW g \in Starts, NEW u \in UsbConns, UsbMediaHelloOk(g, u) PROVE SoleShown'
  BY <1>12, <1>0, <1>00 DEF UsbMediaHelloOk, SoleShown, Running, Known, TypeOK
<1>13. ASSUME NEW c \in Conns,
             \/ Dial(c) \/ HandshakeOk(c) \/ TakeMedia(c) \/ MediaHelloOk(c)
             \/ MediaHelloFails(c) \/ AttachMedia(c) \/ SendMediaHello(c)
      PROVE  UNCHANGED <<snap, sess, op, copy>>
  BY <1>13 DEF Dial, HandshakeOk, TakeMedia, MediaHelloOk, MediaHelloFails,
       AttachMedia, SendMediaHello
<1>14. ASSUME NEW g \in Starts, NEW u \in UsbConns,
             \/ UsbDial(g, u) \/ UsbKeyFound(g, u) \/ UsbStoreError(g, u) \/ UsbHandshakeOk(g, u)
             \/ UsbSetOutbound(g, u) \/ UsbSetCounter(g, u) \/ UsbMediaHelloFails(g, u)
             \/ UsbUnsetCounter(g, u) \/ UsbUnsetOutbound(g, u)
      PROVE  UNCHANGED <<snap, sess, op, copy>>
  BY <1>14 DEF UsbDial, UsbKeyFound, UsbStoreError, UsbHandshakeOk, UsbSetOutbound,
       UsbSetCounter, UsbMediaHelloFails, UsbUnsetCounter, UsbUnsetOutbound
<1>15. ASSUME NEW k \in Kinds,
             \/ Forward(k) \/ ListenerExits(k)
      PROVE  UNCHANGED <<snap, sess, op, copy>>
  BY <1>15 DEF Forward, ListenerExits
<1>16. ASSUME App PROVE UNCHANGED <<snap, sess, op, copy>>
  BY <1>16 DEF App, StartUsbSupervisor, StoreConsumer, Shutdown
<1>17. CASE UNCHANGED vars
  BY <1>17, <1>1 DEF vars
<1> QED
  BY <1>1, <1>2, <1>3, <1>4, <1>5, <1>6, <1>7, <1>8, <1>9, <1>10, <1>11, <1>12,
       <1>13, <1>14, <1>15, <1>16, <1>17
     DEF Next, Phone, Wifi, Usb, Session, App

-----------------------------------------------------------------------------
\* The whole invariant holds when AppCore::start returns.
LEMMA InitIInv == Init => IInv
<1> SUFFICES ASSUME Init PROVE IInv
  OBVIOUS
<1>1. TypeOK
  BY InitTypes
<1> USE DEF Init
<1>2. ControlOnce /\ LoopServes
  BY DEF ControlOnce, LoopServes
<1>3. UsbOnce /\ UsbServes /\ SessionOrder
  BY DEF UsbOnce, UsbServes, Serves, SessionOrder
<1>4. ReadyHasSession /\ OutboundNotFinished
  BY DEF ReadyHasSession, OutboundNotFinished, InitSnap, Ready
<1>5. SoleSlots /\ SoleShown
  BY DEF SoleSlots, SoleShown, Running, Known, InitSnap
<1> QED
  BY <1>1, <1>2, <1>3, <1>4, <1>5 DEF IInv, Order

\* The inductive invariant holds in every reachable state.
THEOREM Invariance == Spec => []IInv
<1>1. IInv /\ [Next]_vars => IInv'
  <2> SUFFICES ASSUME IInv, [Next]_vars PROVE IInv'
    OBVIOUS
  <2>1. TypeOK /\ Order /\ ReadyHasSession /\ OutboundNotFinished /\ SoleSlots /\ SoleShown
    BY DEF IInv
  <2>2. TypeOK' /\ Order'
    BY <2>1, TypeStep, OrderStep
  <2>3. ReadyHasSession' /\ OutboundNotFinished'
    BY <2>1, ReadyStep, OutboundStep
  <2>4. SoleSlots' /\ SoleShown'
    BY <2>1, SoleSlotsStep, SoleShownStep
  <2> QED
    BY <2>2, <2>3, <2>4 DEF IInv
<1> QED
  BY InitIInv, <1>1, PTL DEF Spec

\* The UI is never left showing Ready without a running session, however the
\* clone-and-send updates of any number of sessions interleave with the loops.
THEOREM NoReadyWithoutSession == Spec => []ReadyHasSession
  BY Invariance, PTL DEF IInv

\* set_camera never finds the channel of a session that has been cleaned up.
THEOREM NoFinishedOutbound == Spec => []OutboundNotFinished
  BY Invariance, PTL DEF IInv

\* With one source at a time in the sense of SoleSourceConsistent, the slots and
\* the snapshot are those of the running session, for any number of connections.
THEOREM SoleSource == Spec => []SoleSourceConsistent
<1>1. IInv => SoleSourceConsistent
  <2> SUFFICES ASSUME IInv, NEW c \in Conns
               PROVE  /\ (\A d \in Conns \ {c} : NeverAuthenticated(d)) =>
                            SoleOutbound(c) /\ SoleCounter(c)
                      /\ (\A d \in Conns \ {c} : phone[d] = "off") => SoleSnapshot(c)
    BY DEF SoleSourceConsistent
  <2>1. ASSUME \A d \in Conns \ {c} : NeverAuthenticated(d)
        PROVE  SoleOutbound(c) /\ SoleCounter(c)
    BY <2>1 DEF IInv, SoleSlots, Alone, SoleOutbound, SoleCounter, Running
  <2>2. ASSUME \A d \in Conns \ {c} : phone[d] = "off"
        PROVE  SoleSnapshot(c)
    <3>1. snap.device \in Conns \cup {None} /\ snap.cameras \in Conns \cup {None}
      BY DEF IInv, TypeOK, Snapshots
    <3>2. snap.device \in {None, c} /\ snap.cameras \in {None, c}
      BY <2>2, <3>1 DEF IInv, SoleShown, Known
    <3> QED
      BY <2>2, <3>2 DEF IInv, SoleShown, SoleSnapshot
  <2> QED
    BY <2>1, <2>2
<1> QED
  BY Invariance, <1>1, PTL


-----------------------------------------------------------------------------
(* The pairing store, which the USB consumer asks for the key of the device *)
(* it dialed.  Its inductive invariant.                                     *)

\* The write lock is held exactly by the call between Update and Finish, and calls
\* only exist in a running process.
Exclusive ==
    /\ \A p \in Procs : pc[p] \in {"write", "rename"} <=> lock = p
    /\ ~up => lock = None /\ \A p \in Procs : pc[p] = "idle"
    /\ \A p \in Procs : pc[p] # "idle" => req[p] \in Requests

\* What the holder is about to save is the map in memory, with its own change.
SavesMemory ==
    \A p \in Procs :
       /\ pc[p] = "write" => text[p] = mem
       /\ pc[p] = "rename" => tmp = mem
       /\ pc[p] \in {"write", "rename"} => mem[req[p].udid] = req[p].key

StoreInv == /\ StoreTypeOK /\ Exclusive /\ SavesMemory
            /\ DiskReadable /\ PromiseKept /\ MemoryMatchesFile

\* The invariant holds at the start.
LEMMA InitStoreInv == StoreInit => StoreInv
<1> SUFFICES ASSUME StoreInit PROVE StoreInv
  OBVIOUS
<1>1. Empty \in Contents /\ \A u \in Udids : Empty[u] = None
  BY DEF Empty, Contents
<1>2. StoreTypeOK
  BY <1>1 DEF StoreInit, StoreTypeOK, Files
<1>3. Exclusive /\ SavesMemory
  BY StoreAssumption DEF StoreInit, Exclusive, SavesMemory
<1>4. DiskReadable /\ PromiseKept /\ MemoryMatchesFile
  BY <1>1, StoreAssumption DEF StoreInit, DiskReadable, PromiseKept, MemoryMatchesFile
<1> QED
  BY <1>2, <1>3, <1>4 DEF StoreInv

\* The types are preserved by every step.
LEMMA StoreTypeStep == StoreInv /\ [StoreNext]_storeVars => StoreTypeOK'
<1> SUFFICES ASSUME StoreInv, [StoreNext]_storeVars PROVE StoreTypeOK'
  OBVIOUS
<1> USE DEF StoreInv, StoreTypeOK, Files
<1>1. ASSUME Open PROVE StoreTypeOK'
  BY <1>1 DEF Open, callVars
<1>2. ASSUME NEW p \in Procs, NEW r \in Requests, Call(p, r) PROVE StoreTypeOK'
  BY <1>2 DEF Call
<1>3. ASSUME NEW p \in Procs, Update(p) PROVE StoreTypeOK'
  <2>1. req[p] \in Requests
    BY <1>3 DEF Exclusive, Update
  <2>2. req[p].udid \in Udids /\ req[p].key \in Keys \cup {None}
    BY <2>1 DEF Requests
  <2>3. mem' \in Contents
    BY <1>3, <2>2 DEF Update, Contents
  <2>4. promised' \in [Udids -> SUBSET (Keys \cup {None})]
    BY <1>3, <2>2 DEF Update
  <2> QED
    BY <1>3, <2>3, <2>4 DEF Update
<1>4. ASSUME NEW p \in Procs, WriteTmp(p) PROVE StoreTypeOK'
  <2>1. text[p] \in Contents
    BY <1>4 DEF WriteTmp, SavesMemory
  <2> QED
    BY <1>4, <2>1 DEF WriteTmp
<1>5. ASSUME NEW p \in Procs, WriteFails(p) PROVE StoreTypeOK'
  BY <1>5 DEF WriteFails, Finish
<1>6. ASSUME NEW p \in Procs, Rename(p) PROVE StoreTypeOK'
  <2>1. tmp \in Contents
    BY <1>6 DEF Rename, SavesMemory
  <2>2. req[p].udid \in Udids /\ req[p].key \in Keys \cup {None}
    BY <1>6 DEF Exclusive, Rename, Requests
  <2>3. promised' \in [Udids -> SUBSET (Keys \cup {None})]
    BY <1>6, <2>2 DEF Rename
  <2> QED
    BY <1>6, <2>1, <2>3 DEF Rename, Finish
<1>7. ASSUME NEW p \in Procs, RenameFails(p) PROVE StoreTypeOK'
  BY <1>7 DEF RenameFails, Finish
<1>9. ASSUME Crash PROVE StoreTypeOK'
  <2>1. Empty \in Contents
    BY DEF Empty, Contents
  <2> QED
    BY <1>9, <2>1 DEF Crash, Restart
<1>10. CASE UNCHANGED storeVars
  BY <1>10 DEF storeVars, callVars
<1> QED
  BY <1>1, <1>2, <1>3, <1>4, <1>5, <1>6, <1>7, <1>9, <1>10 DEF StoreNext

\* Only the holder of the lock is between Update and Finish, after every step.
LEMMA ExclusiveStep == StoreInv /\ [StoreNext]_storeVars => Exclusive'
<1> SUFFICES ASSUME StoreInv, [StoreNext]_storeVars PROVE Exclusive'
  OBVIOUS
<1> USE StoreAssumption DEF StoreInv, StoreTypeOK, Exclusive
<1>1. ASSUME Open PROVE Exclusive'
  BY <1>1 DEF Open, callVars
<1>2. ASSUME NEW p \in Procs, NEW r \in Requests, Call(p, r) PROVE Exclusive'
  BY <1>2 DEF Call
<1>3. ASSUME NEW p \in Procs, Update(p) PROVE Exclusive'
  <2>1. up
    BY <1>3 DEF Update, Exclusive
  <2> QED
    BY <1>3, <2>1 DEF Update
<1>4. ASSUME NEW p \in Procs, WriteTmp(p) PROVE Exclusive'
  BY <1>4 DEF WriteTmp
<1>5. ASSUME NEW p \in Procs, WriteFails(p) PROVE Exclusive'
  BY <1>5 DEF WriteFails, Finish
<1>6. ASSUME NEW p \in Procs, Rename(p) PROVE Exclusive'
  BY <1>6 DEF Rename, Finish
<1>7. ASSUME NEW p \in Procs, RenameFails(p) PROVE Exclusive'
  BY <1>7 DEF RenameFails, Finish
<1>9. ASSUME Crash PROVE Exclusive'
  BY <1>9 DEF Crash, Restart
<1>10. CASE UNCHANGED storeVars
  BY <1>10 DEF storeVars, callVars
<1> QED
  BY <1>1, <1>2, <1>3, <1>4, <1>5, <1>6, <1>7, <1>9, <1>10 DEF StoreNext

\* The text a call is about to save stays the map in memory: no other call can
\* change the map or the temporary file under its lock.
LEMMA SavesStep == StoreInv /\ [StoreNext]_storeVars => SavesMemory'
<1> SUFFICES ASSUME StoreInv, [StoreNext]_storeVars PROVE SavesMemory'
  OBVIOUS
<1> USE StoreAssumption DEF StoreInv, StoreTypeOK, Exclusive, SavesMemory
<1>1. ASSUME Open PROVE SavesMemory'
  BY <1>1 DEF Open, callVars
<1>2. ASSUME NEW p \in Procs, NEW r \in Requests, Call(p, r) PROVE SavesMemory'
  BY <1>2 DEF Call
<1>3. ASSUME NEW p \in Procs, Update(p) PROVE SavesMemory'
  <2>1. req[p].udid \in Udids /\ req' = req /\ lock = None
    BY <1>3 DEF Update, Requests
  <2>2. mem'[req[p].udid] = req[p].key
    BY <1>3, <2>1 DEF Update, Contents
  <2>3. \A q \in Procs : q # p => pc'[q] \notin {"write", "rename"}
    BY <1>3, <2>1 DEF Update
  <2>4. pc'[p] = "write" /\ text'[p] = mem'
    BY <1>3 DEF Update
  <2> QED
    BY <2>1, <2>2, <2>3, <2>4
<1>4. ASSUME NEW p \in Procs, WriteTmp(p) PROVE SavesMemory'
  BY <1>4 DEF WriteTmp
<1>5. ASSUME NEW p \in Procs, WriteFails(p) PROVE SavesMemory'
  BY <1>5 DEF WriteFails, Finish
<1>6. ASSUME NEW p \in Procs, Rename(p) PROVE SavesMemory'
  BY <1>6 DEF Rename, Finish
<1>7. ASSUME NEW p \in Procs, RenameFails(p) PROVE SavesMemory'
  BY <1>7 DEF RenameFails, Finish
<1>9. ASSUME Crash PROVE SavesMemory'
  BY <1>9 DEF Crash, Restart
<1>10. CASE UNCHANGED storeVars
  BY <1>10 DEF storeVars, callVars
<1> QED
  BY <1>1, <1>2, <1>3, <1>4, <1>5, <1>6, <1>7, <1>9, <1>10 DEF StoreNext

\* No step breaks a promise, tears the file or lets it fall behind unnoticed.
LEMMA PromiseStep == StoreInv /\ [StoreNext]_storeVars => (DiskReadable /\ PromiseKept /\ MemoryMatchesFile)'
<1> DEFINE Safe == DiskReadable /\ PromiseKept /\ MemoryMatchesFile
<1> SUFFICES ASSUME StoreInv, [StoreNext]_storeVars PROVE Safe'
  OBVIOUS
<1> USE StoreAssumption DEF StoreInv, StoreTypeOK, DiskReadable, PromiseKept, MemoryMatchesFile
<1>1. ASSUME Open PROVE Safe'
  BY <1>1 DEF Open
<1>2. ASSUME NEW p \in Procs, NEW r \in Requests, Call(p, r) PROVE Safe'
  BY <1>2 DEF Call
<1>3. ASSUME NEW p \in Procs, Update(p) PROVE Safe'
  <2>1. req[p].udid \in Udids /\ req[p].key \in Keys \cup {None}
    BY <1>3 DEF Update, Exclusive, Requests
  <2>2. \A u \in Udids : promised[u] \subseteq promised'[u]
    BY <1>3, <2>1 DEF Update
  <2>3. ASSUME up PROVE \A u \in Udids : mem'[u] \in promised'[u]
    BY <1>3, <2>1, <2>3 DEF Update, Contents
  <2>4. lock' # None /\ disk' = disk /\ up' = up
    BY <1>3 DEF Update
  <2> QED
    BY <2>2, <2>3, <2>4
<1>4. ASSUME NEW p \in Procs, WriteTmp(p) PROVE Safe'
  BY <1>4 DEF WriteTmp
<1>5. ASSUME NEW p \in Procs, WriteFails(p) PROVE Safe'
  BY <1>5 DEF WriteFails, Finish
<1>6. ASSUME NEW p \in Procs, Rename(p) PROVE Safe'
  <2>1. /\ req[p].udid \in Udids /\ req[p].key \in Keys \cup {None}
        /\ lock = p /\ up
    BY <1>6 DEF Rename, Exclusive, Requests
  <2>2. tmp = mem /\ mem[req[p].udid] = req[p].key
    BY <1>6 DEF Rename, SavesMemory
  <2>3. disk' = mem /\ mem' = mem /\ mem \in Contents
    BY <1>6, <2>2 DEF Rename
  <2>4. \A u \in Udids : mem[u] \in promised'[u]
    BY <1>6, <2>1, <2>2 DEF Rename
  <2> QED
    BY <2>3, <2>4
<1>7. ASSUME NEW p \in Procs, RenameFails(p) PROVE Safe'
  BY <1>7 DEF RenameFails, Finish
<1>9. ASSUME Crash PROVE Safe'
  BY <1>9 DEF Crash, Restart
<1>10. CASE UNCHANGED storeVars
  BY <1>10 DEF storeVars
<1> QED
  BY <1>1, <1>2, <1>3, <1>4, <1>5, <1>6, <1>7, <1>9, <1>10 DEF StoreNext

-----------------------------------------------------------------------------
\* The inductive invariant holds in every reachable state.
THEOREM StoreInvariance == StoreSpec => []StoreInv
<1>1. StoreInv /\ [StoreNext]_storeVars => StoreInv'
  BY StoreTypeStep, ExclusiveStep, SavesStep, PromiseStep DEF StoreInv
<1> QED
  BY InitStoreInv, <1>1, PTL DEF StoreSpec

\* Every variable keeps its type.
THEOREM StoreTypeCorrect == StoreSpec => []StoreTypeOK
<1>1. StoreInv => StoreTypeOK
  BY DEF StoreInv
<1> QED
  BY StoreInvariance, <1>1, PTL

\* However the process dies, pairings.toml decodes: the next start succeeds.
THEOREM CrashAtomic == StoreSpec => []DiskReadable
<1>1. StoreInv => DiskReadable
  BY DEF StoreInv
<1> QED
  BY StoreInvariance, <1>1, PTL

\* A put or forget that returned Ok survives crashes, failed saves of other
\* calls and any interleaving with them.
THEOREM Durable == StoreSpec => []PromiseKept
<1>1. StoreInv => PromiseKept
  BY DEF StoreInv
<1> QED
  BY StoreInvariance, <1>1, PTL

\* Unless the last save failed, the file holds what the store answers with.
THEOREM MemoryIsSaved == StoreSpec => []MemoryMatchesFile
<1>1. StoreInv => MemoryMatchesFile
  BY DEF StoreInv
<1> QED
  BY StoreInvariance, <1>1, PTL
=============================================================================
