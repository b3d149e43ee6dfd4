--------------------------- MODULE UsbLinkProofs ----------------------------
(***************************************************************************)
(* Proofs about UsbLink, for any number of attachments, dials, keys and    *)
(* faults and every capacity of the channel.                               *)
(***************************************************************************)
EXTENDS UsbLink, FiniteSetTheorems, SequenceTheorems, TLAPS

\* A supervisor that dials has a dial.
Dialing == \A s \in Sups :
    sup[s] \in {"control", "media", "send"} => target[s].dial \in DOMAIN dials

\* The user is asked for a driver that waits for the answer.
Prompted == prompt # 0 => prompt \in DOMAIN drivers /\ drivers[prompt].step = "asked"

\* The keys either end holds.
DeskKeys == {dkey} \cup {job[s].key : s \in Sups}
PhoneKeys == {pkey, saving} \cup {drivers[i].cred : i \in DOMAIN drivers}

\* No key is held that was not drawn, and a handshake has one.
Drawn == /\ \A k \in DeskKeys \cup PhoneKeys : k <= keys
         /\ \A s \in Sups : cons[s] \in {"handshake", "media"} => job[s].key # 0

\* An iPhone and the desktop never hold the same key: each draws its own.
Apart == phone = "ios" => \A k \in DeskKeys : k # 0 => k \notin PhoneKeys

\* So the desktop accepts no iPhone.
IPhoneUnserved == /\ phone = "ios" => \A s \in Sups : cons[s] # "media"
                  /\ OnlySharedKeysServe

\* The inductive invariant.
IInv == TypeOK /\ Dialing /\ Prompted /\ Drawn /\ Apart /\ IPhoneUnserved
-----------------------------------------------------------------------------
(* What each step leaves alone. *)

\* Every step changes only what its program writes.
LEMMA Footprints ==
    /\ Plug =>
       UNCHANGED <<backend, phone, sup, target, dials, chan, cons, job, dkey, pkey,
                     keys, saving, tasks, pending, calls, drivers, prompt, faults>>
    /\ Unplug =>
       UNCHANGED <<backend, phone, plugs, id, known, sup, target, chan, cons, job,
                     dkey, pkey, keys, saving, tasks, pending, calls, drivers, prompt>>
    /\ \A s \in Sups : Poll(s) =>
       UNCHANGED <<backend, phone, plugs, id, attached, sup, target, dials, chan,
                     cons, job, dkey, pkey, keys, saving, tasks, pending, calls, drivers,
                     prompt, faults>>
    /\ \A s \in Sups : ListenFails(s) =>
       UNCHANGED <<backend, phone, plugs, id, attached, known, queue, target, dials,
                     chan, cons, job, dkey, pkey, keys, saving, tasks, pending, calls,
                     drivers, prompt>>
    /\ \A s \in Sups : TakeEvent(s) =>
       UNCHANGED <<backend, phone, plugs, id, attached, known, chan, cons, job, dkey,
                     pkey, keys, saving, tasks, pending, calls, drivers, prompt, faults>>
    /\ \A s \in Sups : OpenControl(s) =>
       UNCHANGED <<backend, phone, plugs, id, attached, known, queue, chan, cons, job,
                     dkey, pkey, keys, saving, pending, calls, drivers, prompt, faults>>
    /\ \A s \in Sups : OpenMedia(s) =>
       UNCHANGED <<backend, phone, plugs, id, attached, known, queue, chan, cons, job,
                     dkey, pkey, keys, saving, pending, calls, drivers, prompt, faults>>
    /\ \A s \in Sups : DialFails(s) =>
       UNCHANGED <<backend, phone, plugs, id, attached, known, queue, chan, cons, job,
                     dkey, pkey, keys, saving, tasks, pending, calls, drivers, prompt>>
    /\ \A s \in Sups : SendOut(s) =>
       UNCHANGED <<backend, phone, plugs, id, attached, known, queue, cons, job, dkey,
                     pkey, keys, saving, tasks, pending, calls, drivers, prompt, faults>>
    /\ \A s \in Sups : Receive(s) =>
       UNCHANGED <<backend, phone, plugs, id, attached, known, queue, sup, target,
                     dkey, pkey, keys, saving, tasks, pending, calls, drivers, prompt,
                     faults>>
    /\ \A s \in Sups : HandshakeOk(s) =>
       UNCHANGED <<backend, phone, plugs, id, attached, known, queue, sup, target,
                     dials, chan, dkey, pkey, keys, saving, tasks, pending, calls, prompt,
                     faults>>
    /\ \A s \in Sups : MediaHello(s) =>
       UNCHANGED <<backend, phone, plugs, id, attached, known, queue, sup, target,
                     chan, dkey, pkey, keys, saving, tasks, pending, calls, drivers,
                     prompt, faults>>
    /\ \A s \in Sups : ConsumerFails(s) =>
       UNCHANGED <<backend, phone, plugs, id, attached, known, queue, sup, target,
                     chan, dkey, pkey, keys, saving, tasks, pending, calls, drivers,
                     prompt>>
    /\ \A n \in Dials : SessionEnds(n) =>
       UNCHANGED <<backend, phone, plugs, id, attached, known, queue, sup, target,
                     chan, cons, job, dkey, pkey, keys, saving, tasks, pending, calls,
                     drivers, prompt, faults>>
    /\ StartSupervisor =>
       UNCHANGED <<backend, phone, plugs, id, attached, target, dials, chan, job, dkey,
                     pkey, keys, saving, tasks, pending, calls, drivers, prompt>>
    /\ AbortConsumer =>
       UNCHANGED <<backend, phone, plugs, id, attached, known, queue, sup, target,
                     dkey, pkey, keys, saving, tasks, pending, calls, drivers, prompt,
                     faults>>
    /\ TrustDevice =>
       UNCHANGED <<backend, phone, plugs, id, attached, known, queue, sup, target,
                     dials, chan, cons, job, pkey, saving, tasks, pending, calls, drivers,
                     prompt>>
    /\ ForgetDevice =>
       UNCHANGED <<backend, phone, plugs, id, attached, known, queue, sup, target,
                     dials, chan, cons, job, pkey, keys, saving, tasks, pending, calls,
                     drivers, prompt>>
    /\ Accept =>
       UNCHANGED <<backend, phone, plugs, id, attached, known, queue, sup, target,
                     dials, chan, cons, job, dkey, pkey, keys, saving, prompt, faults>>
    /\ NextSession =>
       UNCHANGED <<backend, phone, plugs, id, attached, known, queue, sup, target,
                     dials, chan, cons, job, dkey, pkey, keys, saving, tasks, prompt,
                     faults>>
    /\ \A n \in Dials : Resolve(n) =>
       UNCHANGED <<backend, phone, plugs, id, attached, known, queue, sup, target,
                     dials, chan, cons, job, dkey, pkey, keys, saving, tasks, pending,
                     calls, faults>>
    /\ Respond =>
       UNCHANGED <<backend, phone, plugs, id, attached, known, queue, sup, target,
                     chan, cons, job, dkey, pkey, tasks, pending, calls, faults>>
    /\ Put =>
       UNCHANGED <<backend, phone, plugs, id, attached, known, queue, sup, target,
                     dials, chan, cons, job, dkey, keys, tasks, pending, calls, drivers,
                     prompt, faults>>
<1> USE DEF busVars, reportVars, supVars, consVars, keyVars, phoneVars
<1>1. Plug =>
          UNCHANGED <<backend, phone, sup, target, dials, chan, cons, job, dkey, pkey,
                    keys, saving, tasks, pending, calls, drivers, prompt, faults>>
  BY DEF Plug
<1>2. Unplug =>
          UNCHANGED <<backend, phone, plugs, id, known, sup, target, chan, cons, job,
                    dkey, pkey, keys, saving, tasks, pending, calls, drivers, prompt>>
  BY DEF Unplug
<1>3. \A s \in Sups : Poll(s) =>
          UNCHANGED <<backend, phone, plugs, id, attached, sup, target, dials, chan, cons,
                    job, dkey, pkey, keys, saving, tasks, pending, calls, drivers, prompt,
                    faults>>
  BY DEF Poll
<1>4. \A s \in Sups : ListenFails(s) =>
          UNCHANGED <<backend, phone, plugs, id, attached, known, queue, target, dials,
                    chan, cons, job, dkey, pkey, keys, saving, tasks, pending, calls,
                    drivers, prompt>>
  BY DEF ListenFails
<1>5. \A s \in Sups : TakeEvent(s) =>
          UNCHANGED <<backend, phone, plugs, id, attached, known, chan, cons, job, dkey,
                    pkey, keys, saving, tasks, pending, calls, drivers, prompt, faults>>
  BY DEF TakeEvent, SupUnchanged, Set
<1>6. \A s \in Sups : OpenControl(s) =>
          UNCHANGED <<backend, phone, plugs, id, attached, known, queue, chan, cons, job,
                    dkey, pkey, keys, saving, pending, calls, drivers, prompt, faults>>
  BY DEF OpenControl, SupUnchanged, Set
<1>7. \A s \in Sups : OpenMedia(s) =>
          UNCHANGED <<backend, phone, plugs, id, attached, known, queue, chan, cons, job,
                    dkey, pkey, keys, saving, pending, calls, drivers, prompt, faults>>
  BY DEF OpenMedia, SupUnchanged, Set
<1>8. \A s \in Sups : DialFails(s) =>
          UNCHANGED <<backend, phone, plugs, id, attached, known, queue, chan, cons, job,
                    dkey, pkey, keys, saving, tasks, pending, calls, drivers, prompt>>
  BY DEF DialFails, SupUnchanged, Set, Fault
<1>9. \A s \in Sups : SendOut(s) =>
          UNCHANGED <<backend, phone, plugs, id, attached, known, queue, cons, job, dkey,
                    pkey, keys, saving, tasks, pending, calls, drivers, prompt, faults>>
  BY DEF SendOut
<1>10. \A s \in Sups : Receive(s) =>
          UNCHANGED <<backend, phone, plugs, id, attached, known, queue, sup, target,
                    dkey, pkey, keys, saving, tasks, pending, calls, drivers, prompt,
                    faults>>
  BY DEF Receive, ConsUnchanged
<1>11. \A s \in Sups : HandshakeOk(s) =>
          UNCHANGED <<backend, phone, plugs, id, attached, known, queue, sup, target,
                    dials, chan, dkey, pkey, keys, saving, tasks, pending, calls, prompt,
                    faults>>
  BY DEF HandshakeOk, ConsUnchanged
<1>12. \A s \in Sups : MediaHello(s) =>
          UNCHANGED <<backend, phone, plugs, id, attached, known, queue, sup, target,
                    chan, dkey, pkey, keys, saving, tasks, pending, calls, drivers,
                    prompt, faults>>
  BY DEF MediaHello, ConsUnchanged
<1>13. \A s \in Sups : ConsumerFails(s) =>
          UNCHANGED <<backend, phone, plugs, id, attached, known, queue, sup, target,
                    chan, dkey, pkey, keys, saving, tasks, pending, calls, drivers,
                    prompt>>
  BY DEF ConsumerFails, ConsUnchanged
<1>14. \A n \in Dials : SessionEnds(n) =>
          UNCHANGED <<backend, phone, plugs, id, attached, known, queue, sup, target,
                    chan, cons, job, dkey, pkey, keys, saving, tasks, pending, calls,
                    drivers, prompt, faults>>
  BY DEF SessionEnds, ConsUnchanged
<1>15. StartSupervisor =>
          UNCHANGED <<backend, phone, plugs, id, attached, target, dials, chan, job, dkey,
                    pkey, keys, saving, tasks, pending, calls, drivers, prompt>>
  BY DEF StartSupervisor
<1>23. AbortConsumer =>
          UNCHANGED <<backend, phone, plugs, id, attached, known, queue, sup, target,
                    dkey, pkey, keys, saving, tasks, pending, calls, drivers, prompt,
                    faults>>
  BY DEF AbortConsumer, ConsUnchanged
<1>16. TrustDevice =>
          UNCHANGED <<backend, phone, plugs, id, attached, known, queue, sup, target,
                    dials, chan, cons, job, pkey, saving, tasks, pending, calls, drivers,
                    prompt>>
  BY DEF TrustDevice
<1>17. ForgetDevice =>
          UNCHANGED <<backend, phone, plugs, id, attached, known, queue, sup, target,
                    dials, chan, cons, job, pkey, keys, saving, tasks, pending, calls,
                    drivers, prompt>>
  BY DEF ForgetDevice
<1>18. Accept =>
          UNCHANGED <<backend, phone, plugs, id, attached, known, queue, sup, target,
                    dials, chan, cons, job, dkey, pkey, keys, saving, prompt, faults>>
  BY DEF Accept, PhoneUnchanged
<1>19. NextSession =>
          UNCHANGED <<backend, phone, plugs, id, attached, known, queue, sup, target,
                    dials, chan, cons, job, dkey, pkey, keys, saving, tasks, prompt,
                    faults>>
  BY DEF NextSession, PhoneUnchanged
<1>20. \A n \in Dials : Resolve(n) =>
          UNCHANGED <<backend, phone, plugs, id, attached, known, queue, sup, target,
                    dials, chan, cons, job, dkey, pkey, keys, saving, tasks, pending,
                    calls, faults>>
  BY DEF Resolve, PhoneUnchanged
<1>21. Respond =>
          UNCHANGED <<backend, phone, plugs, id, attached, known, queue, sup, target,
                    chan, cons, job, dkey, pkey, tasks, pending, calls, faults>>
  BY DEF Respond, PhoneUnchanged
<1>22. Put =>
          UNCHANGED <<backend, phone, plugs, id, attached, known, queue, sup, target,
                    dials, chan, cons, job, dkey, keys, tasks, pending, calls, drivers,
                    prompt, faults>>
  BY DEF Put, PhoneUnchanged
<1> QED
  BY <1>1, <1>2, <1>3, <1>4, <1>5, <1>6, <1>7, <1>8, <1>9, <1>10, <1>11, <1>12, <1>13, <1>14,
     <1>15, <1>16, <1>17, <1>18, <1>19, <1>20, <1>21, <1>22, <1>23

-----------------------------------------------------------------------------
(* What the steps do to the drivers and to the dials. *)

\* Driver i goes on to a step and a credential; the others stay.
Edited(i, step, k) ==
    /\ i \in 1..Len(drivers) /\ Len(drivers') = Len(drivers) /\ drivers' \in Seq(DriverRecords)
    /\ \A j \in 1..Len(drivers) : j # i => drivers'[j] = drivers[j]
    /\ drivers'[i].control = drivers[i].control /\ drivers'[i].media = drivers[i].media
    /\ drivers'[i].step = step /\ drivers'[i].cred = k

\* A continuation may have got a new driver.
Matched ==
    /\ drivers' \in Seq(DriverRecords) /\ \A j \in 1..Len(drivers) : drivers'[j] = drivers[j]
    /\ \/ Len(drivers') = Len(drivers)
       \/ /\ Len(drivers') = Len(drivers) + 1
          /\ drivers'[Len(drivers) + 1].cred = 0

\* Some dials are dropped, maybe none.
Dropped ==
    /\ dials' \in Seq(DialRecords) /\ Len(dials') = Len(dials)
    /\ \A n \in 1..Len(dials) : dials'[n].state \in {dials[n].state, "dropped"}

\* A driver's record.
LEMMA DriverTypes ==
    ASSUME TypeOK
    PROVE  /\ Len(drivers) \in Nat /\ DOMAIN drivers = 1..Len(drivers)
           /\ \A i \in DOMAIN drivers : drivers[i] \in DriverRecords /\ drivers[i].cred \in 0..MaxKeys
<1>1. drivers \in Seq(DriverRecords)
  BY DEF TypeOK, PhoneOK
<1>2. Len(drivers) \in Nat /\ DOMAIN drivers = 1..Len(drivers)
  BY <1>1
<1>3. \A i \in DOMAIN drivers : drivers[i] \in DriverRecords
  BY <1>1, <1>2, ElementOfSeq
<1>4. \A d \in DriverRecords : d.cred \in 0..MaxKeys
  BY DEF DriverRecords
<1> QED
  BY <1>2, <1>3, <1>4

\* A key is a number that was drawn.
LEMMA KeyTypes ==
    ASSUME TypeOK
    PROVE  /\ keys \in Nat /\ MaxKeys \in Nat /\ keys > 0 /\ keys <= MaxKeys
           /\ pkey \in 0..MaxKeys /\ dkey \in 0..MaxKeys /\ saving \in 0..MaxKeys
           /\ pkey <= keys /\ dkey <= keys /\ saving <= keys
           /\ keys < MaxKeys => keys + 1 \in 0..MaxKeys
  BY UsbAssumption DEF TypeOK, KeysOK

\* Dials are numbered from one.
LEMMA DialTypes ==
    ASSUME TypeOK
    PROVE  /\ Len(dials) \in Nat /\ DOMAIN dials = 1..Len(dials) /\ Len(dials) <= MaxDials
           /\ \A n \in DOMAIN dials : dials[n] \in DialRecords
<1>1. dials \in Seq(DialRecords) /\ Len(dials) <= MaxDials
  BY DEF TypeOK, DialsOK
<1> QED
  BY <1>1, ElementOfSeq

\* Editing a driver's record gives a driver's record.
LEMMA EditDriver ==
    ASSUME PhoneOK, NEW i \in DOMAIN drivers, NEW k \in 0..MaxKeys,
           NEW step \in {"resolve", "asked", "auth", "bound", "over"},
           \/ drivers' = [drivers EXCEPT ![i].step = step] /\ k = drivers[i].cred
           \/ drivers' = [drivers EXCEPT ![i].step = step, ![i].cred = k]
    PROVE  Edited(i, step, k)
<1> DEFINE e == [drivers[i] EXCEPT !.step = step, !.cred = k]
<1>1. drivers \in Seq(DriverRecords) /\ i \in 1..Len(drivers) /\ drivers[i] \in DriverRecords
  BY DEF PhoneOK
<1>2. e \in DriverRecords
  BY <1>1 DEF DriverRecords
<1>3. e.control = drivers[i].control /\ e.media = drivers[i].media /\ e.step = step /\ e.cred = k
  BY <1>1 DEF DriverRecords
<1>4. drivers' = [drivers EXCEPT ![i] = e]
  <2>1. CASE drivers' = [drivers EXCEPT ![i].step = step, ![i].cred = k]
    BY <1>1, <2>1
  <2>2. CASE drivers' = [drivers EXCEPT ![i].step = step] /\ k = drivers[i].cred
    <3>1. e = [drivers[i] EXCEPT !.step = step]
      BY <1>1, <2>2 DEF DriverRecords
    <3> QED
      BY <1>1, <2>2, <3>1
  <2> QED
    BY <2>1, <2>2
<1> HIDE DEF e
<1>5. /\ drivers' \in Seq(DriverRecords) /\ Len(drivers') = Len(drivers)
      /\ \A j \in 1..Len(drivers) : drivers'[j] = IF j = i THEN e ELSE drivers[j]
  BY <1>1, <1>2, <1>4, ExceptSeq
<1> QED
  BY <1>1, <1>3, <1>5 DEF Edited

\* The control connection's driver is bound by the key that was looked up.
LEMMA HandshakeDoes ==
    ASSUME TypeOK, NEW s \in Sups, HandshakeOk(s)
    PROVE  \E i \in 1..Len(drivers) : /\ drivers[i].control = job[s].dial
                                      /\ drivers[i].step = "auth" /\ drivers[i].cred = job[s].key
                                      /\ Edited(i, "bound", job[s].key)
<1>1. PICK i \in On(job[s].dial, "auth", job[s].key) :
               drivers' = [drivers EXCEPT ![i].step = "bound"]
  BY DEF HandshakeOk
<1>2. i \in DOMAIN drivers /\ DOMAIN drivers = 1..Len(drivers) /\ drivers[i].cred \in 0..MaxKeys
  BY <1>1, DriverTypes DEF On
<1>3. Edited(i, "bound", drivers[i].cred)
  BY <1>1, <1>2, EditDriver DEF TypeOK
<1> QED
  BY <1>1, <1>2, <1>3 DEF On

\* A driver has the stored key, or the user is asked.
LEMMA ResolveDoes ==
    ASSUME TypeOK, NEW i \in Dials, Resolve(i)
    PROVE  /\ i \in DOMAIN drivers /\ drivers[i].step = "resolve"
           /\ \/ prompt' = prompt /\ Edited(i, "auth", pkey)
              \/ prompt' = i /\ Edited(i, "asked", drivers[i].cred)
<1>1. i \in DOMAIN drivers /\ drivers[i].cred \in 0..MaxKeys /\ pkey \in 0..MaxKeys
  BY DriverTypes, KeyTypes DEF Resolve
<1>2. CASE pkey # 0 /\ drivers' = [drivers EXCEPT ![i].step = "auth", ![i].cred = pkey]
           /\ UNCHANGED prompt
  BY <1>1, <1>2, EditDriver DEF Resolve, TypeOK
<1>3. CASE drivers' = [drivers EXCEPT ![i].step = "asked"] /\ prompt' = i
  BY <1>1, <1>3, EditDriver DEF Resolve, TypeOK
<1> QED
  BY <1>2, <1>3 DEF Resolve

\* The driver the user was asked about has a new key, or is over.
LEMMA RespondDoes ==
    ASSUME TypeOK, Prompted, Respond
    PROVE  /\ prompt' = 0 /\ prompt \in DOMAIN drivers /\ drivers[prompt].step = "asked"
           /\ \/ /\ Edited(prompt, "auth", keys + 1) /\ keys' = keys + 1 /\ saving' = keys + 1
                 /\ keys < MaxKeys /\ dials' = dials
              \/ /\ Edited(prompt, "over", drivers[prompt].cred) /\ UNCHANGED <<keys, saving>>
                 /\ Drop({drivers[prompt].control, drivers[prompt].media})
<1>1. /\ prompt' = 0 /\ prompt \in DOMAIN drivers /\ drivers[prompt].step = "asked"
      /\ drivers[prompt].cred \in 0..MaxKeys
  BY DriverTypes DEF Respond, Prompted
<1>2. CASE /\ keys < MaxKeys /\ keys' = keys + 1 /\ saving' = keys + 1
           /\ drivers' = [drivers EXCEPT ![prompt].step = "auth", ![prompt].cred = keys + 1]
           /\ UNCHANGED dials
  <2>1. keys + 1 \in 0..MaxKeys
    BY <1>2, KeyTypes
  <2>2. Edited(prompt, "auth", keys + 1)
    BY <1>1, <1>2, <2>1, EditDriver DEF TypeOK
  <2> QED
    BY <1>1, <1>2, <2>2
<1>3. CASE /\ Drop({drivers[prompt].control, drivers[prompt].media})
           /\ drivers' = [drivers EXCEPT ![prompt].step = "over"] /\ UNCHANGED <<keys, saving>>
  <2>1. Edited(prompt, "over", drivers[prompt].cred)
    BY <1>1, <1>3, EditDriver DEF TypeOK
  <2> QED
    BY <1>1, <1>3, <2>1
<1> QED
  BY <1>2, <1>3 DEF Respond

\* Matching connections.
LEMMA MatchDoes ==
    ASSUME TypeOK, NEW p \in [control : Seq(Dials), media : Seq(Dials)], NEW c \in 0..1,
           TryMatch(p, c)
    PROVE  /\ Matched /\ pending' \in [control : Seq(Dials), media : Seq(Dials)]
           /\ calls' \in 0..1 /\ Len(drivers') + calls' = Len(drivers) + c
<1> DEFINE some == c > 0 /\ p.control # <<>> /\ p.media # <<>>
<1>1. drivers \in Seq(DriverRecords) /\ p.control \in Seq(Dials) /\ p.media \in Seq(Dials)
  BY DEF TypeOK, PhoneOK
<1>2. CASE some
  <2> DEFINE d == Driver(Head(p.control), Head(p.media))
  <2>1. /\ pending' = [control |-> Tail(p.control), media |-> Tail(p.media)]
        /\ calls' = c - 1 /\ drivers' = Append(drivers, d)
    BY <1>2 DEF TryMatch
  <2>2. /\ Head(p.control) \in Dials /\ Tail(p.control) \in Seq(Dials)
        /\ Head(p.media) \in Dials /\ Tail(p.media) \in Seq(Dials)
    BY <1>1, <1>2, HeadTailProperties
  <2>3. d \in DriverRecords /\ d.cred = 0
    BY <2>2, UsbAssumption DEF Driver, DriverRecords
  <2> HIDE DEF d
  <2>4. Matched
    BY <1>1, <2>1, <2>3 DEF Matched
  <2>5. Len(drivers') = Len(drivers) + 1
    BY <1>1, <2>1, <2>3
  <2>6. calls' \in 0..1 /\ Len(drivers') + calls' = Len(drivers) + c
    BY <1>1, <1>2, <2>1, <2>5
  <2> QED
    BY <2>1, <2>2, <2>4, <2>6
<1>3. CASE ~some
  <2>1. pending' = p /\ calls' = c /\ drivers' = drivers
    BY <1>3 DEF TryMatch
  <2> QED
    BY <1>1, <2>1 DEF Matched
<1> QED
  BY <1>2, <1>3

\* An accept task adds its connection and matches ...
LEMMA AcceptDoes ==
    ASSUME TypeOK, Accept
    PROVE  /\ Matched /\ pending' \in [control : Seq(Dials), media : Seq(Dials)]
           /\ calls' \in 0..1 /\ Len(drivers') + calls' = Len(drivers) + calls
           /\ tasks' \subseteq tasks
<1>1. PICK t \in tasks : /\ tasks' = tasks \ {t}
                         /\ TryMatch([pending EXCEPT ![t[1]] = Append(@, t[2])], calls)
  BY DEF Accept
<1>2. [pending EXCEPT ![t[1]] = Append(@, t[2])] \in [control : Seq(Dials), media : Seq(Dials)]
  <2>1. /\ t[1] \in {"control", "media"} /\ t[2] \in Dials
        /\ pending.control \in Seq(Dials) /\ pending.media \in Seq(Dials)
    BY <1>1 DEF TypeOK, PhoneOK
  <2>2. Append(pending.control, t[2]) \in Seq(Dials) /\ Append(pending.media, t[2]) \in Seq(Dials)
    BY <2>1
  <2>3. pending \in [control : Seq(Dials), media : Seq(Dials)]
    BY DEF TypeOK, PhoneOK
  <2>4. CASE t[1] = "control"
    BY <2>2, <2>3, <2>4
  <2>5. CASE t[1] = "media"
    BY <2>2, <2>3, <2>5
  <2> QED
    BY <2>1, <2>4, <2>5
<1> QED
  BY <1>1, <1>2, MatchDoes DEF TypeOK, PhoneOK

\* ... and so does a new continuation, the mock's only one.
LEMMA NextSessionDoes ==
    ASSUME TypeOK, NextSession
    PROVE  /\ Matched /\ pending' \in [control : Seq(Dials), media : Seq(Dials)]
           /\ calls' \in 0..1 /\ Len(drivers') + calls' = Len(drivers) + 1 /\ calls = 0
           /\ phone = "mock" => Len(drivers) < 1
  BY MatchDoes DEF NextSession, TypeOK, PhoneOK

\* A new driver has no credential yet.
LEMMA MatchedCreds ==
    ASSUME IInv, Matched
    PROVE  \A j \in DOMAIN drivers' : \/ drivers'[j].cred = 0
                                      \/ j \in DOMAIN drivers /\ drivers'[j].cred = drivers[j].cred
<1>1. Len(drivers) \in Nat /\ DOMAIN drivers = 1..Len(drivers)
  BY DriverTypes DEF IInv
<1>2. DOMAIN drivers' = 1..Len(drivers') /\ \A j \in 1..Len(drivers) : drivers'[j] = drivers[j]
  BY DEF Matched
<1>3. CASE Len(drivers') = Len(drivers)
  BY <1>1, <1>2, <1>3
<1>4. CASE Len(drivers') = Len(drivers) + 1 /\ drivers'[Len(drivers) + 1].cred = 0
  <2>1. \A j \in 1..(Len(drivers) + 1) : j \in 1..Len(drivers) \/ j = Len(drivers) + 1
    BY <1>1
  <2> QED
    BY <1>1, <1>2, <1>4, <2>1
<1> QED
  BY <1>3, <1>4 DEF Matched

\* Drop.
LEMMA DropDoes == ASSUME DialsOK, NEW gone, Drop(gone) PROVE Dropped
<1>1. dials \in Seq(DialRecords) /\ Len(dials) \in Nat /\ DOMAIN dials = 1..Len(dials)
  BY DEF DialsOK
<1>2. \A n \in 1..Len(dials) :
          dials'[n] = IF n \in gone THEN [dials[n] EXCEPT !.state = "dropped"] ELSE dials[n]
  BY <1>1 DEF Drop
<1>3. \A n \in 1..Len(dials) : /\ dials'[n] \in DialRecords
                               /\ dials'[n].state \in {dials[n].state, "dropped"}
  <2> TAKE n \in 1..Len(dials)
  <2>1. dials[n] \in DialRecords
    BY <1>1
  <2> QED
    BY <1>2, <2>1 DEF DialRecords
<1>4. dials' \in Seq(DialRecords) /\ Len(dials') = Len(dials)
  BY <1>1, <1>3 DEF Drop
<1> QED
  BY <1>3, <1>4 DEF Dropped

\* The driver asked for is still waiting.
LEMMA PromptedStep == IInv /\ [Next]_vars => Prompted'
<1> SUFFICES ASSUME IInv, [Next]_vars PROVE Prompted'
  OBVIOUS
<1> USE UsbAssumption DEF IInv, Prompted
<1>1. ASSUME UNCHANGED <<drivers, prompt>> PROVE Prompted'
  BY <1>1
<1>2. ASSUME NEW s \in Sups, HandshakeOk(s) PROVE Prompted'
  <2>1. PICK i \in 1..Len(drivers) : drivers[i].step = "auth" /\ Edited(i, "bound", job[s].key)
    BY <1>2, HandshakeDoes
  <2>2. prompt' = prompt
    BY <1>2, Footprints
  <2>3. DOMAIN drivers' = 1..Len(drivers') /\ DOMAIN drivers = 1..Len(drivers)
    BY <2>1 DEF Edited, TypeOK, PhoneOK
  <2> QED
    BY <2>1, <2>2, <2>3 DEF Edited
<1>3. ASSUME Accept PROVE Prompted'
  <2>1. Matched /\ prompt' = prompt
    BY <1>3, AcceptDoes, Footprints
  <2> QED
    BY <2>1, DriverTypes DEF Matched
<1>4. ASSUME NextSession PROVE Prompted'
  <2>1. Matched /\ prompt' = prompt
    BY <1>4, NextSessionDoes, Footprints
  <2> QED
    BY <2>1, DriverTypes DEF Matched
<1>5. ASSUME NEW i \in Dials, Resolve(i) PROVE Prompted'
  BY <1>5, ResolveDoes, DriverTypes DEF Edited
<1>6. ASSUME Respond PROVE Prompted'
  BY <1>6, RespondDoes
<1>7. CASE UNCHANGED vars
  BY <1>7, <1>1 DEF vars, busVars, reportVars, supVars, consVars, keyVars, phoneVars
<1> QED
  <2> HIDE DEF IInv, Prompted
  <2> QED
    BY <1>1, <1>2, <1>3, <1>4, <1>5, <1>6, <1>7, Footprints
    DEF Next, ProgramNext, FaultNext, UserNext, PhoneNext, SupNext, ConsNext, Sups

-----------------------------------------------------------------------------
(* The dials. *)

\* The record of dial i is replaced; the others stay.
DialEdited(i, e) ==
    /\ dials' \in Seq(DialRecords) /\ Len(dials') = Len(dials)
    /\ \A n \in 1..Len(dials) : dials'[n] = IF n = i THEN e ELSE dials[n]

\* A dial is added.
DialAdded ==
    /\ dials' \in Seq(DialRecords) /\ Len(dials') = Len(dials) + 1 /\ Len(dials) < MaxDials
    /\ \A n \in 1..Len(dials) : dials'[n] = dials[n]
    /\ dials'[Len(dials) + 1].state = "new"

\* Replacing a dial's record by another.
LEMMA EditDial ==
    ASSUME TypeOK, NEW i, NEW e, i \in DOMAIN dials => e \in DialRecords,
           dials' = [dials EXCEPT ![i] = e]
    PROVE  DialEdited(i, e)
<1>1. dials \in Seq(DialRecords) /\ Len(dials) \in Nat /\ DOMAIN dials = 1..Len(dials)
  BY DialTypes DEF TypeOK, DialsOK
<1>2. CASE i \in 1..Len(dials)
  BY <1>1, <1>2, ExceptSeq DEF DialEdited
<1>3. CASE i \notin 1..Len(dials)
  <2>1. dials' = dials
    BY <1>1, <1>3
  <2> QED
    BY <1>1, <1>3, <2>1 DEF DialEdited
<1> QED
  BY <1>2, <1>3

\* A supervisor takes an event: it dials, or goes on waiting.
LEMMA TakeDoes ==
    ASSUME TypeOK, NEW s \in Sups, TakeEvent(s)
    PROVE  /\ sup[s] = "idle" /\ queue[s] # <<>>
           /\ queue' = [queue EXCEPT ![s] = Tail(@)]
           /\ \/ /\ DialAdded /\ sup' = [sup EXCEPT ![s] = "control"]
                 /\ target' = [target EXCEPT ![s] = [id |-> Head(queue[s]).id,
                                                     dial |-> Len(dials) + 1]]
              \/ UNCHANGED <<sup, target, dials>>
<1> DEFINE i == Head(queue[s]).id
           d == [sup |-> s, plug |-> IF Reachable(i) THEN plugs ELSE 0, state |-> "new"]
<1>1. CASE Len(dials) < MaxDials /\ dials' = Append(dials, d)
           /\ Set(s, "control", [id |-> i, dial |-> Len(dials) + 1])
  <2>1. d \in DialRecords /\ d.state = "new"
    BY UsbAssumption DEF TypeOK, BusOK, DialRecords
  <2>2. dials \in Seq(DialRecords)
    BY DEF TypeOK, DialsOK
  <2> HIDE DEF d
  <2>3. DialAdded
    BY <1>1, <2>1, <2>2 DEF DialAdded
  <2> QED
    BY <1>1, <2>3 DEF TakeEvent, Set
<1>2. CASE UNCHANGED <<supVars, dials>>
  BY <1>2 DEF TakeEvent, supVars
<1> QED
  BY <1>1, <1>2 DEF TakeEvent

\* The first connection of a dial.
LEMMA OpenControlDoes ==
    ASSUME TypeOK, NEW s \in Sups, OpenControl(s)
    PROVE  /\ sup[s] = "control" /\ sup' = [sup EXCEPT ![s] = "media"]
           /\ target' = [target EXCEPT ![s] = target[s]]
           /\ \E e : /\ DialEdited(target[s].dial, e)
                     /\ target[s].dial \in DOMAIN dials =>
                            e.state = "half"
<1> DEFINE t == target[s].dial
           e == [dials[t] EXCEPT !.state = "half", !.plug = plugs]
<1>1. dials' = [dials EXCEPT ![t] = e]
  BY DEF OpenControl
<1>2. t \in DOMAIN dials => /\ e \in DialRecords /\ e.state = "half"
  BY DialTypes DEF TypeOK, BusOK, DialRecords
<1>3. DialEdited(t, e)
  BY <1>1, <1>2, EditDial
<1> QED
  BY <1>2, <1>3 DEF OpenControl, Set

\* The second one.
LEMMA OpenMediaDoes ==
    ASSUME TypeOK, NEW s \in Sups, OpenMedia(s)
    PROVE  /\ sup[s] = "media" /\ sup' = [sup EXCEPT ![s] = "send"]
           /\ target' = [target EXCEPT ![s] = target[s]]
           /\ \E e : /\ DialEdited(target[s].dial, e)
                     /\ target[s].dial \in DOMAIN dials =>
                            e.state \in {"open", dials[target[s].dial].state}
<1> DEFINE t == target[s].dial
           e == [dials[t] EXCEPT !.state = IF @ = "half" THEN "open" ELSE @]
<1>1. dials' = [dials EXCEPT ![t] = e]
  BY DEF OpenMedia
<1>2. t \in DOMAIN dials => /\ e \in DialRecords
                            /\ e.state \in {"open", dials[t].state}
  BY DialTypes DEF DialRecords
<1>3. DialEdited(t, e)
  BY <1>1, <1>2, EditDial
<1> QED
  BY <1>2, <1>3 DEF OpenMedia, Set

\* MEDIA_HELLO was read: there is a session.
LEMMA MediaHelloDoes ==
    ASSUME TypeOK, NEW s \in Sups, MediaHello(s)
    PROVE  /\ cons[s] = "media" /\ dials[job[s].dial].state = "open"
           /\ \E i \in DOMAIN drivers : drivers[i].media = job[s].dial /\ drivers[i].step = "bound"
           /\ \E e : /\ DialEdited(job[s].dial, e)
                     /\ job[s].dial \in DOMAIN dials =>
                            e.state = "session"
<1> DEFINE t == job[s].dial
           e == [dials[t] EXCEPT !.state = "session"]
<1>1. dials' = [dials EXCEPT ![t] = e]
  BY DEF MediaHello
<1>2. t \in DOMAIN dials => /\ e \in DialRecords /\ e.state = "session"
  BY DialTypes DEF DialRecords
<1>3. DialEdited(t, e)
  BY <1>1, <1>2, EditDial
<1> QED
  BY <1>2, <1>3 DEF MediaHello

\* How the dials change.
DialsStep == Dropped \/ \E s \in Sups : \/ TakeEvent(s) \/ OpenControl(s) \/ OpenMedia(s)
                                        \/ MediaHello(s)

\* Every other step at most drops dials.
LEMMA DialSteps == IInv /\ [Next]_vars => DialsStep
<1> SUFFICES ASSUME IInv, [Next]_vars PROVE DialsStep
  OBVIOUS
<1> USE UsbAssumption DEF IInv, DialsStep, TypeOK
<1>1. ASSUME UNCHANGED <<dials>> PROVE DialsStep
  BY <1>1, DialTypes DEF DialsOK, Dropped
<1>2. ASSUME Unplug PROVE DialsStep
  BY <1>2, DropDoes DEF Unplug
<1>3. ASSUME NEW s \in Sups, TakeEvent(s) PROVE DialsStep
  BY <1>3
<1>4. ASSUME NEW s \in Sups, OpenControl(s) PROVE DialsStep
  BY <1>4
<1>5. ASSUME NEW s \in Sups, OpenMedia(s) PROVE DialsStep
  BY <1>5
<1>6. ASSUME NEW s \in Sups, DialFails(s) PROVE DialsStep
  BY <1>6, DropDoes DEF DialFails
<1>7. ASSUME NEW s \in Sups, SendOut(s) PROVE DialsStep
  BY <1>7, <1>1, DropDoes DEF SendOut
<1>8. ASSUME NEW s \in Sups, Receive(s) PROVE DialsStep
  BY <1>8, <1>1, DropDoes DEF Receive
<1>9. ASSUME NEW s \in Sups, MediaHello(s) PROVE DialsStep
  BY <1>9
<1>10. ASSUME NEW s \in Sups, ConsumerFails(s) PROVE DialsStep
  BY <1>10, DropDoes DEF ConsumerFails
<1>11. ASSUME NEW n \in Dials, SessionEnds(n) PROVE DialsStep
  BY <1>11, DropDoes DEF SessionEnds
<1>12. ASSUME AbortConsumer PROVE DialsStep
  BY <1>12, DropDoes DEF AbortConsumer
<1>13. ASSUME Respond PROVE DialsStep
  BY <1>13, <1>1, DropDoes, RespondDoes
<1>14. CASE UNCHANGED vars
  BY <1>14, <1>1 DEF vars, busVars, reportVars, supVars, consVars, keyVars, phoneVars
<1> QED
  <2> HIDE DEF IInv, DialsStep, TypeOK
  <2> QED
    BY <1>1, <1>2, <1>3, <1>4, <1>5, <1>6, <1>7, <1>8, <1>9, <1>10, <1>11, <1>12, <1>13, <1>14,
       Footprints
    DEF Next, ProgramNext, FaultNext, UserNext, PhoneNext, SupNext, ConsNext, Sups

\* The dials stay, in number and type.
LEMMA DialsOKStep == IInv /\ [Next]_vars => DialsOK' /\ Len(dials') >= Len(dials)
<1> SUFFICES ASSUME IInv, [Next]_vars PROVE DialsOK' /\ Len(dials') >= Len(dials)
  OBVIOUS
<1>1. TypeOK /\ Len(dials) \in Nat /\ Len(dials) <= MaxDials /\ MaxDials \in Nat
  BY DialTypes, UsbAssumption DEF IInv
<1>2. CASE Dropped
  BY <1>1, <1>2 DEF Dropped, DialsOK
<1>3. ASSUME NEW s \in Sups, TakeEvent(s) PROVE DialsOK' /\ Len(dials') >= Len(dials)
  <2>1. DialAdded \/ dials' = dials
    BY <1>1, <1>3, TakeDoes
  <2>2. CASE DialAdded
    BY <1>1, <2>2 DEF DialAdded, DialsOK
  <2>3. CASE dials' = dials
    BY <1>1, <2>3 DEF TypeOK, DialsOK
  <2> QED
    BY <2>1, <2>2, <2>3
<1>4. ASSUME NEW i, NEW e, DialEdited(i, e) PROVE DialsOK' /\ Len(dials') >= Len(dials)
  BY <1>1, <1>4 DEF DialEdited, DialsOK
<1> QED
  BY <1>1, <1>2, <1>3, <1>4, DialSteps, OpenControlDoes, OpenMediaDoes, MediaHelloDoes DEF
     DialsStep

\* The supervisors.
LEMMA SupOKStep == IInv /\ [Next]_vars => SupOK'
<1> SUFFICES ASSUME IInv, [Next]_vars PROVE SupOK'
  OBVIOUS
<1> USE UsbAssumption DEF IInv, SupOK, TypeOK
<1>1. ASSUME UNCHANGED <<sup, target>> PROVE SupOK'
  BY <1>1
<1>2. ASSUME NEW s \in Sups, ListenFails(s) PROVE SupOK'
  BY <1>2 DEF ListenFails
<1>3. ASSUME NEW s \in Sups, TakeEvent(s) PROVE SupOK'
  <2>1. Head(queue[s]).id \in 0..MaxPlugs
    <3>1. queue[s] \in Seq(Events) /\ queue[s] # <<>>
      BY <1>3, TakeDoes DEF TypeOK, BusOK
    <3>2. Head(queue[s]) \in Events
      BY <3>1, HeadTailProperties
    <3> QED
      BY <3>2, UsbAssumption DEF Plugs, Events
  <2>2. DialAdded => Len(dials) + 1 \in 0..MaxDials
    BY DialTypes, UsbAssumption DEF DialAdded
  <2>3. DialAdded => [id |-> Head(queue[s]).id, dial |-> Len(dials) + 1] \in Targets
    BY <2>1, <2>2 DEF Targets
  <2>4. \/ /\ DialAdded /\ sup' = [sup EXCEPT ![s] = "control"]
           /\ target' = [target EXCEPT ![s] = [id |-> Head(queue[s]).id, dial |-> Len(dials) + 1]]
        \/ UNCHANGED <<sup, target>>
    BY <1>3, TakeDoes
  <2> QED
    BY <2>3, <2>4
<1>4. ASSUME NEW s \in Sups, OpenControl(s) PROVE SupOK'
  BY <1>4, OpenControlDoes
<1>5. ASSUME NEW s \in Sups, OpenMedia(s) PROVE SupOK'
  BY <1>5, OpenMediaDoes
<1>6. ASSUME NEW s \in Sups, DialFails(s) PROVE SupOK'
  BY <1>6, UsbAssumption DEF DialFails, Set, Nobody, Targets
<1>7. ASSUME NEW s \in Sups, SendOut(s) PROVE SupOK'
  <2>1. Nobody \in Targets
    BY UsbAssumption DEF Nobody, Targets
  <2>2. /\ target' = [target EXCEPT ![s] = Nobody]
        /\ sup' = [sup EXCEPT ![s] = "idle"] \/ sup' = [sup EXCEPT ![s] = "done"]
    BY <1>7 DEF SendOut, Set
  <2> QED
    BY <2>1, <2>2
<1>8. ASSUME StartSupervisor PROVE SupOK'
  BY <1>8 DEF StartSupervisor, Sups
<1>9. CASE UNCHANGED vars
  BY <1>9, <1>1 DEF vars, busVars, reportVars, supVars, consVars, keyVars, phoneVars
<1> QED
  <2> HIDE DEF IInv, SupOK, TypeOK
  <2> QED
    BY <1>1, <1>2, <1>3, <1>4, <1>5, <1>6, <1>7, <1>8, <1>9, Footprints
    DEF Next, ProgramNext, FaultNext, UserNext, PhoneNext, SupNext, ConsNext, Sups

\* The consumers.
LEMMA ConsOKStep == IInv /\ [Next]_vars => ConsOK'
<1> SUFFICES ASSUME IInv, [Next]_vars PROVE ConsOK'
  OBVIOUS
<1> USE UsbAssumption DEF IInv, ConsOK, TypeOK
<1>1. ASSUME UNCHANGED <<chan, cons, job>> PROVE ConsOK'
  BY <1>1
<1>2. ASSUME NEW s \in Sups, SendOut(s) PROVE ConsOK'
  <2>1. CASE /\ Len(chan[s]) < OutCap /\ chan' = [chan EXCEPT ![s] = Append(@, target[s].dial)]
             /\ UNCHANGED <<cons, job>>
    <3>1. target[s].dial \in Dials /\ chan[s] \in Seq(Dials)
      BY <1>2, DialTypes DEF SendOut, Dialing, Dials, SupOK
    <3>2. Append(chan[s], target[s].dial) \in Seq(Dials)
          /\ Len(Append(chan[s], target[s].dial)) = Len(chan[s]) + 1
      BY <3>1
    <3> QED
      BY <2>1, <3>1, <3>2
  <2>2. CASE UNCHANGED <<chan, cons, job>>
    BY <2>2
  <2> QED
    BY <1>2, <2>1, <2>2 DEF SendOut, consVars
<1>3. ASSUME NEW s \in Sups, Receive(s) PROVE ConsOK'
  <2>1. chan[s] \in Seq(Dials) /\ chan[s] # <<>> /\ Len(chan[s]) <= OutCap
    BY <1>3 DEF Receive
  <2>2. Head(chan[s]) \in Dials /\ Tail(chan[s]) \in Seq(Dials) /\ Len(Tail(chan[s])) <= OutCap
    BY <2>1, HeadTailProperties
  <2>3. [dial |-> Head(chan[s]), key |-> dkey] \in Jobs
    <3>1. Head(chan[s]) \in 0..MaxDials
      BY <2>2, UsbAssumption DEF Dials
    <3> QED
      BY <3>1, KeyTypes DEF Jobs
  <2>4. chan' = [chan EXCEPT ![s] = Tail(@)]
    BY <1>3 DEF Receive
  <2>5. \/ /\ cons' = [cons EXCEPT ![s] = "handshake"]
           /\ job' = [job EXCEPT ![s] = [dial |-> Head(chan[s]), key |-> dkey]]
        \/ UNCHANGED <<cons, job>>
    BY <1>3 DEF Receive, Work, consVars
  <2>6. chan' \in [Sups -> Seq(Dials)] /\ \A r \in Sups : Len(chan'[r]) <= OutCap
    BY <2>2, <2>4
  <2> QED
    BY <2>3, <2>5, <2>6
<1>4. ASSUME NEW s \in Sups, HandshakeOk(s) PROVE ConsOK'
  <2>1. PICK c \in {"idle", "media"}, n \in 0..MaxDials, k \in 0..MaxKeys : Work(s, c, n, k)
    BY <1>4, UsbAssumption DEF HandshakeOk, Jobs
  <2>2. [dial |-> n, key |-> k] \in Jobs
    BY DEF Jobs
  <2>3. chan' = chan
    BY <1>4, Footprints
  <2> QED
    BY <2>1, <2>2, <2>3 DEF Work
<1>5. ASSUME NEW s \in Sups, MediaHello(s) PROVE ConsOK'
  <2>1. PICK c \in {"idle", "media"}, n \in 0..MaxDials, k \in 0..MaxKeys : Work(s, c, n, k)
    BY <1>5, UsbAssumption DEF MediaHello, Jobs
  <2>2. [dial |-> n, key |-> k] \in Jobs
    BY DEF Jobs
  <2>3. chan' = chan
    BY <1>5, Footprints
  <2> QED
    BY <2>1, <2>2, <2>3 DEF Work
<1>6. ASSUME NEW s \in Sups, ConsumerFails(s) PROVE ConsOK'
  <2>1. PICK c \in {"idle", "media"}, n \in 0..MaxDials, k \in 0..MaxKeys : Work(s, c, n, k)
    BY <1>6, UsbAssumption DEF ConsumerFails, Jobs
  <2>2. [dial |-> n, key |-> k] \in Jobs
    BY DEF Jobs
  <2>3. chan' = chan
    BY <1>6, Footprints
  <2> QED
    BY <2>1, <2>2, <2>3 DEF Work
<1>9. ASSUME StartSupervisor PROVE ConsOK'
  BY <1>9, Footprints DEF StartSupervisor, Sups
<1>7. ASSUME AbortConsumer PROVE ConsOK'
  <2>1. <<>> \in Seq(Dials) /\ Len(<<>>) = 0
    OBVIOUS
  <2>2. [dial |-> 0, key |-> 0] \in Jobs
    BY UsbAssumption DEF Jobs
  <2> QED
    BY <1>7, <2>1, <2>2, UsbAssumption DEF AbortConsumer, Work, Sups
<1>8. CASE UNCHANGED vars
  BY <1>8, <1>1 DEF vars, busVars, reportVars, supVars, consVars, keyVars, phoneVars
<1> QED
  <2> HIDE DEF IInv, ConsOK, TypeOK
  <2> QED
    BY <1>1, <1>2, <1>3, <1>4, <1>5, <1>6, <1>7, <1>8, <1>9, Footprints
    DEF Next, ProgramNext, FaultNext, UserNext, PhoneNext, SupNext, ConsNext, Sups

\* The keys.
LEMMA KeysOKStep == IInv /\ [Next]_vars => KeysOK'
<1> SUFFICES ASSUME IInv, [Next]_vars PROVE KeysOK'
  OBVIOUS
<1> USE UsbAssumption DEF IInv, KeysOK, TypeOK
<1>1. ASSUME UNCHANGED <<keys, dkey, pkey, saving>> PROVE KeysOK'
  BY <1>1
<1>2. ASSUME TrustDevice PROVE KeysOK'
  BY <1>2 DEF TrustDevice
<1>3. ASSUME ForgetDevice PROVE KeysOK'
  BY <1>3 DEF ForgetDevice
<1>4. ASSUME Respond PROVE KeysOK'
  BY <1>4, RespondDoes, Footprints
<1>5. ASSUME Put PROVE KeysOK'
  BY <1>5 DEF Put
<1>6. CASE UNCHANGED vars
  BY <1>6, <1>1 DEF vars, busVars, reportVars, supVars, consVars, keyVars, phoneVars
<1> QED
  <2> HIDE DEF IInv, KeysOK, TypeOK
  <2> QED
    BY <1>1, <1>2, <1>3, <1>4, <1>5, <1>6, Footprints
    DEF Next, ProgramNext, FaultNext, UserNext, PhoneNext, SupNext, ConsNext, Sups

\* The phone.
LEMMA PhoneOKStep == IInv /\ [Next]_vars => PhoneOK'
<1> SUFFICES ASSUME IInv, [Next]_vars PROVE PhoneOK'
  OBVIOUS
<1> USE UsbAssumption DEF IInv, PhoneOK, TypeOK
<1>1. ASSUME UNCHANGED <<tasks, pending, calls, drivers, prompt>> PROVE PhoneOK'
  BY <1>1
<1>2. ASSUME NEW s \in Sups, OpenControl(s) PROVE PhoneOK'
  <2>1. target[s].dial \in Dials
    BY <1>2, DialTypes DEF OpenControl, Dialing, Dials, SupOK
  <2>2. tasks' = tasks \cup {<<"control", target[s].dial>>}
    BY <1>2 DEF OpenControl
  <2> QED
    BY <1>2, <2>1, <2>2, Footprints
<1>3. ASSUME NEW s \in Sups, OpenMedia(s) PROVE PhoneOK'
  <2>1. target[s].dial \in Dials
    BY <1>3, DialTypes DEF OpenMedia, Dialing, Dials, SupOK
  <2>2. tasks' = tasks \cup {<<"media", target[s].dial>>}
    BY <1>3 DEF OpenMedia
  <2> QED
    BY <1>3, <2>1, <2>2, Footprints
<1>4. ASSUME NEW s \in Sups, HandshakeOk(s) PROVE PhoneOK'
  BY <1>4, HandshakeDoes, Footprints DEF Edited
<1>5. ASSUME Accept PROVE PhoneOK'
  BY <1>5, AcceptDoes, Footprints DEF Matched
<1>6. ASSUME NextSession PROVE PhoneOK'
  BY <1>6, NextSessionDoes, Footprints DEF Matched
<1>7. ASSUME NEW i \in Dials, Resolve(i) PROVE PhoneOK'
  BY <1>7, ResolveDoes, Footprints DEF Edited, Dials
<1>8. ASSUME Respond PROVE PhoneOK'
  BY <1>8, RespondDoes, Footprints DEF Edited
<1>9. CASE UNCHANGED vars
  BY <1>9, <1>1 DEF vars, busVars, reportVars, supVars, consVars, keyVars, phoneVars
<1> QED
  <2> HIDE DEF IInv, PhoneOK, TypeOK
  <2> QED
    BY <1>1, <1>2, <1>3, <1>4, <1>5, <1>6, <1>7, <1>8, <1>9, Footprints
    DEF Next, ProgramNext, FaultNext, UserNext, PhoneNext, SupNext, ConsNext, Sups

\* A sequence of the same element.
LEMMA Repeated ==
    ASSUME NEW S, NEW n \in Nat, NEW e, n # 0 => e \in S
    PROVE  [i \in 1..n |-> e] \in Seq(S)
<1>1. \A i \in 1..n : e \in S
  OBVIOUS
<1> QED
  BY <1>1

\* The count of faults.
LEMMA FaultsStep == IInv /\ [Next]_vars => (faults \in 0..(MaxFaults + 1))'
<1> SUFFICES ASSUME IInv, [Next]_vars PROVE (faults \in 0..(MaxFaults + 1))'
  OBVIOUS
<1> USE UsbAssumption DEF IInv, TypeOK
<1>1. ASSUME UNCHANGED <<faults>> PROVE (faults \in 0..(MaxFaults + 1))'
  BY <1>1
<1>2. ASSUME Unplug PROVE (faults \in 0..(MaxFaults + 1))'
  BY <1>2 DEF Unplug, Fault
<1>3. ASSUME NEW s \in Sups, ListenFails(s) PROVE (faults \in 0..(MaxFaults + 1))'
  BY <1>3 DEF ListenFails, Fault
<1>4. ASSUME NEW s \in Sups, DialFails(s) PROVE (faults \in 0..(MaxFaults + 1))'
  BY <1>4 DEF DialFails, Fault
<1>5. ASSUME NEW s \in Sups, ConsumerFails(s) PROVE (faults \in 0..(MaxFaults + 1))'
  BY <1>5 DEF ConsumerFails, Upset
<1>6. ASSUME StartSupervisor PROVE (faults \in 0..(MaxFaults + 1))'
  BY <1>6 DEF StartSupervisor, Upset
<1>7. ASSUME TrustDevice PROVE (faults \in 0..(MaxFaults + 1))'
  BY <1>7 DEF TrustDevice, Fault
<1>8. ASSUME ForgetDevice PROVE (faults \in 0..(MaxFaults + 1))'
  BY <1>8 DEF ForgetDevice, Fault
<1>9. CASE UNCHANGED vars
  BY <1>9, <1>1 DEF vars, busVars, reportVars, supVars, consVars, keyVars, phoneVars
<1> QED
  <2> HIDE DEF IInv, TypeOK
  <2> QED
    BY <1>1, <1>2, <1>3, <1>4, <1>5, <1>6, <1>7, <1>8, <1>9, Footprints
    DEF Next, ProgramNext, FaultNext, UserNext, PhoneNext, SupNext, ConsNext, Sups

\* The bus and what is reported of it.
LEMMA BusOKStep == IInv /\ [Next]_vars => BusOK'
<1> SUFFICES ASSUME IInv, [Next]_vars PROVE BusOK'
  OBVIOUS
<1> USE UsbAssumption DEF IInv, BusOK, TypeOK
<1>1. ASSUME UNCHANGED <<backend, phone, plugs, id, attached, known, queue>> PROVE BusOK'
  BY <1>1
<1>2. ASSUME Plug PROVE BusOK'
  <2>1. PICK i \in 1..(plugs + 1) : /\ id' = [id EXCEPT ![plugs + 1] = i] /\ Report(Connected(i)) /\ Learn(i)
    BY <1>2 DEF Plug
  <2>2. /\ attached' = TRUE /\ plugs' = plugs + 1 /\ plugs + 1 \in Plugs
        /\ backend' = backend /\ phone' = phone
    BY <1>2, Footprints DEF Plug, Plugs
  <2>3. /\ id' \in [Plugs -> 0..MaxPlugs] /\ id'[plugs'] \in Plugs /\ plugs' > 0
        /\ plugs' \in 0..MaxPlugs
    BY <2>1, <2>2 DEF Plugs
  <2>7. i \in Plugs
    BY <2>1, <1>2 DEF Plug, Plugs
  <2>4. Connected(i) \in Events
    BY <2>7 DEF Connected, Events
  <2>5. queue' \in [Sups -> Seq(Events)]
    <3>1. \A s \in Sups : Append(queue[s], Connected(i)) \in Seq(Events)
      BY <2>4
    <3> QED
      BY <2>1, <3>1 DEF Report
  <2>6. known' \in [Sups -> SUBSET Plugs]
    BY <2>1, <2>7 DEF Learn
  <2> QED
    BY <2>2, <2>3, <2>5, <2>6
<1>3. ASSUME Unplug PROVE BusOK'
  <2>1. Lost(id[plugs]) \in Events
    BY <1>3 DEF Unplug, Lost, Events
  <2>2. queue' \in [Sups -> Seq(Events)]
    <3>1. \A s \in Sups : Append(queue[s], Lost(id[plugs])) \in Seq(Events)
      BY <2>1
    <3> QED
      BY <1>3, <3>1 DEF Unplug, Report
  <2>3. attached' = FALSE
    BY <1>3 DEF Unplug
  <2> QED
    BY <1>3, <2>2, <2>3, Footprints
<1>4. ASSUME NEW s \in Sups, Poll(s) PROVE BusOK'
  <2> DEFINE new == Plugged \ known[s]
             missing == known[s] \ Plugged
             gone == CHOOSE k \in known[s] : k \notin Plugged
  <2>1. Plugged \subseteq Plugs /\ known[s] \subseteq Plugs
    BY DEF Plugged
  <2>2. IsFiniteSet(new) /\ IsFiniteSet(missing)
    <3>1. IsFiniteSet(Plugs)
      BY UsbAssumption, FS_Interval DEF Plugs
    <3> QED
      BY <2>1, <3>1, FS_Subset
  <2>3. Cardinality(new) \in Nat /\ Cardinality(missing) \in Nat
    BY <2>2, FS_CardinalityType
  <2>4. new # {} => Connected(id[plugs]) \in Events
    BY DEF Plugged, Connected, Events
  <2>5. missing # {} => Lost(gone) \in Events
    <3>1. missing # {} => gone \in known[s]
      OBVIOUS
    <3> QED
      BY <2>1, <3>1 DEF Lost, Events
  <2>6. (new = {} => Cardinality(new) = 0) /\ (missing = {} => Cardinality(missing) = 0)
    BY FS_EmptySet
  <2>7. [i \in 1..Cardinality(new) |-> Connected(id[plugs])] \in Seq(Events)
    BY <2>3, <2>4, <2>6, Repeated
  <2>8. [i \in 1..Cardinality(missing) |-> Lost(gone)] \in Seq(Events)
    BY <2>3, <2>5, <2>6, Repeated
  <2>9. queue' = [queue EXCEPT ![s] = @ \o [i \in 1..Cardinality(new) |-> Connected(id[plugs])]
                                        \o [i \in 1..Cardinality(missing) |-> Lost(gone)]]
        /\ known' = [known EXCEPT ![s] = Plugged]
    BY <1>4 DEF Poll
  <2> DEFINE appeared == [i \in 1..Cardinality(new) |-> Connected(id[plugs])]
             left == [i \in 1..Cardinality(missing) |-> Lost(gone)]
  <2> HIDE DEF appeared, left
  <2>10. queue' = [queue EXCEPT ![s] = (@ \o appeared) \o left]
    BY <2>9 DEF appeared, left
  <2>11. appeared \in Seq(Events) /\ left \in Seq(Events) /\ queue[s] \in Seq(Events)
    BY <2>7, <2>8 DEF appeared, left
  <2>12. (queue[s] \o appeared) \o left \in Seq(Events)
    BY <2>11, ConcatProperties
  <2>13. queue' \in [Sups -> Seq(Events)]
    BY <2>10, <2>12
  <2>14. known' \in [Sups -> SUBSET Plugs]
    BY <2>1, <2>9
  <2> QED
    BY <1>4, <2>13, <2>14, Footprints
<1>5. ASSUME NEW s \in Sups, TakeEvent(s) PROVE BusOK'
  <2>1. queue' = [queue EXCEPT ![s] = Tail(@)] /\ queue[s] # <<>>
    BY <1>5, TakeDoes
  <2>2. Tail(queue[s]) \in Seq(Events)
    BY <2>1, HeadTailProperties
  <2>3. queue' \in [Sups -> Seq(Events)]
    BY <2>1, <2>2
  <2> QED
    BY <1>5, <2>3, Footprints
<1>6. ASSUME StartSupervisor PROVE BusOK'
  <2>1. CASE attached
    <3>1. <<Connected(id[plugs])>> \in Seq(Events)
      BY <2>1 DEF Connected, Events
    <3>2. Plugged \subseteq Plugs
      BY <2>1 DEF Plugged
    <3>3. \/ /\ queue' = [queue EXCEPT ![2] = <<Connected(id[plugs])>>]
             /\ known' = [known EXCEPT ![2] = Plugged]
          \/ UNCHANGED <<known, queue>>
      BY <1>6 DEF StartSupervisor, reportVars
    <3>4. known' \in [Sups -> SUBSET Plugs] /\ queue' \in [Sups -> Seq(Events)]
      BY <3>1, <3>2, <3>3
    <3> QED
      BY <1>6, <3>4, Footprints
  <2>2. CASE ~attached
    <3>1. UNCHANGED <<known, queue>>
      BY <1>6, <2>2 DEF StartSupervisor, reportVars
    <3> QED
      BY <1>6, <3>1, Footprints
  <2> QED
    BY <2>1, <2>2
<1>7. CASE UNCHANGED vars
  BY <1>7, <1>1 DEF vars, busVars, reportVars, supVars, consVars, keyVars, phoneVars
<1> QED
  <2> HIDE DEF IInv, BusOK, TypeOK
  <2> QED
    BY <1>1, <1>2, <1>3, <1>4, <1>5, <1>6, <1>7, Footprints
    DEF Next, ProgramNext, FaultNext, UserNext, PhoneNext, SupNext, ConsNext, Sups

\* The types are kept.
LEMMA TypeStep == IInv /\ [Next]_vars => TypeOK'
  BY BusOKStep, DialsOKStep, SupOKStep, ConsOKStep, KeysOKStep, PhoneOKStep, FaultsStep DEF
     TypeOK

\* A supervisor goes on with a dial there is.
LEMMA DialingStep == IInv /\ [Next]_vars => Dialing'
<1> SUFFICES ASSUME IInv, [Next]_vars PROVE Dialing'
  OBVIOUS
<1>0. /\ DOMAIN dials = 1..Len(dials) /\ DOMAIN dials' = 1..Len(dials')
      /\ Len(dials') >= Len(dials) /\ Len(dials) \in Nat /\ Len(dials') \in Nat
  BY DialsOKStep, DialTypes DEF IInv, DialsOK
<1> USE <1>0
<1> USE UsbAssumption DEF IInv, Dialing, TypeOK, SupOK, Sups
<1>1. ASSUME UNCHANGED <<sup, target>> PROVE Dialing'
  BY <1>1
<1>2. ASSUME NEW s \in Sups, ListenFails(s) PROVE Dialing'
  BY <1>2, Footprints DEF ListenFails
<1>3. ASSUME NEW s \in Sups, TakeEvent(s) PROVE Dialing'
  <2>1. \/ /\ DialAdded /\ sup' = [sup EXCEPT ![s] = "control"]
           /\ target' = [target EXCEPT ![s] = [id |-> Head(queue[s]).id, dial |-> Len(dials) + 1]]
        \/ UNCHANGED <<sup, target>>
    BY <1>3, TakeDoes
  <2>2. CASE UNCHANGED <<sup, target>>
    BY <2>2
  <2>3. CASE /\ DialAdded /\ sup' = [sup EXCEPT ![s] = "control"]
             /\ target' = [target EXCEPT ![s] = [id |-> Head(queue[s]).id, dial |-> Len(dials) + 1]]
    <3>1. target'[s].dial = Len(dials) + 1 /\ Len(dials') = Len(dials) + 1
      BY <2>3 DEF DialAdded
    <3>2. \A r \in Sups : r # s => sup'[r] = sup[r] /\ target'[r] = target[r]
      BY <2>3
    <3> QED
      BY <3>1, <3>2
  <2> QED
    BY <2>1, <2>2, <2>3
<1>4. ASSUME NEW s \in Sups, OpenControl(s) PROVE Dialing'
  BY <1>4, OpenControlDoes
<1>5. ASSUME NEW s \in Sups, OpenMedia(s) PROVE Dialing'
  BY <1>5, OpenMediaDoes
<1>6. ASSUME NEW s \in Sups, DialFails(s) PROVE Dialing'
  BY <1>6 DEF DialFails, Set
<1>7. ASSUME NEW s \in Sups, SendOut(s) PROVE Dialing'
  BY <1>7 DEF SendOut, Set
<1>8. ASSUME StartSupervisor PROVE Dialing'
  BY <1>8 DEF StartSupervisor
<1>9. CASE UNCHANGED vars
  BY <1>9, <1>1 DEF vars, busVars, reportVars, supVars, consVars, keyVars, phoneVars
<1> QED
  <2> HIDE DEF IInv, Dialing, TypeOK, SupOK, Sups
  <2> QED
    BY <1>1, <1>2, <1>3, <1>4, <1>5, <1>6, <1>7, <1>8, <1>9, Footprints
    DEF Next, ProgramNext, FaultNext, UserNext, PhoneNext, SupNext, ConsNext, Sups

-----------------------------------------------------------------------------
(* The other variables, step by step. *)

\* What a consumer works on was looked up, or it has it already.
ConsStep == \A s \in Sups :
    /\ job'[s].key \in {job[s].key, 0, dkey}
    /\ cons'[s] \in {"handshake", "media"} =>
           \/ dkey # 0 /\ job'[s].key = dkey
           \/ cons[s] \in {"handshake", "media"} /\ job'[s].key = job[s].key
    /\ cons'[s] = "media" => HandshakeOk(s) \/ (cons[s] = "media" /\ job'[s] = job[s])

\* A key either end gets was there, or is the next one drawn.
KeyStep ==
    /\ keys' >= keys
    /\ \/ /\ PhoneKeys' \subseteq PhoneKeys \cup {0}
          /\ dkey' \in {dkey, 0} \/ (dkey' = keys + 1 /\ keys' = keys + 1)
       \/ /\ PhoneKeys' \subseteq PhoneKeys \cup {0, keys + 1}
          /\ dkey' = dkey /\ keys' = keys + 1

\* Every step of a consumer.
LEMMA ConsSteps == IInv /\ [Next]_vars => ConsStep
<1> SUFFICES ASSUME IInv, [Next]_vars PROVE ConsStep
  OBVIOUS
<1> USE UsbAssumption DEF IInv, ConsStep, TypeOK, ConsOK
<1>1. ASSUME UNCHANGED <<cons, job>> PROVE ConsStep
  BY <1>1
<1>2. ASSUME NEW s \in Sups, Receive(s) PROVE ConsStep
  <2>1. CASE /\ dkey # 0 /\ cons' = [cons EXCEPT ![s] = "handshake"]
             /\ job' = [job EXCEPT ![s] = [dial |-> Head(chan[s]), key |-> dkey]]
    <3>1. job'[s].key = dkey /\ cons'[s] = "handshake"
      BY <2>1
    <3>2. \A r \in Sups : r # s => job'[r] = job[r] /\ cons'[r] = cons[r]
      BY <2>1
    <3> QED
      BY <2>1, <3>1, <3>2
  <2>2. CASE UNCHANGED <<cons, job>>
    BY <1>1, <2>2
  <2> QED
    BY <1>2, <2>1, <2>2 DEF Receive, Work, consVars
<1>3. ASSUME NEW s \in Sups, HandshakeOk(s) PROVE ConsStep
  BY <1>3 DEF HandshakeOk, Work
<1>4. ASSUME NEW s \in Sups, MediaHello(s) PROVE ConsStep
  BY <1>4 DEF MediaHello, Work
<1>5. ASSUME NEW s \in Sups, ConsumerFails(s) PROVE ConsStep
  BY <1>5 DEF ConsumerFails, Work
<1>6. ASSUME StartSupervisor PROVE ConsStep
  <2>1. cons' = [cons EXCEPT ![2] = "idle"] /\ job' = job
    BY <1>6 DEF StartSupervisor
  <2> QED
    BY <2>1 DEF Sups
<1>8. ASSUME AbortConsumer PROVE ConsStep
  <2>1. /\ cons' = [cons EXCEPT ![1] = "gone"]
        /\ job' = [job EXCEPT ![1] = [dial |-> 0, key |-> 0]]
    BY <1>8 DEF AbortConsumer, Work
  <2> QED
    BY <2>1 DEF Sups
<1>7. CASE UNCHANGED vars
  BY <1>7, <1>1 DEF vars, busVars, reportVars, supVars, consVars, keyVars, phoneVars
<1> QED
  <2> HIDE DEF IInv, ConsStep, TypeOK, ConsOK
  <2> QED
    BY <1>1, <1>2, <1>3, <1>4, <1>5, <1>6, <1>7, <1>8, Footprints
    DEF Next, ProgramNext, FaultNext, UserNext, PhoneNext, SupNext, ConsNext, Sups

\* Every step with a key.
LEMMA KeySteps == IInv /\ [Next]_vars => KeyStep
<1> SUFFICES ASSUME IInv, [Next]_vars PROVE KeyStep
  OBVIOUS
<1>0. /\ keys \in Nat /\ DOMAIN drivers = 1..Len(drivers) /\ Len(drivers) \in Nat
      /\ drivers' \in Seq(DriverRecords) /\ DOMAIN drivers' = 1..Len(drivers')
  BY KeyTypes, DriverTypes, PhoneOKStep DEF IInv, PhoneOK
<1> USE <1>0
<1> USE UsbAssumption DEF IInv, KeyStep, PhoneKeys
<1>1. ASSUME UNCHANGED <<keys, dkey, pkey, saving, drivers>> PROVE KeyStep
  BY <1>1
<1>2. ASSUME NEW s \in Sups, HandshakeOk(s) PROVE KeyStep
  <2>1. PICK i \in 1..Len(drivers) : /\ drivers[i].cred = job[s].key
                                     /\ Edited(i, "bound", job[s].key)
    BY <1>2, HandshakeDoes
  <2>2. \A j \in DOMAIN drivers' : j \in DOMAIN drivers /\ drivers'[j].cred = drivers[j].cred
    BY <2>1 DEF Edited
  <2> QED
    BY <1>2, <2>2, Footprints
<1>3. ASSUME TrustDevice PROVE KeyStep
  BY <1>3, Footprints DEF TrustDevice
<1>4. ASSUME ForgetDevice PROVE KeyStep
  BY <1>4, Footprints DEF ForgetDevice
<1>5. ASSUME Accept PROVE KeyStep
  <2>1. Matched
    BY <1>5, AcceptDoes
  <2>2. \A j \in DOMAIN drivers' : \/ drivers'[j].cred = 0
                                   \/ j \in DOMAIN drivers /\ drivers'[j].cred = drivers[j].cred
    BY <2>1, MatchedCreds
  <2> QED
    BY <1>5, <2>2, Footprints
<1>6. ASSUME NextSession PROVE KeyStep
  <2>1. Matched
    BY <1>6, NextSessionDoes
  <2>2. \A j \in DOMAIN drivers' : \/ drivers'[j].cred = 0
                                   \/ j \in DOMAIN drivers /\ drivers'[j].cred = drivers[j].cred
    BY <2>1, MatchedCreds
  <2> QED
    BY <1>6, <2>2, Footprints
<1>7. ASSUME NEW i \in Dials, Resolve(i) PROVE KeyStep
  <2>1. Edited(i, "auth", pkey) \/ Edited(i, "asked", drivers[i].cred)
    BY <1>7, ResolveDoes
  <2>2. \A j \in DOMAIN drivers' : \/ drivers'[j].cred = pkey
                                   \/ j \in DOMAIN drivers /\ drivers'[j].cred = drivers[j].cred
    BY <2>1 DEF Edited
  <2> QED
    BY <1>7, <2>2, Footprints
<1>8. ASSUME Respond PROVE KeyStep
  <2>1. CASE Edited(prompt, "auth", keys + 1) /\ keys' = keys + 1 /\ saving' = keys + 1
    <3>1. \A j \in DOMAIN drivers' : \/ drivers'[j].cred = keys + 1
                                     \/ j \in DOMAIN drivers /\ drivers'[j].cred = drivers[j].cred
      BY <2>1 DEF Edited
    <3> QED
      BY <1>8, <2>1, <3>1, Footprints
  <2>2. CASE Edited(prompt, "over", drivers[prompt].cred) /\ UNCHANGED <<keys, saving>>
    <3>1. \A j \in DOMAIN drivers' : j \in DOMAIN drivers /\ drivers'[j].cred = drivers[j].cred
      BY <2>2 DEF Edited
    <3> QED
      BY <1>8, <2>2, <3>1, Footprints
  <2> QED
    BY <1>8, <2>1, <2>2, RespondDoes
<1>9. ASSUME Put PROVE KeyStep
  BY <1>9, Footprints DEF Put
<1>10. CASE UNCHANGED vars
  BY <1>10, <1>1 DEF vars, busVars, reportVars, supVars, consVars, keyVars, phoneVars
<1> QED
  <2> HIDE DEF IInv, KeyStep, PhoneKeys
  <2> QED
    BY <1>1, <1>2, <1>3, <1>4, <1>5, <1>6, <1>7, <1>8, <1>9, <1>10, Footprints
    DEF Next, ProgramNext, FaultNext, UserNext, PhoneNext, SupNext, ConsNext, Sups

-----------------------------------------------------------------------------
(* The parts of the invariant. *)

\* The phone stays the same.
LEMMA PhoneStays == IInv /\ [Next]_vars => (phone' = phone)
<1> SUFFICES ASSUME IInv, [Next]_vars PROVE phone' = phone
  OBVIOUS
<1>1. ASSUME UNCHANGED <<phone>> PROVE (phone' = phone)
  BY <1>1
<1>2. CASE UNCHANGED vars
  BY <1>2, <1>1 DEF vars, busVars, reportVars, supVars, consVars, keyVars, phoneVars
<1> QED
  <2> HIDE DEF IInv
  <2> QED
    BY <1>1, <1>2, Footprints
    DEF Next, ProgramNext, FaultNext, UserNext, PhoneNext, SupNext, ConsNext, Sups

\* Drawn keys are numbered in order.
LEMMA DrawnStep == IInv /\ [Next]_vars => Drawn'
<1> SUFFICES ASSUME IInv, [Next]_vars PROVE Drawn'
  OBVIOUS
<1>1. ConsStep /\ KeyStep /\ TypeOK /\ Drawn
  BY ConsSteps, KeySteps DEF IInv
<1>2. keys \in Nat /\ keys' \in Nat /\ (DeskKeys \cup PhoneKeys) \subseteq Nat
  <2>1. keys \in Nat /\ keys' \in Nat /\ dkey \in Nat /\ pkey \in Nat /\ saving \in Nat
    BY KeysOKStep, <1>1 DEF TypeOK, KeysOK
  <2>2. \A s \in Sups : job[s].key \in Nat
    BY <1>1 DEF TypeOK, ConsOK, Jobs
  <2>3. \A i \in DOMAIN drivers : drivers[i].cred \in Nat
    BY <1>1, DriverTypes
  <2> QED
    BY <2>1, <2>2, <2>3 DEF DeskKeys, PhoneKeys
<1>3. DeskKeys' \subseteq DeskKeys \cup {0, dkey'}
  BY <1>1 DEF ConsStep, DeskKeys
<1>4. \A k \in (DeskKeys \cup PhoneKeys)' : k = 0 \/ k \in DeskKeys \cup PhoneKeys
                                            \/ (k = keys + 1 /\ keys' = keys + 1)
  BY <1>1, <1>3 DEF KeyStep, DeskKeys
<1>5. \A k \in (DeskKeys \cup PhoneKeys)' : k <= keys'
  BY <1>1, <1>2, <1>4 DEF Drawn, KeyStep
<1>6. \A s \in Sups : cons'[s] \in {"handshake", "media"} => job'[s].key # 0
  BY <1>1 DEF ConsStep, Drawn
<1> QED
  BY <1>5, <1>6 DEF Drawn

\* Nobody but the end that draws a key gets it, unless the key was on a command line.
LEMMA ApartStep == IInv /\ [Next]_vars => Apart'
<1> SUFFICES ASSUME IInv, [Next]_vars, phone' = "ios",
                    NEW k \in DeskKeys', k # 0, k \in PhoneKeys'
             PROVE  FALSE
  BY DEF Apart
<1>1. ConsStep /\ KeyStep /\ Drawn /\ Apart /\ TypeOK
  BY ConsSteps, KeySteps DEF IInv
<1>2. phone = "ios"
  BY PhoneStays
<1>3. k \in DeskKeys \cup {dkey'}
  BY <1>1 DEF ConsStep, DeskKeys
<1>4. keys \in Nat /\ keys + 1 \notin DeskKeys /\ keys + 1 \notin PhoneKeys
  BY <1>1, KeyTypes DEF Drawn
<1>5. CASE PhoneKeys' \subseteq PhoneKeys \cup {0} /\ (dkey' \in {dkey, 0} \/ dkey' = keys + 1)
  BY <1>1, <1>2, <1>3, <1>4, <1>5 DEF Apart, DeskKeys
<1>6. CASE PhoneKeys' \subseteq PhoneKeys \cup {0, keys + 1} /\ dkey' = dkey
  BY <1>1, <1>2, <1>3, <1>4, <1>6 DEF Apart, DeskKeys
<1> QED
  BY <1>1, <1>5, <1>6 DEF KeyStep

\* No handshake of an iPhone succeeds.
LEMMA UnservedStep == IInv /\ [Next]_vars => IPhoneUnserved'
<1> SUFFICES ASSUME IInv, [Next]_vars, phone' = "ios"
             PROVE  /\ \A s \in Sups : cons'[s] # "media"
                    /\ \A n \in DOMAIN dials' : dials'[n].state # "session"
  BY DEF IPhoneUnserved, OnlySharedKeysServe
<1>1. phone = "ios" /\ TypeOK /\ Drawn /\ Apart /\ ConsStep /\ Dialing
  BY PhoneStays, ConsSteps DEF IInv
<1>2. /\ \A s \in Sups : cons[s] # "media"
      /\ \A n \in 1..Len(dials) : dials[n].state # "session"
  BY <1>1, DialTypes DEF IInv, IPhoneUnserved, OnlySharedKeysServe
<1>3. ASSUME NEW s \in Sups, HandshakeOk(s) PROVE FALSE
  <2>1. PICK i \in 1..Len(drivers) : drivers[i].cred = job[s].key
    BY <1>1, <1>3, HandshakeDoes
  <2>2. job[s].key # 0 /\ job[s].key \in DeskKeys
    BY <1>1, <1>3 DEF HandshakeOk, Drawn, DeskKeys
  <2>3. job[s].key \in PhoneKeys
    BY <1>1, <2>1, DriverTypes DEF PhoneKeys
  <2> QED
    BY <1>1, <2>2, <2>3 DEF Apart
<1>4. \A s \in Sups : cons'[s] # "media"
  BY <1>1, <1>2, <1>3 DEF ConsStep
<1>5. DOMAIN dials' = 1..Len(dials') /\ DOMAIN dials = 1..Len(dials)
  BY <1>1, DialsOKStep, DialTypes DEF DialsOK
<1>6. CASE Dropped
  BY <1>2, <1>4, <1>5, <1>6 DEF Dropped
<1>7. ASSUME NEW s \in Sups, TakeEvent(s)
      PROVE  \A n \in DOMAIN dials' : dials'[n].state # "session"
  <2>1. DialAdded \/ dials' = dials
    BY <1>1, <1>7, TakeDoes
  <2>2. Len(dials) \in Nat
    BY <1>1, DialTypes
  <2>3. CASE DialAdded
    BY <1>2, <1>5, <2>2, <2>3 DEF DialAdded
  <2> QED
    BY <1>2, <1>5, <2>1, <2>3
<1>8. ASSUME NEW s \in Sups, OpenControl(s)
      PROVE  \A n \in DOMAIN dials' : dials'[n].state # "session"
  <2>1. PICK e : DialEdited(target[s].dial, e)
                 /\ (target[s].dial \in DOMAIN dials => e.state = "half")
    BY <1>1, <1>8, OpenControlDoes
  <2> QED
    BY <1>2, <1>5, <2>1 DEF DialEdited
<1>9. ASSUME NEW s \in Sups, OpenMedia(s)
      PROVE  \A n \in DOMAIN dials' : dials'[n].state # "session"
  <2>1. PICK e : DialEdited(target[s].dial, e) /\ (target[s].dial \in DOMAIN dials =>
                                                       e.state \in {"open", dials[target[s].dial].state})
    BY <1>1, <1>9, OpenMediaDoes
  <2> QED
    BY <1>2, <1>5, <2>1 DEF DialEdited
<1>10. ASSUME NEW s \in Sups PROVE ~MediaHello(s)
  BY <1>1, <1>2, MediaHelloDoes
<1> QED
  BY <1>4, <1>6, <1>7, <1>8, <1>9, <1>10, DialSteps DEF DialsStep

\* Nothing is plugged in, dialed or asked yet.
LEMMA InitIInv == Init => IInv
<1> SUFFICES ASSUME Init PROVE IInv
  OBVIOUS
<1> USE UsbAssumption DEF Init
<1>1. BusOK
  <2>1. queue \in [Sups -> Seq(Events)] /\ known \in [Sups -> SUBSET Plugs]
    OBVIOUS
  <2>2. id \in [Plugs -> 0..MaxPlugs]
    OBVIOUS
  <2>3. backend \in {"poll", "listen"} /\ phone \in {"ios", "mock"} /\ plugs \in 0..MaxPlugs
    OBVIOUS
  <2>4. attached \in BOOLEAN /\ ~attached
    OBVIOUS
  <2> HIDE DEF Init
  <2> QED
    BY <2>1, <2>2, <2>3, <2>4 DEF BusOK
<1>2. DialsOK /\ Len(dials) = 0
  BY DEF DialsOK
<1>3. SupOK
  BY DEF SupOK, Targets, Nobody
<1>4. ConsOK
  BY DEF ConsOK, Jobs
<1>5. KeysOK
  BY DEF KeysOK
<1>6. PhoneOK
  BY DEF PhoneOK
<1>7. TypeOK
  BY <1>1, <1>2, <1>3, <1>4, <1>5, <1>6 DEF TypeOK
<1>8. Dialing /\ Prompted
  BY DEF Dialing, Prompted
<1>9. DOMAIN drivers = {} /\ DOMAIN dials = {}
  OBVIOUS
<1>10. Drawn
  BY <1>9 DEF Drawn, DeskKeys, PhoneKeys
<1>11. Apart
  BY <1>9 DEF Apart, DeskKeys, PhoneKeys
<1>12. IPhoneUnserved
  BY <1>9 DEF IPhoneUnserved, OnlySharedKeysServe
<1> QED
  BY <1>7, <1>8, <1>10, <1>11, <1>12 DEF IInv

-----------------------------------------------------------------------------
\* The invariant holds in every state.
THEOREM Invariance == Spec => []IInv
<1>1. IInv /\ [Next]_vars => IInv'
  BY TypeStep, DialingStep, PromptedStep, DrawnStep, ApartStep, UnservedStep DEF IInv
<1> QED
  BY InitIInv, <1>1, PTL DEF Spec

\* The backends, supervisors, consumers and the phone are always well typed: no dial is
\* numbered that was not begun, and the channel of dialed streams is never overfull.
THEOREM TypeCorrect == Spec => []TypeOK
<1>1. IInv => TypeOK
  BY DEF IInv
<1> QED
  BY Invariance, <1>1, PTL

\* TrustController.respond and trust_usb_device each draw a key, so the key that
\* accept_control_usb looks up is never the one an iPhone presents: no dial to an iPhone
\* becomes a session, whoever is asked how often.
THEOREM NoIPhoneServed == Spec => []OnlySharedKeysServe
<1>1. IInv => OnlySharedKeysServe
  BY DEF IInv, IPhoneUnserved
<1> QED
  BY Invariance, <1>1, PTL
=============================================================================
