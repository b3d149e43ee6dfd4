-------------------------- MODULE HandshakeProofs ---------------------------
(***************************************************************************)
(* The handshake's safety for any number of connections, session ids,      *)
(* secrets and versions, and its refinement of Admission.  The inductive   *)
(* invariant says, for one connection at a time, how far each end can be   *)
(* for what is in the two logs, and that a session id belongs to one       *)
(* connection.                                                             *)
(***************************************************************************)
EXTENDS Handshake, SequenceTheorems, TLAPS

\* What the desktop has read and answered, for each of its steps.
ServerInv(c) ==
    /\ Len(replies[c]) = got[c] /\ got[c] <= Len(sent[c])
    /\ server[c] = "hello" => got[c] = 0
    /\ server[c] = "auth" => got[c] = 1 /\ sent[c][1] = Hello(ProtoVer)
    /\ server[c] \in {"accepted", "ended"} => Credentialed(c) /\ sid[c] \in Sids
    /\ server[c] \in {"hello", "auth", "failed"} => sid[c] = None
    /\ \A i \in 1..Len(replies[c]) : replies[c][i].type = "authOk" =>
           server[c] \in {"accepted", "ended"} /\ replies[c][i] = AuthOk(sid[c])

\* What a phone has sent and heard, for each of its steps.
PhoneInv(c) == conf[c].client # "stray" =>
    /\ client[c] = "start" => Len(sent[c]) = 0 /\ heard[c] = 0
    /\ client[c] = "waitAck" => Len(sent[c]) = 1 /\ heard[c] = 0
    /\ client[c] = "waitAuth" => Len(sent[c]) >= 2 /\ heard[c] = 1
    /\ client[c] \in Steps \ {"start", "failed"} => cred[c] # None
    /\ client[c] \in {"bind", "announce", "ready"} => Len(sent[c]) >= 2 /\ csid[c] # None
    /\ Len(sent[c]) >= 1 => sent[c][1] = Hello(conf[c].ver)
    /\ Len(sent[c]) >= 2 => sent[c][2] \in {AuthBody(c), Bye}
    /\ csid[c] # None => csid[c] = sid[c] /\ server[c] \in {"accepted", "ended"}
    /\ bound[c] # None => csid[c] # None /\ bound[c] = MediaHello(csid[c], cred[c])

\* A peer outside the protocol never enters the phone's steps.
StrayInv(c) == conf[c].client = "stray" =>
    client[c] = "start" /\ csid[c] = None /\ bound[c] = None

RefusedInv(c) == conf[c].client # "stray" =>
    ((\E i \in 1..Len(replies[c]) : replies[c][i].type = "error") =>
        \/ conf[c].ver # ProtoVer
        \/ cred[c] # conf[c].expected
        \/ \E i \in 1..Len(sent[c]) : sent[c][i] = Bye)

SidsDistinct == \A c, d \in Conns : sid[c] = sid[d] /\ sid[c] # None => c = d

Local(c) == ServerInv(c) /\ PhoneInv(c) /\ StrayInv(c) /\ RefusedInv(c)
IInv == TypeOK /\ SidsDistinct /\ \A c \in Conns : Local(c)

Step(c) == ServerNext(c) \/ SessionEnds(c) \/ PhoneNext(c)
           \/ Disconnect(c) \/ Stray(c) \/ Cut(c)

\* Connection d is as it was.
Same(d) ==
    /\ conf'[d] = conf[d] /\ sent'[d] = sent[d] /\ got'[d] = got[d]
    /\ replies'[d] = replies[d] /\ heard'[d] = heard[d] /\ cut'[d] = cut[d]
    /\ server'[d] = server[d] /\ sid'[d] = sid[d]
    /\ client'[d] = client[d] /\ csid'[d] = csid[d]
    /\ cred'[d] = cred[d] /\ shown'[d] = shown[d] /\ bound'[d] = bound[d]

-----------------------------------------------------------------------------

\* The invariant of one connection is about that connection alone.
LEMMA SameKeepsLocal ==
    ASSUME NEW d \in Conns, Same(d), Local(d)
    PROVE  Local(d)'
  BY DEF Same, Local, ServerInv, PhoneInv, StrayInv, RefusedInv, Credentialed,
         AuthBody, WantedKind

\* A step of one connection leaves the others as they are.
LEMMA Others ==
    ASSUME TypeOK, NEW c \in Conns, Step(c), NEW d \in Conns \ {c}
    PROVE  Same(d)
<1> USE DEF Same, TypeOK, serverVars, clientVars, Goto, Send, Show
<1>1. CASE RecvHello(c) \/ RecvAuth(c) \/ ServerGivesUp(c) \/ SessionEnds(c)
  BY <1>1 DEF RecvHello, RecvAuth, ServerGivesUp, SessionEnds, Answer, send_error
<1>2. CASE ResolveCredential(c) \/ ScanToken(c) \/ SendHello(c) \/ RecvHelloAck(c)
  BY <1>2 DEF ResolveCredential, ScanToken, SendHello, RecvHelloAck
<1>3. CASE RecvAuthOk(c) \/ BindMedia(c) \/ Announce(c) \/ SendFails(c)
  BY <1>3 DEF RecvAuthOk, BindMedia, Announce, SendFails
<1>4. CASE MockHello(c) \/ MockAuth(c) \/ MockBind(c)
  BY <1>4 DEF MockHello, MockAuth, MockBind
<1>5. CASE Disconnect(c) \/ Stray(c) \/ Cut(c)
  BY <1>5 DEF Disconnect, Stray, Cut
<1> QED  BY <1>1, <1>2, <1>3, <1>4, <1>5 DEF Step, ServerNext, PhoneNext

-----------------------------------------------------------------------------
\* The messages of the protocol are messages of the type.
LEMMA MessageTypes ==
    /\ \A v \in Versions : Hello(v) \in Request
    /\ Bye \in Request
    /\ \A k \in {"token", "pairingKey"}, v \in Secrets : Auth(k, v) \in Request
    /\ HelloAck \in Reply
    /\ \A e \in Codes : Error(e) \in Reply
    /\ \A s \in Sids : AuthOk(s) \in Reply
  BY DEF Request, Reply

\* The fields of a message, and what tells messages apart.
LEMMA MessageFields ==
    /\ HelloAck.type = "helloAck"
    /\ \A e : Error(e).type = "error"
    /\ \A s : AuthOk(s).type = "authOk" /\ AuthOk(s).value = s
    /\ \A v : Hello(v).type = "hello" /\ Hello(v).value = v
    /\ Bye.type = "bye"
    /\ \A k, v : Auth(k, v).type = "auth" /\ Auth(k, v).kind = k /\ Auth(k, v).value = v
    /\ \A s, v : MediaHello(s, v).kind = s /\ MediaHello(s, v).value = v
  BY DEF HelloAck, Error, AuthOk, Hello, Bye, Auth, MediaHello, Msg

\* A request of type "hello" is a HELLO.
LEMMA HelloShape ==
    ASSUME NEW m \in Request, m.type = "hello"
    PROVE  m = Hello(m.value)
  BY DEF Request, Hello, Auth, Bye, Garbage, Msg

\* The desktop reads one message and answers it.
LEMMA AnswerKeepsType ==
    ASSUME TypeOK, NEW c \in Conns, server[c] \in {"hello", "auth"}, Local(c),
           NEW m \in Reply, NEW next \in {"auth", "accepted", "failed"},
           NEW s \in Sids \cup {None}, Answer(c, m, next, s),
           UNCHANGED <<conf, cut, clientVars>>
    PROVE  /\ TypeOK'
           /\ Len(replies'[c]) = Len(replies[c]) + 1
           /\ replies'[c][Len(replies[c]) + 1] = m
           /\ \A i \in 1..Len(replies[c]) : replies'[c][i] = replies[c][i]
           /\ got'[c] = got[c] + 1 /\ server'[c] = next /\ sid'[c] = s
<1>1. got[c] \in 0..1
  BY DEF Local, ServerInv
<1>2. replies[c] \in Seq(Reply)
  BY DEF TypeOK
<1>3. /\ Append(replies[c], m) \in Seq(Reply)
      /\ Len(Append(replies[c], m)) = Len(replies[c]) + 1
      /\ Append(replies[c], m)[Len(replies[c]) + 1] = m
      /\ \A i \in 1..Len(replies[c]) : Append(replies[c], m)[i] = replies[c][i]
  BY <1>2, AppendProperties
<1>4. replies' \in [Conns -> Seq(Reply)] /\ replies'[c] = Append(replies[c], m)
  BY <1>3 DEF Answer, TypeOK
<1>5. got' \in [Conns -> 0..2] /\ got'[c] = got[c] + 1
  BY <1>1 DEF Answer, TypeOK
<1>6. /\ server' \in [Conns -> {"hello", "auth", "accepted", "failed", "ended"}]
      /\ server'[c] = next
  BY DEF Answer, TypeOK
<1>7. sid' \in [Conns -> Sids \cup {None}] /\ sid'[c] = s
  BY DEF Answer, TypeOK
<1> QED  BY <1>3, <1>4, <1>5, <1>6, <1>7 DEF TypeOK, clientVars

\* The desktop answers with an error: it is done with the connection.
LEMMA ErrorStep ==
    ASSUME IInv, NEW c \in Conns, server[c] \in {"hello", "auth"}, Arrived(c),
           NEW e \in Codes, send_error(c, e), UNCHANGED <<conf, cut, clientVars>>,
           conf[c].client # "stray" =>
               \/ conf[c].ver # ProtoVer \/ cred[c] # conf[c].expected
               \/ \E i \in 1..Len(sent[c]) : sent[c][i] = Bye
    PROVE  TypeOK' /\ Local(c)' /\ SidsDistinct'
<1>1. TypeOK /\ Local(c) /\ SidsDistinct
  BY DEF IInv
<1>2. /\ TypeOK'
      /\ Len(replies'[c]) = Len(replies[c]) + 1
      /\ replies'[c][Len(replies[c]) + 1] = Error(e)
      /\ \A i \in 1..Len(replies[c]) : replies'[c][i] = replies[c][i]
      /\ got'[c] = got[c] + 1 /\ server'[c] = "failed" /\ sid'[c] = None
  BY <1>1, AnswerKeepsType, MessageTypes DEF send_error
<1>3. sid' = sid
  BY <1>1, <1>2 DEF send_error, Answer, TypeOK, Local, ServerInv
<1>4. Len(replies[c]) \in Nat /\ Len(sent[c]) \in Nat /\ got[c] \in Nat
  <2>1. replies[c] \in Seq(Reply) /\ sent[c] \in Seq(Request) /\ got[c] \in 0..2
    BY <1>1 DEF TypeOK
  <2> QED  BY <2>1, LenProperties
<1>5. \A i \in 1..Len(replies'[c]) : replies'[c][i].type # "authOk"
  BY <1>1, <1>2, <1>4, MessageFields DEF Local, ServerInv
<1>6. ServerInv(c)'
  BY <1>1, <1>2, <1>4, <1>5 DEF Local, ServerInv, Arrived, clientVars
<1>7. csid[c] = None
  BY <1>1 DEF Local, PhoneInv, StrayInv
<1>8. PhoneInv(c)' /\ StrayInv(c)'
  BY <1>1, <1>7 DEF Local, PhoneInv, StrayInv, clientVars, AuthBody, WantedKind
<1>9. RefusedInv(c)'
  BY DEF RefusedInv, clientVars
<1> QED  BY <1>1, <1>2, <1>3, <1>6, <1>8, <1>9 DEF Local, SidsDistinct

\* HELLO, in any of its outcomes.
LEMMA RecvHelloStep ==
    ASSUME IInv, NEW c \in Conns, RecvHello(c)
    PROVE  TypeOK' /\ Local(c)' /\ SidsDistinct'
<1>1. TypeOK /\ Local(c) /\ SidsDistinct /\ server[c] = "hello" /\ Arrived(c)
  BY DEF IInv, RecvHello
<1>2. /\ got[c] = 0 /\ Len(replies[c]) = 0 /\ Len(sent[c]) >= 1 /\ Len(sent[c]) \in Nat
      /\ Next1(c) = sent[c][1] /\ sent[c][1] \in Request
  BY <1>1 DEF Local, ServerInv, Arrived, Next1, TypeOK
<1>3. conf[c].client # "stray" => sent[c][1] = Hello(conf[c].ver)
  BY <1>1, <1>2 DEF Local, PhoneInv
<1>4. UNCHANGED <<conf, cut, clientVars>>
  BY DEF RecvHello
<1>5. CASE send_error(c, "bad_request") /\ Next1(c).type # "hello"
  BY <1>1, <1>2, <1>3, <1>4, <1>5, ErrorStep, MessageFields DEF Codes
<1>6. CASE send_error(c, "incompatible_version") /\ Next1(c).value # ProtoVer
  BY <1>1, <1>2, <1>3, <1>4, <1>6, ErrorStep, MessageFields DEF Codes
<1>7. CASE /\ Answer(c, HelloAck, "auth", None)
           /\ Next1(c).type = "hello" /\ Next1(c).value = ProtoVer
  <2>1. /\ TypeOK'
        /\ Len(replies'[c]) = Len(replies[c]) + 1
        /\ replies'[c][Len(replies[c]) + 1] = HelloAck
        /\ got'[c] = got[c] + 1 /\ server'[c] = "auth" /\ sid'[c] = None
    BY <1>1, <1>4, <1>7, AnswerKeepsType, MessageTypes
  <2>2. sid' = sid
    BY <1>1, <1>7, <2>1 DEF Answer, TypeOK, Local, ServerInv
  <2>3. sent[c][1] = Hello(ProtoVer)
    BY <1>2, <1>7, HelloShape
  <2>4. \A i \in 1..Len(replies'[c]) : replies'[c][i] = HelloAck
    BY <1>2, <2>1
  <2>5. ServerInv(c)' /\ RefusedInv(c)'
    BY <1>2, <1>4, <2>1, <2>3, <2>4, MessageFields DEF ServerInv, RefusedInv, clientVars
  <2>6. PhoneInv(c)' /\ StrayInv(c)'
    <3>1. csid[c] = None
      BY <1>1 DEF Local, PhoneInv, StrayInv
    <3> QED  BY <1>1, <1>4, <3>1
             DEF Local, PhoneInv, StrayInv, clientVars, AuthBody, WantedKind
  <2> QED  BY <1>1, <2>1, <2>2, <2>5, <2>6 DEF Local, SidsDistinct
<1> QED  BY <1>5, <1>6, <1>7 DEF RecvHello

\* AUTH, in any of its outcomes.
LEMMA RecvAuthStep ==
    ASSUME IInv, NEW c \in Conns, RecvAuth(c)
    PROVE  TypeOK' /\ Local(c)' /\ SidsDistinct'
<1>1. TypeOK /\ Local(c) /\ SidsDistinct /\ server[c] = "auth" /\ Arrived(c)
  BY DEF IInv, RecvAuth
<1>2. /\ got[c] = 1 /\ Len(replies[c]) = 1 /\ Len(sent[c]) >= 2 /\ Len(sent[c]) \in Nat
      /\ Next1(c) = sent[c][2] /\ sent[c][1] = Hello(ProtoVer)
  BY <1>1 DEF Local, ServerInv, Arrived, Next1, TypeOK
<1>3. /\ conf[c].client # "stray" => sent[c][2] \in {AuthBody(c), Bye}
  BY <1>1, <1>2 DEF Local, PhoneInv
<1>4. UNCHANGED <<conf, cut, clientVars>>
  BY DEF RecvAuth
<1>5. CASE send_error(c, "bad_request") /\ Next1(c).type # "auth"
  BY <1>1, <1>2, <1>3, <1>4, <1>5, ErrorStep, MessageFields DEF Codes, AuthBody
<1>6. CASE /\ send_error(c, "unauthorized")
           /\ Next1(c) # Auth(WantedKind(c), conf[c].expected)
  BY <1>1, <1>2, <1>3, <1>4, <1>6, ErrorStep, MessageFields DEF Codes, AuthBody
<1>7. ASSUME NEW s \in Sids, \A d \in Conns : sid[d] # s,
             Answer(c, AuthOk(s), "accepted", s),
             Next1(c) = Auth(WantedKind(c), conf[c].expected)
      PROVE  TypeOK' /\ Local(c)' /\ SidsDistinct'
  <2>1. /\ TypeOK'
        /\ Len(replies'[c]) = Len(replies[c]) + 1
        /\ replies'[c][Len(replies[c]) + 1] = AuthOk(s)
        /\ \A i \in 1..Len(replies[c]) : replies'[c][i] = replies[c][i]
        /\ got'[c] = got[c] + 1 /\ server'[c] = "accepted" /\ sid'[c] = s
    BY <1>1, <1>4, <1>7, AnswerKeepsType, MessageTypes
  <2>2. SidsDistinct'
    BY <1>1, <1>7 DEF Answer, TypeOK, SidsDistinct
  <2>3. Credentialed(c)'
    BY <1>2, <1>4, <1>7 DEF Credentialed, clientVars, WantedKind
  <2>4. \A i \in 1..Len(replies'[c]) : replies'[c][i].type = "authOk" =>
            replies'[c][i] = AuthOk(s)
    BY <1>1, <1>2, <2>1 DEF Local, ServerInv
  <2>5. ServerInv(c)'
    BY <1>2, <1>4, <2>1, <2>3, <2>4 DEF ServerInv, clientVars
  <2>6. \A i \in 1..Len(replies'[c]) : replies'[c][i].type = "error" =>
            i \in 1..Len(replies[c]) /\ replies[c][i].type = "error"
    BY <1>2, <2>1, MessageFields
  <2>7. RefusedInv(c)'
    BY <1>1, <1>4, <2>6 DEF Local, RefusedInv, clientVars
  <2>8. csid[c] = None
    BY <1>1 DEF Local, PhoneInv, StrayInv
  <2>9. PhoneInv(c)' /\ StrayInv(c)'
    BY <1>1, <1>4, <2>8 DEF Local, PhoneInv, StrayInv, clientVars, AuthBody, WantedKind
  <2> QED  BY <2>1, <2>2, <2>5, <2>7, <2>9 DEF Local
<1> QED  BY <1>5, <1>6, <1>7 DEF RecvAuth

\* The desktop leaves, before or after it accepted.
LEMMA LeaveStep ==
    ASSUME IInv, NEW c \in Conns, ServerGivesUp(c) \/ SessionEnds(c)
    PROVE  TypeOK' /\ Local(c)' /\ SidsDistinct'
<1>1. TypeOK /\ Local(c) /\ SidsDistinct
  BY DEF IInv
<1>2. TypeOK'
  BY <1>1 DEF TypeOK, ServerGivesUp, SessionEnds, clientVars
<1>3. SidsDistinct'
  BY <1>1 DEF SidsDistinct, ServerGivesUp, SessionEnds
<1>4. ServerInv(c)' /\ RefusedInv(c)'
  BY <1>1 DEF Local, ServerInv, RefusedInv, ServerGivesUp, SessionEnds, clientVars,
              TypeOK, Credentialed, WantedKind
<1>5. PhoneInv(c)' /\ StrayInv(c)'
  BY <1>1 DEF Local, PhoneInv, StrayInv, ServerGivesUp, SessionEnds, clientVars,
              TypeOK, AuthBody, WantedKind
<1> QED  BY <1>2, <1>3, <1>4, <1>5 DEF Local

-----------------------------------------------------------------------------
\* The phone's credential is resolved, before it has sent anything.
LEMMA CredentialStep ==
    ASSUME IInv, NEW c \in Conns, ResolveCredential(c) \/ ScanToken(c)
    PROVE  TypeOK' /\ Local(c)' /\ SidsDistinct'
<1>1. TypeOK /\ Local(c) /\ SidsDistinct /\ conf[c].client = "ios"
      /\ client[c] = "start" /\ cred[c] = None
  BY DEF IInv, ResolveCredential, ScanToken
<1>2. conf[c].has \in Secrets \cup {None} /\ (conf[c].transport = "wifi" => conf[c].has # None)
  BY <1>1 DEF TypeOK, Conf, ConfOK
<1>3. TypeOK'
  BY <1>1, <1>2 DEF TypeOK, ResolveCredential, ScanToken, Goto, serverVars, Steps
<1>4. UNCHANGED <<conf, sent, got, replies, heard, server, sid, csid, bound>>
      /\ client'[c] \in {"start", "failed"}
  BY <1>1 DEF ResolveCredential, ScanToken, serverVars, Goto, TypeOK
<1>5. Len(sent[c]) = 0 /\ heard[c] = 0 /\ csid[c] = None /\ bound[c] = None
  <2>1. Len(sent[c]) = 0 /\ heard[c] = 0
    BY <1>1 DEF Local, PhoneInv
  <2>2. server[c] \notin {"accepted", "ended"}
    BY <1>1, <2>1 DEF Local, ServerInv, Credentialed
  <2> QED  BY <1>1, <2>1, <2>2 DEF Local, PhoneInv
<1>6. Len(replies[c]) = 0
  <2>1. Len(replies[c]) \in Nat
    BY <1>1, LenProperties DEF TypeOK
  <2> QED  BY <1>1, <1>5, <2>1 DEF Local, ServerInv
<1>7. ServerInv(c)'
  BY <1>1, <1>4 DEF Local, ServerInv, Credentialed, WantedKind
<1>8. PhoneInv(c)' /\ StrayInv(c)' /\ RefusedInv(c)'
  BY <1>1, <1>4, <1>5, <1>6 DEF PhoneInv, StrayInv, RefusedInv, Steps
<1> QED  BY <1>1, <1>3, <1>4, <1>7, <1>8 DEF Local, SidsDistinct

\* A message is put at the end of a log: the ends of the connection see more of
\* it, and what was there stays.
LEMMA SendFacts ==
    ASSUME TypeOK, NEW c \in Conns, NEW m \in Request, Send(c, m)
    PROVE  /\ sent' \in [Conns -> Seq(Request)]
           /\ Len(sent[c]) \in Nat
           /\ Len(sent'[c]) = Len(sent[c]) + 1
           /\ sent'[c][Len(sent[c]) + 1] = m
           /\ \A i \in 1..Len(sent[c]) : sent'[c][i] = sent[c][i]
<1>1. sent[c] \in Seq(Request)
  BY DEF TypeOK
<1>2. /\ Append(sent[c], m) \in Seq(Request)
      /\ Len(Append(sent[c], m)) = Len(sent[c]) + 1
      /\ Append(sent[c], m)[Len(sent[c]) + 1] = m
      /\ \A i \in 1..Len(sent[c]) : Append(sent[c], m)[i] = sent[c][i]
      /\ Len(sent[c]) \in Nat
  BY <1>1, AppendProperties, LenProperties
<1>3. sent' \in [Conns -> Seq(Request)] /\ sent'[c] = Append(sent[c], m)
  BY <1>2 DEF Send, TypeOK
<1> QED  BY <1>2, <1>3

\* A longer log changes nothing for the desktop.
LEMMA SendKeepsServer ==
    ASSUME TypeOK, NEW c \in Conns, NEW m \in Request, Send(c, m), ServerInv(c),
           UNCHANGED <<conf, serverVars>>
    PROVE  ServerInv(c)'
<1>1. /\ Len(sent[c]) \in Nat /\ Len(sent'[c]) = Len(sent[c]) + 1
      /\ \A i \in 1..Len(sent[c]) : sent'[c][i] = sent[c][i]
  BY SendFacts
<1>2. got[c] \in 0..2
  BY DEF TypeOK
<1>3. server[c] = "auth" => sent'[c][1] = Hello(ProtoVer)
  BY <1>1, <1>2 DEF ServerInv
<1>4. Credentialed(c) => Credentialed(c)'
  BY <1>1 DEF Credentialed, WantedKind
<1> QED  BY <1>1, <1>2, <1>3, <1>4 DEF ServerInv, serverVars

\* HELLO of a phone or of the mock.
LEMMA HelloStep ==
    ASSUME IInv, NEW c \in Conns, SendHello(c) \/ MockHello(c)
    PROVE  TypeOK' /\ Local(c)' /\ SidsDistinct'
<1>1. TypeOK /\ Local(c) /\ SidsDistinct /\ client[c] = "start"
      /\ conf[c].client \in {"ios", "mock"}
  BY DEF IInv, SendHello, MockHello
<1>2. /\ Send(c, Hello(conf[c].ver)) /\ Goto(c, "waitAck")
      /\ UNCHANGED <<conf, cut, got, replies, server, sid, heard, csid, bound>>
  BY DEF SendHello, MockHello, serverVars
<1>3. Hello(conf[c].ver) \in Request
  BY <1>1, MessageTypes DEF TypeOK, Conf
<1>4. cred' \in [Conns -> Secrets \cup {None}] /\ cred'[c] # None
  BY <1>1 DEF SendHello, MockHello, TypeOK, Conf, ConfOK
<1>5. /\ sent' \in [Conns -> Seq(Request)]
      /\ Len(sent[c]) \in Nat /\ Len(sent'[c]) = Len(sent[c]) + 1
      /\ sent'[c][Len(sent[c]) + 1] = Hello(conf[c].ver)
  BY <1>1, <1>2, <1>3, SendFacts
<1>6. TypeOK'
  BY <1>1, <1>2, <1>4, <1>5 DEF TypeOK, Goto, Steps, SendHello, MockHello, Show
<1>7. Len(sent[c]) = 0 /\ heard[c] = 0
  BY <1>1 DEF Local, PhoneInv
<1>8. csid[c] = None /\ bound[c] = None /\ Len(replies[c]) = 0
  <2>1. Len(replies[c]) \in Nat
    BY <1>1, LenProperties DEF TypeOK
  <2>2. server[c] \notin {"accepted", "ended"} /\ Len(replies[c]) = 0
    BY <1>1, <1>7, <2>1 DEF Local, ServerInv, Credentialed
  <2> QED  BY <1>1, <2>2 DEF Local, PhoneInv
<1>9. ServerInv(c)'
  BY <1>1, <1>2, <1>3, SendKeepsServer DEF Local, serverVars
<1>10. client'[c] = "waitAck"
  BY <1>1, <1>2 DEF Goto, TypeOK
<1>11. PhoneInv(c)' /\ StrayInv(c)' /\ RefusedInv(c)'
  BY <1>1, <1>2, <1>4, <1>5, <1>7, <1>8, <1>10 DEF PhoneInv, StrayInv, RefusedInv, Steps
<1> QED  BY <1>1, <1>2, <1>6, <1>9, <1>11 DEF Local, SidsDistinct

\* AUTH follows HELLO_ACK; anything else ends the attempt.
LEMMA AuthStep ==
    ASSUME IInv, NEW c \in Conns, RecvHelloAck(c) \/ MockAuth(c)
    PROVE  TypeOK' /\ Local(c)' /\ SidsDistinct'
<1>1. TypeOK /\ Local(c) /\ SidsDistinct /\ client[c] = "waitAck"
      /\ conf[c].client \in {"ios", "mock"}
  BY DEF IInv, RecvHelloAck, MockAuth
<1>2. UNCHANGED <<conf, cut, got, replies, server, sid, csid, cred, bound>>
  BY DEF RecvHelloAck, MockAuth, serverVars
<1>3. /\ Len(sent[c]) = 1 /\ heard[c] = 0 /\ cred[c] # None
      /\ sent[c][1] = Hello(conf[c].ver) /\ csid[c] = None /\ bound[c] = None
  <2>1. /\ Len(sent[c]) = 1 /\ heard[c] = 0 /\ cred[c] # None
        /\ sent[c][1] = Hello(conf[c].ver)
    BY <1>1 DEF Local, PhoneInv, Steps
  <2>2. server[c] \notin {"accepted", "ended"}
    BY <1>1, <2>1 DEF Local, ServerInv, Credentialed
  <2> QED  BY <1>1, <2>1, <2>2 DEF Local, PhoneInv
<1>4. shown' \in [Conns -> {"idle", "handshaking", "ready", "stopped"}]
  BY <1>1 DEF RecvHelloAck, MockAuth, Show, TypeOK
<1>5. heard' \in [Conns -> 0..2]
  <2>1. heard \in [Conns -> 0..2] /\ heard[c] + 1 \in 0..2
    BY <1>1, <1>3 DEF TypeOK
  <2>2. heard' = heard \/ heard' = [heard EXCEPT ![c] = heard[c] + 1]
    BY <2>1 DEF RecvHelloAck, MockAuth
  <2> QED  BY <2>1, <2>2
<1>6. ASSUME Send(c, AuthBody(c)), Goto(c, "waitAuth"), heard'[c] = 1
      PROVE  TypeOK' /\ Local(c)' /\ SidsDistinct'
  <2>1. AuthBody(c) \in Request
    BY <1>1, <1>3, MessageTypes DEF AuthBody, WantedKind, TypeOK
  <2>2. /\ sent' \in [Conns -> Seq(Request)]
        /\ Len(sent'[c]) = Len(sent[c]) + 1
        /\ sent'[c][Len(sent[c]) + 1] = AuthBody(c)
        /\ \A i \in 1..Len(sent[c]) : sent'[c][i] = sent[c][i]
    BY <1>1, <1>6, <2>1, SendFacts
  <2>3. TypeOK' /\ client'[c] = "waitAuth"
    BY <1>1, <1>2, <1>4, <1>5, <1>6, <2>2 DEF TypeOK, Goto, Steps
  <2>4. ServerInv(c)'
    BY <1>1, <1>2, <1>6, <2>1, SendKeepsServer DEF Local, serverVars
  <2>5. AuthBody(c)' = AuthBody(c)
    BY <1>2 DEF AuthBody, WantedKind
  <2>6. PhoneInv(c)' /\ StrayInv(c)'
    BY <1>1, <1>2, <1>3, <1>6, <2>2, <2>3, <2>5 DEF PhoneInv, StrayInv, Steps
  <2>7. RefusedInv(c)'
    <3>1. (\E i \in 1..Len(sent[c]) : sent[c][i] = Bye)
              => \E i \in 1..Len(sent'[c]) : sent'[c][i] = Bye
      BY <1>3, <2>2
    <3> QED  BY <1>1, <1>2, <3>1 DEF Local, RefusedInv
  <2> QED  BY <1>1, <1>2, <2>3, <2>4, <2>6, <2>7 DEF Local, SidsDistinct
<1>7. ASSUME Goto(c, "failed"), UNCHANGED sent
      PROVE  TypeOK' /\ Local(c)' /\ SidsDistinct'
  <2>1. TypeOK' /\ client'[c] = "failed"
    BY <1>1, <1>2, <1>4, <1>5, <1>7 DEF TypeOK, Goto, Steps
  <2>2. ServerInv(c)' /\ RefusedInv(c)'
    BY <1>1, <1>2, <1>7 DEF Local, ServerInv, RefusedInv, Credentialed, WantedKind
  <2>3. PhoneInv(c)' /\ StrayInv(c)'
    BY <1>1, <1>2, <1>3, <1>7, <2>1 DEF PhoneInv, StrayInv, Steps
  <2> QED  BY <1>1, <1>2, <2>1, <2>2, <2>3 DEF Local, SidsDistinct
<1>8. Send(c, AuthBody(c)) /\ Goto(c, "waitAuth") => heard'[c] = 1
  BY <1>1, <1>3 DEF RecvHelloAck, MockAuth, TypeOK, Goto
<1> QED  BY <1>6, <1>7, <1>8 DEF RecvHelloAck, MockAuth

\* AUTH_OK names the session; anything else ends the attempt.
LEMMA AuthOkStep ==
    ASSUME IInv, NEW c \in Conns, RecvAuthOk(c) \/ MockBind(c)
    PROVE  TypeOK' /\ Local(c)' /\ SidsDistinct'
<1>1. TypeOK /\ Local(c) /\ SidsDistinct /\ client[c] = "waitAuth"
      /\ conf[c].client \in {"ios", "mock"}
  BY DEF IInv, RecvAuthOk, MockBind
<1>2. UNCHANGED <<conf, cut, got, replies, server, sid, sent, cred>>
  BY DEF RecvAuthOk, MockBind, serverVars
<1>3. /\ Len(sent[c]) >= 2 /\ heard[c] = 1 /\ cred[c] \in Secrets
  BY <1>1 DEF Local, PhoneInv, Steps, TypeOK
<1>4. heard' \in [Conns -> 0..2]
  <2>1. heard \in [Conns -> 0..2] /\ heard[c] + 1 \in 0..2
    BY <1>1, <1>3 DEF TypeOK
  <2>2. heard' = heard \/ heard' = [heard EXCEPT ![c] = heard[c] + 1]
    BY <2>1 DEF RecvAuthOk, MockBind
  <2> QED  BY <2>1, <2>2
<1>5. /\ shown' \in [Conns -> {"idle", "handshaking", "ready", "stopped"}]
      /\ client' \in [Conns -> Steps] /\ client'[c] \in {"bind", "ready", "failed"}
  BY <1>1 DEF RecvAuthOk, MockBind, Show, Goto, TypeOK, Steps
<1>6. Replied(c) /\ Reply1(c).type = "authOk" =>
          Reply1(c).value = sid[c] /\ sid[c] \in Sids /\ server[c] \in {"accepted", "ended"}
  <2>1. heard[c] + 1 \in 1..Len(replies[c]) \/ ~Replied(c)
    <3>1. Len(replies[c]) \in Nat
      BY <1>1, LenProperties DEF TypeOK
    <3> QED  BY <1>3, <3>1 DEF Replied
  <2> QED  BY <1>1, <2>1, MessageFields DEF Local, ServerInv, Reply1
<1>7. ServerInv(c)' /\ RefusedInv(c)'
  BY <1>1, <1>2 DEF Local, ServerInv, RefusedInv, Credentialed, WantedKind
<1>8. AuthBody(c)' = AuthBody(c)
  BY <1>2 DEF AuthBody, WantedKind
<1>9. CASE csid' = csid /\ bound' = bound /\ client'[c] = "failed"
  <2>1. TypeOK'
    BY <1>1, <1>2, <1>4, <1>5, <1>9 DEF TypeOK
  <2>2. PhoneInv(c)' /\ StrayInv(c)'
    BY <1>1, <1>2, <1>3, <1>8, <1>9 DEF Local, PhoneInv, StrayInv, Steps
  <2> QED  BY <1>1, <1>2, <1>7, <2>1, <2>2 DEF Local, SidsDistinct
<1>10. CASE /\ csid' = [csid EXCEPT ![c] = sid[c]] /\ sid[c] \in Sids
            /\ server[c] \in {"accepted", "ended"}
            /\ \/ bound' = bound
               \/ bound' = [bound EXCEPT ![c] = MediaHello(sid[c], cred[c])]
  <2>1. MediaHello(sid[c], cred[c]) \in MediaHellos
    BY <1>3, <1>10 DEF MediaHellos
  <2>2. TypeOK' /\ csid'[c] = sid[c] /\ csid'[c] # None
        /\ (bound'[c] = bound[c] \/ bound'[c] = MediaHello(sid[c], cred[c]))
    <3>1. csid' \in [Conns -> Sids \cup {None}] /\ csid'[c] = sid[c]
      BY <1>1, <1>10 DEF TypeOK
    <3>2. /\ bound' \in [Conns -> MediaHellos \cup {None}]
          /\ (bound'[c] = bound[c] \/ bound'[c] = MediaHello(sid[c], cred[c]))
      BY <1>1, <1>10, <2>1 DEF TypeOK
    <3>3. sid[c] # None
      BY <1>10, HandshakeAssumption
    <3> QED  BY <1>1, <1>2, <1>4, <1>5, <3>1, <3>2, <3>3 DEF TypeOK
  <2>3. PhoneInv(c)' /\ StrayInv(c)'
    BY <1>1, <1>2, <1>3, <1>5, <1>8, <1>10, <2>2 DEF Local, PhoneInv, StrayInv, Steps
  <2> QED  BY <1>1, <1>2, <1>7, <2>2, <2>3 DEF Local, SidsDistinct
<1> QED
  <2>1. CASE RecvAuthOk(c)
    BY <1>1, <1>6, <1>9, <1>10, <2>1 DEF RecvAuthOk, Goto, TypeOK
  <2>2. CASE MockBind(c)
    BY <1>1, <1>6, <1>9, <1>10, <2>2 DEF MockBind, Goto, TypeOK
  <2> QED  BY <2>1, <2>2

\* MEDIA_HELLO on the other connection.
LEMMA BindMediaStep ==
    ASSUME IInv, NEW c \in Conns, BindMedia(c)
    PROVE  TypeOK' /\ Local(c)' /\ SidsDistinct'
<1>1. TypeOK /\ Local(c) /\ SidsDistinct /\ client[c] = "bind" /\ conf[c].client = "ios"
  BY DEF IInv, BindMedia
<1>2. UNCHANGED <<conf, cut, got, replies, server, sid, sent, heard, csid, cred, shown>>
  BY DEF BindMedia, serverVars
<1>3. csid[c] \in Sids /\ csid[c] # None /\ cred[c] \in Secrets /\ Len(sent[c]) >= 2
  BY <1>1 DEF Local, PhoneInv, Steps, TypeOK
<1>4. MediaHello(csid[c], cred[c]) \in MediaHellos
  BY <1>3 DEF MediaHellos
<1>5. TypeOK' /\ client'[c] = "announce" /\ bound'[c] = MediaHello(csid[c], cred[c])
  BY <1>1, <1>2, <1>4 DEF TypeOK, BindMedia, Goto, Steps
<1>6. ServerInv(c)' /\ RefusedInv(c)'
  BY <1>1, <1>2 DEF Local, ServerInv, RefusedInv, Credentialed, WantedKind
<1>7. PhoneInv(c)' /\ StrayInv(c)'
  BY <1>1, <1>2, <1>3, <1>5 DEF Local, PhoneInv, StrayInv, Steps, AuthBody, WantedKind
<1> QED  BY <1>1, <1>2, <1>5, <1>6, <1>7 DEF Local, SidsDistinct

\* Steps that only move the phone along or end its attempt.
LEMMA MoveStep ==
    ASSUME IInv, NEW c \in Conns, Announce(c) \/ SendFails(c)
    PROVE  TypeOK' /\ Local(c)' /\ SidsDistinct'
<1>1. TypeOK /\ Local(c) /\ SidsDistinct /\ conf[c].client = "ios"
      /\ client[c] \in {"bind", "announce"}
  BY DEF IInv, Announce, SendFails
<1>2. UNCHANGED <<conf, cut, got, replies, server, sid, sent, heard, csid, cred, bound>>
  BY DEF Announce, SendFails, serverVars
<1>3. TypeOK' /\ client'[c] \in {"ready", "failed"}
  BY <1>1, <1>2 DEF TypeOK, Announce, SendFails, Goto, Show, Steps
<1>4. ServerInv(c)' /\ RefusedInv(c)'
  BY <1>1, <1>2 DEF Local, ServerInv, RefusedInv, Credentialed, WantedKind
<1>5. PhoneInv(c)' /\ StrayInv(c)'
  BY <1>1, <1>2, <1>3 DEF Local, PhoneInv, StrayInv, Steps, AuthBody, WantedKind
<1> QED  BY <1>1, <1>2, <1>3, <1>4, <1>5 DEF Local, SidsDistinct

\* BYE, at any await of the handshake or after it.
LEMMA DisconnectStep ==
    ASSUME IInv, NEW c \in Conns, Disconnect(c)
    PROVE  TypeOK' /\ Local(c)' /\ SidsDistinct'
<1>1. TypeOK /\ Local(c) /\ SidsDistinct /\ conf[c].client = "ios"
      /\ client[c] \in {"waitAck", "waitAuth", "bind", "announce", "ready"}
      /\ Send(c, Bye)
  BY DEF IInv, Disconnect
<1>2. UNCHANGED <<conf, cut, got, replies, server, sid, heard, csid, cred, bound>>
  BY DEF Disconnect, serverVars
<1>3. /\ sent' \in [Conns -> Seq(Request)] /\ Len(sent[c]) \in Nat
      /\ Len(sent'[c]) = Len(sent[c]) + 1
      /\ sent'[c][Len(sent[c]) + 1] = Bye
      /\ \A i \in 1..Len(sent[c]) : sent'[c][i] = sent[c][i]
  BY <1>1, MessageTypes, SendFacts
<1>4. TypeOK' /\ client'[c] = "failed"
  BY <1>1, <1>2, <1>3 DEF TypeOK, Disconnect, Goto, Show, Steps
<1>5. ServerInv(c)'
  BY <1>1, <1>2, MessageTypes, SendKeepsServer DEF Local, serverVars
<1>6. Len(sent[c]) >= 1
  <2>1. Len(sent[c]) = 1 \/ Len(sent[c]) >= 2
    BY <1>1 DEF Local, PhoneInv
  <2>2. Len(sent[c]) \in Nat
    BY <1>3
  <2> QED  BY <2>1, <2>2
<1>7. AuthBody(c)' = AuthBody(c)
  BY <1>2 DEF AuthBody, WantedKind
<1>8. sent'[c][1] = sent[c][1] /\ (Len(sent[c]) >= 2 => sent'[c][2] = sent[c][2])
      /\ (Len(sent[c]) < 2 => sent'[c][2] = Bye)
  BY <1>3, <1>6
<1>9. PhoneInv(c)' /\ StrayInv(c)' /\ RefusedInv(c)'
  <2>1. RefusedInv(c)'
    BY <1>3 DEF RefusedInv
  <2>2. PhoneInv(c)' /\ StrayInv(c)'
    BY <1>1, <1>2, <1>3, <1>4, <1>6, <1>7, <1>8 DEF Local, PhoneInv, StrayInv, Steps
  <2> QED  BY <2>1, <2>2
<1> QED  BY <1>1, <1>2, <1>4, <1>5, <1>9 DEF Local, SidsDistinct

\* A peer outside the protocol sends something; the connection goes dead.
LEMMA FaultStep ==
    ASSUME IInv, NEW c \in Conns, Stray(c) \/ Cut(c)
    PROVE  TypeOK' /\ Local(c)' /\ SidsDistinct'
<1>1. TypeOK /\ Local(c) /\ SidsDistinct
  BY DEF IInv
<1>2. CASE Stray(c)
  <2>1. PICK m \in Request : Send(c, m)
    BY <1>2 DEF Stray
  <2>2. conf[c].client = "stray" /\ UNCHANGED <<conf, cut, serverVars, heard, client, csid,
                                                cred, shown, bound>>
    BY <1>2 DEF Stray
  <2>3. sent' \in [Conns -> Seq(Request)]
    BY <1>1, <2>1, SendFacts
  <2>4. TypeOK'
    BY <1>1, <2>2, <2>3 DEF TypeOK, serverVars
  <2>5. ServerInv(c)'
    BY <1>1, <2>1, <2>2, SendKeepsServer DEF Local
  <2>6. PhoneInv(c)' /\ StrayInv(c)' /\ RefusedInv(c)'
    BY <1>1, <2>2 DEF Local, PhoneInv, StrayInv, RefusedInv
  <2> QED  BY <1>1, <2>2, <2>4, <2>5, <2>6 DEF Local, SidsDistinct, serverVars
<1>3. CASE Cut(c)
  <2>1. TypeOK'
    BY <1>1, <1>3 DEF TypeOK, Cut, serverVars, clientVars
  <2>2. Local(c)'
    BY <1>1, <1>3 DEF Cut, serverVars, clientVars, Local, ServerInv, PhoneInv, StrayInv,
                      RefusedInv, Credentialed, AuthBody, WantedKind
  <2> QED  BY <1>1, <1>3, <2>1, <2>2 DEF Cut, serverVars, SidsDistinct
<1> QED  BY <1>2, <1>3

-----------------------------------------------------------------------------
\* Before any message both ends satisfy the invariant.
LEMMA InitIInv == Init => IInv
<1> SUFFICES ASSUME Init PROVE IInv
  OBVIOUS
<1>1. TypeOK
  BY DEF Init, TypeOK, Steps
<1>2. SidsDistinct
  BY DEF Init, SidsDistinct
<1>3. ASSUME NEW c \in Conns PROVE Local(c)
  BY <1>3 DEF Init, Local, ServerInv, PhoneInv, StrayInv, RefusedInv, Steps
<1> QED  BY <1>1, <1>2, <1>3 DEF IInv

\* A step of any connection keeps the invariant.
LEMMA StepIInv == IInv /\ [Next]_vars => IInv'
<1>1. ASSUME IInv, NEW c \in Conns, Step(c) PROVE IInv'
  <2>1. TypeOK' /\ Local(c)' /\ SidsDistinct'
    <3>1. CASE RecvHello(c)  BY <1>1, <3>1, RecvHelloStep
    <3>2. CASE RecvAuth(c)  BY <1>1, <3>2, RecvAuthStep
    <3>3. CASE ServerGivesUp(c) \/ SessionEnds(c)  BY <1>1, <3>3, LeaveStep
    <3>4. CASE ResolveCredential(c) \/ ScanToken(c)  BY <1>1, <3>4, CredentialStep
    <3>5. CASE SendHello(c) \/ MockHello(c)  BY <1>1, <3>5, HelloStep
    <3>6. CASE RecvHelloAck(c) \/ MockAuth(c)  BY <1>1, <3>6, AuthStep
    <3>7. CASE RecvAuthOk(c) \/ MockBind(c)  BY <1>1, <3>7, AuthOkStep
    <3>8. CASE BindMedia(c)  BY <1>1, <3>8, BindMediaStep
    <3>9. CASE Announce(c) \/ SendFails(c)  BY <1>1, <3>9, MoveStep
    <3>10. CASE Disconnect(c)  BY <1>1, <3>10, DisconnectStep
    <3>11. CASE Stray(c) \/ Cut(c)  BY <1>1, <3>11, FaultStep
    <3> QED  BY <1>1, <3>1, <3>2, <3>3, <3>4, <3>5, <3>6, <3>7, <3>8, <3>9, <3>10, <3>11
             DEF Step, ServerNext, PhoneNext
  <2>2. ASSUME NEW d \in Conns \ {c} PROVE Local(d)'
    <3>1. Same(d)
      BY <1>1, Others DEF IInv
    <3> QED  BY <1>1, <3>1, SameKeepsLocal DEF IInv
  <2> QED  BY <2>1, <2>2 DEF IInv
<1>2. ASSUME IInv, UNCHANGED vars PROVE IInv'
  BY <1>2 DEF IInv, TypeOK, SidsDistinct, Local, ServerInv, PhoneInv, StrayInv, RefusedInv,
              Credentialed, AuthBody, WantedKind, vars, serverVars, clientVars
<1> QED  BY <1>1, <1>2 DEF Next, Step

\* What both ends know of each other, at every step of the handshake.
THEOREM Invariance == Spec => []IInv
  BY InitIInv, StepIInv, PTL DEF Spec

\* Every variable keeps its type: the two logs, the counts read from them, and
\* the steps of accept_control(_usb) and SessionController.connect.
THEOREM TypeCorrect == Spec => []TypeOK
<1>1. IInv => TypeOK
  BY DEF IInv
<1> QED  BY <1>1, Invariance, PTL

\* The desktop accepts only a peer whose first two messages were HELLO of its
\* version and AUTH with the kind and the secret the transport requires.
THEOREM Accepted == Spec => []AcceptedAreCredentialed
<1>1. IInv => AcceptedAreCredentialed
  BY DEF IInv, Local, ServerInv, AcceptedAreCredentialed
<1> QED  BY <1>1, Invariance, PTL

\* A phone whose handshake accepted is credentialed knows the secret.
LEMMA AcceptedPhone ==
    ASSUME IInv, NEW c \in Conns, conf[c].client # "stray",
           server[c] \in {"accepted", "ended"}
    PROVE  conf[c].ver = ProtoVer /\ cred[c] = conf[c].expected
<1>1. PhoneInv(c) /\ Credentialed(c)
  BY DEF IInv, Local, ServerInv
<1>2. Len(sent[c]) \in Nat
  BY LenProperties DEF IInv, TypeOK
<1>3. sent[c][1] = Hello(conf[c].ver) /\ sent[c][2] \in {AuthBody(c), Bye}
  BY <1>1, <1>2 DEF PhoneInv, Credentialed
<1>4. Hello(conf[c].ver) = Hello(ProtoVer)
      /\ AuthBody(c) = Auth(WantedKind(c), conf[c].expected)
  BY <1>1, <1>3, MessageFields DEF Credentialed
<1> QED  BY <1>4, MessageFields DEF AuthBody

\* A ready phone and the desktop agree on session, version and secret.
THEOREM Agree == Spec => []Agreement
<1>1. ASSUME IInv, NEW c \in Conns, client[c] = "ready"
      PROVE  /\ server[c] \in {"accepted", "ended"}
             /\ csid[c] = sid[c] /\ sid[c] # None
             /\ conf[c].ver = ProtoVer /\ cred[c] = conf[c].expected
  <2>1. conf[c].client # "stray"
    BY <1>1 DEF IInv, Local, StrayInv
  <2>2. server[c] \in {"accepted", "ended"} /\ csid[c] = sid[c] /\ sid[c] # None
    BY <1>1, <2>1 DEF IInv, Local, PhoneInv
  <2> QED  BY <1>1, <2>1, <2>2, AcceptedPhone
<1>2. IInv => Agreement
  BY <1>1 DEF Agreement
<1> QED  BY <1>2, Invariance, PTL

\* MEDIA_HELLO names the session and the secret of its control connection, and
\* no other connection's.
THEOREM MediaHellosMatch == Spec => []MediaHelloMatches
<1>1. ASSUME IInv, NEW c \in Conns, bound[c] # None
      PROVE  bound[c] = MediaHello(sid[c], conf[c].expected) /\ sid[c] # None
  <2>1. conf[c].client # "stray"
    BY <1>1 DEF IInv, Local, StrayInv
  <2>2. server[c] \in {"accepted", "ended"} /\ csid[c] = sid[c] /\ sid[c] # None
        /\ bound[c] = MediaHello(csid[c], cred[c])
    BY <1>1, <2>1 DEF IInv, Local, PhoneInv
  <2> QED  BY <1>1, <2>1, <2>2, AcceptedPhone
<1>2. ASSUME IInv, NEW c \in Conns, bound[c] # None, NEW d \in Conns \ {c}
      PROVE  bound[d] # bound[c]
  <2> SUFFICES ASSUME bound[d] = bound[c] PROVE FALSE
    OBVIOUS
  <2>1. sid[d] = sid[c] /\ sid[c] # None
    BY <1>1, <1>2, MessageFields
  <2> QED  BY <1>2, <2>1 DEF IInv, SidsDistinct
<1>3. IInv => MediaHelloMatches
  BY <1>1, <1>2 DEF MediaHelloMatches
<1> QED  BY <1>3, Invariance, PTL

\* A phone that keeps to the protocol is refused for a wrong version, a wrong
\* secret, or its own BYE.
THEOREM Refused == Spec => []RefusedForCause
<1>1. IInv => RefusedForCause
  BY DEF IInv, Local, RefusedInv, RefusedForCause
<1> QED  BY <1>1, Invariance, PTL

-----------------------------------------------------------------------------
(* The refinement.                                                           *)

\* What a step of one connection may do to what Admission sees of it.
AdmStep(c) ==
    \/ Adm!Present(c) \/ Adm!Leave(c) \/ Adm!Hold(c) \/ Adm!Drop(c)
    \/ \E s \in Sids : Adm!Admit(c, s)
    \/ UNCHANGED Adm!vars

\* The desktop's steps admit, leave, or are not seen.
LEMMA ServerRefines ==
    ASSUME IInv, NEW c \in Conns, ServerNext(c) \/ SessionEnds(c)
    PROVE  AdmStep(c)
<1>1. TypeOK /\ Local(c)
  BY DEF IInv
<1>2. UNCHANGED <<conf, sent, client, csid>>
  BY DEF ServerNext, SessionEnds, RecvHello, RecvAuth, ServerGivesUp, clientVars
<1>3. \A d \in Conns : Credentialed(d)' = Credentialed(d)
  BY <1>2 DEF Credentialed, WantedKind
<1>4. ASSUME sid' = sid, server' = [server EXCEPT ![c] = server'[c]],
             server'[c] \in {"failed", "ended"}
      PROVE  Adm!Leave(c)
  <2>1. \A d \in Conns \ {c} : server'[d] = server[d]
    BY <1>1, <1>4 DEF TypeOK
  <2>2. [d \in Conns |-> server'[d] \in {"failed", "ended"}]
        = [[d \in Conns |-> server[d] \in {"failed", "ended"}] EXCEPT ![c] = TRUE]
    BY <1>4, <2>1, Zenon
  <2>3. [d \in Conns |-> Credentialed(d)'] = [d \in Conns |-> Credentialed(d)]
    BY <1>3, Zenon
  <2> QED  BY <1>2, <1>4, <2>2, <2>3, Zenon DEF Adm!Leave
<1>5. ASSUME sid' = sid, server' = [server EXCEPT ![c] = "auth"], server[c] = "hello"
      PROVE  UNCHANGED Adm!vars
  BY <1>1, <1>2, <1>3, <1>5 DEF Adm!vars, TypeOK
<1>6. ASSUME NEW e \in Codes, send_error(c, e), server[c] \in {"hello", "auth"}
      PROVE  Adm!Leave(c)
  <2>1. sid' = sid
    BY <1>1, <1>6 DEF send_error, Answer, TypeOK, Local, ServerInv
  <2>2. server' = [server EXCEPT ![c] = "failed"] /\ server'[c] = "failed"
    BY <1>1, <1>6 DEF send_error, Answer, TypeOK
  <2> QED  BY <1>4, <2>1, <2>2
<1>7. CASE RecvHello(c)
  <2>1. CASE \E e \in Codes : send_error(c, e)
    BY <1>6, <1>7, <2>1 DEF AdmStep, RecvHello
  <2>2. CASE Answer(c, HelloAck, "auth", None)
    <3>1. sid' = sid
      BY <1>1, <1>7, <2>2 DEF Answer, TypeOK, Local, ServerInv, RecvHello
    <3> QED  BY <1>5, <1>7, <2>2, <3>1 DEF Answer, RecvHello, AdmStep
  <2> QED  BY <1>7, <2>1, <2>2 DEF RecvHello, Codes
<1>8. CASE RecvAuth(c)
  <2>1. CASE \E e \in Codes : send_error(c, e)
    BY <1>6, <1>8, <2>1 DEF AdmStep, RecvAuth
  <2>2. ASSUME NEW s \in Sids, \A d \in Conns : sid[d] # s,
               Answer(c, AuthOk(s), "accepted", s),
               Next1(c) = Auth(WantedKind(c), conf[c].expected)
        PROVE  Adm!Admit(c, s)
    <3>1. server[c] = "auth" /\ Arrived(c) /\ sid[c] = None /\ got[c] = 1
          /\ sent[c][1] = Hello(ProtoVer) /\ Len(sent[c]) \in Nat
      BY <1>1, <1>8, LenProperties DEF RecvAuth, Local, ServerInv, TypeOK
    <3>2. Credentialed(c)
      BY <2>2, <3>1 DEF Credentialed, Arrived, Next1
    <3>3. sid' = [sid EXCEPT ![c] = s] /\ server' = [server EXCEPT ![c] = "accepted"]
      BY <2>2 DEF Answer
    <3>4. \A d \in Conns \ {c} : server'[d] = server[d]
      BY <1>1, <3>3 DEF TypeOK
    <3>5. server[c] \notin {"failed", "ended"} /\ server'[c] \notin {"failed", "ended"}
      BY <1>1, <3>1, <3>3 DEF TypeOK
    <3>6. [d \in Conns |-> server'[d] \in {"failed", "ended"}]
          = [d \in Conns |-> server[d] \in {"failed", "ended"}]
      <4>1. \A d \in Conns : (server'[d] \in {"failed", "ended"})
                              = (server[d] \in {"failed", "ended"})
        BY <3>4, <3>5
      <4> QED  BY <4>1, Zenon
    <3>7. [d \in Conns |-> Credentialed(d)'] = [d \in Conns |-> Credentialed(d)]
      BY <1>3, Zenon
    <3> QED  BY <1>2, <2>2, <3>1, <3>2, <3>3, <3>5, <3>6, <3>7, Zenon DEF Adm!Admit
  <2> QED  BY <1>8, <2>1, <2>2 DEF RecvAuth, Codes, AdmStep
<1>9. CASE ServerGivesUp(c) \/ SessionEnds(c)
  <2>1. sid' = sid /\ server'[c] \in {"failed", "ended"}
        /\ server' = [server EXCEPT ![c] = server'[c]]
    BY <1>1, <1>9 DEF ServerGivesUp, SessionEnds, TypeOK
  <2> QED  BY <1>4, <2>1 DEF AdmStep
<1> QED  BY <1>7, <1>8, <1>9 DEF ServerNext

\* What a message does to what the phone has presented.
LEMMA SendPresents ==
    ASSUME TypeOK, NEW c \in Conns, NEW m \in Request, Send(c, m), UNCHANGED conf
    PROVE  /\ \A d \in Conns \ {c} : Credentialed(d)' = Credentialed(d)
           /\ Credentialed(c) => Credentialed(c)'
           /\ Len(sent[c]) # 1 => Credentialed(c)' = Credentialed(c)
           /\ m.type # "auth" => Credentialed(c)' = Credentialed(c)
<1>1. /\ Len(sent[c]) \in Nat /\ Len(sent'[c]) = Len(sent[c]) + 1
      /\ sent'[c][Len(sent[c]) + 1] = m
      /\ \A i \in 1..Len(sent[c]) : sent'[c][i] = sent[c][i]
  BY SendFacts
<1>2. \A d \in Conns \ {c} : sent'[d] = sent[d]
  BY DEF Send, TypeOK
<1>3. \A d \in Conns \ {c} : Credentialed(d)' = Credentialed(d)
  BY <1>2 DEF Credentialed, WantedKind
<1>4. Len(sent[c]) >= 2 => Credentialed(c)' = Credentialed(c)
  BY <1>1 DEF Credentialed, WantedKind
<1>5. Len(sent[c]) = 0 => ~Credentialed(c)' /\ ~Credentialed(c)
  BY <1>1 DEF Credentialed
<1>6. Len(sent[c]) = 1 /\ m.type # "auth" => ~Credentialed(c)' /\ ~Credentialed(c)
  BY <1>1, MessageFields DEF Credentialed
<1>7. Len(sent[c]) = 1 => ~Credentialed(c)
  BY DEF Credentialed
<1>8. Credentialed(c) \in BOOLEAN /\ Credentialed(c)' \in BOOLEAN
  BY DEF Credentialed
<1>9. Len(sent[c]) = 0 \/ Len(sent[c]) = 1 \/ Len(sent[c]) >= 2
  <2>1. Len(sent[c]) \in Nat
    BY <1>1
  <2>2. \A n \in Nat : n = 0 \/ n = 1 \/ n >= 2
    OBVIOUS
  <2> QED  BY <2>1, <2>2, Zenon
<1> QED  BY <1>3, <1>4, <1>5, <1>6, <1>7, <1>8, <1>9, Zenon

\* What the phones hold, as Admission is given it.
Held == [d \in Conns |-> IF client[d] = "ready" THEN csid[d] ELSE None]

\* A phone's steps that neither make it ready nor end its readiness.
LEMMA HeldSame ==
    ASSUME TypeOK, NEW c \in Conns, client[c] # "ready", client'[c] # "ready",
           \A d \in Conns \ {c} : client'[d] = client[d] /\ csid'[d] = csid[d]
    PROVE  Held' = Held
  BY DEF Held

\* A step in which a phone sends, without becoming ready, presents or is not seen.
LEMMA SendRefines ==
    ASSUME TypeOK, NEW c \in Conns, NEW m \in Request, Send(c, m),
           UNCHANGED <<conf, server, sid>>, Held' = Held
    PROVE  AdmStep(c)
<1>1. UNCHANGED [d \in Conns |-> server[d] \in {"failed", "ended"}]
  BY Zenon
<1>2. \A d \in Conns \ {c} : Credentialed(d)' = Credentialed(d)
  BY SendPresents
<1>3. CASE Credentialed(c)' = Credentialed(c)
  <2>1. [d \in Conns |-> Credentialed(d)'] = [d \in Conns |-> Credentialed(d)]
    BY <1>2, <1>3, Zenon
  <2> QED  BY <1>1, <2>1, Zenon DEF AdmStep, Adm!vars, Held
<1>4. CASE Credentialed(c)'
  <2>1. [d \in Conns |-> Credentialed(d)']
        = [[d \in Conns |-> Credentialed(d)] EXCEPT ![c] = TRUE]
    <3>1. Credentialed(c)' = TRUE
      BY <1>4 DEF Credentialed
    <3> QED  BY <1>2, <3>1, Zenon
  <2> QED  BY <1>1, <2>1, Zenon DEF AdmStep, Adm!Present, Held
<1>5. Credentialed(c) => Credentialed(c)'
  BY SendPresents
<1>6. Credentialed(c) \in BOOLEAN /\ Credentialed(c)' \in BOOLEAN
  BY DEF Credentialed
<1> QED  BY <1>3, <1>4, <1>5, <1>6

\* A step of a phone that sends nothing is seen only in what the phone holds.
LEMMA QuietRefines ==
    ASSUME NEW c \in Conns, UNCHANGED <<conf, sent, server, sid>>,
           \/ Held' = Held
           \/ sid[c] # None /\ Held' = [Held EXCEPT ![c] = sid[c]]
    PROVE  AdmStep(c)
<1>1. UNCHANGED [d \in Conns |-> server[d] \in {"failed", "ended"}]
  BY Zenon
<1>2. \A d \in Conns : Credentialed(d)' = Credentialed(d)
  BY DEF Credentialed, WantedKind
<1>3. [d \in Conns |-> Credentialed(d)'] = [d \in Conns |-> Credentialed(d)]
  BY <1>2, Zenon
<1>4. CASE Held' = Held
  BY <1>1, <1>3, <1>4, Zenon DEF AdmStep, Adm!vars, Held
<1>5. CASE sid[c] # None /\ Held' = [Held EXCEPT ![c] = sid[c]]
  BY <1>1, <1>3, <1>5, Zenon DEF AdmStep, Adm!Hold, Held
<1> QED  BY <1>4, <1>5

\* The phone's steps present, hold or are not seen.
LEMMA PhoneRefines ==
    ASSUME IInv, NEW c \in Conns, PhoneNext(c)
    PROVE  AdmStep(c)
<1>1. TypeOK /\ Local(c)
  BY DEF IInv
<1>2. UNCHANGED <<conf, server, sid>>
  BY DEF PhoneNext, ResolveCredential, ScanToken, SendHello, RecvHelloAck, RecvAuthOk,
         BindMedia, Announce, SendFails, MockHello, MockAuth, MockBind, serverVars
<1>3. \A d \in Conns \ {c} : client'[d] = client[d] /\ csid'[d] = csid[d]
  BY <1>1, Others DEF Step, Same
<1>4. client[c] # "ready"
  BY DEF PhoneNext, ResolveCredential, ScanToken, SendHello, RecvHelloAck, RecvAuthOk,
         BindMedia, Announce, SendFails, MockHello, MockAuth, MockBind
<1>5. CASE ResolveCredential(c) \/ ScanToken(c) \/ BindMedia(c) \/ SendFails(c) \/ RecvAuthOk(c)
  <2>1. client'[c] # "ready" /\ UNCHANGED sent
    BY <1>1, <1>5 DEF ResolveCredential, ScanToken, BindMedia, SendFails, RecvAuthOk,
                      Goto, TypeOK
  <2> QED  BY <1>1, <1>2, <1>3, <1>4, <2>1, HeldSame, QuietRefines
<1>6. CASE SendHello(c) \/ MockHello(c)
  <2>1. Hello(conf[c].ver) \in Request
    BY <1>1, MessageTypes DEF TypeOK, Conf
  <2>2. client'[c] # "ready" /\ Send(c, Hello(conf[c].ver))
    BY <1>1, <1>6 DEF SendHello, MockHello, Goto, TypeOK
  <2>3. Held' = Held
    BY <1>1, <1>3, <1>4, <2>2, HeldSame
  <2> QED  BY <1>1, <1>2, <2>1, <2>2, <2>3, SendRefines
<1>7. CASE RecvHelloAck(c) \/ MockAuth(c)
  <2>1. client'[c] # "ready"
    BY <1>1, <1>7 DEF RecvHelloAck, MockAuth, Goto, TypeOK
  <2>2. Held' = Held
    BY <1>1, <1>3, <1>4, <2>1, HeldSame
  <2>3. CASE UNCHANGED sent
    BY <1>2, <2>2, <2>3, QuietRefines
  <2>4. CASE Send(c, AuthBody(c))
    <3>1. client[c] = "waitAck" /\ conf[c].client \in {"ios", "mock"}
      BY <1>7 DEF RecvHelloAck, MockAuth
    <3>2. cred[c] \in Secrets
      BY <1>1, <3>1 DEF Local, PhoneInv, Steps, TypeOK
    <3>3. AuthBody(c) \in Request
      BY <3>2, MessageTypes DEF AuthBody, WantedKind
    <3> QED  BY <1>1, <1>2, <2>2, <2>4, <3>3, SendRefines
  <2> QED  BY <1>7, <2>3, <2>4 DEF RecvHelloAck, MockAuth
<1>8. CASE Announce(c) \/ MockBind(c)
  <2>1. UNCHANGED sent
    BY <1>8 DEF Announce, MockBind
  <2>2. CASE client'[c] # "ready"
    BY <1>1, <1>2, <1>3, <1>4, <2>1, <2>2, HeldSame, QuietRefines
  <2>3. CASE client'[c] = "ready"
    <3>1. IInv'
      BY <1>8, StepIInv DEF Next, PhoneNext
    <3>2. csid'[c] = sid[c] /\ sid[c] # None
      BY <1>2, <2>3, <3>1 DEF IInv, Local, PhoneInv, StrayInv
    <3>3. Held' = [Held EXCEPT ![c] = sid[c]]
      BY <1>3, <2>3, <3>2 DEF Held
    <3> QED  BY <1>2, <2>1, <3>2, <3>3, QuietRefines
  <2> QED  BY <2>2, <2>3
<1> QED  BY <1>5, <1>6, <1>7, <1>8 DEF PhoneNext

\* BYE presents nothing; the phone lets go of its session.
LEMMA DisconnectRefines ==
    ASSUME IInv, NEW c \in Conns, Disconnect(c)
    PROVE  AdmStep(c)
<1>1. TypeOK
  BY DEF IInv
<1>2. Send(c, Bye) /\ UNCHANGED <<conf, server, sid, csid>>
      /\ client' = [client EXCEPT ![c] = "failed"]
  BY DEF Disconnect, serverVars, Goto
<1>3. \A d \in Conns : Credentialed(d)' = Credentialed(d)
  BY <1>1, <1>2, SendPresents, MessageTypes, MessageFields
<1>4. [d \in Conns |-> Credentialed(d)'] = [d \in Conns |-> Credentialed(d)]
  BY <1>3, Zenon
<1>5. UNCHANGED [d \in Conns |-> server[d] \in {"failed", "ended"}]
  BY <1>2, Zenon
<1>6. Held' = [Held EXCEPT ![c] = None]
  BY <1>1, <1>2 DEF Held, TypeOK
<1> QED  BY <1>2, <1>4, <1>5, <1>6, Zenon DEF AdmStep, Adm!Drop, Held

\* What a peer outside the protocol sends may be the right credential.
LEMMA FaultRefines ==
    ASSUME IInv, NEW c \in Conns, Stray(c) \/ Cut(c)
    PROVE  AdmStep(c)
<1>1. TypeOK
  BY DEF IInv
<1>2. UNCHANGED <<conf, server, sid, client, csid>>
  BY DEF Stray, Cut, serverVars, clientVars
<1>3. Held' = Held
  BY <1>2 DEF Held
<1>4. CASE Stray(c)
  BY <1>1, <1>2, <1>3, <1>4, SendRefines DEF Stray
<1>5. CASE Cut(c)
  BY <1>2, <1>3, <1>5, QuietRefines DEF Cut, clientVars
<1> QED  BY <1>4, <1>5

\* The handshake, message by message and with every fault, implements Admission:
\* one admission per connection, only of what presented the credential, under a
\* session id of its own, which is the one the phone holds.
THEOREM Refines == Spec => ImplementsAdmission
<1>1. Init => Adm!Init
  <2> SUFFICES ASSUME Init PROVE Adm!Init
    OBVIOUS
  <2>1. \A d \in Conns : Credentialed(d) = FALSE
    BY DEF Init, Credentialed
  <2>2. [d \in Conns |-> Credentialed(d)] = [d \in Conns |-> FALSE]
    BY <2>1, Zenon
  <2>3. \A d \in Conns : (server[d] \in {"failed", "ended"}) = FALSE
    BY DEF Init
  <2>4. [d \in Conns |-> server[d] \in {"failed", "ended"}] = [d \in Conns |-> FALSE]
    BY <2>3, Zenon
  <2>5. sid = [d \in Conns |-> None] /\ Held = [d \in Conns |-> None]
    BY DEF Init, Held
  <2> QED  BY <2>2, <2>4, <2>5, Zenon DEF Adm!Init, Held
<1>2. IInv /\ [Next]_vars => [Adm!Next]_Adm!vars
  <2>1. ASSUME IInv, NEW c \in Conns, Step(c) PROVE [Adm!Next]_Adm!vars
    <3>1. AdmStep(c)
      BY <2>1, ServerRefines, PhoneRefines, DisconnectRefines, FaultRefines DEF Step
    <3> QED  BY <3>1, Zenon DEF AdmStep, Adm!Next
  <2>2. ASSUME UNCHANGED vars PROVE UNCHANGED Adm!vars
    <3>1. \A d \in Conns : Credentialed(d)' = Credentialed(d)
      BY <2>2 DEF Credentialed, WantedKind, vars, clientVars, serverVars
    <3>2. [d \in Conns |-> Credentialed(d)'] = [d \in Conns |-> Credentialed(d)]
      BY <3>1, Zenon
    <3>3. UNCHANGED <<sid, server, client, csid>>
      BY <2>2 DEF vars, clientVars, serverVars
    <3> QED  BY <3>2, <3>3, Zenon DEF Adm!vars
  <2> QED  BY <2>1, <2>2 DEF Next, Step
<1> QED  BY <1>1, <1>2, Invariance, PTL DEF Spec, Adm!Spec, ImplementsAdmission
=============================================================================
