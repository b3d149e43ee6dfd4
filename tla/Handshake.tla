----------------------------- MODULE Handshake ------------------------------
(***************************************************************************)
(* The control handshake from both ends: the desktop's accept_control and  *)
(* accept_control_usb (desktop/crates/session/src/handshake.rs), the       *)
(* phone's SessionController.connect and UsbSessionDriver                  *)
(* (ios/Sources/ClearCamCore/Session), the mock phone's run_session        *)
(* (desktop/tools/mock-iphone/src/lib.rs), and peers that keep to nothing. *)
(*                                                                         *)
(* A direction of a connection is the log of what was sent and the number  *)
(* of messages the other end has read.  A cut connection delivers nothing  *)
(* more, not even an end of stream.  A secret (a QR token, a pairing key)  *)
(* is a model value: both ends print a key as unpadded base64.             *)
(***************************************************************************)
EXTENDS Naturals, Sequences

CONSTANTS Conns,     \* connections
          Sids,      \* session ids
          Secrets,   \* tokens and pairing keys
          Versions, ProtoVer,
          None,
          MaxSent    \* bound: messages of a peer outside the protocol

Transports == {"wifi", "usb"}
Msg(t, k, v) == [type |-> t, kind |-> k, value |-> v]
Hello(v) == Msg("hello", None, v)
Auth(k, v) == Msg("auth", k, v)
Bye == Msg("bye", None, None)
Garbage == Msg("garbage", None, None)        \* a frame that does not decode
MediaHello(s, v) == Msg("mediaHello", s, v)
MediaHellos == {MediaHello(s, v) : s \in Sids, v \in Secrets}
Request == {Hello(v) : v \in Versions} \cup {Bye, Garbage}
           \cup {Auth(k, v) : k \in {"token", "pairingKey"}, v \in Secrets}
HelloAck == Msg("helloAck", None, None)
Error(code) == Msg("error", None, code)
AuthOk(s) == Msg("authOk", None, s)
Codes == {"bad_request", "incompatible_version", "unauthorized"}
Reply == {HelloAck} \cup {Error(e) : e \in Codes} \cup {AuthOk(s) : s \in Sids}

\* What is given on a connection: its transport, the client at its far end,
\* the version that client speaks, what the desktop expects (its token, or its
\* pairing key of the device), and what the phone has (a scanned token, a
\* stored key, or no key yet).
Conf == [transport : Transports, client : {"ios", "mock", "stray"},
         ver : Versions, expected : Secrets, has : Secrets \cup {None}]
ConfOK(f) == f.has = None => f.transport = "usb" /\ f.client = "ios"

ASSUME HandshakeAssumption ==
    /\ ProtoVer \in Versions
    /\ MaxSent \in Nat
    /\ None \notin Sids /\ None \notin Secrets /\ None \notin Conns

VARIABLES
    conf,
    sent, got,       \* phone to desktop: log, and number read
    replies, heard,  \* desktop to phone: log, and number read
    cut,             \* the connection delivers nothing more
    server, sid,     \* desktop: step and session id
    client, csid,    \* phone: step and session id
    cred,            \* the credential the phone uses
    shown,           \* SessionController.state
    bound            \* what was sent on the media connection

serverVars == <<got, replies, server, sid>>
clientVars == <<sent, heard, client, csid, cred, shown, bound>>
vars == <<conf, cut, serverVars, clientVars>>

Init ==
    /\ conf \in [Conns -> {f \in Conf : ConfOK(f)}]
    /\ sent = [c \in Conns |-> <<>>] /\ got = [c \in Conns |-> 0]
    /\ replies = [c \in Conns |-> <<>>] /\ heard = [c \in Conns |-> 0]
    /\ cut = [c \in Conns |-> FALSE]
    /\ server = [c \in Conns |-> "hello"] /\ sid = [c \in Conns |-> None]
    /\ client = [c \in Conns |-> "start"] /\ csid = [c \in Conns |-> None]
    /\ cred = [c \in Conns |-> None]
    /\ shown = [c \in Conns |-> "idle"]
    /\ bound = [c \in Conns |-> None]

-----------------------------------------------------------------------------
(* The desktop.  Each receive waits HANDSHAKE_TIMEOUT at most.              *)

Arrived(c) == ~cut[c] /\ got[c] < Len(sent[c])
Next1(c) == sent[c][got[c] + 1]

\* The answer, the step after it, and the session id.
Answer(c, m, next, s) ==
    /\ got' = [got EXCEPT ![c] = @ + 1]
    /\ replies' = [replies EXCEPT ![c] = Append(@, m)]
    /\ server' = [server EXCEPT ![c] = next]
    /\ sid' = [sid EXCEPT ![c] = s]

\* The connection is dropped with the error.
send_error(c, code) == Answer(c, Error(code), "failed", None)

\* A frame that does not decode, an end of stream, a failed send, a timeout.
ServerGivesUp(c) ==
    /\ server[c] \in {"hello", "auth"}
    /\ server' = [server EXCEPT ![c] = "failed"]
    /\ UNCHANGED <<conf, cut, got, replies, sid, clientVars>>

RecvHello(c) ==
    /\ server[c] = "hello" /\ Arrived(c) /\ Next1(c) # Garbage
    /\ IF Next1(c).type # "hello" THEN send_error(c, "bad_request")
       ELSE IF Next1(c).value # ProtoVer THEN send_error(c, "incompatible_version")
       ELSE Answer(c, HelloAck, "auth", None)
    /\ UNCHANGED <<conf, cut, clientVars>>

\* The one kind of credential a transport takes.
WantedKind(c) == IF conf[c].transport = "wifi" THEN "token" ELSE "pairingKey"

\* Mutant: the kind of the credential is not looked at.
RecvAuthAnyKind(c) ==
    /\ server[c] = "auth" /\ Arrived(c) /\ Next1(c) # Garbage
    /\ IF Next1(c).type # "auth" THEN send_error(c, "bad_request")
       ELSE IF Next1(c).value # conf[c].expected THEN send_error(c, "unauthorized")
       ELSE \E s \in Sids : (\A d \in Conns : sid[d] # s)
                            /\ Answer(c, AuthOk(s), "accepted", s)
    /\ UNCHANGED <<conf, cut, clientVars>>

\* Mutant: USB, too, wants a token.
RecvAuthTokenOnly(c) ==
    /\ server[c] = "auth" /\ Arrived(c) /\ Next1(c) # Garbage
    /\ IF Next1(c).type # "auth" THEN send_error(c, "bad_request")
       ELSE IF Next1(c) # Auth("token", conf[c].expected) THEN send_error(c, "unauthorized")
       ELSE \E s \in Sids : (\A d \in Conns : sid[d] # s)
                            /\ Answer(c, AuthOk(s), "accepted", s)
    /\ UNCHANGED <<conf, cut, clientVars>>

RecvAuth(c) ==
    /\ server[c] = "auth" /\ Arrived(c) /\ Next1(c) # Garbage
    /\ IF Next1(c).type # "auth" THEN send_error(c, "bad_request")
       ELSE IF Next1(c) # Auth(WantedKind(c), conf[c].expected)
            THEN send_error(c, "unauthorized")
       ELSE \E s \in Sids : (\A d \in Conns : sid[d] # s)
                            /\ Answer(c, AuthOk(s), "accepted", s)
    /\ UNCHANGED <<conf, cut, clientVars>>

\* The session that runs on an accepted connection is over: its end is closed.
SessionEnds(c) ==
    /\ server[c] = "accepted"
    /\ server' = [server EXCEPT ![c] = "ended"]
    /\ UNCHANGED <<conf, cut, got, replies, sid, clientVars>>

-----------------------------------------------------------------------------
(* The phone.  No receive of its handshake has a timeout.                   *)

Replied(c) == ~cut[c] /\ heard[c] < Len(replies[c])
Reply1(c) == replies[c][heard[c] + 1]
\* The desktop's end is closed, and all it said has been read.
EndOfStream(c) ==
    /\ ~cut[c] /\ heard[c] = Len(replies[c])
    /\ server[c] \in {"failed", "ended"}

Send(c, m) == sent' = [sent EXCEPT ![c] = Append(@, m)]
Goto(c, step) == client' = [client EXCEPT ![c] = step]
Show(c, s) == shown' = [shown EXCEPT ![c] = s]

\* UsbSessionDriver.resolveCredential: the stored key; without one, the user is
\* asked, and accepts a key drawn at random or denies.
ResolveCredential(c) ==
    /\ conf[c].client = "ios" /\ conf[c].transport = "usb"
    /\ client[c] = "start" /\ cred[c] = None
    /\ \/ conf[c].has # None /\ cred' = [cred EXCEPT ![c] = conf[c].has]
          /\ UNCHANGED client
       \/ /\ conf[c].has = None
          /\ \/ \E k \in Secrets \ {conf[c].expected} :
                   cred' = [cred EXCEPT ![c] = k] /\ UNCHANGED client
             \/ Goto(c, "failed") /\ UNCHANGED cred
    /\ UNCHANGED <<conf, cut, serverVars, sent, heard, csid, shown, bound>>

\* connect(token:) of a scanned code.
ScanToken(c) ==
    /\ conf[c].client = "ios" /\ conf[c].transport = "wifi"
    /\ client[c] = "start" /\ cred[c] = None
    /\ cred' = [cred EXCEPT ![c] = conf[c].has]
    /\ UNCHANGED <<conf, cut, serverVars, sent, heard, client, csid, shown, bound>>

AuthBody(c) == Auth(WantedKind(c), cred[c])

SendHello(c) ==
    /\ conf[c].client = "ios" /\ client[c] = "start" /\ cred[c] # None
    /\ Show(c, "handshaking")
    /\ Send(c, Hello(conf[c].ver))
    /\ Goto(c, "waitAck")
    /\ UNCHANGED <<conf, cut, serverVars, heard, csid, cred, bound>>

\* Mutant: the end of the stream is not an answer.
RecvHelloAckWaits(c) ==
    /\ conf[c].client = "ios" /\ client[c] = "waitAck"
    /\ Replied(c) /\ heard' = [heard EXCEPT ![c] = @ + 1]
    /\ \/ Reply1(c) = HelloAck /\ Send(c, AuthBody(c)) /\ Goto(c, "waitAuth")
          /\ UNCHANGED shown
       \/ Reply1(c) # HelloAck /\ Show(c, "stopped") /\ Goto(c, "failed")
          /\ UNCHANGED sent
    /\ UNCHANGED <<conf, cut, serverVars, csid, cred, bound>>

RecvHelloAck(c) ==
    /\ conf[c].client = "ios" /\ client[c] = "waitAck"
    /\ \/ /\ Replied(c) /\ heard' = [heard EXCEPT ![c] = @ + 1]
          /\ \/ Reply1(c) = HelloAck /\ Send(c, AuthBody(c)) /\ Goto(c, "waitAuth")
                /\ UNCHANGED shown
             \/ Reply1(c) # HelloAck /\ Show(c, "stopped") /\ Goto(c, "failed")
                /\ UNCHANGED sent
       \/ /\ EndOfStream(c) /\ Show(c, "stopped") /\ Goto(c, "failed")
          /\ UNCHANGED <<sent, heard>>
    /\ UNCHANGED <<conf, cut, serverVars, csid, cred, bound>>

\* Mutant: any reply is taken for AUTH_OK.
RecvAuthOkUnchecked(c) ==
    /\ conf[c].client = "ios" /\ client[c] = "waitAuth"
    /\ Replied(c) /\ heard' = [heard EXCEPT ![c] = @ + 1]
    /\ csid' = [csid EXCEPT ![c] = Reply1(c).value] /\ Goto(c, "bind")
    /\ UNCHANGED <<conf, cut, serverVars, sent, cred, shown, bound>>

\* A receive that fails throws and leaves the state as it is.
RecvAuthOk(c) ==
    /\ conf[c].client = "ios" /\ client[c] = "waitAuth"
    /\ \/ /\ Replied(c) /\ heard' = [heard EXCEPT ![c] = @ + 1]
          /\ \/ Reply1(c).type = "authOk"
                /\ csid' = [csid EXCEPT ![c] = Reply1(c).value] /\ Goto(c, "bind")
                /\ UNCHANGED shown
             \/ Reply1(c).type # "authOk" /\ Show(c, "stopped") /\ Goto(c, "failed")
                /\ UNCHANGED csid
       \/ /\ EndOfStream(c) /\ Goto(c, "failed")
          /\ UNCHANGED <<heard, csid, shown>>
    /\ UNCHANGED <<conf, cut, serverVars, sent, cred, bound>>

\* Mutant: MEDIA_HELLO goes out with the credential, before AUTH_OK names the session.
BindMediaEarly(c) ==
    /\ conf[c].client = "ios"
    /\ \/ client[c] = "waitAuth" /\ bound[c] = None /\ UNCHANGED client
          /\ bound' = [bound EXCEPT ![c] = MediaHello(csid[c], cred[c])]
       \/ client[c] = "bind" /\ Goto(c, "announce") /\ UNCHANGED bound
    /\ UNCHANGED <<conf, cut, serverVars, sent, heard, csid, cred, shown>>

\* MEDIA_HELLO on the other connection.
BindMedia(c) ==
    /\ conf[c].client = "ios" /\ client[c] = "bind"
    /\ bound' = [bound EXCEPT ![c] = MediaHello(csid[c], cred[c])]
    /\ Goto(c, "announce")
    /\ UNCHANGED <<conf, cut, serverVars, sent, heard, csid, cred, shown>>

\* DEVICE_INFO and CAMERA_LIST, which only the session reads.
Announce(c) ==
    /\ conf[c].client = "ios" /\ client[c] = "announce"
    /\ Show(c, "ready") /\ Goto(c, "ready")
    /\ UNCHANGED <<conf, cut, serverVars, sent, heard, csid, cred, bound>>

\* A send after AUTH_OK fails: the desktop has closed its end.
SendFails(c) ==
    /\ conf[c].client = "ios" /\ client[c] \in {"bind", "announce"}
    /\ server[c] = "ended"
    /\ Goto(c, "failed")
    /\ UNCHANGED <<conf, cut, serverVars, sent, heard, csid, cred, shown, bound>>

\* disconnect(reason:), at any await of connect.  What connect still receives
\* fails; the state is written last.
Disconnect(c) ==
    /\ conf[c].client = "ios" /\ client[c] \in {"waitAck", "waitAuth", "bind", "announce", "ready"}
    /\ Send(c, Bye)
    /\ Goto(c, "failed") /\ Show(c, "stopped")
    /\ UNCHANGED <<conf, cut, serverVars, heard, csid, cred, bound>>

-----------------------------------------------------------------------------
(* The mock phone, and a peer outside the protocol.                         *)

MockHello(c) ==
    /\ conf[c].client = "mock" /\ client[c] = "start"
    /\ cred' = [cred EXCEPT ![c] = conf[c].has]
    /\ Send(c, Hello(conf[c].ver)) /\ Goto(c, "waitAck")
    /\ UNCHANGED <<conf, cut, serverVars, heard, csid, shown, bound>>

MockAuth(c) ==
    /\ conf[c].client = "mock" /\ client[c] = "waitAck"
    /\ \/ Replied(c) /\ Reply1(c) = HelloAck
          /\ Send(c, AuthBody(c)) /\ Goto(c, "waitAuth")
       \/ (EndOfStream(c) \/ (Replied(c) /\ Reply1(c) # HelloAck))
          /\ Goto(c, "failed") /\ UNCHANGED sent
    /\ heard' = [heard EXCEPT ![c] = IF Replied(c) THEN @ + 1 ELSE @]
    /\ UNCHANGED <<conf, cut, serverVars, csid, cred, shown, bound>>

MockBind(c) ==
    /\ conf[c].client = "mock" /\ client[c] = "waitAuth"
    /\ \/ /\ Replied(c) /\ Reply1(c).type = "authOk"
          /\ csid' = [csid EXCEPT ![c] = Reply1(c).value]
          /\ bound' = [bound EXCEPT ![c] = MediaHello(Reply1(c).value, cred[c])]
          /\ Goto(c, "ready")
       \/ (EndOfStream(c) \/ (Replied(c) /\ Reply1(c).type # "authOk"))
          /\ Goto(c, "failed") /\ UNCHANGED <<csid, bound>>
    /\ heard' = [heard EXCEPT ![c] = IF Replied(c) THEN @ + 1 ELSE @]
    /\ UNCHANGED <<conf, cut, serverVars, sent, cred, shown>>

Stray(c) ==
    /\ conf[c].client = "stray" /\ Len(sent[c]) < MaxSent
    /\ \E m \in Request : Send(c, m)
    /\ UNCHANGED <<conf, cut, serverVars, heard, client, csid, cred, shown, bound>>

Cut(c) ==
    /\ ~cut[c]
    /\ cut' = [cut EXCEPT ![c] = TRUE]
    /\ UNCHANGED <<conf, serverVars, clientVars>>

ServerNext(c) == RecvHello(c) \/ RecvAuth(c) \/ ServerGivesUp(c)
PhoneNext(c) ==
    \/ ResolveCredential(c) \/ ScanToken(c) \/ SendHello(c) \/ RecvHelloAck(c)
    \/ RecvAuthOk(c) \/ BindMedia(c) \/ Announce(c) \/ SendFails(c)
    \/ MockHello(c) \/ MockAuth(c) \/ MockBind(c)

Next == \E c \in Conns :
            ServerNext(c) \/ SessionEnds(c) \/ PhoneNext(c)
            \/ Disconnect(c) \/ Stray(c) \/ Cut(c)

Spec == Init /\ [][Next]_vars

\* A receive ends by its timeout at the latest, and a task that can go on does.
Fairness == \A c \in Conns : WF_vars(ServerNext(c)) /\ WF_vars(PhoneNext(c))

-----------------------------------------------------------------------------
Steps == {"start", "waitAck", "waitAuth", "bind", "announce", "ready", "failed"}

TypeOK ==
    /\ conf \in [Conns -> Conf] /\ \A c \in Conns : ConfOK(conf[c])
    /\ sent \in [Conns -> Seq(Request)] /\ got \in [Conns -> 0..2]
    /\ replies \in [Conns -> Seq(Reply)] /\ heard \in [Conns -> 0..2]
    /\ cut \in [Conns -> BOOLEAN]
    /\ server \in [Conns -> {"hello", "auth", "accepted", "failed", "ended"}]
    /\ sid \in [Conns -> Sids \cup {None}]
    /\ client \in [Conns -> Steps]
    /\ csid \in [Conns -> Sids \cup {None}]
    /\ cred \in [Conns -> Secrets \cup {None}]
    /\ shown \in [Conns -> {"idle", "handshaking", "ready", "stopped"}]
    /\ bound \in [Conns -> MediaHellos \cup {None}]

\* HELLO of this version, then AUTH with the kind and the value required.
Credentialed(c) ==
    /\ Len(sent[c]) >= 2
    /\ sent[c][1] = Hello(ProtoVer)
    /\ sent[c][2] = Auth(WantedKind(c), conf[c].expected)

\* Whatever a peer sends and in whatever order, accept_control(_usb) accepts only
\* one whose first two messages were the right HELLO and the right AUTH.
AcceptedAreCredentialed ==
    \A c \in Conns : server[c] \in {"accepted", "ended"} => Credentialed(c)

\* A phone that is ready has the session id under which the desktop accepted this
\* very connection, speaks its version and knows its secret: connect() never
\* returns for a handshake the desktop did not finish.
Agreement ==
    \A c \in Conns : client[c] = "ready" =>
        /\ server[c] \in {"accepted", "ended"}
        /\ csid[c] = sid[c] /\ sid[c] # None
        /\ conf[c].ver = ProtoVer /\ cred[c] = conf[c].expected

\* MEDIA_HELLO, which goes out on another socket, names the session and the secret
\* of the control connection, so the desktop can match the two; and no two
\* connections send the same one.
MediaHelloMatches ==
    \A c \in Conns : bound[c] # None =>
        /\ bound[c] = MediaHello(sid[c], conf[c].expected)
        /\ \A d \in Conns \ {c} : bound[d] # bound[c]

\* The desktop sends ERROR to a phone that keeps to the protocol only for a wrong
\* version, a wrong secret or a BYE in place of the next message.
RefusedForCause ==
    \A c \in Conns : conf[c].client # "stray" =>
        ((\E i \in 1..Len(replies[c]) : replies[c][i].type = "error") =>
            \/ conf[c].ver # ProtoVer
            \/ cred[c] # conf[c].expected
            \/ \E i \in 1..Len(sent[c]) : sent[c][i] = Bye)

\* A phone's connect() returns or throws: the receives of its handshake have no
\* timeout, but the desktop's have, and a dropped stream ends them.  Only a
\* connection that delivers nothing can keep a phone waiting.
ConnectReturns ==
    \A c \in Conns : client[c] \in {"waitAck", "waitAuth"}
                         ~> (cut[c] \/ client[c] \in {"ready", "failed"})

\* The handshake implements Admission: no step of either end, in any order, does
\* what that module does not allow.
Adm == INSTANCE Admission WITH
    presented <- [c \in Conns |-> Credentialed(c)],
    admitted <- sid,
    over <- [c \in Conns |-> server[c] \in {"failed", "ended"}],
    held <- [c \in Conns |-> IF client[c] = "ready" THEN csid[c] ELSE None]
ImplementsAdmission == Adm!Spec
=============================================================================
