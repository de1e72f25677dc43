-------------------------- MODULE VncHandshakeProofs --------------------------
(***************************************************************************)
(* The viewer and the server on one connection: where each of them stands  *)
(* in the handshake and after it, for every server, message and place to   *)
(* cut.  The inductive invariant is DrawInv of VncClientProofs with        *)
(* WireInv, which says of a viewer that is                                 *)
(*   connecting   Shaking: nothing was drawn, and the phase of the server, *)
(*                the state of the viewer and what is under way between    *)
(*                them agree (Talk: whose turn it is to say what)          *)
(*   connected    Talking: what is under way is what the server still has  *)
(*                to say from where the viewer stands in it (Parses), and  *)
(*                neither waits for what the other does not owe it (Owed)  *)
(*   gone         it gets no bytes                                         *)
(* It gives InSync, HandshakeMoves and NeverStalled.                       *)
(*                                                                         *)
(* A handler in the handshake is a function of the viewer that reads one   *)
(* message or gives it back: Shook says that it leaves the viewer and the  *)
(* server in agreement, and each lemma takes it through one more function. *)
(* What a server answers (Answer, Unasked) is taken through Talk likewise, *)
(* and what it adds to the wire through Parses (Adds).                     *)
(***************************************************************************)
EXTENDS VncClientProofs

-----------------------------------------------------------------------------
(* The handshake, by the state of the viewer: whose turn it is, and what   *)
(* is under way                                                            *)

VersionPart(v) == [type |-> "version", version |-> v, len |-> 12]
SchemePart(n) == [type |-> "scheme", scheme |-> n, len |-> 4]
TypesPart(T) ==
    [type |-> "types", types |-> T, n |-> Cardinality(T), len |-> 1 + Cardinality(T)]
TunnelsPart(n, ok) == [type |-> "tunnels", n |-> n, notunnel |-> ok, len |-> 4 + 16 * n]
SubAuthsPart(T) ==
    [type |-> "subauths", types |-> T, n |-> Cardinality(T), len |-> 4 + 16 * Cardinality(T)]
VeVersionPart(ok) == [type |-> "veVersion", ok |-> ok, len |-> 2]
AckPart(ok) == [type |-> "veAck", ok |-> ok, len |-> 1]
CountPart == [type |-> "veCount", n |-> 1, len |-> 1]
SubtypesPart(ok) == [type |-> "veTypes", plain |-> ok, len |-> 4]
ResultPart(ok) == [type |-> "result", ok |-> ok, len |-> 4]
InitPart(tight) ==
    [type |-> "serverInit", n |-> NameLength, size |-> 1, caps |-> TightCaps,
     len |-> 24 + NameLength + (IF tight THEN 8 + 16 * TightCaps ELSE 0)]

(* The viewer's messages m are under way, or the server's parts w.         *)
Said(d, m) == d.wire = <<>> /\ d.out = m
Heard(d, w) == d.wire = w /\ d.out = <<>>

TalkVersion(d, t) ==
    /\ d.init = "ProtocolVersion" /\ ~d.tight /\ ~t.tight /\ d.vencrypt = 0
    /\ \/ t.phase = "announce" /\ Said(d, <<>>)
       \/ t.phase = "id" /\ Said(d, <<<<"id">>>>)
       \/ /\ t.phase = IF t.version = Repeater THEN "id" ELSE "version"
          /\ Heard(d, <<VersionPart(t.version)>>)

TalkSecurity(d, t) ==
    /\ d.init = "Security" /\ d.version = t.version /\ ~d.tight /\ ~t.tight /\ d.vencrypt = 0
    /\ \/ t.phase = "version" /\ Said(d, <<<<"version">>>>)
       \/ /\ t.version >= 37
          /\ \/ \E T \in TypeLists : T # {} /\ t.phase = "choice" /\ Heard(d, <<TypesPart(T)>>)
             \/ t.phase = "end" /\ Heard(d, <<TypesPart({}), Reason>>)
       \/ /\ t.version < 37
          /\ \/ t.phase = "init" /\ Heard(d, <<SchemePart(1)>>)
             \/ t.phase = "response" /\ Heard(d, <<SchemePart(2), Challenge>>)
             \/ t.phase = "end" /\ Heard(d, <<SchemePart(0), Reason>>)
             \/ t.phase = "end" /\ Heard(d, <<SchemePart(7)>>)

(* What the server says of the viewer's authentication, and after tunnels  *)
Verdict(w, t) ==
    \/ t.phase = "init" /\ w = <<ResultPart(TRUE)>>
    \/ t.phase = "end" /\ t.version >= 38 /\ w = <<ResultPart(FALSE), Reason>>
    \/ t.phase = "end" /\ t.version < 38 /\ w = <<ResultPart(FALSE)>>

AfterTunnels(w, t) ==
    \/ t.phase = "subauths" /\ w = <<>>
    \/ \E T \in SubAuths : T # {} /\ t.phase = "subauth" /\ w = <<SubAuthsPart(T)>>
    \/ t.phase = "result" /\ w = <<SubAuthsPart({})>>
    \/ w # <<>> /\ Head(w) = SubAuthsPart({}) /\ Verdict(Tail(w), t)

TalkPassword(d, t) ==
    /\ d.scheme = 2 /\ (d.tight <=> t.tight)
    /\ \/ /\ t.phase = "choice" /\ d.wire = <<>>
          /\ d.out \in {<<<<"choice", 2>>>>, <<<<"choice", 22>>, <<"target">>>>}
       \/ t.phase = "target" /\ Said(d, <<<<"target">>>>)
       \/ t.phase = "subauth" /\ Said(d, <<<<"subauth", 2>>>>)
       \/ t.phase = "response" /\ Heard(d, <<Challenge>>)

TalkTight(d, t) ==
    /\ d.scheme = 16
    /\ \/ /\ ~d.tight
          /\ \/ t.phase = "choice" /\ ~t.tight /\ Said(d, <<<<"choice", 16>>>>)
             \/ t.phase = "notunnel" /\ t.tight /\ Heard(d, <<TunnelsPart(1, TRUE)>>)
             \/ t.phase = "end" /\ t.tight /\ Heard(d, <<TunnelsPart(1, FALSE)>>)
             \/ /\ t.tight /\ d.wire # <<>> /\ Head(d.wire) = TunnelsPart(0, TRUE) /\ d.out = <<>>
                /\ AfterTunnels(Tail(d.wire), t)
       \/ /\ d.tight /\ t.tight
          /\ \/ t.phase = "notunnel" /\ Said(d, <<<<"notunnel">>>>)
             \/ AfterTunnels(d.wire, t) /\ d.out = <<>>

TalkVeNCrypt(d, t) ==
    /\ d.scheme = 19 /\ ~d.tight /\ ~t.tight
    /\ \/ /\ d.vencrypt = 0
          /\ \/ t.phase = "choice" /\ Said(d, <<<<"choice", 19>>>>)
             \/ t.phase = "vencrypt" /\ Heard(d, <<VeVersionPart(TRUE)>>)
             \/ t.phase = "end" /\ Heard(d, <<VeVersionPart(FALSE)>>)
       \/ /\ d.vencrypt = 1
          /\ \/ t.phase = "vencrypt" /\ Said(d, <<<<"vencrypt">>>>)
             \/ t.phase = "plain" /\ Heard(d, <<AckPart(TRUE), CountPart, SubtypesPart(TRUE)>>)
             \/ t.phase = "end" /\ Heard(d, <<AckPart(TRUE), CountPart, SubtypesPart(FALSE)>>)
             \/ t.phase = "end" /\ Heard(d, <<AckPart(FALSE)>>)
       \/ /\ d.vencrypt = 3 /\ d.subtypes = 1
          /\ \/ t.phase = "plain" /\ Heard(d, <<SubtypesPart(TRUE)>>)
             \/ t.phase = "end" /\ Heard(d, <<SubtypesPart(FALSE)>>)
       \/ /\ d.vencrypt = 2
          /\ \/ t.phase = "plain" /\ Heard(d, <<CountPart, SubtypesPart(TRUE)>>)
             \/ t.phase = "end" /\ Heard(d, <<CountPart, SubtypesPart(FALSE)>>)

(* The page is asked for credentials, and nothing can arrive meanwhile.    *)
TalkAsking(d, t) ==
    /\ d.tight <=> t.tight
    /\ \/ d.scheme = 2 /\ t.phase = "response" /\ Heard(d, <<Challenge>>)
       \/ /\ d.scheme = 22
          /\ \/ t.phase = "choice" /\ Said(d, <<<<"choice", 22>>>>)
             \/ t.phase = "target" /\ Said(d, <<>>)
       \/ /\ d.scheme = 129
          /\ \/ t.phase = "subauth" /\ Said(d, <<<<"subauth", 129>>>>)
             \/ t.phase = "login" /\ Said(d, <<>>)
       \/ /\ d.scheme = 19 /\ d.vencrypt = 4
          /\ \/ t.phase = "plain" /\ Said(d, <<<<"plain">>>>)
             \/ t.phase = "login" /\ Said(d, <<>>)

TalkAuth(d, t) ==
    /\ d.init = "Authentication" /\ d.version = t.version
    /\ d.scheme # 19 => d.vencrypt = 0
    /\ \/ d.askings = 1 /\ TalkAsking(d, t)
       \/ d.askings = 0 /\ (TalkPassword(d, t) \/ TalkTight(d, t) \/ TalkVeNCrypt(d, t))

TalkResult(d, t) ==
    /\ d.init = "SecurityResult" /\ d.version = t.version /\ (d.tight <=> t.tight)
    /\ \/ t.phase = "choice" /\ t.version >= 38 /\ Said(d, <<<<"choice", 1>>>>)
       \/ t.phase = "subauth" /\ Said(d, <<<<"subauth", 1>>>>)
       \/ t.phase = "subauth" /\ Said(d, <<<<"subauth", 129>>, <<"login">>>>)
       \/ t.phase = "plain" /\ Said(d, <<<<"plain">>, <<"login">>>>)
       \/ t.phase = "login" /\ Said(d, <<<<"login">>>>)
       \/ t.phase = "response" /\ Said(d, <<<<"response">>>>)
       \/ t.phase = "result" /\ d.scheme = 16 /\ Said(d, <<>>)
       \/ Verdict(d.wire, t) /\ d.out = <<>>

TalkReason(d, t) == d.init = "SecurityReason" /\ t.phase = "end" /\ Heard(d, <<Reason>>)

TalkInit(d, t) ==
    /\ d.init = "ServerInitialisation" /\ (d.tight <=> t.tight)
    /\ \/ t.phase = "choice" /\ t.version < 38 /\ Said(d, <<<<"choice", 1>>, <<"init">>>>)
       \/ t.phase = "init" /\ Said(d, <<<<"init">>>>)
       \/ /\ t.phase = "normal" /\ d.wire # <<>> /\ Head(d.wire) = InitPart(t.tight) /\ d.out = <<>>
          /\ \E a \in Standings : a.k = 0 /\ Speech(Tail(d.wire), a, Stand(t), t.repertoire)

Talk(d, t) ==
    \/ TalkVersion(d, t) \/ TalkSecurity(d, t) \/ TalkAuth(d, t) \/ TalkResult(d, t)
    \/ TalkReason(d, t) \/ TalkInit(d, t)

(* The viewer has less than a message, but for what HandshakeMoves names.  *)
Waits(d) ==
    \/ d.wire = <<>> \/ d.avail < Head(d.wire).len
    \/ d.scheme = 16 /\ d.init = "SecurityResult" /\ d.avail >= 4

(* Where the handshake stops to ask the page for credentials               *)
Asks(d) ==
    /\ d.init = "Authentication" /\ d.at = 0
    /\ \/ d.scheme = 2 /\ d.wire = <<Challenge>> /\ d.avail = 16
       \/ d.scheme \in {22, 129} /\ d.wire = <<>> /\ d.avail = 0
       \/ d.scheme = 19 /\ d.vencrypt = 4 /\ d.wire = <<>> /\ d.avail = 0

-----------------------------------------------------------------------------
(* Before the handshake nothing was drawn, asked for or promised.          *)
Idle(d) ==
    /\ d.rects = 0 /\ d.rect = NoRect /\ ~d.flushing /\ ~d.halted /\ DecoderFits(d)
    /\ ~d.asked /\ ~d.continuous /\ ~d.knowsContinuous /\ d.region = d.size
Quiet(t) == t.owed = 0 /\ t.open = FALSE /\ ~t.continuous /\ ~t.fenced

(* It begins when the socket opens.                                        *)
Opened(d) == d.init # ""

Shaking(d, t) ==
    /\ Idle(d) /\ Bytes(d) /\ d.at = 0 /\ Hears(d)
    /\ IF t.phase = "normal" THEN Debts(d, t) ELSE Quiet(t)
    /\ d.askings = 1 => Asks(d)
    /\ IF Opened(d) THEN d.sock = "open" /\ Talk(d, t)
       ELSE /\ d.sock = "connecting" /\ d.askings = 0 /\ Said(d, <<>>) /\ t = NewServer
            /\ ~d.tight /\ d.vencrypt = 0

Talking(d, t) ==
    /\ d.sock = "open" /\ d.askings = 0 /\ ~d.halted /\ t.phase = "normal" /\ Hears(d)
    /\ Bytes(d) /\ Parses(d, t) /\ Owed(d, t)

Gone(d) ==
    /\ d.sock \notin {"open", "connecting"} /\ ~d.lost
    /\ d.askings = 1 => Asks(d)

(* The viewer and the server                                               *)
Wired(d, t) ==
    /\ d.askings \in {0, 1}
    /\ CASE d.conn = "connecting" -> Shaking(d, t) /\ (d.askings = 0 => Waits(d))
         [] d.conn = "connected" -> Talking(d, t)
         [] OTHER -> d.conn \in {"disconnecting", "disconnected"} /\ Gone(d)

WireInv == s.version \in Int /\ Wired(c, s)

-----------------------------------------------------------------------------
(* The handshake                                                           *)

(* A handler of the handshake talks, and leaves the rest alone.            *)
Shakes(a, b) ==
    /\ Viewer(b) /\ SameSession(a, b) /\ SameRequests(a, b) /\ SameDecoder(a, b)
    /\ b.size = a.size /\ b.halted = a.halted

(* The viewer is where the server expects it, at a message that is not all *)
(* there or has to wait for the page; or it has left.                      *)
Shook(a, b, t) ==
    \/ Viewer(b) /\ Parted(b) /\ b.askings = 0 /\ ~b.lost
    \/ /\ Shakes(a, b) /\ Bytes(b) /\ b.at = 0 /\ Talk(b, t)
       /\ \/ b.askings = 1 /\ Asks(b)
          \/ b.askings = 0 /\ Waits(b)

(* A handler called by another goes on where that was.                     *)
LEMMA ShakesOn == ASSUME NEW a, NEW b, NEW e, Shakes(a, b), Shakes(b, e) PROVE Shakes(a, e)
  BY DEF Shakes, SameSession, SameRequests, SameDecoder

(* So the whole is a step of the handshake if its last part is.            *)
LEMMA ShookOn ==
  ASSUME NEW a, NEW b, NEW e, NEW t, Shakes(a, b), Shook(b, e, t)
  PROVE  Shook(a, e, t)
  BY ShakesOn DEF Shook

(* To change what is agreed on is all that an assignment does.             *)
Keeps(a, b) ==
    /\ Shakes(a, b) /\ SameBytes(a, b) /\ b.out = a.out /\ b.version = a.version
    /\ b.subtypes = a.subtypes /\ b.askings = a.askings
InitIs(a, b, x) ==
    Keeps(a, b) /\ b.init = x /\ b.scheme = a.scheme /\ b.tight = a.tight /\ b.vencrypt = a.vencrypt
TightNow(a, b) ==
    Keeps(a, b) /\ b.init = a.init /\ b.scheme = a.scheme /\ b.tight /\ b.vencrypt = a.vencrypt
VeNCryptIs(a, b, x) ==
    Keeps(a, b) /\ b.init = a.init /\ b.scheme = a.scheme /\ b.tight = a.tight /\ b.vencrypt = x
SchemeIs(a, b, x) ==
    Keeps(a, b) /\ b.init = a.init /\ b.scheme = x /\ b.tight = a.tight /\ b.vencrypt = a.vencrypt

(* What is agreed on changes one field.                                    *)
LEMMA Agrees ==
  ASSUME NEW d, Viewer(d)
  PROVE  /\ \A x : InitIs(d, [d EXCEPT !.init = x], x)
         /\ TightNow(d, [d EXCEPT !.tight = TRUE])
         /\ \A x : VeNCryptIs(d, [d EXCEPT !.vencrypt = x], x)
         /\ \A x : SchemeIs(d, [d EXCEPT !.scheme = x], x)
  <1> USE DEF Keeps, Shakes, SameBytes, SameSession, SameRequests, SameDecoder, Viewer
  <1>1. \A x : InitIs(d, [d EXCEPT !.init = x], x)
    BY DEF InitIs
  <1>2. TightNow(d, [d EXCEPT !.tight = TRUE])
    BY DEF TightNow
  <1>3. \A x : VeNCryptIs(d, [d EXCEPT !.vencrypt = x], x)
    BY DEF VeNCryptIs
  <1>4. \A x : SchemeIs(d, [d EXCEPT !.scheme = x], x)
    BY DEF SchemeIs
  <1> QED BY <1>1, <1>2, <1>3, <1>4

(* What it asks and says                                                   *)
AsksNow(a, b) ==
    /\ Shakes(a, b) /\ SameBytes(a, b) /\ b.out = a.out /\ b.askings = 1
    /\ b.init = a.init /\ b.version = a.version /\ b.scheme = a.scheme
    /\ b.tight = a.tight /\ b.vencrypt = a.vencrypt /\ b.subtypes = a.subtypes
SaysNow(a, b, m) ==
    /\ Shakes(a, b) /\ SameBytes(a, b) /\ SameTalk(a, b)
    /\ b.out = IF a.sock = "open" THEN Append(a.out, m) ELSE a.out

(* The viewer asks the page for credentials, once. *)
LEMMA Requires ==
  ASSUME NEW d, Viewer(d), d.askings = 0
  PROVE  AsksNow(d, RequireCredentials(d))
  <1> DEFINE e == [d EXCEPT !.creds = d.answer, !.askings = d.askings + 1]
  <1>1. RequireCredentials(d) = e
    BY DEF RequireCredentials
  <1>2. /\ Shakes(d, e) /\ SameBytes(d, e) /\ e.out = d.out /\ e.askings = d.askings + 1
        /\ e.init = d.init /\ e.version = d.version /\ e.scheme = d.scheme
        /\ e.tight = d.tight /\ e.vencrypt = d.vencrypt /\ e.subtypes = d.subtypes
    BY DEF Shakes, SameBytes, SameSession, SameRequests, SameDecoder, Viewer
  <1> HIDE DEF e
  <1> QED BY <1>1, <1>2 DEF AsksNow

(* What it says leaves an open socket.                                     *)
LEMMA SayIs ==
  ASSUME NEW d, Viewer(d), NEW m
  PROVE  SaysNow(d, Say(d, m), m)
  <1> USE DEF SaysNow, Shakes, SameBytes, SameTalk, SameSession, SameRequests, SameDecoder
  <1>1. CASE d.sock = "open"
    BY <1>1 DEF Say, Viewer
  <1>2. CASE d.sock # "open"
    BY <1>2 DEF Say
  <1> QED BY <1>1, <1>2

(* A part that was read as a whole is gone.                                *)
LEMMA PartRead ==
  ASSUME NEW d, Viewer(d), Bytes(d), d.at = 0, d.wire # <<>>, Head(d.wire).len <= d.avail,
         NEW e, Took(d, e, Head(d.wire).len)
  PROVE  /\ Shakes(d, e) /\ SameTalk(d, e) /\ e.out = d.out
         /\ e.wire = Tail(d.wire) /\ e.at = 0 /\ Bytes(e)
         /\ e.avail = d.avail - Head(d.wire).len
  <1>1. Head(d.wire).len \in Nat /\ Head(d.wire).len > 0
    BY WholeFirst DEF Bytes
  <1>2. PartLeft(d) = Head(d.wire).len
    BY <1>1 DEF PartLeft
  <1>3. Reaches(d, e, Head(d.wire).len)
    BY DEF Took
  <1>4. Bytes(e)
    BY <1>1, <1>2, <1>3, ReachesBytes
  <1> QED BY <1>1, <1>2, <1>3, <1>4 DEF Took, Reaches, Shakes, SameElse

(* So is one that was read in one go, or in two.                           *)
LEMMA PartSkips ==
  ASSUME NEW d, Viewer(d), Bytes(d), d.at = 0, d.wire # <<>>, NEW n \in Nat, NEW k \in Nat,
         Head(d.wire).len = n + k
  PROVE  Took(d, Skip(d, n), n) /\ Took(d, Skip(Skip(d, n), k), n + k)
  <1>1. PartLeft(d) = Head(d.wire).len
    BY WholeFirst DEF PartLeft, Bytes
  <1>2. Took(d, Skip(d, n), n)
    BY <1>1, SkipIs DEF Bytes
  <1> DEFINE u == Skip(d, n)
  <1> HIDE DEF u
  <1>3. Took(d, Skip(u, k), n + k)
    BY <1>1, <1>2, TookMore DEF u
  <1> QED BY <1>2, <1>3 DEF u

(* When nothing is on the wire, or one part only, the bytes are few.       *)
LEMMA NoBytes ==
  ASSUME NEW d, Bytes(d), d.at = 0
  PROVE  d.avail \in Nat /\ (d.wire = <<>> => d.avail = 0)
  BY TotalNone DEF Bytes

(* So they are when one part only is.                                      *)
LEMMA FewBytes ==
  ASSUME NEW d, Bytes(d), d.at = 0, NEW p, d.wire = <<p>>
  PROVE  d.avail \in Nat /\ d.avail <= p.len /\ Tail(d.wire) = <<>> /\ p.len \in Nat
  <1>1. d.avail \in Nat /\ d.avail <= Total(d.wire) /\ Whole(d.wire)
    BY DEF Bytes
  <1>2. Head(d.wire) = p /\ d.wire # <<>> /\ Tail(d.wire) = <<>>
    OBVIOUS
  <1>3. Total(Tail(d.wire)) = 0
    BY <1>2, TotalNone
  <1>4. Head(d.wire).len \in Nat /\ Total(d.wire) = Head(d.wire).len + Total(Tail(d.wire))
    BY <1>1, <1>2, WholeFirst
  <1>5. d.avail <= Head(d.wire).len
    BY <1>1, <1>3, <1>4
  <1>6. Head(d.wire).len = p.len
    BY <1>2
  <1>7. d.avail <= p.len /\ p.len \in Nat
    BY <1>4, <1>5, <1>6
  <1> QED BY <1>1, <1>2, <1>7

(* A viewer that fails has left.                                           *)
LEMMA FailShook ==
  ASSUME NEW a, NEW d, NEW t, Viewer(d), d.conn = "connecting", d.askings = 0, ~d.lost
  PROVE  Shook(a, Fail(d), t)
  <1>1. Broken(d, Leave(d)) /\ Fail(d) = Leave(d)
    BY LeaveBreaks
  <1> QED BY <1>1 DEF Shook, Broken, Parted, SameTalk, SameBytes

(* The talk is of what is under way and agreed on.                         *)
LEMMA TalkOn ==
  ASSUME NEW d, NEW t, Talk(d, t), NEW e, SameTalk(d, e), e.wire = d.wire, e.out = d.out
  PROVE  Talk(e, t)
  <1> USE DEF SameTalk
  <1>2. \A w : (Said(d, w) => Said(e, w)) /\ (Heard(d, w) => Heard(e, w))
    BY DEF Said, Heard
  <1>3. TalkVersion(d, t) => TalkVersion(e, t)
    BY <1>2 DEF TalkVersion
  <1>4. TalkSecurity(d, t) => TalkSecurity(e, t)
    BY <1>2 DEF TalkSecurity
  <1>5. TalkAuth(d, t) => TalkAuth(e, t)
    <2>1. TalkPassword(d, t) => TalkPassword(e, t)
      BY <1>2 DEF TalkPassword
    <2>2. TalkTight(d, t) => TalkTight(e, t)
      BY <1>2 DEF TalkTight
    <2>3. TalkVeNCrypt(d, t) => TalkVeNCrypt(e, t)
      BY <1>2 DEF TalkVeNCrypt
    <2>4. TalkAsking(d, t) => TalkAsking(e, t)
      BY <1>2 DEF TalkAsking
    <2> QED BY <2>1, <2>2, <2>3, <2>4 DEF TalkAuth
  <1>6. TalkResult(d, t) => TalkResult(e, t)
    BY <1>2 DEF TalkResult
  <1>7. TalkReason(d, t) => TalkReason(e, t)
    BY <1>2 DEF TalkReason
  <1>8. TalkInit(d, t) => TalkInit(e, t)
    BY <1>2 DEF TalkInit
  <1> QED BY <1>3, <1>4, <1>5, <1>6, <1>7, <1>8 DEF Talk

(* A handler that waits is where it was. *)
LEMMA WaitShook ==
  ASSUME NEW d, NEW t, NEW e, Viewer(d), Bytes(d), d.at = 0, Talk(d, t), d.askings = 0, Waits(d),
         Alike(d, e)
  PROVE  Shook(d, e, t)
  <1> USE DEF Alike, SameElse, SameTalk, SameBytes
  <1>1. Shakes(d, e) /\ Bytes(e) /\ e.at = 0 /\ e.askings = 0 /\ Waits(e)
    BY DEF Shakes, Bytes, Waits
  <1>2. Talk(e, t)
    BY TalkOn
  <1> QED BY <1>1, <1>2 DEF Shook

(* A viewer that is connecting, at the beginning of a message, and one     *)
(* that authenticates itself                                               *)
Shaker(d) ==
    /\ Viewer(d) /\ Bytes(d) /\ d.at = 0 /\ d.sock = "open" /\ d.conn = "connecting"
    /\ d.askings = 0
Auth(d, t) ==
    /\ Shaker(d) /\ d.init = "Authentication" /\ d.version = t.version
    /\ d.scheme # 19 => d.vencrypt = 0

(* What it read of a part and took back, it has not read.                  *)
LEMMA BackAlike ==
  ASSUME NEW d, Shaker(d), NEW u, NEW n \in Nat, Took(d, u, n), d.wire # <<>>,
         n < Head(d.wire).len
  PROVE  Alike(d, Back(u, n))
  <1>1. PartLeft(d) = Head(d.wire).len
    BY WholeFirst DEF PartLeft, Shaker, Bytes
  <1> QED BY <1>1, BackIs DEF Shaker

(* It may wait, or take back what it read.                                 *)
LEMMA WaitsShook ==
  ASSUME NEW d, NEW t, Shaker(d), Talk(d, t), Waits(d)
  PROVE  /\ Shook(d, d, t)
         /\ \A u : \A n \in Nat : Took(d, u, n) /\ d.wire # <<>> /\ n < Head(d.wire).len
              => Shook(d, Back(u, n), t)
  <1>1. Shook(d, d, t)
    BY SameSelf, WaitShook DEF Shaker
  <1>2. ASSUME NEW u, NEW n \in Nat, Took(d, u, n), d.wire # <<>>, n < Head(d.wire).len
        PROVE  Shook(d, Back(u, n), t)
    <2>1. Alike(d, Back(u, n))
      BY <1>2, BackAlike
    <2> QED BY <2>1, WaitShook DEF Shaker
  <1> QED BY <1>1, <1>2

(* A viewer fails on what it has read.                                     *)
LEMMA TookFails ==
  ASSUME NEW d, NEW t, Shaker(d), NEW e, NEW n, Took(d, e, n)
  PROVE  Shook(d, Fail(e), t)
  <1>1. Viewer(e) /\ e.conn = "connecting" /\ e.askings = 0 /\ ~e.lost
    BY DEF Took, Reaches, SameElse, SameSession, SameTalk, Shaker
  <1> QED BY <1>1, FailShook

(* A handler that goes on after another has the same viewer.               *)
LEMMA ShakerOn ==
  ASSUME NEW d, Shaker(d), NEW e, Shakes(d, e), Bytes(e), e.at = 0, e.askings = 0
  PROVE  Shaker(e)
  BY DEF Shaker, Shakes, SameSession

(* The bytes are those of a viewer with the same bytes.                    *)
LEMMA BytesOn ==
  ASSUME NEW a, Bytes(a), NEW b, SameBytes(a, b)
  PROVE  Bytes(b) /\ b.at = a.at /\ b.avail = a.avail /\ b.wire = a.wire
  BY DEF Bytes, SameBytes

(* From a to b: what is on the wire and was said, and what is agreed on.   *)
Here(a, b, w, o, i, n, h, k) ==
    /\ Shakes(a, b) /\ Bytes(b) /\ b.at = 0 /\ b.wire = w /\ b.out = o /\ b.version = a.version
    /\ b.init = i /\ b.scheme = n /\ b.tight = h /\ b.vencrypt = k
Now(a, b, w, o, i, n, h, k) == Here(a, b, w, o, i, n, h, k) /\ b.askings = 0
Asked(a, b, w, o, i, n, h, k) == Here(a, b, w, o, i, n, h, k) /\ b.askings = 1

(* A part is read.                                                         *)
LEMMA NowRead ==
  ASSUME NEW d, Shaker(d), d.wire # <<>>, Head(d.wire).len <= d.avail,
         NEW e, Took(d, e, Head(d.wire).len)
  PROVE  Now(d, e, Tail(d.wire), d.out, d.init, d.scheme, d.tight, d.vencrypt)
  BY PartRead DEF Shaker, Now, Here, SameTalk

(* Then something is agreed on, said, or the page asked.                   *)
LEMMA NowGoes ==
  ASSUME NEW a, Shaker(a), NEW b, NEW w, NEW o, NEW i, NEW n, NEW h, NEW k,
         Now(a, b, w, o, i, n, h, k)
  PROVE  /\ \A x : Now(a, [b EXCEPT !.init = x], w, o, x, n, h, k)
         /\ Now(a, [b EXCEPT !.tight = TRUE], w, o, i, n, TRUE, k)
         /\ \A x : Now(a, [b EXCEPT !.vencrypt = x], w, o, i, n, h, x)
         /\ \A x : Now(a, [b EXCEPT !.scheme = x], w, o, i, x, h, k)
         /\ \A m : Now(a, Say(b, m), w, Append(o, m), i, n, h, k)
         /\ Asked(a, RequireCredentials(b), w, o, i, n, h, k)
         /\ Shaker(b) /\ Shakes(a, b)
  <1>1. Viewer(b) /\ Shakes(a, b) /\ Bytes(b) /\ b.at = 0 /\ b.askings = 0
    BY DEF Now, Here, Shakes
  <1>2. Shaker(b)
    BY <1>1, ShakerOn
  <1>3. \A e : Shakes(b, e) /\ SameBytes(b, e) => Shakes(a, e) /\ Bytes(e) /\ e.at = 0 /\ e.wire = b.wire
    BY <1>1, ShakesOn, BytesOn
  <1>4. ASSUME NEW x PROVE Now(a, [b EXCEPT !.init = x], w, o, x, n, h, k)
    <2> DEFINE e == [b EXCEPT !.init = x]
    <2>1. InitIs(b, e, x)
      BY <1>1, Agrees
    <2> HIDE DEF e
    <2> QED BY <1>3, <2>1 DEF InitIs, Keeps, Now, Here, e
  <1>5. Now(a, [b EXCEPT !.tight = TRUE], w, o, i, n, TRUE, k)
    <2> DEFINE e == [b EXCEPT !.tight = TRUE]
    <2>1. TightNow(b, e) /\ e.tight = TRUE
      BY <1>1, Agrees DEF Viewer
    <2> HIDE DEF e
    <2> QED BY <1>3, <2>1 DEF TightNow, Keeps, Now, Here, e
  <1>6. ASSUME NEW x PROVE Now(a, [b EXCEPT !.vencrypt = x], w, o, i, n, h, x)
    <2> DEFINE e == [b EXCEPT !.vencrypt = x]
    <2>1. VeNCryptIs(b, e, x)
      BY <1>1, Agrees
    <2> HIDE DEF e
    <2> QED BY <1>3, <2>1 DEF VeNCryptIs, Keeps, Now, Here, e
  <1>7. ASSUME NEW x PROVE Now(a, [b EXCEPT !.scheme = x], w, o, i, x, h, k)
    <2> DEFINE e == [b EXCEPT !.scheme = x]
    <2>1. SchemeIs(b, e, x)
      BY <1>1, Agrees
    <2> HIDE DEF e
    <2> QED BY <1>3, <2>1 DEF SchemeIs, Keeps, Now, Here, e
  <1>8. ASSUME NEW m PROVE Now(a, Say(b, m), w, Append(o, m), i, n, h, k)
    <2> DEFINE e == Say(b, m)
    <2>1. SaysNow(b, e, m) /\ b.sock = "open"
      BY <1>1, <1>2, SayIs DEF Shaker
    <2> HIDE DEF e
    <2> QED BY <1>3, <2>1 DEF SaysNow, SameTalk, Now, Here, e
  <1>9. Asked(a, RequireCredentials(b), w, o, i, n, h, k)
    <2> DEFINE e == RequireCredentials(b)
    <2>1. AsksNow(b, e)
      BY <1>1, Requires
    <2> HIDE DEF e
    <2> QED BY <1>3, <2>1 DEF AsksNow, Now, Asked, Here, e
  <1> QED BY <1>1, <1>2, <1>4, <1>5, <1>6, <1>7, <1>8, <1>9

(* There the viewer waits, has asked, or fails.                            *)
LEMMA NowShook ==
  ASSUME NEW a, Shaker(a), NEW b, NEW t, NEW w, NEW o, NEW i, NEW n, NEW h, NEW k
  PROVE  /\ Now(a, b, w, o, i, n, h, k) /\ Talk(b, t) /\ Waits(b) => Shook(a, b, t)
         /\ Now(a, b, <<>>, o, i, n, h, k) /\ Talk(b, t) => Shook(a, b, t)
         /\ Asked(a, b, w, o, i, n, h, k) /\ Talk(b, t) /\ Asks(b) => Shook(a, b, t)
         /\ Now(a, b, w, o, i, n, h, k) => Shook(a, Fail(b), t)
  <1>1. Now(a, b, w, o, i, n, h, k) => Shook(a, Fail(b), t)
    <2> SUFFICES ASSUME Now(a, b, w, o, i, n, h, k) PROVE Shook(a, Fail(b), t)
      OBVIOUS
    <2>1. Viewer(b) /\ b.conn = "connecting" /\ b.askings = 0 /\ ~b.lost
      BY DEF Now, Here, Shakes, SameSession, Shaker, Bytes
    <2> QED BY <2>1, FailShook
  <1>2. Now(a, b, w, o, i, n, h, k) /\ Talk(b, t) /\ Waits(b) => Shook(a, b, t)
    BY DEF Now, Here, Shook
  <1>3. Now(a, b, <<>>, o, i, n, h, k) /\ Talk(b, t) => Shook(a, b, t)
    BY DEF Now, Here, Shook, Waits
  <1>4. Asked(a, b, w, o, i, n, h, k) /\ Talk(b, t) /\ Asks(b) => Shook(a, b, t)
    BY DEF Asked, Here, Shook
  <1> QED BY <1>1, <1>2, <1>3, <1>4

(* A viewer with an empty wire that asks the page is where it may.         *)
LEMMA AsksEmpty ==
  ASSUME NEW a, NEW b, NEW o, NEW n, NEW h, NEW k,
         Asked(a, b, <<>>, o, "Authentication", n, h, k), n \in {22, 129} \/ (n = 19 /\ k = 4)
  PROVE  Asks(b)
  BY NoBytes DEF Asked, Here, Asks

-----------------------------------------------------------------------------
(* What ends the handshake: a reason.                                      *)
LEMMA ReasonShook ==
  ASSUME NEW d, NEW t, Shaker(d), d.init = "SecurityReason", t.phase = "end", Heard(d, <<Reason>>)
  PROVE  Shook(d, HandleSecurityReason(d), t)
  <1> DEFINE u == Skip(d, 4)
             e == Skip(u, 3)
  <1>1. Reason.len = 7 /\ Reason.n = 3
    BY DEF Reason, ReasonLength
  <1>2. d.wire # <<>> /\ Head(d.wire) = Reason /\ Part(d) = Reason
    BY DEF Heard, Part
  <1>3. Took(d, u, 4) /\ Took(d, e, 7)
    <2>1. Head(d.wire).len = 4 + 3
      BY <1>1, <1>2
    <2>2. Took(d, Skip(d, 4), 4) /\ Took(d, Skip(Skip(d, 4), 3), 4 + 3)
      BY <1>2, <2>1, PartSkips DEF Shaker
    <2> QED BY <2>2
  <1>4. HandleSecurityReason(d) =
          CASE Short(d, 4) -> d
            [] ~Short(d, 4) /\ Short(u, 3) -> Back(u, 4)
            [] OTHER -> Fail(e)
    BY <1>1, <1>2 DEF HandleSecurityReason
  <1> HIDE DEF u, e
  <1>5. Talk(d, t)
    BY DEF Talk, TalkReason
  <1>6. d.avail \in Nat /\ u.avail = d.avail - 4
    BY <1>3 DEF Shaker, Bytes, Took, Reaches
  <1>7. CASE Short(d, 4) \/ Short(u, 3)
    <2>1. Waits(d)
      BY <1>1, <1>2, <1>6, <1>7 DEF Short, Waits
    <2>2. Shook(d, d, t) /\ Shook(d, Back(u, 4), t)
      BY <1>1, <1>2, <1>3, <1>5, <2>1, WaitsShook
    <2> QED BY <1>4, <1>7, <2>2
  <1>8. CASE ~(Short(d, 4) \/ Short(u, 3))
    BY <1>3, <1>4, <1>8, TookFails
  <1> QED BY <1>7, <1>8

-----------------------------------------------------------------------------
(* Authentication with what the page gave                                  *)

(* A password: the challenge is there, or not yet.                         *)
LEMMA PasswordShook ==
  ASSUME NEW d, NEW t, Auth(d, t), TalkPassword(d, t)
  PROVE  Shook(d, NegotiateStdVNCAuth(d), t)
  <1> DEFINE u == Skip(d, 16)
             v == [u EXCEPT !.init = "SecurityResult"]
             e == Say(v, <<"response">>)
             f == RequireCredentials(d)
  <1>1. Talk(d, t)
    BY DEF Talk, TalkAuth, Auth, Shaker
  <1>2. NegotiateStdVNCAuth(d) =
          CASE Short(d, 16) -> d
            [] ~Short(d, 16) /\ "password" \notin d.creds -> f
            [] OTHER -> e
    BY DEF NegotiateStdVNCAuth
  <1>3. d.wire = <<>> \/ (t.phase = "response" /\ Heard(d, <<Challenge>>))
    BY DEF TalkPassword, Said
  <1>4. Bytes(d) /\ d.at = 0 /\ d.avail \in Nat /\ Viewer(d) /\ d.askings = 0 /\ Shaker(d)
    BY DEF Auth, Shaker, Bytes
  <1>5. Challenge.len = 16
    BY DEF Challenge
  <1>6. CASE Short(d, 16)
    <2>1. Waits(d)
      <3>1. CASE d.wire = <<>>
        BY <3>1 DEF Waits
      <3>2. CASE Heard(d, <<Challenge>>)
        <4>1. Head(d.wire) = Challenge
          BY <3>2 DEF Heard
        <4> QED BY <1>5, <1>6, <4>1 DEF Waits, Short
      <3> QED BY <1>3, <3>1, <3>2
    <2> QED BY <1>1, <1>2, <1>4, <1>6, <2>1, WaitsShook
  <1>7. CASE ~Short(d, 16)
    <2>1. t.phase = "response" /\ Heard(d, <<Challenge>>)
      BY <1>3, <1>4, <1>7, NoBytes DEF Short
    <2>2. d.wire = <<Challenge>> /\ d.out = <<>> /\ d.wire # <<>> /\ Head(d.wire) = Challenge
      BY <2>1 DEF Heard
    <2>3. d.avail = 16 /\ Tail(d.wire) = <<>>
      <3>1. d.avail <= Challenge.len /\ Tail(d.wire) = <<>>
        BY <1>4, <2>2, FewBytes
      <3> QED BY <1>4, <1>5, <1>7, <3>1 DEF Short
    <2>3a. Now(d, d, d.wire, d.out, d.init, d.scheme, d.tight, d.vencrypt)
      BY <1>4, SameSelf DEF Now, Here, Alike, SameElse, Shakes
    <2>4. CASE "password" \notin d.creds
      <3>1. NegotiateStdVNCAuth(d) = f
        BY <1>2, <1>7, <2>4
      <3>2. Asked(d, f, d.wire, d.out, d.init, d.scheme, d.tight, d.vencrypt)
        BY <1>4, <2>3a, NowGoes
      <3> HIDE DEF f
      <3>3. Talk(f, t)
        BY <2>1, <3>2 DEF Asked, Here, Talk, TalkAuth, TalkAsking, TalkPassword, Auth, Heard
      <3>4. Asks(f)
        <4>1. SameBytes(d, f)
          <5>1. AsksNow(d, f)
            BY <1>4, Requires DEF f
          <5> QED BY <5>1 DEF AsksNow
        <4> QED BY <2>2, <2>3, <3>2, <4>1 DEF Asked, Here, Asks, Auth, TalkPassword, SameBytes
      <3> QED BY <1>4, <3>1, <3>2, <3>3, <3>4, NowShook DEF f
    <2>5. CASE "password" \in d.creds
      <3>1. NegotiateStdVNCAuth(d) = e
        BY <1>2, <1>7, <2>5
      <3>2. Took(d, u, Head(d.wire).len) /\ Head(d.wire).len <= d.avail
        <4>1. Head(d.wire).len = 16 + 0
          BY <1>5, <2>2
        <4>2. Took(d, u, 16)
          BY <1>4, <2>2, <4>1, PartSkips
        <4> QED BY <2>3, <4>1, <4>2
      <3> HIDE DEF u
      <3>3. Now(d, u, <<>>, <<>>, d.init, d.scheme, d.tight, d.vencrypt)
        BY <1>4, <2>2, <2>3, <3>2, NowRead
      <3>4. Now(d, v, <<>>, <<>>, "SecurityResult", d.scheme, d.tight, d.vencrypt)
        BY <1>4, <3>3, NowGoes
      <3> HIDE DEF v
      <3>5. Now(d, e, <<>>, <<<<"response">>>>, "SecurityResult", d.scheme, d.tight, d.vencrypt)
        <4>1. Now(d, e, <<>>, Append(<<>>, <<"response">>), "SecurityResult",
                  d.scheme, d.tight, d.vencrypt)
          BY <1>4, <3>4, NowGoes
        <4>2. Append(<<>>, <<"response">>) = <<<<"response">>>>
          OBVIOUS
        <4> QED BY <4>1, <4>2
      <3> HIDE DEF e
      <3>6. Talk(e, t)
        BY <2>1, <3>5 DEF Now, Here, Talk, TalkResult, Said, Auth, TalkPassword
      <3> QED BY <1>4, <3>1, <3>5, <3>6, NowShook DEF e
    <2> QED BY <2>4, <2>5
  <1> QED BY <1>6, <1>7

(* A handler that is called is there. *)
LEMMA NowSelf ==
  ASSUME NEW d, Shaker(d)
  PROVE  Now(d, d, d.wire, d.out, d.init, d.scheme, d.tight, d.vencrypt)
  BY SameSelf DEF Now, Here, Alike, SameElse, Shakes, Shaker

(* One thing more was said.                                                *)
LEMMA Appends ==
  ASSUME NEW x, NEW m
  PROVE  Append(<<>>, m) = <<m>> /\ Append(<<x>>, m) = <<x, m>>
  <1> DEFINE S == {x, m}
             w == Append(<<x>>, m)
  <1>1. /\ <<x>> \in Seq(S) /\ m \in S /\ <<x, m>> \in Seq(S) /\ Len(<<x, m>>) = 2
        /\ Len(<<x>>) = 1 /\ <<x, m>>[1] = x /\ <<x, m>>[2] = m /\ <<x>>[1] = x
    OBVIOUS
  <1> HIDE DEF S
  <1>2. w \in Seq(S) /\ Len(w) = 2 /\ w[1] = x /\ w[2] = m
    BY <1>1
  <1>3. \A i \in 1 .. 2 : w[i] = <<x, m>>[i]
    BY <1>1, <1>2
  <1>4. w = <<x, m>>
    BY <1>1, <1>2, <1>3, SeqEqual
  <1> QED BY <1>4

(* After a choice of scheme 22 the user and target are told, or asked for. *)
LEMMA XvpShook ==
  ASSUME NEW d, NEW t, Auth(d, t), d.scheme = 22, d.tight <=> t.tight,
         \/ t.phase = "choice" /\ Said(d, <<<<"choice", 22>>>>)
         \/ t.phase = "target" /\ Said(d, <<>>)
  PROVE  Shook(d, NegotiateXvpAuth(d), t)
  <1> DEFINE u == [d EXCEPT !.scheme = 2]
             v == Say(u, <<"target">>)
             e == NegotiateStdVNCAuth(v)
             f == RequireCredentials(d)
             o == Append(d.out, <<"target">>)
  <1>1. NegotiateXvpAuth(d) = IF {"username", "password", "target"} \subseteq d.creds THEN e ELSE f
    BY DEF NegotiateXvpAuth
  <1>2. Shaker(d) /\ d.init = "Authentication" /\ d.vencrypt = 0 /\ d.version = t.version /\ d.wire = <<>>
    BY DEF Auth, Said
  <1>3. Now(d, d, <<>>, d.out, "Authentication", 22, d.tight, 0)
    BY <1>2, NowSelf
  <1>4. CASE {"username", "password", "target"} \subseteq d.creds
    <2>1. Now(d, u, <<>>, d.out, "Authentication", 2, d.tight, 0)
      BY <1>2, <1>3, NowGoes
    <2> HIDE DEF u
    <2>2. Now(d, v, <<>>, o, "Authentication", 2, d.tight, 0)
      BY <1>2, <2>1, NowGoes
    <2> HIDE DEF v
    <2>3. \/ t.phase = "choice" /\ o = <<<<"choice", 22>>, <<"target">>>>
          \/ t.phase = "target" /\ o = <<<<"target">>>>
      <3>1. /\ Append(<<<<"choice", 22>>>>, <<"target">>) = <<<<"choice", 22>>, <<"target">>>>
            /\ Append(<<>>, <<"target">>) = <<<<"target">>>>
        BY Appends
      <3> QED BY <3>1, Zenon DEF Said
    <2> HIDE DEF o
    <2>4. Shaker(v) /\ Shakes(d, v)
      BY <1>2, <2>2, NowGoes
    <2>5. Auth(v, t)
      BY <1>2, <2>2, <2>4 DEF Auth, Now, Here
    <2>6. TalkPassword(v, t)
      BY <2>2, <2>3 DEF TalkPassword, Now, Here, Said
    <2>7. Shook(v, e, t)
      BY <2>5, <2>6, PasswordShook
    <2> QED BY <1>1, <1>4, <2>4, <2>7, ShookOn
  <1>5. CASE ~({"username", "password", "target"} \subseteq d.creds)
    <2>1. NegotiateXvpAuth(d) = f
      BY <1>1, <1>5
    <2>2. Asked(d, f, <<>>, d.out, "Authentication", 22, d.tight, 0)
      BY <1>2, <1>3, NowGoes
    <2> HIDE DEF f
    <2>3. Talk(f, t)
      BY <1>2, <2>2 DEF Asked, Here, Talk, TalkAuth, TalkAsking, Said
    <2>4. Asks(f)
      BY <2>2, AsksEmpty
    <2> QED BY <1>2, <2>1, <2>2, <2>3, <2>4, NowShook DEF f
  <1> QED BY <1>4, <1>5

(* The user logs in, or the page is asked for who it is: with scheme 129   *)
(* of Tight and after the subtype of VeNCrypt.                             *)
LEMMA LoginShook ==
  ASSUME NEW d, NEW t, Auth(d, t), d.tight <=> t.tight,
         \/ /\ d.scheme = 129
            /\ \/ t.phase = "subauth" /\ Said(d, <<<<"subauth", 129>>>>)
               \/ t.phase = "login" /\ Said(d, <<>>)
         \/ /\ d.scheme = 19 /\ d.vencrypt = 4
            /\ \/ t.phase = "plain" /\ Said(d, <<<<"plain">>>>)
               \/ t.phase = "login" /\ Said(d, <<>>)
  PROVE  Shook(d, NegotiateTightUnixAuth(d), t) /\ Shook(d, VeNCryptLogin(d), t)
  <1> DEFINE u == [d EXCEPT !.init = "SecurityResult"]
             e == Say(u, <<"login">>)
             f == RequireCredentials(d)
             o == Append(d.out, <<"login">>)
             h == NegotiateTightUnixAuth(d)
  <1>1. h = (IF {"username", "password"} \subseteq d.creds THEN e ELSE f) /\ h = VeNCryptLogin(d)
    BY DEF NegotiateTightUnixAuth, VeNCryptLogin
  <1> HIDE DEF h
  <1>2. Shaker(d) /\ d.init = "Authentication" /\ d.version = t.version /\ d.wire = <<>>
    BY DEF Auth, Said
  <1>3. Now(d, d, <<>>, d.out, "Authentication", d.scheme, d.tight, d.vencrypt)
    BY <1>2, NowSelf
  <1>4. CASE {"username", "password"} \subseteq d.creds
    <2>1. Now(d, u, <<>>, d.out, "SecurityResult", d.scheme, d.tight, d.vencrypt)
      BY <1>2, <1>3, NowGoes
    <2> HIDE DEF u
    <2>2. Now(d, e, <<>>, o, "SecurityResult", d.scheme, d.tight, d.vencrypt)
      BY <1>2, <2>1, NowGoes
    <2> HIDE DEF e
    <2>3. \/ t.phase = "subauth" /\ o = <<<<"subauth", 129>>, <<"login">>>>
          \/ t.phase = "plain" /\ o = <<<<"plain">>, <<"login">>>>
          \/ t.phase = "login" /\ o = <<<<"login">>>>
      <3>1. /\ Append(<<<<"subauth", 129>>>>, <<"login">>) = <<<<"subauth", 129>>, <<"login">>>>
            /\ Append(<<<<"plain">>>>, <<"login">>) = <<<<"plain">>, <<"login">>>>
            /\ Append(<<>>, <<"login">>) = <<<<"login">>>>
        BY Appends
      <3> QED BY <3>1, Zenon DEF Said
    <2> HIDE DEF o
    <2>4. Talk(e, t)
      <3>1. /\ e.init = "SecurityResult" /\ e.version = t.version /\ (e.tight <=> t.tight)
            /\ e.wire = <<>> /\ e.out = o
        BY <1>2, <2>2 DEF Now, Here
      <3> QED BY <2>3, <3>1, Zenon DEF Talk, TalkResult, Said
    <2> QED BY <1>1, <1>2, <1>4, <2>2, <2>4, NowShook DEF e, h
  <1>5. CASE ~({"username", "password"} \subseteq d.creds)
    <2>1. h = f
      BY <1>1, <1>5
    <2>2. Asked(d, f, <<>>, d.out, "Authentication", d.scheme, d.tight, d.vencrypt)
      BY <1>2, <1>3, NowGoes
    <2> HIDE DEF f
    <2>3. Talk(f, t)
      BY <1>2, <2>2 DEF Asked, Here, Talk, TalkAuth, TalkAsking, Said, Auth
    <2>4. Asks(f)
      <3>1. d.scheme \in {22, 129} \/ (d.scheme = 19 /\ d.vencrypt = 4)
        OBVIOUS
      <3> QED BY <2>2, <3>1, AsksEmpty
    <2> QED BY <1>1, <1>2, <2>1, <2>2, <2>3, <2>4, NowShook DEF f, h
  <1> QED BY <1>4, <1>5

(* So the handshake resumes when the page has answered.                    *)
LEMMA AskedShook ==
  ASSUME NEW d, NEW t, Auth(d, t), TalkAsking(d, t)
  PROVE  Shook(d, NegotiateAuthentication(d), t)
  <1>1. d.tight <=> t.tight
    BY DEF TalkAsking
  <1>2. CASE d.scheme = 2 /\ t.phase = "response" /\ Heard(d, <<Challenge>>)
    <2>1. TalkPassword(d, t)
      BY <1>1, <1>2 DEF TalkPassword
    <2> QED BY <1>2, <2>1, PasswordShook DEF NegotiateAuthentication
  <1>3. CASE /\ d.scheme = 22
             /\ \/ t.phase = "choice" /\ Said(d, <<<<"choice", 22>>>>)
                \/ t.phase = "target" /\ Said(d, <<>>)
    BY <1>1, <1>3, XvpShook DEF NegotiateAuthentication
  <1>4. CASE /\ d.scheme = 129
             /\ \/ t.phase = "subauth" /\ Said(d, <<<<"subauth", 129>>>>)
                \/ t.phase = "login" /\ Said(d, <<>>)
    BY <1>1, <1>4, LoginShook DEF NegotiateAuthentication
  <1>5. CASE /\ d.scheme = 19 /\ d.vencrypt = 4
             /\ \/ t.phase = "plain" /\ Said(d, <<<<"plain">>>>)
                \/ t.phase = "login" /\ Said(d, <<>>)
    BY <1>1, <1>5, LoginShook DEF NegotiateAuthentication, NegotiateVeNCryptAuth
  <1> QED BY <1>2, <1>3, <1>4, <1>5 DEF TalkAsking

-----------------------------------------------------------------------------
(* VeNCrypt                                                                *)
VeNCrypts(d, t) == Auth(d, t) /\ d.scheme = 19 /\ ~d.tight /\ ~t.tight /\ d.out = <<>>

(* The list of subtypes is there, or not yet.                              *)
LEMMA SubtypesShook ==
  ASSUME NEW d, NEW t, VeNCrypts(d, t), d.vencrypt = 3, d.subtypes = 1,
         NEW ok \in BOOLEAN, d.wire = <<SubtypesPart(ok)>>, t.phase = IF ok THEN "plain" ELSE "end"
  PROVE  Shook(d, VeNCryptSubtypes(d), t)
  <1> DEFINE u == Skip(d, 4)
             v == [u EXCEPT !.vencrypt = 4]
             w == Say(v, <<"plain">>)
             p == SubtypesPart(ok)
  <1>1. p.len = 4 /\ (p.plain <=> ok) /\ Head(d.wire) = p /\ d.wire # <<>> /\ Part(d) = p
        /\ Tail(d.wire) = <<>>
    BY DEF SubtypesPart, Part
  <1>2. VeNCryptSubtypes(d) = CASE Short(d, 4) -> d
                                [] ~Short(d, 4) /\ ~ok -> Fail(u)
                                [] OTHER -> VeNCryptLogin(w)
    BY <1>1 DEF VeNCryptSubtypes
  <1>3. Shaker(d) /\ d.avail \in Nat /\ ~d.tight /\ d.out = <<>> /\ d.init = "Authentication"
        /\ d.scheme = 19 /\ d.version = t.version
    BY DEF VeNCrypts, Auth, Shaker, Bytes
  <1>4. Took(d, u, Head(d.wire).len)
    <2>1. Head(d.wire).len = 4 + 0
      BY <1>1
    <2>2. Took(d, u, 4)
      BY <1>1, <1>3, <2>1, PartSkips DEF Shaker
    <2> QED BY <1>1, <2>2
  <1> HIDE DEF u
  <1>5. CASE Short(d, 4)
    <2>1. Waits(d)
      BY <1>1, <1>5 DEF Short, Waits
    <2>2. Talk(d, t)
      <3>1. \/ Heard(d, <<SubtypesPart(TRUE)>>) /\ t.phase = "plain"
            \/ Heard(d, <<SubtypesPart(FALSE)>>) /\ t.phase = "end"
        BY <1>3 DEF Heard
      <3> QED BY <1>3, <3>1 DEF Talk, TalkAuth, TalkVeNCrypt, VeNCrypts, Shaker
    <2> QED BY <1>2, <1>3, <1>5, <2>1, <2>2, WaitsShook
  <1>6. CASE ~Short(d, 4)
    <2>1. Now(d, u, <<>>, <<>>, "Authentication", 19, d.tight, d.vencrypt)
      <3>1. Head(d.wire).len <= d.avail
        BY <1>1, <1>3, <1>6 DEF Short
      <3> QED BY <1>1, <1>3, <1>4, <3>1, NowRead
    <2>2. CASE ~ok
      BY <1>2, <1>3, <1>6, <2>1, <2>2, NowShook
    <2>3. CASE ok
      <3>1. Now(d, v, <<>>, <<>>, "Authentication", 19, d.tight, 4)
        BY <1>3, <2>1, NowGoes
      <3> HIDE DEF v
      <3>2. Now(d, w, <<>>, Append(<<>>, <<"plain">>), "Authentication", 19, d.tight, 4)
        BY <1>3, <3>1, NowGoes
      <3> HIDE DEF w
      <3>3. Shaker(w) /\ Shakes(d, w)
        BY <1>3, <3>2, NowGoes
      <3>4. Append(<<>>, <<"plain">>) = <<<<"plain">>>>
        OBVIOUS
      <3>5. Auth(w, t) /\ w.scheme = 19 /\ w.vencrypt = 4 /\ Said(w, <<<<"plain">>>>)
            /\ (w.tight <=> t.tight) /\ t.phase = "plain"
        BY <1>3, <2>3, <3>2, <3>3, <3>4 DEF Auth, Now, Here, Said, VeNCrypts
      <3>6. Shook(w, VeNCryptLogin(w), t)
        BY <3>5, LoginShook
      <3> QED BY <1>2, <1>6, <2>3, <3>3, <3>6, ShookOn DEF w
    <2> QED BY <2>2, <2>3
  <1> QED BY <1>5, <1>6

(* A part is read in one go as soon as it is there.                        *)
LEMMA ReadAll ==
  ASSUME NEW d, NEW t, Shaker(d), d.wire # <<>>, NEW n \in Nat, Head(d.wire).len = n
  PROVE  /\ Short(d, n) /\ Talk(d, t) => Shook(d, d, t)
         /\ ~Short(d, n) => Now(d, Skip(d, n), Tail(d.wire), d.out, d.init, d.scheme, d.tight,
                                d.vencrypt)
  <1> DEFINE u == Skip(d, n)
  <1>1. Viewer(d) /\ Bytes(d) /\ d.at = 0 /\ d.avail \in Nat
    BY DEF Shaker, Bytes
  <1>2. Took(d, u, n)
    <2>1. PartLeft(d) = n
      BY <1>1, WholeFirst DEF PartLeft, Bytes
    <2> QED BY <1>1, <2>1, SkipIs DEF Bytes
  <1> HIDE DEF u
  <1>3. Short(d, n) => Waits(d)
    BY DEF Short, Waits
  <1>4. ~Short(d, n) => Head(d.wire).len <= d.avail
    BY <1>1 DEF Short
  <1> QED BY <1>2, <1>3, <1>4, WaitsShook, NowRead DEF u

(* The number of subtypes comes before them.                               *)
LEMMA CountShook ==
  ASSUME NEW d, NEW t, VeNCrypts(d, t), d.vencrypt = 2,
         NEW ok \in BOOLEAN, d.wire = <<CountPart, SubtypesPart(ok)>>,
         t.phase = IF ok THEN "plain" ELSE "end"
  PROVE  Shook(d, VeNCryptCount(d), t)
  <1> DEFINE u == Skip(d, 1)
             v == [u EXCEPT !.vencrypt = 3]
             w == [v EXCEPT !.subtypes = 1]
             w0 == [u EXCEPT !.vencrypt = 3, !.subtypes = 1]
             p == SubtypesPart(ok)
  <1>1. Head(d.wire) = CountPart /\ d.wire # <<>> /\ Part(d) = CountPart /\ Tail(d.wire) = <<p>>
    BY DEF Part
  <1>2. CountPart.len = 1 /\ CountPart.n = 1
    BY DEF CountPart
  <1>3. VeNCryptCount(d) = IF Short(d, 1) THEN d ELSE VeNCryptSubtypes(w)
    <2>1. VeNCryptCount(d) = IF Short(d, 1) THEN d ELSE VeNCryptSubtypes(w0)
      BY <1>1, <1>2 DEF VeNCryptCount
    <2>2. w0 = w
      OBVIOUS
    <2> QED BY <2>1, <2>2
  <1>4. Shaker(d) /\ ~d.tight /\ d.out = <<>> /\ d.init = "Authentication"
        /\ d.scheme = 19 /\ d.version = t.version
    BY DEF VeNCrypts, Auth
  <1>5. CASE Short(d, 1)
    <2>1. Talk(d, t)
      <3>1. \/ Heard(d, <<CountPart, SubtypesPart(TRUE)>>) /\ t.phase = "plain"
            \/ Heard(d, <<CountPart, SubtypesPart(FALSE)>>) /\ t.phase = "end"
        BY <1>4 DEF Heard
      <3> QED BY <1>4, <3>1 DEF Talk, TalkAuth, TalkVeNCrypt, VeNCrypts, Shaker
    <2> QED BY <1>1, <1>2, <1>3, <1>4, <1>5, <2>1, ReadAll
  <1>6. CASE ~Short(d, 1)
    <2>1. Now(d, u, <<p>>, <<>>, "Authentication", 19, d.tight, d.vencrypt)
      BY <1>1, <1>2, <1>4, <1>6, ReadAll
    <2> HIDE DEF u
    <2>2. Now(d, v, <<p>>, <<>>, "Authentication", 19, d.tight, 3)
      BY <1>4, <2>1, NowGoes
    <2> HIDE DEF v
    <2>3. Now(d, w, <<p>>, <<>>, "Authentication", 19, d.tight, 3) /\ w.subtypes = 1
      <3>1. Viewer(v)
        BY <2>2 DEF Now, Here, Shakes
      <3>2. /\ Shakes(v, w) /\ SameBytes(v, w) /\ w.out = v.out /\ w.version = v.version
            /\ w.init = v.init /\ w.scheme = v.scheme /\ w.tight = v.tight
            /\ w.vencrypt = v.vencrypt /\ w.askings = v.askings /\ w.subtypes = 1
        BY <3>1 DEF Shakes, SameBytes, SameSession, SameRequests, SameDecoder, Viewer
      <3> HIDE DEF w
      <3>3. Shakes(d, w) /\ Bytes(w) /\ w.at = 0 /\ w.wire = <<p>>
        BY <2>2, <3>2, ShakesOn, BytesOn DEF Now, Here
      <3> QED BY <2>2, <3>2, <3>3 DEF Now, Here
    <2> HIDE DEF w
    <2>4. Shaker(w) /\ Shakes(d, w)
      BY <1>4, <2>3, NowGoes
    <2>5. VeNCrypts(w, t) /\ w.vencrypt = 3 /\ w.wire = <<p>>
      BY <1>4, <2>3, <2>4 DEF VeNCrypts, Auth, Now, Here
    <2>6. Shook(w, VeNCryptSubtypes(w), t)
      BY <2>3, <2>5, SubtypesShook
    <2> QED BY <1>3, <1>6, <2>4, <2>6, ShookOn
  <1> QED BY <1>5, <1>6

(* The server takes the version or not.                                    *)
LEMMA AckShook ==
  ASSUME NEW d, NEW t, VeNCrypts(d, t), d.vencrypt = 1,
         \/ \E ok \in BOOLEAN : /\ d.wire = <<AckPart(TRUE), CountPart, SubtypesPart(ok)>>
                                /\ t.phase = IF ok THEN "plain" ELSE "end"
         \/ d.wire = <<AckPart(FALSE)>> /\ t.phase = "end"
  PROVE  Shook(d, VeNCryptAck(d), t)
  <1> DEFINE u == Skip(d, 1)
             v == [u EXCEPT !.vencrypt = 2]
  <1>1. d.wire # <<>> /\ Part(d) = Head(d.wire) /\ Head(d.wire).len = 1
    <2>1. d.wire # <<>> /\ Head(d.wire) \in {AckPart(TRUE), AckPart(FALSE)}
      <3>1. CASE d.wire = <<AckPart(FALSE)>>
        BY <3>1
      <3>2. ASSUME NEW ok \in BOOLEAN, d.wire = <<AckPart(TRUE), CountPart, SubtypesPart(ok)>>
            PROVE  d.wire # <<>> /\ Head(d.wire) = AckPart(TRUE)
        BY <3>2
      <3> QED BY <3>1, <3>2
    <2> QED BY <2>1 DEF Part, AckPart
  <1>2. VeNCryptAck(d) = CASE Short(d, 1) -> d
                           [] ~Short(d, 1) /\ ~Head(d.wire).ok -> Fail(u)
                           [] OTHER -> VeNCryptCount(v)
    BY <1>1 DEF VeNCryptAck
  <1>3. Shaker(d) /\ ~d.tight /\ d.out = <<>> /\ d.init = "Authentication"
        /\ d.scheme = 19 /\ d.version = t.version
    BY DEF VeNCrypts, Auth
  <1>4. CASE Short(d, 1)
    <2>1. Talk(d, t)
      <3>1. \/ Heard(d, <<AckPart(TRUE), CountPart, SubtypesPart(TRUE)>>) /\ t.phase = "plain"
            \/ Heard(d, <<AckPart(TRUE), CountPart, SubtypesPart(FALSE)>>) /\ t.phase = "end"
            \/ Heard(d, <<AckPart(FALSE)>>) /\ t.phase = "end"
        <4>1. ASSUME NEW ok \in BOOLEAN, d.wire = <<AckPart(TRUE), CountPart, SubtypesPart(ok)>>,
                     t.phase = IF ok THEN "plain" ELSE "end"
              PROVE  \/ Heard(d, <<AckPart(TRUE), CountPart, SubtypesPart(TRUE)>>) /\ t.phase = "plain"
                     \/ Heard(d, <<AckPart(TRUE), CountPart, SubtypesPart(FALSE)>>) /\ t.phase = "end"
          BY <1>3, <4>1 DEF Heard
        <4> QED BY <1>3, <4>1 DEF Heard
      <3> QED BY <1>3, <3>1 DEF Talk, TalkAuth, TalkVeNCrypt, VeNCrypts, Shaker
    <2> QED BY <1>1, <1>2, <1>3, <1>4, <2>1, ReadAll
  <1>5. CASE ~Short(d, 1)
    <2>1. Now(d, u, Tail(d.wire), <<>>, "Authentication", 19, d.tight, d.vencrypt)
      BY <1>1, <1>3, <1>5, ReadAll
    <2> HIDE DEF u
    <2>2. CASE d.wire = <<AckPart(FALSE)>>
      <3>1. ~Head(d.wire).ok
        BY <2>2 DEF AckPart
      <3> QED BY <1>2, <1>3, <1>5, <2>1, <3>1, NowShook
    <2>3. ASSUME NEW ok \in BOOLEAN, d.wire = <<AckPart(TRUE), CountPart, SubtypesPart(ok)>>,
                 t.phase = IF ok THEN "plain" ELSE "end"
          PROVE  Shook(d, VeNCryptAck(d), t)
      <3>1. Head(d.wire).ok /\ Tail(d.wire) = <<CountPart, SubtypesPart(ok)>>
        BY <2>3 DEF AckPart
      <3>2. Now(d, v, Tail(d.wire), <<>>, "Authentication", 19, d.tight, 2)
        BY <1>3, <2>1, NowGoes
      <3> HIDE DEF v
      <3>3. Shaker(v) /\ Shakes(d, v)
        BY <1>3, <3>2, NowGoes
      <3>4. VeNCrypts(v, t) /\ v.vencrypt = 2 /\ v.wire = <<CountPart, SubtypesPart(ok)>>
        BY <1>3, <3>1, <3>2, <3>3 DEF VeNCrypts, Auth, Now, Here
      <3>5. Shook(v, VeNCryptCount(v), t)
        BY <2>3, <3>4, CountShook
      <3> QED BY <1>2, <1>5, <3>1, <3>3, <3>5, ShookOn
    <2> QED BY <2>2, <2>3
  <1> QED BY <1>4, <1>5

(* VeNCrypt, wherever it is                                                *)
LEMMA VeNCryptShook ==
  ASSUME NEW d, NEW t, Auth(d, t), TalkVeNCrypt(d, t), d.wire # <<>>
  PROVE  Shook(d, NegotiateVeNCryptAuth(d), t)
  <1>1. Shaker(d) /\ ~d.tight /\ ~t.tight /\ d.init = "Authentication"
        /\ d.scheme = 19 /\ d.version = t.version
    BY DEF Auth, TalkVeNCrypt
  <1>2. d.out = <<>>
    BY DEF TalkVeNCrypt, Heard, Said
  <1>3. VeNCrypts(d, t)
    BY <1>1, <1>2 DEF VeNCrypts
  <1>4. Talk(d, t)
    BY <1>1 DEF Talk, TalkAuth, Auth, Shaker
  <1>5. CASE d.vencrypt = 0
    <2> DEFINE u == Skip(d, 2)
               v == [u EXCEPT !.vencrypt = 1]
               w == Say(v, <<"vencrypt">>)
    <2>1. PICK ok \in BOOLEAN :
             d.wire = <<VeVersionPart(ok)>> /\ t.phase = IF ok THEN "vencrypt" ELSE "end"
      <3>1. \/ Heard(d, <<VeVersionPart(TRUE)>>) /\ t.phase = "vencrypt"
            \/ Heard(d, <<VeVersionPart(FALSE)>>) /\ t.phase = "end"
        BY <1>5 DEF TalkVeNCrypt, Said
      <3> QED BY <3>1 DEF Heard
    <2>2. /\ Part(d) = Head(d.wire) /\ Head(d.wire).len = 2 /\ (Head(d.wire).ok <=> ok)
          /\ Tail(d.wire) = <<>>
      BY <2>1 DEF Part, VeVersionPart
    <2>3. NegotiateVeNCryptAuth(d) = CASE Short(d, 2) -> d
                                       [] ~Short(d, 2) /\ ~ok -> Fail(u)
                                       [] OTHER -> VeNCryptAck(w)
      BY <1>5, <2>2 DEF NegotiateVeNCryptAuth, VeNCryptVersion
    <2>4. CASE Short(d, 2)
      BY <1>1, <1>4, <2>2, <2>3, <2>4, ReadAll
    <2>5. CASE ~Short(d, 2)
      <3>1. Now(d, u, <<>>, <<>>, "Authentication", 19, d.tight, d.vencrypt)
        BY <1>1, <1>2, <2>2, <2>5, ReadAll
      <3> HIDE DEF u
      <3>2. CASE ~ok
        BY <1>1, <2>3, <2>5, <3>1, <3>2, NowShook
      <3>3. CASE ok
        <4>1. Now(d, v, <<>>, <<>>, "Authentication", 19, d.tight, 1)
          BY <1>1, <3>1, NowGoes
        <4> HIDE DEF v
        <4>2. Now(d, w, <<>>, Append(<<>>, <<"vencrypt">>), "Authentication", 19, d.tight, 1)
          BY <1>1, <4>1, NowGoes
        <4> HIDE DEF w
        <4>3. VeNCryptAck(w) = w
          <5>1. w.avail = 0
            BY <4>2, NoBytes DEF Now, Here
          <5> QED BY <5>1 DEF VeNCryptAck, Short
        <4>4. Append(<<>>, <<"vencrypt">>) = <<<<"vencrypt">>>>
          OBVIOUS
        <4>5. Talk(w, t)
          BY <1>1, <2>1, <3>3, <4>2, <4>4 DEF Talk, TalkAuth, TalkVeNCrypt, Now, Here, Said
        <4> QED BY <1>1, <2>3, <2>5, <3>3, <4>2, <4>3, <4>5, NowShook
      <3> QED BY <3>2, <3>3
    <2> QED BY <2>4, <2>5
  <1>6. CASE d.vencrypt = 1
    <2>1. \/ \E ok \in BOOLEAN : /\ d.wire = <<AckPart(TRUE), CountPart, SubtypesPart(ok)>>
                                 /\ t.phase = IF ok THEN "plain" ELSE "end"
          \/ d.wire = <<AckPart(FALSE)>> /\ t.phase = "end"
      <3>1. \/ Heard(d, <<AckPart(TRUE), CountPart, SubtypesPart(TRUE)>>) /\ t.phase = "plain"
            \/ Heard(d, <<AckPart(TRUE), CountPart, SubtypesPart(FALSE)>>) /\ t.phase = "end"
            \/ Heard(d, <<AckPart(FALSE)>>) /\ t.phase = "end"
        BY <1>6 DEF TalkVeNCrypt, Said
      <3>2. ASSUME NEW ok \in BOOLEAN, Heard(d, <<AckPart(TRUE), CountPart, SubtypesPart(ok)>>),
                   t.phase = IF ok THEN "plain" ELSE "end"
            PROVE  \E x \in BOOLEAN : /\ d.wire = <<AckPart(TRUE), CountPart, SubtypesPart(x)>>
                                      /\ t.phase = IF x THEN "plain" ELSE "end"
        BY <3>2 DEF Heard
      <3>3. CASE Heard(d, <<AckPart(TRUE), CountPart, SubtypesPart(TRUE)>>) /\ t.phase = "plain"
        BY <3>2, <3>3
      <3>4. CASE Heard(d, <<AckPart(TRUE), CountPart, SubtypesPart(FALSE)>>) /\ t.phase = "end"
        BY <3>2, <3>4
      <3>5. CASE Heard(d, <<AckPart(FALSE)>>) /\ t.phase = "end"
        BY <3>5 DEF Heard
      <3> QED BY <3>1, <3>3, <3>4, <3>5
    <2>2. NegotiateVeNCryptAuth(d) = VeNCryptAck(d)
      BY <1>6 DEF NegotiateVeNCryptAuth
    <2>3. Shook(d, VeNCryptAck(d), t)
      BY <1>3, <1>6, <2>1, AckShook, Zenon
    <2> QED BY <2>2, <2>3
  <1>7. CASE d.vencrypt = 2
    <2>1. PICK ok \in BOOLEAN : /\ d.wire = <<CountPart, SubtypesPart(ok)>>
                                /\ t.phase = IF ok THEN "plain" ELSE "end"
      <3>1. \/ Heard(d, <<CountPart, SubtypesPart(TRUE)>>) /\ t.phase = "plain"
            \/ Heard(d, <<CountPart, SubtypesPart(FALSE)>>) /\ t.phase = "end"
        BY <1>7 DEF TalkVeNCrypt
      <3> QED BY <3>1 DEF Heard
    <2> QED BY <1>3, <1>7, <2>1, CountShook DEF NegotiateVeNCryptAuth
  <1>8. CASE d.vencrypt = 3
    <2>1. PICK ok \in BOOLEAN : /\ d.wire = <<SubtypesPart(ok)>> /\ d.subtypes = 1
                                /\ t.phase = IF ok THEN "plain" ELSE "end"
      <3>1. \/ Heard(d, <<SubtypesPart(TRUE)>>) /\ t.phase = "plain" /\ d.subtypes = 1
            \/ Heard(d, <<SubtypesPart(FALSE)>>) /\ t.phase = "end" /\ d.subtypes = 1
        BY <1>8 DEF TalkVeNCrypt
      <3> QED BY <3>1 DEF Heard
    <2> QED BY <1>3, <1>8, <2>1, SubtypesShook DEF NegotiateVeNCryptAuth
  <1> QED BY <1>5, <1>6, <1>7, <1>8 DEF TalkVeNCrypt

-----------------------------------------------------------------------------
(* Tight                                                                   *)

(* The length of a list tells whether there is anything on it.             *)
LEMMA Lengths ==
  /\ Cardinality({}) = 0
  /\ \A T \in TypeLists \cup SubAuths : T # {} => Cardinality(T) \in Nat /\ Cardinality(T) > 0
  <1>1. ASSUME NEW T \in TypeLists \cup SubAuths, T # {}
        PROVE  Cardinality(T) \in Nat /\ Cardinality(T) > 0
    <2>1. IsFiniteSet(T)
      BY ServersAssumption
    <2>2. Cardinality(T) \in Nat /\ Cardinality(T) # 0
      BY <1>1, <2>1, FS_CardinalityType, FS_EmptySet
    <2> QED BY <2>2
  <1> QED BY <1>1, FS_EmptySet

(* A part may be read in two goes: its first bytes say how many follow.    *)
LEMMA ReadBoth ==
  ASSUME NEW d, NEW t, Shaker(d), d.wire # <<>>, NEW n \in Nat, NEW k \in Nat,
         Head(d.wire).len = n + k
  PROVE  /\ Talk(d, t) /\ Short(d, n) => Shook(d, d, t)
         /\ Talk(d, t) /\ Short(d, n + k) /\ k > 0 => Shook(d, Back(Skip(d, n), n), t)
         /\ Talk(d, t) /\ Short(Skip(d, n), k) /\ k > 0 => Shook(d, Back(Skip(d, n), n), t)
         /\ ~Short(d, n + k) => Now(d, Skip(Skip(d, n), k), Tail(d.wire), d.out, d.init,
                                    d.scheme, d.tight, d.vencrypt)
         /\ ~Short(d, n) /\ ~Short(Skip(d, n), k) => ~Short(d, n + k)
  <1> DEFINE u == Skip(d, n)
             v == Skip(u, k)
  <1>1. Viewer(d) /\ Bytes(d) /\ d.at = 0 /\ d.avail \in Nat
    BY DEF Shaker, Bytes
  <1>2. Took(d, u, n) /\ Took(d, v, n + k)
    BY <1>1, PartSkips
  <1> HIDE DEF u, v
  <1>3. u.avail = d.avail - n
    BY <1>2 DEF Took, Reaches
  <1>4. Short(u, k) <=> Short(d, n + k)
    BY <1>1, <1>3 DEF Short
  <1>5. Short(d, n) => Short(d, n + k)
    BY <1>1 DEF Short
  <1>6. Short(d, n + k) => Waits(d)
    BY DEF Short, Waits
  <1>7. Talk(d, t) /\ Short(d, n + k) => Shook(d, d, t) /\ (k > 0 => Shook(d, Back(u, n), t))
    BY <1>2, <1>6, WaitsShook
  <1>8. ~Short(d, n + k) => Now(d, v, Tail(d.wire), d.out, d.init, d.scheme, d.tight, d.vencrypt)
    <2>1. ~Short(d, n + k) => Head(d.wire).len <= d.avail
      BY <1>1 DEF Short
    <2>2. Took(d, v, Head(d.wire).len)
      BY <1>2
    <2> QED BY <2>1, <2>2, NowRead
  <1> QED BY <1>4, <1>5, <1>7, <1>8 DEF u, v

(* The scheme may change on the way.                                       *)
LEMMA SchemeGoes ==
  ASSUME NEW a, Shaker(a), NEW b, NEW w, NEW o, NEW i, NEW n, NEW h, NEW k, NEW x,
         Now(a, b, w, o, i, n, h, k)
  PROVE  Now(a, [b EXCEPT !.scheme = x], w, o, i, x, h, k)
  BY NowGoes, Zenon

(* What is on the wire of a viewer that negotiates authentication in Tight *)
Tights(d, t) ==
    Auth(d, t) /\ d.scheme = 16 /\ d.tight = TRUE /\ t.tight /\ d.out = <<>> /\ d.vencrypt = 0

(* The server offers no authentication: its result follows.                *)
LEMMA NoSubAuthShook ==
  ASSUME NEW d, NEW t, Tights(d, t), d.wire # <<>>, Head(d.wire) = SubAuthsPart({}),
         \/ t.phase = "result" /\ Tail(d.wire) = <<>>
         \/ Verdict(Tail(d.wire), t)
  PROVE  Shook(d, NegotiateTightSubAuth(d), t)
  <1> DEFINE u == Skip(d, 4)
             e == [u EXCEPT !.init = "SecurityResult"]
  <1>1. Part(d) = SubAuthsPart({}) /\ Part(d).n = 0 /\ Head(d.wire).len = 4
    BY Lengths DEF Part, SubAuthsPart
  <1>2. NegotiateTightSubAuth(d) = IF Short(d, 4) THEN d ELSE e
    BY <1>1 DEF NegotiateTightSubAuth
  <1>3. Shaker(d) /\ d.init = "Authentication" /\ d.scheme = 16 /\ d.version = t.version
        /\ d.tight = TRUE /\ t.tight /\ d.vencrypt = 0 /\ d.out = <<>>
    BY DEF Tights, Auth
  <1>4. CASE Short(d, 4)
    <2>1. AfterTunnels(d.wire, t)
      <3>1. CASE t.phase = "result" /\ Tail(d.wire) = <<>>
        <4>1. d.wire = <<SubAuthsPart({})>>
          <5>1. PICK S : d.wire \in Seq(S)
            BY <1>3 DEF Shaker, Bytes, Whole
          <5> QED BY <3>1, <5>1
        <4> QED BY <3>1, <4>1 DEF AfterTunnels
      <3>2. CASE Verdict(Tail(d.wire), t)
        BY <3>2 DEF AfterTunnels
      <3> QED BY <3>1, <3>2
    <2>2. Talk(d, t)
      BY <1>3, <2>1 DEF Talk, TalkAuth, TalkTight, Shaker
    <2> QED BY <1>1, <1>2, <1>3, <1>4, <2>2, ReadAll
  <1>5. CASE ~Short(d, 4)
    <2>1. Now(d, u, Tail(d.wire), <<>>, "Authentication", 16, TRUE, 0)
      BY <1>1, <1>3, <1>5, ReadAll
    <2> HIDE DEF u
    <2>2. Now(d, e, Tail(d.wire), <<>>, "SecurityResult", 16, TRUE, 0)
      BY <1>3, <2>1, NowGoes
    <2> HIDE DEF e
    <2>3. Talk(e, t)
      BY <1>3, <2>2 DEF Talk, TalkResult, Now, Here, Said
    <2>4. Waits(e)
      <3>1. CASE Tail(d.wire) = <<>>
        BY <2>2, <3>1 DEF Waits, Now, Here
      <3>2. CASE Verdict(Tail(d.wire), t)
        <4>1. e.wire # <<>> /\ Head(e.wire).len = 4
          <5>1. \/ e.wire = <<ResultPart(TRUE)>> \/ e.wire = <<ResultPart(FALSE)>>
                \/ e.wire = <<ResultPart(FALSE), Reason>>
            BY <2>2, <3>2 DEF Verdict, Now, Here
          <5> DEFINE yes == ResultPart(TRUE)
                     no == ResultPart(FALSE)
          <5>2. yes.len = 4 /\ no.len = 4
            BY DEF ResultPart
          <5> HIDE DEF yes, no
          <5>3. CASE e.wire = <<yes>>
            BY <5>2, <5>3
          <5>4. CASE e.wire = <<no>>
            BY <5>2, <5>4
          <5>5. CASE e.wire = <<no, Reason>>
            BY <5>2, <5>5
          <5> QED BY <5>1, <5>3, <5>4, <5>5 DEF yes, no
        <4>2. e.avail \in Nat /\ e.scheme = 16 /\ e.init = "SecurityResult"
          BY <2>2 DEF Now, Here, Bytes
        <4> QED BY <4>1, <4>2 DEF Waits
      <3> QED BY <3>1, <3>2
    <2> QED BY <1>2, <1>3, <1>5, <2>2, <2>3, <2>4, NowShook
  <1> QED BY <1>4, <1>5

(* It offers some: the viewer takes none, a password or a login, or fails. *)
LEMMA SomeSubAuthShook ==
  ASSUME NEW d, NEW t, Tights(d, t), NEW T \in SubAuths, T # {}, d.wire = <<SubAuthsPart(T)>>,
         t.phase = "subauth"
  PROVE  Shook(d, NegotiateTightSubAuth(d), t)
  <1> DEFINE n == Cardinality(T)
             k == 16 * n
             u == Skip(d, 4)
             v == Skip(u, k)
             w(x) == Say(v, <<"subauth", x>>)
             o(x) == <<<<"subauth", x>>>>
             e1 == [w(1) EXCEPT !.init = "SecurityResult"]
             e2 == [w(2) EXCEPT !.scheme = 2]
             e129 == [w(129) EXCEPT !.scheme = 129]
             H == NegotiateTightSubAuth(d)
  <1>1. n \in Nat /\ n > 0
    BY Lengths
  <1> HIDE DEF n
  <1>2. /\ Part(d) = SubAuthsPart(T) /\ Part(d).n = n /\ Part(d).types = T
        /\ Head(d.wire).len = 4 + k /\ d.wire # <<>> /\ Tail(d.wire) = <<>>
    BY DEF Part, SubAuthsPart, n
  <1>3. H = CASE Short(d, 4) -> d
              [] ~Short(d, 4) /\ Short(d, 4 + k) -> Back(u, 4)
              [] OTHER -> CASE 1 \in T -> e1
                            [] 1 \notin T /\ 2 \in T -> NegotiateStdVNCAuth(e2)
                            [] T \cap {1, 2, 129} = {129} -> NegotiateTightUnixAuth(e129)
                            [] OTHER -> Fail(v)
    BY <1>1, <1>2 DEF NegotiateTightSubAuth
  <1> HIDE DEF H
  <1>4. Shaker(d) /\ d.init = "Authentication" /\ d.scheme = 16 /\ d.version = t.version
        /\ d.tight = TRUE /\ t.tight /\ d.vencrypt = 0 /\ d.out = <<>>
    BY DEF Tights, Auth
  <1>5. Talk(d, t)
    <2>1. AfterTunnels(d.wire, t)
      BY DEF AfterTunnels
    <2> QED BY <1>4, <2>1 DEF Talk, TalkAuth, TalkTight, Shaker
  <1>6. k \in Nat /\ k > 0
    BY <1>1
  <1> HIDE DEF k
  <1>7. CASE Short(d, 4)
    <2>1. Shook(d, d, t)
      BY <1>2, <1>4, <1>5, <1>6, <1>7, ReadBoth
    <2> QED BY <1>3, <1>7, <2>1 DEF H
  <1>8. CASE ~Short(d, 4) /\ Short(d, 4 + k)
    <2>1. Shook(d, Back(u, 4), t)
      BY <1>2, <1>4, <1>5, <1>6, <1>8, ReadBoth
    <2> QED BY <1>3, <1>8, <2>1 DEF H
  <1>9. CASE ~Short(d, 4) /\ ~Short(d, 4 + k)
    <2>1. Now(d, v, <<>>, <<>>, "Authentication", 16, TRUE, 0)
      BY <1>2, <1>4, <1>6, <1>9, ReadBoth
    <2> HIDE DEF u, v
    <2>2. Now(d, w(1), <<>>, o(1), "Authentication", 16, TRUE, 0)
          /\ Now(d, w(2), <<>>, o(2), "Authentication", 16, TRUE, 0)
          /\ Now(d, w(129), <<>>, o(129), "Authentication", 16, TRUE, 0)
      <3>1. \A m : Append(<<>>, m) = <<m>>
        BY Appends
      <3>2. \A x : Now(d, w(x), <<>>, Append(<<>>, <<"subauth", x>>), "Authentication", 16, TRUE, 0)
        BY <1>4, <2>1, NowGoes
      <3> HIDE DEF w
      <3> QED BY <3>1, <3>2
    <2> HIDE DEF w
    <2>3. CASE 1 \in T
      <3>1. Now(d, e1, <<>>, o(1), "SecurityResult", 16, TRUE, 0)
        BY <1>4, <2>2, NowGoes
      <3>2. H = e1
        BY <1>3, <1>9, <2>3
      <3> HIDE DEF e1
      <3>3. Talk(e1, t)
        BY <1>4, <3>1 DEF Talk, TalkResult, Now, Here, Said
      <3>4. Shook(d, e1, t)
        BY <1>4, <3>1, <3>3, NowShook
      <3> QED BY <3>2, <3>4 DEF H
    <2>4. CASE 1 \notin T /\ 2 \in T
      <3>1. Now(d, e2, <<>>, o(2), "Authentication", 2, TRUE, 0)
        BY <1>4, <2>2, NowGoes
      <3>2. H = NegotiateStdVNCAuth(e2)
        BY <1>3, <1>9, <2>4
      <3> HIDE DEF e2
      <3>3. Shaker(e2) /\ Shakes(d, e2)
        BY <1>4, <3>1, NowGoes
      <3>4. Auth(e2, t) /\ TalkPassword(e2, t)
        BY <1>4, <3>1, <3>3 DEF Auth, TalkPassword, Now, Here, Said
      <3>5. Shook(e2, NegotiateStdVNCAuth(e2), t)
        BY <3>4, PasswordShook
      <3>6. Shook(d, NegotiateStdVNCAuth(e2), t)
        BY <3>3, <3>5, ShookOn
      <3> QED BY <3>2, <3>6 DEF H
    <2>5. CASE T \cap {1, 2, 129} = {129}
      <3>1. Now(d, e129, <<>>, o(129), "Authentication", 129, TRUE, 0)
        <4> DEFINE f == w(129)
                   m == o(129)
        <4>1. Now(d, f, <<>>, m, "Authentication", 16, TRUE, 0)
          BY <2>2
        <4> HIDE DEF f, m
        <4>2. Now(d, [f EXCEPT !.scheme = 129], <<>>, m, "Authentication", 129, TRUE, 0)
          BY <1>4, <4>1, SchemeGoes, SMTT(20), ZenonT(40)
        <4> QED BY <4>2 DEF f, m
      <3>2. H = NegotiateTightUnixAuth(e129)
        <4>1. 1 \notin T /\ 2 \notin T
          BY <2>5
        <4> QED BY <1>3, <1>9, <2>5, <4>1
      <3> HIDE DEF e129
      <3>3. Shaker(e129) /\ Shakes(d, e129)
        BY <1>4, <3>1, NowGoes
      <3>4. Auth(e129, t) /\ e129.scheme = 129 /\ (e129.tight <=> t.tight)
            /\ Said(e129, <<<<"subauth", 129>>>>)
        BY <1>4, <3>1, <3>3 DEF Auth, Now, Here, Said
      <3>5. Shook(e129, NegotiateTightUnixAuth(e129), t)
        BY <3>4, LoginShook
      <3>6. Shook(d, NegotiateTightUnixAuth(e129), t)
        BY <3>3, <3>5, ShookOn
      <3> QED BY <3>2, <3>6 DEF H
    <2>6. CASE 1 \notin T /\ 2 \notin T /\ T \cap {1, 2, 129} # {129}
      <3>1. H = Fail(v)
        BY <1>3, <1>9, <2>6
      <3>2. Shook(d, Fail(v), t)
        BY <1>4, <2>1, NowShook
      <3> QED BY <3>1, <3>2 DEF H
    <2> QED BY <2>3, <2>4, <2>5, <2>6
  <1> QED BY <1>7, <1>8, <1>9

(* Whatever it offers                                                      *)
LEMMA SubAuthShook ==
  ASSUME NEW d, NEW t, Tights(d, t), AfterTunnels(d.wire, t)
  PROVE  Shook(d, NegotiateTightSubAuth(d), t)
  <1>1. CASE d.wire = <<>>
    <2>1. Shaker(d)
      BY DEF Tights, Auth
    <2>2. Talk(d, t)
      BY <2>1 DEF Talk, TalkAuth, TalkTight, Tights, Auth, Shaker
    <2>3. NegotiateTightSubAuth(d) = d
      <3>1. d.avail = 0
        BY <1>1, <2>1, NoBytes DEF Shaker
      <3> QED BY <3>1 DEF NegotiateTightSubAuth, Short
    <2> QED BY <1>1, <2>1, <2>2, <2>3, WaitsShook DEF Waits
  <1>2. ASSUME NEW T \in SubAuths, T # {}, t.phase = "subauth", d.wire = <<SubAuthsPart(T)>>
        PROVE  Shook(d, NegotiateTightSubAuth(d), t)
    BY <1>2, SomeSubAuthShook
  <1>3. CASE t.phase = "result" /\ d.wire = <<SubAuthsPart({})>>
    <2>1. d.wire # <<>> /\ Head(d.wire) = SubAuthsPart({}) /\ Tail(d.wire) = <<>>
      BY <1>3
    <2> QED BY <1>3, <2>1, NoSubAuthShook
  <1>4. CASE d.wire # <<>> /\ Head(d.wire) = SubAuthsPart({}) /\ Verdict(Tail(d.wire), t)
    BY <1>4, NoSubAuthShook
  <1> QED BY <1>1, <1>2, <1>3, <1>4 DEF AfterTunnels

(* A list of one tunnel is read in two goes, in Tight.                     *)
LEMMA TunnelRead ==
  ASSUME NEW d, Shaker(d), d.wire # <<>>, Head(d.wire).len = 20, ~Short(d, 20)
  PROVE  Now(d, Skip([Skip(d, 4) EXCEPT !.tight = TRUE], 16), Tail(d.wire), d.out, d.init,
             d.scheme, TRUE, d.vencrypt)
  <1> DEFINE u == Skip(d, 4)
             v == [u EXCEPT !.tight = TRUE]
             e == Skip(v, 16)
  <1>1. Viewer(d) /\ Bytes(d) /\ d.at = 0 /\ d.avail \in Nat /\ d.avail >= 20 /\ d.askings = 0
    BY DEF Shaker, Bytes, Short
  <1>2. PartLeft(d) = 20
    BY <1>1 DEF PartLeft
  <1>3. Took(d, u, 4)
    BY <1>1, <1>2, SkipIs DEF Bytes
  <1> HIDE DEF u
  <1>4. /\ u.wire = d.wire /\ u.at = 4 /\ u.avail = d.avail - 4 /\ Viewer(u) /\ SameElse(d, u)
    BY <1>1, <1>2, <1>3 DEF Took, Reaches, SameElse
  <1>5. Bytes(u)
    BY <1>1, <1>2, <1>3, ReachesBytes DEF Took
  <1>6. TightNow(u, v) /\ v.tight = TRUE
    BY <1>4, Agrees DEF Viewer
  <1> HIDE DEF v
  <1>7. Viewer(v) /\ Bytes(v) /\ v.wire = d.wire /\ v.at = 4 /\ v.avail = d.avail - 4
    BY <1>4, <1>5, <1>6, BytesOn DEF TightNow, Keeps, Shakes
  <1>8. PartLeft(v) = 16
    BY <1>7 DEF PartLeft
  <1>9. Took(v, e, 16)
    BY <1>7, <1>8, SkipIs DEF Bytes
  <1> HIDE DEF e
  <1>10. Bytes(e)
    BY <1>1, <1>7, <1>8, <1>9, ReachesBytes DEF Took
  <1>11. e.wire = Tail(d.wire) /\ e.at = 0
    BY <1>7, <1>8, <1>9 DEF Took, Reaches
  <1>12. Shakes(d, u) /\ Shakes(u, v) /\ Shakes(v, e)
    BY <1>4, <1>6, <1>9 DEF Took, SameElse, Shakes, TightNow, Keeps
  <1>13. Shakes(d, e)
    BY <1>12, ShakesOn
  <1>14. /\ e.out = d.out /\ e.version = d.version /\ e.init = d.init /\ e.scheme = d.scheme
         /\ e.tight = TRUE /\ e.vencrypt = d.vencrypt /\ e.askings = 0
    BY <1>1, <1>4, <1>6, <1>9 DEF Took, SameElse, SameTalk, TightNow, Keeps
  <1> QED BY <1>10, <1>11, <1>13, <1>14 DEF Now, Here, e, v, u

(* Tunnels: the server offers one or none; the viewer takes it if it is no *)
(* tunnel.                                                                 *)
LEMMA TunnelsShook ==
  ASSUME NEW d, NEW t, Auth(d, t), d.scheme = 16, ~d.tight, t.tight, NEW ok \in BOOLEAN,
         d.out = <<>>, d.wire = <<TunnelsPart(1, ok)>>, t.phase = IF ok THEN "notunnel" ELSE "end"
  PROVE  Shook(d, NegotiateTightAuth(d), t)
  <1> DEFINE u == Skip(d, 4)
             v == [u EXCEPT !.tight = TRUE]
             e == Skip(v, 16)
             w == Say(e, <<"notunnel">>)
             p == TunnelsPart(1, ok)
             H == NegotiateTightAuth(d)
  <1>1. p.n = 1 /\ p.len = 20 /\ (p.notunnel <=> ok)
    BY DEF TunnelsPart
  <1> HIDE DEF p
  <1>2. Part(d) = p /\ Head(d.wire).len = 20 /\ d.wire # <<>> /\ Tail(d.wire) = <<>>
    BY <1>1 DEF Part, p
  <1>3. H = CASE Short(d, 4) -> d
              [] ~Short(d, 4) /\ Short(d, 20) -> Back(u, 4)
              [] ~Short(d, 4) /\ ~Short(d, 20) /\ ok -> w
              [] OTHER -> Fail(e)
    <2>1. H = CASE Short(d, 4) -> d
                [] ~Short(d, 4) /\ Short(d, 20) -> Back(u, 4)
                [] OTHER -> NegotiateTightTunnels(v, p)
      BY <1>1, <1>2 DEF NegotiateTightAuth
    <2>2. NegotiateTightTunnels(v, p) = IF ok THEN w ELSE Fail(e)
      BY <1>1 DEF NegotiateTightTunnels
    <2> HIDE DEF H, w, e, v
    <2> QED BY <2>1, <2>2
  <1> HIDE DEF H
  <1>4. Shaker(d) /\ d.init = "Authentication" /\ d.version = t.version /\ d.vencrypt = 0
    BY DEF Auth
  <1>5. Talk(d, t)
    <2>1. \/ t.phase = "notunnel" /\ t.tight /\ Heard(d, <<TunnelsPart(1, TRUE)>>)
          \/ t.phase = "end" /\ t.tight /\ Heard(d, <<TunnelsPart(1, FALSE)>>)
      BY DEF Heard
    <2> QED BY <1>4, <2>1 DEF Talk, TalkAuth, TalkTight, Shaker
  <1>6. Head(d.wire).len = 4 + 16 /\ 4 + 16 = 20
    BY <1>2
  <1>7. CASE Short(d, 4)
    <2>1. Shook(d, d, t)
      BY <1>2, <1>4, <1>5, <1>6, <1>7, ReadBoth
    <2> QED BY <1>3, <1>7, <2>1 DEF H
  <1>8. CASE ~Short(d, 4) /\ Short(d, 20)
    <2>1. Shook(d, Back(u, 4), t)
      <3> DEFINE k == 16
      <3>1. Short(d, 4 + k) /\ Head(d.wire).len = 4 + k /\ k \in Nat /\ k > 0
        BY <1>6, <1>8
      <3> HIDE DEF k
      <3> QED BY <1>2, <1>4, <1>5, <3>1, ReadBoth
    <2> QED BY <1>3, <1>8, <2>1 DEF H
  <1>9. CASE ~Short(d, 4) /\ ~Short(d, 20)
    <2>1. Now(d, e, <<>>, <<>>, "Authentication", 16, TRUE, 0)
      BY <1>2, <1>4, <1>9, TunnelRead
    <2> HIDE DEF e
    <2>2. CASE ok
      <3>1. Now(d, w, <<>>, Append(<<>>, <<"notunnel">>), "Authentication", 16, TRUE, 0)
        BY <1>4, <2>1, NowGoes
      <3> HIDE DEF w
      <3>2. Append(<<>>, <<"notunnel">>) = <<<<"notunnel">>>>
        OBVIOUS
      <3>3. Talk(w, t)
        BY <1>4, <2>2, <3>1, <3>2 DEF Talk, TalkAuth, TalkTight, Now, Here, Said
      <3>4. Shook(d, w, t)
        BY <1>4, <3>1, <3>3, NowShook
      <3> QED BY <1>3, <1>9, <2>2, <3>4 DEF H
    <2>3. CASE ~ok
      <3>1. Shook(d, Fail(e), t)
        BY <1>4, <2>1, NowShook
      <3> QED BY <1>3, <1>9, <2>3, <3>1 DEF H
    <2> QED BY <2>2, <2>3
  <1> QED BY <1>7, <1>8, <1>9

(* Tight, wherever it is                                                   *)
LEMMA TightShook ==
  ASSUME NEW d, NEW t, Auth(d, t), TalkTight(d, t)
  PROVE  Shook(d, NegotiateTightAuth(d), t)
  <1>1. Shaker(d) /\ d.scheme = 16 /\ d.init = "Authentication" /\ d.version = t.version
        /\ d.vencrypt = 0
    BY DEF Auth, TalkTight
  <1>2. Talk(d, t)
    BY <1>1 DEF Talk, TalkAuth, Shaker
  <1>3. CASE d.wire = <<>>
    <2>1. Short(d, 4)
      BY <1>1, <1>3, NoBytes DEF Shaker, Short
    <2>2. NegotiateTightAuth(d) = d
      <3>1. CASE d.tight
        BY <2>1, <3>1 DEF NegotiateTightAuth, NegotiateTightSubAuth
      <3>2. CASE ~d.tight
        BY <2>1, <3>2 DEF NegotiateTightAuth
      <3> QED BY <3>1, <3>2
    <2> QED BY <1>1, <1>2, <1>3, <2>2, WaitsShook DEF Waits
  <1>4. CASE ~d.tight /\ t.tight /\ t.phase = "notunnel" /\ Heard(d, <<TunnelsPart(1, TRUE)>>)
    BY <1>1, <1>4, TunnelsShook DEF Heard
  <1>5. CASE ~d.tight /\ t.tight /\ t.phase = "end" /\ Heard(d, <<TunnelsPart(1, FALSE)>>)
    BY <1>1, <1>5, TunnelsShook DEF Heard
  <1>6. CASE /\ ~d.tight /\ t.tight /\ d.wire # <<>> /\ Head(d.wire) = TunnelsPart(0, TRUE)
             /\ d.out = <<>> /\ AfterTunnels(Tail(d.wire), t)
    <2> DEFINE u == Skip(d, 4)
               v == [u EXCEPT !.tight = TRUE]
               H == NegotiateTightAuth(d)
    <2>1. Part(d).n = 0 /\ Head(d.wire).len = 4
      BY <1>6 DEF Part, TunnelsPart
    <2>2. H = IF Short(d, 4) THEN d ELSE NegotiateTightSubAuth(v)
      BY <1>6, <2>1 DEF NegotiateTightAuth
    <2> HIDE DEF H
    <2>3. CASE Short(d, 4)
      <3>1. Shook(d, d, t)
        BY <1>1, <1>2, <1>6, <2>1, <2>3, ReadAll
      <3> QED BY <2>2, <2>3, <3>1 DEF H
    <2>4. CASE ~Short(d, 4)
      <3>1. Now(d, u, Tail(d.wire), <<>>, "Authentication", 16, d.tight, 0)
        BY <1>1, <1>6, <2>1, <2>4, ReadAll
      <3> HIDE DEF u
      <3>2. Now(d, v, Tail(d.wire), <<>>, "Authentication", 16, TRUE, 0)
        BY <1>1, <3>1, NowGoes
      <3> HIDE DEF v
      <3>3. Shaker(v) /\ Shakes(d, v)
        BY <1>1, <3>2, NowGoes
      <3>4. Tights(v, t) /\ AfterTunnels(v.wire, t)
        BY <1>1, <1>6, <3>2, <3>3 DEF Tights, Auth, Now, Here
      <3>5. Shook(v, NegotiateTightSubAuth(v), t)
        BY <3>4, SubAuthShook
      <3>6. Shook(d, NegotiateTightSubAuth(v), t)
        BY <3>3, <3>5, ShookOn
      <3> QED BY <2>2, <2>4, <3>6 DEF H
    <2> QED BY <2>3, <2>4
  <1>7. CASE d.tight /\ t.tight /\ AfterTunnels(d.wire, t) /\ d.out = <<>>
    <2>1. d.tight = TRUE
      BY <1>1, <1>7 DEF Shaker, Viewer
    <2>2. Tights(d, t)
      BY <1>1, <1>7, <2>1 DEF Tights
    <2>3. NegotiateTightAuth(d) = NegotiateTightSubAuth(d)
      BY <1>7 DEF NegotiateTightAuth
    <2> QED BY <1>7, <2>2, <2>3, SubAuthShook
  <1>8. \A m : Said(d, m) => d.wire = <<>>
    BY DEF Said
  <1> QED BY <1>3, <1>4, <1>5, <1>6, <1>7, <1>8, Zenon DEF TalkTight

-----------------------------------------------------------------------------
(* Authentication by any scheme that needs the server's messages           *)
LEMMA AuthShook ==
  ASSUME NEW d, NEW t, Auth(d, t), TalkPassword(d, t) \/ TalkTight(d, t) \/ TalkVeNCrypt(d, t)
  PROVE  Shook(d, NegotiateAuthentication(d), t)
  <1>1. CASE TalkPassword(d, t)
    <2>1. NegotiateAuthentication(d) = NegotiateStdVNCAuth(d)
      BY <1>1 DEF TalkPassword, NegotiateAuthentication
    <2> QED BY <1>1, <2>1, PasswordShook
  <1>2. CASE TalkTight(d, t)
    <2>1. NegotiateAuthentication(d) = NegotiateTightAuth(d)
      BY <1>2 DEF TalkTight, NegotiateAuthentication
    <2> QED BY <1>2, <2>1, TightShook
  <1>3. CASE TalkVeNCrypt(d, t)
    <2>1. NegotiateAuthentication(d) = NegotiateVeNCryptAuth(d)
      BY <1>3 DEF TalkVeNCrypt, NegotiateAuthentication
    <2>2. CASE d.wire # <<>>
      BY <1>3, <2>1, <2>2, VeNCryptShook
    <2>3. CASE d.wire = <<>>
      <3>1. Shaker(d) /\ Talk(d, t)
        BY <1>3 DEF Auth, Talk, TalkAuth, Shaker
      <3>2. Short(d, 1) /\ Short(d, 2)
        BY <2>3, <3>1, NoBytes DEF Shaker, Short
      <3>3. d.vencrypt \in {0, 1}
        BY <1>3, <2>3 DEF TalkVeNCrypt, Heard
      <3>4. NegotiateVeNCryptAuth(d) = d
        BY <3>2, <3>3 DEF NegotiateVeNCryptAuth, VeNCryptVersion, VeNCryptAck
      <3> QED BY <2>1, <2>3, <3>1, <3>4, WaitsShook DEF Waits
    <2> QED BY <2>2, <2>3
  <1> QED BY <1>1, <1>2, <1>3

(* The viewer announces itself.                                            *)
LEMMA InitShook ==
  ASSUME NEW a, Shaker(a), NEW b, NEW t, NEW w, NEW o, NEW n, NEW h, NEW k, NEW i,
         Now(a, b, <<>>, o, i, n, h, k), h <=> t.tight,
         \/ o = <<>> /\ t.phase = "init"
         \/ o = <<<<"choice", 1>>>> /\ t.phase = "choice" /\ t.version < 38
  PROVE  Shook(a, ClientInitialisation(b), t)
  <1> DEFINE v == [b EXCEPT !.init = "ServerInitialisation"]
             e == Say(v, <<"init">>)
             m == Append(o, <<"init">>)
  <1>1. ClientInitialisation(b) = e
    BY DEF ClientInitialisation
  <1>2. Now(a, v, <<>>, o, "ServerInitialisation", n, h, k)
    BY NowGoes
  <1> HIDE DEF v
  <1>3. Now(a, e, <<>>, m, "ServerInitialisation", n, h, k)
    BY <1>2, NowGoes
  <1> HIDE DEF e
  <1>4. \/ m = <<<<"init">>>> /\ t.phase = "init"
        \/ m = <<<<"choice", 1>>, <<"init">>>> /\ t.phase = "choice" /\ t.version < 38
    <2>1. /\ Append(<<<<"choice", 1>>>>, <<"init">>) = <<<<"choice", 1>>, <<"init">>>>
          /\ Append(<<>>, <<"init">>) = <<<<"init">>>>
      BY Appends
    <2> QED BY <2>1, Zenon
  <1> HIDE DEF m
  <1>5. e.init = "ServerInitialisation" /\ e.wire = <<>> /\ e.out = m /\ (e.tight <=> h)
    BY <1>3 DEF Now, Here
  <1>6. Talk(e, t)
    BY <1>4, <1>5, Zenon DEF Talk, TalkInit, Said
  <1> QED BY <1>1, <1>3, <1>6, NowShook

(* The viewer has chosen a scheme and goes on with it.                     *)
LEMMA ChosenShook ==
  ASSUME NEW d, NEW t, Auth(d, t), NEW n \in {1, 2, 16, 19, 22}, d.scheme = n, ~d.tight, ~t.tight,
         d.wire = <<>>, d.out = <<<<"choice", n>>>>, d.vencrypt = 0, t.phase = "choice",
         t.version \in Int
  PROVE  Shook(d, NegotiateAuthentication(d), t)
  <1>1. Shaker(d) /\ d.init = "Authentication" /\ d.version = t.version
    BY DEF Auth
  <1>2. Now(d, d, <<>>, d.out, d.init, d.scheme, d.tight, d.vencrypt)
    BY <1>1, NowSelf
  <1>3. CASE n = 1 /\ d.version >= 38
    <2> DEFINE e == [d EXCEPT !.init = "SecurityResult"]
    <2>1. NegotiateAuthentication(d) = e
      BY <1>1, <1>3 DEF NegotiateAuthentication
    <2>2. Now(d, e, <<>>, d.out, "SecurityResult", d.scheme, d.tight, d.vencrypt)
      BY <1>1, <1>2, NowGoes
    <2> HIDE DEF e
    <2>3. Talk(e, t)
      BY <1>1, <1>3, <2>2 DEF Talk, TalkResult, Now, Here, Said
    <2> QED BY <1>1, <2>1, <2>2, <2>3, NowShook
  <1>4. CASE n = 1 /\ d.version < 38
    <2>1. NegotiateAuthentication(d) = ClientInitialisation(d)
      BY <1>1, <1>4 DEF NegotiateAuthentication
    <2>2. d.out = <<<<"choice", 1>>>> /\ t.version < 38
      BY <1>1, <1>4
    <2> QED BY <1>1, <1>2, <2>1, <2>2, InitShook
  <1>5. CASE n = 2
    <2>1. TalkPassword(d, t)
      BY <1>5 DEF TalkPassword
    <2> QED BY <2>1, AuthShook
  <1>6. CASE n = 16
    <2>1. TalkTight(d, t)
      BY <1>6 DEF TalkTight, Said
    <2> QED BY <2>1, AuthShook
  <1>7. CASE n = 19
    <2>1. TalkVeNCrypt(d, t)
      BY <1>7 DEF TalkVeNCrypt, Said
    <2> QED BY <2>1, AuthShook
  <1>8. CASE n = 22
    <2>1. NegotiateAuthentication(d) = NegotiateXvpAuth(d)
      BY <1>8 DEF NegotiateAuthentication
    <2>2. Said(d, <<<<"choice", 22>>>>)
      BY <1>8 DEF Said
    <2> QED BY <1>8, <2>1, <2>2, XvpShook
  <1>9. n = 1 => d.version >= 38 \/ d.version < 38
    BY <1>1
  <1> QED BY <1>3, <1>4, <1>5, <1>6, <1>7, <1>8, <1>9

(* It prefers some to others.                                              *)
LEMMA Prefers ==
  ASSUME NEW T
  PROVE  LET known == {i \in DOMAIN Preferred : Preferred[i] \in T}
         IN  known # {} =>
               Preferred[CHOOSE i \in known : \A j \in known : i <= j] \in {1, 2, 16, 19, 22}
  <1> DEFINE known == {i \in DOMAIN Preferred : Preferred[i] \in T}
             first == CHOOSE i \in known : \A j \in known : i <= j
  <1>1. DOMAIN Preferred = 1 .. 5 /\ \A i \in 1 .. 5 : Preferred[i] \in {1, 2, 16, 19, 22}
    BY DEF Preferred
  <1>2. known \subseteq 1 .. 5
    BY <1>1
  <1> HIDE DEF known
  <1>3. ASSUME known # {} PROVE first \in known
    <2>1. \E i \in known : \A j \in known : i <= j
      <3>1. CASE 1 \in known
        BY <1>2, <3>1
      <3>2. CASE 1 \notin known /\ 2 \in known
        BY <1>2, <3>2
      <3>3. CASE 1 \notin known /\ 2 \notin known /\ 3 \in known
        BY <1>2, <3>3
      <3>4. CASE 1 \notin known /\ 2 \notin known /\ 3 \notin known /\ 4 \in known
        BY <1>2, <3>4
      <3>5. CASE known \subseteq {5}
        <4>1. \A j \in known : j = 5
          BY <3>5
        <4>2. PICK i \in known : TRUE
          BY <1>3
        <4> QED BY <4>1, <4>2
      <3>6. known \subseteq {5} \/ 1 \in known \/ 2 \in known \/ 3 \in known \/ 4 \in known
        BY <1>2
      <3> QED BY <3>1, <3>2, <3>3, <3>4, <3>5, <3>6
    <2> QED BY <2>1
  <1> QED BY <1>1, <1>2, <1>3 DEF known

-----------------------------------------------------------------------------
(* The version                                                             *)
LEMMA VersionShook ==
  ASSUME NEW d, NEW t, Shaker(d), TalkVersion(d, t), d.wire # <<>>
  PROVE  Shook(d, NegotiateProtocolVersion(d), t)
  <1> DEFINE u == Skip(d, 12)
             x == t.version
             v == [u EXCEPT !.version = x]
             w == [v EXCEPT !.init = "Security"]
             w0 == [u EXCEPT !.version = x, !.init = "Security"]
             e == Say(w, <<"version">>)
             id == Say(u, <<"id">>)
             H == NegotiateProtocolVersion(d)
  <1>1. /\ d.init = "ProtocolVersion" /\ ~d.tight /\ ~t.tight /\ d.vencrypt = 0
        /\ t.phase = IF t.version = Repeater THEN "id" ELSE "version"
        /\ d.wire = <<VersionPart(t.version)>> /\ d.out = <<>>
    BY DEF TalkVersion, Said, Heard
  <1>2. Part(d).version = t.version /\ Head(d.wire).len = 12 /\ Tail(d.wire) = <<>>
    BY <1>1 DEF Part, VersionPart
  <1>3. w0 = w
    OBVIOUS
  <1>4. H = CASE Short(d, 12) -> d
              [] ~Short(d, 12) /\ x = Repeater -> id
              [] ~Short(d, 12) /\ x = Unknown -> Fail(u)
              [] OTHER -> e
    BY <1>2, <1>3 DEF NegotiateProtocolVersion
  <1> HIDE DEF H
  <1>5. CASE Short(d, 12)
    <2>1. Talk(d, t)
      BY DEF Talk
    <2>2. Shook(d, d, t)
      BY <1>2, <1>5, <2>1, ReadAll
    <2> QED BY <1>4, <1>5, <2>2 DEF H
  <1>6. CASE ~Short(d, 12)
    <2>1. Now(d, u, <<>>, <<>>, "ProtocolVersion", d.scheme, d.tight, 0)
      BY <1>1, <1>2, <1>6, ReadAll
    <2> HIDE DEF u
    <2>2. CASE x = Repeater
      <3>1. Now(d, id, <<>>, Append(<<>>, <<"id">>), "ProtocolVersion", d.scheme, d.tight, 0)
        BY <2>1, NowGoes
      <3> HIDE DEF id
      <3>2. Append(<<>>, <<"id">>) = <<<<"id">>>>
        OBVIOUS
      <3>3. Talk(id, t)
        BY <1>1, <2>2, <3>1, <3>2 DEF Talk, TalkVersion, Now, Here, Said
      <3>4. Shook(d, id, t)
        BY <3>1, <3>3, NowShook
      <3>5. H = id
        BY <1>4, <1>6, <2>2 DEF Repeater, Unknown
      <3> QED BY <3>4, <3>5 DEF H
    <2>3. CASE x # Repeater /\ x = Unknown
      <3>1. Shook(d, Fail(u), t)
        BY <2>1, NowShook
      <3> QED BY <1>4, <1>6, <2>3, <3>1 DEF H
    <2>4. CASE x # Repeater /\ x # Unknown
      <3>1. Shakes(d, u) /\ Shaker(u) /\ Viewer(u) /\ Bytes(u) /\ u.at = 0
        BY <2>1, NowGoes DEF Now, Here, Shakes
      <3>2. /\ Shakes(u, v) /\ SameBytes(u, v) /\ v.version = x /\ v.out = u.out /\ v.init = u.init
            /\ v.scheme = u.scheme /\ v.tight = u.tight /\ v.vencrypt = u.vencrypt
            /\ v.askings = u.askings
        BY <3>1 DEF Shakes, SameBytes, SameSession, SameRequests, SameDecoder, Viewer
      <3> HIDE DEF v
      <3>3. Shakes(d, v) /\ Bytes(v) /\ v.at = 0 /\ v.askings = 0 /\ v.wire = <<>> /\ v.out = <<>>
        BY <2>1, <3>1, <3>2, ShakesOn, BytesOn DEF Now, Here
      <3>4. Shaker(v)
        BY <3>3, ShakerOn
      <3>5. Now(v, v, <<>>, <<>>, v.init, v.scheme, v.tight, v.vencrypt)
        BY <3>3, <3>4, NowSelf
      <3>6. Now(v, w, <<>>, <<>>, "Security", v.scheme, v.tight, v.vencrypt)
        BY <3>4, <3>5, NowGoes
      <3> HIDE DEF w
      <3>7. Now(v, e, <<>>, Append(<<>>, <<"version">>), "Security", v.scheme, v.tight, v.vencrypt)
        BY <3>4, <3>6, NowGoes
      <3> HIDE DEF e
      <3>8. Append(<<>>, <<"version">>) = <<<<"version">>>>
        OBVIOUS
      <3>9. v.tight = d.tight /\ v.vencrypt = 0 /\ t.phase = "version" /\ v.version = t.version
        BY <1>1, <2>1, <2>4, <3>2 DEF Now, Here
      <3>10. Talk(e, t)
        BY <1>1, <3>7, <3>8, <3>9 DEF Talk, TalkSecurity, Now, Here, Said
      <3>11. Shook(v, e, t)
        BY <3>4, <3>7, <3>10, NowShook
      <3>12. Shook(d, e, t)
        BY <3>3, <3>11, ShookOn
      <3> QED BY <1>4, <1>6, <2>4, <3>12 DEF H
    <2> QED BY <2>2, <2>3, <2>4
  <1> QED BY <1>5, <1>6

-----------------------------------------------------------------------------
(* The server offers types of security; there are none, and a reason why.  *)
LEMMA RefusedShook ==
  ASSUME NEW d, NEW t, Shaker(d), d.init = "Security", Heard(d, <<TypesPart({}), Reason>>),
         t.phase = "end", ~Short(d, 1)
  PROVE  Shook(d, ChooseSecurity(d), t)
  <1> DEFINE u == Skip(d, 1)
             v == [u EXCEPT !.init = "SecurityReason"]
  <1>1. d.wire = <<TypesPart({}), Reason>> /\ d.out = <<>>
    BY DEF Heard
  <1>2. d.wire # <<>> /\ Head(d.wire) = TypesPart({}) /\ Tail(d.wire) = <<Reason>>
    BY <1>1
  <1>3. Head(d.wire).len = 1 /\ Part(d).n = 0
    BY <1>2, Lengths DEF TypesPart, Part
  <1>4. ChooseSecurity(d) = HandleSecurityReason(v)
    BY <1>3 DEF ChooseSecurity
  <1>5. Now(d, u, <<Reason>>, <<>>, d.init, d.scheme, d.tight, d.vencrypt)
    BY <1>1, <1>2, <1>3, ReadAll
  <1> HIDE DEF u
  <1>6. Now(d, v, <<Reason>>, <<>>, "SecurityReason", d.scheme, d.tight, d.vencrypt)
    BY <1>5, NowGoes
  <1> HIDE DEF v
  <1>7. Shaker(v) /\ Shakes(d, v)
    BY <1>6, NowGoes
  <1>8. Shook(v, HandleSecurityReason(v), t)
    BY <1>6, <1>7, ReasonShook DEF Now, Here, Heard
  <1> QED BY <1>4, <1>7, <1>8, ShookOn

(* There are some.                                                         *)
LEMMA OfferedShook ==
  ASSUME NEW d, NEW t, Shaker(d), d.init = "Security", d.version = t.version, ~d.tight, ~t.tight,
         d.vencrypt = 0, NEW T \in TypeLists, T # {}, Heard(d, <<TypesPart(T)>>),
         t.phase = "choice", t.version \in Int, ~Short(d, 1), Talk(d, t)
  PROVE  Shook(d, ChooseSecurity(d), t)
  <1> DEFINE k == Cardinality(T)
             u == Skip(d, 1)
             v == Skip(u, k)
             known == {i \in DOMAIN Preferred : Preferred[i] \in T}
             scheme == Preferred[CHOOSE i \in known : \A j \in known : i <= j]
             w == [v EXCEPT !.scheme = scheme]
             x == [w EXCEPT !.init = "Authentication"]
             w0 == [v EXCEPT !.scheme = scheme, !.init = "Authentication"]
             e == Say(x, <<"choice", scheme>>)
             H == ChooseSecurity(d)
  <1>1. k \in Nat /\ k > 0
    BY Lengths
  <1>2. d.wire = <<TypesPart(T)>> /\ d.out = <<>>
    BY DEF Heard
  <1>3. /\ d.wire # <<>> /\ Head(d.wire) = TypesPart(T) /\ Tail(d.wire) = <<>>
        /\ Head(d.wire).len = 1 + k /\ Part(d).n = k /\ Part(d).types = T
    BY <1>2 DEF TypesPart, Part
  <1> HIDE DEF k
  <1>4. H = CASE Short(u, k) -> Back(u, 1)
              [] ~Short(u, k) /\ known = {} -> Fail(v)
              [] OTHER -> NegotiateAuthentication(e)
    <2>1. H = CASE Short(u, k) -> Back(u, 1)
                [] ~Short(u, k) /\ known = {} -> Fail(v)
                [] OTHER -> NegotiateAuthentication(Say(w0, <<"choice", scheme>>))
      BY <1>1, <1>3 DEF ChooseSecurity
    <2>2. w0 = x
      OBVIOUS
    <2> HIDE DEF scheme, known, H, w0, x
    <2> QED BY <2>1, <2>2
  <1>5. known # {} => scheme \in {1, 2, 16, 19, 22}
    BY Prefers
  <1> HIDE DEF H, scheme, known
  <1>6. CASE Short(u, k)
    <2>1. Shook(d, Back(u, 1), t)
      BY <1>1, <1>3, <1>6, ReadBoth
    <2> QED BY <1>4, <1>6, <2>1 DEF H
  <1>7. CASE ~Short(u, k)
    <2>1. Now(d, v, <<>>, <<>>, "Security", d.scheme, d.tight, 0)
      BY <1>1, <1>2, <1>3, <1>7, ReadBoth
    <2> HIDE DEF u, v
    <2>2. CASE known = {}
      <3>1. Shook(d, Fail(v), t)
        BY <2>1, NowShook
      <3> QED BY <1>4, <1>7, <2>2, <3>1 DEF H
    <2>3. CASE known # {}
      <3>1. Now(d, w, <<>>, <<>>, "Security", scheme, d.tight, 0)
        BY <2>1, SchemeGoes
      <3> HIDE DEF w
      <3>2. Now(d, x, <<>>, <<>>, "Authentication", scheme, d.tight, 0)
        BY <3>1, NowGoes
      <3> HIDE DEF x
      <3> DEFINE m == <<"choice", scheme>>
      <3>3. Now(d, e, <<>>, <<m>>, "Authentication", scheme, d.tight, 0)
        <4>1. Append(<<>>, m) = <<m>>
          BY Appends
        <4> HIDE DEF m
        <4>2. Now(d, Say(x, m), <<>>, Append(<<>>, m), "Authentication", scheme, d.tight, 0)
          BY <3>2, NowGoes
        <4> QED BY <4>1, <4>2 DEF m
      <3>4. Shaker(e) /\ Shakes(d, e)
        BY <3>3, NowGoes
      <3> HIDE DEF e
      <3>5. /\ Auth(e, t) /\ e.scheme = scheme /\ ~e.tight /\ e.wire = <<>> /\ e.out = <<m>>
            /\ e.vencrypt = 0
        BY <3>3, <3>4 DEF Auth, Now, Here
      <3>6. Shook(e, NegotiateAuthentication(e), t)
        BY <1>5, <2>3, <3>5, ChosenShook
      <3>7. Shook(d, NegotiateAuthentication(e), t)
        BY <3>4, <3>6, ShookOn
      <3> QED BY <1>4, <1>7, <2>3, <3>7 DEF H
    <2> QED BY <2>2, <2>3
  <1> QED BY <1>6, <1>7

(* The server decides: the scheme is read, and the rest is still there.    *)
LEMMA DecidedShook ==
  ASSUME NEW d, NEW t, Shaker(d), d.init = "Security", d.version = t.version, t.version \in Int,
         t.version < 37, ~d.tight, ~t.tight, d.vencrypt = 0, Talk(d, t), d.out = <<>>,
         d.wire # <<>>, NEW n, Head(d.wire) = SchemePart(n),
         \/ n = 0 /\ Tail(d.wire) = <<Reason>> /\ t.phase = "end"
         \/ n = 1 /\ Tail(d.wire) = <<>> /\ t.phase = "init"
         \/ n = 2 /\ Tail(d.wire) = <<Challenge>> /\ t.phase = "response"
         \/ n = 7 /\ Tail(d.wire) = <<>> /\ t.phase = "end"
  PROVE  Shook(d, AcceptSecurity(d), t)
  <1> DEFINE u == Skip(d, 4)
             v == [u EXCEPT !.scheme = n]
             r == [v EXCEPT !.init = "SecurityReason"]
             a == [v EXCEPT !.init = "Authentication"]
             w == Tail(d.wire)
             H == AcceptSecurity(d)
  <1>1. Part(d).scheme = n /\ Head(d.wire).len = 4
    BY DEF Part, SchemePart
  <1>2. H = CASE Short(d, 4) -> d
              [] ~Short(d, 4) /\ n = 0 -> HandleSecurityReason(r)
              [] OTHER -> NegotiateAuthentication(a)
    BY <1>1 DEF AcceptSecurity
  <1> HIDE DEF H
  <1>3. CASE Short(d, 4)
    <2>1. Shook(d, d, t)
      BY <1>1, <1>3, ReadAll
    <2> QED BY <1>2, <1>3, <2>1 DEF H
  <1>4. CASE ~Short(d, 4)
    <2>1. Now(d, u, w, <<>>, "Security", d.scheme, d.tight, 0)
      BY <1>1, <1>4, ReadAll
    <2> HIDE DEF u
    <2>2. Now(d, v, w, <<>>, "Security", n, d.tight, 0)
      BY <2>1, SchemeGoes
    <2> HIDE DEF v
    <2>3. Now(d, r, w, <<>>, "SecurityReason", n, d.tight, 0)
          /\ Now(d, a, w, <<>>, "Authentication", n, d.tight, 0)
      BY <2>2, NowGoes
    <2> HIDE DEF r, a
    <2>4. Shaker(r) /\ Shakes(d, r) /\ Shaker(a) /\ Shakes(d, a)
      BY <2>3, NowGoes
    <2>5. Auth(a, t) /\ a.scheme = n /\ ~a.tight /\ a.wire = w /\ a.out = <<>> /\ a.vencrypt = 0
      BY <2>3, <2>4 DEF Auth, Now, Here
    <2>6. CASE n = 0 /\ w = <<Reason>> /\ t.phase = "end"
      <3>1. Shook(r, HandleSecurityReason(r), t)
        BY <2>3, <2>4, <2>6, ReasonShook DEF Now, Here, Heard
      <3>2. Shook(d, HandleSecurityReason(r), t)
        BY <2>4, <3>1, ShookOn
      <3> QED BY <1>2, <1>4, <2>6, <3>2 DEF H
    <2>7. CASE n # 0
      <3>1. H = NegotiateAuthentication(a)
        BY <1>2, <1>4, <2>7
      <3>2. CASE n = 1 /\ w = <<>> /\ t.phase = "init"
        <4>1. NegotiateAuthentication(a) = ClientInitialisation(a)
          BY <2>5, <3>2 DEF NegotiateAuthentication, Auth
        <4>2. Shook(d, ClientInitialisation(a), t)
          <5>1. Now(d, a, <<>>, <<>>, "Authentication", n, d.tight, 0)
            BY <2>3, <3>2
          <5>2. d.tight <=> t.tight
            OBVIOUS
          <5> HIDE DEF w
          <5> QED BY <3>2, <5>1, <5>2, InitShook
        <4> QED BY <3>1, <4>1, <4>2 DEF H
      <3>3. CASE n = 2 /\ w = <<Challenge>> /\ t.phase = "response"
        <4>1. TalkPassword(a, t)
          BY <2>5, <3>3 DEF TalkPassword, Heard
        <4>2. Shook(a, NegotiateAuthentication(a), t)
          BY <2>5, <4>1, AuthShook
        <4>3. Shook(d, NegotiateAuthentication(a), t)
          BY <2>4, <4>2, ShookOn
        <4> QED BY <3>1, <4>3 DEF H
      <3>4. CASE n = 7
        <4>1. NegotiateAuthentication(a) = Fail(a)
          BY <2>5, <3>4 DEF NegotiateAuthentication
        <4>2. Shook(d, Fail(a), t)
          BY <2>3, NowShook
        <4> QED BY <3>1, <4>1, <4>2 DEF H
      <3> HIDE DEF w
      <3> QED BY <2>7, <3>2, <3>3, <3>4 DEF w
    <2> QED BY <2>6, <2>7
  <1> QED BY <1>3, <1>4

(* Security                                                                *)
LEMMA SecurityShook ==
  ASSUME NEW d, NEW t, Shaker(d), TalkSecurity(d, t), d.avail > 0, t.version \in Int
  PROVE  Shook(d, NegotiateSecurity(d), t)
  <1>1. /\ d.init = "Security" /\ d.version = t.version /\ ~d.tight /\ ~t.tight /\ d.vencrypt = 0
        /\ Talk(d, t) /\ ~Short(d, 1)
    <2>1. d.avail \in Nat
      BY DEF Shaker, Bytes
    <2> QED BY <2>1 DEF TalkSecurity, Talk, Short
  <1>2. ~Said(d, <<<<"version">>>>)
    <2>1. d.wire # <<>>
      BY NoBytes DEF Shaker
    <2> QED BY <2>1 DEF Said
  <1>3. CASE t.version >= 37
    <2>1. NegotiateSecurity(d) = ChooseSecurity(d)
      BY <1>1, <1>3 DEF NegotiateSecurity
    <2>2. CASE t.phase = "end" /\ Heard(d, <<TypesPart({}), Reason>>)
      BY <1>1, <2>1, <2>2, RefusedShook
    <2>3. ASSUME NEW T \in TypeLists, T # {}, t.phase = "choice", Heard(d, <<TypesPart(T)>>)
          PROVE  Shook(d, NegotiateSecurity(d), t)
      BY <1>1, <2>1, <2>3, OfferedShook
    <2>4. \/ \E T \in TypeLists : T # {} /\ t.phase = "choice" /\ Heard(d, <<TypesPart(T)>>)
          \/ t.phase = "end" /\ Heard(d, <<TypesPart({}), Reason>>)
      <3>1. ~(t.version < 37)
        BY <1>3
      <3> QED BY <1>2, <3>1, Zenon DEF TalkSecurity
    <2> QED BY <2>2, <2>3, <2>4
  <1>4. CASE t.version < 37
    <2>1. NegotiateSecurity(d) = AcceptSecurity(d)
      BY <1>1, <1>4 DEF NegotiateSecurity
    <2>2. \/ t.phase = "init" /\ Heard(d, <<SchemePart(1)>>)
          \/ t.phase = "response" /\ Heard(d, <<SchemePart(2), Challenge>>)
          \/ t.phase = "end" /\ Heard(d, <<SchemePart(0), Reason>>)
          \/ t.phase = "end" /\ Heard(d, <<SchemePart(7)>>)
      <3>1. ~(t.version >= 37)
        BY <1>4
      <3> QED BY <1>2, <3>1, Zenon DEF TalkSecurity
    <2>3. ASSUME NEW n, NEW p, Heard(d, <<SchemePart(n), p>>)
          PROVE  d.out = <<>> /\ d.wire # <<>> /\ Head(d.wire) = SchemePart(n) /\ Tail(d.wire) = <<p>>
      BY <2>3 DEF Heard
    <2>4. ASSUME NEW n, Heard(d, <<SchemePart(n)>>)
          PROVE  d.out = <<>> /\ d.wire # <<>> /\ Head(d.wire) = SchemePart(n) /\ Tail(d.wire) = <<>>
      BY <2>4 DEF Heard
    <2>5. CASE t.phase = "init" /\ Heard(d, <<SchemePart(1)>>)
      BY <1>1, <1>4, <2>1, <2>4, <2>5, DecidedShook
    <2>6. CASE t.phase = "response" /\ Heard(d, <<SchemePart(2), Challenge>>)
      BY <1>1, <1>4, <2>1, <2>3, <2>6, DecidedShook
    <2>7. CASE t.phase = "end" /\ Heard(d, <<SchemePart(0), Reason>>)
      BY <1>1, <1>4, <2>1, <2>3, <2>7, DecidedShook
    <2>8. CASE t.phase = "end" /\ Heard(d, <<SchemePart(7)>>)
      BY <1>1, <1>4, <2>1, <2>4, <2>8, DecidedShook
    <2> QED BY <2>2, <2>5, <2>6, <2>7, <2>8
  <1> QED BY <1>3, <1>4

-----------------------------------------------------------------------------
(* The result                                                              *)
LEMMA ResultShook ==
  ASSUME NEW d, NEW t, Shaker(d), TalkResult(d, t), d.wire # <<>>, t.version \in Int
  PROVE  Shook(d, HandleSecurityResult(d), t)
  <1> DEFINE u == Skip(d, 4)
             v == [u EXCEPT !.init = "SecurityReason"]
             H == HandleSecurityResult(d)
             yes == ResultPart(TRUE)
             no == ResultPart(FALSE)
  <1>1. d.init = "SecurityResult" /\ d.version = t.version /\ (d.tight <=> t.tight) /\ Talk(d, t)
    BY DEF TalkResult, Talk
  <1>2. Verdict(d.wire, t) /\ d.out = <<>>
    <2>1. \A m : ~Said(d, m)
      BY DEF Said
    <2> QED BY <2>1, Zenon DEF TalkResult
  <1>3. \/ t.phase = "init" /\ d.wire = <<yes>>
        \/ t.phase = "end" /\ t.version >= 38 /\ d.wire = <<no, Reason>>
        \/ t.phase = "end" /\ t.version < 38 /\ d.wire = <<no>>
    BY <1>2 DEF Verdict
  <1>4. yes.len = 4 /\ no.len = 4 /\ yes.ok /\ ~no.ok
    BY DEF ResultPart
  <1> HIDE DEF yes, no
  <1>5. Head(d.wire).len = 4
    <2>1. CASE d.wire = <<yes>>
      BY <1>4, <2>1
    <2>2. CASE d.wire = <<no, Reason>>
      BY <1>4, <2>2
    <2>3. CASE d.wire = <<no>>
      BY <1>4, <2>3
    <2> QED BY <1>3, <2>1, <2>2, <2>3
  <1>6. H = CASE Short(d, 4) -> d
              [] ~Short(d, 4) /\ Head(d.wire).ok -> ClientInitialisation(u)
              [] ~Short(d, 4) /\ ~Head(d.wire).ok /\ d.version >= 38 -> HandleSecurityReason(v)
              [] OTHER -> Fail(u)
    BY DEF HandleSecurityResult, Part
  <1> HIDE DEF H
  <1>7. CASE Short(d, 4)
    <2>1. Shook(d, d, t)
      BY <1>1, <1>5, <1>7, ReadAll
    <2> QED BY <1>6, <1>7, <2>1 DEF H
  <1>8. CASE ~Short(d, 4)
    <2> DEFINE w == Tail(d.wire)
    <2>1. Now(d, u, w, <<>>, "SecurityResult", d.scheme, d.tight, d.vencrypt)
      BY <1>1, <1>2, <1>5, <1>8, ReadAll
    <2> HIDE DEF u
    <2>2. CASE t.phase = "init" /\ d.wire = <<yes>>
      <3>1. Head(d.wire).ok /\ w = <<>>
        BY <1>4, <2>2
      <3>2. H = ClientInitialisation(u)
        BY <1>6, <1>8, <3>1
      <3> HIDE DEF w
      <3>3. Shook(d, ClientInitialisation(u), t)
        BY <1>1, <2>1, <2>2, <3>1, InitShook
      <3> QED BY <3>2, <3>3 DEF H
    <2>3. CASE t.phase = "end" /\ t.version >= 38 /\ d.wire = <<no, Reason>>
      <3>1. ~Head(d.wire).ok /\ w = <<Reason>>
        BY <1>4, <2>3
      <3>2. H = HandleSecurityReason(v)
        BY <1>1, <1>6, <1>8, <2>3, <3>1
      <3> HIDE DEF w
      <3>3. Now(d, v, w, <<>>, "SecurityReason", d.scheme, d.tight, d.vencrypt)
        BY <2>1, NowGoes
      <3> HIDE DEF v
      <3>4. Shaker(v) /\ Shakes(d, v)
        BY <3>3, NowGoes
      <3>5. Shook(v, HandleSecurityReason(v), t)
        BY <2>3, <3>1, <3>3, <3>4, ReasonShook DEF Now, Here, Heard
      <3>6. Shook(d, HandleSecurityReason(v), t)
        BY <3>4, <3>5, ShookOn
      <3> QED BY <3>2, <3>6 DEF H
    <2>4. CASE t.version < 38 /\ d.wire = <<no>>
      <3>1. ~Head(d.wire).ok
        BY <1>4, <2>4
      <3>2. H = Fail(u)
        BY <1>1, <1>6, <1>8, <2>4, <3>1
      <3>3. Shook(d, Fail(u), t)
        BY <2>1, NowShook
      <3> QED BY <3>2, <3>3 DEF H
    <2> QED BY <1>3, <2>2, <2>3, <2>4
  <1> QED BY <1>7, <1>8

-----------------------------------------------------------------------------
(* The end of the handshake                                                *)

(* When it has been told about the screen, the viewer sets itself up.      *)
SetUp(d) ==
    UpdateConnectionState(RequestUpdate([Resize(d, 1) EXCEPT !.grabbed = TRUE]), "connected")

(* The server's description of itself is read as a whole, or not yet.      *)
Taken(d, e) ==
    \/ Waits(d) /\ e = d
    \/ /\ Waits(d) /\ \E u : \E n \in Nat : Took(d, u, n) /\ n < Head(d.wire).len /\ e = Back(u, n)
    \/ \E g : Took(d, g, Head(d.wire).len) /\ Head(d.wire).len <= d.avail /\ e = SetUp(g)

(* The initialisation is read whole, or given back.                        *)
LEMMA InitTaken ==
  ASSUME NEW d, NEW t, Shaker(d), d.wire # <<>>, Head(d.wire) = InitPart(t.tight),
         d.tight <=> t.tight
  PROVE  Taken(d, NegotiateServerInit(d))
  <1> DEFINE u == Skip(d, 24)
             e == Skip(u, 2)
             f == Skip(e, 8)
             g == Skip(f, 16)
             p == Head(d.wire)
             H == NegotiateServerInit(d)
  <1>1. p.n = 2 /\ p.caps = 1 /\ p.size = 1 /\ p.len = IF d.tight THEN 50 ELSE 26
    BY DEF InitPart, NameLength, TightCaps
  <1>2. H = CASE Short(d, 24) -> d
              [] ~Short(d, 24) /\ Short(u, 2) -> Back(u, 24)
              [] ~Short(d, 24) /\ ~Short(u, 2) /\ ~d.tight -> SetUp(e)
              [] ~Short(d, 24) /\ ~Short(u, 2) /\ d.tight /\ Short(e, 8) -> Back(e, 26)
              [] ~Short(d, 24) /\ ~Short(u, 2) /\ d.tight /\ ~Short(e, 8) /\ Short(f, 16) -> Back(f, 34)
              [] OTHER -> SetUp(g)
    <2>1. Part(d) = p
      BY DEF Part
    <2> HIDE DEF p
    <2>2. p.n = 2 /\ 24 + p.n = 26 /\ 32 + p.n = 34 /\ 16 * p.caps = 16 /\ p.size = 1
      BY <1>1
    <2> DEFINE e0 == Skip(u, p.n)
               f0 == Skip(e0, 8)
               g0 == Skip(f0, 16 * p.caps)
               ready(x) == UpdateConnectionState(
                             RequestUpdate([Resize(x, p.size) EXCEPT !.grabbed = TRUE]),
                             "connected")
    <2>3. H = CASE Short(d, 24) -> d
                [] ~Short(d, 24) /\ ~(~Short(d, 24) /\ ~Short(u, p.n)) -> Back(u, 24)
                [] (~Short(d, 24) /\ ~Short(u, p.n)) /\ ~d.tight -> ready(e0)
                [] (~Short(d, 24) /\ ~Short(u, p.n)) /\ d.tight
                   /\ ~((~Short(d, 24) /\ ~Short(u, p.n)) /\ d.tight /\ ~Short(e0, 8)) ->
                      Back(e0, 24 + p.n)
                [] ((~Short(d, 24) /\ ~Short(u, p.n)) /\ d.tight /\ ~Short(e0, 8))
                   /\ Short(f0, 16 * p.caps) -> Back(f0, 32 + p.n)
                [] OTHER -> ready(g0)
      BY <2>1, Zenon DEF NegotiateServerInit
    <2>4. e0 = e /\ f0 = f /\ g0 = g /\ \A x : ready(x) = SetUp(x)
      BY <2>2 DEF SetUp
    <2> HIDE DEF H, e0, f0, g0, e, f, g, u, ready
    <2> QED BY <2>2, <2>3, <2>4
  <1> HIDE DEF H
  <1>3. Viewer(d) /\ Bytes(d) /\ d.at = 0 /\ d.avail \in Nat
    BY DEF Shaker, Bytes
  <1>4. PartLeft(d) = p.len
    BY <1>1, <1>3 DEF PartLeft
  <1> HIDE DEF p
  <1>5. Took(d, u, 24)
    BY <1>1, <1>3, <1>4, SkipIs DEF Bytes
  <1>6. Took(d, e, 26)
    <2> DEFINE n == 24
               m == 2
    <2>1. n \in Nat /\ m \in Nat /\ n + m <= PartLeft(d) /\ Took(d, u, n)
      BY <1>1, <1>4, <1>5
    <2> HIDE DEF u, n, m
    <2>2. Took(d, Skip(u, m), n + m)
      BY <1>3, <2>1, TookMore
    <2> QED BY <2>2 DEF n, m
  <1>7. d.tight => Took(d, f, 34)
    <2> SUFFICES ASSUME d.tight PROVE Took(d, f, 34)
      OBVIOUS
    <2> DEFINE n == 26
               m == 8
    <2>1. n \in Nat /\ m \in Nat /\ n + m <= PartLeft(d) /\ Took(d, e, n)
      BY <1>1, <1>4, <1>6
    <2> HIDE DEF e, n, m
    <2>2. Took(d, Skip(e, m), n + m)
      BY <1>3, <2>1, TookMore
    <2> QED BY <2>2 DEF n, m
  <1>8. d.tight => Took(d, g, 50)
    <2> SUFFICES ASSUME d.tight PROVE Took(d, g, 50)
      OBVIOUS
    <2> DEFINE n == 34
               m == 16
    <2>1. n \in Nat /\ m \in Nat /\ n + m <= PartLeft(d) /\ Took(d, f, n)
      BY <1>1, <1>4, <1>7
    <2> HIDE DEF f, n, m
    <2>2. Took(d, Skip(f, m), n + m)
      BY <1>3, <2>1, TookMore
    <2> QED BY <2>2 DEF n, m
  <1> HIDE DEF u, e, f, g
  <1>9. /\ u.avail = d.avail - 24 /\ e.avail = d.avail - 26
        /\ d.tight => f.avail = d.avail - 34
    BY <1>5, <1>6, <1>7 DEF Took, Reaches
  <1>10. p = Head(d.wire) /\ p.len \in Nat
    BY <1>1 DEF p
  <1>11. d.avail < p.len => Waits(d)
    BY <1>10 DEF Waits
  <1>12. ASSUME NEW x, NEW n \in Nat, Took(d, x, n), n < p.len, d.avail < p.len, H = Back(x, n)
         PROVE  Taken(d, H)
    BY <1>10, <1>11, <1>12 DEF Taken
  <1>13. ASSUME NEW x, NEW n, Took(d, x, n), n = p.len, p.len <= d.avail, H = SetUp(x)
         PROVE  Taken(d, H)
    BY <1>10, <1>13 DEF Taken
  <1>14. CASE Short(d, 24)
    <2>1. H = d
      BY <1>2, <1>14
    <2>2. Waits(d)
      BY <1>1, <1>3, <1>11, <1>14 DEF Short
    <2> QED BY <2>1, <2>2 DEF Taken, H
  <1>15. CASE ~Short(d, 24) /\ Short(u, 2)
    <2>1. H = Back(u, 24)
      BY <1>2, <1>15
    <2>2. d.avail < p.len /\ 24 < p.len
      BY <1>1, <1>3, <1>9, <1>15 DEF Short
    <2> QED BY <1>5, <1>12, <2>1, <2>2 DEF H
  <1>16. CASE ~Short(d, 24) /\ ~Short(u, 2) /\ ~d.tight
    <2>1. H = SetUp(e)
      BY <1>2, <1>16
    <2>2. p.len <= d.avail /\ 26 = p.len
      BY <1>1, <1>3, <1>9, <1>16 DEF Short
    <2> QED BY <1>6, <1>13, <2>1, <2>2 DEF H
  <1>17. CASE ~Short(d, 24) /\ ~Short(u, 2) /\ d.tight /\ Short(e, 8)
    <2>1. H = Back(e, 26)
      BY <1>2, <1>17
    <2>2. d.avail < p.len /\ 26 < p.len
      BY <1>1, <1>3, <1>9, <1>17 DEF Short
    <2> QED BY <1>6, <1>12, <2>1, <2>2 DEF H
  <1>18. CASE ~Short(d, 24) /\ ~Short(u, 2) /\ d.tight /\ ~Short(e, 8) /\ Short(f, 16)
    <2>1. H = Back(f, 34)
      BY <1>2, <1>18
    <2>2. d.avail < p.len /\ 34 < p.len
      BY <1>1, <1>3, <1>9, <1>18 DEF Short
    <2> QED BY <1>7, <1>12, <1>18, <2>1, <2>2 DEF H
  <1>19. CASE ~Short(d, 24) /\ ~Short(u, 2) /\ d.tight /\ ~Short(e, 8) /\ ~Short(f, 16)
    <2>1. H = SetUp(g)
      BY <1>2, <1>19
    <2>2. p.len <= d.avail /\ 50 = p.len
      BY <1>1, <1>3, <1>9, <1>19 DEF Short
    <2> QED BY <1>8, <1>13, <1>19, <2>1, <2>2 DEF H
  <1> QED BY <1>14, <1>15, <1>16, <1>17, <1>18, <1>19

(* Then it is connected, asked for an update of its whole screen, and is   *)
(* in step with a server that has begun to speak.                          *)
LEMMA ReadyLoops ==
  ASSUME NEW d, NEW t, Shaker(d), Idle(d), Hears(d), Debts(d, t), d.wire # <<>>, d.out = <<>>,
         Head(d.wire) = InitPart(t.tight), t.repertoire \in DOMAIN Repertoires,
         NEW a \in Standings, a.k = 0, Speech(Tail(d.wire), a, Stand(t), t.repertoire),
         NEW g, Took(d, g, Head(d.wire).len), Head(d.wire).len <= d.avail
  PROVE  Loop(SetUp(g), t) /\ SetUp(g).conn = "connected"
  <1> DEFINE w == Tail(d.wire)
             r == Resize(g, 1)
             h == [r EXCEPT !.grabbed = TRUE]
             q == [h EXCEPT !.asked = TRUE, !.region = h.size]
             e == [q EXCEPT !.conn = "connected", !.connects = q.connects + 1]
  <1>1. Now(d, g, w, <<>>, d.init, d.scheme, d.tight, d.vencrypt)
    BY NowRead
  <1>2. Viewer(g) /\ Resizes(g, r)
    BY <1>1, ResizeResizes DEF Now, Here, Shakes
  <1> HIDE DEF r
  <1>3. Resizes(g, h)
    BY <1>2 DEF Resizes, SameBytes, SameSession, SameTalk, SameDecoder, Viewer
  <1> HIDE DEF h
  <1>4. /\ h.conn = "connecting" /\ h.sock = "open" /\ ~h.timer /\ h.wire = w /\ h.at = 0
        /\ Hears(h) /\ Bytes(h) /\ h.askings = 0 /\ ~h.halted /\ h.out = <<>>
        /\ ~h.continuous /\ ~h.knowsContinuous /\ Viewer(h)
    <2>1. Shakes(d, g) /\ Bytes(g) /\ g.at = 0 /\ g.wire = w /\ g.out = <<>> /\ g.askings = 0
      BY <1>1 DEF Now, Here
    <2>2. Bytes(h) /\ h.at = 0 /\ h.wire = w
      BY <1>3, <2>1, BytesOn DEF Resizes
    <2> QED BY <1>3, <2>1, <2>2 DEF Resizes, SameSession, SameTalk, Shakes, SameRequests, Idle,
                                   Hears, Shaker
  <1>5. DecoderFits(h) /\ h.rects = 0 /\ h.rect = NoRect
    <2>1. Shakes(d, g)
      BY <1>1 DEF Now, Here
    <2>2. SameDecoder(d, g) /\ SameDecoder(g, h)
      BY <1>3, <2>1 DEF Shakes, Resizes
    <2> HIDE DEF w
    <2> QED BY <2>2 DEF Idle, SameDecoder, DecoderFits, RawFits, RREFits, HextileFits, TightFits,
                        Decoding, Begun, TightIdle
  <1>6. RequestUpdate(h) = q
    BY <1>4 DEF RequestUpdate
  <1>7. /\ Viewer(q) /\ SameBytes(h, q) /\ SameSession(h, q) /\ SameTalk(h, q) /\ SameDecoder(h, q)
        /\ q.out = h.out /\ q.halted = h.halted /\ q.asked /\ q.region = q.size
        /\ q.continuous = h.continuous /\ q.knowsContinuous = h.knowsContinuous
    BY <1>4 DEF SameBytes, SameSession, SameTalk, SameDecoder, Viewer
  <1>8. SetUp(g) = UpdateConnectionState(q, "connected")
    BY <1>6 DEF SetUp, h, r
  <1> HIDE DEF q
  <1>9. SetUp(g) = e
    <2>1. q.conn = "connecting" /\ ~q.timer
      BY <1>4, <1>7 DEF SameSession
    <2> QED BY <1>8, <2>1 DEF UpdateConnectionState, Transitions
  <1>10. /\ Viewer(e) /\ SameBytes(q, e) /\ e.conn = "connected" /\ e.sock = q.sock
         /\ e.onOpen = q.onOpen /\ e.onMessage = q.onMessage /\ e.onClose = q.onClose
         /\ e.timer = q.timer /\ SameTalk(q, e) /\ SameDecoder(q, e) /\ e.out = q.out
         /\ e.halted = q.halted /\ e.asked = q.asked /\ e.region = q.region /\ e.size = q.size
         /\ e.continuous = q.continuous /\ e.knowsContinuous = q.knowsContinuous
    BY <1>7 DEF SameBytes, SameTalk, SameDecoder, Viewer
  <1> HIDE DEF e
  <1>11. /\ Bytes(e) /\ e.wire = w /\ e.at = 0 /\ Hears(e) /\ e.sock = "open" /\ e.askings = 0
         /\ ~e.halted /\ e.out = <<>> /\ e.asked /\ ~e.continuous /\ ~e.knowsContinuous
         /\ e.region = e.size
    <2>1. Bytes(q) /\ q.wire = w /\ q.at = 0
      BY <1>4, <1>7, BytesOn
    <2>2. Bytes(e) /\ e.wire = w /\ e.at = 0
      BY <1>10, <2>1, BytesOn
    <2> QED BY <1>4, <1>7, <1>10, <2>2 DEF SameSession, SameTalk, Hears
  <1>12. DecoderFits(e) /\ e.rects = 0 /\ e.rect = NoRect
    <2>1. SameDecoder(h, q) /\ SameDecoder(q, e)
      BY <1>7, <1>10
    <2> QED BY <1>5, <2>1 DEF SameDecoder, DecoderFits, RawFits, RREFits, HextileFits, TightFits,
                        Decoding, Begun, TightIdle, PixelsUnread, LengthFits
  <1>13. Parses(e, t)
    <2>1. ~Begun(e) /\ ~Inside(e)
      BY <1>12 DEF Begun, Inside
    <2>2. Stands(e)
      BY <1>11, <1>12, <2>1 DEF Stands
    <2>3. From(e, a)
      BY <1>12 DEF From
    <2> QED BY <1>11, <1>12, <2>2, <2>3 DEF Parses
  <1>14. Owed(e, t)
    <2>1. SameNews(d, e)
      <3>1. Head(d.wire).type = "serverInit"
        BY DEF InitPart
      <3>2. Whole(d.wire)
        BY DEF Shaker, Bytes
      <3> QED BY <1>11, <3>1, <3>2, TailNews
    <2>2. Debts(e, t)
      <3>1. (e.continuous <=> d.continuous) /\ (e.knowsContinuous <=> d.knowsContinuous)
            /\ e.out = d.out
        BY <1>11 DEF Idle
      <3> QED BY <1>11, <2>1, <3>1 DEF Debts, SameNews
    <2> QED BY <1>11, <2>2 DEF Owed, Awaits
  <1> QED BY <1>9, <1>10, <1>11, <1>13, <1>14 DEF Loop, InStep

(* What the server said is a message that the viewer's state expects.      *)
FirstIs(d, T) == d.wire # <<>> => Head(d.wire).type \in T

(* The first part that is heard is of the types the viewer expects.        *)
LEMMA Firsts ==
  ASSUME NEW d, NEW T
  PROVE  /\ \A m : Said(d, m) => FirstIs(d, T)
         /\ \A p : Heard(d, <<p>>) /\ p.type \in T => FirstIs(d, T)
         /\ \A p, q : Heard(d, <<p, q>>) /\ p.type \in T => FirstIs(d, T)
         /\ \A p, q, r : Heard(d, <<p, q, r>>) /\ p.type \in T => FirstIs(d, T)
  <1>1. \A m : Said(d, m) => FirstIs(d, T)
    BY DEF Said, FirstIs
  <1>2. \A p : Heard(d, <<p>>) /\ p.type \in T => FirstIs(d, T)
    BY DEF Heard, FirstIs
  <1>3. \A p, q : Heard(d, <<p, q>>) /\ p.type \in T => FirstIs(d, T)
    BY DEF Heard, FirstIs
  <1>4. \A p, q, r : Heard(d, <<p, q, r>>) /\ p.type \in T => FirstIs(d, T)
    BY DEF Heard, FirstIs
  <1> QED BY <1>1, <1>2, <1>3, <1>4

AuthTypes == {"challenge", "tunnels", "subauths", "veVersion", "veAck", "veCount", "veTypes"}

(* The types of the parts of the handshake                                 *)
LEMMA PartTypes ==
  /\ \A v : VersionPart(v).type = "version"
  /\ \A n : SchemePart(n).type = "scheme"
  /\ \A T : TypesPart(T).type = "types"
  /\ \A n, ok : TunnelsPart(n, ok).type \in AuthTypes
  /\ \A T : SubAuthsPart(T).type \in AuthTypes
  /\ VeVersionPart(TRUE).type \in AuthTypes /\ VeVersionPart(FALSE).type \in AuthTypes
  /\ AckPart(TRUE).type \in AuthTypes /\ AckPart(FALSE).type \in AuthTypes
  /\ CountPart.type \in AuthTypes /\ Challenge.type \in AuthTypes
  /\ SubtypesPart(TRUE).type \in AuthTypes /\ SubtypesPart(FALSE).type \in AuthTypes
  /\ ResultPart(TRUE).type = "result" /\ ResultPart(FALSE).type = "result"
  /\ Reason.type = "reason" /\ \A h : InitPart(h).type = "serverInit"
  BY DEF VersionPart, SchemePart, TypesPart, TunnelsPart, SubAuthsPart, VeVersionPart, AckPart,
         CountPart, Challenge, SubtypesPart, ResultPart, Reason, InitPart, AuthTypes

(* Those of authentication                                                 *)
LEMMA AuthFirsts ==
  ASSUME NEW d, NEW t, TalkAuth(d, t)
  PROVE  FirstIs(d, AuthTypes)
  <1>f. /\ \A m : Said(d, m) => FirstIs(d, AuthTypes)
        /\ \A p : Heard(d, <<p>>) /\ p.type \in AuthTypes => FirstIs(d, AuthTypes)
        /\ \A p, q : Heard(d, <<p, q>>) /\ p.type \in AuthTypes => FirstIs(d, AuthTypes)
        /\ \A p, q, r : Heard(d, <<p, q, r>>) /\ p.type \in AuthTypes => FirstIs(d, AuthTypes)
    BY Firsts
  <1>1. CASE TalkAsking(d, t)
    BY <1>1, <1>f, PartTypes, Zenon DEF TalkAsking
  <1>2. CASE TalkPassword(d, t)
    <2>1. CASE d.wire = <<>>
      BY <2>1 DEF FirstIs
    <2>2. CASE d.wire # <<>>
      <3>1. Heard(d, <<Challenge>>)
        BY <1>2, <2>2 DEF TalkPassword, Said
      <3> QED BY <1>f, <3>1, PartTypes
    <2> QED BY <2>1, <2>2
  <1>3. CASE TalkTight(d, t)
    <2>1. ASSUME NEW w, AfterTunnels(w, t), d.wire = w
          PROVE  FirstIs(d, AuthTypes)
      <3>1. CASE w = <<>>
        BY <2>1, <3>1 DEF FirstIs
      <3>2. CASE \E T \in SubAuths : T # {} /\ t.phase = "subauth" /\ w = <<SubAuthsPart(T)>>
        BY <2>1, <3>2, PartTypes DEF FirstIs
      <3>3. CASE t.phase = "result" /\ w = <<SubAuthsPart({})>>
        BY <2>1, <3>3, PartTypes DEF FirstIs
      <3>4. CASE w # <<>> /\ Head(w) = SubAuthsPart({})
        BY <2>1, <3>4, PartTypes DEF FirstIs
      <3> QED BY <2>1, <3>1, <3>2, <3>3, <3>4 DEF AfterTunnels
    <2>2. d.wire # <<>> /\ Head(d.wire) = TunnelsPart(0, TRUE) => FirstIs(d, AuthTypes)
      BY PartTypes DEF FirstIs
    <2>3. TunnelsPart(1, TRUE).type \in AuthTypes /\ TunnelsPart(1, FALSE).type \in AuthTypes
      BY PartTypes
    <2> QED BY <1>3, <1>f, <2>1, <2>2, <2>3, Zenon DEF TalkTight
  <1>4. CASE TalkVeNCrypt(d, t)
    BY <1>4, <1>f, PartTypes, Zenon DEF TalkVeNCrypt
  <1> QED BY <1>1, <1>2, <1>3, <1>4 DEF TalkAuth

(* Those of every state                                                    *)
LEMMA TalkExpects ==
  ASSUME NEW d, NEW t, Talk(d, t), d.at = 0, d.wire # <<>>
  PROVE  AtPart(d, Expected(d))
  <1> DEFINE E == Expected(d)
  <1>f. /\ \A m : Said(d, m) => FirstIs(d, E)
        /\ \A p : Heard(d, <<p>>) /\ p.type \in E => FirstIs(d, E)
        /\ \A p, q : Heard(d, <<p, q>>) /\ p.type \in E => FirstIs(d, E)
    BY Firsts
  <1>1. FirstIs(d, E)
    <2>1. CASE TalkVersion(d, t)
      <3>1. "version" \in E
        BY <2>1 DEF TalkVersion, Expected
      <3> HIDE DEF E
      <3>2. VersionPart(t.version).type \in E
        BY <3>1, PartTypes
      <3> QED BY <1>f, <2>1, <3>2, Zenon DEF TalkVersion
    <2>2. CASE TalkSecurity(d, t)
      <3>1. "types" \in E /\ "scheme" \in E
        BY <2>2 DEF TalkSecurity, Expected
      <3> HIDE DEF E
      <3>2. (\A T : TypesPart(T).type \in E) /\ (\A n : SchemePart(n).type \in E)
        BY <3>1, PartTypes
      <3> QED BY <1>f, <2>2, <3>2, Zenon DEF TalkSecurity
    <2>3. CASE TalkAuth(d, t)
      <3>1. FirstIs(d, AuthTypes)
        BY <2>3, AuthFirsts
      <3>2. E = AuthTypes
        BY <2>3 DEF TalkAuth, Expected, AuthTypes
      <3> QED BY <3>1, <3>2
    <2>4. CASE TalkResult(d, t)
      <3>1. "result" \in E
        BY <2>4 DEF TalkResult, Expected
      <3> HIDE DEF E
      <3>2. ResultPart(TRUE).type \in E /\ ResultPart(FALSE).type \in E
        BY <3>1, PartTypes
      <3>3. Verdict(d.wire, t) /\ d.out = <<>> => FirstIs(d, E)
        BY <1>f, <3>2, Zenon DEF Verdict, Heard
      <3> QED BY <1>f, <2>4, <3>3, Zenon DEF TalkResult
    <2>5. CASE TalkReason(d, t)
      <3>1. "reason" \in E
        BY <2>5 DEF TalkReason, Expected
      <3> HIDE DEF E
      <3>2. Reason.type \in E
        BY <3>1, PartTypes
      <3> QED BY <1>f, <2>5, <3>2, Zenon DEF TalkReason
    <2>6. CASE TalkInit(d, t)
      <3>1. "serverInit" \in E
        BY <2>6 DEF TalkInit, Expected
      <3> HIDE DEF E
      <3>2. Head(d.wire) = InitPart(t.tight) => FirstIs(d, E)
        BY <3>1, PartTypes DEF FirstIs
      <3> QED BY <1>f, <2>6, <3>2, Zenon DEF TalkInit
    <2> QED BY <2>1, <2>2, <2>3, <2>4, <2>5, <2>6 DEF Talk
  <1> QED BY <1>1 DEF FirstIs, AtPart, Part

-----------------------------------------------------------------------------
(* A message event in the handshake                                        *)
Handshook(a, b, t) ==
    \/ Shook(a, b, t) /\ (t.phase = "normal" => Alike(a, b))
    \/ Loop(b, t) /\ b.conn = "connected" /\ t.phase = "normal"

(* Only a server that has initialised is in its normal phase.              *)
LEMMA NormalTalk ==
  ASSUME NEW d, NEW t, t.phase = "normal"
  PROVE  /\ ~TalkVersion(d, t) /\ ~TalkSecurity(d, t) /\ ~TalkAuth(d, t)
         /\ ~TalkResult(d, t) /\ ~TalkReason(d, t)
  <1>1. ~TalkVersion(d, t)
    BY DEF TalkVersion
  <1>2. ~TalkSecurity(d, t)
    BY DEF TalkSecurity
  <1>3. \A w : ~Verdict(w, t) /\ ~AfterTunnels(w, t)
    BY DEF Verdict, AfterTunnels
  <1>4. ~TalkPassword(d, t) /\ ~TalkTight(d, t) /\ ~TalkVeNCrypt(d, t) /\ ~TalkAsking(d, t)
    BY <1>3 DEF TalkPassword, TalkTight, TalkVeNCrypt, TalkAsking
  <1>5. ~TalkResult(d, t) /\ ~TalkReason(d, t)
    BY <1>3 DEF TalkResult, TalkReason
  <1> QED BY <1>1, <1>2, <1>4, <1>5 DEF TalkAuth

(* Each state of the handshake reads what may be under way in it.          *)
LEMMA InitMsgShook ==
  ASSUME NEW d, NEW t, Viewer(d), Shaking(d, t), d.sock = "open", d.conn = "connecting",
         d.askings = 0, d.avail > 0, t.version \in Int, Opened(d),
         t.phase = "normal" => t.repertoire \in DOMAIN Repertoires
  PROVE  Handshook(d, InitMsg(d), t)
  <1>1. Shaker(d) /\ Talk(d, t) /\ d.wire # <<>> /\ Idle(d) /\ Hears(d)
    <2>1. Shaker(d) /\ Talk(d, t) /\ Idle(d) /\ Hears(d)
      BY DEF Shaking, Shaker
    <2>2. Bytes(d) /\ d.at = 0
      BY <2>1 DEF Shaker
    <2>3. d.avail \in Nat /\ (d.wire = <<>> => d.avail = 0)
      BY <2>2, NoBytes
    <2>4. d.wire # <<>>
      BY <2>3
    <2> QED BY <2>1, <2>4
  <1>2. AtPart(d, Expected(d))
    BY <1>1, TalkExpects DEF Shaker
  <1>3. InitMsg(d) =
          CASE d.init = "ProtocolVersion" -> NegotiateProtocolVersion(d)
            [] d.init = "Security" -> NegotiateSecurity(d)
            [] d.init = "Authentication" -> NegotiateAuthentication(d)
            [] d.init = "SecurityResult" -> HandleSecurityResult(d)
            [] d.init = "SecurityReason" -> HandleSecurityReason(d)
            [] OTHER -> NegotiateServerInit(d)
    BY <1>1, <1>2 DEF InitMsg
  <1>n. t.phase = "normal" =>
          /\ ~TalkVersion(d, t) /\ ~TalkSecurity(d, t) /\ ~TalkAuth(d, t)
          /\ ~TalkResult(d, t) /\ ~TalkReason(d, t)
    BY NormalTalk
  <1>4. CASE TalkVersion(d, t)
    <2>1. InitMsg(d) = NegotiateProtocolVersion(d)
      BY <1>3, <1>4 DEF TalkVersion
    <2> QED BY <1>1, <1>4, <2>1, VersionShook, <1>n DEF Handshook
  <1>5. CASE TalkSecurity(d, t)
    <2>1. InitMsg(d) = NegotiateSecurity(d)
      BY <1>3, <1>5 DEF TalkSecurity
    <2> QED BY <1>1, <1>5, <2>1, SecurityShook, <1>n DEF Handshook
  <1>6. CASE TalkAuth(d, t)
    <2>1. InitMsg(d) = NegotiateAuthentication(d)
      BY <1>3, <1>6 DEF TalkAuth
    <2>2. Auth(d, t) /\ (TalkPassword(d, t) \/ TalkTight(d, t) \/ TalkVeNCrypt(d, t))
      BY <1>1, <1>6 DEF TalkAuth, Auth
    <2>3. Shook(d, NegotiateAuthentication(d), t)
      BY <2>2, AuthShook
    <2>4. t.phase # "normal"
      BY <1>6, <1>n
    <2> QED BY <2>1, <2>3, <2>4 DEF Handshook
  <1>7. CASE TalkResult(d, t)
    <2>1. InitMsg(d) = HandleSecurityResult(d)
      BY <1>3, <1>7 DEF TalkResult
    <2> QED BY <1>1, <1>7, <2>1, ResultShook, <1>n DEF Handshook
  <1>8. CASE TalkReason(d, t)
    <2>1. InitMsg(d) = HandleSecurityReason(d)
      BY <1>3, <1>8 DEF TalkReason
    <2> QED BY <1>1, <1>8, <2>1, ReasonShook, <1>n DEF Handshook, TalkReason
  <1>9. CASE TalkInit(d, t)
    <2> DEFINE e == InitMsg(d)
    <2>1. e = NegotiateServerInit(d)
      BY <1>3, <1>9 DEF TalkInit
    <2>2. /\ t.phase = "normal" /\ Head(d.wire) = InitPart(t.tight) /\ d.out = <<>>
          /\ d.tight <=> t.tight
          /\ \E a \in Standings : a.k = 0 /\ Speech(Tail(d.wire), a, Stand(t), t.repertoire)
      <3>1. \A m : ~Said(d, m)
        BY <1>1 DEF Said
      <3> QED BY <1>9, <3>1, Zenon DEF TalkInit
    <2>3. Taken(d, e)
      BY <1>1, <2>1, <2>2, InitTaken
    <2> HIDE DEF e
    <2>4. CASE Waits(d) /\ e = d
      <3>1. Alike(d, d)
        BY SameSelf
      <3>2. Shook(d, d, t)
        BY <1>1, <2>4, WaitsShook
      <3>3. Handshook(d, d, t)
        BY <3>1, <3>2 DEF Handshook
      <3> QED BY <2>4, <3>3 DEF e
    <2>5. ASSUME Waits(d), NEW u, NEW n \in Nat, Took(d, u, n), n < Head(d.wire).len, e = Back(u, n)
          PROVE  Handshook(d, e, t)
      <3>1. Shook(d, e, t)
        BY <1>1, <2>5, WaitsShook
      <3>2. Alike(d, e)
        BY <1>1, <2>5, BackAlike
      <3> QED BY <3>1, <3>2 DEF Handshook
    <2>6. ASSUME NEW g, Took(d, g, Head(d.wire).len), Head(d.wire).len <= d.avail, e = SetUp(g)
          PROVE  Handshook(d, e, t)
      <3>1. Debts(d, t)
        BY <2>2 DEF Shaking
      <3>2. PICK a \in Standings : a.k = 0 /\ Speech(Tail(d.wire), a, Stand(t), t.repertoire)
        BY <2>2
      <3>3. Loop(SetUp(g), t) /\ SetUp(g).conn = "connected"
        BY <1>1, <2>2, <2>6, <3>1, <3>2, ReadyLoops
      <3> QED BY <2>2, <2>6, <3>3 DEF Handshook
    <2> QED BY <2>3, <2>4, <2>5, <2>6 DEF Taken, e
  <1> QED BY <1>1, <1>4, <1>5, <1>6, <1>7, <1>8, <1>9 DEF Talk

-----------------------------------------------------------------------------
(* The events of the viewer                                                *)

(* A viewer that has left is forgotten, if nobody looks at it any more.    *)
Over(d) == Left(d) /\ d.conn \in {"disconnecting", "disconnected"} /\ d.sock \notin {"open", "connecting"}

(* What is forgotten was not needed. *)
LEMMA RemainsGone ==
  ASSUME NEW d, Over(d)
  PROVE  Remains(d).askings = 0 /\ Remains(d).conn = d.conn /\ Gone(Remains(d))
  <1> DEFINE e == Remains(d)
             v == NewViewer({}, {})
  <1>1. v.askings = 0 /\ v.lost = FALSE /\ Viewer(v)
    BY DEF NewViewer, Viewer
  <1>2. e = [v EXCEPT
                !.conn = d.conn, !.timer = d.timer, !.sock = d.sock, !.hearing = d.hearing,
                !.onOpen = d.onOpen, !.onMessage = d.onMessage, !.onClose = d.onClose,
                !.attached = d.attached, !.grabbed = d.grabbed, !.init = d.init,
                !.connects = d.connects, !.disconnects = d.disconnects]
    BY DEF Remains
  <1> HIDE DEF v
  <1>3. e.askings = 0 /\ e.lost = FALSE /\ e.conn = d.conn /\ e.sock = d.sock
    BY <1>1, <1>2 DEF Viewer
  <1> HIDE DEF e
  <1>4. Gone(e)
    BY <1>3 DEF Gone, Over
  <1> QED BY <1>3, <1>4 DEF e

(* What a viewer that is connected forgets was not needed either.          *)
LEMMA ConnectedTalks ==
  ASSUME NEW d, NEW t, Viewer(d), ServerInv(t), Talking(d, t), d.conn = "connected"
  PROVE  LET u == [t EXCEPT !.version = 0, !.tight = FALSE]
         IN  Wired(Connected(d), u) /\ u.version = 0
  <1> DEFINE e == Connected(d)
             u == [t EXCEPT !.version = 0, !.tight = FALSE]
  <1>1. /\ u.version = 0 /\ u.phase = t.phase /\ u.repertoire = t.repertoire /\ u.owed = t.owed
        /\ u.open = t.open /\ u.continuous = t.continuous /\ u.fenced = t.fenced
    BY DEF ServerInv
  <1>2. /\ SameBytes(d, e) /\ SameSession(d, e) /\ SameRequests(d, e) /\ SameDecoder(d, e)
        /\ e.out = d.out /\ e.size = d.size /\ e.halted = d.halted /\ e.askings = d.askings
    BY DEF Connected, Viewer, SameBytes, SameSession, SameRequests, SameDecoder
  <1> HIDE DEF e, u
  <1>3. Viewer(e)
    BY DEF Connected, Viewer, e
  <1>4. Bytes(e) /\ Parses(e, u)
    <2>1. InStep(d, t)
      BY DEF Talking, InStep, ServerInv
    <2>2. Remembers(d, e) /\ e.rect = d.rect /\ e.rects = d.rects
      BY <1>2 DEF Remembers, SameDecoder
    <2>3. InStep(e, t)
      BY <1>2, <1>3, <2>1, <2>2, StepAlike
    <2>4. Stand(u) = Stand(t)
      BY <1>1 DEF Stand
    <2> QED BY <1>1, <2>3, <2>4 DEF InStep, Parses
  <1>5. Owed(e, u)
    <2>1. Owed(d, t)
      BY DEF Talking
    <2>2. e.wire = d.wire /\ e.rects = d.rects
      BY <1>2 DEF SameBytes, SameDecoder
    <2>3. Debts(e, u)
      BY <1>1, <1>2, <2>1, <2>2 DEF Owed, Debts, SameRequests
    <2>4. Awaits(e)
      BY <1>2, <2>1, <2>2 DEF Owed, Awaits, SameRequests
    <2> QED BY <1>2, <2>1, <2>3, <2>4 DEF Owed
  <1>6. Talking(e, u) /\ e.conn = "connected" /\ e.askings = 0
    BY <1>1, <1>2, <1>4, <1>5 DEF Talking, Hears, SameSession
  <1> QED BY <1>1, <1>6 DEF Wired, e, u

(* What becomes of a viewer that a handler left where it may be            *)
LEMMA BecomesWired ==
  ASSUME NEW d, Viewer(d), ServerInv(s), s.version \in Int, Wired(d, s) \/ Over(d), Becomes(d)
  PROVE  WireInv'
  <1>1. CASE d.conn = "connected"
    <2>1. c' = Connected(d) /\ s' = [s EXCEPT !.version = 0, !.tight = FALSE]
      BY <1>1 DEF Becomes, Left
    <2>2. Talking(d, s)
      BY <1>1 DEF Wired, Over
    <2>3. Wired(Connected(d), s') /\ s'.version = 0
      BY <1>1, <2>1, <2>2, ConnectedTalks
    <2> QED BY <2>1, <2>3 DEF WireInv, Wired
  <1>2. CASE d.conn # "connected" /\ Left(d)
    <2>1. c' = Remains(d) /\ s' = NewServer
      BY <1>2 DEF Becomes, Left
    <2>2. Over(d)
      BY <1>2 DEF Wired, Gone, Over, Left
    <2>3. c'.askings = 0 /\ c'.conn = d.conn /\ Gone(c') /\ s'.version = 0
      BY <2>1, <2>2, RemainsGone DEF NewServer
    <2>4. c'.conn \in {"disconnecting", "disconnected"}
      BY <2>2, <2>3 DEF Over
    <2>5. Wired(c', s')
      BY <2>3, <2>4 DEF Wired
    <2> QED BY <2>3, <2>5 DEF WireInv, Wired
  <1>3. CASE d.conn # "connected" /\ ~Left(d)
    <2>1. c' = d /\ s' = s
      BY <1>3 DEF Becomes, Left
    <2>2. Wired(d, s)
      BY <1>3 DEF Over
    <2>3. Wired(c', s') /\ s'.version \in Int
      BY <2>1, <2>2
    <2> QED BY <2>3 DEF WireInv
  <1> QED BY <1>1, <1>2, <1>3

(* A viewer that has left is over if it asks nobody.                       *)
LEMMA PartedOver ==
  ASSUME NEW d, Parted(d), d.askings = 0
  PROVE  Over(d)
  BY DEF Parted, Over, Left

(* A loop over what arrived ends connected or over.                        *)
LEMMA LoopWired ==
  ASSUME NEW d, NEW t, t.phase = "normal", Loop(d, t)
  PROVE  Wired(d, t) \/ Over(d)
  <1>1. CASE Parted(d)
    BY <1>1, PartedOver DEF Loop
  <1>2. CASE ~Parted(d)
    <2>1. /\ d.conn = "connected" /\ d.sock = "open" /\ ~d.halted /\ Hears(d) /\ d.askings = 0
          /\ InStep(d, t) /\ Owed(d, t)
      BY <1>2 DEF Loop
    <2>2. Talking(d, t)
      BY <2>1 DEF Talking, InStep
    <2> QED BY <2>1, <2>2 DEF Wired
  <1> QED BY <1>1, <1>2

(* What decoders remember, they remember of the same rectangle.            *)
LEMMA IdleOn ==
  ASSUME NEW a, Idle(a), NEW b, SameRequests(a, b), SameDecoder(a, b), b.size = a.size,
         b.halted = a.halted
  PROVE  Idle(b)
  <1>1. DecoderFits(b)
    BY DEF Idle, SameDecoder, DecoderFits, RawFits, RREFits, HextileFits, TightFits, Decoding,
           Begun, TightIdle
  <1> QED BY <1>1 DEF Idle, SameDecoder, SameRequests

(* Who talks has begun.                                                    *)
LEMMA TalkOpened ==
  ASSUME NEW d, NEW t, Talk(d, t)
  PROVE  Opened(d)
  BY Zenon DEF Talk, TalkVersion, TalkSecurity, TalkAuth, TalkResult, TalkReason, TalkInit, Opened

(* A handler that talks, and left off where it may, goes on shaking.       *)
LEMMA ShakingOn ==
  ASSUME NEW a, NEW t, Shaking(a, t), a.sock = "open", NEW b, Shakes(a, b), Bytes(b), b.at = 0,
         Talk(b, t), b.askings = 1 => Asks(b), t.phase = "normal" => Debts(b, t)
  PROVE  Shaking(b, t)
  <1>1. Idle(b)
    BY IdleOn DEF Shaking, Shakes
  <1>2. Hears(b) /\ b.sock = "open"
    BY DEF Shaking, Shakes, SameSession, Hears
  <1>3. Opened(b)
    BY TalkOpened
  <1>4. t.phase # "normal" => Quiet(t)
    BY DEF Shaking
  <1> QED BY <1>1, <1>2, <1>3, <1>4 DEF Shaking

(* Promises are about what a handler that waits leaves alone.              *)
LEMMA DebtsAlike ==
  ASSUME NEW a, NEW t, Debts(a, t), NEW b, Alike(a, b)
  PROVE  Debts(b, t)
  BY DEF Debts, Alike, SameElse, SameBytes, SameRequests, SameDecoder

(* A message event in the handshake leaves it in step, or ends it.         *)
LEMMA HandshookWired ==
  ASSUME NEW a, NEW b, NEW t, Shaking(a, t), a.conn = "connecting", a.sock = "open",
         Handshook(a, b, t)
  PROVE  Wired(b, t) \/ Over(b)
  <1>1. CASE Parted(b) /\ b.askings = 0
    BY <1>1, PartedOver
  <1>2. CASE Loop(b, t) /\ b.conn = "connected" /\ t.phase = "normal"
    BY <1>2, LoopWired
  <1>3. ASSUME Shakes(a, b), Bytes(b), b.at = 0, Talk(b, t),
               (b.askings = 1 /\ Asks(b)) \/ (b.askings = 0 /\ Waits(b)),
               t.phase = "normal" => Alike(a, b)
        PROVE  Wired(b, t)
    <2>1. t.phase = "normal" => Debts(b, t)
      BY <1>3, DebtsAlike DEF Shaking
    <2>2. b.conn = "connecting"
      BY <1>3 DEF Shakes, SameSession
    <2>3. Shaking(b, t)
      BY <1>3, <2>1, ShakingOn
    <2> QED BY <1>3, <2>2, <2>3 DEF Wired
  <1> QED BY <1>1, <1>2, <1>3 DEF Handshook, Shook

(* The handshake resumes where it asked. *)
Answered(a, b) ==
    /\ Shakes(a, b) /\ SameBytes(a, b) /\ b.out = a.out /\ b.askings = 0
    /\ b.init = a.init /\ b.version = a.version /\ b.scheme = a.scheme
    /\ b.tight = a.tight /\ b.vencrypt = a.vencrypt /\ b.subtypes = a.subtypes

(* An answer of the page takes one request for it away.                    *)
LEMMA ResumeAnswers ==
  ASSUME NEW d, Viewer(d), d.askings = 1
  PROVE  Answered(d, [d EXCEPT !.askings = @ - 1])
  <1> DEFINE e == [d EXCEPT !.askings = d.askings - 1]
  <1>1. /\ Shakes(d, e) /\ SameBytes(d, e) /\ e.out = d.out /\ e.askings = d.askings - 1
        /\ e.init = d.init /\ e.version = d.version /\ e.scheme = d.scheme
        /\ e.tight = d.tight /\ e.vencrypt = d.vencrypt /\ e.subtypes = d.subtypes
    BY DEF Shakes, SameBytes, SameSession, SameRequests, SameDecoder, Viewer
  <1> HIDE DEF e
  <1> QED BY <1>1 DEF Answered, e

(* There it authenticates itself.                                          *)
LEMMA AsksResume ==
  ASSUME NEW e, Asks(e)
  PROVE  InitMsg(e) = NegotiateAuthentication(e)
  <1>1. e.init = "Authentication" /\ (e.wire = <<>> \/ e.wire = <<Challenge>>) /\ e.at = 0
    BY DEF Asks
  <1>2. CASE e.wire = <<>>
    BY <1>1, <1>2 DEF InitMsg
  <1>3. CASE e.wire = <<Challenge>>
    <2>1. e.wire # <<>> /\ Head(e.wire).type = "challenge"
      BY <1>3 DEF Challenge
    <2>2. "challenge" \in Expected(e)
      BY <1>1 DEF Expected
    <2>3. AtPart(e, Expected(e))
      BY <1>1, <2>1, <2>2 DEF AtPart, Part
    <2> QED BY <1>1, <2>1, <2>3 DEF InitMsg
  <1> QED BY <1>1, <1>2, <1>3

(* It goes on as before, with the page's answer.                           *)
LEMMA ResumeWired ==
  ASSUME NEW d, NEW t, Viewer(d), Wired(d, t), d.conn = "connecting", d.askings = 1,
         NEW e, Answered(d, e)
  PROVE  Wired(InitMsg(e), t) \/ Over(InitMsg(e))
  <1>1. Shaking(d, t) /\ Asks(d) /\ d.sock = "open" /\ Talk(d, t) /\ Bytes(d) /\ d.at = 0
    BY DEF Wired, Shaking
  <1>2. TalkAuth(d, t)
    BY <1>1, Zenon DEF Asks, Talk, TalkVersion, TalkSecurity, TalkResult, TalkReason, TalkInit
  <1>3. /\ TalkAsking(d, t) /\ d.version = t.version
        /\ d.scheme # 19 => d.vencrypt = 0
    BY <1>2 DEF TalkAuth
  <1>4. Bytes(e) /\ e.at = 0 /\ e.wire = d.wire /\ e.avail = d.avail
    BY <1>1, BytesOn DEF Answered
  <1>5. Shaker(e) /\ Shakes(d, e)
    BY <1>1, <1>4 DEF Answered, Shaker, Shakes, SameSession
  <1>6. Auth(e, t)
    BY <1>1, <1>3, <1>5 DEF Auth, Answered, Asks
  <1>7. TalkAsking(e, t)
    <2>1. \A w : (Said(d, w) => Said(e, w)) /\ (Heard(d, w) => Heard(e, w))
      BY <1>4 DEF Said, Heard, Answered
    <2>2. e.tight = d.tight /\ e.scheme = d.scheme /\ e.vencrypt = d.vencrypt
      BY DEF Answered
    <2> QED BY <1>3, <2>1, <2>2 DEF TalkAsking
  <1>8. Asks(e)
    BY <1>1, <1>4 DEF Asks, Answered
  <1>9. InitMsg(e) = NegotiateAuthentication(e)
    BY <1>8, AsksResume
  <1>10. Shook(e, InitMsg(e), t)
    BY <1>6, <1>7, <1>9, AskedShook
  <1>11. Shook(d, InitMsg(e), t)
    BY <1>5, <1>10, ShookOn
  <1>12. t.phase # "normal"
    BY <1>2, NormalTalk
  <1> QED BY <1>1, <1>11, <1>12, HandshookWired DEF Handshook

(* A viewer that has left may still be answered: it goes on by itself,     *)
(* says nothing, and may ask again.                                        *)
Resumed(a, b) ==
    /\ b.conn = a.conn /\ b.sock = a.sock /\ ~b.lost /\ b.askings \in {0, 1}
    /\ b.askings = 1 => Asks(b)

(* An answer that comes when the socket has gone changes nothing of this.  *)
LEMMA GoneResumes ==
  ASSUME NEW e, Viewer(e), Asks(e), ~e.lost, e.sock # "open", e.askings = 0
  PROVE  Resumed(e, InitMsg(e))
  <1>1. /\ e.init = "Authentication" /\ e.at = 0
        /\ \/ e.scheme = 2 /\ e.wire = <<Challenge>> /\ e.avail = 16
           \/ e.scheme \in {22, 129} /\ e.wire = <<>> /\ e.avail = 0
           \/ e.scheme = 19 /\ e.vencrypt = 4 /\ e.wire = <<>> /\ e.avail = 0
    BY DEF Asks
  <1> DEFINE r == RequireCredentials(e)
             l == Say([e EXCEPT !.init = "SecurityResult"], <<"login">>)
  <1>2. Resumed(e, r)
    <2>1. AsksNow(e, r)
      BY Requires
    <2> HIDE DEF r
    <2> QED BY <1>1, <2>1 DEF AsksNow, Shakes, SameSession, SameBytes, Resumed, Asks
  <1>3. Resumed(e, l)
    <2>1. l = [e EXCEPT !.init = "SecurityResult"]
      BY DEF Say, Viewer
    <2> QED BY <2>1 DEF Resumed, Viewer
  <1>4. CASE e.scheme = 2
    <2> DEFINE g == [Skip(e, 16) EXCEPT !.init = "SecurityResult"]
    <2>1. e.wire = <<Challenge>> /\ e.avail = 16 /\ Part(e).len = 16
      BY <1>1, <1>4 DEF Part, Challenge
    <2>2. Skip(e, 16) = [e EXCEPT !.wire = Tail(e.wire), !.at = 0, !.avail = e.avail - 16]
      BY <1>1, <2>1 DEF Skip
    <2>3. g.conn = e.conn /\ g.sock = e.sock /\ ~g.lost /\ g.askings = 0
      BY <2>2 DEF Viewer
    <2>4. InitMsg(e) = NegotiateStdVNCAuth(e)
      BY <1>4, AsksResume DEF NegotiateAuthentication
    <2>5. Say(g, <<"response">>) = g
      BY <2>3 DEF Say
    <2>6. ~Short(e, 16)
      BY <2>1 DEF Short
    <2>7. NegotiateStdVNCAuth(e) = IF "password" \notin e.creds THEN r ELSE g
      BY <2>5, <2>6 DEF NegotiateStdVNCAuth
    <2> HIDE DEF g, r
    <2> QED BY <1>2, <2>3, <2>4, <2>7 DEF Resumed
  <1>5. CASE e.scheme = 22
    <2> DEFINE g == [e EXCEPT !.scheme = 2]
    <2>1. InitMsg(e) = NegotiateXvpAuth(e)
      BY <1>5, AsksResume DEF NegotiateAuthentication
    <2>2. g.conn = e.conn /\ g.sock = e.sock /\ ~g.lost /\ g.askings = 0 /\ g.avail = 0
      BY <1>1, <1>5 DEF Viewer
    <2>3. NegotiateStdVNCAuth(Say(g, <<"target">>)) = g
      <3>1. Say(g, <<"target">>) = g
        BY <2>2 DEF Say
      <3>2. Short(g, 16)
        BY <2>2 DEF Short
      <3> HIDE DEF g
      <3> QED BY <3>1, <3>2 DEF NegotiateStdVNCAuth
    <2>4. NegotiateXvpAuth(e) \in {g, r}
      BY <2>3 DEF NegotiateXvpAuth
    <2> HIDE DEF g, r
    <2> QED BY <1>2, <2>1, <2>2, <2>4 DEF Resumed
  <1>6. CASE e.scheme = 129
    <2>1. InitMsg(e) = NegotiateTightUnixAuth(e)
      BY <1>6, AsksResume DEF NegotiateAuthentication
    <2> QED BY <1>2, <1>3, <2>1 DEF NegotiateTightUnixAuth
  <1>7. CASE e.scheme = 19
    <2>1. InitMsg(e) = NegotiateVeNCryptAuth(e)
      BY <1>7, AsksResume DEF NegotiateAuthentication
    <2>2. NegotiateVeNCryptAuth(e) = VeNCryptLogin(e)
      BY <1>1, <1>7 DEF NegotiateVeNCryptAuth
    <2> QED BY <1>2, <1>3, <2>1, <2>2 DEF VeNCryptLogin
  <1> QED BY <1>1, <1>4, <1>5, <1>6, <1>7

-----------------------------------------------------------------------------
(* The steps of the viewer                                                 *)

(* What both invariants say of the viewer and the server                   *)
LEMMA BothSay ==
  ASSUME DrawInv, WireInv
  PROVE  /\ Viewer(c) /\ Sound(c) /\ Rest(c) /\ ServerInv(s) /\ s.version \in Int /\ Wired(c, s)
         /\ c.conn = "connecting" =>
              /\ Shaking(c, s) /\ (c.askings = 0 => Waits(c)) /\ Hears(c)
              /\ Opened(c) <=> c.sock = "open"
              /\ ~Opened(c) => c.sock = "connecting"
         /\ c.conn = "connected" => Talking(c, s) /\ Hears(c) /\ c.sock = "open" /\ c.askings = 0
         /\ c.conn \notin {"connecting", "connected"} =>
              c.conn \in {"disconnecting", "disconnected"} /\ Gone(c)
  <1>1. Viewer(c) /\ Sound(c) /\ Rest(c) /\ ServerInv(s) /\ s.version \in Int /\ Wired(c, s)
    BY DEF DrawInv, ViewerInv, Sound, WireInv
  <1>2. c.conn = "connecting" => Shaking(c, s) /\ (c.askings = 0 => Waits(c))
    BY <1>1 DEF Wired
  <1>3. c.conn = "connecting" =>
          Hears(c) /\ (Opened(c) => c.sock = "open") /\ (~Opened(c) => c.sock = "connecting")
    BY <1>2 DEF Shaking
  <1>4. c.conn = "connected" => Talking(c, s)
    BY <1>1 DEF Wired
  <1>5. c.conn \notin {"connecting", "connected"} =>
          c.conn \in {"disconnecting", "disconnected"} /\ Gone(c)
    BY <1>1 DEF Wired
  <1> QED BY <1>1, <1>2, <1>3, <1>4, <1>5 DEF Talking

(* When the socket opens the handshake begins.                             *)
LEMMA OpenWired ==
  ASSUME DrawInv, WireInv, Open
  PROVE  WireInv'
  <1> DEFINE d == [c EXCEPT !.sock = "open"]
             e == [d EXCEPT !.init = "ProtocolVersion"]
  <1>1. c.sock = "connecting" /\ Becomes(IF c.onOpen THEN SocketOpen(d) ELSE d)
    BY DEF Open
  <1>2. c.conn = "connecting" /\ ~Opened(c) /\ Shaking(c, s) /\ c.onOpen /\ Viewer(c)
    BY <1>1, BothSay DEF Gone, Hears
  <1>3. d.conn = "connecting" /\ d.init = c.init /\ Viewer(d)
    BY <1>2 DEF Viewer
  <1> HIDE DEF d
  <1>4. SocketOpen(d) = e
    BY <1>2, <1>3, Zenon DEF SocketOpen, Opened
  <1>5. /\ Viewer(e) /\ e.sock = "open" /\ e.init = "ProtocolVersion" /\ e.conn = "connecting"
        /\ SameBytes(c, e) /\ SameRequests(c, e) /\ SameDecoder(c, e) /\ e.out = c.out
        /\ e.size = c.size /\ e.halted = c.halted /\ e.tight = c.tight
        /\ e.vencrypt = c.vencrypt /\ e.askings = c.askings
        /\ e.onOpen = c.onOpen /\ e.onMessage = c.onMessage /\ e.onClose = c.onClose
        /\ e.timer = c.timer
    BY <1>2 DEF Viewer, SameBytes, SameRequests, SameDecoder, d
  <1> HIDE DEF e
  <1>6. /\ Idle(c) /\ Bytes(c) /\ c.at = 0 /\ Hears(c) /\ c.askings = 0 /\ Said(c, <<>>)
        /\ s = NewServer /\ ~c.tight /\ c.vencrypt = 0
    BY <1>2 DEF Shaking
  <1>7. s.phase = "announce" /\ ~s.tight /\ Quiet(s)
    BY <1>2, <1>6 DEF NewServer, Quiet
  <1>8. TalkVersion(e, s)
    BY <1>5, <1>6, <1>7 DEF TalkVersion, Said, SameBytes
  <1>9. Talk(e, s) /\ Opened(e)
    BY <1>8, TalkOpened DEF Talk
  <1>10. Idle(e) /\ Hears(e)
    BY <1>5, <1>6, IdleOn DEF Hears
  <1>11. Bytes(e) /\ e.at = 0 /\ e.wire = <<>>
    BY <1>5, <1>6, BytesOn DEF Said
  <1>12. Shaking(e, s)
    BY <1>5, <1>6, <1>7, <1>9, <1>10, <1>11 DEF Shaking
  <1>13. Wired(e, s)
    BY <1>5, <1>6, <1>11, <1>12 DEF Wired, Waits
  <1>14. Becomes(e)
    BY <1>1, <1>2, <1>4
  <1> QED BY <1>5, <1>13, <1>14, BecomesWired, BothSay

(* A viewer that asked the page has taken all that was sent.               *)
LEMMA AskingTakes ==
  ASSUME Asks(c), Bytes(c)
  PROVE  UnderWay = 0
  <1>1. c.at = 0
        /\ \/ c.scheme = 2 /\ c.wire = <<Challenge>> /\ c.avail = 16
           \/ c.scheme \in {22, 129} /\ c.wire = <<>> /\ c.avail = 0
           \/ c.scheme = 19 /\ c.vencrypt = 4 /\ c.wire = <<>> /\ c.avail = 0
    BY DEF Asks
  <1>2. CASE c.wire = <<>> /\ c.avail = 0
    <2>1. Total(c.wire) = 0
      BY <1>2, TotalNone
    <2> QED BY <1>1, <1>2, <2>1 DEF UnderWay
  <1>3. CASE c.wire = <<Challenge>> /\ c.avail = 16
    <2>1. c.wire # <<>> /\ Head(c.wire).len = 16 /\ Tail(c.wire) = <<>>
      BY <1>3 DEF Challenge
    <2>2. Total(c.wire) = Head(c.wire).len + Total(Tail(c.wire))
      BY <2>1, WholeFirst DEF Bytes
    <2>3. Total(Tail(c.wire)) = 0
      BY <2>1, TotalNone
    <2>4. Total(c.wire) = 16
      BY <2>1, <2>2, <2>3
    <2> QED BY <1>1, <1>3, <2>4 DEF UnderWay
  <1> QED BY <1>1, <1>2, <1>3

(* Bytes arrive, and the handlers take what they can.                      *)
LEMMA ReceiveWired ==
  ASSUME DrawInv, WireInv, NEW n, Receive(n)
  PROVE  WireInv'
  <1> DEFINE d == [c EXCEPT !.avail = c.avail + n]
             e == HandleMessage(d)
  <1>1. c.sock = "open" /\ n \in 1 .. UnderWay /\ Becomes(IF c.onMessage THEN e ELSE d)
    BY DEF Receive
  <1>2. Viewer(c) /\ s.version \in Int /\ ServerInv(s) /\ Sound(c) /\ Rest(c)
    BY BothSay
  <1>3. c.conn \in {"connecting", "connected"} /\ Hears(c) /\ Bytes(c)
    BY <1>1, BothSay DEF Gone, Shaking, Talking
  <1>4. Becomes(e)
    BY <1>1, <1>3 DEF Hears
  <1>5. Viewer(e)
    <2>1. Sound(d) /\ Rest(d)
      BY <1>2, BrowserFields DEF ViewerInv
    <2> HIDE DEF d
    <2>2. Call(d, HandleMessage(d))
      BY <2>1, HandleMessageCall
    <2> QED BY <2>2 DEF Call, Sound
  <1>6. /\ SameSession(c, d) /\ SameTalk(c, d) /\ SameRequests(c, d) /\ SameDecoder(c, d)
        /\ d.out = c.out /\ d.size = c.size /\ d.halted = c.halted /\ d.wire = c.wire
        /\ d.at = c.at /\ d.lost = c.lost /\ d.avail = c.avail + n /\ Viewer(d)
    BY <1>2 DEF SameSession, SameTalk, SameRequests, SameDecoder, Viewer
  <1> HIDE DEF d
  <1>7. n \in Int /\ n >= 1 /\ Total(c.wire) \in Nat /\ c.at + c.avail + n <= Total(c.wire)
        /\ c.at \in Nat /\ c.avail \in Nat
    <2>1. Total(c.wire) \in Nat /\ c.at \in Nat /\ c.avail \in Nat
      BY <1>3, WholeMeasured DEF Bytes
    <2> QED BY <1>1, <2>1 DEF UnderWay
  <1>8. Bytes(d) /\ d.avail > 0
    BY <1>3, <1>6, <1>7 DEF Bytes
  <1>9. CASE c.conn = "connecting"
    <2>1. Shaking(c, s) /\ Opened(c) /\ Talk(c, s) /\ Idle(c)
      BY <1>1, <1>9, BothSay DEF Shaking
    <2>2. c.askings = 0
      <3>1. c.askings = 1 => UnderWay = 0
        BY <1>3, <2>1, AskingTakes DEF Shaking
      <3>2. UnderWay # 0
        BY <1>1, <1>7
      <3> QED BY <3>1, <3>2, BothSay DEF Wired
    <2>3. Talk(d, s) /\ Opened(d)
      BY <1>6, <2>1, TalkOn, TalkOpened
    <2>4. Idle(d) /\ Hears(d)
      BY <1>3, <1>6, <2>1, IdleOn DEF Hears, SameSession
    <2>5. s.phase = "normal" => Debts(d, s)
      BY <1>6, <2>1 DEF Shaking, Debts, SameRequests, SameDecoder
    <2>6. d.askings = 0 /\ d.at = 0 /\ d.conn = "connecting" /\ d.sock = "open"
      BY <1>1, <1>6, <1>9, <2>1, <2>2 DEF SameTalk, SameSession, Shaking
    <2>7. Shaking(d, s)
      BY <1>8, <2>1, <2>3, <2>4, <2>5, <2>6 DEF Shaking
    <2>8. s.phase = "normal" => s.repertoire \in DOMAIN Repertoires
      BY <1>2 DEF ServerInv
    <2>9. Handshook(d, InitMsg(d), s)
      BY <1>2, <1>6, <1>8, <2>3, <2>6, <2>7, <2>8, InitMsgShook
    <2>10. e = InitMsg(d)
      BY <1>6, <1>7, <1>8, <2>6 DEF HandleMessage
    <2> HIDE DEF e
    <2>11. Wired(e, s) \/ Over(e)
      BY <2>6, <2>7, <2>9, <2>10, HandshookWired
    <2> QED BY <1>2, <1>4, <1>5, <2>11, BecomesWired
  <1>10. CASE c.conn = "connected"
    <2>1. Talking(c, s) /\ s.phase = "normal" /\ Owed(c, s)
      BY <1>10, BothSay DEF Talking
    <2>2. InStep(d, s)
      <3>1. InStep(c, s)
        BY <1>2, <2>1 DEF Talking, InStep, ServerInv
      <3>2. Remembers(c, d) /\ d.rect = c.rect /\ d.rects = c.rects
        BY <1>6 DEF SameDecoder, Remembers
      <3> QED BY <1>6, <1>8, <3>1, <3>2, StepOn
    <2>3. Owed(d, s)
      <3>1. Debts(d, s)
        BY <1>6, <2>1 DEF Owed, Debts, SameRequests, SameDecoder
      <3>2. Awaits(d)
        BY <1>6, <2>1 DEF Owed, Awaits, SameRequests, SameDecoder
      <3> QED BY <1>6, <2>1, <3>1, <3>2 DEF Owed
    <2>4. d.askings = 0 /\ d.sock = "open" /\ d.conn = "connected" /\ Hears(d) /\ ~d.halted
      BY <1>1, <1>3, <1>6, <1>10, <2>1 DEF SameTalk, SameSession, Hears, Talking
    <2>5. Loop(d, s)
      BY <1>2, <1>6, <2>1, <2>2, <2>3, <2>4 DEF Loop, ServerInv
    <2>6. Loop(e, s)
      BY <2>4, <2>5, ConnectedHandles
    <2> HIDE DEF e
    <2>7. Wired(e, s) \/ Over(e)
      BY <2>1, <2>6, LoopWired
    <2> QED BY <1>2, <1>4, <1>5, <2>7, BecomesWired
  <1> QED BY <1>3, <1>9, <1>10

(* What asks the page is in the middle of nothing.                         *)
LEMMA AsksAlways ==
  ASSUME DrawInv, WireInv
  PROVE  ~c.lost /\ c.askings \in {0, 1} /\ (c.askings = 1 => Asks(c))
  <1>1. CASE c.conn = "connecting"
    BY <1>1, BothSay DEF Shaking, Bytes, Wired
  <1>2. CASE c.conn = "connected"
    BY <1>2, BothSay DEF Talking, Bytes
  <1>3. CASE c.conn \notin {"connecting", "connected"}
    BY <1>3, BothSay DEF Gone, Wired
  <1> QED BY <1>1, <1>2, <1>3

(* A viewer that leaves may still be answered.                             *)
LEMMA GoneOn ==
  ASSUME NEW a, ~a.lost, a.askings \in {0, 1}, a.askings = 1 => Asks(a),
         NEW b, SameTalk(a, b), SameBytes(a, b), b.sock \notin {"open", "connecting"},
         b.conn \in {"disconnecting", "disconnected"}, NEW t
  PROVE  Wired(b, t)
  <1>1. b.askings = 1 => Asks(b)
    BY DEF Asks, SameTalk, SameBytes
  <1>2. Gone(b) /\ b.askings \in {0, 1}
    BY <1>1 DEF Gone, SameTalk, SameBytes
  <1> QED BY <1>2 DEF Wired

(* When the socket closes the viewer has left.                             *)
LEMMA CloseWired ==
  ASSUME DrawInv, WireInv, Close
  PROVE  WireInv'
  <1> DEFINE d == [c EXCEPT !.sock = "closed"]
             e == UpdateConnectionState(d, "disconnected")
             x == IF d.conn \in {"connecting", "connected"} THEN Leave(d) ELSE e
             y == IF c.onClose THEN SocketClose(d) ELSE d
  <1>1. Becomes(y)
    BY DEF Close
  <1>2. Viewer(c) /\ (c.conn \in {"connecting", "connected"} => c.onClose)
    BY BothSay DEF Hears
  <1>3. Viewer(d) /\ SameTalk(c, d) /\ SameBytes(c, d) /\ d.sock = "closed" /\ d.conn = c.conn
    BY <1>2 DEF Viewer, SameTalk, SameBytes
  <1> HIDE DEF d
  <1>4. CASE ~c.onClose
    <2>1. y = d /\ d.conn \in {"disconnecting", "disconnected"}
      BY <1>2, <1>3, <1>4, BothSay
    <2>2. Wired(d, s)
      BY <1>3, <2>1, AsksAlways, GoneOn
    <2> QED BY <1>1, <1>3, <2>1, <2>2, BothSay, BecomesWired
  <1>5. CASE c.onClose
    <2>1. y = [x EXCEPT !.onClose = FALSE]
      BY <1>5 DEF SocketClose
    <2>2. /\ Viewer(x) /\ SameTalk(d, x) /\ SameBytes(d, x)
          /\ x.sock \notin {"open", "connecting"} /\ x.conn \in {"disconnecting", "disconnected"}
      <3>1. CASE d.conn \in {"connecting", "connected"}
        BY <1>3, <3>1, LeaveBreaks DEF Broken
      <3>2. CASE d.conn \notin {"connecting", "connected"}
        <4>1. c.conn \in {"disconnecting", "disconnected"}
          BY <1>3, <3>2, BothSay
        <4>2. CASE d.conn = "disconnecting"
          BY <1>3, <3>2, <4>2
             DEF UpdateConnectionState, Transitions, Viewer, SameTalk, SameBytes
        <4>3. CASE d.conn = "disconnected"
          <5>1. x = d
            BY <3>2, <4>3 DEF UpdateConnectionState, Transitions
          <5> HIDE DEF x
          <5> QED BY <1>3, <4>3, <5>1 DEF SameTalk, SameBytes
        <4> QED BY <1>3, <4>1, <4>2, <4>3
      <3> QED BY <3>1, <3>2
    <2> HIDE DEF x
    <2> DEFINE z == [x EXCEPT !.onClose = FALSE]
    <2>3. /\ Viewer(z) /\ SameTalk(c, z) /\ SameBytes(c, z) /\ z.conn = x.conn /\ z.sock = x.sock
      BY <1>3, <2>2 DEF Viewer, SameTalk, SameBytes
    <2> HIDE DEF z
    <2>4. Wired(z, s)
      BY <2>2, <2>3, AsksAlways, GoneOn
    <2>5. Becomes(z)
      BY <1>1, <2>1 DEF z
    <2> QED BY <2>3, <2>4, <2>5, BothSay, BecomesWired
  <1> QED BY <1>4, <1>5

(* The timer runs only when the viewer leaves.                             *)
LEMMA TimeoutWired ==
  ASSUME DrawInv, WireInv, DisconnectTimeout
  PROVE  WireInv'
  <1> DEFINE e == UpdateConnectionState(c, "disconnected")
  <1>1. c.timer /\ Becomes(e)
    BY DEF DisconnectTimeout
  <1>2. c.conn \in {"disconnecting", "disconnected"} /\ Gone(c) /\ Viewer(c)
    BY <1>1, BothSay DEF Hears
  <1>3. Viewer(e) /\ SameTalk(c, e) /\ SameBytes(c, e) /\ e.sock = c.sock /\ e.conn = "disconnected"
    <2>1. CASE c.conn = "disconnecting"
      BY <1>2, <2>1 DEF UpdateConnectionState, Transitions, Viewer, SameTalk, SameBytes
    <2>2. CASE c.conn = "disconnected"
      <3>1. e = c
        BY <2>2 DEF UpdateConnectionState, Transitions
      <3> HIDE DEF e
      <3> QED BY <1>2, <2>2, <3>1 DEF SameTalk, SameBytes
    <2> QED BY <1>2, <2>1, <2>2
  <1> HIDE DEF e
  <1>4. Wired(e, s)
    BY <1>2, <1>3, AsksAlways, GoneOn DEF Gone
  <1> QED BY <1>1, <1>3, <1>4, BothSay, BecomesWired

(* The page may disconnect at any time.                                    *)
LEMMA PageWired ==
  ASSUME DrawInv, WireInv, PageDisconnects
  PROVE  WireInv'
  <1> DEFINE u == UpdateConnectionState(c, "disconnecting")
             e == [u EXCEPT !.onMessage = FALSE, !.onOpen = FALSE]
  <1>1. Becomes(e)
    BY DEF PageDisconnects, UserDisconnect
  <1>2. Viewer(c)
    BY BothSay
  <1>3. /\ Viewer(u) /\ SameTalk(c, u) /\ SameBytes(c, u) /\ u.sock \notin {"open", "connecting"}
        /\ u.conn \in {"disconnecting", "disconnected"}
    <2>1. CASE c.conn \in {"connecting", "connected"}
      <3> DEFINE v == Disconnect(c)
      <3>1. u = [v EXCEPT !.conn = "disconnecting", !.timer = TRUE]
        BY <2>1 DEF UpdateConnectionState, Transitions
      <3>2. /\ Viewer(v) /\ SameBytes(c, v) /\ SameTalk(c, v) /\ v.sock \notin {"connecting", "open"}
        BY <1>2 DEF Disconnect, Viewer, SameBytes, SameTalk
      <3> HIDE DEF v
      <3> QED BY <3>1, <3>2, SMTT(20), ZenonT(40) DEF Viewer, SameBytes, SameTalk
    <2>2. CASE c.conn \notin {"connecting", "connected"}
      <3>1. u = c
        BY <2>2 DEF UpdateConnectionState, Transitions
      <3> HIDE DEF u
      <3> QED BY <1>2, <2>2, <3>1, BothSay DEF Gone, SameBytes, SameTalk
    <2> QED BY <2>1, <2>2
  <1> HIDE DEF u
  <1>4. /\ Viewer(e) /\ SameTalk(c, e) /\ SameBytes(c, e) /\ e.sock = u.sock /\ e.conn = u.conn
    BY <1>3 DEF Viewer, SameTalk, SameBytes
  <1> HIDE DEF e
  <1>5. Wired(e, s)
    BY <1>3, <1>4, AsksAlways, GoneOn
  <1> QED BY <1>1, <1>4, <1>5, BothSay, BecomesWired

(* The page answers, in time or not.                                       *)
LEMMA ResumeHandshakeWired ==
  ASSUME DrawInv, WireInv, ResumeHandshake
  PROVE  WireInv'
  <1> DEFINE d == [c EXCEPT !.askings = @ - 1]
             e == InitMsg(d)
  <1>1. c.askings > 0 /\ Becomes(e)
    BY DEF ResumeHandshake
  <1>2. Viewer(c) /\ c.askings = 1 /\ Asks(c) /\ ~c.lost /\ Sound(c) /\ Rest(c) /\ Wired(c, s)
    BY <1>1, AsksAlways, BothSay
  <1>3. Answered(c, d)
    BY <1>2, ResumeAnswers
  <1>4. Sound(d) /\ Rest(d)
    BY <1>2, BrowserFields DEF ViewerInv
  <1> HIDE DEF d
  <1>5. Viewer(e)
    BY <1>4, InitMsgCall DEF Call, Sound
  <1>6. CASE c.conn = "connecting"
    <2>1. Wired(e, s) \/ Over(e)
      BY <1>2, <1>3, <1>6, ResumeWired
    <2> QED BY <1>1, <1>5, <2>1, BothSay, BecomesWired
  <1>7. CASE c.conn # "connecting"
    <2>1. c.conn \in {"disconnecting", "disconnected"} /\ Gone(c)
      BY <1>2, <1>7, BothSay
    <2>2. /\ Asks(d) /\ Viewer(d) /\ ~d.lost /\ d.askings = 0 /\ d.sock = c.sock
          /\ d.conn = c.conn
      BY <1>2, <1>3 DEF Answered, Asks, Shakes, SameSession, SameBytes
    <2>3. Resumed(d, e)
      BY <2>1, <2>2, GoneResumes DEF Gone
    <2> HIDE DEF e
    <2>4. Gone(e) /\ e.askings \in {0, 1} /\ e.conn \in {"disconnecting", "disconnected"}
      BY <2>1, <2>2, <2>3 DEF Resumed, Gone
    <2>5. Wired(e, s)
      BY <2>4 DEF Wired
    <2> QED BY <1>1, <1>5, <2>5, BothSay, BecomesWired
  <1> QED BY <1>6, <1>7

(* What an image that has loaded changes, apart from the screen            *)
Shows(a, b) ==
    /\ Viewer(b) /\ SameBytes(a, b) /\ SameSession(a, b) /\ SameTalk(a, b) /\ SameDecoder(a, b)
    /\ b.out = a.out /\ b.size = a.size /\ b.halted = a.halted
    /\ b.asked = a.asked /\ b.continuous = a.continuous /\ b.knowsContinuous = a.knowsContinuous
    /\ b.dropped = a.dropped /\ b.region = a.region

(* To draw shows the same.                                                 *)
LEMMA AlikeShows ==
  ASSUME NEW a, NEW b, Alike(a, b)
  PROVE  Shows(a, b)
  BY DEF Alike, SameElse, Shows, SameRequests

(* A viewer that is connected stays in step.                               *)
LEMMA ShowsLoop ==
  ASSUME DrawInv, WireInv, c.conn = "connected", NEW b, Shows(c, b)
  PROVE  Loop(b, s)
  <1>1. /\ Talking(c, s) /\ Hears(c) /\ c.sock = "open" /\ c.askings = 0 /\ Viewer(c)
        /\ ServerInv(s)
    BY BothSay
  <1>2. Bytes(c) /\ Parses(c, s) /\ Owed(c, s) /\ ~c.halted /\ s.phase = "normal"
    BY <1>1 DEF Talking
  <1>3. InStep(c, s)
    BY <1>1, <1>2 DEF InStep, ServerInv
  <1>4. /\ b.wire = c.wire /\ b.at = c.at /\ b.avail = c.avail /\ (b.lost <=> c.lost)
        /\ Remembers(c, b) /\ b.rect = c.rect /\ b.rects = c.rects /\ Viewer(b)
    BY DEF Shows, SameBytes, SameDecoder, Remembers
  <1>5. Bytes(b)
    BY <1>2, <1>4 DEF Bytes
  <1>6. InStep(b, s)
    BY <1>3, <1>4, <1>5, StepOn
  <1>7. Debts(b, s)
    BY <1>2, <1>4 DEF Owed, Debts, Shows
  <1>8. Awaits(b) /\ b.out \in Seq({<<"fence">>})
    BY <1>2, <1>4 DEF Owed, Awaits, Shows
  <1>9. b.conn = "connected" /\ b.sock = "open" /\ b.askings = 0 /\ ~b.halted /\ Hears(b)
    BY <1>1, <1>2 DEF Shows, SameSession, SameTalk, Hears
  <1>10. s.repertoire \in DOMAIN Repertoires
    BY <1>3 DEF InStep
  <1> QED BY <1>4, <1>6, <1>7, <1>8, <1>9, <1>10 DEF Loop, Owed

(* So does one that shakes hands, or has left.                             *)
LEMMA AlikeWired ==
  ASSUME DrawInv, WireInv, NEW b, Alike(c, b)
  PROVE  Wired(b, s) \/ Over(b)
  <1>1. Shows(c, b)
    BY AlikeShows
  <1>2. CASE c.conn = "connected"
    <2>1. Loop(b, s)
      BY <1>1, <1>2, ShowsLoop
    <2> QED BY <1>2, <2>1, LoopWired, BothSay DEF Talking
  <1>3. CASE c.conn = "connecting"
    <2>1. Shaking(c, s) /\ (c.askings = 0 => Waits(c)) /\ c.askings \in {0, 1}
      BY <1>3, BothSay, AsksAlways
    <2>2. /\ SameBytes(c, b) /\ SameTalk(c, b) /\ SameSession(c, b) /\ b.out = c.out
      BY DEF Alike, SameElse
    <2>3. b.conn = "connecting" /\ b.askings \in {0, 1} /\ b.askings = c.askings
      BY <1>3, <2>1, <2>2 DEF SameSession, SameTalk
    <2>4. b.askings = 0 => Waits(b)
      BY <2>1, <2>2 DEF Waits, SameBytes, SameTalk
    <2>5. b.askings = 1 => Asks(b)
      BY <2>1, <2>2 DEF Asks, SameBytes, SameTalk, Shaking
    <2>6. Bytes(b) /\ b.at = 0
      BY <2>1, <2>2 DEF Bytes, SameBytes, Shaking
    <2>7. s.phase = "normal" => Debts(b, s)
      BY <2>1, DebtsAlike DEF Shaking
    <2>8. Shakes(c, b)
      BY DEF Alike, SameElse, Shakes
    <2>9. CASE Opened(c)
      <3>1. c.sock = "open" /\ Talk(c, s)
        BY <2>1, <2>9 DEF Shaking
      <3>2. Talk(b, s)
        BY <2>2, <3>1, TalkOn DEF SameBytes
      <3>3. Shaking(b, s)
        BY <2>1, <2>5, <2>6, <2>7, <2>8, <3>1, <3>2, ShakingOn
      <3> QED BY <2>3, <2>4, <3>3 DEF Wired
    <2>10. CASE ~Opened(c)
      <3>1. /\ c.sock = "connecting" /\ c.askings = 0 /\ Said(c, <<>>) /\ s = NewServer
            /\ ~c.tight /\ c.vencrypt = 0 /\ Idle(c) /\ Hears(c)
            /\ (IF s.phase = "normal" THEN Debts(c, s) ELSE Quiet(s))
        BY <2>1, <2>10 DEF Shaking
      <3>2. b.init = c.init
        BY <2>2 DEF SameTalk
      <3>3. ~Opened(b)
        BY <2>10, <3>2, Zenon DEF Opened
      <3>4. Idle(b)
        BY <3>1, IdleOn DEF Alike, SameElse
      <3>5. /\ b.sock = "connecting" /\ b.askings = 0 /\ Said(b, <<>>) /\ ~b.tight
            /\ b.vencrypt = 0 /\ Hears(b)
        BY <2>2, <3>1 DEF SameSession, SameTalk, SameBytes, Said, Hears
      <3>6. Shaking(b, s)
        BY <2>6, <2>7, <3>1, <3>3, <3>4, <3>5 DEF Shaking
      <3> QED BY <2>3, <2>4, <3>6 DEF Wired
    <2> QED BY <2>9, <2>10
  <1>4. CASE c.conn \notin {"connecting", "connected"}
    <2>1. c.conn \in {"disconnecting", "disconnected"} /\ c.sock \notin {"open", "connecting"}
      BY <1>4, BothSay DEF Gone
    <2>2. Wired(b, s)
      BY <2>1, AsksAlways, GoneOn DEF Alike, SameElse, SameSession
    <2> QED BY <2>2
  <1> QED BY <1>2, <1>3, <1>4

(* An image has loaded: the screen may change, and a viewer that waited    *)
(* for its display goes on.                                                *)
LEMMA ImageWired ==
  ASSUME DrawInv, WireInv, ImageLoads
  PROVE  WireInv'
  <1>1. PICK i \in Waiting(c.renderQ) : Becomes(ImageLoaded(c, i))
    BY DEF ImageLoads
  <1> DEFINE u == [c EXCEPT !.renderQ[i].loaded = TRUE]
             e == ScanRenderQ(u)
             v == [e EXCEPT !.dflush = FALSE]
             w == [v EXCEPT !.flushing = FALSE]
             x == ImageLoaded(c, i)
  <1>2. Sound(c) /\ Rest(c) /\ Viewer(c) /\ ServerInv(s) /\ s.version \in Int
    BY BothSay
  <1>3. i \in Nat /\ i >= 1
    BY <1>2 DEF Waiting, Sound, DrawingInv, DrawingType
  <1>4. /\ Viewer(u) /\ DrawingType(u) /\ SameRest(c, u)
        /\ Ahead(u.renderQ, u.canvas, u.ideal) /\ Copied(u)
    BY <1>2, ImageMarked
  <1>5. Viewer(x)
    BY <1>2, ImageLoadedCall DEF Call, Sound
  <1>6. x = IF i > 1 THEN u ELSE IF e.renderQ = <<>> /\ e.dflush THEN HandleMessage(w) ELSE e
    <2>1. CASE i > 1
      BY <2>1 DEF ImageLoaded
    <2>2. CASE i = 1
      BY <2>2 DEF ImageLoaded, OnFlush
    <2> QED BY <1>3, <2>1, <2>2
  <1>7. Becomes(x)
    BY <1>1
  <1> HIDE DEF x
  <1>8. Alike(c, u)
    BY <1>2 DEF Alike, SameElse, SameBytes, SameSession, SameTalk, SameRequests, SameDecoder, Viewer
  <1> HIDE DEF u
  <1>9. Alike(c, e)
    BY <1>4, <1>8, ScanDraws, DrawsCompose DEF DrawingType
  <1>10. e.dflush = c.dflush
    <2>1. SameRest(u, e)
      BY <1>4, Scanned
    <2> QED BY <1>4, <2>1 DEF SameRest
  <1> HIDE DEF e
  <1>11. CASE ~(i = 1 /\ e.renderQ = <<>> /\ e.dflush)
    <2>1. x \in {u, e}
      BY <1>3, <1>6, <1>11
    <2>2. Wired(x, s) \/ Over(x)
      BY <1>8, <1>9, <2>1, AlikeWired
    <2> QED BY <1>2, <1>5, <1>7, <2>2, BecomesWired
  <1>12. CASE i = 1 /\ e.renderQ = <<>> /\ e.dflush
    <2>1. x = HandleMessage(w)
      BY <1>6, <1>12
    <2>2. Shows(c, w)
      <3>1. Shows(c, e)
        BY <1>9, AlikeShows
      <3>2. Shows(e, w)
        BY <1>9 DEF Alike, SameElse, Shows, SameBytes, SameSession, SameTalk, SameDecoder, Viewer
      <3> HIDE DEF w
      <3> QED BY <3>1, <3>2 DEF Shows, SameBytes, SameSession, SameTalk, SameDecoder
    <2> HIDE DEF w
    <2>3. c.conn # "connecting"
      BY <1>2, <1>10, <1>12, BothSay DEF Sound, Flushes, Shaking, Idle
    <2>4. w.conn = c.conn /\ Viewer(w)
      BY <2>2 DEF Shows, SameSession
    <2>5. CASE c.conn = "connected"
      <3>1. Loop(w, s) /\ w.conn = "connected"
        BY <2>2, <2>4, <2>5, ShowsLoop
      <3>2. Loop(x, s)
        BY <2>1, <3>1, ConnectedHandles
      <3>3. Wired(x, s) \/ Over(x)
        BY <2>5, <3>2, LoopWired, BothSay DEF Talking
      <3> QED BY <1>2, <1>5, <1>7, <3>3, BecomesWired
    <2>6. CASE c.conn # "connected"
      <3>1. c.conn \in {"disconnecting", "disconnected"} /\ c.sock \notin {"open", "connecting"}
        BY <2>3, <2>6, BothSay DEF Gone
      <3>2. x = w \/ x = [w EXCEPT !.stray = TRUE]
        BY <2>1, <2>4, <3>1 DEF HandleMessage
      <3>3. Shows(w, x)
        <4>1. Shows(w, w)
          BY <2>4 DEF Shows, SameBytes, SameSession, SameTalk, SameDecoder
        <4>2. Shows(w, [w EXCEPT !.stray = TRUE])
          BY <2>4 DEF Shows, SameBytes, SameSession, SameTalk, SameDecoder, Viewer
        <4> QED BY <3>2, <4>1, <4>2
      <3>4. SameTalk(c, x) /\ SameBytes(c, x) /\ x.sock = c.sock /\ x.conn = c.conn
        BY <2>2, <3>3 DEF Shows, SameBytes, SameSession, SameTalk
      <3>5. Wired(x, s)
        BY <3>1, <3>4, AsksAlways, GoneOn
      <3> QED BY <1>2, <1>5, <1>7, <3>5, BecomesWired
    <2> QED BY <2>5, <2>6
  <1> QED BY <1>11, <1>12

-----------------------------------------------------------------------------
(* The turns of the server                                                 *)

(* Parts of at least one byte are whole.                                   *)
LEMMA WholeParts ==
  ASSUME NEW a, a.len \in Nat \ {0}, NEW b, b.len \in Nat \ {0}, NEW e, e.len \in Nat \ {0}
  PROVE  Whole(<<>>) /\ Whole(<<a>>) /\ Whole(<<a, b>>) /\ Whole(<<a, b, e>>)
  <1> DEFINE S == {a, b, e}
  <1>1. /\ <<>> \in Seq(S) /\ <<a>> \in Seq(S) /\ <<a, b>> \in Seq(S) /\ <<a, b, e>> \in Seq(S)
        /\ \A p \in S : p.len \in Nat \ {0}
    OBVIOUS
  <1> HIDE DEF S
  <1> QED BY <1>1 DEF Whole

(* Sequences that are joined                                               *)
LEMMA Joins ==
  ASSUME NEW x, NEW y
  PROVE  <<x>> \o <<y>> = <<x, y>>
  <1> DEFINE S == {x, y}
  <1>1. x \in S /\ <<y>> \in Seq(S) /\ Len(<<y>>) = 1 /\ <<y>>[1] = y
    OBVIOUS
  <1>2. <<x, y>> \in Seq(S) /\ Len(<<x, y>>) = 2 /\ <<x, y>>[1] = x /\ <<x, y>>[2] = y
    OBVIOUS
  <1> DEFINE u == <<y>>
  <1>3. u \in Seq(S) /\ Len(u) = 1 /\ u[1] = y
    BY <1>1
  <1> HIDE DEF S, u
  <1> DEFINE z == <<x>> \o u
  <1>4. /\ z \in Seq(S) /\ Len(z) = 1 + Len(u) /\ z[1] = x
        /\ \A j \in 2 .. 1 + Len(u) : z[j] = u[j - 1]
    BY <1>1, <1>3
  <1> HIDE DEF z
  <1>5. Len(z) = 2 /\ z[2] = y
    BY <1>3, <1>4
  <1>6. \A i \in 1 .. 2 : z[i] = <<x, y>>[i]
    BY <1>2, <1>4, <1>5
  <1>7. z = <<x, y>>
    BY <1>2, <1>4, <1>5, <1>6, SeqEqual
  <1> QED BY <1>7 DEF z, u

(* Nothing is added by nothing.                                            *)
LEMMA JoinsNothing ==
  ASSUME NEW w, Whole(w)
  PROVE  <<>> \o w = w /\ w \o <<>> = w
  <1>1. PICK S : w \in Seq(S)
    BY DEF Whole
  <1> QED BY <1>1

(* What the handshake says has bytes.                                      *)
LEMMA PartsHaveBytes ==
  /\ \A v : VersionPart(v).len \in Nat \ {0}
  /\ \A n : SchemePart(n).len \in Nat \ {0}
  /\ \A T \in TypeLists : TypesPart(T).len \in Nat \ {0}
  /\ \A T \in SubAuths : SubAuthsPart(T).len \in Nat \ {0}
  /\ SubAuthsPart({}).len \in Nat \ {0}
  /\ \A ok : /\ TunnelsPart(0, ok).len \in Nat \ {0} /\ TunnelsPart(1, ok).len \in Nat \ {0}
             /\ VeVersionPart(ok).len \in Nat \ {0} /\ AckPart(ok).len \in Nat \ {0}
             /\ SubtypesPart(ok).len \in Nat \ {0} /\ ResultPart(ok).len \in Nat \ {0}
  /\ CountPart.len \in Nat \ {0} /\ Reason.len \in Nat \ {0} /\ Challenge.len \in Nat \ {0}
  /\ \A tight : InitPart(tight).len \in Nat \ {0}
  <1>1. \A T : IsFiniteSet(T) => Cardinality(T) \in Nat
    BY FS_CardinalityType
  <1>2. \A T \in TypeLists : TypesPart(T).len \in Nat \ {0}
    <2> TAKE T \in TypeLists
    <2>1. Cardinality(T) \in Nat
      BY <1>1, ServersAssumption
    <2> QED BY <2>1 DEF TypesPart
  <1>3. \A T \in SubAuths : SubAuthsPart(T).len \in Nat \ {0}
    <2> TAKE T \in SubAuths
    <2>1. Cardinality(T) \in Nat
      BY <1>1, ServersAssumption
    <2> QED BY <2>1 DEF SubAuthsPart
  <1>4. SubAuthsPart({}).len \in Nat \ {0}
    <2>1. Cardinality({}) \in Nat
      BY <1>1, FS_EmptySet
    <2> QED BY <2>1 DEF SubAuthsPart
  <1>5. /\ \A v : VersionPart(v).len \in Nat \ {0}
        /\ \A n : SchemePart(n).len \in Nat \ {0}
        /\ \A ok : /\ VeVersionPart(ok).len \in Nat \ {0} /\ AckPart(ok).len \in Nat \ {0}
                   /\ SubtypesPart(ok).len \in Nat \ {0} /\ ResultPart(ok).len \in Nat \ {0}
    BY DEF VersionPart, SchemePart, VeVersionPart, AckPart, SubtypesPart, ResultPart
  <1>6. \A ok : TunnelsPart(0, ok).len \in Nat \ {0} /\ TunnelsPart(1, ok).len \in Nat \ {0}
    BY DEF TunnelsPart
  <1>7. CountPart.len \in Nat \ {0} /\ Reason.len \in Nat \ {0} /\ Challenge.len \in Nat \ {0}
    BY DEF CountPart, Reason, Challenge, ReasonLength
  <1>8. \A tight : InitPart(tight).len \in Nat \ {0}
    BY DEF InitPart, NameLength, TightCaps
  <1> QED BY <1>2, <1>3, <1>4, <1>5, <1>6, <1>7, <1>8

(* A turn says parts and waits for something else; what was agreed on and  *)
(* promised stays.                                                         *)
SameDebts(t, u) ==
    /\ u.owed = t.owed /\ u.open = t.open
    /\ (u.continuous <=> t.continuous) /\ (u.fenced <=> t.fenced)
SameTerms(t, u) ==
    /\ u.version = t.version /\ (u.tight <=> t.tight) /\ u.repertoire = t.repertoire
    /\ SameDebts(t, u)
Reply(t, turn, phase, parts) ==
    turn.parts = parts /\ turn.next.phase = phase /\ SameTerms(t, turn.next)

(* A turn is a reply.                                                      *)
LEMMA TurnReplies ==
  ASSUME NEW t, ServerInv(t), NEW phase, NEW parts
  PROVE  Reply(t, Turn(t, phase, parts), phase, parts)
  BY DEF ServerInv, Turn, Reply, SameTerms, SameDebts

(* It announces a version.                                                 *)
LEMMA AnnounceReplies ==
  ASSUME NEW t, ServerInv(t), NEW turn \in Announce(t)
  PROVE  \E v \in Versions :
            /\ turn.parts = <<VersionPart(v)>> /\ turn.next.version = v
            /\ turn.next.phase = IF v = Repeater THEN "id" ELSE "version"
            /\ (turn.next.tight <=> t.tight) /\ SameDebts(t, turn.next)
  <1>1. PICK v \in Versions :
          turn = [parts |-> <<VersionPart(v)>>,
                  next |-> [t EXCEPT !.phase = IF v = Repeater THEN "id" ELSE "version",
                                     !.version = v]]
    BY DEF Announce, VersionPart
  <1> DEFINE phase == IF v = Repeater THEN "id" ELSE "version"
             part == VersionPart(v)
  <1> HIDE DEF phase, part
  <1>2. /\ turn.parts = <<part>> /\ turn.next = [t EXCEPT !.phase = phase, !.version = v]
    BY <1>1 DEF phase, part
  <1> DEFINE u == [t EXCEPT !.phase = phase, !.version = v]
  <1>3. u.version = v /\ u.phase = phase /\ (u.tight <=> t.tight) /\ SameDebts(t, u)
    BY DEF ServerInv, SameDebts
  <1> HIDE DEF u
  <1>4. turn.next = u
    BY <1>2 DEF u
  <1> QED BY <1>2, <1>3, <1>4 DEF phase, part

(* It judges.                                                              *)
LEMMA JudgeReplies ==
  ASSUME NEW t, ServerInv(t), t.version \in Int, NEW turn \in Judge(t)
  PROVE  SameTerms(t, turn.next) /\ Verdict(turn.parts, turn.next) /\ Whole(turn.parts)
  <1> DEFINE yes == ResultPart(TRUE)
             no == ResultPart(FALSE)
             rest == IF t.version >= 38 THEN <<Reason>> ELSE <<>>
  <1>1. turn \in {Turn(t, "init", <<yes>>), Turn(t, "end", <<no>> \o rest)}
    BY DEF Judge, ResultPart
  <1>2. yes.len \in Nat \ {0} /\ no.len \in Nat \ {0} /\ Reason.len \in Nat \ {0}
    BY PartsHaveBytes
  <1>3. \A w, u : /\ (u.phase = "init" /\ w = <<yes>>) => Verdict(w, u)
                  /\ (u.phase = "end" /\ u.version >= 38 /\ w = <<no, Reason>>) => Verdict(w, u)
                  /\ (u.phase = "end" /\ u.version < 38 /\ w = <<no>>) => Verdict(w, u)
    BY DEF Verdict
  <1> HIDE DEF yes, no
  <1>4. CASE turn = Turn(t, "init", <<yes>>)
    <2>1. Reply(t, turn, "init", <<yes>>)
      BY <1>4, TurnReplies
    <2> QED BY <1>2, <1>3, <2>1, WholeParts DEF Reply
  <1>5. CASE turn = Turn(t, "end", <<no>> \o rest)
    <2>1. Reply(t, turn, "end", <<no>> \o rest)
      BY <1>5, TurnReplies
    <2>2. /\ turn.next.phase = "end" /\ turn.next.version = t.version /\ SameTerms(t, turn.next)
          /\ turn.parts = <<no>> \o rest
      BY <2>1 DEF Reply, SameTerms
    <2>3. CASE t.version >= 38
      <3>1. rest = <<Reason>>
        BY <2>3
      <3> HIDE DEF rest
      <3>2. turn.parts = <<no>> \o <<Reason>>
        BY <2>2, <3>1
      <3>3. <<no>> \o <<Reason>> = <<no, Reason>>
        BY Joins
      <3>4. turn.parts = <<no, Reason>>
        BY <3>2, <3>3, Zenon
      <3> QED BY <1>2, <1>3, <2>2, <2>3, <3>4, WholeParts
    <2>4. CASE ~(t.version >= 38)
      <3>1. rest = <<>>
        BY <2>4
      <3> HIDE DEF rest
      <3>2. turn.parts = <<no>> \o <<>>
        BY <2>2, <3>1
      <3>3. <<no>> \o <<>> = <<no>>
        OBVIOUS
      <3>4. turn.parts = <<no>>
        BY <3>2, <3>3, Zenon
      <3>5. t.version < 38
        BY <2>4
      <3> QED BY <1>2, <1>3, <2>2, <3>4, <3>5, WholeParts
    <2> QED BY <2>3, <2>4
  <1> QED BY <1>1, <1>4, <1>5

(* It lists authentications.                                               *)
LEMMA SubAuthsReplies ==
  ASSUME NEW t, ServerInv(t), NEW turn \in OfferSubAuths(t)
  PROVE  /\ SameTerms(t, turn.next) /\ Whole(turn.parts)
         /\ \E T \in SubAuths \cup {{}} :
               /\ turn.parts = <<SubAuthsPart(T)>>
               /\ turn.next.phase = IF T = {} THEN "result" ELSE "subauth"
  <1>1. PICK T \in SubAuths :
          turn = Turn(t, IF T = {} THEN "result" ELSE "subauth", <<SubAuthsPart(T)>>)
    BY DEF OfferSubAuths, SubAuthsPart
  <1>2. Reply(t, turn, IF T = {} THEN "result" ELSE "subauth", <<SubAuthsPart(T)>>)
    BY <1>1, TurnReplies
  <1>3. SubAuthsPart(T).len \in Nat \ {0}
    BY PartsHaveBytes
  <1>4. Whole(<<SubAuthsPart(T)>>)
    BY <1>3, WholeParts
  <1> QED BY <1>2, <1>4 DEF Reply

(* After tunnels they go on with that.                                     *)
LEMMA AfterTunnelsOn ==
  ASSUME NEW t, ServerInv(t), t.version \in Int, NEW w, Whole(w), AfterTunnels(w, t),
         NEW turn \in Unasked(t)
  PROVE  /\ SameTerms(t, turn.next) /\ Whole(turn.parts) /\ turn.next.phase # "normal"
         /\ AfterTunnels(w \o turn.parts, turn.next)
  <1>1. CASE t.phase = "subauths" /\ w = <<>>
    <2>1. turn \in OfferSubAuths(t)
      BY <1>1 DEF Unasked
    <2>2. PICK T \in SubAuths \cup {{}} :
               /\ turn.parts = <<SubAuthsPart(T)>>
               /\ turn.next.phase = IF T = {} THEN "result" ELSE "subauth"
      BY <2>1, SubAuthsReplies
    <2>3. w \o turn.parts = <<SubAuthsPart(T)>>
      BY <1>1, <2>2
    <2>4. AfterTunnels(w \o turn.parts, turn.next)
      <3>1. CASE T = {}
        BY <2>2, <2>3, <3>1 DEF AfterTunnels
      <3>2. CASE T # {}
        BY <2>2, <2>3, <3>2 DEF AfterTunnels
      <3> QED BY <3>1, <3>2
    <2> QED BY <2>1, <2>2, <2>4, SubAuthsReplies
  <1>2. CASE t.phase = "result" /\ w = <<SubAuthsPart({})>>
    <2>1. turn \in Judge(t)
      BY <1>2 DEF Unasked
    <2>2. SameTerms(t, turn.next) /\ Verdict(turn.parts, turn.next) /\ Whole(turn.parts)
      BY <2>1, JudgeReplies
    <2> DEFINE p == SubAuthsPart({})
    <2> HIDE DEF p
    <2>3. /\ <<p>> \o turn.parts # <<>> /\ Head(<<p>> \o turn.parts) = p
          /\ Tail(<<p>> \o turn.parts) = turn.parts
      <3>1. PICK S : turn.parts \in Seq(S)
        BY <2>2 DEF Whole
      <3> QED BY <3>1
    <2>4. AfterTunnels(<<p>> \o turn.parts, turn.next)
      BY <2>2, <2>3 DEF AfterTunnels, p
    <2>5. turn.next.phase # "normal"
      BY <2>2 DEF Verdict
    <2> QED BY <1>2, <2>2, <2>4, <2>5 DEF p
  <1>3. t.phase \in {"subauths", "subauth", "result", "init", "end"}
    BY DEF AfterTunnels, Verdict
  <1>4. t.phase \in {"announce", "subauths", "result"}
    BY DEF Unasked
  <1>5. (t.phase = "subauths" => w = <<>>) /\ (t.phase = "result" => w = <<SubAuthsPart({})>>)
    BY DEF AfterTunnels, Verdict
  <1> QED BY <1>1, <1>2, <1>3, <1>4, <1>5

(* The first of one message or two, and the rest                           *)
LEMMA FirstOfTwo ==
  ASSUME NEW a, NEW b
  PROVE  /\ Head(<<a>>) = a /\ Tail(<<a>>) = <<>> /\ <<a>> # <<>>
         /\ Head(<<a, b>>) = a /\ Tail(<<a, b>>) = <<b>> /\ <<a, b>> # <<>>
  OBVIOUS

(* What the server answers in each phase                                   *)
LEMMA Answers ==
  ASSUME NEW t
  PROVE  /\ t.phase = "id" => Answer(t, <<"id">>) = Announce(t)
         /\ t.phase = "version" =>
              Answer(t, <<"version">>) = IF t.version >= 37 THEN OfferTypes(t) ELSE Decide(t)
         /\ t.phase = "choice" =>
              /\ Answer(t, <<"choice", 1>>)
                   = IF t.version >= 38 THEN Judge(t) ELSE {Turn(t, "init", <<>>)}
              /\ Answer(t, <<"choice", 2>>) = {Turn(t, "response", <<Challenge>>)}
              /\ Answer(t, <<"choice", 16>>) = OfferTight([t EXCEPT !.tight = TRUE])
              /\ Answer(t, <<"choice", 19>>) = {Turn(t, "vencrypt", <<VeVersionPart(TRUE)>>),
                                                Turn(t, "end", <<VeVersionPart(FALSE)>>)}
              /\ Answer(t, <<"choice", 22>>) = {Turn(t, "target", <<>>)}
         /\ t.phase = "target" => Answer(t, <<"target">>) = {Turn(t, "response", <<Challenge>>)}
         /\ t.phase = "notunnel" => Answer(t, <<"notunnel">>) = OfferSubAuths(t)
         /\ t.phase = "subauth" =>
              /\ Answer(t, <<"subauth", 1>>) = Judge(t)
              /\ Answer(t, <<"subauth", 2>>) = {Turn(t, "response", <<Challenge>>)}
              /\ Answer(t, <<"subauth", 129>>) = {Turn(t, "login", <<>>)}
         /\ t.phase = "vencrypt" => Answer(t, <<"vencrypt">>) = OfferSubtypes(t)
         /\ t.phase = "plain" => Answer(t, <<"plain">>) = {Turn(t, "login", <<>>)}
         /\ t.phase = "login" => Answer(t, <<"login">>) = Judge(t)
         /\ t.phase = "response" => Answer(t, <<"response">>) = Judge(t)
         /\ t.phase = "init" => Answer(t, <<"init">>) = Initialise(t)
  <1>1. CASE t.phase = "choice"
    BY <1>1 DEF Answer, VeVersionPart
  <1>2. CASE t.phase = "subauth"
    BY <1>2 DEF Answer
  <1>3. CASE t.phase \in {"id", "version", "target", "notunnel"}
    BY <1>3 DEF Answer
  <1>4. CASE t.phase \in {"vencrypt", "plain", "login", "response", "init"}
    BY <1>4 DEF Answer
  <1> QED BY <1>1, <1>2, <1>3, <1>4

(* What is said becomes part of what is under way. *)
Spoken(d, e, turn, out) == SameTalk(d, e) /\ e.wire = d.wire \o turn.parts /\ e.out = out

(* The talk goes on; who asks the page hears nothing meanwhile; and when   *)
(* the handshake is over, that is all there is under way.                  *)
TalksOn(d, e, t, turn) ==
    /\ Talk(e, turn.next) /\ Whole(turn.parts) /\ turn.next.version \in Int
    /\ SameDebts(t, turn.next)
    /\ d.askings = 1 => turn.parts = <<>>
    /\ turn.next.phase = "normal" => d.wire = <<>> /\ turn.parts = <<InitPart(turn.next.tight)>>

(* It begins with a version.                                               *)
LEMMA AnnounceTalks ==
  ASSUME NEW d, NEW t, ServerInv(t), d.init = "ProtocolVersion", ~d.tight, ~t.tight,
         d.vencrypt = 0, d.askings # 1, NEW turn \in Announce(t), NEW e,
         Spoken(d, e, turn, <<>>), d.wire = <<>>
  PROVE  TalksOn(d, e, t, turn)
  <1>1. PICK v \in Versions :
            /\ turn.parts = <<VersionPart(v)>> /\ turn.next.version = v
            /\ turn.next.phase = IF v = Repeater THEN "id" ELSE "version"
            /\ (turn.next.tight <=> t.tight) /\ SameDebts(t, turn.next)
    BY AnnounceReplies
  <1>2. Whole(turn.parts)
    BY <1>1, PartsHaveBytes, WholeParts
  <1>3. e.wire = turn.parts
    BY <1>2, JoinsNothing DEF Spoken
  <1>4. Heard(e, <<VersionPart(turn.next.version)>>)
    BY <1>1, <1>3 DEF Heard, Spoken
  <1>5. TalkVersion(e, turn.next)
    BY <1>1, <1>4 DEF TalkVersion, Spoken, SameTalk
  <1>6. turn.next.version \in Int
    BY <1>1, ServersAssumption
  <1> QED BY <1>1, <1>2, <1>5, <1>6 DEF TalksOn, Talk

(* A repeater is told its id and announces another version.                *)
LEMMA VersionTalks ==
  ASSUME NEW d, NEW t, ServerInv(t), TalkVersion(d, t), d.askings # 1, d.out # <<>>,
         NEW turn \in Answer(t, Head(d.out)), NEW e, Spoken(d, e, turn, Tail(d.out))
  PROVE  TalksOn(d, e, t, turn)
  <1>1. t.phase = "id" /\ Said(d, <<<<"id">>>>)
    BY Zenon DEF TalkVersion, Said, Heard
  <1>2. Head(d.out) = <<"id">> /\ Tail(d.out) = <<>> /\ d.wire = <<>>
    BY <1>1, FirstOfTwo, Zenon DEF Said
  <1>3. turn \in Announce(t)
    BY <1>1, <1>2, Answers
  <1> QED BY <1>2, <1>3, AnnounceTalks DEF TalkVersion

(* A reply of one part or none to a message that is alone                  *)
LEMMA ReplyTalks ==
  ASSUME NEW d, d.wire = <<>>, NEW t, NEW turn, NEW phase, NEW parts, Whole(parts),
         Reply(t, turn, phase, parts), NEW e,
         t.version \in Int, d.askings = 1 => parts = <<>>, phase # "normal", Talk(e, turn.next)
  PROVE  TalksOn(d, e, t, turn)
  BY DEF Reply, SameTerms, TalksOn

(* The server offers types, or decides.                                    *)
LEMMA SecurityTalks ==
  ASSUME NEW d, NEW t, ServerInv(t), t.version \in Int, TalkSecurity(d, t), d.askings # 1,
         d.out # <<>>, NEW turn \in Answer(t, Head(d.out)), NEW e, Spoken(d, e, turn, Tail(d.out))
  PROVE  TalksOn(d, e, t, turn)
  <1>1. t.phase = "version" /\ Said(d, <<<<"version">>>>)
    BY Zenon DEF TalkSecurity, Said, Heard
  <1>2. Head(d.out) = <<"version">> /\ Tail(d.out) = <<>> /\ d.wire = <<>>
    BY <1>1, FirstOfTwo, Zenon DEF Said
  <1>3. turn \in IF t.version >= 37 THEN OfferTypes(t) ELSE Decide(t)
    BY <1>1, <1>2, Answers
  <1>4. ASSUME NEW phase, phase # "normal", NEW parts, Whole(parts), turn = Turn(t, phase, parts),
               \A u : /\ u.version = t.version /\ u.phase = phase /\ Heard(e, parts)
                      => \/ u.version >= 37 /\ \E T \in TypeLists : T # {} /\ u.phase = "choice" /\ Heard(e, <<TypesPart(T)>>)
                         \/ u.version >= 37 /\ u.phase = "end" /\ Heard(e, <<TypesPart({}), Reason>>)
                         \/ u.version < 37 /\ u.phase = "init" /\ Heard(e, <<SchemePart(1)>>)
                         \/ u.version < 37 /\ u.phase = "response" /\ Heard(e, <<SchemePart(2), Challenge>>)
                         \/ u.version < 37 /\ u.phase = "end" /\ Heard(e, <<SchemePart(0), Reason>>)
                         \/ u.version < 37 /\ u.phase = "end" /\ Heard(e, <<SchemePart(7)>>)
        PROVE  TalksOn(d, e, t, turn)
    <2>1. Reply(t, turn, phase, parts)
      BY <1>4, TurnReplies
    <2> DEFINE u == turn.next
    <2>2. u.version = t.version /\ u.phase = phase /\ (u.tight <=> t.tight) /\ turn.parts = parts
      BY <2>1 DEF Reply, SameTerms
    <2> HIDE DEF u
    <2>3. Heard(e, parts)
      BY <1>2, <1>4, <2>2, JoinsNothing DEF Heard, Spoken
    <2>4. TalkSecurity(e, u)
      BY <1>4, <2>2, <2>3 DEF TalkSecurity, Spoken, SameTalk
    <2> QED BY <1>2, <1>4, <2>1, <2>4, ReplyTalks DEF Talk, u
  <1>5. CASE t.version >= 37
    <2>1. PICK T \in TypeLists :
             turn = Turn(t, IF T = {} THEN "end" ELSE "choice",
                         <<TypesPart(T)>> \o (IF T = {} THEN <<Reason>> ELSE <<>>))
      BY <1>3, <1>5 DEF OfferTypes, TypesPart
    <2>2. TypesPart(T).len \in Nat \ {0} /\ Reason.len \in Nat \ {0}
      BY PartsHaveBytes
    <2>3. CASE T = {}
      <3>1. <<TypesPart(T)>> \o (IF T = {} THEN <<Reason>> ELSE <<>>) = <<TypesPart({}), Reason>>
        <4>1. <<TypesPart({})>> \o <<Reason>> = <<TypesPart({}), Reason>>
          BY Joins
        <4> QED BY <2>3, <4>1, Zenon
      <3>2. Whole(<<TypesPart({}), Reason>>)
        BY <2>2, <2>3, WholeParts
      <3>3. turn = Turn(t, "end", <<TypesPart({}), Reason>>)
        BY <2>1, <2>3, <3>1, Zenon
      <3> QED BY <1>4, <1>5, <3>2, <3>3
    <2>4. CASE T # {}
      <3>1. Whole(<<TypesPart(T)>>)
        BY <2>2, WholeParts
      <3>2. <<TypesPart(T)>> \o (IF T = {} THEN <<Reason>> ELSE <<>>) = <<TypesPart(T)>>
        <4>1. <<TypesPart(T)>> \o <<>> = <<TypesPart(T)>>
          BY <3>1, JoinsNothing
        <4> QED BY <2>4, <4>1, Zenon
      <3>3. turn = Turn(t, "choice", <<TypesPart(T)>>)
        BY <2>1, <2>4, <3>2, Zenon
      <3> QED BY <1>4, <1>5, <2>4, <3>1, <3>3
    <2> QED BY <2>3, <2>4
  <1>6. CASE ~(t.version >= 37)
    <2>1. turn \in {Turn(t, "init", <<SchemePart(1)>>), Turn(t, "response", <<SchemePart(2), Challenge>>),
                    Turn(t, "end", <<SchemePart(0), Reason>>), Turn(t, "end", <<SchemePart(7)>>)}
      BY <1>3, <1>6 DEF Decide, SchemePart
    <2>2. /\ Whole(<<SchemePart(1)>>) /\ Whole(<<SchemePart(2), Challenge>>)
          /\ Whole(<<SchemePart(0), Reason>>) /\ Whole(<<SchemePart(7)>>)
      BY PartsHaveBytes, WholeParts
    <2>3. t.version < 37
      BY <1>6
    <2>4. CASE turn = Turn(t, "init", <<SchemePart(1)>>)
      BY <1>4, <2>2, <2>3, <2>4
    <2>5. CASE turn = Turn(t, "response", <<SchemePart(2), Challenge>>)
      BY <1>4, <2>2, <2>3, <2>5
    <2>6. CASE turn = Turn(t, "end", <<SchemePart(0), Reason>>)
      BY <1>4, <2>2, <2>3, <2>6
    <2>7. CASE turn = Turn(t, "end", <<SchemePart(7)>>)
      BY <1>4, <2>2, <2>3, <2>7
    <2> QED BY <2>1, <2>4, <2>5, <2>6, <2>7
  <1> QED BY <1>5, <1>6

(* What a message is, in all replies to one that is alone                  *)
LEMMA SaidIs ==
  ASSUME NEW d, NEW m, Said(d, <<m>>)
  PROVE  Head(d.out) = m /\ Tail(d.out) = <<>> /\ d.wire = <<>>
  BY FirstOfTwo, Zenon DEF Said

(* What is heard of a reply to it                                          *)
LEMMA HeardReply ==
  ASSUME NEW d, NEW e, NEW turn, NEW t, NEW phase, NEW parts, Whole(parts), d.wire = <<>>,
         turn = Turn(t, phase, parts), ServerInv(t), NEW out, Spoken(d, e, turn, out)
  PROVE  Reply(t, turn, phase, parts) /\ e.wire = parts /\ e.out = out /\ SameTalk(d, e)
  <1>1. Reply(t, turn, phase, parts)
    BY TurnReplies
  <1> QED BY <1>1, JoinsNothing DEF Reply, Spoken

(* Authentication goes on.                                                 *)
LEMMA AuthOn ==
  ASSUME NEW d, NEW t, TalkAuth(d, t), d.askings = 0, NEW e, SameTalk(d, e), NEW u,
         u.version = t.version, TalkPassword(e, u) \/ TalkTight(e, u) \/ TalkVeNCrypt(e, u)
  PROVE  Talk(e, u)
  BY DEF TalkAuth, Talk, SameTalk

(* A password is challenged.                                               *)
LEMMA PasswordTalks ==
  ASSUME NEW d, NEW t, ServerInv(t), t.version \in Int, TalkAuth(d, t), d.askings = 0,
         TalkPassword(d, t), d.out # <<>>,
         NEW turn \in Answer(t, Head(d.out)), NEW e, Spoken(d, e, turn, Tail(d.out))
  PROVE  TalksOn(d, e, t, turn)
  <1> DEFINE u == turn.next
  <1>1. d.scheme = 2 /\ (d.tight <=> t.tight)
    BY DEF TalkPassword
  <1>2. \/ t.phase = "choice" /\ Said(d, <<<<"choice", 2>>>>)
        \/ t.phase = "choice" /\ Said(d, <<<<"choice", 22>>, <<"target">>>>)
        \/ t.phase = "target" /\ Said(d, <<<<"target">>>>)
        \/ t.phase = "subauth" /\ Said(d, <<<<"subauth", 2>>>>)
    BY Zenon DEF TalkPassword, Said, Heard
  <1>3. Whole(<<Challenge>>) /\ Whole(<<>>)
    BY PartsHaveBytes, WholeParts
  <1>4. ASSUME turn = Turn(t, "response", <<Challenge>>), d.wire = <<>>, Tail(d.out) = <<>>
        PROVE  TalksOn(d, e, t, turn)
    <2>1. /\ Reply(t, turn, "response", <<Challenge>>) /\ e.wire = <<Challenge>> /\ e.out = <<>>
          /\ SameTalk(d, e)
      BY <1>3, <1>4, HeardReply
    <2>2. TalkPassword(e, u) /\ u.version = t.version
      BY <1>1, <2>1 DEF TalkPassword, Reply, SameTerms, SameTalk, Heard
    <2>3. Talk(e, u)
      BY <2>1, <2>2, AuthOn
    <2> QED BY <1>3, <1>4, <2>1, <2>3, ReplyTalks
  <1>5. CASE t.phase = "choice" /\ Said(d, <<<<"choice", 2>>>>)
    <2>1. Head(d.out) = <<"choice", 2>> /\ Tail(d.out) = <<>> /\ d.wire = <<>>
      BY <1>5, SaidIs
    <2>2. Answer(t, <<"choice", 2>>) = {Turn(t, "response", <<Challenge>>)}
      BY <1>5, Answers
    <2>3. turn = Turn(t, "response", <<Challenge>>)
      BY <2>1, <2>2
    <2> QED BY <1>4, <2>1, <2>3
  <1>6. CASE t.phase = "target" /\ Said(d, <<<<"target">>>>)
    <2>1. Head(d.out) = <<"target">> /\ Tail(d.out) = <<>> /\ d.wire = <<>>
      BY <1>6, SaidIs
    <2>2. Answer(t, <<"target">>) = {Turn(t, "response", <<Challenge>>)}
      BY <1>6, Answers
    <2>3. turn = Turn(t, "response", <<Challenge>>)
      BY <2>1, <2>2
    <2> QED BY <1>4, <2>1, <2>3
  <1>7. CASE t.phase = "subauth" /\ Said(d, <<<<"subauth", 2>>>>)
    <2>1. Head(d.out) = <<"subauth", 2>> /\ Tail(d.out) = <<>> /\ d.wire = <<>>
      BY <1>7, SaidIs
    <2>2. Answer(t, <<"subauth", 2>>) = {Turn(t, "response", <<Challenge>>)}
      BY <1>7, Answers
    <2>3. turn = Turn(t, "response", <<Challenge>>)
      BY <2>1, <2>2
    <2> QED BY <1>4, <2>1, <2>3
  <1>8. CASE t.phase = "choice" /\ Said(d, <<<<"choice", 22>>, <<"target">>>>)
    <2>1. Head(d.out) = <<"choice", 22>> /\ Tail(d.out) = <<<<"target">>>> /\ d.wire = <<>>
      <3> DEFINE a == <<"choice", 22>>
                 b == <<"target">>
      <3>1. d.out = <<a, b>> /\ d.wire = <<>>
        BY <1>8 DEF Said
      <3> HIDE DEF a, b
      <3>2. Head(d.out) = a /\ Tail(d.out) = <<b>> /\ d.wire = <<>>
        BY <3>1, FirstOfTwo
      <3> QED BY <3>2 DEF a, b
    <2>2. turn = Turn(t, "target", <<>>)
      <3>1. Answer(t, <<"choice", 22>>) = {Turn(t, "target", <<>>)}
        BY <1>8, Answers
      <3> QED BY <2>1, <3>1
    <2>3. /\ Reply(t, turn, "target", <<>>) /\ e.wire = <<>> /\ e.out = <<<<"target">>>>
          /\ SameTalk(d, e)
      BY <1>3, <2>1, <2>2, HeardReply
    <2>4. TalkPassword(e, u) /\ u.version = t.version
      BY <1>1, <2>3 DEF TalkPassword, Reply, SameTerms, SameTalk, Said
    <2>5. Talk(e, u)
      BY <2>3, <2>4, AuthOn
    <2> QED BY <1>3, <2>1, <2>3, <2>5, ReplyTalks
  <1> QED BY <1>2, <1>5, <1>6, <1>7, <1>8

(* Tight goes on to tunnels and authentications.                           *)
LEMMA TightTalks ==
  ASSUME NEW d, NEW t, ServerInv(t), t.version \in Int, TalkAuth(d, t), d.askings = 0,
         TalkTight(d, t), d.out # <<>>,
         NEW turn \in Answer(t, Head(d.out)), NEW e, Spoken(d, e, turn, Tail(d.out))
  PROVE  TalksOn(d, e, t, turn)
  <1> DEFINE u == turn.next
  <1>1. /\ d.scheme = 16
        /\ \/ t.phase = "choice" /\ ~d.tight /\ ~t.tight /\ Said(d, <<<<"choice", 16>>>>)
           \/ t.phase = "notunnel" /\ d.tight /\ t.tight /\ Said(d, <<<<"notunnel">>>>)
    BY Zenon DEF TalkTight, Said, Heard
  <1>2. CASE t.phase = "choice" /\ ~d.tight /\ ~t.tight /\ Said(d, <<<<"choice", 16>>>>)
    <2> DEFINE x == [t EXCEPT !.tight = TRUE]
    <2>1. Head(d.out) = <<"choice", 16>> /\ Tail(d.out) = <<>> /\ d.wire = <<>>
      BY <1>2, SaidIs
    <2>2. turn \in OfferTight(x)
      BY <1>2, <2>1, Answers
    <2>3. /\ ServerInv(x) /\ x.version = t.version /\ x.tight = TRUE /\ x.phase = "choice"
          /\ SameDebts(t, x)
      BY <1>2 DEF ServerInv, SameDebts
    <2> HIDE DEF x
    <2>4. turn \in {Turn(x, "subauths", <<TunnelsPart(0, TRUE)>>),
                    Turn(x, "notunnel", <<TunnelsPart(1, TRUE)>>),
                    Turn(x, "end", <<TunnelsPart(1, FALSE)>>)}
      BY <2>2 DEF OfferTight, TunnelsPart
    <2>5. /\ Whole(<<TunnelsPart(0, TRUE)>>) /\ Whole(<<TunnelsPart(1, TRUE)>>)
          /\ Whole(<<TunnelsPart(1, FALSE)>>)
      BY PartsHaveBytes, WholeParts
    <2>6. ASSUME NEW phase, phase # "normal", NEW parts, Whole(parts), turn = Turn(x, phase, parts),
                 \A w : w.phase = phase /\ w.tight =>
                    \/ w.phase = "notunnel" /\ w.tight /\ parts = <<TunnelsPart(1, TRUE)>>
                    \/ w.phase = "end" /\ w.tight /\ parts = <<TunnelsPart(1, FALSE)>>
                    \/ /\ w.tight /\ parts # <<>> /\ Head(parts) = TunnelsPart(0, TRUE)
                       /\ AfterTunnels(Tail(parts), w)
          PROVE  TalksOn(d, e, t, turn)
      <3>1. Reply(x, turn, phase, parts) /\ e.wire = parts /\ e.out = <<>> /\ SameTalk(d, e)
        BY <2>1, <2>3, <2>6, HeardReply
      <3>2. /\ u.phase = phase /\ u.tight /\ turn.parts = parts /\ u.version = t.version
            /\ SameDebts(t, u)
        BY <2>3, <3>1 DEF Reply, SameTerms, SameDebts
      <3> HIDE DEF u
      <3>3. TalkTight(e, u)
        BY <1>1, <1>2, <2>6, <3>1, <3>2 DEF TalkTight, SameTalk, Heard
      <3>4. Talk(e, u)
        BY <3>1, <3>2, <3>3, AuthOn
      <3>5. /\ turn.next.phase # "normal" /\ Whole(turn.parts) /\ turn.next.version \in Int
            /\ SameDebts(t, turn.next) /\ Talk(e, turn.next)
        BY <2>6, <3>2, <3>4 DEF u
      <3> QED BY <3>5 DEF TalksOn
    <2>7. CASE turn = Turn(x, "subauths", <<TunnelsPart(0, TRUE)>>)
      <3> DEFINE p == TunnelsPart(0, TRUE)
      <3>1. <<p>> # <<>> /\ Head(<<p>>) = p /\ Tail(<<p>>) = <<>>
        BY FirstOfTwo
      <3>2. \A w : w.phase = "subauths" => AfterTunnels(<<>>, w)
        BY DEF AfterTunnels
      <3> HIDE DEF p
      <3>3. \A w : w.phase = "subauths" => AfterTunnels(Tail(<<p>>), w)
        BY <3>1, <3>2
      <3> QED BY <2>5, <2>6, <2>7, <3>1, <3>3 DEF p
    <2>8. CASE turn = Turn(x, "notunnel", <<TunnelsPart(1, TRUE)>>)
      BY <2>5, <2>6, <2>8
    <2>9. CASE turn = Turn(x, "end", <<TunnelsPart(1, FALSE)>>)
      BY <2>5, <2>6, <2>9
    <2> QED BY <2>4, <2>7, <2>8, <2>9
  <1>3. CASE t.phase = "notunnel" /\ d.tight /\ t.tight /\ Said(d, <<<<"notunnel">>>>)
    <2>1. Head(d.out) = <<"notunnel">> /\ Tail(d.out) = <<>> /\ d.wire = <<>>
      BY <1>3, SaidIs
    <2>2. turn \in OfferSubAuths(t)
      BY <1>3, <2>1, Answers
    <2>3. /\ SameTerms(t, turn.next) /\ Whole(turn.parts)
          /\ \E T \in SubAuths \cup {{}} :
               /\ turn.parts = <<SubAuthsPart(T)>>
               /\ turn.next.phase = IF T = {} THEN "result" ELSE "subauth"
      BY <2>2, SubAuthsReplies
    <2>4. e.wire = turn.parts /\ e.out = <<>> /\ SameTalk(d, e)
      BY <2>1, <2>3, JoinsNothing DEF Spoken
    <2>5. PICK T \in SubAuths \cup {{}} :
               /\ turn.parts = <<SubAuthsPart(T)>>
               /\ turn.next.phase = IF T = {} THEN "result" ELSE "subauth"
      BY <2>3
    <2>6. AfterTunnels(turn.parts, turn.next) /\ turn.next.phase # "normal"
      <3>1. CASE T = {}
        BY <2>5, <3>1 DEF AfterTunnels
      <3>2. CASE T # {}
        BY <2>5, <3>2 DEF AfterTunnels
      <3> QED BY <3>1, <3>2
    <2>7. TalkTight(e, u)
      BY <1>1, <1>3, <2>3, <2>4, <2>6 DEF TalkTight, SameTerms, SameTalk
    <2>8. Talk(e, u)
      BY <2>3, <2>4, <2>7, AuthOn DEF SameTerms
    <2> QED BY <2>3, <2>6, <2>8 DEF TalksOn, SameTerms
  <1> QED BY <1>1, <1>2, <1>3

(* VeNCrypt goes on to its version and subtypes.                           *)
LEMMA VeNCryptTalks ==
  ASSUME NEW d, NEW t, ServerInv(t), t.version \in Int, TalkAuth(d, t), d.askings = 0,
         TalkVeNCrypt(d, t), d.out # <<>>,
         NEW turn \in Answer(t, Head(d.out)), NEW e, Spoken(d, e, turn, Tail(d.out))
  PROVE  TalksOn(d, e, t, turn)
  <1> DEFINE u == turn.next
  <1>1. d.scheme = 19 /\ ~d.tight /\ ~t.tight
    BY DEF TalkVeNCrypt
  <1>2. \/ d.vencrypt = 0 /\ t.phase = "choice" /\ Said(d, <<<<"choice", 19>>>>)
        \/ d.vencrypt = 1 /\ t.phase = "vencrypt" /\ Said(d, <<<<"vencrypt">>>>)
    BY Zenon DEF TalkVeNCrypt, Said, Heard
  <1>3. ASSUME NEW phase, phase # "normal", NEW parts, Whole(parts), turn = Turn(t, phase, parts),
               d.wire = <<>>, Tail(d.out) = <<>>,
               \/ /\ d.vencrypt = 0
                  /\ \/ phase = "vencrypt" /\ parts = <<VeVersionPart(TRUE)>>
                     \/ phase = "end" /\ parts = <<VeVersionPart(FALSE)>>
               \/ /\ d.vencrypt = 1
                  /\ \/ phase = "plain" /\ parts = <<AckPart(TRUE), CountPart, SubtypesPart(TRUE)>>
                     \/ phase = "end" /\ parts = <<AckPart(TRUE), CountPart, SubtypesPart(FALSE)>>
                     \/ phase = "end" /\ parts = <<AckPart(FALSE)>>
        PROVE  TalksOn(d, e, t, turn)
    <2>0. Whole(parts) /\ turn = Turn(t, phase, parts) /\ d.wire = <<>> /\ Tail(d.out) = <<>>
      BY <1>3
    <2>1. Reply(t, turn, phase, parts) /\ e.wire = parts /\ e.out = <<>> /\ SameTalk(d, e)
      BY <2>0, HeardReply
    <2>2. /\ u.phase = phase /\ (u.tight <=> t.tight) /\ turn.parts = parts /\ u.version = t.version
      BY <2>1 DEF Reply, SameTerms
    <2> HIDE DEF u
    <2>3. e.vencrypt = d.vencrypt /\ e.scheme = 19 /\ ~e.tight /\ ~u.tight /\ Heard(e, parts)
      BY <1>1, <2>1, <2>2 DEF SameTalk, Heard
    <2>4. TalkVeNCrypt(e, u)
      BY <1>3, <2>2, <2>3, Zenon DEF TalkVeNCrypt
    <2>5. Talk(e, u)
      BY <2>1, <2>2, <2>4, AuthOn
    <2> QED BY <1>3, <2>1, <2>5, ReplyTalks DEF u
  <1>4. CASE d.vencrypt = 0 /\ t.phase = "choice" /\ Said(d, <<<<"choice", 19>>>>)
    <2>1. Head(d.out) = <<"choice", 19>> /\ Tail(d.out) = <<>> /\ d.wire = <<>>
      BY <1>4, SaidIs
    <2>2. turn \in {Turn(t, "vencrypt", <<VeVersionPart(TRUE)>>), Turn(t, "end", <<VeVersionPart(FALSE)>>)}
      BY <1>4, <2>1, Answers
    <2>3. Whole(<<VeVersionPart(TRUE)>>) /\ Whole(<<VeVersionPart(FALSE)>>)
      BY PartsHaveBytes, WholeParts
    <2>4. CASE turn = Turn(t, "vencrypt", <<VeVersionPart(TRUE)>>)
      BY <1>3, <1>4, <2>1, <2>3, <2>4
    <2>5. CASE turn = Turn(t, "end", <<VeVersionPart(FALSE)>>)
      BY <1>3, <1>4, <2>1, <2>3, <2>5
    <2> QED BY <2>2, <2>4, <2>5
  <1>5. CASE d.vencrypt = 1 /\ t.phase = "vencrypt" /\ Said(d, <<<<"vencrypt">>>>)
    <2>1. Head(d.out) = <<"vencrypt">> /\ Tail(d.out) = <<>> /\ d.wire = <<>>
      BY <1>5, SaidIs
    <2>2. turn \in OfferSubtypes(t)
      BY <1>5, <2>1, Answers
    <2>3. turn \in {Turn(t, "plain", <<AckPart(TRUE), CountPart, SubtypesPart(TRUE)>>),
                    Turn(t, "end", <<AckPart(TRUE), CountPart, SubtypesPart(FALSE)>>),
                    Turn(t, "end", <<AckPart(FALSE)>>)}
      BY <2>2 DEF OfferSubtypes, AckPart, CountPart, SubtypesPart
    <2>4. /\ Whole(<<AckPart(TRUE), CountPart, SubtypesPart(TRUE)>>)
          /\ Whole(<<AckPart(TRUE), CountPart, SubtypesPart(FALSE)>>) /\ Whole(<<AckPart(FALSE)>>)
      BY PartsHaveBytes, WholeParts
    <2>5. CASE turn = Turn(t, "plain", <<AckPart(TRUE), CountPart, SubtypesPart(TRUE)>>)
      BY <1>3, <1>5, <2>1, <2>4, <2>5
    <2>6. CASE turn = Turn(t, "end", <<AckPart(TRUE), CountPart, SubtypesPart(FALSE)>>)
      BY <1>3, <1>5, <2>1, <2>4, <2>6
    <2>7. CASE turn = Turn(t, "end", <<AckPart(FALSE)>>)
      BY <1>3, <1>5, <2>1, <2>4, <2>7
    <2> QED BY <2>3, <2>5, <2>6, <2>7
  <1> QED BY <1>2, <1>4, <1>5

(* While the page is asked the server only waits.                          *)
LEMMA AskingTalks ==
  ASSUME NEW d, NEW t, ServerInv(t), t.version \in Int, TalkAuth(d, t), d.askings = 1,
         d.out # <<>>, NEW turn \in Answer(t, Head(d.out)), NEW e, Spoken(d, e, turn, Tail(d.out))
  PROVE  TalksOn(d, e, t, turn)
  <1> DEFINE u == turn.next
  <1>1. /\ d.tight <=> t.tight
        /\ \/ d.scheme = 22 /\ t.phase = "choice" /\ Said(d, <<<<"choice", 22>>>>)
           \/ d.scheme = 129 /\ t.phase = "subauth" /\ Said(d, <<<<"subauth", 129>>>>)
           \/ /\ d.scheme = 19 /\ d.vencrypt = 4
              /\ t.phase = "plain" /\ Said(d, <<<<"plain">>>>)
    <2>1. TalkAsking(d, t)
      BY DEF TalkAuth
    <2> QED BY <2>1, Zenon DEF TalkAsking, Said, Heard
  <1>2. Whole(<<>>)
    BY PartsHaveBytes, WholeParts
  <1>3. ASSUME NEW phase, phase # "normal", turn = Turn(t, phase, <<>>), d.wire = <<>>,
               Tail(d.out) = <<>>,
               \/ d.scheme = 22 /\ phase = "target"
               \/ d.scheme = 129 /\ phase = "login"
               \/ d.scheme = 19 /\ d.vencrypt = 4 /\ phase = "login"
        PROVE  TalksOn(d, e, t, turn)
    <2>0. turn = Turn(t, phase, <<>>) /\ d.wire = <<>> /\ Tail(d.out) = <<>>
      BY <1>3
    <2>1. Reply(t, turn, phase, <<>>) /\ e.wire = <<>> /\ e.out = <<>> /\ SameTalk(d, e)
      BY <1>2, <2>0, HeardReply
    <2>2. u.phase = phase /\ (u.tight <=> t.tight) /\ u.version = t.version
      BY <2>1 DEF Reply, SameTerms
    <2> HIDE DEF u
    <2>3. /\ e.vencrypt = d.vencrypt /\ e.scheme = d.scheme /\ (e.tight <=> u.tight)
          /\ Said(e, <<>>)
      BY <1>1, <2>1, <2>2 DEF SameTalk, Said
    <2>4. TalkAsking(e, u)
      BY <1>3, <2>2, <2>3 DEF TalkAsking
    <2>5. Talk(e, u)
      BY <2>1, <2>2, <2>4 DEF Talk, TalkAuth, SameTalk
    <2> QED BY <1>3, <1>2, <2>1, <2>5, ReplyTalks DEF u
  <1>4. CASE d.scheme = 22 /\ t.phase = "choice" /\ Said(d, <<<<"choice", 22>>>>)
    <2>1. Head(d.out) = <<"choice", 22>> /\ Tail(d.out) = <<>> /\ d.wire = <<>>
      BY <1>4, SaidIs
    <2>2. Answer(t, <<"choice", 22>>) = {Turn(t, "target", <<>>)}
      BY <1>4, Answers
    <2>3. turn = Turn(t, "target", <<>>)
      BY <2>1, <2>2
    <2> QED BY <1>3, <1>4, <2>1, <2>3
  <1>5. CASE d.scheme = 129 /\ t.phase = "subauth" /\ Said(d, <<<<"subauth", 129>>>>)
    <2>1. Head(d.out) = <<"subauth", 129>> /\ Tail(d.out) = <<>> /\ d.wire = <<>>
      BY <1>5, SaidIs
    <2>2. Answer(t, <<"subauth", 129>>) = {Turn(t, "login", <<>>)}
      BY <1>5, Answers
    <2>3. turn = Turn(t, "login", <<>>)
      BY <2>1, <2>2
    <2> QED BY <1>3, <1>5, <2>1, <2>3
  <1>6. CASE /\ d.scheme = 19 /\ d.vencrypt = 4
             /\ t.phase = "plain" /\ Said(d, <<<<"plain">>>>)
    <2>1. Head(d.out) = <<"plain">> /\ Tail(d.out) = <<>> /\ d.wire = <<>>
      BY <1>6, SaidIs
    <2>2. Answer(t, <<"plain">>) = {Turn(t, "login", <<>>)}
      BY <1>6, Answers
    <2>3. turn = Turn(t, "login", <<>>)
      BY <2>1, <2>2
    <2> QED BY <1>3, <1>6, <2>1, <2>3
  <1> QED BY <1>1, <1>4, <1>5, <1>6

(* The server judges.                                                      *)
LEMMA JudgeTalks ==
  ASSUME NEW d, NEW t, ServerInv(t), t.version \in Int, TalkResult(d, t), d.askings # 1,
         d.wire = <<>>, NEW turn \in Judge(t), NEW e, Spoken(d, e, turn, <<>>)
  PROVE  TalksOn(d, e, t, turn)
  <1>1. SameTerms(t, turn.next) /\ Verdict(turn.parts, turn.next) /\ Whole(turn.parts)
    BY JudgeReplies
  <1>2. e.wire = turn.parts /\ e.out = <<>> /\ SameTalk(d, e)
    BY <1>1, JoinsNothing DEF Spoken
  <1>3. TalkResult(e, turn.next)
    BY <1>1, <1>2 DEF TalkResult, SameTerms, SameTalk
  <1>4. turn.next.phase # "normal"
    BY <1>1 DEF Verdict
  <1> QED BY <1>1, <1>3, <1>4 DEF TalksOn, Talk, SameTerms

(* Who has said all of its authentication is judged.                       *)
LEMMA ResultTalks ==
  ASSUME NEW d, NEW t, ServerInv(t), t.version \in Int, TalkResult(d, t), d.askings # 1,
         d.out # <<>>, NEW turn \in Answer(t, Head(d.out)), NEW e, Spoken(d, e, turn, Tail(d.out))
  PROVE  TalksOn(d, e, t, turn)
  <1> DEFINE u == turn.next
  <1>1. \/ t.phase = "choice" /\ t.version >= 38 /\ Said(d, <<<<"choice", 1>>>>)
        \/ t.phase = "subauth" /\ Said(d, <<<<"subauth", 1>>>>)
        \/ t.phase = "subauth" /\ Said(d, <<<<"subauth", 129>>, <<"login">>>>)
        \/ t.phase = "plain" /\ Said(d, <<<<"plain">>, <<"login">>>>)
        \/ t.phase = "login" /\ Said(d, <<<<"login">>>>)
        \/ t.phase = "response" /\ Said(d, <<<<"response">>>>)
    BY Zenon DEF TalkResult, Said
  <1>2. Whole(<<>>)
    BY PartsHaveBytes, WholeParts
  <1>3. CASE t.phase = "choice" /\ t.version >= 38 /\ Said(d, <<<<"choice", 1>>>>)
    <2>1. Head(d.out) = <<"choice", 1>> /\ Tail(d.out) = <<>> /\ d.wire = <<>>
      BY <1>3, SaidIs
    <2>2. Answer(t, <<"choice", 1>>) = Judge(t)
      BY <1>3, Answers
    <2> QED BY <2>1, <2>2, JudgeTalks
  <1>4. CASE t.phase = "subauth" /\ Said(d, <<<<"subauth", 1>>>>)
    <2>1. Head(d.out) = <<"subauth", 1>> /\ Tail(d.out) = <<>> /\ d.wire = <<>>
      BY <1>4, SaidIs
    <2>2. Answer(t, <<"subauth", 1>>) = Judge(t)
      BY <1>4, Answers
    <2> QED BY <2>1, <2>2, JudgeTalks
  <1>5. CASE t.phase = "login" /\ Said(d, <<<<"login">>>>)
    <2>1. Head(d.out) = <<"login">> /\ Tail(d.out) = <<>> /\ d.wire = <<>>
      BY <1>5, SaidIs
    <2>2. Answer(t, <<"login">>) = Judge(t)
      BY <1>5, Answers
    <2> QED BY <2>1, <2>2, JudgeTalks
  <1>6. CASE t.phase = "response" /\ Said(d, <<<<"response">>>>)
    <2>1. Head(d.out) = <<"response">> /\ Tail(d.out) = <<>> /\ d.wire = <<>>
      BY <1>6, SaidIs
    <2>2. Answer(t, <<"response">>) = Judge(t)
      BY <1>6, Answers
    <2> QED BY <2>1, <2>2, JudgeTalks
  <1>7. ASSUME turn = Turn(t, "login", <<>>), d.wire = <<>>, Tail(d.out) = <<<<"login">>>>
        PROVE  TalksOn(d, e, t, turn)
    <2>1. /\ Reply(t, turn, "login", <<>>) /\ e.wire = <<>> /\ e.out = <<<<"login">>>>
          /\ SameTalk(d, e)
      BY <1>2, <1>7, HeardReply
    <2>2. TalkResult(e, u)
      BY <2>1 DEF TalkResult, Reply, SameTerms, SameTalk, Said
    <2>3. Talk(e, u)
      BY <2>2 DEF Talk
    <2> QED BY <1>2, <1>7, <2>1, <2>3, ReplyTalks
  <1>8. ASSUME NEW a, Said(d, <<a, <<"login">>>>)
        PROVE  Head(d.out) = a /\ Tail(d.out) = <<<<"login">>>> /\ d.wire = <<>>
    <2> DEFINE b == <<"login">>
    <2>1. d.out = <<a, b>> /\ d.wire = <<>>
      BY <1>8 DEF Said
    <2> HIDE DEF b
    <2>2. Head(d.out) = a /\ Tail(d.out) = <<b>> /\ d.wire = <<>>
      BY <2>1, FirstOfTwo
    <2> QED BY <2>2 DEF b
  <1>9. CASE t.phase = "subauth" /\ Said(d, <<<<"subauth", 129>>, <<"login">>>>)
    <2>1. Head(d.out) = <<"subauth", 129>> /\ Tail(d.out) = <<<<"login">>>> /\ d.wire = <<>>
      BY <1>8, <1>9
    <2>2. Answer(t, <<"subauth", 129>>) = {Turn(t, "login", <<>>)}
      BY <1>9, Answers
    <2>3. turn = Turn(t, "login", <<>>)
      BY <2>1, <2>2
    <2> QED BY <1>7, <2>1, <2>3
  <1>10. CASE t.phase = "plain" /\ Said(d, <<<<"plain">>, <<"login">>>>)
    <2>1. Head(d.out) = <<"plain">> /\ Tail(d.out) = <<<<"login">>>> /\ d.wire = <<>>
      BY <1>8, <1>10
    <2>2. Answer(t, <<"plain">>) = {Turn(t, "login", <<>>)}
      BY <1>10, Answers
    <2>3. turn = Turn(t, "login", <<>>)
      BY <2>1, <2>2
    <2> QED BY <1>7, <2>1, <2>3
  <1> QED BY <1>1, <1>3, <1>4, <1>5, <1>6, <1>9, <1>10

(* The handshake ends with the server's initialisation.                    *)
LEMMA InitTalks ==
  ASSUME NEW d, NEW t, ServerInv(t), t.version \in Int, TalkInit(d, t), t.phase # "normal", Quiet(t),
         d.askings # 1, d.out # <<>>, NEW turn \in Answer(t, Head(d.out)), NEW e,
         Spoken(d, e, turn, Tail(d.out))
  PROVE  TalksOn(d, e, t, turn)
  <1> DEFINE u == turn.next
  <1>1. /\ d.init = "ServerInitialisation" /\ (d.tight <=> t.tight)
        /\ \/ t.phase = "choice" /\ t.version < 38 /\ Said(d, <<<<"choice", 1>>, <<"init">>>>)
           \/ t.phase = "init" /\ Said(d, <<<<"init">>>>)
    BY Zenon DEF TalkInit, Said
  <1>2. Whole(<<>>)
    BY PartsHaveBytes, WholeParts
  <1>3. CASE t.phase = "choice" /\ t.version < 38 /\ Said(d, <<<<"choice", 1>>, <<"init">>>>)
    <2>1. Head(d.out) = <<"choice", 1>> /\ Tail(d.out) = <<<<"init">>>> /\ d.wire = <<>>
      <3> DEFINE a == <<"choice", 1>>
                 b == <<"init">>
      <3>1. d.out = <<a, b>> /\ d.wire = <<>>
        BY <1>3 DEF Said
      <3> HIDE DEF a, b
      <3>2. Head(d.out) = a /\ Tail(d.out) = <<b>> /\ d.wire = <<>>
        BY <3>1, FirstOfTwo
      <3> QED BY <3>2 DEF a, b
    <2>2. turn = Turn(t, "init", <<>>)
      <3>1. Answer(t, <<"choice", 1>>) = IF t.version >= 38 THEN Judge(t) ELSE {Turn(t, "init", <<>>)}
        BY <1>3, Answers
      <3>2. ~(t.version >= 38)
        BY <1>3
      <3> QED BY <2>1, <3>1, <3>2
    <2>3. /\ Reply(t, turn, "init", <<>>) /\ e.wire = <<>> /\ e.out = <<<<"init">>>>
          /\ SameTalk(d, e)
      BY <1>2, <2>1, <2>2, HeardReply
    <2>4. TalkInit(e, u)
      BY <1>1, <2>3 DEF TalkInit, Reply, SameTerms, SameTalk, Said
    <2>5. Talk(e, u)
      BY <2>4 DEF Talk
    <2> QED BY <1>2, <2>1, <2>3, <2>5, ReplyTalks
  <1>4. CASE t.phase = "init" /\ Said(d, <<<<"init">>>>)
    <2>1. Head(d.out) = <<"init">> /\ Tail(d.out) = <<>> /\ d.wire = <<>>
      BY <1>4, SaidIs
    <2>2. turn \in Initialise(t)
      BY <1>4, <2>1, Answers
    <2> DEFINE p == InitPart(t.tight)
    <2>3. PICK k \in DOMAIN Repertoires : turn = Turn([t EXCEPT !.repertoire = k], "normal", <<p>>)
      BY <2>2 DEF Initialise, InitPart
    <2>4. p.len \in Nat \ {0}
      BY PartsHaveBytes
    <2> HIDE DEF p
    <2>5. Whole(<<p>>)
      BY <2>4, WholeParts
    <2>6. /\ turn.parts = <<p>> /\ u.phase = "normal" /\ u.version = t.version
          /\ (u.tight <=> t.tight) /\ u.tight = t.tight /\ SameDebts(t, u) /\ u.repertoire = k
      BY <2>3 DEF ServerInv, Turn, SameDebts
    <2> HIDE DEF u
    <2>7. e.wire = <<p>> /\ e.out = <<>> /\ SameTalk(d, e)
      BY <2>1, <2>5, <2>6, JoinsNothing DEF Spoken
    <2>8. Head(e.wire) = p /\ Tail(e.wire) = <<>> /\ e.wire # <<>>
      BY <2>7, FirstOfTwo
    <2>9. p = InitPart(u.tight)
      BY <2>6 DEF p
    <2>10. Stand(u) \in Standings /\ Stand(u).k = 0
      <3>1. u.owed = 0 /\ u.open = FALSE
        BY <2>6 DEF Quiet, SameDebts
      <3>2. 0 \in 0 .. MaxRects
        BY VncClientAssumption, SMTT(20), ZenonT(40) DEF OpenCount
      <3>3. Stand(u) = [k |-> 0, open |-> FALSE]
        BY <3>1 DEF Stand
      <3> QED BY <3>2, <3>3 DEF Standings
    <2>11. Speech(<<>>, Stand(u), Stand(u), u.repertoire)
      BY <2>10, SpeechEmpty
    <2>12. TalkInit(e, u)
      BY <1>1, <2>6, <2>7, <2>8, <2>9, <2>10, <2>11 DEF TalkInit, SameTalk
    <2>13. Talk(e, u)
      BY <2>12 DEF Talk
    <2>14. /\ Talk(e, turn.next) /\ Whole(turn.parts) /\ turn.next.version \in Int
           /\ SameDebts(t, turn.next) /\ d.wire = <<>> /\ turn.parts = <<InitPart(turn.next.tight)>>
      BY <2>1, <2>5, <2>6, <2>9, <2>13 DEF u
    <2> QED BY <2>14 DEF TalksOn
  <1> QED BY <1>1, <1>3, <1>4

(* The first part stays the first when more is said.                       *)
LEMMA JoinedAfter ==
  ASSUME NEW v, Whole(v), v # <<>>, NEW w, Whole(w)
  PROVE  v \o w # <<>> /\ Head(v \o w) = Head(v) /\ Tail(v \o w) = Tail(v) \o w
  <1>1. PICK S : v \in Seq(S) /\ \A p \in S : p.len \in Nat \ {0}
    BY DEF Whole
  <1>2. PICK T : w \in Seq(T) /\ \A p \in T : p.len \in Nat \ {0}
    BY DEF Whole
  <1> DEFINE U == S \cup T
  <1>3. v \in Seq(U) /\ w \in Seq(U)
    BY <1>1, <1>2
  <1> HIDE DEF U
  <1> QED BY <1>3

(* What the server says of its own accord                                  *)
LEMMA UnaskedTalks ==
  ASSUME NEW d, NEW t, ServerInv(t), t.version \in Int, Talk(d, t), Whole(d.wire),
         d.askings = 1 => Asks(d), NEW turn \in Unasked(t), NEW e, Spoken(d, e, turn, d.out)
  PROVE  TalksOn(d, e, t, turn)
  <1> DEFINE u == turn.next
  <1>1. t.phase \in {"announce", "subauths", "result"}
    BY DEF Unasked
  <1>2. \/ TalkVersion(d, t) /\ t.phase = "announce" /\ Said(d, <<>>)
        \/ TalkAuth(d, t) /\ d.askings = 0 /\ TalkTight(d, t)
        \/ TalkResult(d, t) /\ t.phase = "result" /\ Said(d, <<>>)
    <2>1. CASE TalkVersion(d, t)
      BY <1>1, <2>1 DEF TalkVersion
    <2>2. CASE TalkSecurity(d, t)
      BY <1>1, <2>2 DEF TalkSecurity
    <2>3. CASE TalkAuth(d, t)
      BY <1>1, <2>3 DEF TalkAuth, TalkAsking, TalkPassword, TalkVeNCrypt
    <2>4. CASE TalkResult(d, t)
      BY <1>1, <2>4 DEF TalkResult, Verdict
    <2>5. CASE TalkReason(d, t) \/ TalkInit(d, t)
      BY <1>1, <2>5 DEF TalkReason, TalkInit
    <2> QED BY <2>1, <2>2, <2>3, <2>4, <2>5 DEF Talk
  <1>3. CASE TalkVersion(d, t) /\ t.phase = "announce" /\ Said(d, <<>>)
    <2>1. turn \in Announce(t)
      BY <1>3 DEF Unasked
    <2>2. /\ d.init = "ProtocolVersion" /\ ~d.tight /\ ~t.tight /\ d.vencrypt = 0
          /\ d.wire = <<>> /\ d.out = <<>>
      BY <1>3 DEF TalkVersion, Said
    <2>3. d.askings # 1
      BY <2>2 DEF Asks
    <2>4. Spoken(d, e, turn, <<>>)
      BY <2>2
    <2> QED BY <2>1, <2>2, <2>3, <2>4, AnnounceTalks
  <1>4. CASE TalkResult(d, t) /\ t.phase = "result" /\ Said(d, <<>>)
    <2>1. turn \in Judge(t)
      BY <1>4 DEF Unasked
    <2>2. d.init = "SecurityResult" /\ d.wire = <<>> /\ d.out = <<>>
      BY <1>4 DEF TalkResult, Said
    <2>3. d.askings # 1
      BY <2>2 DEF Asks
    <2>4. Spoken(d, e, turn, <<>>)
      BY <2>2
    <2> QED BY <1>4, <2>1, <2>2, <2>3, <2>4, JudgeTalks
  <1>5. CASE TalkAuth(d, t) /\ d.askings = 0 /\ TalkTight(d, t)
    <2>1. /\ d.scheme = 16 /\ d.out = <<>> /\ t.tight
          /\ \/ ~d.tight /\ d.wire # <<>> /\ Head(d.wire) = TunnelsPart(0, TRUE)
                /\ AfterTunnels(Tail(d.wire), t)
             \/ d.tight /\ AfterTunnels(d.wire, t)
      BY <1>1, <1>5 DEF TalkTight
    <2>2. ASSUME NEW w, Whole(w), AfterTunnels(w, t)
          PROVE  /\ SameTerms(t, u) /\ Whole(turn.parts) /\ u.phase # "normal"
                 /\ AfterTunnels(w \o turn.parts, u)
      BY <2>2, AfterTunnelsOn
    <2>3. ASSUME SameTerms(t, u), Whole(turn.parts), u.phase # "normal", TalkTight(e, u)
          PROVE  TalksOn(d, e, t, turn)
      <3>1. Talk(e, u)
        BY <1>5, <2>3, AuthOn DEF Spoken, SameTerms
      <3> QED BY <1>5, <2>3, <3>1 DEF TalksOn, SameTerms
    <2>4. CASE ~d.tight /\ d.wire # <<>> /\ Head(d.wire) = TunnelsPart(0, TRUE)
               /\ AfterTunnels(Tail(d.wire), t)
      <3>1. Whole(Tail(d.wire))
        BY <2>4, WholeFirst
      <3>2. /\ SameTerms(t, u) /\ Whole(turn.parts) /\ u.phase # "normal"
            /\ AfterTunnels(Tail(d.wire) \o turn.parts, u)
        BY <2>2, <2>4, <3>1
      <3>3. e.wire # <<>> /\ Head(e.wire) = Head(d.wire) /\ Tail(e.wire) = Tail(d.wire) \o turn.parts
        BY <2>4, <3>2, JoinedAfter DEF Spoken
      <3>4. e.scheme = 16 /\ ~e.tight /\ e.out = <<>> /\ u.tight
        BY <2>1, <2>4, <3>2 DEF Spoken, SameTalk, SameTerms
      <3>5. TalkTight(e, u)
        BY <2>4, <3>2, <3>3, <3>4 DEF TalkTight
      <3> QED BY <2>3, <3>2, <3>5
    <2>5. CASE d.tight /\ AfterTunnels(d.wire, t)
      <3>1. /\ SameTerms(t, u) /\ Whole(turn.parts) /\ u.phase # "normal"
            /\ AfterTunnels(d.wire \o turn.parts, u)
        BY <2>2, <2>5
      <3>2. e.scheme = 16 /\ e.tight /\ e.out = <<>> /\ u.tight /\ e.wire = d.wire \o turn.parts
        BY <2>1, <2>5, <3>1 DEF Spoken, SameTalk, SameTerms
      <3>3. TalkTight(e, u)
        BY <3>1, <3>2 DEF TalkTight
      <3> QED BY <2>3, <3>1, <3>3
    <2> QED BY <2>1, <2>4, <2>5
  <1> QED BY <1>2, <1>3, <1>4, <1>5

(* What it answers                                                         *)
LEMMA AnswerTalks ==
  ASSUME NEW d, NEW t, ServerInv(t), t.version \in Int, Talk(d, t), t.phase # "normal", Quiet(t),
         d.askings = 1 => Asks(d), d.out # <<>>, NEW turn \in Answer(t, Head(d.out)), NEW e,
         Spoken(d, e, turn, Tail(d.out))
  PROVE  TalksOn(d, e, t, turn)
  <1>1. d.askings = 1 => d.init = "Authentication"
    BY DEF Asks
  <1>2. CASE TalkVersion(d, t)
    <2>1. d.askings # 1
      BY <1>1, <1>2 DEF TalkVersion
    <2> QED BY <1>2, <2>1, VersionTalks
  <1>3. CASE TalkSecurity(d, t)
    <2>1. d.askings # 1
      BY <1>1, <1>3 DEF TalkSecurity
    <2> QED BY <1>3, <2>1, SecurityTalks
  <1>4. CASE TalkAuth(d, t)
    <2>1. \/ d.askings = 1
          \/ d.askings = 0 /\ (TalkPassword(d, t) \/ TalkTight(d, t) \/ TalkVeNCrypt(d, t))
      BY <1>4 DEF TalkAuth
    <2> QED BY <1>4, <2>1, AskingTalks, PasswordTalks, TightTalks, VeNCryptTalks
  <1>5. CASE TalkResult(d, t)
    <2>1. d.askings # 1
      BY <1>1, <1>5 DEF TalkResult
    <2> QED BY <1>5, <2>1, ResultTalks
  <1>6. CASE TalkReason(d, t)
    BY <1>6 DEF TalkReason, Heard
  <1>7. CASE TalkInit(d, t)
    <2>1. d.askings # 1
      BY <1>1, <1>7 DEF TalkInit
    <2> QED BY <1>7, <2>1, InitTalks
  <1> QED BY <1>2, <1>3, <1>4, <1>5, <1>6, <1>7 DEF Talk

-----------------------------------------------------------------------------
(* The step of the server                                                  *)

(* From a to b something is said, and nothing else happens to the viewer.  *)
Speaks(a, b, turn, out) ==
    /\ Spoken(a, b, turn, out) /\ SameSession(a, b) /\ SameDecoder(a, b)
    /\ b.at = a.at /\ b.avail = a.avail /\ (b.lost <=> a.lost) /\ b.size = a.size
    /\ b.halted = a.halted /\ b.continuous = a.continuous /\ b.region = a.region
    /\ b.knowsContinuous = a.knowsContinuous /\ b.dropped = a.dropped /\ b.flushing = a.flushing
    /\ b.asked <=> a.asked /\ (turn.parts = <<>> \/ turn.parts[1].type # "update")

(* More bytes are under way, and no fewer have arrived.                    *)
LEMMA SpeaksBytes ==
  ASSUME NEW d, Bytes(d), NEW turn, Whole(turn.parts), NEW out, NEW e, Speaks(d, e, turn, out)
  PROVE  Bytes(e) /\ e.at = d.at /\ e.avail = d.avail /\ e.wire = d.wire \o turn.parts
  <1>1. /\ Whole(d.wire \o turn.parts)
        /\ Total(d.wire \o turn.parts) = Total(d.wire) + Total(turn.parts)
        /\ Total(d.wire) \in Nat /\ Total(turn.parts) \in Nat
    BY WholeJoined DEF Bytes
  <1>2. e.at = d.at /\ e.avail = d.avail /\ (e.lost <=> d.lost) /\ e.wire = d.wire \o turn.parts
    BY DEF Speaks, Spoken
  <1> QED BY <1>1, <1>2 DEF Bytes

(* A decoder remembers what it did.                                        *)
LEMMA SpeaksDecoder ==
  ASSUME NEW d, NEW turn, NEW out, NEW e, Speaks(d, e, turn, out)
  PROVE  /\ DecoderFits(d) => DecoderFits(e)
         /\ Begun(e) <=> Begun(d)
         /\ Unread(e) = Unread(d) /\ e.rect = d.rect /\ e.rects = d.rects
  <1>1. SameDecoder(d, e)
    BY DEF Speaks
  <1>2. DecoderFits(d) => DecoderFits(e)
    BY <1>1 DEF SameDecoder, DecoderFits, RawFits, RREFits, HextileFits, TightFits, Decoding,
           Begun, TightIdle, LengthFits
  <1>3. Unread(e) = Unread(d)
    BY <1>1 DEF SameDecoder, Unread, TightUnread, DataUnread, PixelsUnread
  <1> QED BY <1>1, <1>2, <1>3 DEF SameDecoder, Begun

(* In the handshake                                                        *)
LEMMA ShakingSpeaks ==
  ASSUME NEW d, NEW t, ServerInv(t), t.version \in Int, Wired(d, t), d.conn = "connecting",
         d.sock = "open", t.phase # "normal", NEW turn, NEW out,
         \/ turn \in Unasked(t) /\ out = d.out
         \/ d.out # <<>> /\ turn \in Answer(t, Head(d.out)) /\ out = Tail(d.out),
         NEW e, Speaks(d, e, turn, out)
  PROVE  Wired(e, turn.next) /\ turn.next.version \in Int
  <1> DEFINE u == turn.next
  <1>1. /\ Shaking(d, t) /\ (d.askings = 0 => Waits(d)) /\ d.askings \in {0, 1}
    BY DEF Wired
  <1>2. /\ Idle(d) /\ Bytes(d) /\ d.at = 0 /\ Hears(d) /\ Quiet(t) /\ (d.askings = 1 => Asks(d))
        /\ Talk(d, t)
    BY <1>1 DEF Shaking
  <1>3. Spoken(d, e, turn, out) /\ SameTalk(d, e)
    BY DEF Speaks, Spoken
  <1>4. TalksOn(d, e, t, turn)
    BY <1>2, <1>3, UnaskedTalks, AnswerTalks DEF Bytes
  <1>5. /\ Talk(e, u) /\ Whole(turn.parts) /\ u.version \in Int /\ SameDebts(t, u)
        /\ d.askings = 1 => turn.parts = <<>>
        /\ u.phase = "normal" => d.wire = <<>> /\ turn.parts = <<InitPart(u.tight)>>
    BY <1>4 DEF TalksOn
  <1> HIDE DEF u
  <1>6. Bytes(e) /\ e.at = 0 /\ e.avail = d.avail /\ e.wire = d.wire \o turn.parts
    <2>1. Bytes(d) /\ Whole(turn.parts) /\ d.at = 0
      BY <1>2, <1>5
    <2>2. Bytes(e) /\ e.at = d.at /\ e.avail = d.avail /\ e.wire = d.wire \o turn.parts
      BY <2>1, SpeaksBytes, Zenon
    <2> QED BY <2>1, <2>2
  <1>7. Hears(e) /\ e.conn = "connecting" /\ e.sock = "open" /\ e.askings = d.askings
    BY <1>2 DEF Speaks, SameSession, Spoken, SameTalk, Hears
  <1>8. Idle(e)
    <2>1. DecoderFits(e) /\ e.rects = 0 /\ e.rect = NoRect
      BY <1>2, SpeaksDecoder DEF Idle
    <2> QED BY <1>2, <2>1 DEF Idle, Speaks
  <1>9. e.askings = 1 => Asks(e)
    <2> SUFFICES ASSUME e.askings = 1 PROVE Asks(e)
      OBVIOUS
    <2>1. Asks(d) /\ d.askings = 1 /\ turn.parts = <<>>
      BY <1>2, <1>5, <1>7
    <2>2. e.wire = d.wire
      BY <1>2, <1>6, <2>1, JoinsNothing DEF Bytes
    <2> QED BY <1>2, <1>3, <1>6, <2>1, <2>2 DEF Asks, SameTalk
  <1>10. e.askings = 0 => Waits(e)
    <2> SUFFICES ASSUME d.askings = 0 PROVE Waits(e)
      BY <1>7
    <2>1. CASE d.wire = <<>>
      <3>1. e.wire = turn.parts /\ e.avail = 0
        BY <1>2, <1>5, <1>6, <2>1, NoBytes, JoinsNothing
      <3> QED BY <1>5, <3>1, WholeFirst DEF Waits
    <2>2. CASE d.wire # <<>>
      <3>1. e.wire # <<>> /\ Head(e.wire) = Head(d.wire)
        BY <1>2, <1>5, <1>6, <2>2, JoinedAfter DEF Bytes
      <3> QED BY <1>1, <1>3, <1>6, <2>2, <3>1 DEF Waits, SameTalk
    <2> QED BY <2>1, <2>2
  <1>11. ~u.continuous /\ ~u.fenced /\ u.owed = 0 /\ u.open = FALSE
    BY <1>2, <1>5 DEF SameDebts, Quiet
  <1>12. IF u.phase = "normal" THEN Debts(e, u) ELSE Quiet(u)
    <2>1. CASE u.phase # "normal"
      BY <1>11, <2>1 DEF Quiet
    <2>2. CASE u.phase = "normal"
      <3> DEFINE p == InitPart(u.tight)
      <3>1. p.type = "serverInit"
        BY DEF InitPart
      <3> HIDE DEF p
      <3>2. e.wire = <<p>>
        BY <1>5, <1>6, <2>2, JoinsNothing DEF p
      <3>3. Types(e.wire, {"endOfContinuousUpdates"}) = {}
        BY <3>1, <3>2 DEF Types
      <3>4. ~e.continuous /\ ~e.knowsContinuous /\ e.region = e.size
        BY <1>8 DEF Idle
      <3>5. Debts(e, u)
        BY <1>11, <3>3, <3>4 DEF Debts
      <3> QED BY <2>2, <3>5
    <2> QED BY <2>1, <2>2
  <1>13. Opened(e)
    BY <1>5, TalkOpened
  <1>14. Shaking(e, u)
    BY <1>5, <1>6, <1>7, <1>8, <1>9, <1>12, <1>13, Zenon DEF Shaking
  <1>15. Wired(e, u)
    BY <1>1, <1>7, <1>10, <1>14 DEF Wired
  <1> QED BY <1>5, <1>15 DEF u

(* After the handshake the server says one thing at a time, as its         *)
(* standing lets it.                                                       *)
Adds(t, m, u) ==
    /\ m.len \in Nat \ {0} /\ Leads(Stand(t), m, Stand(u), t.repertoire) /\ Stand(u) \in Standings
    /\ u.phase = "normal" /\ u.repertoire = t.repertoire /\ u.version = t.version
    /\ u.tight = t.tight
    /\ u.continuous <=> t.continuous \/ m.type = "endOfContinuousUpdates"
    /\ m.type = "endOfContinuousUpdates" => ~t.continuous
    /\ u.fenced => t.fenced \/ (m.type = "fence" /\ m.request)

(* What it says has bytes.                                                 *)
LEMMA LeadsBytes ==
  ASSUME NEW k \in DOMAIN Repertoires, NEW a \in Standings, NEW m, NEW b, Leads(a, m, b, k)
  PROVE  m.len \in Nat \ {0}
  <1>1. a.k \in Nat
    BY VncClientAssumption DEF Standings
  <1>2. ASSUME RectFits(m) PROVE m.len \in Nat \ {0}
    <2>1. BodyBytes(m) \in Nat /\ m.len = 12 + BodyBytes(m)
      BY <1>2, BodyNat DEF RectFits
    <2> QED BY <2>1
  <1>3. ASSUME MessageFits(m) PROVE m.len \in Nat \ {0}
    BY <1>3 DEF MessageFits
  <1>4. \A n : UpdatePart(n).len = 4
    BY DEF UpdatePart
  <1>5. LastRect.len = 12
    BY DEF LastRect
  <1> QED BY <1>1, <1>2, <1>3, <1>4, <1>5, LeadsTo

(* A rectangle of an update                                                *)
LEMMA ContinuationAdds ==
  ASSUME NEW t, ServerInv(t), t.phase = "normal", Stand(t) \in Standings, t.owed > 0,
         NEW turn \in Continuation(t)
  PROVE  \E m : turn.parts = <<m>> /\ Adds(t, m, turn.next)
  <1> DEFINE u == turn.next
             a == Stand(t)
             b == Stand(u)
             k == t.repertoire
  <1>1. PICK r \in IF t.open /\ t.owed = 1 THEN {LastRect} ELSE Repertoires[t.repertoire].rectangles :
          turn = [parts |-> <<r>>, next |-> [t EXCEPT !.owed = @ - 1]]
    BY DEF Continuation
  <1>2. t.owed \in 0 .. MaxRects /\ t.open \in BOOLEAN /\ MaxRects \in Nat /\ k \in DOMAIN Repertoires
    BY VncClientAssumption DEF Stand, Standings, ServerInv
  <1>3. /\ turn.parts = <<r>> /\ u.owed = t.owed - 1 /\ u.open = t.open /\ u.phase = "normal"
        /\ u.repertoire = k /\ u.version = t.version /\ u.tight = t.tight
        /\ u.continuous = t.continuous /\ u.fenced = t.fenced
    BY <1>1 DEF ServerInv
  <1> HIDE DEF u
  <1>4. a = [k |-> t.owed, open |-> t.open] /\ b = [k |-> t.owed - 1, open |-> t.open]
    BY <1>3 DEF Stand
  <1>5. b \in Standings
    BY <1>2, <1>4 DEF Standings
  <1>6. Leads(a, r, b, k)
    <2>1. IF a.open /\ a.k = 1 THEN r = LastRect ELSE r \in Repertoires[k].rectangles
      BY <1>1, <1>4
    <2>2. a.k > 0 /\ b = [k |-> a.k - 1, open |-> a.open]
      BY <1>4
    <2> HIDE DEF a, b
    <2> QED BY <2>1, <2>2 DEF Leads
  <1>7. r.len \in Nat \ {0}
    BY <1>2, <1>6, LeadsBytes
  <1>8. r.type = "rect"
    BY <1>1, <1>2, LayoutAssumption DEF RectFits, LastRect
  <1>9. Adds(t, r, u)
    BY <1>3, <1>5, <1>6, <1>7, <1>8 DEF Adds
  <1> QED BY <1>3, <1>9 DEF u

(* An update begins.                                                       *)
LEMMA UpdateAdds ==
  ASSUME NEW t, ServerInv(t), t.phase = "normal", Stand(t) \in Standings, ~(t.owed > 0),
         NEW turn \in Updates(t)
  PROVE  \E m : turn.parts = <<m>> /\ Adds(t, m, turn.next)
  <1> DEFINE u == turn.next
             a == Stand(t)
             k == t.repertoire
  <1>1. PICK n \in 0 .. MaxRects, open \in BOOLEAN :
          turn = Update(t, n, open) /\ (open => n = MaxRects)
    <2>1. MaxRects \in 0 .. MaxRects
      BY VncClientAssumption
    <2>2. CASE turn \in {Update(t, n, FALSE) : n \in 0 .. MaxRects}
      BY <2>2
    <2>3. CASE turn = Update(t, MaxRects, TRUE)
      BY <2>1, <2>3
    <2> QED BY <2>2, <2>3 DEF Updates
  <1> DEFINE m == UpdatePart(IF open THEN OpenCount ELSE n)
  <1>2. t.owed = 0 /\ a.k = 0 /\ k \in DOMAIN Repertoires
    BY VncClientAssumption DEF Stand, Standings, ServerInv
  <1>3. /\ turn.parts = <<m>> /\ u.owed = n /\ u.open = open /\ u.phase = "normal"
        /\ u.repertoire = k /\ u.version = t.version /\ u.tight = t.tight
        /\ u.continuous = t.continuous /\ u.fenced = t.fenced
    BY <1>1 DEF ServerInv, Update, UpdatePart
  <1>4. m.type = "update"
    BY DEF UpdatePart
  <1>5. \/ m = UpdatePart(n) /\ open = FALSE
        \/ m = UpdatePart(OpenCount) /\ n = MaxRects /\ open = TRUE
    BY <1>1
  <1> HIDE DEF u, m
  <1>6. Stand(u) = [k |-> n, open |-> open]
    BY <1>3 DEF Stand
  <1>7. Stand(u) \in Standings
    BY <1>6 DEF Standings
  <1>8. Leads(a, m, Stand(u), k)
    BY <1>2, <1>5, <1>6 DEF Leads
  <1>9. m.len \in Nat \ {0}
    BY <1>2, <1>8, LeadsBytes
  <1>10. Adds(t, m, u)
    BY <1>3, <1>4, <1>7, <1>8, <1>9 DEF Adds
  <1> QED BY <1>3, <1>10 DEF u

(* Something comes in between.                                             *)
LEMMA OtherAdds ==
  ASSUME NEW t, ServerInv(t), t.phase = "normal", Stand(t) \in Standings, ~(t.owed > 0),
         NEW turn \in Others(t)
  PROVE  \E m : turn.parts = <<m>> /\ Adds(t, m, turn.next)
  <1> DEFINE u == turn.next
             a == Stand(t)
             k == t.repertoire
  <1>1. PICK m \in Repertoires[k].messages :
          /\ m.type = "endOfContinuousUpdates" => ~t.continuous
          /\ turn = [parts |-> <<m>>,
                     next |-> [t EXCEPT !.continuous = @ \/ m.type = "endOfContinuousUpdates",
                                        !.fenced = @ \/ (m.type = "fence" /\ m.request)]]
    BY DEF Others
  <1> DEFINE x == t.continuous \/ m.type = "endOfContinuousUpdates"
             y == t.fenced \/ (m.type = "fence" /\ m.request)
  <1>2. t.owed = 0 /\ a.k = 0 /\ k \in DOMAIN Repertoires
    BY VncClientAssumption DEF Stand, Standings, ServerInv
  <1>3. turn.parts = <<m>> /\ u = [t EXCEPT !.continuous = x, !.fenced = y]
    BY <1>1
  <1>4. /\ (x <=> t.continuous \/ m.type = "endOfContinuousUpdates")
        /\ (y => t.fenced \/ (m.type = "fence" /\ m.request))
    OBVIOUS
  <1> HIDE DEF u, x, y
  <1>5. /\ u.owed = t.owed /\ u.open = t.open /\ u.phase = "normal"
        /\ u.repertoire = k /\ u.version = t.version /\ u.tight = t.tight
        /\ u.continuous = x /\ u.fenced = y
    BY <1>3 DEF ServerInv
  <1>6. Stand(u) = a
    BY <1>5 DEF Stand
  <1>7. Leads(a, m, Stand(u), k)
    BY <1>1, <1>2, <1>6 DEF Leads
  <1>8. m.len \in Nat \ {0}
    BY <1>2, <1>7, LeadsBytes
  <1>9. Adds(t, m, u)
    BY <1>1, <1>4, <1>5, <1>6, <1>7, <1>8 DEF Adds
  <1> QED BY <1>3, <1>9 DEF u

(* Whatever it says is one of those.                                       *)
LEMMA SaysAdds ==
  ASSUME NEW t, ServerInv(t), Stand(t) \in Standings, NEW asked, NEW turn \in Says(t, asked)
  PROVE  t.phase = "normal" /\ \E m : turn.parts = <<m>> /\ Adds(t, m, turn.next)
  <1>1. t.phase = "normal"
    BY DEF Says
  <1>2. CASE t.owed > 0
    <2>1. turn \in Continuation(t)
      BY <1>1, <1>2 DEF Says
    <2> QED BY <1>1, <1>2, <2>1, ContinuationAdds
  <1>3. CASE ~(t.owed > 0)
    <2>1. turn \in Others(t) \cup Updates(t)
      BY <1>1, <1>3 DEF Says
    <2> QED BY <1>1, <1>3, <2>1, UpdateAdds, OtherAdds
  <1> QED BY <1>1, <1>2, <1>3

(* Where the parts of some types are when one more part is said            *)
LEMMA TypesMore ==
  ASSUME NEW w, Whole(w), NEW m, NEW T
  PROVE  LET v == w \o <<m>>
             n == Len(w) + 1
         IN  /\ \A i \in Types(v, T) : i \in Types(w, T) \/ (i = n /\ m.type \in T)
             /\ \A i \in Types(w, T) : i \in Types(v, T) /\ v[i] = w[i]
             /\ m.type \in T => n \in Types(v, T)
             /\ v[n] = m
  <1>1. PICK S : w \in Seq(S)
    BY DEF Whole
  <1> DEFINE v == w \o <<m>>
             n == Len(w) + 1
             U == S \cup {m}
  <1>2. w \in Seq(U) /\ <<m>> \in Seq(U) /\ Len(<<m>>) = 1 /\ <<m>>[1] = m
    BY <1>1
  <1> HIDE DEF U
  <1>3. /\ DOMAIN v = 1 .. n /\ DOMAIN w = 1 .. Len(w) /\ Len(w) \in Nat
        /\ \A i \in 1 .. Len(w) : v[i] = w[i]
        /\ v[n] = m
    BY <1>2
  <1> HIDE DEF v, n
  <1>4. n = Len(w) + 1
    BY DEF n
  <1>5. /\ \A i \in Types(v, T) : i \in Types(w, T) \/ (i = n /\ m.type \in T)
        /\ \A i \in Types(w, T) : i \in Types(v, T) /\ v[i] = w[i]
        /\ m.type \in T => n \in Types(v, T)
        /\ v[n] = m
    BY <1>3, <1>4 DEF Types
  <1> QED BY <1>5 DEF v, n

(* The promises are kept when something is said.                           *)
LEMMA AddsDebts ==
  ASSUME NEW d, NEW t, Whole(d.wire), Debts(d, t), NEW turn, NEW m, turn.parts = <<m>>,
         Adds(t, m, turn.next), NEW e, Speaks(d, e, turn, d.out)
  PROVE  Debts(e, turn.next)
  <1> DEFINE u == turn.next
             ends(w) == Types(w, {"endOfContinuousUpdates"})
             n == Len(d.wire) + 1
  <1>1. /\ e.wire = d.wire \o <<m>> /\ e.out = d.out /\ e.continuous = d.continuous
        /\ e.knowsContinuous = d.knowsContinuous /\ e.region = d.region /\ e.size = d.size
        /\ e.rects = d.rects
    BY DEF Speaks, Spoken, SameDecoder
  <1>2. /\ u.continuous <=> t.continuous \/ m.type = "endOfContinuousUpdates"
        /\ m.type = "endOfContinuousUpdates" => ~t.continuous
        /\ u.fenced => t.fenced \/ (m.type = "fence" /\ m.request)
    BY DEF Adds
  <1>3. /\ \A i \in ends(e.wire) : i \in ends(d.wire) \/ (i = n /\ m.type = "endOfContinuousUpdates")
        /\ \A i \in Types(d.wire, {"fence"}) : i \in Types(e.wire, {"fence"}) /\ e.wire[i] = d.wire[i]
        /\ m.type = "fence" => n \in Types(e.wire, {"fence"})
        /\ e.wire[n] = m
    <2>1. ASSUME NEW T
          PROVE  /\ \A i \in Types(e.wire, T) : i \in Types(d.wire, T) \/ (i = n /\ m.type \in T)
                 /\ \A i \in Types(d.wire, T) : i \in Types(e.wire, T) /\ e.wire[i] = d.wire[i]
                 /\ m.type \in T => n \in Types(e.wire, T)
                 /\ e.wire[n] = m
      <3> DEFINE v == d.wire \o <<m>>
      <3>1. /\ \A i \in Types(v, T) : i \in Types(d.wire, T) \/ (i = n /\ m.type \in T)
            /\ \A i \in Types(d.wire, T) : i \in Types(v, T) /\ v[i] = d.wire[i]
            /\ m.type \in T => n \in Types(v, T)
            /\ v[n] = m
        BY TypesMore, Zenon
      <3>2. e.wire = v
        BY <1>1
      <3> HIDE DEF v, n
      <3> QED BY <3>1, <3>2
    <2> DEFINE E == {"endOfContinuousUpdates"}
               F == {"fence"}
    <2>2. (m.type \in E => m.type = "endOfContinuousUpdates") /\ (m.type = "fence" => m.type \in F)
      OBVIOUS
    <2>3. /\ \A i \in ends(e.wire) : i \in ends(d.wire) \/ (i = n /\ m.type \in E)
          /\ \A i \in Types(d.wire, F) : i \in Types(e.wire, F) /\ e.wire[i] = d.wire[i]
          /\ m.type \in F => n \in Types(e.wire, F)
          /\ e.wire[n] = m
      BY <2>1, Zenon
    <2> HIDE DEF E, ends, n
    <2>4. \A i \in ends(e.wire) : i \in ends(d.wire) \/ (i = n /\ m.type = "endOfContinuousUpdates")
      BY <2>2, <2>3
    <2> QED BY <2>2, <2>3, <2>4 DEF ends, n
  <1>4. /\ d.continuous <=> d.knowsContinuous
        /\ d.knowsContinuous => t.continuous /\ ends(d.wire) = {}
        /\ \A i, j \in ends(d.wire) : i = j /\ t.continuous
        /\ t.fenced => \/ <<"fence">> \in Range(d.out)
                       \/ \E i \in Types(d.wire, {"fence"}) : d.wire[i].request
        /\ d.continuous \/ d.rects = 0 => d.region = d.size
    BY Zenon DEF Debts
  <1> HIDE DEF u, n, ends
  <1>5. e.knowsContinuous => u.continuous /\ ends(e.wire) = {}
    BY <1>1, <1>2, <1>3, <1>4
  <1>6. \A i, j \in ends(e.wire) : i = j /\ u.continuous
    BY <1>2, <1>3, <1>4
  <1>7. u.fenced => \/ <<"fence">> \in Range(e.out)
                    \/ \E i \in Types(e.wire, {"fence"}) : e.wire[i].request
    BY <1>1, <1>2, <1>3, <1>4
  <1>8. (e.continuous <=> e.knowsContinuous) /\ (e.continuous \/ e.rects = 0 => e.region = e.size)
    BY <1>1, <1>4
  <1> QED BY <1>5, <1>6, <1>7, <1>8, Zenon DEF Debts, u, ends

(* Neither of them waits for ever.                                         *)
LEMMA AddsAwaits ==
  ASSUME NEW d, Whole(d.wire), Awaits(d), NEW turn, NEW m, turn.parts = <<m>>, NEW out,
         NEW e, Speaks(d, e, turn, out)
  PROVE  Awaits(e)
  <1> DEFINE n == Len(d.wire) + 1
  <1>1. /\ e.wire = d.wire \o <<m>> /\ e.continuous = d.continuous /\ e.rects = d.rects
        /\ e.dropped = d.dropped
    BY DEF Speaks, Spoken, SameDecoder
  <1>2. /\ \A i \in Types(d.wire, {"update"}) : i \in Types(e.wire, {"update"})
        /\ m.type = "update" => n \in Types(e.wire, {"update"})
    BY <1>1, TypesMore
  <1>3. turn.parts[1] = m /\ turn.parts # <<>>
    OBVIOUS
  <1>4. e.asked <=> d.asked /\ m.type # "update"
    BY <1>3 DEF Speaks
  <1> HIDE DEF n
  <1> QED BY <1>1, <1>2, <1>4 DEF Awaits

(* What is said goes on from what was said.                                *)
LEMMA AddsSpeech ==
  ASSUME NEW w, Whole(w), NEW a, NEW t, Speech(w, a, Stand(t), t.repertoire), NEW m, NEW u,
         Adds(t, m, u)
  PROVE  Speech(w \o <<m>>, a, Stand(u), u.repertoire)
  <1>1. PICK S : w \in Seq(S)
    BY DEF Whole
  <1>2. /\ Stand(u) \in Standings /\ Leads(Stand(t), m, Stand(u), t.repertoire)
        /\ u.repertoire = t.repertoire
    BY DEF Adds
  <1> QED BY <1>1, <1>2, SpeechMore

(* The viewer stays where it is in it.                                     *)
LEMMA AddsParses ==
  ASSUME NEW d, NEW t, Bytes(d), Parses(d, t), NEW turn, NEW m, turn.parts = <<m>>,
         Adds(t, m, turn.next), NEW out, NEW e, Speaks(d, e, turn, out)
  PROVE  Parses(e, turn.next)
  <1> DEFINE u == turn.next
  <1>1. DecoderFits(d) /\ Stands(d)
    BY DEF Parses
  <1>2. PICK a : From(d, a) /\ Speech(d.wire, a, Stand(t), t.repertoire)
    BY DEF Parses
  <1>3. Whole(d.wire) /\ Whole(<<m>>)
    BY WholeParts DEF Bytes, Adds
  <1>4. Speech(d.wire \o <<m>>, a, Stand(u), u.repertoire)
    BY <1>2, <1>3, AddsSpeech
  <1>5. e.wire = d.wire \o <<m>> /\ e.at = d.at
    BY DEF Speaks, Spoken
  <1>6. /\ DecoderFits(e) /\ (Begun(e) <=> Begun(d)) /\ Unread(e) = Unread(d) /\ e.rect = d.rect
        /\ e.rects = d.rects
    BY <1>1, SpeaksDecoder
  <1>7. Inside(e) <=> Inside(d)
    BY <1>6 DEF Inside
  <1>8. Stands(e)
    <2>1. CASE Inside(d)
      <3>1. d.wire # <<>> /\ Head(d.wire) = d.rect /\ d.at = d.rect.len - Unread(d)
        BY <1>1, <2>1 DEF Stands
      <3>2. e.wire # <<>> /\ Head(e.wire) = Head(d.wire)
        BY <1>3, <1>5, <3>1, JoinedAfter
      <3> QED BY <1>1, <1>5, <1>6, <1>7, <2>1, <3>1, <3>2 DEF Stands
    <2>2. CASE ~Inside(d)
      BY <1>1, <1>5, <1>6, <1>7, <2>2 DEF Stands
    <2> QED BY <2>1, <2>2
  <1>9. From(e, a)
    BY <1>2, <1>6, <1>7 DEF From, RectsLeft
  <1> HIDE DEF u
  <1>10. Parses(e, u)
    BY <1>4, <1>5, <1>6, <1>8, <1>9, Zenon DEF Parses
  <1> QED BY <1>10 DEF u

(* To a viewer that is connected the server says more.                     *)
LEMMA TalkingSays ==
  ASSUME NEW d, NEW t, ServerInv(t), Talking(d, t), NEW asked, NEW turn \in Says(t, asked),
         NEW e, Speaks(d, e, turn, d.out)
  PROVE  Talking(e, turn.next) /\ turn.next.version = t.version
  <1> DEFINE u == turn.next
  <1>1. /\ d.sock = "open" /\ d.askings = 0 /\ ~d.halted /\ t.phase = "normal" /\ Hears(d)
        /\ Bytes(d) /\ Parses(d, t) /\ Debts(d, t) /\ Awaits(d) /\ d.out \in Seq({<<"fence">>})
    BY DEF Talking, Owed
  <1>2. Stand(t) \in Standings
    <2>1. PICK a : Speech(d.wire, a, Stand(t), t.repertoire)
      BY <1>1 DEF Parses
    <2>2. Whole(d.wire)
      BY <1>1 DEF Bytes
    <2>3. Len(d.wire) \in Nat
      BY <2>2 DEF Whole
    <2> QED BY <2>1, <2>3, SpeechEnds
  <1>3. PICK m : turn.parts = <<m>> /\ Adds(t, m, u)
    BY <1>2, SaysAdds
  <1>4. Whole(d.wire) /\ Whole(turn.parts)
    BY <1>1, <1>3, WholeParts DEF Bytes, Adds
  <1>5. Bytes(e)
    BY <1>1, <1>4, SpeaksBytes
  <1>6. Parses(e, u)
    BY <1>1, <1>3, AddsParses
  <1>7. Debts(e, u)
    BY <1>1, <1>3, <1>4, AddsDebts
  <1>8. Awaits(e)
    BY <1>1, <1>3, <1>4, AddsAwaits
  <1>9. /\ e.sock = "open" /\ e.askings = 0 /\ ~e.halted /\ Hears(e) /\ e.out = d.out
    BY <1>1 DEF Speaks, Spoken, SameSession, SameTalk, Hears
  <1>10. u.phase = "normal" /\ u.version = t.version
    BY <1>3 DEF Adds
  <1> HIDE DEF u
  <1>11. Talking(e, u)
    BY <1>1, <1>5, <1>6, <1>7, <1>8, <1>9, <1>10, Zenon DEF Talking, Owed
  <1> QED BY <1>10, <1>11 DEF u

(* It hears of its fence.                                                  *)
LEMMA TalkingAnswers ==
  ASSUME NEW d, NEW t, ServerInv(t), Talking(d, t), d.out # <<>>,
         NEW turn \in Answer(t, Head(d.out)), NEW e, Speaks(d, e, turn, Tail(d.out))
  PROVE  Talking(e, turn.next) /\ turn.next.version = t.version
  <1> DEFINE u == turn.next
  <1>1. /\ d.sock = "open" /\ d.askings = 0 /\ ~d.halted /\ t.phase = "normal" /\ Hears(d)
        /\ Bytes(d) /\ Parses(d, t) /\ Debts(d, t) /\ Awaits(d) /\ d.out \in Seq({<<"fence">>})
    BY DEF Talking, Owed
  <1>2. turn = [parts |-> <<>>, next |-> [t EXCEPT !.fenced = FALSE]]
    BY <1>1 DEF Answer
  <1>3. /\ turn.parts = <<>> /\ u.fenced = FALSE /\ u.phase = "normal" /\ u.version = t.version
        /\ u.repertoire = t.repertoire /\ u.owed = t.owed /\ u.open = t.open
        /\ u.continuous = t.continuous
    BY <1>1, <1>2 DEF ServerInv
  <1>4. Whole(d.wire) /\ Whole(turn.parts)
    BY <1>1, <1>3, PartsHaveBytes, WholeParts DEF Bytes
  <1>5. Bytes(e) /\ e.at = d.at
    <2>1. Bytes(d)
      BY <1>1
    <2>2. Bytes(e) /\ e.at = d.at /\ e.avail = d.avail /\ e.wire = d.wire \o turn.parts
      BY <1>4, <2>1, SpeaksBytes, Zenon
    <2> QED BY <2>2
  <1>6. e.wire = d.wire
    BY <1>3, <1>4, JoinsNothing DEF Speaks, Spoken
  <1>7. /\ e.sock = "open" /\ e.askings = 0 /\ ~e.halted /\ Hears(e) /\ e.out = Tail(d.out)
        /\ e.continuous = d.continuous /\ e.knowsContinuous = d.knowsContinuous
        /\ e.region = d.region /\ e.size = d.size /\ e.rects = d.rects /\ e.dropped = d.dropped
        /\ (e.asked <=> d.asked)
    BY <1>1, <1>3 DEF Speaks, Spoken, SameSession, SameTalk, SameDecoder, Hears
  <1>8. e.out \in Seq({<<"fence">>})
    BY <1>1, <1>7
  <1> HIDE DEF u
  <1>9. Debts(e, u) /\ Awaits(e)
    BY <1>1, <1>3, <1>6, <1>7 DEF Debts, Awaits
  <1>10. Parses(e, u)
    <2>1. PICK a : From(d, a) /\ Speech(d.wire, a, Stand(t), t.repertoire)
      BY <1>1 DEF Parses
    <2>2. DecoderFits(d) /\ Stands(d)
      BY <1>1 DEF Parses
    <2>3. /\ DecoderFits(e) /\ (Begun(e) <=> Begun(d)) /\ Unread(e) = Unread(d)
          /\ e.rect = d.rect /\ e.rects = d.rects
      BY <2>2, SpeaksDecoder
    <2>4. Inside(e) <=> Inside(d)
      BY <2>3 DEF Inside
    <2>5. Stands(e)
      BY <1>5, <1>6, <2>2, <2>3, <2>4 DEF Stands
    <2>6. From(e, a)
      BY <2>1, <2>3, <2>4 DEF From, RectsLeft
    <2>7. Stand(u) = Stand(t)
      BY <1>3 DEF Stand
    <2>8. Speech(e.wire, a, Stand(u), u.repertoire)
      BY <1>3, <1>6, <2>1, <2>7
    <2> QED BY <2>3, <2>5, <2>6, <2>8, Zenon DEF Parses
  <1>11. Talking(e, u)
    BY <1>3, <1>5, <1>7, <1>8, <1>9, <1>10, Zenon DEF Talking, Owed
  <1> QED BY <1>3, <1>11 DEF u

(* Its initialisation is under way, and it goes on.                        *)
LEMMA InitNormal ==
  ASSUME NEW d, NEW t, Talk(d, t), t.phase = "normal"
  PROVE  TalkInit(d, t) /\ d.wire # <<>> /\ Head(d.wire) = InitPart(t.tight) /\ d.out = <<>>
         /\ \E a \in Standings : a.k = 0 /\ Speech(Tail(d.wire), a, Stand(t), t.repertoire)
  <1>1. CASE TalkVersion(d, t)
    BY <1>1 DEF TalkVersion
  <1>2. CASE TalkSecurity(d, t)
    BY <1>2 DEF TalkSecurity
  <1>3. CASE TalkAuth(d, t)
    BY <1>3 DEF TalkAuth, TalkAsking, TalkPassword, TalkVeNCrypt, TalkTight, AfterTunnels, Verdict
  <1>4. CASE TalkResult(d, t)
    BY <1>4 DEF TalkResult, Verdict
  <1>5. CASE TalkReason(d, t)
    BY <1>5 DEF TalkReason
  <1>6. CASE TalkInit(d, t)
    BY <1>6 DEF TalkInit
  <1> QED BY <1>1, <1>2, <1>3, <1>4, <1>5, <1>6 DEF Talk

(* So it goes on while the viewer has yet to read the initialisation.      *)
LEMMA InitSays ==
  ASSUME NEW d, NEW t, ServerInv(t), Wired(d, t), d.conn = "connecting", d.sock = "open",
         NEW asked, NEW turn \in Says(t, asked), NEW e, Speaks(d, e, turn, d.out)
  PROVE  Wired(e, turn.next) /\ turn.next.version = t.version
  <1> DEFINE u == turn.next
  <1>1. t.phase = "normal" /\ Shaking(d, t) /\ (d.askings = 0 => Waits(d)) /\ d.askings \in {0, 1}
    BY DEF Wired, Says
  <1>2. /\ Idle(d) /\ Bytes(d) /\ d.at = 0 /\ Hears(d) /\ Debts(d, t) /\ (d.askings = 1 => Asks(d))
        /\ Talk(d, t)
    BY <1>1 DEF Shaking
  <1>3. TalkInit(d, t) /\ d.wire # <<>> /\ Head(d.wire) = InitPart(t.tight) /\ d.out = <<>>
    BY <1>1, <1>2, InitNormal
  <1>4. PICK a \in Standings : a.k = 0 /\ Speech(Tail(d.wire), a, Stand(t), t.repertoire)
    BY <1>1, <1>2, InitNormal
  <1>5. d.askings = 0 /\ d.init = "ServerInitialisation" /\ (d.tight <=> t.tight) /\ Waits(d)
    BY <1>1, <1>2, <1>3 DEF TalkInit, Asks
  <1>6. Whole(d.wire) /\ Whole(Tail(d.wire))
    BY <1>2, <1>3, WholeFirst DEF Bytes
  <1>7. Stand(t) \in Standings
    <2>1. Len(Tail(d.wire)) \in Nat
      BY <1>6 DEF Whole
    <2> QED BY <1>4, <2>1, SpeechEnds
  <1>8. PICK m : turn.parts = <<m>> /\ Adds(t, m, u)
    BY <1>7, SaysAdds
  <1>9. Whole(turn.parts)
    BY <1>8, WholeParts DEF Adds
  <1>10. u.phase = "normal" /\ u.version = t.version /\ u.tight = t.tight
    BY <1>8 DEF Adds
  <1>11. Bytes(e) /\ e.at = 0 /\ e.avail = d.avail /\ e.wire = d.wire \o turn.parts
    <2>1. Bytes(d) /\ d.at = 0
      BY <1>2
    <2>2. Bytes(e) /\ e.at = d.at /\ e.avail = d.avail /\ e.wire = d.wire \o turn.parts
      BY <1>9, <2>1, SpeaksBytes, Zenon
    <2> QED BY <2>1, <2>2
  <1>12. /\ e.wire # <<>> /\ Head(e.wire) = Head(d.wire)
         /\ Tail(e.wire) = Tail(d.wire) \o <<m>>
    BY <1>3, <1>6, <1>8, <1>9, <1>11, JoinedAfter, SMTT(20), ZenonT(40)
  <1>13. Debts(e, u)
    BY <1>2, <1>6, <1>8, AddsDebts
  <1>14. Speech(Tail(e.wire), a, Stand(u), u.repertoire)
    BY <1>4, <1>6, <1>8, <1>12, AddsSpeech
  <1> HIDE DEF u
  <1>15. /\ e.conn = "connecting" /\ e.sock = "open" /\ e.askings = 0 /\ Hears(e)
         /\ e.init = d.init /\ e.tight = d.tight /\ e.scheme = d.scheme /\ e.out = d.out
    BY <1>2, <1>5 DEF Speaks, Spoken, SameSession, SameTalk, Hears
  <1>16. TalkInit(e, u)
    BY <1>3, <1>4, <1>5, <1>10, <1>12, <1>14, <1>15 DEF TalkInit
  <1>17. Talk(e, u) /\ Opened(e)
    BY <1>16, TalkOpened DEF Talk
  <1>18. Idle(e)
    <2>1. DecoderFits(e) /\ e.rects = 0 /\ e.rect = NoRect
      BY <1>2, SpeaksDecoder DEF Idle
    <2> QED BY <1>2, <2>1 DEF Idle, Speaks
  <1>19. Shaking(e, u)
    BY <1>10, <1>11, <1>13, <1>15, <1>17, <1>18 DEF Shaking
  <1>20. Waits(e)
    BY <1>3, <1>5, <1>11, <1>12, <1>15 DEF Waits
  <1>21. Wired(e, u)
    BY <1>15, <1>19, <1>20 DEF Wired
  <1> QED BY <1>10, <1>21 DEF u

(* What the server says keeps them wired.                                  *)
LEMMA ServerSpeaksWired ==
  ASSUME DrawInv, WireInv, ServerSpeaks
  PROVE  WireInv'
  <1>1. PICK turn \in Turns :
          /\ s' = turn.next
          /\ c' = [c EXCEPT !.wire = @ \o turn.parts,
                            !.out = IF turn \in Unasked(s) \cup Says(s, c.asked)
                                      THEN @ ELSE Tail(@),
                            !.asked = @ /\ (turn.parts = <<>> \/ turn.parts[1].type # "update")]
    BY DEF ServerSpeaks
  <1>2. c.sock = "open" /\ c.conn # "disconnected"
    BY DEF ServerSpeaks
  <1>3. Viewer(c) /\ ServerInv(s) /\ s.version \in Int /\ Wired(c, s)
    BY BothSay
  <1>4. \/ c.conn = "connecting"
        \/ c.conn = "connected" /\ Talking(c, s)
    BY <1>2, BothSay DEF Gone
  <1> DEFINE out == IF turn \in Unasked(s) \cup Says(s, c.asked) THEN c.out ELSE Tail(c.out)
             asked == c.asked /\ (turn.parts = <<>> \/ turn.parts[1].type # "update")
             wire == c.wire \o turn.parts
             e == [c EXCEPT !.wire = wire, !.out = out, !.asked = asked]
  <1>5. c' = e
    BY <1>1
  <1>6. /\ asked <=> c.asked /\ (turn.parts = <<>> \/ turn.parts[1].type # "update")
        /\ wire = c.wire \o turn.parts
        /\ turn \in Unasked(s) \cup Says(s, c.asked) => out = c.out
        /\ turn \notin Unasked(s) \cup Says(s, c.asked) =>
              out = Tail(c.out) /\ c.out # <<>> /\ turn \in Answer(s, Head(c.out))
    BY DEF Turns
  <1> HIDE DEF out, asked, wire
  <1>7. Speaks(c, e, turn, out) /\ e.conn = c.conn
    <2>1. e.wire = wire /\ e.out = out /\ e.asked = asked /\ e.conn = c.conn
      BY <1>3 DEF Viewer
    <2>2. SameTalk(c, e) /\ SameSession(c, e) /\ SameDecoder(c, e)
      BY <1>3 DEF Viewer, SameTalk, SameSession, SameDecoder
    <2>3. /\ e.at = c.at /\ e.avail = c.avail /\ (e.lost <=> c.lost) /\ e.size = c.size
          /\ e.halted = c.halted /\ e.continuous = c.continuous /\ e.region = c.region
          /\ e.knowsContinuous = c.knowsContinuous /\ e.dropped = c.dropped
          /\ e.flushing = c.flushing
      BY <1>3 DEF Viewer
    <2> HIDE DEF e
    <2> QED BY <1>6, <2>1, <2>2, <2>3 DEF Speaks, Spoken
  <1> HIDE DEF e
  <1>8. Wired(e, turn.next) /\ turn.next.version \in Int
    <2>1. CASE c.conn = "connecting" /\ s.phase # "normal"
      <3>1. Says(s, c.asked) = {}
        BY <2>1 DEF Says
      <3>2. \/ turn \in Unasked(s) /\ out = c.out
            \/ c.out # <<>> /\ turn \in Answer(s, Head(c.out)) /\ out = Tail(c.out)
        BY <1>6, <3>1
      <3> QED BY <1>2, <1>3, <1>7, <2>1, <3>2, ShakingSpeaks
    <2>2. ASSUME s.phase = "normal" PROVE Unasked(s) = {}
      BY <2>2 DEF Unasked
    <2>3. CASE c.conn = "connecting" /\ s.phase = "normal"
      <3>1. Talk(c, s)
        BY <1>2, <2>3, BothSay DEF Shaking
      <3>2. c.out = <<>>
        BY <2>3, <3>1, InitNormal
      <3>3. turn \in Says(s, c.asked) /\ out = c.out
        BY <1>6, <2>2, <2>3, <3>2
      <3> QED BY <1>2, <1>3, <1>7, <2>3, <3>3, InitSays
    <2>4. CASE c.conn = "connected" /\ Talking(c, s)
      <3>1. s.phase = "normal" /\ Unasked(s) = {}
        BY <2>2, <2>4 DEF Talking
      <3>2. Talking(e, turn.next) /\ turn.next.version = s.version
        <4>1. CASE turn \in Says(s, c.asked)
          <5>1. out = c.out
            BY <1>6, <4>1
          <5> QED BY <1>3, <1>7, <2>4, <4>1, <5>1, TalkingSays
        <4>2. CASE turn \notin Says(s, c.asked)
          <5>1. out = Tail(c.out) /\ c.out # <<>> /\ turn \in Answer(s, Head(c.out))
            BY <1>6, <3>1, <4>2
          <5> QED BY <1>3, <1>7, <2>4, <5>1, TalkingAnswers
        <4> QED BY <4>1, <4>2
      <3>3. e.conn = "connected" /\ e.askings = 0
        BY <1>7, <2>4, <3>2 DEF Talking
      <3> QED BY <1>3, <3>2, <3>3 DEF Wired
    <2> QED BY <1>4, <2>1, <2>3, <2>4
  <1> QED BY <1>1, <1>5, <1>8 DEF WireInv

(* Before anything is said                                                 *)
LEMMA InitWired == Init => WireInv
  <1> SUFFICES ASSUME Init PROVE WireInv
    OBVIOUS
  <1>1. PICK creds, answer : c = NewViewer(creds, answer)
    BY DEF Init
  <1>2. s = NewServer
    BY DEF Init
  <1>3. /\ c.conn = "connecting" /\ c.sock = "connecting" /\ c.askings = 0 /\ c.at = 0
        /\ c.avail = 0 /\ c.lost = FALSE /\ c.wire = <<>> /\ c.out = <<>> /\ ~c.tight
        /\ c.vencrypt = 0 /\ c.onOpen /\ c.onMessage /\ c.onClose /\ ~c.timer
        /\ c.rects = 0 /\ c.rect = NoRect /\ ~c.flushing /\ ~c.halted /\ ~c.asked
        /\ ~c.continuous /\ ~c.knowsContinuous /\ c.region = c.size
        /\ c.lines = 0 /\ c.subrects = 0 /\ c.tiles = 0 /\ c.ctl = "none" /\ c.filter = "none"
        /\ c.colours = 0 /\ c.len = 0
    BY <1>1 DEF NewViewer
  <1>4. ~Opened(c)
    BY <1>1, Zenon DEF NewViewer, Opened
  <1>5. /\ s.phase = "announce" /\ s.version = 0 /\ s.owed = 0 /\ s.open = FALSE
        /\ ~s.continuous /\ ~s.fenced
    BY <1>2 DEF NewServer
  <1>6. DecoderFits(c)
    BY <1>3 DEF DecoderFits, RawFits, RREFits, HextileFits, TightFits, TightIdle, Decoding, Begun
  <1>7. Bytes(c)
    <2>1. Whole(<<>>)
      BY PartsHaveBytes, WholeParts
    <2>2. Total(<<>>) \in Nat
      BY <2>1, WholeMeasured
    <2> QED BY <1>3, <2>1, <2>2 DEF Bytes
  <1>8. Idle(c) /\ Hears(c) /\ Quiet(s) /\ Said(c, <<>>)
    BY <1>3, <1>5, <1>6 DEF Idle, Hears, Quiet, Said
  <1>9. Shaking(c, s)
    BY <1>2, <1>3, <1>4, <1>5, <1>7, <1>8 DEF Shaking
  <1> QED BY <1>3, <1>5, <1>9 DEF WireInv, Wired, Waits

(* Each step keeps them wired.                                             *)
LEMMA StepWired ==
  ASSUME DrawInv, WireInv, [Next]_vars
  PROVE  WireInv'
  <1>1. CASE UNCHANGED vars
    BY <1>1 DEF vars, WireInv
  <1>2. CASE Next
    <2>1. ASSUME NEW p \in Places, Receive(p - c.avail) PROVE WireInv'
      BY <2>1, ReceiveWired
    <2> QED BY <1>2, <2>1, OpenWired, ServerSpeaksWired, CloseWired, TimeoutWired,
               ResumeHandshakeWired, ImageWired, PageWired DEF Next
  <1> QED BY <1>1, <1>2

(* Who waits in the handshake has read all that was sent; only a result    *)
(* after an empty list is left.                                            *)
LEMMA WaitsFor ==
  ASSUME Bytes(c), c.at = 0, Waits(c), ~(UnderWay > 0),
         ~(c.scheme = 16 /\ c.init = "SecurityResult" /\ c.avail >= 4)
  PROVE  c.wire = <<>>
  <1> SUFFICES ASSUME c.wire # <<>> PROVE FALSE
    OBVIOUS
  <1>1. c.avail < Head(c.wire).len
    BY DEF Waits
  <1>2. /\ Head(c.wire).len \in Nat /\ Total(Tail(c.wire)) \in Nat /\ c.avail \in Nat
        /\ Total(c.wire) = Head(c.wire).len + Total(Tail(c.wire))
    BY WholeFirst DEF Bytes
  <1>3. UnderWay = Total(c.wire) - c.avail
    BY <1>2 DEF UnderWay
  <1> QED BY <1>1, <1>2, <1>3

(* It is the server's turn, and the server has something to say.           *)
LEMMA TurnsComeUp ==
  ASSUME NEW t
  PROVE  /\ Announce(t) # {} /\ Decide(t) # {} /\ OfferTypes(t) # {} /\ OfferTight(t) # {}
         /\ OfferSubAuths(t) # {} /\ OfferSubtypes(t) # {} /\ Judge(t) # {} /\ Initialise(t) # {}
  BY ServersAssumption
     DEF Announce, Decide, OfferTypes, OfferTight, OfferSubAuths, OfferSubtypes, Judge, Initialise

(* It has an answer to each message that it waits for.                     *)
LEMMA AnswersSome ==
  ASSUME NEW t
  PROVE  /\ t.phase = "id" => Answer(t, <<"id">>) # {}
         /\ t.phase = "version" => Answer(t, <<"version">>) # {}
         /\ t.phase = "choice" =>
              /\ t.version >= 38 => Answer(t, <<"choice", 1>>) # {}
              /\ t.version < 38 => Answer(t, <<"choice", 1>>) # {}
              /\ Answer(t, <<"choice", 2>>) # {} /\ Answer(t, <<"choice", 16>>) # {}
              /\ Answer(t, <<"choice", 19>>) # {} /\ Answer(t, <<"choice", 22>>) # {}
         /\ t.phase = "target" => Answer(t, <<"target">>) # {}
         /\ t.phase = "notunnel" => Answer(t, <<"notunnel">>) # {}
         /\ t.phase = "subauth" =>
              /\ Answer(t, <<"subauth", 1>>) # {} /\ Answer(t, <<"subauth", 2>>) # {}
              /\ Answer(t, <<"subauth", 129>>) # {}
         /\ t.phase = "vencrypt" => Answer(t, <<"vencrypt">>) # {}
         /\ t.phase = "plain" => Answer(t, <<"plain">>) # {}
         /\ t.phase = "login" => Answer(t, <<"login">>) # {}
         /\ t.phase = "response" => Answer(t, <<"response">>) # {}
         /\ t.phase = "init" => Answer(t, <<"init">>) # {}
  <1>0. \A u : /\ Announce(u) # {} /\ Decide(u) # {} /\ OfferTypes(u) # {} /\ OfferTight(u) # {}
               /\ OfferSubAuths(u) # {} /\ OfferSubtypes(u) # {} /\ Judge(u) # {}
               /\ Initialise(u) # {}
    BY TurnsComeUp
  <1>1. CASE t.phase = "choice"
    <2>1. /\ Answer(t, <<"choice", 1>>) = IF t.version >= 38 THEN Judge(t) ELSE {Turn(t, "init", <<>>)}
          /\ Answer(t, <<"choice", 16>>) = OfferTight([t EXCEPT !.tight = TRUE])
      BY <1>1, Answers
    <2>2. /\ Answer(t, <<"choice", 2>>) # {} /\ Answer(t, <<"choice", 19>>) # {}
          /\ Answer(t, <<"choice", 22>>) # {}
      BY <1>1, Answers
    <2> QED BY <1>0, <1>1, <2>1, <2>2
  <1>2. CASE t.phase = "subauth"
    <2>1. Answer(t, <<"subauth", 1>>) = Judge(t)
      BY <1>2, Answers
    <2>2. Answer(t, <<"subauth", 2>>) # {} /\ Answer(t, <<"subauth", 129>>) # {}
      BY <1>2, Answers
    <2> QED BY <1>0, <1>2, <2>1, <2>2
  <1>3. CASE t.phase = "version"
    <2>1. Answer(t, <<"version">>) = IF t.version >= 37 THEN OfferTypes(t) ELSE Decide(t)
      BY <1>3, Answers
    <2> QED BY <1>0, <1>3, <2>1
  <1>4. CASE t.phase \in {"id", "notunnel", "vencrypt", "login", "response", "init"}
    <2>1. /\ t.phase = "id" => Answer(t, <<"id">>) = Announce(t)
          /\ t.phase = "notunnel" => Answer(t, <<"notunnel">>) = OfferSubAuths(t)
          /\ t.phase = "vencrypt" => Answer(t, <<"vencrypt">>) = OfferSubtypes(t)
          /\ t.phase = "login" => Answer(t, <<"login">>) = Judge(t)
          /\ t.phase = "response" => Answer(t, <<"response">>) = Judge(t)
          /\ t.phase = "init" => Answer(t, <<"init">>) = Initialise(t)
      BY Answers, Zenon
    <2> QED BY <1>0, <1>4, <2>1
  <1>5. CASE t.phase = "target"
    BY <1>5, Answers
  <1>6. CASE t.phase = "plain"
    BY <1>6, Answers
  <1> QED BY <1>1, <1>2, <1>3, <1>4, <1>5, <1>6

(* To each message that can be under way, alone or first of two            *)
LEMMA TalkMoves ==
  ASSUME NEW d, NEW t, t.version \in Int, Talk(d, t), d.askings = 0, d.wire = <<>>
  PROVE  Unasked(t) # {} \/ (d.out # <<>> /\ Answer(t, Head(d.out)) # {})
  <1> DEFINE Moves == Unasked(t) # {} \/ (d.out # <<>> /\ Answer(t, Head(d.out)) # {})
             HasAnswer(m) == Answer(t, m) # {}
  <1>0. /\ t.phase = "id" => HasAnswer(<<"id">>)
        /\ t.phase = "version" => HasAnswer(<<"version">>)
        /\ t.phase = "choice" =>
             /\ t.version >= 38 => HasAnswer(<<"choice", 1>>)
             /\ t.version < 38 => HasAnswer(<<"choice", 1>>)
             /\ HasAnswer(<<"choice", 2>>) /\ HasAnswer(<<"choice", 16>>)
             /\ HasAnswer(<<"choice", 19>>) /\ HasAnswer(<<"choice", 22>>)
        /\ t.phase = "target" => HasAnswer(<<"target">>)
        /\ t.phase = "notunnel" => HasAnswer(<<"notunnel">>)
        /\ t.phase = "subauth" =>
             /\ HasAnswer(<<"subauth", 1>>) /\ HasAnswer(<<"subauth", 2>>)
             /\ HasAnswer(<<"subauth", 129>>)
        /\ t.phase = "vencrypt" => HasAnswer(<<"vencrypt">>)
        /\ t.phase = "plain" => HasAnswer(<<"plain">>)
        /\ t.phase = "login" => HasAnswer(<<"login">>)
        /\ t.phase = "response" => HasAnswer(<<"response">>)
        /\ t.phase = "init" => HasAnswer(<<"init">>)
    BY AnswersSome, Zenon
  <1>1. ASSUME NEW m, Said(d, <<m>>), HasAnswer(m)
        PROVE  Moves
    <2>1. d.out # <<>> /\ Head(d.out) = m
      BY <1>1, FirstOfTwo, Zenon DEF Said
    <2> QED BY <1>1, <2>1
  <1>2. ASSUME NEW m, NEW n, Said(d, <<m, n>>), HasAnswer(m)
        PROVE  Moves
    <2>1. d.out # <<>> /\ Head(d.out) = m
      BY <1>2, FirstOfTwo, ZenonT(40) DEF Said
    <2> QED BY <1>2, <2>1
  <1>3. ASSUME t.phase \in {"announce", "subauths", "result"}
        PROVE  Moves
    <2>1. /\ t.phase = "announce" => Unasked(t) = Announce(t)
          /\ t.phase = "subauths" => Unasked(t) = OfferSubAuths(t)
          /\ t.phase = "result" => Unasked(t) = Judge(t)
      BY DEF Unasked
    <2> QED BY <1>3, <2>1, TurnsComeUp
  <1> HIDE DEF Moves, HasAnswer
  <1> SUFFICES Moves
    BY DEF Moves
  <1>4. /\ \A a : ~Heard(d, <<a>>)
        /\ \A a, b : ~Heard(d, <<a, b>>)
        /\ \A a, b, e : ~Heard(d, <<a, b, e>>)
    BY DEF Heard
  <1>5. CASE TalkVersion(d, t)
    <2>1. \/ t.phase = "announce"
          \/ t.phase = "id" /\ Said(d, <<<<"id">>>>)
      BY <1>4, <1>5, Zenon DEF TalkVersion
    <2>2. t.phase = "announce" => Moves
      BY <1>3
    <2> QED BY <1>1, <2>1, <2>2, <1>0, Zenon
  <1>6. CASE TalkSecurity(d, t)
    <2>1. t.phase = "version" /\ Said(d, <<<<"version">>>>)
      BY <1>4, <1>6, Zenon DEF TalkSecurity
    <2> QED BY <1>1, <2>1, <1>0, Zenon
  <1>7. CASE TalkAuth(d, t)
    <2>1. TalkPassword(d, t) \/ TalkTight(d, t) \/ TalkVeNCrypt(d, t)
      BY <1>7 DEF TalkAuth
    <2>2. CASE TalkPassword(d, t)
      <3> DEFINE a == <<<<"choice", 2>>>>
                 b == <<<<"choice", 22>>, <<"target">>>>
      <3>0. d.out \in {a, b} => Said(d, a) \/ Said(d, b)
        BY DEF Said
      <3>1. \/ t.phase = "choice" /\ d.out \in {a, b}
            \/ t.phase = "target" /\ Said(d, <<<<"target">>>>)
            \/ t.phase = "subauth" /\ Said(d, <<<<"subauth", 2>>>>)
        BY <1>4, <2>2, Zenon DEF TalkPassword
      <3> QED BY <1>1, <1>2, <3>0, <3>1, <1>0, Zenon
    <2>3. CASE TalkTight(d, t)
      <3>1. \/ t.phase = "choice" /\ Said(d, <<<<"choice", 16>>>>)
            \/ t.phase = "notunnel" /\ Said(d, <<<<"notunnel">>>>)
            \/ AfterTunnels(d.wire, t)
        BY <1>4, <2>3, Zenon DEF TalkTight
      <3>2. ~Verdict(d.wire, t)
        BY DEF Verdict
      <3>3. AfterTunnels(d.wire, t) => Moves
        <4>1. AfterTunnels(d.wire, t) => t.phase = "subauths"
          BY DEF AfterTunnels
        <4> QED BY <1>3, <4>1
      <3> QED BY <1>1, <3>1, <3>3, <1>0, Zenon
    <2>4. CASE TalkVeNCrypt(d, t)
      <3>1. \/ t.phase = "choice" /\ Said(d, <<<<"choice", 19>>>>)
            \/ t.phase = "vencrypt" /\ Said(d, <<<<"vencrypt">>>>)
        BY <1>4, <2>4, Zenon DEF TalkVeNCrypt
      <3> QED BY <1>1, <3>1, <1>0, Zenon
    <2> QED BY <2>1, <2>2, <2>3, <2>4
  <1>8. CASE TalkResult(d, t)
    <2>1. \/ t.phase = "choice" /\ t.version >= 38 /\ Said(d, <<<<"choice", 1>>>>)
          \/ t.phase = "subauth" /\ Said(d, <<<<"subauth", 1>>>>)
          \/ t.phase = "subauth" /\ Said(d, <<<<"subauth", 129>>, <<"login">>>>)
          \/ t.phase = "plain" /\ Said(d, <<<<"plain">>, <<"login">>>>)
          \/ t.phase = "login" /\ Said(d, <<<<"login">>>>)
          \/ t.phase = "response" /\ Said(d, <<<<"response">>>>)
          \/ t.phase = "result"
          \/ Verdict(d.wire, t)
      BY <1>8, Zenon DEF TalkResult
    <2>2. ~Verdict(d.wire, t)
      BY DEF Verdict
    <2>3. t.phase = "result" => Moves
      BY <1>3
    <2>4. t.phase = "choice" /\ t.version >= 38 /\ Said(d, <<<<"choice", 1>>>>) => Moves
      BY <1>1, <1>0, Zenon
    <2>5. t.phase = "subauth" /\ Said(d, <<<<"subauth", 1>>>>) => Moves
      BY <1>1, <1>0, Zenon
    <2>6. t.phase = "subauth" /\ Said(d, <<<<"subauth", 129>>, <<"login">>>>) => Moves
      BY <1>2, <1>0, ZenonT(40)
    <2>7. t.phase = "plain" /\ Said(d, <<<<"plain">>, <<"login">>>>) => Moves
      BY <1>2, <1>0, Zenon
    <2>8. t.phase = "login" /\ Said(d, <<<<"login">>>>) => Moves
      BY <1>1, <1>0, Zenon
    <2>9. t.phase = "response" /\ Said(d, <<<<"response">>>>) => Moves
      BY <1>1, <1>0, Zenon
    <2> QED BY <2>1, <2>2, <2>3, <2>4, <2>5, <2>6, <2>7, <2>8, <2>9, Zenon
  <1>9. CASE TalkReason(d, t)
    BY <1>4, <1>9, Zenon DEF TalkReason
  <1>10. CASE TalkInit(d, t)
    <2>1. \/ t.phase = "choice" /\ t.version < 38 /\ Said(d, <<<<"choice", 1>>, <<"init">>>>)
          \/ t.phase = "init" /\ Said(d, <<<<"init">>>>)
      BY <1>10, Zenon DEF TalkInit
    <2> QED BY <1>1, <1>2, <2>1, <1>0, Zenon
  <1> QED BY <1>5, <1>6, <1>7, <1>8, <1>9, <1>10 DEF Talk

(* What follows from both invariants                                       *)
LEMMA WiredMoves ==
  ASSUME DrawInv, WireInv
  PROVE  HandshakeMoves
  <1> SUFFICES ASSUME c.conn = "connecting", c.sock = "open", ~(UnderWay > 0), ~(c.askings > 0),
                      ~(c.scheme = 16 /\ c.init = "SecurityResult" /\ c.avail >= 4)
               PROVE  Unasked(s) # {} \/ (c.out # <<>> /\ Answer(s, Head(c.out)) # {})
    BY DEF HandshakeMoves
  <1>1. Shaking(c, s) /\ (c.askings = 0 => Waits(c)) /\ Opened(c)
    BY BothSay
  <1>2. c.askings = 0 /\ s.version \in Int
    BY AsksAlways, BothSay
  <1>3. Bytes(c) /\ c.at = 0 /\ Talk(c, s)
    BY <1>1 DEF Shaking
  <1>4. c.wire = <<>>
    BY <1>1, <1>2, <1>3, WaitsFor
  <1> QED BY <1>2, <1>3, <1>4, TalkMoves

(* What both invariants say of a viewer that is connected                  *)
LEMMA WiredAwaits ==
  ASSUME DrawInv, WireInv
  PROVE  NeverStalled
  <1> SUFFICES ASSUME c.conn = "connected"
               PROVE  /\ ~c.dropped =>
                            /\ \/ c.asked \/ c.continuous \/ c.rects > 0 \/ s.owed > 0
                               \/ \E i \in DOMAIN c.wire : c.wire[i].type = "update"
                            /\ c.rects = 0 => c.region = c.size
                      /\ s.fenced =>
                            \/ <<"fence">> \in Range(c.out)
                            \/ \E i \in DOMAIN c.wire : c.wire[i].type = "fence"
    BY Zenon DEF NeverStalled
  <1>1. Debts(c, s) /\ Awaits(c)
    BY BothSay DEF Talking, Owed
  <1>2. ASSUME NEW a
        PROVE  \A i \in Types(c.wire, {a}) : i \in DOMAIN c.wire /\ c.wire[i].type = a
    BY DEF Types
  <1>3. ~c.dropped => \/ c.asked \/ c.continuous \/ c.rects > 0 \/ s.owed > 0
                      \/ \E i \in DOMAIN c.wire : c.wire[i].type = "update"
    <2>1. ~c.dropped => c.asked \/ c.continuous \/ c.rects > 0 \/ Types(c.wire, {"update"}) # {}
      BY <1>1, Zenon DEF Awaits
    <2>2. \A i \in Types(c.wire, {"update"}) : i \in DOMAIN c.wire /\ c.wire[i].type = "update"
      BY <1>2
    <2> QED BY <2>1, <2>2
  <1>4. c.rects = 0 => c.region = c.size
    BY <1>1, Zenon DEF Debts
  <1>5. s.fenced => \/ <<"fence">> \in Range(c.out)
                    \/ \E i \in DOMAIN c.wire : c.wire[i].type = "fence"
    <2>1. s.fenced => \/ <<"fence">> \in Range(c.out)
                      \/ \E i \in Types(c.wire, {"fence"}) : c.wire[i].request
      BY <1>1, Zenon DEF Debts
    <2>2. \A i \in Types(c.wire, {"fence"}) : i \in DOMAIN c.wire /\ c.wire[i].type = "fence"
      BY <1>2
    <2> QED BY <2>1, <2>2
  <1> QED BY <1>3, <1>4, <1>5

(* Theorem: wherever the network cuts the messages of the server, the      *)
(* viewer never takes the middle of one for the beginning of another nor   *)
(* reads past its end: each handler and decoder that returns early for     *)
(* lack of bytes has read, or gives back, exactly what it will not read    *)
(* again (websock.js, rQwait; rfb.js, _normalMsg, _framebufferUpdate; the  *)
(* decoders, decodeRect).                                                  *)
THEOREM StaysInSync == Spec => []InSync
  <1>1. Init => DrawInv /\ WireInv
    BY InitInv, InitWired
  <1>2. DrawInv /\ WireInv /\ [Next]_vars => DrawInv' /\ WireInv'
    BY StepKeeps, StepWired
  <1>3. DrawInv /\ WireInv => InSync
    BY AsksAlways DEF InSync
  <1> QED BY <1>1, <1>2, <1>3, PTL DEF Spec

(* Theorem: a viewer that is connected is owed an update of the whole      *)
(* framebuffer, or one is under way, unless an empty update met a queue    *)
(* that was not empty; and a server that waits for the answer to its fence *)
(* will have it (rfb.js, _framebufferUpdate, _handleServerFenceMsg,        *)
(* _resize, enableContinuousUpdates).                                      *)
THEOREM NeverStalls == Spec => []NeverStalled
  <1>1. Init => DrawInv /\ WireInv
    BY InitInv, InitWired
  <1>2. DrawInv /\ WireInv /\ [Next]_vars => DrawInv' /\ WireInv'
    BY StepKeeps, StepWired
  <1>3. DrawInv /\ WireInv => NeverStalled
    BY WiredAwaits
  <1> QED BY <1>1, <1>2, <1>3, PTL DEF Spec

(* Theorem: in the handshake, whatever is negotiated and however it        *)
(* arrives, bytes are under way, or the page is asked for credentials, or  *)
(* the server has something to say; only a result that arrives together    *)
(* with an empty list of Tight is left unread (rfb.js, _initMsg,           *)
(* _negotiateAuthentication, _negotiateTightAuth, _resumeAuthentication).  *)
THEOREM HandshakeNeverStuck == Spec => []HandshakeMoves
  <1>1. Init => DrawInv /\ WireInv
    BY InitInv, InitWired
  <1>2. DrawInv /\ WireInv /\ [Next]_vars => DrawInv' /\ WireInv'
    BY StepKeeps, StepWired
  <1>3. DrawInv /\ WireInv => HandshakeMoves
    BY WiredMoves
  <1> QED BY <1>1, <1>2, <1>3, PTL DEF Spec

===============================================================================
