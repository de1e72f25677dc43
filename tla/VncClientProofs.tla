--------------------------- MODULE VncClientProofs ---------------------------
(***************************************************************************)
(* The picture and the connection of the VNC viewer, proved for every set  *)
(* of cells, servers, credentials and places to cut.                       *)
(*                                                                         *)
(* A handler is a function of the viewer, made of smaller ones.  Three     *)
(* relations say what it made of the viewer it was called on, and each     *)
(* lemma takes one of them through one more function:                      *)
(*   Reads      it only read: the picture is the same, the rectangles on   *)
(*              the wire can be drawn, the connection is the same or ended *)
(*   Handles    it may have drawn: the display keeps its invariant         *)
(*   Call       it is done: nothing drawn is left unflipped between two    *)
(*              updates, and the connection made one step or none          *)
(* The second part is about the bytes of the wire: Bytes counts them, From *)
(* and Unread say where the viewer is in what the server says, and         *)
(*   Took, Steps  a decoder or a handler took a part of what it has yet to *)
(*                read, or gave back what it cannot read yet, and is where *)
(*                the rest begins                                          *)
(*   Heeds        it did what it promises the server as well               *)
(* VncHandshakeProofs makes the invariant of the wire of it.               *)
(*                                                                         *)
(* The display keeps DrawingInv: whatever is in the queue leads from the   *)
(* canvas to what the server drew, what is not damaged is shown, and only  *)
(* an image that has not loaded can be the first in the queue.  With Rest  *)
(* it gives Settles; with Flushes, NobodyWaitsInVain.                      *)
(***************************************************************************)
EXTENDS VncClient, WellFoundedInduction, FiniteSetTheorems, SequenceTheorems, TLAPS

(* The fields of the viewer that the handlers change one at a time. *)
Viewer(d) ==
    /\ "conn" \in DOMAIN d /\ "timer" \in DOMAIN d /\ "sock" \in DOMAIN d
    /\ "hearing" \in DOMAIN d /\ "onOpen" \in DOMAIN d /\ "onMessage" \in DOMAIN d
    /\ "onClose" \in DOMAIN d /\ "attached" \in DOMAIN d /\ "grabbed" \in DOMAIN d
    /\ "connects" \in DOMAIN d /\ "disconnects" \in DOMAIN d /\ "wire" \in DOMAIN d
    /\ "at" \in DOMAIN d /\ "avail" \in DOMAIN d /\ "lost" \in DOMAIN d /\ "out" \in DOMAIN d
    /\ "init" \in DOMAIN d /\ "version" \in DOMAIN d /\ "scheme" \in DOMAIN d
    /\ "tight" \in DOMAIN d /\ "vencrypt" \in DOMAIN d /\ "subtypes" \in DOMAIN d
    /\ "creds" \in DOMAIN d /\ "answer" \in DOMAIN d /\ "askings" \in DOMAIN d
    /\ "asked" \in DOMAIN d /\ "renderQ" \in DOMAIN d /\ "dflush" \in DOMAIN d
    /\ "size" \in DOMAIN d /\ "damage" \in DOMAIN d /\ "canvas" \in DOMAIN d
    /\ "shown" \in DOMAIN d /\ "ideal" \in DOMAIN d /\ "rects" \in DOMAIN d
    /\ "rect" \in DOMAIN d /\ "lines" \in DOMAIN d /\ "subrects" \in DOMAIN d
    /\ "tiles" \in DOMAIN d /\ "lastRaw" \in DOMAIN d /\ "ctl" \in DOMAIN d
    /\ "filter" \in DOMAIN d /\ "colours" \in DOMAIN d /\ "len" \in DOMAIN d
    /\ "halted" \in DOMAIN d /\ "flushing" \in DOMAIN d /\ "dropped" \in DOMAIN d
    /\ "continuous" \in DOMAIN d /\ "knowsContinuous" \in DOMAIN d /\ "region" \in DOMAIN d
    /\ "stray" \in DOMAIN d

(* b has the picture of a, and the operations that are to be drawn.        *)
SameDrawing(a, b) ==
    /\ b.renderQ = a.renderQ /\ b.dflush = a.dflush /\ b.damage = a.damage /\ b.canvas = a.canvas
    /\ b.shown = a.shown /\ b.ideal = a.ideal /\ b.rects = a.rects /\ b.rect = a.rect
    /\ b.flushing = a.flushing

SameConnection(a, b) ==
    b.conn = a.conn /\ b.connects = a.connects /\ b.disconnects = a.disconnects

(* The events of the connection are those of one of its steps, or of none. *)
Ends(a, b) ==
    \/ SameConnection(a, b)
    \/ /\ a.conn # "disconnected" /\ b.conn = "disconnected"
       /\ b.connects = a.connects /\ b.disconnects = a.disconnects + 1

(* What cells may hold, and the rectangles that can be drawn on them.      *)
Colours ==
    {Blank, Stale}
    \cup UNION {{r.colour : r \in Repertoires[i].rectangles} : i \in DOMAIN Repertoires}
Drawable(r) ==
    r.encoding \in Drawing =>
        r.cell \in Cells /\ r.colour \in Colours /\ (r.encoding = "copyRect" => r.from \in Cells)

(* Each rectangle on the wire can be drawn.                                *)
WireSound(w) == \E S : w \in Seq(S) /\ \A p \in S : p.type = "rect" => Drawable(p)

(* A handler that is called on a, and so far made b of it, has only read.  *)
Reads(a, b) ==
    /\ Viewer(b) /\ SameDrawing(a, b) /\ Ends(a, b)
    /\ WireSound(b.wire)

(* What is left of a sound wire is sound, and so is what was taken from it. *)
LEMMA TailSound ==
  ASSUME NEW w, WireSound(w), w # <<>>
  PROVE  WireSound(Tail(w)) /\ (Head(w).type = "rect" => Drawable(Head(w)))
  BY DEF WireSound

(* A handler that returns at once has read nothing.                        *)
LEMMA ReadsSelf == ASSUME NEW old, Viewer(old), WireSound(old.wire) PROVE Reads(old, old)
  BY DEF Reads, SameDrawing, Ends, SameConnection

(* To give bytes back, to lose track and to say something is to read.      *)
LEMMA Reading ==
  ASSUME NEW old, NEW d, Reads(old, d)
  PROVE  /\ \A n : Reads(old, Back(d, n))
         /\ Reads(old, Lose(d))
         /\ \A m : Reads(old, Say(d, m))
  BY DEF Viewer, Reads, SameDrawing, Ends, SameConnection, Back, Lose, Say

(* To take bytes from the receive queue is to read.                        *)
LEMMA SkipReads ==
  ASSUME NEW old, NEW d, Reads(old, d), NEW n
  PROVE  Reads(old, Skip(d, n))
  <1> DEFINE left == IF d.wire = <<>> THEN 0 ELSE Part(d).len - d.at
  <1>1. CASE n = left /\ n > 0
    <2>1. d.wire # <<>> /\ WireSound(d.wire)
      BY <1>1 DEF Reads
    <2>2. WireSound(Tail(d.wire))
      BY <2>1, TailSound
    <2>3. Skip(d, n) = [d EXCEPT !.wire = Tail(d.wire), !.at = 0, !.avail = d.avail - n]
      BY <1>1 DEF Skip
    <2> QED BY <2>2, <2>3 DEF Viewer, Reads, SameDrawing, Ends, SameConnection
  <1>2. CASE ~(n = left /\ n > 0)
    <2>3. Skip(d, n) = [d EXCEPT !.at = d.at + n, !.avail = d.avail - n,
                                 !.lost = d.lost \/ n > left]
      BY <1>2 DEF Skip
    <2> QED BY <2>3 DEF Viewer, Reads, SameDrawing, Ends, SameConnection
  <1> QED BY <1>1, <1>2

(* What the two ways out of a connection change. *)
LEMMA Disconnecting ==
  ASSUME NEW d, Viewer(d)
  PROVE  LET e == UpdateConnectionState(d, "disconnecting")
         IN  /\ Viewer(e) /\ SameDrawing(d, e) /\ e.wire = d.wire
             /\ e.connects = d.connects /\ e.disconnects = d.disconnects
             /\ e.conn = IF d.conn \in {"connecting", "connected"} THEN "disconnecting" ELSE d.conn
  <1>1. CASE d.conn \in {"connecting", "connected"}
    <2>1. UpdateConnectionState(d, "disconnecting")
            = [Disconnect(d) EXCEPT !.conn = "disconnecting", !.timer = TRUE]
      BY <1>1 DEF UpdateConnectionState, Transitions
    <2> DEFINE e == Disconnect(d)
    <2>2. /\ Viewer(e) /\ SameDrawing(d, e) /\ e.wire = d.wire
          /\ e.connects = d.connects /\ e.disconnects = d.disconnects
      BY DEF Disconnect, Viewer, SameDrawing
    <2> HIDE DEF e
    <2> QED BY <1>1, <2>1, <2>2 DEF e, Viewer, SameDrawing
  <1>2. CASE d.conn \notin {"connecting", "connected"}
    BY <1>2 DEF UpdateConnectionState, Transitions, SameDrawing
  <1> QED BY <1>1, <1>2

(* A viewer has left when it was leaving, and says so once.                *)
LEMMA Disconnected ==
  ASSUME NEW d, Viewer(d)
  PROVE  LET e == UpdateConnectionState(d, "disconnected")
         IN  /\ Viewer(e) /\ SameDrawing(d, e) /\ e.wire = d.wire /\ e.connects = d.connects
             /\ \/ /\ d.conn = "disconnecting" /\ e.conn = "disconnected"
                   /\ e.disconnects = d.disconnects + 1
                \/ /\ d.conn # "disconnecting" /\ e.conn = d.conn
                   /\ e.disconnects = d.disconnects
  <1>1. CASE d.conn = "disconnecting"
    BY <1>1 DEF UpdateConnectionState, Transitions, Viewer, SameDrawing
  <1>2. CASE d.conn # "disconnecting"
    BY <1>2 DEF UpdateConnectionState, Transitions, SameDrawing
  <1> QED BY <1>1, <1>2

(* A connection that breaks, or that _fail() breaks, ends in one step.     *)
LEMMA FailReads ==
  ASSUME NEW old, NEW d, Reads(old, d)
  PROVE  Reads(old, Leave(d)) /\ Reads(old, Fail(d))
  <1> DEFINE e == UpdateConnectionState(d, "disconnecting")
             f == UpdateConnectionState(e, "disconnected")
  <1>1. Viewer(d) BY DEF Reads
  <1>2. /\ Viewer(e) /\ SameDrawing(d, e) /\ e.wire = d.wire
        /\ e.connects = d.connects /\ e.disconnects = d.disconnects
        /\ e.conn = IF d.conn \in {"connecting", "connected"} THEN "disconnecting" ELSE d.conn
    BY <1>1, Disconnecting
  <1>3. Leave(d) = f /\ Fail(d) = f BY DEF Leave, Fail
  <1> HIDE DEF e
  <1>4. /\ Viewer(f) /\ SameDrawing(e, f) /\ f.wire = e.wire /\ f.connects = e.connects
        /\ \/ /\ e.conn = "disconnecting" /\ f.conn = "disconnected"
              /\ f.disconnects = e.disconnects + 1
           \/ e.conn # "disconnecting" /\ f.conn = e.conn /\ f.disconnects = e.disconnects
    BY <1>2, Disconnected
  <1> HIDE DEF f
  <1>5. Ends(old, f)
    BY <1>2, <1>4 DEF Reads, Ends, SameConnection
  <1>6. SameDrawing(old, f)
    BY <1>2, <1>4 DEF Reads, SameDrawing
  <1>7. WireSound(f.wire)
    BY <1>2, <1>4 DEF Reads
  <1> QED BY <1>3, <1>4, <1>5, <1>6, <1>7 DEF Reads

(* What the handshake agrees on is neither drawn nor the connection.       *)
LEMMA FieldReads ==
  ASSUME NEW old, NEW d, Reads(old, d), NEW x
  PROVE  /\ Reads(old, [d EXCEPT !.init = x]) /\ Reads(old, [d EXCEPT !.version = x])
         /\ Reads(old, [d EXCEPT !.scheme = x]) /\ Reads(old, [d EXCEPT !.tight = x])
         /\ Reads(old, [d EXCEPT !.vencrypt = x]) /\ Reads(old, [d EXCEPT !.subtypes = x])
         /\ Reads(old, [d EXCEPT !.creds = x]) /\ Reads(old, [d EXCEPT !.askings = x])
  BY DEF Viewer, Reads, SameDrawing, Ends, SameConnection
(* The reason for a refusal ends the connection.                           *)
LEMMA SecurityReasonReads ==
  ASSUME NEW old, NEW d, Reads(old, d)
  PROVE  Reads(old, HandleSecurityReason(d))
  BY SkipReads, FailReads, Reading DEF HandleSecurityReason

(* The viewer asks to share the session.                                   *)
LEMMA ClientInitialisationReads ==
  ASSUME NEW old, NEW d, Reads(old, d)
  PROVE  Reads(old, ClientInitialisation(d))
  BY Reading, FieldReads DEF ClientInitialisation

(* The result of the authentication ends the connection or goes on.        *)
LEMMA SecurityResultReads ==
  ASSUME NEW old, NEW d, Reads(old, d)
  PROVE  Reads(old, HandleSecurityResult(d))
  BY SkipReads, FailReads, FieldReads, ClientInitialisationReads, SecurityReasonReads
     DEF HandleSecurityResult

(* To ask the page for credentials changes no picture.                     *)
LEMMA RequireCredentialsReads ==
  ASSUME NEW old, NEW d, Reads(old, d)
  PROVE  Reads(old, RequireCredentials(d))
  BY DEF RequireCredentials, Viewer, Reads, SameDrawing, Ends, SameConnection

(* The authentications with credentials wait, or answer, or fail.          *)
LEMMA AuthReads ==
  ASSUME NEW old, NEW d, Reads(old, d)
  PROVE  /\ Reads(old, NegotiateStdVNCAuth(d))
         /\ Reads(old, NegotiateTightUnixAuth(d))
         /\ Reads(old, NegotiateXvpAuth(d))
         /\ Reads(old, VeNCryptLogin(d))
  <1>1. \A e : Reads(old, e) => Reads(old, NegotiateStdVNCAuth(e))
    BY Reading, SkipReads, FieldReads, RequireCredentialsReads DEF NegotiateStdVNCAuth
  <1>2. Reads(old, NegotiateTightUnixAuth(d))
    BY Reading, FieldReads, RequireCredentialsReads DEF NegotiateTightUnixAuth
  <1>3. Reads(old, NegotiateXvpAuth(d))
    BY <1>1, Reading, FieldReads, RequireCredentialsReads DEF NegotiateXvpAuth
  <1>4. Reads(old, VeNCryptLogin(d))
    BY Reading, FieldReads, RequireCredentialsReads DEF VeNCryptLogin
  <1> QED BY <1>1, <1>2, <1>3, <1>4

(* VeNCrypt reads its versions, its answers and its subtypes.              *)
LEMMA VeNCryptReads ==
  ASSUME NEW old, NEW d, Reads(old, d)
  PROVE  Reads(old, NegotiateVeNCryptAuth(d))
  <1>1. \A e : Reads(old, e) => Reads(old, VeNCryptSubtypes(e))
    BY Reading, SkipReads, FailReads, FieldReads, AuthReads DEF VeNCryptSubtypes
  <1>2. \A e : Reads(old, e) => Reads(old, VeNCryptCount(e))
    <2> TAKE e
    <2> HAVE Reads(old, e)
    <2> DEFINE f == [Skip(e, 1) EXCEPT !.vencrypt = 3]
    <2>1. [Skip(e, 1) EXCEPT !.vencrypt = 3, !.subtypes = Part(e).n]
            = [f EXCEPT !.subtypes = Part(e).n]
      OBVIOUS
    <2>2. Reads(old, [f EXCEPT !.subtypes = Part(e).n])
      BY SkipReads, FieldReads
    <2> QED BY <1>1, <2>1, <2>2, SkipReads, FailReads DEF VeNCryptCount
  <1>3. \A e : Reads(old, e) => Reads(old, VeNCryptAck(e))
    BY <1>2, SkipReads, FailReads, FieldReads DEF VeNCryptAck
  <1>4. \A e : Reads(old, e) => Reads(old, VeNCryptVersion(e))
    BY <1>3, Reading, SkipReads, FailReads, FieldReads DEF VeNCryptVersion
  <1> QED BY <1>1, <1>2, <1>3, <1>4, AuthReads DEF NegotiateVeNCryptAuth

(* The authentication of Tight reads its tunnels and its types.            *)
LEMMA TightAuthReads ==
  ASSUME NEW old, NEW d, Reads(old, d)
  PROVE  Reads(old, NegotiateTightAuth(d))
  <1>1. \A e : Reads(old, e) => Reads(old, NegotiateTightSubAuth(e))
    <2> TAKE e
    <2> HAVE Reads(old, e)
    <2>1. Reads(old, Skip(e, 4)) /\ Reads(old, Skip(Skip(e, 4), 16 * Part(e).n))
      BY SkipReads
    <2> QED BY <2>1, AuthReads, Reading, FailReads, FieldReads,
              SMTT(20), ZenonT(40) DEF NegotiateTightSubAuth
  <1>2. Reads(old, NegotiateTightTunnels([Skip(d, 4) EXCEPT !.tight = TRUE], Part(d)))
    BY SkipReads, Reading, FailReads, FieldReads DEF NegotiateTightTunnels
  <1> QED BY <1>1, <1>2, SkipReads, Reading, FieldReads DEF NegotiateTightAuth

(* Whatever scheme was agreed on, it only reads.                           *)
LEMMA AuthenticationReads ==
  ASSUME NEW old, NEW d, Reads(old, d)
  PROVE  Reads(old, NegotiateAuthentication(d))
  BY AuthReads, TightAuthReads, VeNCryptReads, FailReads, FieldReads, ClientInitialisationReads
     DEF NegotiateAuthentication

(* The viewer chooses a security type, or takes what it is told.           *)
LEMMA SecurityReads ==
  ASSUME NEW old, NEW d, Reads(old, d)
  PROVE  Reads(old, NegotiateSecurity(d))
  <1>1. Reads(old, ChooseSecurity(d))
    <2> DEFINE e == Skip(Skip(d, 1), Part(d).n)
    <2>1. Reads(old, Skip(d, 1)) /\ Reads(old, e)
      BY SkipReads
    <2>2. \A x : Reads(old, [e EXCEPT !.scheme = x, !.init = "Authentication"])
      <3> TAKE x
      <3>1. [e EXCEPT !.scheme = x, !.init = "Authentication"]
              = [[e EXCEPT !.scheme = x] EXCEPT !.init = "Authentication"]
        OBVIOUS
      <3> QED BY <2>1, <3>1, FieldReads
    <2>3. \A x, m :
            LET u == Say([e EXCEPT !.scheme = x, !.init = "Authentication"], m)
            IN  Reads(old, NegotiateAuthentication(u))
      BY <2>2, Reading, AuthenticationReads
    <2> QED BY <2>1, <2>3, SecurityReasonReads, Reading, FailReads, FieldReads DEF ChooseSecurity
  <1>2. Reads(old, AcceptSecurity(d))
    BY SkipReads, FieldReads, SecurityReasonReads, AuthenticationReads DEF AcceptSecurity
  <1> QED BY <1>1, <1>2 DEF NegotiateSecurity

(* The viewer reads the version of the server and says its own.            *)
LEMMA ProtocolVersionReads ==
  ASSUME NEW old, NEW d, Reads(old, d)
  PROVE  Reads(old, NegotiateProtocolVersion(d))
  <1> DEFINE e == Skip(d, 12)
             v == Part(d).version
  <1>1. [e EXCEPT !.version = v, !.init = "Security"]
          = [[e EXCEPT !.version = v] EXCEPT !.init = "Security"]
    OBVIOUS
  <1>2. Reads(old, e) /\ Reads(old, [e EXCEPT !.version = v, !.init = "Security"])
    BY <1>1, SkipReads, FieldReads
  <1> QED BY <1>2, Reading, FailReads DEF NegotiateProtocolVersion

-----------------------------------------------------------------------------
(* The display                                                             *)

(* What the display can show, and what it can be told to draw.             *)
Boards == [Cells -> Colours]
Ops ==
    [op : {"flip"}] \cup [op : {"fill", "blit"}, cell : Cells, colour : Colours]
    \cup [op : {"copy"}, from : Cells, cell : Cells]
    \cup [op : {"img"}, cell : Cells, colour : Colours, loaded : BOOLEAN]

(* What an operation makes of a canvas *)
Painted(b, a) ==
    CASE a.op = "flip" -> b
      [] a.op = "copy" -> [b EXCEPT ![a.cell] = b[a.from]]
      [] OTHER -> [b EXCEPT ![a.cell] = a.colour]

(* h is what the canvas b will be after each operation of the queue q. *)
Course(h, q, b) ==
    /\ h \in [0 .. Len(q) -> Boards] /\ h[0] = b
    /\ \A i \in 1 .. Len(q) : h[i] = Painted(h[i - 1], q[i])

(* The canvas is what the server drew.                                     *)
Follows(b, ideal) == \A x \in Cells : b[x] \in {ideal[x], Stale}

(* The queue q leads from the canvas b to what the server drew.            *)
Ahead(q, b, ideal) == \E h : Course(h, q, b) /\ Follows(h[Len(q)], ideal)

(* The invariant of the display: the parts of it                           *)
DrawingType(d) ==
    /\ d.canvas \in Boards /\ d.shown \in Boards /\ d.ideal \in Boards
    /\ d.damage \subseteq Cells /\ d.renderQ \in Seq(Ops)
Copied(d) == \A x \in Cells \ d.damage : d.shown[x] = d.canvas[x]
HeadWaits(q) == q # <<>> => 1 \in Waiting(q)

DrawingInv(d) ==
    DrawingType(d) /\ Copied(d) /\ HeadWaits(d.renderQ) /\ Ahead(d.renderQ, d.canvas, d.ideal)

(* To flip is an operation of the display.                                 *)
LEMMA FlipOp == Flip \in Ops
  BY DEF Flip, Ops

(* An operation paints one cell, or none.                                  *)
LEMMA PaintedType ==
  ASSUME NEW b \in Boards, NEW a \in Ops
  PROVE  /\ Painted(b, a) \in Boards
         /\ a.op = "flip" => Painted(b, a) = b
         /\ a.op # "flip" => a.cell \in Cells /\ \A x \in Cells \ {a.cell} : Painted(b, a)[x] = b[x]
  <1>1. CASE a.op = "flip"
    BY <1>1 DEF Painted
  <1>2. CASE a.op = "copy"
    <2>1. a.cell \in Cells /\ a.from \in Cells
      BY <1>2 DEF Ops
    <2> QED BY <1>2, <2>1 DEF Painted, Boards
  <1>3. CASE a.op \notin {"flip", "copy"}
    <2>1. a.cell \in Cells /\ a.colour \in Colours
      BY <1>3 DEF Ops
    <2> QED BY <1>3, <2>1 DEF Painted, Boards
  <1> QED BY <1>1, <1>2, <1>3

(* Nothing is to be drawn: the canvas is what it will be.                  *)
LEMMA CourseBegins ==
  ASSUME NEW b \in Boards
  PROVE  \E h : Course(h, <<>>, b) /\ h[0] = b
  <1>1. Course([i \in 0 .. 0 |-> b], <<>>, b)
    BY DEF Course
  <1> QED BY <1>1 DEF Course

(* One more operation paints what the queue before it leads to.            *)
LEMMA CourseGoesOn ==
  ASSUME NEW q \in Seq(Ops), NEW b, NEW h, Course(h, q, b), NEW a \in Ops
  PROVE  \E g : Course(g, Append(q, a), b) /\ g[Len(q) + 1] = Painted(h[Len(q)], a)
  <1> DEFINE n == Len(q)
             g == [i \in 0 .. n + 1 |-> IF i <= n THEN h[i] ELSE Painted(h[n], a)]
             r == Append(q, a)
  <1>1. n \in Nat /\ Len(r) = n + 1 /\ r[n + 1] = a /\ \A i \in 1 .. n : r[i] = q[i]
    OBVIOUS
  <1>2. Painted(h[n], a) \in Boards
    BY <1>1, PaintedType DEF Course
  <1>3. g \in [0 .. n + 1 -> Boards] /\ g[0] = b
    BY <1>1, <1>2 DEF Course
  <1>4. \A i \in 1 .. n + 1 : g[i] = Painted(g[i - 1], r[i])
    <2> TAKE i \in 1 .. n + 1
    <2>1. CASE i <= n
      BY <1>1, <2>1 DEF Course
    <2>2. CASE i = n + 1
      BY <1>1, <2>2
    <2> QED BY <1>1, <2>1, <2>2
  <1>5. g[n + 1] = Painted(h[n], a)
    BY <1>1
  <1> HIDE DEF g, r
  <1> QED BY <1>1, <1>3, <1>4, <1>5 DEF Course, r

(* What is left of a queue leads from what was drawn to the same end.      *)
LEMMA CourseOfRest ==
  ASSUME NEW q \in Seq(Ops), NEW b, NEW h, Course(h, q, b), NEW k \in 0 .. Len(q)
  PROVE  LET rest == SubSeq(q, k + 1, Len(q))
         IN  \E g : Course(g, rest, h[k]) /\ g[Len(rest)] = h[Len(q)]
  <1> DEFINE n == Len(q)
             rest == SubSeq(q, k + 1, n)
             g == [i \in 0 .. n - k |-> h[i + k]]
  <1>1. n \in Nat /\ Len(rest) = n - k /\ \A i \in 1 .. n - k : rest[i] = q[i + k]
    OBVIOUS
  <1>2. g \in [0 .. n - k -> Boards] /\ g[0] = h[k] /\ g[n - k] = h[n]
    BY <1>1 DEF Course
  <1>3. \A i \in 1 .. n - k : g[i] = Painted(g[i - 1], rest[i])
    <2> TAKE i \in 1 .. n - k
    <2>1. h[i + k] = Painted(h[i + k - 1], q[i + k])
      BY <1>1 DEF Course
    <2>2. g[i] = h[i + k] /\ g[i - 1] = h[i - 1 + k] /\ i - 1 + k = i + k - 1
      BY <1>1
    <2> QED BY <1>1, <2>1, <2>2
  <1> HIDE DEF g, rest
  <1>4. Course(g, rest, h[k]) /\ g[Len(rest)] = h[n]
    BY <1>1, <1>2, <1>3 DEF Course
  <1> QED BY <1>4 DEF rest

(* A queue leads to what its last operation is meant to lead to.           *)
LEMMA AheadGoesOn ==
  ASSUME NEW q \in Seq(Ops), NEW b, NEW ideal, NEW wanted, NEW a \in Ops,
         Ahead(q, b, ideal),
         \A e \in Boards : Follows(e, ideal) => Follows(Painted(e, a), wanted)
  PROVE  Ahead(Append(q, a), b, wanted)
  <1>1. PICK h : Course(h, q, b) /\ Follows(h[Len(q)], ideal)
    BY DEF Ahead
  <1>2. PICK g : Course(g, Append(q, a), b) /\ g[Len(q) + 1] = Painted(h[Len(q)], a)
    BY <1>1, CourseGoesOn
  <1>3. h[Len(q)] \in Boards /\ Len(Append(q, a)) = Len(q) + 1
    BY <1>1 DEF Course
  <1> QED BY <1>1, <1>2, <1>3 DEF Ahead

(* With nothing to be drawn, the canvas is as it should be.                *)
LEMMA AheadAtRest ==
  ASSUME NEW b \in Boards, NEW ideal
  PROVE  Ahead(<<>>, b, ideal) <=> Follows(b, ideal)
  <1>1. Len(<<>>) = 0
    OBVIOUS
  <1>2. \A h : Course(h, <<>>, b) => h[0] = b
    BY DEF Course
  <1> QED BY <1>1, <1>2, CourseBegins DEF Ahead

(* Apply draws what Painted says. *)
LEMMA Applied ==
  ASSUME NEW d, Viewer(d), DrawingType(d), Copied(d), NEW a \in Ops
  PROVE  LET e == Apply(d, a)
         IN  /\ Viewer(e) /\ e.canvas = Painted(d.canvas, a)
             /\ e.canvas \in Boards /\ e.shown \in Boards /\ e.damage \subseteq Cells
             /\ Copied(e)
             /\ a.op = "flip" => e.damage = {}
             /\ e.ideal = d.ideal /\ e.renderQ = d.renderQ /\ e.dflush = d.dflush
             /\ e.rects = d.rects /\ e.rect = d.rect /\ e.flushing = d.flushing
             /\ e.wire = d.wire /\ SameConnection(d, e)
  <1> DEFINE e == Apply(d, a)
  <1>0. /\ d.canvas \in [Cells -> Colours] /\ d.shown \in [Cells -> Colours]
        /\ d.damage \subseteq Cells
    BY DEF DrawingType, Boards
  <1>1. CASE a.op = "flip"
    <2> DEFINE new == [x \in Cells |-> IF x \in d.damage THEN d.canvas[x] ELSE d.shown[x]]
    <2>1. e = [d EXCEPT !.shown = new, !.damage = {}]
      BY <1>1 DEF Apply
    <2>2. new \in [Cells -> Colours] /\ \A x \in Cells : new[x] = d.canvas[x]
      BY <1>0 DEF Copied
    <2> HIDE DEF new
    <2>3. /\ Viewer(e) /\ e.canvas = d.canvas /\ e.shown = new /\ e.damage = {}
          /\ e.ideal = d.ideal /\ e.renderQ = d.renderQ /\ e.dflush = d.dflush
          /\ e.rects = d.rects /\ e.rect = d.rect /\ e.flushing = d.flushing
          /\ e.wire = d.wire /\ SameConnection(d, e)
      BY <2>1 DEF Viewer, SameConnection
    <2>4. Painted(d.canvas, a) = d.canvas
      BY <1>1 DEF Painted
    <2> QED BY <1>0, <1>1, <2>2, <2>3, <2>4 DEF Copied, Boards
  <1>2. CASE a.op # "flip"
    <2> DEFINE b == Painted(d.canvas, a)
    <2>1. e = [d EXCEPT !.canvas = b, !.damage = d.damage \cup {a.cell}]
      BY <1>2 DEF Apply, Painted
    <2>2. b \in Boards /\ a.cell \in Cells /\ \A x \in Cells \ {a.cell} : b[x] = d.canvas[x]
      BY <1>2, PaintedType DEF DrawingType
    <2> HIDE DEF b
    <2>3. /\ Viewer(e) /\ e.canvas = b /\ e.shown = d.shown /\ e.damage = d.damage \cup {a.cell}
          /\ e.ideal = d.ideal /\ e.renderQ = d.renderQ /\ e.dflush = d.dflush
          /\ e.rects = d.rects /\ e.rect = d.rect /\ e.flushing = d.flushing
          /\ e.wire = d.wire /\ SameConnection(d, e)
      BY <2>1 DEF Viewer, SameConnection
    <2> HIDE DEF e
    <2>4. Copied(e)
      BY <1>0, <2>2, <2>3 DEF Copied
    <2> QED BY <1>0, <1>2, <2>2, <2>3, <2>4 DEF Boards, b, e
  <1> QED BY <1>1, <1>2

(* What drawing leaves alone. *)
SameRest(a, b) ==
    /\ b.rects = a.rects /\ b.rect = a.rect /\ b.flushing = a.flushing /\ b.dflush = a.dflush
    /\ b.wire = a.wire /\ SameConnection(a, b)

(* One operation, on a screen that was to become before, and is now to     *)
(* become something else.                                                  *)
LEMMA Performs ==
  ASSUME NEW d, Viewer(d), DrawingType(d), Copied(d), HeadWaits(d.renderQ), NEW a \in Ops,
         NEW before, Ahead(d.renderQ, d.canvas, before),
         \A b \in Boards : Follows(b, before) => Follows(Painted(b, a), d.ideal)
  PROVE  LET e == Perform(d, a)
         IN  /\ Viewer(e) /\ DrawingInv(e) /\ SameRest(d, e)
             /\ a.op = "flip" => IF e.renderQ = <<>> THEN e.damage = {}
                                 ELSE e.renderQ[Len(e.renderQ)].op = "flip"
             /\ d.renderQ # <<>> => e.renderQ # <<>>
  <1> DEFINE e == Perform(d, a)
  <1>3. CASE d.renderQ # <<>>
    <2> DEFINE q == Append(d.renderQ, a)
    <2>1. e = [d EXCEPT !.renderQ = q]
      BY <1>3 DEF Perform
    <2>2. d.renderQ \in Seq(Ops)
      BY DEF DrawingType
    <2>3. /\ q \in Seq(Ops) /\ q # <<>> /\ q[Len(q)] = a
          /\ q[1] = d.renderQ[1] /\ 1 \in DOMAIN q
      BY <1>3, <2>2
    <2>4. HeadWaits(q)
      BY <1>3, <2>3 DEF HeadWaits, Waiting
    <2>5. Ahead(q, d.canvas, d.ideal)
      BY <2>2, AheadGoesOn
    <2> HIDE DEF q
    <2>6. /\ Viewer(e) /\ e.renderQ = q /\ e.ideal = d.ideal /\ e.canvas = d.canvas
          /\ e.shown = d.shown /\ e.damage = d.damage /\ SameRest(d, e)
      BY <2>1 DEF Viewer, SameRest, SameConnection
    <2> HIDE DEF e
    <2>7. DrawingInv(e)
      BY <2>3, <2>4, <2>5, <2>6 DEF DrawingInv, DrawingType, Copied
    <2> QED BY <1>3, <2>3, <2>6, <2>7 DEF e
  <1>4. CASE d.renderQ = <<>>
    <2>1. e = Apply(d, a)
      BY <1>4 DEF Perform
    <2>2. /\ Viewer(e) /\ e.canvas = Painted(d.canvas, a)
          /\ e.canvas \in Boards /\ e.shown \in Boards /\ e.damage \subseteq Cells /\ Copied(e)
          /\ a.op = "flip" => e.damage = {}
          /\ e.ideal = d.ideal /\ e.renderQ = <<>> /\ SameRest(d, e)
      BY <1>4, <2>1, Applied DEF SameRest
    <2> HIDE DEF e
    <2>3. d.canvas \in Boards /\ d.ideal \in Boards /\ Follows(d.canvas, before)
      BY <1>4, AheadAtRest DEF DrawingType
    <2>4. Ahead(<<>>, e.canvas, e.ideal)
      BY <2>2, <2>3, AheadAtRest
    <2>5. <<>> \in Seq(Ops)
      OBVIOUS
    <2>6. DrawingInv(e)
      BY <2>2, <2>3, <2>4, <2>5 DEF DrawingInv, DrawingType, HeadWaits
    <2> QED BY <1>4, <2>2, <2>6 DEF e
  <1> QED BY <1>3, <1>4

(* A flip, at once or at the end of the queue, changes no pixel.           *)
LEMMA FlipPerformed ==
  ASSUME NEW d, Viewer(d), DrawingInv(d)
  PROVE  LET e == Perform(d, Flip)
         IN  /\ Viewer(e) /\ DrawingInv(e) /\ SameRest(d, e)
             /\ IF e.renderQ = <<>> THEN e.damage = {} ELSE e.renderQ[Len(e.renderQ)].op = "flip"
             /\ d.renderQ # <<>> => e.renderQ # <<>>
  <1>1. Flip \in Ops /\ Flip.op = "flip" /\ \A b : Painted(b, Flip) = b
    BY FlipOp DEF Flip, Painted
  <1>2. /\ DrawingType(d) /\ Copied(d) /\ HeadWaits(d.renderQ)
        /\ Ahead(d.renderQ, d.canvas, d.ideal)
    BY DEF DrawingInv
  <1>3. \A b \in Boards : Follows(b, d.ideal) => Follows(Painted(b, Flip), d.ideal)
    BY <1>1
  <1> QED BY <1>1, <1>2, <1>3, Performs

(* The server draws: what the screen is to become, and the operation. *)
LEMMA Draws ==
  ASSUME NEW d, Viewer(d), DrawingInv(d), NEW a \in Ops, NEW wanted \in Boards,
         \A b \in Boards : Follows(b, d.ideal) => Follows(Painted(b, a), wanted)
  PROVE  LET e == Perform([d EXCEPT !.ideal = wanted], a)
         IN  /\ Viewer(e) /\ DrawingInv(e) /\ SameRest(d, e)
             /\ d.renderQ # <<>> => e.renderQ # <<>>
  <1> DEFINE u == [d EXCEPT !.ideal = wanted]
  <1>1. /\ Viewer(u) /\ u.ideal = wanted /\ u.canvas = d.canvas /\ u.shown = d.shown
        /\ u.damage = d.damage /\ u.renderQ = d.renderQ /\ SameRest(d, u)
    BY DEF Viewer, SameRest, SameConnection
  <1> HIDE DEF u
  <1>2. DrawingType(u) /\ Copied(u) /\ HeadWaits(u.renderQ) /\ Ahead(u.renderQ, u.canvas, d.ideal)
    BY <1>1 DEF DrawingInv, DrawingType, Copied
  <1>3. LET e == Perform(u, a)
        IN  /\ Viewer(e) /\ DrawingInv(e) /\ SameRest(u, e)
            /\ u.renderQ # <<>> => e.renderQ # <<>>
    BY <1>1, <1>2, Performs
  <1> QED BY <1>1, <1>3 DEF u, SameRest, SameConnection

(* fillRect() leads to what the server filled.                             *)
LEMMA FillPerformed ==
  ASSUME NEW d, Viewer(d), DrawingInv(d), NEW cell \in Cells, NEW colour \in Colours
  PROVE  LET e == Fill(d, cell, colour)
         IN  Viewer(e) /\ DrawingInv(e) /\ SameRest(d, e) /\ (d.renderQ # <<>> => e.renderQ # <<>>)
  <1> DEFINE a == [op |-> "fill", cell |-> cell, colour |-> colour]
             wanted == [d.ideal EXCEPT ![cell] = colour]
  <1>1. a \in Ops
    BY DEF Ops
  <1>2. d.ideal \in [Cells -> Colours]
    BY DEF DrawingInv, DrawingType, Boards
  <1>3. wanted \in Boards
    BY <1>2 DEF Boards
  <1>4. \A b \in Boards : Painted(b, a) = [b EXCEPT ![cell] = colour]
    BY DEF Painted
  <1>5. ASSUME NEW b \in Boards, Follows(b, d.ideal)
        PROVE  Follows(Painted(b, a), wanted)
    BY <1>2, <1>4, <1>5 DEF Follows, Boards
  <1>6. Fill(d, cell, colour) = Perform([d EXCEPT !.ideal = wanted], a)
    BY DEF Fill
  <1> HIDE DEF a, wanted
  <1> QED BY <1>1, <1>3, <1>5, <1>6, Draws

(* copyImage() leads to what the server copied.                            *)
LEMMA CopyPerformed ==
  ASSUME NEW d, Viewer(d), DrawingInv(d), NEW from \in Cells, NEW cell \in Cells
  PROVE  LET e == CopyImage(d, from, cell)
         IN  Viewer(e) /\ DrawingInv(e) /\ SameRest(d, e) /\ (d.renderQ # <<>> => e.renderQ # <<>>)
  <1> DEFINE a == [op |-> "copy", from |-> from, cell |-> cell]
             wanted == [d.ideal EXCEPT ![cell] = d.ideal[from]]
  <1>1. a \in Ops
    BY DEF Ops
  <1>2. d.ideal \in [Cells -> Colours]
    BY DEF DrawingInv, DrawingType, Boards
  <1>3. wanted \in Boards
    BY <1>2 DEF Boards
  <1>4. \A b \in Boards : Painted(b, a) = [b EXCEPT ![cell] = b[from]]
    BY DEF Painted
  <1>5. ASSUME NEW b \in Boards, Follows(b, d.ideal)
        PROVE  Follows(Painted(b, a), wanted)
    BY <1>2, <1>4, <1>5 DEF Follows, Boards
  <1>6. CopyImage(d, from, cell) = Perform([d EXCEPT !.ideal = wanted], a)
    BY DEF CopyImage
  <1> HIDE DEF a, wanted
  <1> QED BY <1>1, <1>3, <1>5, <1>6, Draws

(* blitImage() leads to what the server drew, or to other pixels.          *)
LEMMA BlitPerformed ==
  ASSUME NEW d, Viewer(d), DrawingInv(d), NEW cell \in Cells, NEW colour \in Colours,
         NEW received
  PROVE  LET e == BlitImage(d, cell, colour, received)
         IN  Viewer(e) /\ DrawingInv(e) /\ SameRest(d, e) /\ (d.renderQ # <<>> => e.renderQ # <<>>)
  <1> DEFINE pixels == IF received /\ d.renderQ # <<>> THEN Stale ELSE colour
             a == [op |-> "blit", cell |-> cell, colour |-> pixels]
             wanted == [d.ideal EXCEPT ![cell] = colour]
  <1>0. pixels \in Colours /\ pixels \in {colour, Stale}
    BY DEF Colours
  <1>6. BlitImage(d, cell, colour, received) = Perform([d EXCEPT !.ideal = wanted], a)
    BY DEF BlitImage
  <1> HIDE DEF pixels
  <1>1. a \in Ops
    BY <1>0 DEF Ops
  <1>2. d.ideal \in [Cells -> Colours]
    BY DEF DrawingInv, DrawingType, Boards
  <1>3. wanted \in Boards
    BY <1>2 DEF Boards
  <1>4. \A b \in Boards : Painted(b, a) = [b EXCEPT ![cell] = pixels]
    BY DEF Painted
  <1>5. ASSUME NEW b \in Boards, Follows(b, d.ideal)
        PROVE  Follows(Painted(b, a), wanted)
    BY <1>0, <1>2, <1>4, <1>5 DEF Follows, Boards
  <1> HIDE DEF a, wanted
  <1> QED BY <1>1, <1>3, <1>5, <1>6, Draws

(* An image always waits, and the first in the queue is one. *)
LEMMA ImageQueued ==
  ASSUME NEW d, Viewer(d), DrawingInv(d), NEW cell \in Cells, NEW colour \in Colours
  PROVE  LET e == ImageRect(d, cell, colour)
         IN  Viewer(e) /\ DrawingInv(e) /\ SameRest(d, e) /\ e.renderQ # <<>>
  <1> DEFINE a == [op |-> "img", cell |-> cell, colour |-> colour, loaded |-> FALSE]
             wanted == [d.ideal EXCEPT ![cell] = colour]
             q == Append(d.renderQ, a)
             e == ImageRect(d, cell, colour)
  <1>1. a \in Ops /\ a.op = "img" /\ ~a.loaded
    BY DEF Ops
  <1>2. d.ideal \in [Cells -> Colours] /\ d.renderQ \in Seq(Ops)
    BY DEF DrawingInv, DrawingType, Boards
  <1>3. wanted \in Boards
    BY <1>2 DEF Boards
  <1>4. \A b \in Boards : Painted(b, a) = [b EXCEPT ![cell] = colour]
    BY DEF Painted
  <1>5. ASSUME NEW b \in Boards, Follows(b, d.ideal)
        PROVE  Follows(Painted(b, a), wanted)
    BY <1>2, <1>4, <1>5 DEF Follows, Boards
  <1>6. e = [d EXCEPT !.ideal = wanted, !.renderQ = q]
    BY DEF ImageRect
  <1> HIDE DEF a, wanted
  <1>7. q \in Seq(Ops) /\ q # <<>> /\ 1 \in DOMAIN q
    BY <1>1, <1>2
  <1>8. q[1] = IF d.renderQ = <<>> THEN a ELSE d.renderQ[1]
    BY <1>1, <1>2
  <1>9. HeadWaits(q)
    BY <1>1, <1>7, <1>8 DEF DrawingInv, HeadWaits, Waiting
  <1>10. Ahead(q, d.canvas, wanted)
    BY <1>1, <1>2, <1>5, AheadGoesOn DEF DrawingInv
  <1> HIDE DEF q
  <1>11. /\ Viewer(e) /\ e.renderQ = q /\ e.ideal = wanted /\ e.canvas = d.canvas
         /\ e.shown = d.shown /\ e.damage = d.damage /\ SameRest(d, e)
    BY <1>6 DEF Viewer, SameRest, SameConnection
  <1> HIDE DEF e
  <1>12. DrawingInv(e)
    BY <1>3, <1>7, <1>9, <1>10, <1>11 DEF DrawingInv, DrawingType, Copied
  <1> QED BY <1>7, <1>11, <1>12 DEF e

(* resize() leaves the picture, and flips first what it had drawn.         *)
LEMMA Resized ==
  ASSUME NEW d, Viewer(d), DrawingInv(d), NEW size
  PROVE  LET e == ResizeDisplay(d, size)
         IN  /\ Viewer(e) /\ DrawingInv(e) /\ SameRest(d, e)
             /\ \/ e = d
                \/ IF e.renderQ = <<>> THEN e.damage = {} ELSE e.renderQ[Len(e.renderQ)].op = "flip"
             /\ d.renderQ # <<>> => e.renderQ # <<>>
  <1> DEFINE u == [d EXCEPT !.size = size, !.shown = [x \in Cells |-> Blank], !.damage = Cells]
  <1>1. CASE d.size = size
    BY <1>1 DEF ResizeDisplay, SameRest, SameConnection
  <1>2. CASE d.size # size
    <2>1. [x \in Cells |-> Blank] \in Boards
      BY DEF Boards, Colours
    <2>2. /\ Viewer(u) /\ u.shown \in Boards /\ u.damage = Cells /\ u.canvas = d.canvas
          /\ u.ideal = d.ideal /\ u.renderQ = d.renderQ /\ SameRest(d, u)
      BY <2>1 DEF Viewer, SameRest, SameConnection
    <2>3. ResizeDisplay(d, size) = Perform(u, Flip)
      BY <1>2 DEF ResizeDisplay
    <2> HIDE DEF u
    <2>4. DrawingInv(u)
      BY <2>2 DEF DrawingInv, DrawingType, Copied
    <2> QED BY <2>2, <2>3, <2>4, FlipPerformed DEF SameRest, SameConnection
  <1> QED BY <1>1, <1>2

-----------------------------------------------------------------------------
(* The queue of the display is scanned up to a number of operations.       *)

(* A set of numbers has a least one.                                       *)
LEMMA Least ==
  ASSUME NEW T, T \subseteq Nat, T # {}
  PROVE  \E x \in T : \A y \in T : x <= y
  <1>1. IsWellFoundedOn(OpToRel(<, Nat), Nat)
    BY NatLessThanWellFounded
  <1>2. \E x \in T : \A y \in T : <<y, x>> \notin OpToRel(<, Nat)
    BY <1>1, WFMin
  <1>3. \A x, y \in Nat : <<y, x>> \notin OpToRel(<, Nat) => x <= y
    BY DEF OpToRel
  <1> QED BY <1>2, <1>3

(* What holds at 0 and passes from each number to the next holds of all.   *)
LEMMA Counting ==
  ASSUME NEW T, T \subseteq Nat, 0 \in T, NEW k \in Nat, \A n \in T : n < k => n + 1 \in T
  PROVE  0 .. k \subseteq T
  <1> SUFFICES ASSUME ~(0 .. k \subseteq T) PROVE FALSE
    OBVIOUS
  <1> DEFINE missing == (0 .. k) \ T
  <1>1. missing \subseteq Nat /\ missing # {}
    OBVIOUS
  <1>2. PICK x \in missing : \A y \in missing : x <= y
    BY <1>1, Least
  <1>3. x # 0 /\ x \in Nat /\ x <= k /\ x \notin T
    OBVIOUS
  <1>4. x - 1 \in 0 .. k /\ x - 1 \notin missing
    BY <1>2, <1>3
  <1>5. x - 1 \in T /\ x - 1 < k
    BY <1>3, <1>4
  <1> QED BY <1>3, <1>5

(* f is the course of drawing the queue q. *)
Drawn(f, d, q, m) == f = [n \in 0 .. m |-> IF n = 0 THEN d ELSE Apply(f[n - 1], q[n])]

(* There is a course of drawing any queue.                                 *)
LEMMA DrawnExists ==
  ASSUME NEW d, NEW q, NEW k \in Nat
  PROVE  \E f : Drawn(f, d, q, k)
  <1> DEFINE T == {m \in Nat : \E f : Drawn(f, d, q, m)}
  <1>1. 0 \in T
    <2> DEFINE f == [n \in 0 .. 0 |-> d]
    <2>1. f = [n \in 0 .. 0 |-> IF n = 0 THEN d ELSE Apply(f[n - 1], q[n])]
      OBVIOUS
    <2> QED BY <2>1 DEF Drawn
  <1>2. \A m \in T : m + 1 \in T
    <2> TAKE m \in T
    <2>1. PICK f : Drawn(f, d, q, m)
      OBVIOUS
    <2> DEFINE g == [n \in 0 .. m + 1 |-> IF n <= m THEN f[n] ELSE Apply(f[m], q[m + 1])]
    <2>2. \A n \in 0 .. m : f[n] = IF n = 0 THEN d ELSE Apply(f[n - 1], q[n])
      BY <2>1 DEF Drawn
    <2>3. \A n \in 0 .. m + 1 : g[n] = IF n = 0 THEN d ELSE Apply(g[n - 1], q[n])
      <3> TAKE n \in 0 .. m + 1
      <3>1. CASE n = 0
        BY <2>2, <3>1
      <3>2. CASE n \in 1 .. m
        <4>1. g[n] = f[n] /\ g[n - 1] = f[n - 1] /\ n # 0
          BY <3>2
        <4> QED BY <2>2, <3>2, <4>1
      <3>3. CASE n = m + 1
        <4>1. g[n] = Apply(f[m], q[n]) /\ g[n - 1] = f[m] /\ n # 0
          BY <3>3
        <4> QED BY <4>1
      <3> QED BY <3>1, <3>2, <3>3
    <2>4. g = [n \in 0 .. m + 1 |-> IF n = 0 THEN d ELSE Apply(g[n - 1], q[n])]
      BY <2>3
    <2> HIDE DEF g
    <2> QED BY <2>4 DEF Drawn
  <1> HIDE DEF T
  <1>3. 0 .. k \subseteq T
    BY <1>1, <1>2, Counting DEF T
  <1> QED BY <1>3 DEF T

(* _scanRenderQ() draws what need not wait and keeps the rest.             *)
LEMMA ScanIs ==
  ASSUME NEW d
  PROVE  LET q == d.renderQ
             f == CHOOSE f : Drawn(f, d, q, Len(q))
         IN  ScanRenderQ(d) = [f[Ready(q)] EXCEPT !.renderQ = SubSeq(q, Ready(q) + 1, Len(q))]
  BY DEF ScanRenderQ, Drawn

(* All that was drawn is shown, or will be by the flip that ends the queue. *)
AtRest(d) ==
    IF d.renderQ = <<>> THEN d.damage = {} ELSE d.renderQ[Len(d.renderQ)].op = "flip"

(* What the queue waits for is next after what can be drawn.               *)
LEMMA ReadyIs ==
  ASSUME NEW q \in Seq(Ops)
  PROVE  /\ Ready(q) \in 0 .. Len(q)
         /\ Ready(q) < Len(q) => Ready(q) + 1 \in Waiting(q)
  <1>1. Waiting(q) \subseteq 1 .. Len(q) /\ Len(q) \in Nat
    BY DEF Waiting
  <1>2. CASE Waiting(q) = {}
    BY <1>1, <1>2 DEF Ready
  <1>3. CASE Waiting(q) # {}
    <2>1. Waiting(q) \subseteq Nat
      BY <1>1
    <2>2. \E x \in Waiting(q) : \A y \in Waiting(q) : x <= y
      BY <1>3, <2>1, Least
    <2>3. Min(Waiting(q)) \in Waiting(q)
      BY <2>2 DEF Min
    <2>4. Ready(q) = Min(Waiting(q)) - 1
      BY <1>3 DEF Ready
    <2> HIDE DEF Min
    <2> QED BY <1>1, <2>3, <2>4
  <1> QED BY <1>2, <1>3

(* The screen after the first n operations of the queue of d *)
DrawnSoFar(d, h, e, n) ==
    /\ Viewer(e) /\ e.canvas = h[n] /\ e.shown \in Boards /\ e.damage \subseteq Cells /\ Copied(e)
    /\ e.ideal = d.ideal /\ e.renderQ = d.renderQ /\ SameRest(d, e)
    /\ n > 0 /\ d.renderQ[n].op = "flip" => e.damage = {}

(* A scan of the queue draws it up to an image that has not loaded.        *)
LEMMA Scanned ==
  ASSUME NEW d, Viewer(d), DrawingType(d), Copied(d), Ahead(d.renderQ, d.canvas, d.ideal)
  PROVE  LET e == ScanRenderQ(d)
         IN  /\ Viewer(e) /\ DrawingInv(e) /\ SameRest(d, e)
             /\ AtRest(d) => AtRest(e)
  <1> DEFINE q == d.renderQ
             k == Ready(q)
             f == CHOOSE f : Drawn(f, d, q, Len(q))
             rest == SubSeq(q, k + 1, Len(q))
             u == f[k]
             e == ScanRenderQ(d)
  <1>1. q \in Seq(Ops) /\ Len(q) \in Nat /\ k \in 0 .. Len(q)
    BY ReadyIs DEF DrawingType
  <1>2. e = [u EXCEPT !.renderQ = rest]
    BY ScanIs
  <1>3. Drawn(f, d, q, Len(q))
    <2>1. \E g : Drawn(g, d, q, Len(q))
      BY <1>1, DrawnExists
    <2> HIDE DEF q
    <2> QED BY <2>1
  <1>4. PICK h : Course(h, q, d.canvas) /\ Follows(h[Len(q)], d.ideal)
    BY DEF Ahead
  <1> HIDE DEF f
  <1> DEFINE T == {n \in Nat : n <= Len(q) => DrawnSoFar(d, h, f[n], n)}
  <1>5. 0 \in T
    <2>1. f[0] = d
      BY <1>1, <1>3 DEF Drawn
    <2> QED BY <1>4, <2>1 DEF DrawnSoFar, DrawingType, SameRest, SameConnection, Course
  <1>6. \A n \in T : n < Len(q) => n + 1 \in T
    <2> SUFFICES ASSUME NEW n \in T, n < Len(q) PROVE DrawnSoFar(d, h, f[n + 1], n + 1)
      OBVIOUS
    <2> DEFINE a == q[n + 1]
               v == f[n]
    <2>1. n \in Nat /\ n + 1 \in 1 .. Len(q) /\ a \in Ops
      BY <1>1
    <2>2. DrawnSoFar(d, h, v, n)
      OBVIOUS
    <2>3. f[n + 1] = Apply(v, a)
      <3>1. n + 1 \in 0 .. Len(q) /\ n + 1 # 0 /\ n + 1 - 1 = n
        BY <2>1
      <3> QED BY <1>3, <3>1 DEF Drawn
    <2>4. h[n + 1] = Painted(h[n], a) /\ h[n] \in Boards
      <3>1. n + 1 - 1 = n /\ n \in 0 .. Len(q)
        BY <2>1
      <3>2. h[n + 1] = Painted(h[n + 1 - 1], q[n + 1])
        BY <1>4, <2>1 DEF Course
      <3>3. h[n] \in Boards
        BY <1>4, <3>1 DEF Course
      <3> QED BY <3>1, <3>2, <3>3
    <2> HIDE DEF v
    <2>5. DrawingType(v) /\ Copied(v)
      BY <2>2, <2>4 DEF DrawnSoFar, DrawingType
    <2> HIDE DEF a, T
    <2>6. LET w == Apply(v, a)
          IN  /\ Viewer(w) /\ w.canvas = Painted(v.canvas, a)
              /\ w.canvas \in Boards /\ w.shown \in Boards /\ w.damage \subseteq Cells
              /\ Copied(w)
              /\ a.op = "flip" => w.damage = {}
              /\ w.ideal = v.ideal /\ w.renderQ = v.renderQ /\ w.dflush = v.dflush
              /\ w.rects = v.rects /\ w.rect = v.rect /\ w.flushing = v.flushing
              /\ w.wire = v.wire /\ SameConnection(v, w)
      BY <2>1, <2>2, <2>5, Applied DEF DrawnSoFar
    <2> DEFINE w == Apply(v, a)
    <2> HIDE DEF w
    <2>7. /\ Viewer(w) /\ w.canvas = Painted(v.canvas, a)
          /\ w.shown \in Boards /\ w.damage \subseteq Cells
          /\ Copied(w)
          /\ a.op = "flip" => w.damage = {}
          /\ w.ideal = v.ideal /\ w.renderQ = v.renderQ /\ SameRest(v, w)
      BY <2>6 DEF w, SameRest
    <2>8. f[n + 1] = w
      BY <2>3 DEF w
    <2>9. DrawnSoFar(d, h, w, n + 1)
      BY <2>2, <2>4, <2>7 DEF DrawnSoFar, SameRest, SameConnection, a
    <2> QED BY <2>8, <2>9
  <1>7. 0 .. Len(q) \subseteq T
    <2> HIDE DEF T
    <2>1. T \subseteq Nat
      BY DEF T
    <2> QED BY <1>1, <1>5, <1>6, <2>1, Counting
  <1>8. DrawnSoFar(d, h, u, k)
    BY <1>1, <1>7
  <1> HIDE DEF T, u
  <1>9. rest \in Seq(Ops) /\ Len(rest) = Len(q) - k /\ \A i \in 1 .. Len(rest) : rest[i] = q[i + k]
    BY <1>1, SMTT(20), ZenonT(40)
  <1>10. PICK g : Course(g, rest, h[k]) /\ g[Len(rest)] = h[Len(q)]
    BY <1>1, <1>4, CourseOfRest
  <1>11. HeadWaits(rest)
    <2> SUFFICES ASSUME rest # <<>> PROVE 1 \in Waiting(rest)
      BY DEF HeadWaits
    <2>1. k < Len(q) /\ 1 \in 1 .. Len(rest) /\ rest[1] = q[k + 1]
      BY <1>1, <1>9
    <2>2. k + 1 \in Waiting(q)
      BY <1>1, <2>1, ReadyIs
    <2> HIDE DEF q, rest, k
    <2>3. q[k + 1].op = "img" /\ ~q[k + 1].loaded /\ 1 \in DOMAIN rest
      BY <1>9, <2>1, <2>2 DEF Waiting
    <2> QED BY <2>1, <2>3 DEF Waiting
  <1> HIDE DEF q, k, rest
  <1>12. AtRest(d) => IF rest = <<>> THEN u.damage = {} ELSE rest[Len(rest)].op = "flip"
    <2>1. CASE rest = <<>>
      <3>1. k = Len(q)
        BY <1>1, <1>9, <2>1
      <3>2. CASE q = <<>>
        <4>1. k = 0
          BY <1>1, <3>2
        <4>2. f[0] = d
          BY <1>1, <1>3 DEF Drawn
        <4> QED BY <2>1, <3>2, <4>1, <4>2 DEF AtRest, u, q
      <3>3. CASE q # <<>>
        BY <1>1, <1>8, <2>1, <3>1, <3>3 DEF AtRest, DrawnSoFar, q
      <3> QED BY <3>2, <3>3
    <2>2. CASE rest # <<>>
      <3>1. rest[Len(rest)] = q[Len(q)] /\ q # <<>>
        BY <1>1, <1>9, <2>2
      <3> QED BY <2>2, <3>1 DEF AtRest, q
    <2> QED BY <2>1, <2>2
  <1>13. /\ Viewer(e) /\ e.renderQ = rest /\ e.ideal = d.ideal /\ e.canvas = h[k]
         /\ e.shown = u.shown /\ e.damage = u.damage /\ SameRest(d, e)
    BY <1>2, <1>8, SMTT(20), ZenonT(40) DEF DrawnSoFar, Viewer, rest, q, k, u, SameRest, SameConnection
  <1>14. e.canvas \in Boards /\ Ahead(rest, e.canvas, e.ideal)
    BY <1>1, <1>4, <1>10, <1>13 DEF Ahead, Course
  <1> HIDE DEF e
  <1>15. Copied(e) /\ DrawingType(e)
    BY <1>8, <1>9, <1>13, <1>14 DEF DrawnSoFar, Copied, DrawingType
  <1>16. DrawingInv(e)
    BY <1>11, <1>13, <1>14, <1>15 DEF DrawingInv
  <1>17. AtRest(d) => AtRest(e)
    BY <1>12, <1>13 DEF AtRest
  <1> QED BY <1>13, <1>16, <1>17 DEF e

-----------------------------------------------------------------------------
(* Handlers of messages and of rectangles                                  *)

(* The invariant of a handler in the middle of its work                    *)
Flushes(d) == (d.flushing <=> d.dflush) /\ (d.flushing => d.renderQ # <<>>)
RectSound(d) == d.rect = NoRect \/ Drawable(d.rect)
Sound(d) == Viewer(d) /\ DrawingInv(d) /\ Flushes(d) /\ WireSound(d.wire) /\ RectSound(d)

(* A handler that is called on a, and so far made b of it                  *)
Handles(a, b) == Sound(b) /\ Ends(a, b)

(* What a decoder remembers between two calls is not the picture.          *)
LEMMA MoreFieldsRead ==
  ASSUME NEW old, NEW d, Reads(old, d), NEW x
  PROVE  /\ Reads(old, [d EXCEPT !.lines = x]) /\ Reads(old, [d EXCEPT !.subrects = x])
         /\ Reads(old, [d EXCEPT !.tiles = x]) /\ Reads(old, [d EXCEPT !.lastRaw = x])
         /\ Reads(old, [d EXCEPT !.ctl = x]) /\ Reads(old, [d EXCEPT !.filter = x])
         /\ Reads(old, [d EXCEPT !.colours = x]) /\ Reads(old, [d EXCEPT !.len = x])
  BY DEF Viewer, Reads, SameDrawing, Ends, SameConnection

(* Nor is what the viewer asked for.                                       *)
LEMMA OtherFieldsRead ==
  ASSUME NEW old, NEW d, Reads(old, d), NEW x
  PROVE  /\ Reads(old, [d EXCEPT !.halted = x]) /\ Reads(old, [d EXCEPT !.dropped = x])
         /\ Reads(old, [d EXCEPT !.continuous = x]) /\ Reads(old, [d EXCEPT !.knowsContinuous = x])
         /\ Reads(old, [d EXCEPT !.region = x]) /\ Reads(old, [d EXCEPT !.stray = x])
         /\ Reads(old, [d EXCEPT !.asked = x]) /\ Reads(old, [d EXCEPT !.grabbed = x])
  BY DEF Viewer, Reads, SameDrawing, Ends, SameConnection

(* An exception ends the connection of this viewer.                        *)
LEMMA RefuseReads ==
  ASSUME NEW old, NEW d, Reads(old, d)
  PROVE  Reads(old, Refuse(d))
  BY FailReads, OtherFieldsRead DEF Refuse

(* To ask for updates changes no picture.                                  *)
LEMMA RequestReads ==
  ASSUME NEW old, NEW d, Reads(old, d)
  PROVE  Reads(old, RequestUpdate(d)) /\ Reads(old, UpdateContinuousUpdates(d))
  <1>1. [d EXCEPT !.asked = TRUE, !.region = d.size]
          = [[d EXCEPT !.asked = TRUE] EXCEPT !.region = d.size]
    OBVIOUS
  <1> QED
  BY <1>1, OtherFieldsRead DEF RequestUpdate, UpdateContinuousUpdates, EnableContinuousUpdates

(* Messages that draw nothing. *)
LEMMA MessagesRead ==
  ASSUME NEW old, NEW b, NEW d, Reads(old, d)
  PROVE  /\ Reads(old, HandleServerCutText(b, d)) /\ Reads(old, HandleServerFence(b, d))
         /\ Reads(old, HandleXvp(b, d)) /\ Reads(old, EndOfContinuousUpdates(d))
  <1>1. \A e, p : Reads(old, e) => Reads(old, HandleExtendedClipboard(p, e))
    BY SkipReads, RefuseReads DEF HandleExtendedClipboard
  <1>2. Reads(old, HandleServerCutText(b, d))
    BY <1>1, SkipReads, Reading DEF HandleServerCutText
  <1>3. Reads(old, HandleServerFence(b, d))
    <2> DEFINE e == Skip(d, 8)
               f == Skip(e, Min({Part(b).n, 64}))
    <2>1. Reads(old, e) /\ Reads(old, f)
      BY SkipReads
    <2>2. /\ Reads(old, Back(d, 1)) /\ Reads(old, Back(e, 9))
          /\ Reads(old, ClientFence(f)) /\ Reads(old, Refuse(f))
      BY <2>1, Reading, RefuseReads DEF ClientFence
    <2> QED BY <2>2 DEF HandleServerFence
  <1>4. Reads(old, HandleXvp(b, d))
    BY SkipReads, Reading, FailReads DEF HandleXvp
  <1>5. Reads(old, EndOfContinuousUpdates(d))
    <2> DEFINE e == [d EXCEPT !.knowsContinuous = TRUE]
    <2>1. [d EXCEPT !.knowsContinuous = TRUE, !.continuous = ~d.knowsContinuous]
            = [e EXCEPT !.continuous = ~d.knowsContinuous]
      OBVIOUS
    <2>2. Reads(old, [e EXCEPT !.continuous = ~d.knowsContinuous])
      BY OtherFieldsRead
    <2> QED BY <2>1, <2>2, RequestReads DEF EndOfContinuousUpdates
  <1> QED BY <1>2, <1>3, <1>4, <1>5

(* A connection that ended stays ended, so two calls are like one.         *)
LEMMA EndsCompose == ASSUME NEW a, NEW b, NEW e, Ends(a, b), Ends(b, e) PROVE Ends(a, e)
  BY DEF Ends, SameConnection

(* What only reads is a handler.                                           *)
LEMMA ReadsHandles ==
  ASSUME NEW old, NEW d, Handles(old, d), NEW e, Reads(d, e)
  PROVE  Handles(old, e)
  <1>1. Ends(old, e)
    BY EndsCompose DEF Handles, Reads
  <1>2. DrawingInv(e)
    BY DEF Handles, Sound, Reads, SameDrawing, DrawingInv, DrawingType, Copied
  <1>3. Flushes(e) /\ RectSound(e)
    BY DEF Handles, Sound, Reads, SameDrawing, Flushes, RectSound
  <1> QED BY <1>1, <1>2, <1>3 DEF Handles, Sound, Reads

(* A handler leaves a viewer that can be read from.                        *)
LEMMA HandlesReads == ASSUME NEW old, NEW d, Handles(old, d) PROVE Reads(d, d)
  BY ReadsSelf DEF Handles, Sound

(* The steps of which handlers are made.                                   *)
LEMMA Handling ==
  ASSUME NEW old, NEW d, Handles(old, d)
  PROVE  /\ \A n : Handles(old, Skip(d, n)) /\ Handles(old, Back(d, n))
         /\ Handles(old, Lose(d)) /\ Handles(old, Refuse(d)) /\ Handles(old, Fail(d))
         /\ Handles(old, RequestUpdate(d)) /\ Handles(old, UpdateContinuousUpdates(d))
  BY HandlesReads, ReadsHandles, SkipReads, Reading, RefuseReads, FailReads, RequestReads

(* A decoder remembers something for its next call.                        *)
LEMMA FieldHandles ==
  ASSUME NEW old, NEW d, Handles(old, d), NEW x
  PROVE  /\ Handles(old, [d EXCEPT !.lines = x]) /\ Handles(old, [d EXCEPT !.subrects = x])
         /\ Handles(old, [d EXCEPT !.tiles = x]) /\ Handles(old, [d EXCEPT !.lastRaw = x])
         /\ Handles(old, [d EXCEPT !.ctl = x]) /\ Handles(old, [d EXCEPT !.filter = x])
         /\ Handles(old, [d EXCEPT !.colours = x]) /\ Handles(old, [d EXCEPT !.len = x])
  BY HandlesReads, ReadsHandles, MoreFieldsRead

(* A rectangle is done, and the number of those to come is not the picture. *)
LEMMA RectsHandle ==
  ASSUME NEW old, NEW d, Handles(old, d)
  PROVE  Handles(old, RectDone(d)) /\ \A n : Handles(old, [d EXCEPT !.rects = n])
  BY DEF Handles, Sound, RectDone, Viewer, DrawingInv, DrawingType, Copied, Flushes, RectSound,
         Ends, SameConnection

(* What draws on the display is a handler.                                 *)
LEMMA DrawsHandle ==
  ASSUME NEW old, NEW d, Handles(old, d), NEW e, Viewer(e), DrawingInv(e), SameRest(d, e),
         d.renderQ # <<>> => e.renderQ # <<>>
  PROVE  Handles(old, e)
  BY DEF Handles, Sound, SameRest, SameConnection, Flushes, RectSound, Ends

(* The four ways in which decoders draw.                                   *)
LEMMA DrawingHandles ==
  ASSUME NEW old, NEW d, Handles(old, d), NEW cell \in Cells, NEW colour \in Colours
  PROVE  /\ Handles(old, Fill(d, cell, colour))
         /\ \A from \in Cells : Handles(old, CopyImage(d, from, cell))
         /\ \A received : Handles(old, BlitImage(d, cell, colour, received))
         /\ Handles(old, ImageRect(d, cell, colour))
  <1>1. Viewer(d) /\ DrawingInv(d)
    BY DEF Handles, Sound
  <1> QED BY <1>1, FillPerformed, CopyPerformed, BlitPerformed, ImageQueued, DrawsHandle

-----------------------------------------------------------------------------
(* The decoders                                                            *)

(* Raw draws the lines that have arrived.                                  *)
LEMMA RawHandles ==
  ASSUME NEW old, NEW d, Handles(old, d), d.rect.cell \in Cells, d.rect.colour \in Colours
  PROVE  Handles(old, DecodeRaw(d))
  <1> DEFINE left == IF d.lines = 0 THEN d.rect.h ELSE d.lines
             arrived == Min({left, d.avail \div (4 * d.rect.w)})
             drawn == BlitImage(Skip(d, arrived * 4 * d.rect.w), d.rect.cell, d.rect.colour, TRUE)
  <1> HIDE DEF arrived
  <1>1. Handles(old, drawn)
    BY Handling, DrawingHandles
  <1> HIDE DEF drawn, left
  <1>2. /\ Handles(old, RectDone(d)) /\ \A x : Handles(old, [d EXCEPT !.lines = x])
        /\ \A x : Handles(old, [drawn EXCEPT !.lines = x])
        /\ Handles(old, RectDone([drawn EXCEPT !.lines = 0]))
    BY <1>1, FieldHandles, RectsHandle
  <1>3. \/ DecodeRaw(d) = RectDone(d)
        \/ DecodeRaw(d) = [d EXCEPT !.lines = left]
        \/ DecodeRaw(d) = [drawn EXCEPT !.lines = left - arrived]
        \/ DecodeRaw(d) = RectDone([drawn EXCEPT !.lines = 0])
    BY DEF DecodeRaw, drawn, left, arrived
  <1> QED BY <1>2, <1>3

(* CopyRect copies a cell.                                                 *)
LEMMA CopyRectHandles ==
  ASSUME NEW old, NEW d, Handles(old, d), d.rect.cell \in Cells, d.rect.colour \in Colours,
         d.rect.from \in Cells
  PROVE  Handles(old, DecodeCopyRect(d))
  BY Handling, DrawingHandles, RectsHandle DEF DecodeCopyRect

(* RRE fills with the background, then with subrectangles.                 *)
LEMMA RREHandles ==
  ASSUME NEW old, NEW d, Handles(old, d), d.rect.cell \in Cells, d.rect.colour \in Colours
  PROVE  Handles(old, DecodeRRE(d))
  <1>1. \A bytes, x :
          Handles(old, [Fill(Skip(d, bytes), d.rect.cell, d.rect.colour) EXCEPT !.subrects = x])
    BY Handling, DrawingHandles, FieldHandles
  <1> QED BY <1>1, RectsHandle DEF DecodeRRE

(* Hextile draws a tile each time, as long as they have arrived.           *)
LEMMA HextileHandles ==
  ASSUME NEW old, NEW d, Handles(old, d), d.rect.cell \in Cells, d.rect.colour \in Colours
  PROVE  Handles(old, DecodeHextile(d))
  <1> DEFINE left == IF d.tiles = 0 THEN Len(d.rect.hextiles) ELSE d.tiles
             tile == d.rect.hextiles[Len(d.rect.hextiles) - left + 1]
             bytes == tile.head + tile.n * tile.sub
             read == [Skip(d, bytes) EXCEPT !.tiles = left - 1, !.lastRaw = tile.kind = "raw"]
             drawn == DrawTile(read, tile, d.lastRaw)
  <1> HIDE DEF left, tile, bytes
  <1>1. Handles(old, read) /\ read.rect = d.rect
    <2> DEFINE u == Skip(d, bytes)
               e == [u EXCEPT !.tiles = left - 1]
    <2>1. read = [e EXCEPT !.lastRaw = tile.kind = "raw"]
      OBVIOUS
    <2>2. Handles(old, u) /\ Reads(d, u)
      BY Handling, HandlesReads, SkipReads
    <2>3. Handles(old, read)
      BY <2>1, <2>2, FieldHandles
    <2>4. read.rect = u.rect /\ u.rect = d.rect
      <3>1. Viewer(u) /\ u.rect = d.rect
        BY <2>2 DEF Reads, SameDrawing
      <3>2. read = [u EXCEPT !.tiles = left - 1, !.lastRaw = tile.kind = "raw"]
        OBVIOUS
      <3> HIDE DEF u, read
      <3> QED BY <3>1, <3>2 DEF Viewer
    <2> QED BY <2>3, <2>4
  <1> HIDE DEF read
  <1>2. Handles(old, drawn)
    BY <1>1, DrawingHandles DEF DrawTile
  <1> HIDE DEF drawn
  <1>3. \/ DecodeHextile(d) = RectDone(d) \/ DecodeHextile(d) = [d EXCEPT !.tiles = left]
        \/ DecodeHextile(d) = RectDone(drawn) \/ DecodeHextile(d) = drawn
    <2> DEFINE short == Short(d, tile.head)
               missing == Short(d, bytes)
               done == RectDone(d)
               last == RectDone(drawn)
               waiting == [d EXCEPT !.tiles = left]
    <2>1. DecodeHextile(d) =
            CASE left = 0 -> done [] left > 0 /\ (short \/ missing) -> waiting
              [] left = 1 /\ ~short /\ ~missing -> last [] OTHER -> drawn
      BY DEF DecodeHextile, left, tile, bytes, read, drawn
    <2> HIDE DEF short, missing, done, last, waiting
    <2> QED BY <2>1 DEF done, last, waiting
  <1>4. /\ Handles(old, RectDone(d)) /\ Handles(old, [d EXCEPT !.tiles = left])
        /\ Handles(old, RectDone(drawn)) /\ Handles(old, drawn)
    BY <1>2, FieldHandles, RectsHandle
  <1> QED BY <1>3, <1>4

(* A rectangle of Tight is done.                                           *)
LEMMA TightDoneHandles ==
  ASSUME NEW old, NEW d, Handles(old, d)
  PROVE  Handles(old, TightDone(d))
  <1> DEFINE u == [RectDone(d) EXCEPT !.ctl = "none"]
  <1>1. TightDone(d) = [u EXCEPT !.filter = "none"]
    BY DEF TightDone
  <1>2. Handles(old, u)
    BY FieldHandles, RectsHandle
  <1> HIDE DEF u
  <1>3. \A x : Handles(old, [u EXCEPT !.filter = x])
    BY <1>2, FieldHandles
  <1> QED BY <1>1, <1>3

(* The length of the data of Tight, and the data, are read.                *)
LEMMA TightDataHandles ==
  ASSUME NEW old, NEW d, Handles(old, d)
  PROVE  Handles(old, ReadLength(d)) /\ Handles(old, TakeData(d))
  BY Handling, FieldHandles DEF ReadLength, TakeData

(* Tight fills, or queues an image.                                        *)
LEMMA TightImagesHandle ==
  ASSUME NEW old, NEW d, Handles(old, d), d.rect.cell \in Cells, d.rect.colour \in Colours
  PROVE  Handles(old, TightFill(d)) /\ Handles(old, TightImage(d))
  BY Handling, DrawingHandles, TightDoneHandles, TightDataHandles DEF TightFill, TightImage

(* Tight blits when its data have arrived.                                 *)
LEMMA TightPixelsHandle ==
  ASSUME NEW old, NEW d, Handles(old, d), d.rect.cell \in Cells, d.rect.colour \in Colours, NEW size
  PROVE  Handles(old, TightPixels(d, size))
  <1> DEFINE u == ReadLength(d)
             left == IF d.filter = "palette" THEN 0 ELSE d.colours
             drawn(e) == TightDone(BlitImage([e EXCEPT !.colours = left],
                                             d.rect.cell, d.rect.colour, FALSE))
  <1>1. ASSUME NEW e, Handles(old, e) PROVE Handles(old, drawn(e))
    BY <1>1, DrawingHandles, FieldHandles, TightDoneHandles
  <1>2. /\ Handles(old, u) /\ Handles(old, TakeData(u)) /\ Handles(old, Skip(d, size))
        /\ Handles(old, TightDone(d))
    BY Handling, TightDoneHandles, TightDataHandles
  <1>3. Handles(old, drawn(Skip(d, size))) /\ Handles(old, drawn(TakeData(u)))
    BY <1>1, <1>2
  <1> DEFINE small == drawn(Skip(d, size))
             large == drawn(TakeData(u))
             done == TightDone(d)
             short == Short(d, size)
             has == HasData(u)
  <1>4. TightPixels(d, size) =
          CASE size = 0 -> done [] size \in 1 .. 11 /\ ~short -> small
            [] size >= 12 /\ has -> large [] size >= 12 /\ ~has -> u [] OTHER -> d
    BY DEF TightPixels
  <1> HIDE DEF small, large, done, short, has, u
  <1>5. TightPixels(d, size) \in {done, small, large, u, d}
    BY <1>4
  <1> QED BY <1>2, <1>3, <1>5 DEF small, large, done

(* Tight reads a filter and a palette first.                               *)
LEMMA TightBasicHandles ==
  ASSUME NEW old, NEW d, Handles(old, d), d.rect.cell \in Cells, d.rect.colour \in Colours
  PROVE  Handles(old, TightBasic(d))
  <1>1. Handles(old, TightFilter(d))
    BY Handling, FieldHandles DEF TightFilter
  <1>2. Handles(old, TightPalette(d))
    BY Handling, FieldHandles, TightPixelsHandle DEF TightPalette
  <1> QED BY <1>1, <1>2, TightPixelsHandle, Handling DEF TightBasic

(* Tight reads its control byte first.                                     *)
LEMMA TightHandles ==
  ASSUME NEW old, NEW d, Handles(old, d), d.rect.cell \in Cells, d.rect.colour \in Colours
  PROVE  Handles(old, DecodeTight(d))
  BY Handling, FieldHandles, TightImagesHandle, TightBasicHandles DEF DecodeTight

-----------------------------------------------------------------------------
(* Updates                                                                 *)

(* Between two updates, nothing drawn is left unflipped.                   *)
Rest(d) == ~(d.rects > 0) => AtRest(d)

(* What only reads leaves the picture at rest.                             *)
LEMMA ReadsRest ==
  ASSUME NEW d, Rest(d), NEW e, Reads(d, e)
  PROVE  Rest(e)
  BY DEF Reads, SameDrawing, Rest, AtRest

(* A resize draws nothing and leaves the picture at rest.                  *)
LEMMA ResizeHandles ==
  ASSUME NEW old, NEW d, Handles(old, d), NEW size
  PROVE  Handles(old, Resize(d, size)) /\ (Rest(d) => Rest(Resize(d, size)))
  <1> DEFINE e == ResizeDisplay(d, size)
             f == UpdateContinuousUpdates(e)
  <1>1. Viewer(d) /\ DrawingInv(d)
    BY DEF Handles, Sound
  <1>2. /\ Viewer(e) /\ DrawingInv(e) /\ SameRest(d, e)
        /\ e = d \/ AtRest(e)
        /\ d.renderQ # <<>> => e.renderQ # <<>>
    BY <1>1, Resized DEF AtRest
  <1> HIDE DEF e
  <1>3. Handles(old, e) /\ Handles(e, e)
    <2>1. Handles(old, e)
      BY <1>2, DrawsHandle
    <2> QED BY <2>1 DEF Handles, Ends, SameConnection
  <1>4. Handles(old, f) /\ Reads(e, f)
    BY <1>3, Handling, HandlesReads, RequestReads
  <1>5. Rest(d) => Rest(e)
    BY <1>2 DEF Rest
  <1>6. Resize(d, size) = f
    BY DEF Resize, e
  <1> QED BY <1>4, <1>5, <1>6, ReadsRest

(* The end of an update flips.                                             *)
LEMMA FinishHandles ==
  ASSUME NEW old, NEW d, Handles(old, d)
  PROVE  Handles(old, FinishUpdate(d)) /\ AtRest(FinishUpdate(d))
  <1> DEFINE e == Perform(d, Flip)
  <1>1. Viewer(d) /\ DrawingInv(d)
    BY DEF Handles, Sound
  <1>2. /\ Viewer(e) /\ DrawingInv(e) /\ SameRest(d, e) /\ AtRest(e)
        /\ d.renderQ # <<>> => e.renderQ # <<>>
    BY <1>1, FlipPerformed DEF AtRest
  <1>3. FinishUpdate(d) = e \/ FinishUpdate(d) = RequestUpdate(e)
    BY DEF FinishUpdate
  <1> HIDE DEF e
  <1>4. Handles(old, e)
    BY <1>2, DrawsHandle
  <1>5. Handles(old, RequestUpdate(e)) /\ Reads(e, RequestUpdate(e))
    BY <1>4, Handling, HandlesReads, RequestReads
  <1>6. AtRest(RequestUpdate(e))
    BY <1>2, <1>5 DEF Reads, SameDrawing, AtRest
  <1> QED BY <1>2, <1>3, <1>4, <1>5, <1>6

(* Rectangles that are not drawn: cursors, names, sizes. *)
LEMMA PseudoRectsHandle ==
  ASSUME NEW old, NEW d, Handles(old, d)
  PROVE  /\ Handles(old, HandleVMwareCursor(d)) /\ Handles(old, HandleCursor(d))
         /\ Handles(old, HandleDesktopName(d)) /\ Handles(old, HandleExtendedDesktopSize(d))
  <1>1. Handles(old, HandleVMwareCursor(d))
    BY Handling, RectsHandle DEF HandleVMwareCursor
  <1>2. Handles(old, HandleCursor(d))
    BY Handling, RectsHandle DEF HandleCursor
  <1>3. Handles(old, HandleDesktopName(d))
    BY Handling, RectsHandle DEF HandleDesktopName
  <1>4. Handles(old, HandleExtendedDesktopSize(d))
    <2> DEFINE e == RectDone(Skip(d, 4 + 16 * d.rect.n))
    <2>1. Handles(old, e) /\ Handles(old, Resize(e, d.rect.size))
      BY Handling, RectsHandle, ResizeHandles
    <2>2. HandleExtendedDesktopSize(d) = d \/ HandleExtendedDesktopSize(d) = e
             \/ HandleExtendedDesktopSize(d) = Resize(e, d.rect.size)
      BY DEF HandleExtendedDesktopSize
    <2> QED BY <2>1, <2>2
  <1> QED BY <1>1, <1>2, <1>3, <1>4

(* A rectangle of any encoding is handled.                                 *)
LEMMA RectHandles ==
  ASSUME NEW old, NEW d, Handles(old, d), Drawable(d.rect)
  PROVE  Handles(old, HandleRect(d))
  <1>1. d.rect.encoding \in Drawing => d.rect.cell \in Cells /\ d.rect.colour \in Colours
    BY DEF Drawable
  <1>2. CASE d.rect.encoding \in {"vmwareCursor", "cursor", "desktopName", "extendedDesktopSize"}
    BY <1>2, PseudoRectsHandle DEF HandleRect
  <1>3. CASE d.rect.encoding \in {"lastRect", "qemuExtendedKeyEvent", "desktopSize"}
    BY <1>3, RectsHandle, ResizeHandles DEF HandleRect
  <1>4. CASE d.rect.encoding = "raw"
    BY <1>1, <1>4, RawHandles DEF HandleRect, Drawing
  <1>5. CASE d.rect.encoding = "copyRect"
    BY <1>1, <1>5, CopyRectHandles DEF HandleRect, Drawing, Drawable
  <1>6. CASE d.rect.encoding \in {"rre", "hextile"}
    BY <1>1, <1>6, RREHandles, HextileHandles DEF HandleRect, Drawing
  <1>7. CASE d.rect.encoding \in {"tight", "tightPNG"}
    BY <1>1, <1>7, TightHandles DEF HandleRect, Drawing
  <1>8. CASE d.rect.encoding \notin {"vmwareCursor", "cursor", "desktopName", "extendedDesktopSize",
                                     "lastRect", "qemuExtendedKeyEvent", "desktopSize", "raw",
                                     "copyRect", "rre", "hextile", "tight", "tightPNG"}
    BY <1>8, Handling DEF HandleRect
  <1> QED BY <1>2, <1>3, <1>4, <1>5, <1>6, <1>7, <1>8

(* An update goes on, rectangle by rectangle, and flips at its end.        *)
LEMMA ContinueHandles ==
  ASSUME NEW old, NEW d, Handles(old, d), d.rects > 0
  PROVE  Handles(old, ContinueUpdate(d)) /\ Rest(ContinueUpdate(d))
  <1> DEFINE e == HandleRect(d)
             header == [Skip(d, 12) EXCEPT !.rect = Part(d)]
  <1>0. Rest(d)
    BY DEF Rest
  <1>1. CASE d.rect = NoRect /\ Short(d, 12)
    BY <1>0, <1>1 DEF ContinueUpdate
  <1>2. CASE d.rect = NoRect /\ ~Short(d, 12) /\ AtPart(d, {"rect"})
    <2>1. ContinueUpdate(d) = header
      BY <1>2 DEF ContinueUpdate
    <2>2. Drawable(Part(d))
      BY <1>2, TailSound DEF AtPart, Part, Handles, Sound
    <2> DEFINE u == Skip(d, 12)
    <2>3. Handles(old, u) /\ Reads(d, u)
      BY Handling, HandlesReads, SkipReads
    <2>4. u.rects > 0
      BY <2>3 DEF Reads, SameDrawing
    <2> HIDE DEF u
    <2>5. Handles(old, [u EXCEPT !.rect = Part(d)]) /\ [u EXCEPT !.rect = Part(d)].rects = u.rects
      BY <2>2, <2>3
         DEF Handles, Sound, Viewer, DrawingInv, DrawingType, Copied, Flushes, RectSound, Ends,
             SameConnection
    <2> QED BY <2>1, <2>4, <2>5 DEF Rest, u
  <1>3. CASE d.rect = NoRect /\ ~Short(d, 12) /\ ~AtPart(d, {"rect"})
    <2>1. ContinueUpdate(d) = Lose(d)
      BY <1>3 DEF ContinueUpdate
    <2>2. Handles(old, Lose(d)) /\ Reads(d, Lose(d))
      BY Handling, HandlesReads, Reading
    <2> QED BY <1>0, <2>1, <2>2, ReadsRest
  <1>4. CASE d.rect # NoRect
    <2>1. Drawable(d.rect)
      BY <1>4 DEF Handles, Sound, RectSound
    <2>2. Handles(old, e)
      BY <2>1, RectHandles
    <2>3. CASE e.rects > 0
      BY <1>4, <2>2, <2>3 DEF ContinueUpdate, Rest
    <2>4. CASE ~(e.rects > 0)
      <3>1. ContinueUpdate(d) = FinishUpdate(e)
        BY <1>4, <2>4 DEF ContinueUpdate
      <3> QED BY <2>2, <3>1, FinishHandles DEF Rest
    <2> QED BY <2>3, <2>4
  <1> QED BY <1>1, <1>2, <1>3, <1>4

(* An update begins, unless the display has to be flushed first.           *)
LEMMA BeginHandles ==
  ASSUME NEW old, NEW d, NEW e, Handles(old, e), Rest(e), ~(e.rects > 0), ~e.flushing,
         d.renderQ = e.renderQ, d.rects = e.rects
  PROVE  Handles(old, BeginUpdate(d, e)) /\ Rest(BeginUpdate(d, e))
  <1> DEFINE n == Part(d).n
             u == Skip(e, 3)
             v == [u EXCEPT !.rects = n]
             w == [v EXCEPT !.flushing = TRUE, !.dflush = TRUE, !.dropped = @ \/ n = 0]
  <1>1. Handles(old, u) /\ Reads(e, u) /\ Handles(old, Back(e, 1)) /\ Reads(e, Back(e, 1))
    BY Handling, HandlesReads, SkipReads, Reading
  <1>2. AtRest(e) /\ u.renderQ = e.renderQ /\ u.damage = e.damage
    BY <1>1 DEF Rest, Reads, SameDrawing
  <1>3. Rest(Back(e, 1))
    BY <1>1, ReadsRest
  <1>4. \/ BeginUpdate(d, e) = Back(e, 1)
        \/ BeginUpdate(d, e) = w /\ d.renderQ # <<>>
        \/ BeginUpdate(d, e) = FinishUpdate(v)
        \/ BeginUpdate(d, e) = v
    BY DEF BeginUpdate
  <1> HIDE DEF u, n
  <1>5. Handles(old, v) /\ v.renderQ = u.renderQ /\ v.damage = u.damage /\ Viewer(v)
    <2>1. Viewer(u) /\ Handles(old, v)
      BY <1>1, RectsHandle DEF Handles, Sound
    <2>2. v.renderQ = u.renderQ /\ v.damage = u.damage
      BY <2>1 DEF Viewer
    <2> QED BY <2>1, <2>2 DEF Handles, Sound
  <1> HIDE DEF v
  <1>6. Rest(v) /\ Handles(old, FinishUpdate(v)) /\ Rest(FinishUpdate(v))
    BY <1>2, <1>5, FinishHandles DEF Rest, AtRest
  <1>7. ASSUME d.renderQ # <<>> PROVE Handles(old, w) /\ Rest(w)
    <2>1. /\ Viewer(w) /\ w.renderQ = v.renderQ /\ w.damage = v.damage /\ w.canvas = v.canvas
          /\ w.shown = v.shown /\ w.ideal = v.ideal /\ w.rect = v.rect /\ w.wire = v.wire
          /\ SameConnection(v, w) /\ w.flushing = TRUE /\ w.dflush = TRUE
      BY <1>5 DEF Viewer, SameConnection
    <2>2. v.renderQ # <<>>
      BY <1>2, <1>5, <1>7
    <2> HIDE DEF w
    <2>3. Sound(w)
      BY <1>5, <2>1, <2>2
         DEF Handles, Sound, DrawingInv, DrawingType, Copied, Flushes, RectSound
    <2>4. Ends(old, w)
      BY <1>5, <2>1 DEF Handles, Ends, SameConnection
    <2>5. AtRest(w)
      BY <1>2, <1>5, <2>1 DEF AtRest
    <2> QED BY <2>3, <2>4, <2>5 DEF Handles, Rest
  <1> QED BY <1>1, <1>3, <1>4, <1>5, <1>6, <1>7

-----------------------------------------------------------------------------
(* What the browser calls                                                  *)

(* The viewer connects.                                                    *)
Connects(a, b) ==
    /\ a.conn = "connecting" /\ b.conn = "connected"
    /\ b.connects = a.connects + 1 /\ b.disconnects = a.disconnects

(* A call of a handler, from a to b *)
Call(a, b) == Sound(b) /\ Rest(b) /\ (Ends(a, b) \/ Connects(a, b))

(* One message of a server, whichever it is.                               *)
LEMMA NormalMsgKeeps ==
  ASSUME NEW old, NEW d, Handles(old, d), Rest(d), ~d.flushing
  PROVE  Handles(old, NormalMsg(d)) /\ Rest(NormalMsg(d))
  <1> DEFINE e == Skip(d, 1)
  <1>0. Handles(old, e) /\ Reads(d, d) /\ Reads(d, e)
    BY Handling, HandlesReads, SkipReads
  <1>1. CASE d.rects > 0
    BY <1>1, ContinueHandles DEF NormalMsg
  <1>2. CASE ~(d.rects > 0)
    <2> DEFINE type == Part(d).type
    <2>1. Rest(e) /\ ~(e.rects > 0) /\ ~e.flushing /\ d.renderQ = e.renderQ /\ d.rects = e.rects
      <3>1. e.rects = d.rects /\ e.flushing = d.flushing /\ e.renderQ = d.renderQ
        BY <1>0 DEF Reads, SameDrawing
      <3>2. Rest(e)
        BY <1>0, ReadsRest
      <3> HIDE DEF e
      <3> QED BY <1>2, <3>1, <3>2
    <2> HIDE DEF e
    <2>2. Handles(old, BeginUpdate(d, e)) /\ Rest(BeginUpdate(d, e))
      BY <1>0, <2>1, BeginHandles
    <2>3. /\ Reads(d, Lose(d)) /\ Reads(d, Refuse(e)) /\ Reads(d, Fail(e))
          /\ Reads(d, HandleServerCutText(d, e)) /\ Reads(d, HandleServerFence(d, e))
          /\ Reads(d, HandleXvp(d, e)) /\ Reads(d, EndOfContinuousUpdates(e))
      BY <1>0, Reading, RefuseReads, FailReads, MessagesRead
    <2>4. \A x : Reads(d, x) => Handles(old, x) /\ Rest(x)
      BY ReadsHandles, ReadsRest
    <2>5. \/ NormalMsg(d) = Lose(d) \/ NormalMsg(d) = BeginUpdate(d, e)
          \/ NormalMsg(d) = Refuse(e) \/ NormalMsg(d) = e
          \/ NormalMsg(d) = HandleServerCutText(d, e)
          \/ NormalMsg(d) = EndOfContinuousUpdates(e)
          \/ NormalMsg(d) = HandleServerFence(d, e) \/ NormalMsg(d) = HandleXvp(d, e)
          \/ NormalMsg(d) = Fail(e)
      BY <1>2 DEF NormalMsg, e
    <2> QED BY <1>0, <2>2, <2>3, <2>4, <2>5
  <1> QED BY <1>1, <1>2

(* The loop of _handleMessage() ends, or handles one more.                 *)
LEMMA NextTurnKeeps ==
  ASSUME NEW old, NEW d, Handles(old, d), Rest(d)
  PROVE  Handles(old, NextTurn(d)) /\ Rest(NextTurn(d))
  BY NormalMsgKeeps DEF NextTurn

(* f is the course of the loop over what has arrived. *)
Turned(f, d, k) == f = [n \in 0 .. k |-> IF n = 0 THEN d ELSE NextTurn(f[n - 1])]

(* There is a course of any number of turns of that loop.                  *)
LEMMA TurnedExists ==
  ASSUME NEW d, NEW k \in Nat
  PROVE  \E f : Turned(f, d, k)
  <1> DEFINE T == {m \in Nat : \E f : Turned(f, d, m)}
  <1>1. 0 \in T
    <2> DEFINE f == [n \in 0 .. 0 |-> d]
    <2>1. f = [n \in 0 .. 0 |-> IF n = 0 THEN d ELSE NextTurn(f[n - 1])]
      OBVIOUS
    <2> QED BY <2>1 DEF Turned
  <1>2. \A m \in T : m + 1 \in T
    <2> TAKE m \in T
    <2>1. PICK f : Turned(f, d, m)
      OBVIOUS
    <2> DEFINE g == [n \in 0 .. m + 1 |-> IF n <= m THEN f[n] ELSE NextTurn(f[m])]
    <2>2. \A n \in 0 .. m : f[n] = IF n = 0 THEN d ELSE NextTurn(f[n - 1])
      BY <2>1 DEF Turned
    <2>3. \A n \in 0 .. m + 1 : g[n] = IF n = 0 THEN d ELSE NextTurn(g[n - 1])
      <3> TAKE n \in 0 .. m + 1
      <3>1. CASE n = 0
        BY <2>2, <3>1
      <3>2. CASE n \in 1 .. m
        <4>1. g[n] = f[n] /\ g[n - 1] = f[n - 1] /\ n # 0
          BY <3>2
        <4> QED BY <2>2, <3>2, <4>1
      <3>3. CASE n = m + 1
        <4>1. g[n] = NextTurn(f[m]) /\ g[n - 1] = f[m] /\ n # 0
          BY <3>3
        <4> QED BY <4>1
      <3> QED BY <3>1, <3>2, <3>3
    <2>4. g = [n \in 0 .. m + 1 |-> IF n = 0 THEN d ELSE NextTurn(g[n - 1])]
      BY <2>3
    <2> HIDE DEF g
    <2> QED BY <2>4 DEF Turned
  <1> HIDE DEF T
  <1>3. 0 .. k \subseteq T
    BY <1>1, <1>2, Counting DEF T
  <1> QED BY <1>3 DEF T

(* The messages that arrived together are handled one by one.              *)
LEMMA NormalMsgsKeep ==
  ASSUME NEW old, NEW d, Handles(old, d), Rest(d)
  PROVE  Handles(old, NormalMsgs(d)) /\ Rest(NormalMsgs(d))
  <1> DEFINE f == CHOOSE f : Turned(f, d, MaxTurns)
             T == {n \in Nat : n <= MaxTurns => Handles(old, f[n]) /\ Rest(f[n])}
  <1>1. MaxTurns \in Nat
    BY VncClientAssumption
  <1>2. NormalMsgs(d) = f[MaxTurns]
    BY DEF NormalMsgs, Turned
  <1>3. Turned(f, d, MaxTurns)
    BY <1>1, TurnedExists
  <1> HIDE DEF f
  <1>4. f[0] = d /\ \A n \in 1 .. MaxTurns : f[n] = NextTurn(f[n - 1])
    BY <1>1, <1>3 DEF Turned
  <1>5. 0 \in T
    BY <1>4
  <1>6. \A n \in T : n < MaxTurns => n + 1 \in T
    <2> SUFFICES ASSUME NEW n \in T, n < MaxTurns
                 PROVE  Handles(old, f[n + 1]) /\ Rest(f[n + 1])
      OBVIOUS
    <2>1. n + 1 \in 1 .. MaxTurns /\ n + 1 - 1 = n
      BY <1>1
    <2>2. f[n + 1] = NextTurn(f[n])
      BY <1>4, <2>1
    <2>3. Handles(old, f[n]) /\ Rest(f[n])
      BY <1>1
    <2> QED BY <2>2, <2>3, NextTurnKeeps
  <1>7. 0 .. MaxTurns \subseteq T
    <2> HIDE DEF T
    <2>1. T \subseteq Nat
      BY DEF T
    <2> QED BY <1>1, <1>5, <1>6, <2>1, Counting
  <1> QED BY <1>1, <1>2, <1>7

(* A viewer without a handler stays as it is.                              *)
LEMMA CallSelf == ASSUME NEW d, Sound(d), Rest(d) PROVE Call(d, d) /\ Handles(d, d) /\ Reads(d, d)
  <1>1. Handles(d, d)
    BY DEF Handles, Ends, SameConnection
  <1> QED BY <1>1, HandlesReads DEF Call, Handles

(* What only reads is a call.                                              *)
LEMMA ReadsCall == ASSUME NEW d, Sound(d), Rest(d), NEW e, Reads(d, e) PROVE Call(d, e)
  BY CallSelf, ReadsHandles, ReadsRest DEF Call, Handles

(* A viewer is connected once, at the end of the handshake.                *)
LEMMA ConnectedNow ==
  ASSUME NEW d, Viewer(d)
  PROVE  LET e == UpdateConnectionState(d, "connected")
         IN  /\ Viewer(e) /\ SameDrawing(d, e) /\ e.wire = d.wire
             /\ SameConnection(d, e) \/ Connects(d, e)
  <1>1. CASE d.conn = "connecting"
    BY <1>1 DEF UpdateConnectionState, Transitions, Viewer, SameDrawing, Connects
  <1>2. CASE d.conn # "connecting"
    BY <1>2 DEF UpdateConnectionState, Transitions, SameDrawing, SameConnection
  <1> QED BY <1>1, <1>2

(* ServerInit resizes the display, asks for an update and connects.        *)
LEMMA ServerInitCall ==
  ASSUME NEW d, Sound(d), Rest(d)
  PROVE  Call(d, NegotiateServerInit(d))
  <1> DEFINE part == Part(d)
             ready(x) == UpdateConnectionState(
                             RequestUpdate([Resize(x, part.size) EXCEPT !.grabbed = TRUE]),
                             "connected")
  <1>1. ASSUME NEW x, Reads(d, x) PROVE Call(d, ready(x))
    <2> DEFINE u == Resize(x, part.size)
               v == [u EXCEPT !.grabbed = TRUE]
               w == RequestUpdate(v)
               e == UpdateConnectionState(w, "connected")
    <2>1. Handles(d, x) /\ Rest(x)
      BY <1>1, CallSelf, ReadsHandles, ReadsRest
    <2>2. Handles(d, u) /\ Rest(u)
      BY <2>1, ResizeHandles
    <2> HIDE DEF u
    <2>3. Handles(d, v) /\ Rest(v)
      BY <2>2, HandlesReads, OtherFieldsRead, ReadsHandles, ReadsRest
    <2> HIDE DEF v
    <2>4. Handles(d, w) /\ Rest(w)
      BY <2>3, HandlesReads, RequestReads, ReadsHandles, ReadsRest
    <2> HIDE DEF w
    <2>5. /\ Viewer(e) /\ SameDrawing(w, e) /\ e.wire = w.wire
          /\ SameConnection(w, e) \/ Connects(w, e)
      BY <2>4, ConnectedNow DEF Handles, Sound
    <2> HIDE DEF e
    <2>6. Sound(e) /\ Rest(e)
      BY <2>4, <2>5 DEF Handles, Sound, SameDrawing, DrawingInv, DrawingType, Copied, Flushes,
                       RectSound, Rest, AtRest
    <2>7. Ends(d, e) \/ Connects(d, e)
      BY <2>4, <2>5 DEF Handles, Ends, Connects, SameConnection
    <2>8. ready(x) = e
      BY DEF e, w, v, u
    <2> QED BY <2>6, <2>7, <2>8 DEF Call
  <1> DEFINE d1 == Skip(d, 24)
             d2 == Skip(d1, part.n)
             d3 == Skip(d2, 8)
             d4 == Skip(d3, 16 * part.caps)
             r2 == ready(d2)
             r4 == ready(d4)
  <1>2. Reads(d, d) /\ Reads(d, d1) /\ Reads(d, d2) /\ Reads(d, d3) /\ Reads(d, d4)
    BY CallSelf, SkipReads
  <1>3. Call(d, r2) /\ Call(d, r4)
    BY <1>1, <1>2
  <1>4. NegotiateServerInit(d) \in
          {d, Back(d1, 24), r2, Back(d2, 24 + part.n), Back(d3, 32 + part.n), r4}
    <2> DEFINE s1 == Short(d, 24)
               s2 == Short(d1, part.n)
               s3 == Short(d2, 8)
               s4 == Short(d3, 16 * part.caps)
               tight == d.tight
               named == ~s1 /\ ~s2
               counted == named /\ tight /\ ~s3
    <2>1. NegotiateServerInit(d) =
            CASE s1 -> d [] ~s1 /\ ~named -> Back(d1, 24) [] named /\ ~tight -> r2
              [] named /\ tight /\ ~counted -> Back(d2, 24 + part.n)
              [] counted /\ s4 -> Back(d3, 32 + part.n) [] OTHER -> r4
      BY DEF NegotiateServerInit
    <2> HIDE DEF s1, s2, s3, s4, tight, r2, r4, d1, d2, d3, part
    <2> QED BY <2>1
  <1> HIDE DEF d1, d2, d3, d4, r2, r4
  <1>5. Call(d, Back(d1, 24)) /\ Call(d, Back(d2, 24 + part.n)) /\ Call(d, Back(d3, 32 + part.n))
    BY <1>2, Reading, ReadsCall
  <1> QED BY <1>3, <1>4, <1>5, CallSelf

(* A message of the handshake, whichever it is.                            *)
LEMMA InitMsgCall ==
  ASSUME NEW d, Sound(d), Rest(d)
  PROVE  Call(d, InitMsg(d))
  <1>1. Reads(d, d)
    BY CallSelf
  <1>2. /\ Call(d, Lose(d)) /\ Call(d, NegotiateProtocolVersion(d)) /\ Call(d, NegotiateSecurity(d))
        /\ Call(d, NegotiateAuthentication(d)) /\ Call(d, HandleSecurityResult(d))
        /\ Call(d, HandleSecurityReason(d))
    BY <1>1, Reading, ProtocolVersionReads, SecurityReads, AuthenticationReads,
       SecurityResultReads, SecurityReasonReads, ReadsCall
  <1>3. \/ InitMsg(d) = d \/ InitMsg(d) = Lose(d) \/ InitMsg(d) = NegotiateProtocolVersion(d)
        \/ InitMsg(d) = NegotiateSecurity(d) \/ InitMsg(d) = NegotiateAuthentication(d)
        \/ InitMsg(d) = HandleSecurityResult(d) \/ InitMsg(d) = HandleSecurityReason(d)
        \/ InitMsg(d) = NegotiateServerInit(d)
    BY DEF InitMsg
  <1> QED BY <1>2, <1>3, CallSelf, ServerInitCall

(* A message event is handled as the connection is.                        *)
LEMMA HandleMessageCall ==
  ASSUME NEW d, Sound(d), Rest(d)
  PROVE  Call(d, HandleMessage(d))
  <1>1. Call(d, NormalMsgs(d))
    BY CallSelf, NormalMsgsKeep DEF Call, Handles
  <1>2. Call(d, [d EXCEPT !.stray = TRUE])
    BY CallSelf, OtherFieldsRead, ReadsCall
  <1>3. \/ HandleMessage(d) = d \/ HandleMessage(d) = NormalMsgs(d)
        \/ HandleMessage(d) = InitMsg(d) \/ HandleMessage(d) = [d EXCEPT !.stray = TRUE]
    BY DEF HandleMessage
  <1> QED BY <1>1, <1>2, <1>3, CallSelf, InitMsgCall

(* An image that has loaded is painted like before. *)
LEMMA LoadedQueue ==
  ASSUME NEW q \in Seq(Ops), NEW i \in Waiting(q)
  PROVE  LET r == [q EXCEPT ![i].loaded = TRUE]
         IN  /\ r \in Seq(Ops) /\ Len(r) = Len(q)
             /\ \A j \in 1 .. Len(q) : r[j].op = q[j].op
             /\ \A j \in 1 .. Len(q) : j # i => r[j] = q[j]
             /\ \A b : \A j \in 1 .. Len(q) : Painted(b, r[j]) = Painted(b, q[j])
  <1> DEFINE a == q[i]
             l == [a EXCEPT !.loaded = TRUE]
             r == [q EXCEPT ![i] = l]
  <1>1. i \in 1 .. Len(q) /\ Len(q) \in Nat /\ a \in Ops /\ a.op = "img"
    BY DEF Waiting
  <1>2. a \in [op : {"img"}, cell : Cells, colour : Colours, loaded : BOOLEAN]
    BY <1>1 DEF Ops
  <1>3. l \in Ops /\ l.op = "img" /\ l.cell = a.cell /\ l.colour = a.colour
    BY <1>2 DEF Ops
  <1> HIDE DEF l
  <1>4. r \in Seq(Ops) /\ Len(r) = Len(q) /\ r[i] = l /\ \A j \in 1 .. Len(q) : j # i => r[j] = q[j]
    BY <1>1, <1>3
  <1> HIDE DEF r
  <1>5. \A j \in 1 .. Len(q) : r[j].op = q[j].op
    BY <1>1, <1>3, <1>4
  <1>6. \A b : Painted(b, l) = Painted(b, a)
    BY <1>1, <1>3 DEF Painted
  <1>7. \A b : \A j \in 1 .. Len(q) : Painted(b, r[j]) = Painted(b, q[j])
    BY <1>4, <1>6
  <1> QED BY <1>4, <1>5, <1>7 DEF r, l

(* An image that has loaded leaves the queue as it leads, but at its head. *)
LEMMA ImageMarked ==
  ASSUME NEW d, Sound(d), Rest(d), NEW i \in Waiting(d.renderQ)
  PROVE  LET e == [d EXCEPT !.renderQ[i].loaded = TRUE]
         IN  /\ Viewer(e) /\ DrawingType(e) /\ Copied(e) /\ SameRest(d, e)
             /\ Ahead(e.renderQ, e.canvas, e.ideal)
             /\ i # 1 => HeadWaits(e.renderQ)
             /\ ~(d.rects > 0) => AtRest(e)
             /\ e.renderQ # <<>>
  <1> DEFINE q == d.renderQ
             r == [q EXCEPT ![i].loaded = TRUE]
             e == [d EXCEPT !.renderQ = r]
  <1>1. /\ q \in Seq(Ops) /\ HeadWaits(q) /\ Ahead(q, d.canvas, d.ideal)
        /\ DrawingType(d) /\ Copied(d) /\ Viewer(d)
    BY DEF Sound, DrawingInv, DrawingType
  <1>2. /\ r \in Seq(Ops) /\ Len(r) = Len(q)
        /\ \A j \in 1 .. Len(q) : r[j].op = q[j].op
        /\ \A j \in 1 .. Len(q) : j # i => r[j] = q[j]
        /\ \A b : \A j \in 1 .. Len(q) : Painted(b, r[j]) = Painted(b, q[j])
    BY <1>1, LoadedQueue
  <1> HIDE DEF r
  <1>3. /\ Viewer(e) /\ e.renderQ = r /\ e.canvas = d.canvas /\ e.ideal = d.ideal
        /\ e.shown = d.shown /\ e.damage = d.damage /\ SameRest(d, e)
    BY <1>1 DEF Viewer, SameRest, SameConnection
  <1>4. i \in 1 .. Len(q) /\ Len(q) \in Nat /\ q # <<>> /\ r # <<>>
    BY <1>1, <1>2 DEF Waiting
  <1>5. Ahead(r, d.canvas, d.ideal)
    <2>1. PICK h : Course(h, q, d.canvas) /\ Follows(h[Len(q)], d.ideal)
      BY <1>1 DEF Ahead
    <2>2. Course(h, r, d.canvas)
      BY <1>2, <2>1 DEF Course
    <2> QED BY <1>2, <2>1, <2>2 DEF Ahead
  <1>6. ASSUME i # 1 PROVE HeadWaits(r)
    <2>1. 1 \in Waiting(q) /\ 1 \in 1 .. Len(q) /\ r[1] = q[1]
      BY <1>1, <1>2, <1>4, <1>6 DEF HeadWaits
    <2> QED BY <1>2, <2>1 DEF HeadWaits, Waiting
  <1>7. ASSUME ~(d.rects > 0) PROVE r[Len(r)].op = "flip"
    <2>1. q[Len(q)].op = "flip"
      BY <1>4, <1>7 DEF Rest, AtRest
    <2> QED BY <1>2, <1>4, <2>1
  <1>8. e = [d EXCEPT !.renderQ[i].loaded = TRUE]
    BY DEF r
  <1> HIDE DEF e, q
  <1>9. DrawingType(e) /\ Copied(e)
    BY <1>1, <1>2, <1>3 DEF DrawingType, Copied
  <1>10. ~(d.rects > 0) => AtRest(e)
    BY <1>3, <1>4, <1>7 DEF AtRest
  <1> QED BY <1>3, <1>4, <1>5, <1>6, <1>8, <1>9, <1>10

(* onload: the queue is drawn on, and the viewer goes on if it waited.     *)
LEMMA ImageLoadedCall ==
  ASSUME NEW d, Sound(d), Rest(d), NEW i \in Waiting(d.renderQ)
  PROVE  Call(d, ImageLoaded(d, i))
  <1> DEFINE u == [d EXCEPT !.renderQ[i].loaded = TRUE]
             e == ScanRenderQ(u)
             v == [e EXCEPT !.dflush = FALSE]
             w == [v EXCEPT !.flushing = FALSE]
  <1>0. i \in Nat /\ i >= 1
    BY DEF Waiting, Sound, DrawingInv, DrawingType
  <1>1. /\ Viewer(u) /\ DrawingType(u) /\ Copied(u) /\ SameRest(d, u)
        /\ Ahead(u.renderQ, u.canvas, u.ideal)
        /\ i # 1 => HeadWaits(u.renderQ)
        /\ ~(d.rects > 0) => AtRest(u)
        /\ u.renderQ # <<>>
    BY ImageMarked
  <1>2. ImageLoaded(d, i) =
          IF i > 1 THEN u ELSE IF e.renderQ = <<>> /\ e.dflush THEN HandleMessage(w) ELSE e
    <2>1. CASE i > 1
      BY <2>1 DEF ImageLoaded
    <2>2. CASE i = 1
      BY <2>2 DEF ImageLoaded, OnFlush
    <2> QED BY <1>0, <2>1, <2>2
  <1> HIDE DEF u
  <1>3. CASE i > 1
    <2>1. DrawingInv(u)
      BY <1>0, <1>1, <1>3 DEF DrawingInv
    <2>2. Sound(u) /\ Rest(u) /\ Ends(d, u)
      BY <1>1, <2>1 DEF Sound, SameRest, Flushes, RectSound, Rest, Ends
    <2> QED BY <1>2, <1>3, <2>2 DEF Call
  <1>4. CASE ~(i > 1)
    <2>1. Viewer(e) /\ DrawingInv(e) /\ SameRest(u, e) /\ (AtRest(u) => AtRest(e))
      BY <1>1, Scanned
    <2> HIDE DEF e
    <2>2. SameRest(d, e) /\ (~(d.rects > 0) => AtRest(e))
      BY <1>1, <2>1 DEF SameRest, SameConnection
    <2>3. CASE e.renderQ = <<>> /\ e.dflush
      <3>1. /\ Viewer(w) /\ w.renderQ = e.renderQ /\ w.damage = e.damage /\ w.canvas = e.canvas
            /\ w.shown = e.shown /\ w.ideal = e.ideal /\ w.rect = e.rect /\ w.wire = e.wire
            /\ w.rects = e.rects /\ SameConnection(e, w) /\ ~w.flushing /\ ~w.dflush
        BY <2>1 DEF Viewer, SameConnection
      <3> HIDE DEF w
      <3>2. Sound(w)
        BY <2>1, <2>2, <3>1
           DEF Sound, SameRest, DrawingInv, DrawingType, Copied, Flushes, RectSound
      <3>3. Rest(w)
        BY <2>2, <3>1 DEF Rest, AtRest, SameRest
      <3>4. Call(w, HandleMessage(w))
        BY <3>2, <3>3, HandleMessageCall
      <3>5. SameConnection(d, w)
        BY <2>2, <3>1 DEF SameRest, SameConnection
      <3>6. Call(d, HandleMessage(w))
        BY <3>4, <3>5 DEF Call, Ends, Connects, SameConnection
      <3> QED BY <1>2, <1>4, <2>3, <3>6
    <2>4. CASE ~(e.renderQ = <<>> /\ e.dflush)
      <3>1. Sound(e)
        BY <2>1, <2>2, <2>4 DEF Sound, SameRest, Flushes, RectSound
      <3>2. Rest(e) /\ Ends(d, e)
        BY <2>2 DEF SameRest, Rest, Ends
      <3> QED BY <1>2, <1>4, <2>4, <3>1, <3>2 DEF Call
    <2> QED BY <2>3, <2>4
  <1> QED BY <1>3, <1>4

(* The socket opens and closes, and the timer of a disconnect expires.     *)
LEMMA SocketCall ==
  ASSUME NEW d, Sound(d), Rest(d)
  PROVE  /\ Call(d, SocketOpen(d)) /\ Call(d, SocketClose(d))
         /\ Call(d, UpdateConnectionState(d, "disconnected"))
  <1>1. Reads(d, d) /\ Viewer(d)
    BY CallSelf DEF Sound
  <1>2. Call(d, SocketOpen(d))
    BY <1>1, FailReads, FieldReads, ReadsCall DEF SocketOpen
  <1> DEFINE e == UpdateConnectionState(d, "disconnected")
  <1>3. Reads(d, e)
    <2>1. /\ Viewer(e) /\ SameDrawing(d, e) /\ e.wire = d.wire /\ e.connects = d.connects
          /\ \/ /\ d.conn = "disconnecting" /\ e.conn = "disconnected"
                /\ e.disconnects = d.disconnects + 1
             \/ /\ d.conn # "disconnecting" /\ e.conn = d.conn
                /\ e.disconnects = d.disconnects
      BY <1>1, Disconnected
    <2> HIDE DEF e
    <2> QED BY <2>1 DEF Reads, Ends, SameConnection, Sound
  <1>4. Call(d, SocketClose(d))
    <2> DEFINE x == IF d.conn \in {"connecting", "connected"} THEN Leave(d) ELSE e
    <2>1. Reads(d, x)
      BY <1>1, <1>3, FailReads
    <2>2. SocketClose(d) = [x EXCEPT !.onClose = FALSE]
      BY DEF SocketClose
    <2> HIDE DEF x
    <2>3. Reads(d, [x EXCEPT !.onClose = FALSE])
      BY <2>1 DEF Viewer, Reads, SameDrawing, Ends, SameConnection
    <2> QED BY <2>2, <2>3, ReadsCall
  <1> QED BY <1>2, <1>3, <1>4, ReadsCall

(* The page disconnects: the connection is left, or as it was. *)
LEMMA UserDisconnectKeeps ==
  ASSUME NEW d, Sound(d), Rest(d)
  PROVE  LET e == UserDisconnect(d)
         IN  /\ Sound(e) /\ Rest(e) /\ e.connects = d.connects /\ e.disconnects = d.disconnects
             /\ \/ e.conn = d.conn
                \/ d.conn \in {"connecting", "connected"} /\ e.conn = "disconnecting"
  <1> DEFINE u == UpdateConnectionState(d, "disconnecting")
             e == UserDisconnect(d)
  <1>1. /\ Viewer(u) /\ SameDrawing(d, u) /\ u.wire = d.wire
        /\ u.connects = d.connects /\ u.disconnects = d.disconnects
        /\ u.conn = IF d.conn \in {"connecting", "connected"} THEN "disconnecting" ELSE d.conn
    BY Disconnecting DEF Sound
  <1>2. e = [u EXCEPT !.onMessage = FALSE, !.onOpen = FALSE]
    BY DEF UserDisconnect
  <1> HIDE DEF u
  <1>3. /\ Viewer(e) /\ SameDrawing(d, e) /\ e.wire = d.wire /\ e.connects = d.connects
        /\ e.disconnects = d.disconnects /\ e.conn = u.conn
    BY <1>1, <1>2 DEF Viewer, SameDrawing
  <1> HIDE DEF e
  <1>4. Sound(e) /\ Rest(e)
    BY <1>3 DEF Sound, SameDrawing, DrawingInv, DrawingType, Copied, Flushes, RectSound,
                    Rest, AtRest
  <1> QED BY <1>1, <1>3, <1>4 DEF e

-----------------------------------------------------------------------------
(* The viewer and the server                                               *)

(* The inductive invariant: of the viewer, of the server, of both          *)
ViewerInv(d) == Sound(d) /\ Rest(d)

(* The repertoire of a server is known when its turn comes to use it. *)
ServerInv(t) ==
    /\ "phase" \in DOMAIN t /\ "version" \in DOMAIN t /\ "tight" \in DOMAIN t
    /\ "repertoire" \in DOMAIN t /\ "owed" \in DOMAIN t /\ "open" \in DOMAIN t
    /\ "continuous" \in DOMAIN t /\ "fenced" \in DOMAIN t
    /\ t.phase = "normal" => t.repertoire \in DOMAIN Repertoires

DrawInv == ViewerInv(c) /\ ServerInv(s)

(* A new viewer shows the blank screen that it has.                        *)
LEMMA NewViewerInv == \A creds, answer : ViewerInv(NewViewer(creds, answer))
  <1> TAKE creds, answer
  <1> DEFINE v == NewViewer(creds, answer)
             blank == [x \in Cells |-> Blank]
  <1>1. /\ Viewer(v) /\ v.renderQ = <<>> /\ v.damage = {} /\ v.canvas = blank /\ v.shown = blank
        /\ v.ideal = blank /\ v.wire = <<>> /\ v.rect = NoRect /\ v.dflush = FALSE
        /\ v.flushing = FALSE
    BY DEF NewViewer, Viewer
  <1>2. blank \in Boards
    BY DEF Boards, Colours
  <1>3. Follows(blank, blank)
    BY DEF Follows
  <1>4. WireSound(<<>>)
    <2> DEFINE S == {}
    <2>1. <<>> \in Seq(S) /\ \A p \in S : p.type = "rect" => Drawable(p)
      OBVIOUS
    <2> HIDE DEF S
    <2>2. \E T : <<>> \in Seq(T) /\ \A p \in T : p.type = "rect" => Drawable(p)
      BY <2>1
    <2> QED BY <2>2 DEF WireSound
  <1>5. <<>> \in Seq(Ops)
    OBVIOUS
  <1> HIDE DEF v, blank
  <1>6. DrawingInv(v)
    BY <1>1, <1>2, <1>3, <1>5, AheadAtRest DEF DrawingInv, DrawingType, Copied, HeadWaits
  <1> QED BY <1>1, <1>4, <1>6 DEF ViewerInv, Sound, Flushes, RectSound, Rest, AtRest, v

(* So it is in the beginning.                                              *)
LEMMA InitInv == Init => DrawInv
  <1> SUFFICES ASSUME Init PROVE DrawInv
    OBVIOUS
  <1>1. ServerInv(s)
    BY DEF Init, NewServer, ServerInv
  <1> QED BY <1>1, NewViewerInv DEF Init, DrawInv

(* What is forgotten was not needed. *)
LEMMA RemainsInv ==
  ASSUME NEW d
  PROVE  ViewerInv(Remains(d)) /\ SameConnection(d, Remains(d))
  <1> DEFINE v == NewViewer({}, {})
             e == Remains(d)
  <1>1. Sound(v) /\ Rest(v) /\ Viewer(v)
    BY NewViewerInv DEF ViewerInv, Sound
  <1>2. e = [v EXCEPT
                !.conn = d.conn, !.timer = d.timer, !.sock = d.sock, !.hearing = d.hearing,
                !.onOpen = d.onOpen, !.onMessage = d.onMessage, !.onClose = d.onClose,
                !.attached = d.attached, !.grabbed = d.grabbed, !.init = d.init,
                !.connects = d.connects, !.disconnects = d.disconnects]
    BY DEF Remains
  <1> HIDE DEF v
  <1> DEFINE u == [v EXCEPT
                     !.conn = d.conn, !.timer = d.timer, !.sock = d.sock, !.hearing = d.hearing,
                     !.onOpen = d.onOpen, !.onMessage = d.onMessage]
  <1>3. e = [u EXCEPT
               !.onClose = d.onClose, !.attached = d.attached, !.grabbed = d.grabbed,
               !.init = d.init, !.connects = d.connects, !.disconnects = d.disconnects]
    BY <1>2
  <1>4. Viewer(u) /\ SameDrawing(v, u) /\ u.wire = v.wire /\ u.conn = d.conn
    BY <1>1 DEF Viewer, SameDrawing
  <1> HIDE DEF u, e
  <1>5. Viewer(e) /\ SameDrawing(u, e) /\ e.wire = u.wire /\ SameConnection(d, e)
    BY <1>3, <1>4 DEF Viewer, SameDrawing, SameConnection
  <1>6. ViewerInv(e)
    BY <1>1, <1>4, <1>5 DEF ViewerInv, Sound, SameDrawing, DrawingInv, DrawingType, Copied,
                            Flushes, RectSound, Rest, AtRest
  <1> QED BY <1>5, <1>6 DEF e

(* What a connected viewer forgets was not needed either.                  *)
LEMMA BecomesInv ==
  ASSUME DrawInv, NEW d, ViewerInv(d), Becomes(d)
  PROVE  DrawInv' /\ SameConnection(d, c')
  <1>1. ServerInv(s)
    BY DEF DrawInv
  <1>2. CASE d.conn = "connected"
    <2>1. c' = Connected(d) /\ s' = [s EXCEPT !.version = 0, !.tight = FALSE]
      BY <1>2 DEF Becomes, Left
    <2>2. /\ Viewer(c') /\ SameDrawing(d, c') /\ SameConnection(d, c') /\ c'.wire = d.wire
      BY <2>1 DEF Connected, ViewerInv, Sound, Viewer, SameDrawing, SameConnection
    <2>3. ViewerInv(c')
      BY <2>2 DEF ViewerInv, Sound, SameDrawing, DrawingInv, DrawingType, Copied, Flushes,
                  RectSound, Rest, AtRest
    <2>4. ServerInv(s')
      BY <1>1, <2>1 DEF ServerInv
    <2> QED BY <2>2, <2>3, <2>4 DEF DrawInv
  <1>3. CASE d.conn # "connected" /\ Left(d)
    <2>1. c' = Remains(d) /\ s' = NewServer
      BY <1>3 DEF Becomes, Left
    <2>2. ServerInv(s')
      BY <2>1 DEF NewServer, ServerInv
    <2> QED BY <2>1, <2>2, RemainsInv DEF DrawInv
  <1>4. CASE d.conn # "connected" /\ ~Left(d)
    <2>1. c' = d /\ s' = s
      BY <1>4 DEF Becomes, Left
    <2> QED BY <1>1, <2>1 DEF DrawInv, SameConnection
  <1> QED BY <1>2, <1>3, <1>4

(* What a server says can be drawn, and it keeps its invariant.            *)
TurnSound(turn) == WireSound(turn.parts) /\ ServerInv(turn.next)

(* What is sound after what is sound is sound.                             *)
LEMMA WireJoined ==
  ASSUME NEW v, NEW w, WireSound(v), WireSound(w)
  PROVE  WireSound(v \o w)
  <1>1. PICK S : v \in Seq(S) /\ \A p \in S : p.type = "rect" => Drawable(p)
    BY DEF WireSound
  <1>2. PICK T : w \in Seq(T) /\ \A p \in T : p.type = "rect" => Drawable(p)
    BY DEF WireSound
  <1>3. v \in Seq(S \cup T) /\ w \in Seq(S \cup T)
    BY <1>1, <1>2
  <1>4. v \o w \in Seq(S \cup T) /\ \A p \in S \cup T : p.type = "rect" => Drawable(p)
    BY <1>1, <1>2, <1>3
  <1> QED BY <1>4 DEF WireSound

(* Nothing to say is sound.                                                *)
LEMMA NothingSound == WireSound(<<>>)
  <1> DEFINE S == {}
  <1>1. <<>> \in Seq(S) /\ \A p \in S : p.type = "rect" => Drawable(p)
    OBVIOUS
  <1> HIDE DEF S
  <1> QED BY <1>1 DEF WireSound

(* A part that is no rectangle, or one that can be drawn, is sound.        *)
LEMMA PartSound ==
  ASSUME NEW a, a.type = "rect" => Drawable(a)
  PROVE  WireSound(<<a>>)
  <1> DEFINE S == {a}
  <1>1. <<a>> \in Seq(S) /\ \A p \in S : p.type = "rect" => Drawable(p)
    OBVIOUS
  <1> HIDE DEF S
  <1> QED BY <1>1 DEF WireSound

(* Parts that are no rectangles are sound.                                 *)
LEMMA PartsSound ==
  ASSUME NEW a, NEW b, NEW e, a.type # "rect", b.type # "rect", e.type # "rect"
  PROVE  WireSound(<<a, b>>) /\ WireSound(<<a, b, e>>)
  <1> DEFINE S == {a, b, e}
  <1>1. <<a, b>> \in Seq(S) /\ <<a, b, e>> \in Seq(S) /\ \A p \in S : p.type = "rect" => Drawable(p)
    OBVIOUS
  <1> HIDE DEF S
  <1> QED BY <1>1 DEF WireSound

(* A turn of the handshake needs no repertoire.                            *)
LEMMA TurnIs ==
  ASSUME NEW t, ServerInv(t), NEW phase, phase # "normal", NEW parts, WireSound(parts)
  PROVE  TurnSound(Turn(t, phase, parts))
  BY DEF Turn, TurnSound, ServerInv

(* What a server says in the handshake is sound.                           *)
LEMMA HandshakeTurns ==
  ASSUME NEW t, ServerInv(t)
  PROVE  /\ \A turn \in Announce(t) : TurnSound(turn)
         /\ \A turn \in Decide(t) : TurnSound(turn)
         /\ \A turn \in OfferTypes(t) : TurnSound(turn)
         /\ \A turn \in OfferTight(t) : TurnSound(turn)
         /\ \A turn \in OfferSubAuths(t) : TurnSound(turn)
         /\ \A turn \in OfferSubtypes(t) : TurnSound(turn)
         /\ \A turn \in Judge(t) : TurnSound(turn)
         /\ \A turn \in Initialise(t) : TurnSound(turn)
  <1>0. Reason.type = "reason" /\ Challenge.type = "challenge"
    BY DEF Reason, Challenge
  <1>1. ASSUME NEW turn \in Announce(t) PROVE TurnSound(turn)
    <2>1. PICK v \in Versions :
             turn = [parts |-> <<[type |-> "version", version |-> v, len |-> 12]>>,
                     next |-> [t EXCEPT !.phase = IF v = Repeater THEN "id" ELSE "version",
                                        !.version = v]]
      BY <1>1 DEF Announce
    <2>2. ServerInv(turn.next)
      BY <2>1 DEF ServerInv
    <2>3. WireSound(turn.parts)
      BY <2>1, PartSound
    <2> QED BY <2>2, <2>3 DEF TurnSound
  <1>2. ASSUME NEW turn \in Decide(t) PROVE TurnSound(turn)
    <2> DEFINE scheme(n) == [type |-> "scheme", scheme |-> n, len |-> 4]
    <2>1. \A n : scheme(n).type = "scheme"
      OBVIOUS
    <2>2. Decide(t) =
            {Turn(t, "init", <<scheme(1)>>), Turn(t, "response", <<scheme(2), Challenge>>),
             Turn(t, "end", <<scheme(0), Reason>>), Turn(t, "end", <<scheme(7)>>)}
      BY DEF Decide
    <2> HIDE DEF scheme
    <2>3. /\ WireSound(<<scheme(1)>>) /\ WireSound(<<scheme(2), Challenge>>)
          /\ WireSound(<<scheme(0), Reason>>) /\ WireSound(<<scheme(7)>>)
      BY <1>0, <2>1, PartSound, PartsSound
    <2> QED BY <1>2, <2>2, <2>3, TurnIs
  <1>3. ASSUME NEW turn \in OfferTypes(t) PROVE TurnSound(turn)
    <2> DEFINE part(T) == [type |-> "types", types |-> T, n |-> Cardinality(T),
                           len |-> 1 + Cardinality(T)]
               parts(T) == <<part(T)>> \o (IF T = {} THEN <<Reason>> ELSE <<>>)
    <2>1. PICK T \in TypeLists : turn = Turn(t, IF T = {} THEN "end" ELSE "choice", parts(T))
      BY <1>3 DEF OfferTypes
    <2>2. part(T).type = "types"
      OBVIOUS
    <2> HIDE DEF part
    <2>3. WireSound(<<part(T)>>) /\ WireSound(IF T = {} THEN <<Reason>> ELSE <<>>)
      BY <1>0, <2>2, PartSound, NothingSound
    <2>4. WireSound(parts(T))
      BY <2>3, WireJoined
    <2> HIDE DEF parts
    <2> QED BY <2>1, <2>4, TurnIs
  <1>4. ASSUME NEW turn \in OfferTight(t) PROVE TurnSound(turn)
    <2> DEFINE tunnels(n, ok) == [type |-> "tunnels", n |-> n, notunnel |-> ok, len |-> 4 + 16 * n]
    <2>1. \A n, ok : tunnels(n, ok).type = "tunnels"
      OBVIOUS
    <2>2. OfferTight(t) = {Turn(t, "subauths", <<tunnels(0, TRUE)>>),
                           Turn(t, "notunnel", <<tunnels(1, TRUE)>>),
                           Turn(t, "end", <<tunnels(1, FALSE)>>)}
      BY DEF OfferTight
    <2> HIDE DEF tunnels
    <2>3. \A n, ok : WireSound(<<tunnels(n, ok)>>)
      BY <2>1, PartSound
    <2> QED BY <1>4, <2>2, <2>3, TurnIs
  <1>5. ASSUME NEW turn \in OfferSubAuths(t) PROVE TurnSound(turn)
    <2> DEFINE part(T) == [type |-> "subauths", types |-> T, n |-> Cardinality(T),
                           len |-> 4 + 16 * Cardinality(T)]
    <2>1. PICK T \in SubAuths : turn = Turn(t, IF T = {} THEN "result" ELSE "subauth", <<part(T)>>)
      BY <1>5 DEF OfferSubAuths
    <2>2. part(T).type = "subauths"
      OBVIOUS
    <2> HIDE DEF part
    <2> QED BY <2>1, <2>2, PartSound, TurnIs
  <1>6. ASSUME NEW turn \in OfferSubtypes(t) PROVE TurnSound(turn)
    <2> DEFINE ack(ok) == [type |-> "veAck", ok |-> ok, len |-> 1]
               count == [type |-> "veCount", n |-> 1, len |-> 1]
               types(ok) == [type |-> "veTypes", plain |-> ok, len |-> 4]
    <2>1. \A ok : ack(ok).type = "veAck" /\ count.type = "veCount" /\ types(ok).type = "veTypes"
      OBVIOUS
    <2>2. OfferSubtypes(t) =
            {Turn(t, IF ok THEN "plain" ELSE "end", <<ack(TRUE), count, types(ok)>>) :
                ok \in BOOLEAN}
            \cup {Turn(t, "end", <<ack(FALSE)>>)}
      BY DEF OfferSubtypes
    <2> HIDE DEF ack, count, types
    <2>3. WireSound(<<ack(FALSE)>>)
      BY <2>1, PartSound
    <2>4. \A ok \in BOOLEAN : WireSound(<<ack(TRUE), count, types(ok)>>)
      BY <2>1, PartsSound
    <2> QED BY <1>6, <2>2, <2>3, <2>4, TurnIs, SMTT(20), ZenonT(40)
  <1>7. ASSUME NEW turn \in Judge(t) PROVE TurnSound(turn)
    <2> DEFINE result(ok) == [type |-> "result", ok |-> ok, len |-> 4]
               rest == IF t.version >= 38 THEN <<Reason>> ELSE <<>>
    <2>1. \A ok : result(ok).type = "result"
      OBVIOUS
    <2>2. Judge(t) = {Turn(t, "init", <<result(TRUE)>>), Turn(t, "end", <<result(FALSE)>> \o rest)}
      BY DEF Judge
    <2> HIDE DEF result
    <2>3. WireSound(<<result(TRUE)>>) /\ WireSound(<<result(FALSE)>>) /\ WireSound(rest)
      BY <1>0, <2>1, PartSound, NothingSound
    <2> HIDE DEF rest
    <2> QED BY <1>7, <2>2, <2>3, WireJoined, TurnIs
  <1>8. ASSUME NEW turn \in Initialise(t) PROVE TurnSound(turn)
    <2> DEFINE part == [type |-> "serverInit", n |-> NameLength, size |-> 1, caps |-> TightCaps,
                        len |-> 24 + NameLength + (IF t.tight THEN 8 + 16 * TightCaps ELSE 0)]
    <2>1. PICK k \in DOMAIN Repertoires :
             turn = Turn([t EXCEPT !.repertoire = k], "normal", <<part>>)
      BY <1>8 DEF Initialise
    <2>2. part.type = "serverInit"
      OBVIOUS
    <2> HIDE DEF part
    <2>3. WireSound(<<part>>)
      BY <2>2, PartSound
    <2>4. /\ turn.parts = <<part>>
          /\ turn.next = [[t EXCEPT !.repertoire = k] EXCEPT !.phase = "normal"]
      BY <2>1 DEF Turn
    <2>5. ServerInv(turn.next)
      BY <2>4 DEF ServerInv
    <2> QED BY <2>3, <2>4, <2>5 DEF TurnSound
  <1> QED BY <1>1, <1>2, <1>3, <1>4, <1>5, <1>6, <1>7, <1>8

(* So is what it says of its own accord.                                   *)
LEMMA UnaskedSound ==
  ASSUME NEW t, ServerInv(t)
  PROVE  \A turn \in Unasked(t) : TurnSound(turn)
  <1>1. Unasked(t) \in {Announce(t), OfferSubAuths(t), Judge(t), {}}
    BY DEF Unasked
  <1> QED BY <1>1, HandshakeTurns

(* So is what it answers.                                                  *)
LEMMA AnswerSound ==
  ASSUME NEW t, ServerInv(t), NEW m
  PROVE  \A turn \in Answer(t, m) : TurnSound(turn)
  <1> DEFINE tight == [t EXCEPT !.tight = TRUE]
             veVersion(ok) == [type |-> "veVersion", ok |-> ok, len |-> 2]
             in(phase, x) == t.phase = phase /\ m = x
             a == Turn(t, "response", <<Challenge>>)
             b == Turn(t, "target", <<>>)
             e == Turn(t, "login", <<>>)
             f == Turn(t, "init", <<>>)
             v == {Turn(t, "vencrypt", <<veVersion(TRUE)>>), Turn(t, "end", <<veVersion(FALSE)>>)}
             g == [parts |-> <<>>, next |-> [t EXCEPT !.fenced = FALSE]]
             x == IF t.version >= 37 THEN OfferTypes(t) ELSE Decide(t)
             y == IF t.version >= 38 THEN Judge(t) ELSE {f}
  <1>1. Answer(t, m) =
          CASE in("id", <<"id">>) -> Announce(t)
            [] in("version", <<"version">>) -> x
            [] in("choice", <<"choice", 1>>) -> y
            [] in("choice", <<"choice", 2>>) -> {a}
            [] in("choice", <<"choice", 16>>) -> OfferTight(tight)
            [] in("choice", <<"choice", 19>>) -> v
            [] in("choice", <<"choice", 22>>) -> {b}
            [] in("target", <<"target">>) -> {a}
            [] in("notunnel", <<"notunnel">>) -> OfferSubAuths(t)
            [] in("subauth", <<"subauth", 1>>) -> Judge(t)
            [] in("subauth", <<"subauth", 2>>) -> {a}
            [] in("subauth", <<"subauth", 129>>) -> {e}
            [] in("vencrypt", <<"vencrypt">>) -> OfferSubtypes(t)
            [] in("plain", <<"plain">>) -> {e}
            [] in("login", <<"login">>) -> Judge(t)
            [] in("response", <<"response">>) -> Judge(t)
            [] in("normal", <<"fence">>) -> {g}
            [] in("init", <<"init">>) -> Initialise(t)
            [] OTHER -> {}
    BY DEF Answer
  <1>2. /\ ServerInv(tight)
        /\ veVersion(TRUE).type = "veVersion" /\ veVersion(FALSE).type = "veVersion"
    BY DEF ServerInv
  <1>3. TurnSound(g)
    BY NothingSound DEF TurnSound, ServerInv
  <1> HIDE DEF tight, veVersion, g
  <1>4. /\ WireSound(<<Challenge>>)
        /\ WireSound(<<veVersion(TRUE)>>) /\ WireSound(<<veVersion(FALSE)>>)
    <2>1. Challenge.type = "challenge"
      BY DEF Challenge
    <2> QED BY <1>2, <2>1, PartSound
  <1>5. /\ TurnSound(a) /\ TurnSound(b) /\ TurnSound(e) /\ TurnSound(f)
        /\ \A turn \in v : TurnSound(turn)
    BY <1>4, NothingSound, TurnIs
  <1> HIDE DEF a, b, e, f, v
  <1>6. \A turn \in OfferTight(tight) : TurnSound(turn)
    BY <1>2, HandshakeTurns
  <1>7. \A turn \in x \cup y : TurnSound(turn)
    BY <1>5, HandshakeTurns
  <1> HIDE DEF in, x, y
  <1>8. Answer(t, m) \in
          {Announce(t), x, y, {a}, OfferTight(tight), v, {b}, OfferSubAuths(t), Judge(t), {e},
           OfferSubtypes(t), {g}, Initialise(t), {}}
    BY <1>1 DEF in
  <1> QED BY <1>3, <1>5, <1>6, <1>7, <1>8, HandshakeTurns

(* A server draws what can be drawn.                                       *)
LEMMA SaysSound ==
  ASSUME NEW t, ServerInv(t), NEW asked
  PROVE  \A turn \in Says(t, asked) : TurnSound(turn)
  <1> USE DEF TurnSound
  <1>0. ASSUME t.phase = "normal" PROVE t.repertoire \in DOMAIN Repertoires
    BY <1>0 DEF ServerInv
  <1>1. ASSUME t.phase = "normal", NEW turn \in Continuation(t) PROVE TurnSound(turn)
    <2> DEFINE i == t.repertoire
    <2>1. PICK r \in {LastRect} \cup Repertoires[i].rectangles :
             turn = [parts |-> <<r>>, next |-> [t EXCEPT !.owed = @ - 1]]
      BY <1>1 DEF Continuation
    <2>2. Drawable(r)
      <3>1. CASE r = LastRect
        BY <3>1 DEF LastRect, Drawable, Drawing
      <3>2. CASE r \in Repertoires[i].rectangles
        <4>1. i \in DOMAIN Repertoires
          BY <1>0, <1>1
        <4>2. r.colour \in Colours
          BY <3>2, <4>1 DEF Colours
        <4>3. r.encoding \in Drawing =>
                  r.cell \in Cells /\ (r.encoding = "copyRect" => r.from \in Cells)
          BY <3>2, <4>1, ScreenAssumption
        <4> QED BY <4>2, <4>3 DEF Drawable
      <3> QED BY <2>1, <3>1, <3>2
    <2>3. WireSound(turn.parts)
      BY <2>1, <2>2, PartSound
    <2>4. ServerInv(turn.next)
      BY <2>1 DEF ServerInv
    <2> QED BY <2>3, <2>4
  <1>2. ASSUME t.phase = "normal", NEW turn \in Others(t) PROVE TurnSound(turn)
    <2> DEFINE i == t.repertoire
    <2>1. PICK m \in Repertoires[i].messages :
             turn = [parts |-> <<m>>,
                     next |-> [t EXCEPT !.continuous = @ \/ m.type = "endOfContinuousUpdates",
                                        !.fenced = @ \/ (m.type = "fence" /\ m.request)]]
      BY <1>2 DEF Others
    <2>2. m.type # "rect"
      BY <1>0, <1>2, ScreenAssumption
    <2>3. WireSound(turn.parts)
      BY <2>1, <2>2, PartSound
    <2>4. ServerInv(turn.next)
      BY <2>1 DEF ServerInv
    <2> QED BY <2>3, <2>4
  <1>3. ASSUME t.phase = "normal", NEW turn \in Updates(t) PROVE TurnSound(turn)
    <2>1. PICK n, open : turn = Update(t, n, open)
      BY <1>3 DEF Updates
    <2> DEFINE part == [type |-> "update", n |-> IF open THEN OpenCount ELSE n, len |-> 4]
    <2>2. turn = [parts |-> <<part>>, next |-> [t EXCEPT !.owed = n, !.open = open]]
      BY <2>1 DEF Update
    <2>3. part.type = "update"
      OBVIOUS
    <2> HIDE DEF part
    <2>4. WireSound(turn.parts)
      BY <2>2, <2>3, PartSound
    <2>5. ServerInv(turn.next)
      BY <2>2 DEF ServerInv
    <2> QED BY <2>4, <2>5
  <1>4. CASE t.phase # "normal"
    BY <1>4 DEF Says
  <1>5. CASE t.phase = "normal"
    <2>1. Says(t, asked) \subseteq Continuation(t) \cup Others(t) \cup Updates(t)
      BY <1>5 DEF Says
    <2> QED BY <1>1, <1>2, <1>3, <1>5, <2>1
  <1> QED BY <1>4, <1>5

-----------------------------------------------------------------------------
(* The steps                                                               *)

(* A step of the connection that the page is promised, or of none          *)
ConnectionStep == [Connection!Next]_(Connection!vars)

(* A server that speaks changes nothing but the wire.                      *)
LEMMA ServerSpeaksKeeps ==
  ASSUME DrawInv, ServerSpeaks
  PROVE  DrawInv' /\ SameConnection(c, c')
  <1>1. ServerInv(s) /\ Sound(c) /\ Rest(c)
    BY DEF DrawInv, ViewerInv
  <1>2. PICK turn \in Turns :
          /\ s' = turn.next
          /\ c' = [c EXCEPT
                     !.wire = @ \o turn.parts,
                     !.out = IF turn \in Unasked(s) \cup Says(s, c.asked) THEN @ ELSE Tail(@),
                     !.asked = @ /\ (turn.parts = <<>> \/ turn.parts[1].type # "update")]
    BY DEF ServerSpeaks
  <1>3. TurnSound(turn)
    BY <1>1, <1>2, UnaskedSound, SaysSound, AnswerSound DEF Turns
  <1>4. ServerInv(s')
    BY <1>2, <1>3 DEF TurnSound
  <1>5. WireSound(c.wire \o turn.parts)
    BY <1>1, <1>3, WireJoined DEF TurnSound, Sound
  <1>6. /\ Viewer(c') /\ SameDrawing(c, c') /\ SameConnection(c, c')
        /\ c'.wire = c.wire \o turn.parts
    BY <1>1, <1>2 DEF Sound, Viewer, SameDrawing, SameConnection
  <1>7. ViewerInv(c')
    BY <1>1, <1>5, <1>6 DEF ViewerInv, Sound, SameDrawing, DrawingInv, DrawingType, Copied, Flushes,
                            RectSound, Rest, AtRest
  <1> QED BY <1>4, <1>6, <1>7 DEF DrawInv

(* A handler that is called on c, or on c with another of the fields that  *)
(* belong to the browser.                                                  *)
LEMMA CallStep ==
  ASSUME DrawInv, NEW d, SameConnection(c, d), NEW e, Call(d, e), Becomes(e)
  PROVE  DrawInv' /\ ConnectionStep
  <1>1. ViewerInv(e) /\ (Ends(d, e) \/ Connects(d, e))
    BY DEF Call, ViewerInv
  <1>2. DrawInv' /\ SameConnection(e, c')
    BY <1>1, BecomesInv
  <1>3. Ends(c, c') \/ Connects(c, c')
    BY <1>1, <1>2 DEF Ends, Connects, SameConnection
  <1>4. ConnectionStep
    BY <1>3 DEF ConnectionStep, Ends, Connects, SameConnection, Connection!Next, Connection!vars,
                Connection!Connect, Connection!Finish
  <1> QED BY <1>2, <1>4

(* The socket, what has arrived and who asks are not the picture.          *)
LEMMA BrowserFields ==
  ASSUME NEW d, ViewerInv(d), NEW x
  PROVE  LET a == [d EXCEPT !.sock = x]
             b == [d EXCEPT !.avail = x]
             e == [d EXCEPT !.askings = x]
         IN  /\ Sound(a) /\ Rest(a) /\ SameConnection(d, a)
             /\ Sound(b) /\ Rest(b) /\ SameConnection(d, b)
             /\ Sound(e) /\ Rest(e) /\ SameConnection(d, e)
  <1>1. Viewer(d) /\ Sound(d) /\ Rest(d)
    BY DEF ViewerInv, Sound
  <1> DEFINE a == [d EXCEPT !.sock = x]
             b == [d EXCEPT !.avail = x]
             e == [d EXCEPT !.askings = x]
  <1>2. Viewer(a) /\ SameDrawing(d, a) /\ SameConnection(d, a) /\ a.wire = d.wire
    BY <1>1 DEF Viewer, SameDrawing, SameConnection
  <1>3. Viewer(b) /\ SameDrawing(d, b) /\ SameConnection(d, b) /\ b.wire = d.wire
    BY <1>1 DEF Viewer, SameDrawing, SameConnection
  <1>4. Viewer(e) /\ SameDrawing(d, e) /\ SameConnection(d, e) /\ e.wire = d.wire
    BY <1>1 DEF Viewer, SameDrawing, SameConnection
  <1>5. \A f : Viewer(f) /\ SameDrawing(d, f) /\ f.wire = d.wire => Sound(f) /\ Rest(f)
    BY <1>1 DEF Sound, SameDrawing, DrawingInv, DrawingType, Copied, Flushes, RectSound,
                    Rest, AtRest
  <1> HIDE DEF a, b, e
  <1>6. /\ Sound(a) /\ Rest(a) /\ SameConnection(d, a)
        /\ Sound(b) /\ Rest(b) /\ SameConnection(d, b)
        /\ Sound(e) /\ Rest(e) /\ SameConnection(d, e)
    BY <1>2, <1>3, <1>4, <1>5
  <1> QED BY <1>6 DEF a, b, e

(* Each step keeps the invariant and is a step of the connection, or none. *)
LEMMA StepKeeps ==
  ASSUME DrawInv, [Next]_vars
  PROVE  DrawInv' /\ ConnectionStep
  <1>1. ViewerInv(c) /\ Sound(c) /\ Rest(c) /\ SameConnection(c, c)
    BY DEF DrawInv, ViewerInv, SameConnection
  <1>2. CASE Open
    <2> DEFINE d == [c EXCEPT !.sock = "open"]
    <2>1. Sound(d) /\ Rest(d) /\ SameConnection(c, d)
      BY <1>1, BrowserFields
    <2>2. Becomes(IF c.onOpen THEN SocketOpen(d) ELSE d)
      BY <1>2 DEF Open
    <2> HIDE DEF d
    <2>3. Call(d, IF c.onOpen THEN SocketOpen(d) ELSE d)
      BY <2>1, SocketCall, CallSelf
    <2> QED BY <2>1, <2>2, <2>3, CallStep
  <1>3. CASE ServerSpeaks
    <2>1. DrawInv' /\ SameConnection(c, c')
      BY <1>3, ServerSpeaksKeeps
    <2> QED BY <2>1 DEF ConnectionStep, Connection!vars, SameConnection
  <1>4. ASSUME NEW n, Receive(n) PROVE DrawInv' /\ ConnectionStep
    <2> DEFINE d == [c EXCEPT !.avail = @ + n]
    <2>1. Sound(d) /\ Rest(d) /\ SameConnection(c, d)
      BY <1>1, BrowserFields
    <2>2. Becomes(IF c.onMessage THEN HandleMessage(d) ELSE d)
      BY <1>4 DEF Receive
    <2> HIDE DEF d
    <2>3. Call(d, IF c.onMessage THEN HandleMessage(d) ELSE d)
      BY <2>1, HandleMessageCall, CallSelf
    <2> QED BY <2>1, <2>2, <2>3, CallStep
  <1>5. CASE Close
    <2> DEFINE d == [c EXCEPT !.sock = "closed"]
    <2>1. Sound(d) /\ Rest(d) /\ SameConnection(c, d)
      BY <1>1, BrowserFields
    <2>2. Becomes(IF c.onClose THEN SocketClose(d) ELSE d)
      BY <1>5 DEF Close
    <2> HIDE DEF d
    <2>3. Call(d, IF c.onClose THEN SocketClose(d) ELSE d)
      BY <2>1, SocketCall, CallSelf
    <2> QED BY <2>1, <2>2, <2>3, CallStep
  <1>6. CASE DisconnectTimeout
    <2>1. Call(c, UpdateConnectionState(c, "disconnected"))
      BY <1>1, SocketCall
    <2> QED BY <1>1, <1>6, <2>1, CallStep DEF DisconnectTimeout
  <1>7. CASE ResumeHandshake
    <2> DEFINE d == [c EXCEPT !.askings = @ - 1]
    <2>1. Sound(d) /\ Rest(d) /\ SameConnection(c, d)
      BY <1>1, BrowserFields
    <2>2. Becomes(InitMsg(d))
      BY <1>7 DEF ResumeHandshake
    <2> HIDE DEF d
    <2>3. Call(d, InitMsg(d))
      BY <2>1, InitMsgCall
    <2> QED BY <2>1, <2>2, <2>3, CallStep
  <1>8. CASE ImageLoads
    <2>1. PICK i \in Waiting(c.renderQ) : Becomes(ImageLoaded(c, i))
      BY <1>8 DEF ImageLoads
    <2>2. Call(c, ImageLoaded(c, i))
      BY <1>1, ImageLoadedCall
    <2> QED BY <1>1, <2>1, <2>2, CallStep
  <1>9. CASE PageDisconnects
    <2> DEFINE e == UserDisconnect(c)
    <2>1. /\ Sound(e) /\ Rest(e) /\ e.connects = c.connects /\ e.disconnects = c.disconnects
          /\ \/ e.conn = c.conn
             \/ c.conn \in {"connecting", "connected"} /\ e.conn = "disconnecting"
      BY <1>1, UserDisconnectKeeps
    <2>2. Becomes(e)
      BY <1>9 DEF PageDisconnects
    <2> HIDE DEF e
    <2>3. DrawInv' /\ SameConnection(e, c')
      BY <2>1, <2>2, BecomesInv DEF ViewerInv
    <2>4. ConnectionStep
      BY <2>1, <2>3 DEF ConnectionStep, SameConnection, Connection!Next, Connection!vars,
                        Connection!Leave
    <2> QED BY <2>3, <2>4
  <1>10. CASE UNCHANGED vars
    BY <1>10 DEF vars, DrawInv, ViewerInv, ServerInv, ConnectionStep, Connection!vars
  <1> QED BY <1>2, <1>3, <1>4, <1>5, <1>6, <1>7, <1>8, <1>9, <1>10 DEF Next

(* The invariant says what is promised.                                    *)
LEMMA DrawSettles == ASSUME DrawInv PROVE Settles /\ NobodyWaitsInVain
  <1>1. DrawingInv(c) /\ Flushes(c) /\ Rest(c) /\ c.canvas \in Boards /\ c.shown \in Boards
    BY DEF DrawInv, ViewerInv, Sound, DrawingInv, DrawingType
  <1>2. NobodyWaitsInVain
    BY <1>1 DEF DrawingInv, HeadWaits, Flushes, NobodyWaitsInVain
  <1>3. ASSUME c.renderQ = <<>>, c.rects = 0
        PROVE  c.shown = c.canvas /\ \A x \in Cells : c.canvas[x] \in {c.ideal[x], Stale}
    <2>1. c.damage = {}
      BY <1>1, <1>3 DEF Rest, AtRest
    <2>2. c.shown = c.canvas
      BY <1>1, <2>1 DEF DrawingInv, Copied, Boards
    <2>3. Follows(c.canvas, c.ideal)
      BY <1>1, <1>3, AheadAtRest DEF DrawingInv
    <2> QED BY <2>2, <2>3 DEF Follows
  <1> QED BY <1>2, <1>3 DEF Settles

(* Theorem: between two updates, when no operation waits, the screen of a  *)
(* connected viewer shows its canvas, and the canvas is what the server    *)
(* drew, in the order it drew it, in whatever pieces its messages arrived  *)
(* and in whatever order the images loaded (display.js, _renderQPush,      *)
(* _scanRenderQ, flip).  Pixels of the receive queue that had to wait are  *)
(* the exception, as in Settles.                                           *)
THEOREM ScreenSettles == Spec => []Settles
  <1>1. Init => DrawInv
    BY InitInv
  <1>2. DrawInv /\ [Next]_vars => DrawInv'
    BY StepKeeps
  <1>3. DrawInv => Settles
    BY DrawSettles
  <1> QED BY <1>1, <1>2, <1>3, PTL DEF Spec

(* Theorem: the viewer waits for a flush exactly when the display will     *)
(* tell it of one, and then an image that has not loaded is the first in   *)
(* the queue: its onload will wake them (display.js, flush, _scanRenderQ;  *)
(* rfb.js, _onFlush).                                                      *)
THEOREM FlushAnswered == Spec => []NobodyWaitsInVain
  <1>1. Init => DrawInv
    BY InitInv
  <1>2. DrawInv /\ [Next]_vars => DrawInv'
    BY StepKeeps
  <1>3. DrawInv => NobodyWaitsInVain
    BY DrawSettles
  <1> QED BY <1>1, <1>2, <1>3, PTL DEF Spec

(* Theorem: every step of the viewer is a step of the connection that the  *)
(* page is promised, or changes nothing of it: one connect event at most,  *)
(* one disconnect event, nothing after it (rfb.js,                         *)
(* _updateConnectionState).  That a disconnect ends is left to TLC.        *)
THEOREM ConnectionImplemented ==
  Spec => Connection!Init /\ [][Connection!Next]_(Connection!vars)
  <1>1. Init => DrawInv /\ Connection!Init
    <2> SUFFICES ASSUME Init PROVE Connection!Init
      BY InitInv
    <2>1. PICK creds, answer : c = NewViewer(creds, answer)
      BY DEF Init
    <2>2. c.conn = "connecting" /\ c.connects = 0 /\ c.disconnects = 0
      BY <2>1 DEF NewViewer
    <2> QED BY <2>2 DEF Connection!Init
  <1>2. DrawInv /\ [Next]_vars => DrawInv' /\ [Connection!Next]_(Connection!vars)
    BY StepKeeps DEF ConnectionStep
  <1> QED BY <1>1, <1>2, PTL DEF Spec

-----------------------------------------------------------------------------
(* Bytes on the wire                                                       *)

(* Each part has a length; a part of a message has at least one byte.      *)
Measured(w) == \E S : w \in Seq(S) /\ \A p \in S : p.len \in Nat
Whole(w) == \E S : w \in Seq(S) /\ \A p \in S : p.len \in Nat \ {0}

(* f[n] is the number of bytes of the first n parts of w.                  *)
Sums(f, w, m) == f = [n \in 0 .. m |-> IF n = 0 THEN 0 ELSE f[n - 1] + w[n].len]

(* There is a sum of any number of parts.                                  *)
LEMMA SumsExist ==
  ASSUME NEW w, NEW k \in Nat
  PROVE  \E f : Sums(f, w, k)
  <1> DEFINE T == {m \in Nat : \E f : Sums(f, w, m)}
  <1>1. 0 \in T
    <2> DEFINE f == [n \in 0 .. 0 |-> 0]
    <2>1. f = [n \in 0 .. 0 |-> IF n = 0 THEN 0 ELSE f[n - 1] + w[n].len]
      OBVIOUS
    <2> QED BY <2>1 DEF Sums
  <1>2. \A m \in T : m + 1 \in T
    <2> TAKE m \in T
    <2>1. PICK f : Sums(f, w, m)
      OBVIOUS
    <2> DEFINE g == [n \in 0 .. m + 1 |-> IF n <= m THEN f[n] ELSE f[m] + w[m + 1].len]
    <2>2. \A n \in 0 .. m : f[n] = IF n = 0 THEN 0 ELSE f[n - 1] + w[n].len
      BY <2>1 DEF Sums
    <2>3. \A n \in 0 .. m + 1 : g[n] = IF n = 0 THEN 0 ELSE g[n - 1] + w[n].len
      <3> TAKE n \in 0 .. m + 1
      <3>1. CASE n = 0
        BY <2>2, <3>1
      <3>2. CASE n \in 1 .. m
        <4>1. g[n] = f[n] /\ g[n - 1] = f[n - 1] /\ n # 0
          BY <3>2
        <4> QED BY <2>2, <3>2, <4>1
      <3>3. CASE n = m + 1
        <4>1. g[n] = f[m] + w[n].len /\ g[n - 1] = f[m] /\ n # 0
          BY <3>3
        <4> QED BY <4>1
      <3> QED BY <3>1, <3>2, <3>3
    <2>4. g = [n \in 0 .. m + 1 |-> IF n = 0 THEN 0 ELSE g[n - 1] + w[n].len]
      BY <2>3
    <2> HIDE DEF g
    <2> QED BY <2>4 DEF Sums
  <1> HIDE DEF T
  <1>3. 0 .. k \subseteq T
    BY <1>1, <1>2, Counting DEF T
  <1> QED BY <1>3 DEF T

(* Whatever adds up the parts one by one gives their total. *)
LEMMA TotalIs ==
  ASSUME NEW w, Len(w) \in Nat, NEW g, g[0] = 0,
         \A n \in 1 .. Len(w) : g[n] = g[n - 1] + w[n].len
  PROVE  Total(w) = g[Len(w)]
  <1> DEFINE k == Len(w)
             f == CHOOSE f : Sums(f, w, k)
             T == {n \in Nat : n <= k => f[n] = g[n]}
  <1>1. Total(w) = f[k]
    BY DEF Total, Sums
  <1>2. Sums(f, w, k)
    <2>1. \E x : Sums(x, w, k)
      BY SumsExist
    <2> QED BY <2>1
  <1> HIDE DEF f
  <1>3. \A n \in 0 .. k : f[n] = IF n = 0 THEN 0 ELSE f[n - 1] + w[n].len
    BY <1>2 DEF Sums
  <1>4. 0 \in T
    BY <1>3
  <1>5. \A n \in T : n < k => n + 1 \in T
    <2> TAKE n \in T
    <2> HAVE n < k
    <2>1. n + 1 \in 1 .. k /\ n + 1 - 1 = n /\ n + 1 # 0 /\ n \in Nat
      OBVIOUS
    <2>2. f[n] = g[n]
      BY <2>1
    <2>3. f[n + 1] = f[n] + w[n + 1].len /\ g[n + 1] = g[n] + w[n + 1].len
      BY <1>3, <2>1
    <2> QED BY <2>1, <2>2, <2>3
  <1>6. 0 .. k \subseteq T
    <2> HIDE DEF T
    <2>1. T \subseteq Nat
      BY DEF T
    <2> QED BY <1>4, <1>5, <2>1, Counting
  <1> QED BY <1>1, <1>6

(* Such a sum exists, and counts with natural numbers. *)
LEMMA TotalSums ==
  ASSUME NEW w, Measured(w)
  PROVE  \E f : /\ f[0] = 0 /\ \A n \in 1 .. Len(w) : f[n] = f[n - 1] + w[n].len
                /\ \A n \in 0 .. Len(w) : f[n] \in Nat
                /\ Total(w) = f[Len(w)]
  <1>1. PICK S : w \in Seq(S) /\ \A p \in S : p.len \in Nat
    BY DEF Measured
  <1>2. Len(w) \in Nat
    BY <1>1
  <1>3. PICK f : Sums(f, w, Len(w))
    BY <1>2, SumsExist
  <1>4. f[0] = 0 /\ \A n \in 1 .. Len(w) : f[n] = f[n - 1] + w[n].len
    BY <1>2, <1>3 DEF Sums
  <1> DEFINE T == {n \in Nat : n <= Len(w) => f[n] \in Nat}
  <1>5. 0 \in T
    BY <1>4
  <1>6. \A n \in T : n < Len(w) => n + 1 \in T
    <2> TAKE n \in T
    <2> HAVE n < Len(w)
    <2>1. n + 1 \in 1 .. Len(w) /\ n + 1 - 1 = n /\ n \in Nat
      BY <1>2
    <2>2. f[n] \in Nat /\ w[n + 1].len \in Nat
      BY <1>1, <2>1
    <2> QED BY <1>4, <2>1, <2>2
  <1>7. 0 .. Len(w) \subseteq T
    <2> HIDE DEF T
    <2>1. T \subseteq Nat
      BY DEF T
    <2> QED BY <1>2, <1>5, <1>6, <2>1, Counting
  <1>8. Total(w) = f[Len(w)]
    BY <1>2, <1>4, TotalIs
  <1> QED BY <1>4, <1>7, <1>8

(* Bytes of nothing, of two wires in a row, of a first part and the rest. *)
LEMMA TotalNone == Total(<<>>) = 0
  <1> DEFINE g == [n \in {0} |-> 0]
  <1>1. Len(<<>>) = 0 /\ g[0] = 0
    OBVIOUS
  <1>2. \A n \in 1 .. Len(<<>>) : g[n] = g[n - 1] + <<>>[n].len
    BY <1>1
  <1> HIDE DEF g
  <1> QED BY <1>1, <1>2, TotalIs

(* Two sequences that are joined have the bytes of both.                   *)
LEMMA TotalJoined ==
  ASSUME NEW v, NEW w, Measured(v), Measured(w)
  PROVE  /\ Measured(v \o w) /\ Total(v) \in Nat /\ Total(w) \in Nat
         /\ Total(v \o w) = Total(v) + Total(w)
  <1>1. PICK S : v \in Seq(S) /\ \A p \in S : p.len \in Nat
    BY DEF Measured
  <1>2. PICK T : w \in Seq(T) /\ \A p \in T : p.len \in Nat
    BY DEF Measured
  <1>3. v \o w \in Seq(S \cup T) /\ \A p \in S \cup T : p.len \in Nat
    <2>1. v \in Seq(S \cup T) /\ w \in Seq(S \cup T)
      BY <1>1, <1>2
    <2> QED BY <1>1, <1>2, <2>1
  <1>4. Measured(v \o w)
    BY <1>3 DEF Measured
  <1> DEFINE i == Len(v)
             k == Len(w)
             z == v \o w
  <1>5. /\ i \in Nat /\ k \in Nat /\ Len(z) = i + k
        /\ \A n \in 1 .. i : z[n] = v[n]
        /\ \A n \in 1 .. i + k : n > i => z[n] = w[n - i]
    BY <1>1, <1>2
  <1>6. PICK f : /\ f[0] = 0 /\ \A n \in 1 .. i : f[n] = f[n - 1] + v[n].len
                 /\ \A n \in 0 .. i : f[n] \in Nat
                 /\ Total(v) = f[i]
    BY TotalSums
  <1>7. PICK h : /\ h[0] = 0 /\ \A n \in 1 .. k : h[n] = h[n - 1] + w[n].len
                 /\ \A n \in 0 .. k : h[n] \in Nat
                 /\ Total(w) = h[k]
    BY TotalSums
  <1> HIDE DEF i, k, z
  <1> DEFINE g == [n \in 0 .. i + k |-> IF n <= i THEN f[n] ELSE f[i] + h[n - i]]
  <1>8. g[0] = 0 /\ g[i + k] = f[i] + h[k]
    BY <1>5, <1>6, <1>7
  <1>9. \A n \in 1 .. Len(z) : g[n] = g[n - 1] + z[n].len
    <2> TAKE n \in 1 .. Len(z)
    <2>1. CASE n <= i
      <3>1. n \in 1 .. i /\ n - 1 \in 0 .. i + k /\ n \in 0 .. i + k /\ n - 1 <= i
        BY <1>5, <2>1
      <3>2. g[n] = f[n] /\ g[n - 1] = f[n - 1]
        BY <2>1, <3>1
      <3> QED BY <1>5, <1>6, <3>1, <3>2
    <2>2. CASE n = i + 1
      <3>1. n \in 0 .. i + k /\ n - 1 = i /\ n - i = 1 /\ ~(n <= i) /\ 1 \in 1 .. k /\ n > i
        BY <1>5, <2>2
      <3>2. g[n] = f[i] + h[1] /\ g[n - 1] = f[i]
        BY <1>5, <3>1
      <3>3. h[1] = h[0] + w[1].len /\ h[1] \in Nat /\ w[1].len \in Nat
        <4>1. h[1] = h[1 - 1] + w[1].len
          BY <1>7, <3>1
        <4>2. w[1].len \in Nat
          BY <1>2, <3>1 DEF k
        <4>3. 1 \in 0 .. k
          BY <1>5, <3>1
        <4> QED BY <1>7, <4>1, <4>2, <4>3
      <3> QED BY <1>5, <1>6, <1>7, <3>1, <3>2, <3>3
    <2>3. CASE n > i + 1
      <3>1. n - i \in 1 .. k /\ n \in 0 .. i + k /\ n - 1 \in 0 .. i + k /\ ~(n <= i) /\ ~(n - 1 <= i)
            /\ n - 1 - i = n - i - 1 /\ n - i - 1 \in 0 .. k /\ n - i \in 0 .. k
        BY <1>5, <2>3
      <3>2. g[n] = f[i] + h[n - i] /\ g[n - 1] = f[i] + h[n - i - 1]
        BY <3>1
      <3>3. h[n - i] = h[n - i - 1] + w[n - i].len /\ h[n - i - 1] \in Nat /\ w[n - i].len \in Nat
        <4>1. w[n - i].len \in Nat
          BY <1>2, <3>1 DEF k
        <4> QED BY <1>7, <3>1, <4>1
      <3>4. z[n] = w[n - i]
        BY <1>5, <2>3
      <3>5. f[i] \in Nat
        BY <1>5, <1>6
      <3> QED BY <3>2, <3>3, <3>4, <3>5
    <2> QED BY <1>5, <2>1, <2>2, <2>3
  <1> HIDE DEF g
  <1>10. Total(z) = g[i + k]
    <2>1. Len(z) \in Nat /\ Len(z) = i + k
      BY <1>5
    <2>2. Total(z) = g[Len(z)]
      BY <1>8, <1>9, <2>1, TotalIs
    <2> QED BY <2>1, <2>2
  <1>11. f[i] \in Nat /\ h[k] \in Nat
    BY <1>5, <1>6, <1>7
  <1> QED BY <1>4, <1>6, <1>7, <1>8, <1>10, <1>11 DEF z

(* One part has its own bytes.                                             *)
LEMMA TotalOne ==
  ASSUME NEW p, p.len \in Nat
  PROVE  Measured(<<p>>) /\ Total(<<p>>) = p.len
  <1>1. Measured(<<p>>)
    <2> DEFINE S == {p}
    <2>1. <<p>> \in Seq(S) /\ \A q \in S : q.len \in Nat
      OBVIOUS
    <2> HIDE DEF S
    <2> QED BY <2>1 DEF Measured
  <1> DEFINE g == [n \in 0 .. 1 |-> IF n = 0 THEN 0 ELSE p.len]
             w == <<p>>
  <1>2. Len(w) = 1 /\ w[1] = p
    OBVIOUS
  <1>3. g[0] = 0 /\ g[1] = p.len
    OBVIOUS
  <1> HIDE DEF g, w
  <1>4. \A n \in 1 .. Len(w) : g[n] = g[n - 1] + w[n].len
    <2> TAKE n \in 1 .. Len(w)
    <2>1. n = 1 /\ n - 1 = 0
      BY <1>2
    <2> QED BY <1>2, <1>3, <2>1
  <1>5. Total(w) = p.len
    <2>1. Len(w) \in Nat
      BY <1>2
    <2>2. Total(w) = g[Len(w)]
      BY <1>3, <1>4, <2>1, TotalIs
    <2> QED BY <1>2, <1>3, <2>2
  <1> QED BY <1>1, <1>5 DEF w

(* The first part has its bytes, and the others theirs.                    *)
LEMMA TotalFirst ==
  ASSUME NEW w, Measured(w), w # <<>>
  PROVE  /\ Measured(Tail(w)) /\ Head(w).len \in Nat /\ Total(Tail(w)) \in Nat
         /\ Total(w) = Head(w).len + Total(Tail(w))
  <1>1. PICK S : w \in Seq(S) /\ \A p \in S : p.len \in Nat
    BY DEF Measured
  <1>2. Tail(w) \in Seq(S) /\ Head(w) \in S /\ <<Head(w)>> \o Tail(w) = w
    BY <1>1
  <1>3. Measured(Tail(w))
    BY <1>1, <1>2 DEF Measured
  <1>4. Head(w).len \in Nat
    BY <1>1, <1>2
  <1>5. Measured(<<Head(w)>>) /\ Total(<<Head(w)>>) = Head(w).len
    BY <1>4, TotalOne
  <1>6. Total(<<Head(w)>> \o Tail(w)) = Total(<<Head(w)>>) + Total(Tail(w)) /\ Total(Tail(w)) \in Nat
    BY <1>3, <1>5, TotalJoined
  <1> QED BY <1>2, <1>3, <1>4, <1>5, <1>6

(* The same, of a wire.                                                    *)
LEMMA WholeMeasured == ASSUME NEW w, Whole(w) PROVE Measured(w) /\ Total(w) \in Nat
  <1>1. Measured(w)
    BY DEF Whole, Measured
  <1>2. Measured(<<>>)
    <2> DEFINE S == {}
    <2>1. <<>> \in Seq(S) /\ \A q \in S : q.len \in Nat
      OBVIOUS
    <2> HIDE DEF S
    <2> QED BY <2>1 DEF Measured
  <1> QED BY <1>1, <1>2, TotalJoined

(* Of parts that are whole, the first and the others are whole.            *)
LEMMA WholeFirst ==
  ASSUME NEW w, Whole(w), w # <<>>
  PROVE  /\ Whole(Tail(w)) /\ Head(w).len \in Nat /\ Head(w).len > 0 /\ Total(Tail(w)) \in Nat
         /\ Total(w) = Head(w).len + Total(Tail(w))
  <1>1. PICK S : w \in Seq(S) /\ \A p \in S : p.len \in Nat \ {0}
    BY DEF Whole
  <1>2. Tail(w) \in Seq(S) /\ Head(w) \in S
    BY <1>1
  <1>3. Whole(Tail(w)) /\ Head(w).len \in Nat \ {0}
    BY <1>1, <1>2 DEF Whole
  <1> QED BY <1>3, WholeMeasured, TotalFirst

(* Whole parts after whole parts are whole.                                *)
LEMMA WholeJoined ==
  ASSUME NEW v, NEW w, Whole(v), Whole(w)
  PROVE  /\ Whole(v \o w) /\ Total(v \o w) = Total(v) + Total(w)
         /\ Total(v) \in Nat /\ Total(w) \in Nat
  <1>1. PICK S : v \in Seq(S) /\ \A p \in S : p.len \in Nat \ {0}
    BY DEF Whole
  <1>2. PICK T : w \in Seq(T) /\ \A p \in T : p.len \in Nat \ {0}
    BY DEF Whole
  <1>3. v \o w \in Seq(S \cup T) /\ \A p \in S \cup T : p.len \in Nat \ {0}
    <2>1. v \in Seq(S \cup T) /\ w \in Seq(S \cup T)
      BY <1>1, <1>2
    <2> QED BY <1>1, <1>2, <2>1
  <1>4. Whole(v \o w)
    BY <1>3 DEF Whole
  <1> QED BY <1>4, WholeMeasured, TotalJoined

-----------------------------------------------------------------------------
(* What handlers leave alone                                               *)

(* What has arrived; the connection and the handshake; what the viewer     *)
(* asked for; what its decoders remember.                                  *)
SameBytes(a, b) == b.wire = a.wire /\ b.at = a.at /\ b.avail = a.avail /\ (b.lost <=> a.lost)
SameSession(a, b) ==
    /\ b.conn = a.conn /\ b.sock = a.sock /\ b.onOpen = a.onOpen /\ b.onMessage = a.onMessage
    /\ b.onClose = a.onClose /\ b.timer = a.timer
SameTalk(a, b) ==
    /\ b.init = a.init /\ b.version = a.version /\ b.scheme = a.scheme /\ b.tight = a.tight
    /\ b.vencrypt = a.vencrypt /\ b.subtypes = a.subtypes /\ b.askings = a.askings
SameRequests(a, b) ==
    /\ b.asked = a.asked /\ b.continuous = a.continuous /\ b.knowsContinuous = a.knowsContinuous
    /\ b.region = a.region /\ b.dropped = a.dropped /\ b.flushing = a.flushing
SameDecoder(a, b) ==
    /\ b.rects = a.rects /\ b.rect = a.rect /\ b.lines = a.lines /\ b.subrects = a.subrects
    /\ b.tiles = a.tiles /\ b.ctl = a.ctl /\ b.filter = a.filter /\ b.colours = a.colours
    /\ b.len = a.len

(* All of that, but for the bytes *)
SameElse(a, b) ==
    /\ Viewer(b) /\ SameSession(a, b) /\ SameTalk(a, b) /\ SameRequests(a, b) /\ SameDecoder(a, b)
    /\ b.out = a.out /\ b.size = a.size /\ b.halted = a.halted

(* To draw is to change none of it. *)
Alike(a, b) == SameElse(a, b) /\ SameBytes(a, b)

(* Nothing that is done changes nothing.                                   *)
LEMMA SameSelf == ASSUME NEW d, Viewer(d) PROVE Alike(d, d)
  BY DEF Alike, SameElse, SameBytes, SameSession, SameTalk, SameRequests, SameDecoder

(* To draw and to draw is to draw.                                         *)
LEMMA DrawsCompose ==
  ASSUME NEW a, NEW b, NEW e, Alike(a, b), Alike(b, e)
  PROVE  Alike(a, e)
  BY DEF Alike, SameElse, SameBytes, SameSession, SameTalk, SameRequests, SameDecoder

(* An operation that is carried out draws.                                 *)
LEMMA ApplyDraws == ASSUME NEW d, Viewer(d), NEW a PROVE Alike(d, Apply(d, a))
  <1> USE DEF Alike, SameElse, SameBytes, SameSession, SameTalk, SameRequests, SameDecoder, Viewer
  <1>1. CASE a.op = "flip"
    BY <1>1 DEF Apply
  <1>2. CASE a.op = "copy"
    BY <1>2 DEF Apply
  <1>3. CASE a.op \notin {"flip", "copy"}
    BY <1>3 DEF Apply
  <1> QED BY <1>1, <1>2, <1>3

(* So does one that may have to wait.                                      *)
LEMMA PerformDraws == ASSUME NEW d, Viewer(d), NEW a PROVE Alike(d, Perform(d, a))
  <1>1. Alike(d, [d EXCEPT !.renderQ = Append(@, a)])
    BY DEF Alike, SameElse, SameBytes, SameSession, SameTalk, SameRequests, SameDecoder, Viewer
  <1> QED BY <1>1, ApplyDraws DEF Perform

(* So do the operations that the decoders call.                            *)
LEMMA DrawingDraws ==
  ASSUME NEW d, Viewer(d), NEW cell, NEW colour
  PROVE  /\ Alike(d, Fill(d, cell, colour))
         /\ \A from : Alike(d, CopyImage(d, from, cell))
         /\ \A received : Alike(d, BlitImage(d, cell, colour, received))
         /\ Alike(d, ImageRect(d, cell, colour))
  <1>1. \A x : Alike(d, [d EXCEPT !.ideal[cell] = x])
    BY DEF Alike, SameElse, SameBytes, SameSession, SameTalk, SameRequests, SameDecoder, Viewer
  <1>2. \A x, a : Alike(d, Perform([d EXCEPT !.ideal[cell] = x], a))
    <2> TAKE x, a
    <2> DEFINE u == [d EXCEPT !.ideal[cell] = x]
    <2>1. Alike(d, u) /\ Viewer(u)
      BY <1>1 DEF Alike, SameElse
    <2> HIDE DEF u
    <2>2. Alike(d, Perform(u, a))
      BY <2>1, PerformDraws, DrawsCompose
    <2> QED BY <2>2 DEF u
  <1>3. Alike(d, ImageRect(d, cell, colour))
    BY DEF ImageRect, Alike, SameElse, SameBytes, SameSession, SameTalk, SameRequests, SameDecoder,
           Viewer
  <1> QED BY <1>2, <1>3 DEF Fill, CopyImage, BlitImage

(* A resize changes the size, too, and what continuous updates are about.  *)
Resizes(a, b) ==
    /\ Viewer(b) /\ SameBytes(a, b) /\ SameSession(a, b) /\ SameTalk(a, b) /\ SameDecoder(a, b)
    /\ b.out = a.out /\ b.halted = a.halted
    /\ b.asked = a.asked /\ b.continuous = a.continuous /\ b.knowsContinuous = a.knowsContinuous
    /\ b.dropped = a.dropped /\ b.flushing = a.flushing
    /\ b.region = IF a.continuous THEN b.size ELSE a.region

(* A resize keeps what was read and said, and asks for the new size.       *)
LEMMA ResizeResizes == ASSUME NEW d, Viewer(d), NEW size PROVE Resizes(d, Resize(d, size))
  <1> DEFINE u == [d EXCEPT !.size = size, !.shown = [x \in Cells |-> Blank], !.damage = Cells]
             e == ResizeDisplay(d, size)
             Keeps(b) ==
                /\ Viewer(b) /\ SameBytes(d, b) /\ SameSession(d, b) /\ SameTalk(d, b)
                /\ SameDecoder(d, b) /\ SameRequests(d, b) /\ b.out = d.out /\ b.halted = d.halted
  <1>1. Keeps(e)
    <2>1. CASE d.size = size
      BY <2>1 DEF ResizeDisplay, SameBytes, SameSession, SameTalk, SameRequests, SameDecoder
    <2>2. CASE d.size # size
      <3>1. Keeps(u)
        BY DEF Viewer, SameBytes, SameSession, SameTalk, SameRequests, SameDecoder
      <3>2. e = Perform(u, Flip)
        BY <2>2 DEF ResizeDisplay
      <3> HIDE DEF u
      <3>3. Alike(u, e)
        BY <3>1, <3>2, PerformDraws
      <3> HIDE DEF e
      <3> QED BY <3>1, <3>3
              DEF Alike, SameElse, SameBytes, SameSession, SameTalk, SameRequests, SameDecoder
    <2> QED BY <2>1, <2>2
  <1>2. Resize(d, size) = IF e.continuous THEN [e EXCEPT !.region = e.size] ELSE e
    <2>1. Resize(d, size) = UpdateContinuousUpdates(e)
      BY DEF Resize
    <2> HIDE DEF e
    <2> QED BY <2>1 DEF UpdateContinuousUpdates, EnableContinuousUpdates
  <1> HIDE DEF e
  <1>3. CASE e.continuous
    <2> DEFINE f == [e EXCEPT !.region = e.size]
    <2>1. /\ Viewer(f) /\ SameBytes(e, f) /\ SameSession(e, f) /\ SameTalk(e, f) /\ SameDecoder(e, f)
          /\ f.out = e.out /\ f.halted = e.halted /\ f.size = e.size
          /\ f.asked = e.asked /\ f.continuous = e.continuous /\ f.dropped = e.dropped
          /\ f.knowsContinuous = e.knowsContinuous /\ f.flushing = e.flushing /\ f.region = e.size
      BY <1>1 DEF Viewer, SameBytes, SameSession, SameTalk, SameDecoder
    <2>2. Resize(d, size) = f
      BY <1>2, <1>3
    <2> HIDE DEF f
    <2>3. d.continuous
      BY <1>1, <1>3 DEF SameRequests
    <2>4. f.region = IF d.continuous THEN f.size ELSE d.region
      BY <2>1, <2>3
    <2>5. /\ Viewer(f) /\ SameBytes(d, f) /\ SameSession(d, f) /\ SameTalk(d, f) /\ SameDecoder(d, f)
          /\ f.out = d.out /\ f.halted = d.halted
          /\ f.asked = d.asked /\ f.continuous = d.continuous /\ f.dropped = d.dropped
          /\ f.knowsContinuous = d.knowsContinuous /\ f.flushing = d.flushing
      BY <1>1, <2>1 DEF SameBytes, SameSession, SameTalk, SameRequests, SameDecoder
    <2> QED BY <2>2, <2>4, <2>5 DEF Resizes
  <1>4. CASE ~e.continuous
    BY <1>1, <1>2, <1>4
       DEF Resizes, SameBytes, SameSession, SameTalk, SameRequests, SameDecoder
  <1> QED BY <1>3, <1>4

(* Operations that waited only draw.                                       *)
LEMMA ScanDraws ==
  ASSUME NEW d, Viewer(d), d.renderQ \in Seq(Ops)
  PROVE  Alike(d, ScanRenderQ(d))
  <1> DEFINE q == d.renderQ
             k == Ready(q)
             f == CHOOSE f : Drawn(f, d, q, Len(q))
             rest == SubSeq(q, k + 1, Len(q))
             u == f[k]
             e == ScanRenderQ(d)
             T == {n \in Nat : n <= Len(q) => Alike(d, f[n])}
  <1>1. Len(q) \in Nat /\ k \in 0 .. Len(q)
    BY ReadyIs
  <1>2. e = [u EXCEPT !.renderQ = rest]
    BY ScanIs
  <1>3. Drawn(f, d, q, Len(q))
    <2>1. \E g : Drawn(g, d, q, Len(q))
      BY <1>1, DrawnExists
    <2> HIDE DEF q
    <2> QED BY <2>1
  <1> HIDE DEF f, k
  <1>4. \A n \in 0 .. Len(q) : f[n] = IF n = 0 THEN d ELSE Apply(f[n - 1], q[n])
    BY <1>3 DEF Drawn
  <1>5. 0 \in T
    BY <1>1, <1>4, SameSelf
  <1>6. \A n \in T : n < Len(q) => n + 1 \in T
    <2> TAKE n \in T
    <2> HAVE n < Len(q)
    <2>1. n + 1 \in 0 .. Len(q) /\ n + 1 - 1 = n /\ n + 1 # 0
      BY <1>1
    <2>2. Alike(d, f[n])
      BY <1>1
    <2>3. f[n + 1] = Apply(f[n], q[n + 1])
      BY <1>4, <2>1
    <2>4. Alike(f[n], f[n + 1])
      BY <2>2, <2>3, ApplyDraws DEF Alike, SameElse
    <2>5. Alike(d, f[n + 1])
      BY <2>2, <2>4, DrawsCompose
    <2> QED BY <2>1, <2>5
  <1>7. 0 .. Len(q) \subseteq T
    <2> HIDE DEF T
    <2>1. T \subseteq Nat
      BY DEF T
    <2> QED BY <1>1, <1>5, <1>6, <2>1, Counting
  <1>8. Alike(d, u)
    BY <1>1, <1>7
  <1> HIDE DEF u, rest, e
  <1> QED BY <1>2, <1>8 DEF Alike, SameElse, SameBytes, SameSession, SameTalk, SameRequests,
                            SameDecoder, Viewer, e

(* The three ways in which a connection breaks are one.                    *)
Broken(a, b) ==
    /\ Viewer(b) /\ SameBytes(a, b) /\ SameTalk(a, b) /\ SameRequests(a, b) /\ SameDecoder(a, b)
    /\ b.out = a.out /\ b.size = a.size
    /\ b.conn = IF a.conn \in {"connecting", "connected", "disconnecting"} THEN "disconnected"
                ELSE a.conn
    /\ \/ a.conn \notin {"connecting", "connected"} /\ b.sock = a.sock
       \/ a.conn \in {"connecting", "connected"} /\ b.sock \notin {"connecting", "open"}

(* To leave is to break off, with or without a fault of the server.        *)
LEMMA LeaveBreaks ==
  ASSUME NEW d, Viewer(d)
  PROVE  /\ Broken(d, Leave(d)) /\ Leave(d).halted = d.halted
         /\ Fail(d) = Leave(d)
         /\ Broken(d, Refuse(d)) /\ Refuse(d).halted = TRUE
  <1> DEFINE e == UpdateConnectionState(d, "disconnecting")
             f == UpdateConnectionState(e, "disconnected")
             Keeps(b) ==
                /\ Viewer(b) /\ SameBytes(d, b) /\ SameTalk(d, b)
                /\ SameDecoder(d, b) /\ SameRequests(d, b) /\ b.out = d.out /\ b.halted = d.halted
                /\ b.size = d.size
  <1> USE DEF SameBytes, SameTalk, SameRequests, SameDecoder
  <1>1. /\ Keeps(e)
        /\ e.conn = IF d.conn \in {"connecting", "connected"} THEN "disconnecting" ELSE d.conn
        /\ \/ d.conn \notin {"connecting", "connected"} /\ e.sock = d.sock
           \/ d.conn \in {"connecting", "connected"} /\ e.sock \notin {"connecting", "open"}
    <2>1. CASE d.conn \in {"connecting", "connected"}
      <3> DEFINE u == Disconnect(d)
      <3>1. e = [u EXCEPT !.conn = "disconnecting", !.timer = TRUE]
        BY <2>1 DEF UpdateConnectionState, Transitions
      <3>2. /\ Viewer(u) /\ SameBytes(d, u) /\ SameTalk(d, u) /\ SameDecoder(d, u)
            /\ u.sock \notin {"connecting", "open"}
        BY DEF Disconnect, Viewer
      <3>3. SameRequests(d, u) /\ u.out = d.out /\ u.halted = d.halted /\ u.size = d.size
        BY DEF Disconnect, Viewer
      <3> HIDE DEF u
      <3> DEFINE v == [u EXCEPT !.conn = "disconnecting", !.timer = TRUE]
      <3>4. /\ Viewer(v) /\ SameBytes(u, v) /\ SameTalk(u, v) /\ SameDecoder(u, v) /\ v.sock = u.sock
        BY <3>2 DEF Viewer
      <3>5. /\ SameRequests(u, v) /\ v.out = u.out /\ v.halted = u.halted /\ v.size = u.size
            /\ v.conn = "disconnecting"
        BY <3>2 DEF Viewer
      <3> HIDE DEF v
      <3>6. Keeps(v)
        BY <3>2, <3>3, <3>4, <3>5
      <3>7. e = v
        BY <3>1 DEF v
      <3> HIDE DEF e
      <3> QED BY <2>1, <3>2, <3>4, <3>5, <3>6, <3>7
    <2>2. CASE d.conn \notin {"connecting", "connected"}
      <3>1. e = d
        BY <2>2 DEF UpdateConnectionState, Transitions
      <3> HIDE DEF e
      <3> QED BY <2>2, <3>1
    <2> QED BY <2>1, <2>2
  <1> HIDE DEF e
  <1>2. /\ Keeps(f) /\ f.sock = e.sock
        /\ f.conn = IF e.conn = "disconnecting" THEN "disconnected" ELSE e.conn
    <2>1. CASE e.conn = "disconnecting"
      BY <1>1, <2>1 DEF UpdateConnectionState, Transitions, Viewer
    <2>2. CASE e.conn # "disconnecting"
      <3>1. f = e
        BY <2>2 DEF UpdateConnectionState, Transitions
      <3> HIDE DEF f
      <3> QED BY <1>1, <2>2, <3>1
    <2> QED BY <2>1, <2>2
  <1>3. Leave(d) = f /\ Fail(d) = f /\ Refuse(d) = [f EXCEPT !.halted = TRUE]
    BY DEF Leave, Fail, Refuse, e
  <1> HIDE DEF f
  <1>4. Broken(d, f)
    BY <1>1, <1>2 DEF Broken
  <1>5. Broken(d, [f EXCEPT !.halted = TRUE]) /\ [f EXCEPT !.halted = TRUE].halted
    BY <1>1, <1>2 DEF Broken, Viewer
  <1> QED BY <1>2, <1>3, <1>4, <1>5

-----------------------------------------------------------------------------
(* Reading                                                                 *)

(* The bytes that have arrived are on the wire, and none was lost.         *)
Bytes(d) ==
    /\ Whole(d.wire) /\ d.at \in Nat /\ d.avail \in Nat /\ d.at + d.avail <= Total(d.wire)
    /\ ~d.lost

(* What is left of the part that is being read *)
PartLeft(d) == IF d.wire = <<>> THEN 0 ELSE Head(d.wire).len - d.at

(* b is n bytes further in that part than a, and is like a otherwise.      *)
Reaches(a, b, n) ==
    /\ ~b.lost /\ b.avail = a.avail - n
    /\ IF n > 0 /\ n = PartLeft(a) THEN b.wire = Tail(a.wire) /\ b.at = 0
       ELSE b.wire = a.wire /\ b.at = a.at + n
Took(a, b, n) == SameElse(a, b) /\ Reaches(a, b, n)

(* To skip within a part is to be further in it.                           *)
LEMMA SkipIs ==
  ASSUME NEW d, Viewer(d), Whole(d.wire), ~d.lost, d.at \in Nat, NEW n \in Nat, n <= PartLeft(d)
  PROVE  Took(d, Skip(d, n), n)
  <1> DEFINE left == IF d.wire = <<>> THEN 0 ELSE Part(d).len - d.at
  <1>1. left = PartLeft(d)
    BY DEF PartLeft, Part
  <1>2. PartLeft(d) \in Int
    BY WholeFirst DEF PartLeft
  <1>3. CASE n = left /\ n > 0
    <2> DEFINE e == [d EXCEPT !.wire = Tail(d.wire), !.at = 0, !.avail = d.avail - n]
    <2>1. Skip(d, n) = e
      BY <1>3 DEF Skip
    <2>2. SameElse(d, e) /\ e.wire = Tail(d.wire) /\ e.at = 0 /\ e.avail = d.avail - n /\ e.lost = d.lost
      BY DEF SameElse, SameSession, SameTalk, SameRequests, SameDecoder, Viewer
    <2> HIDE DEF e, left
    <2> QED BY <1>1, <1>3, <2>1, <2>2 DEF Took, Reaches
  <1>4. CASE ~(n = left /\ n > 0)
    <2> DEFINE e == [d EXCEPT !.at = d.at + n, !.avail = d.avail - n, !.lost = d.lost \/ n > left]
    <2>1. Skip(d, n) = e
      BY <1>4 DEF Skip
    <2> HIDE DEF left
    <2>2. /\ SameElse(d, e) /\ e.wire = d.wire /\ e.at = d.at + n /\ e.avail = d.avail - n
          /\ e.lost = (d.lost \/ n > left)
      BY DEF SameElse, SameSession, SameTalk, SameRequests, SameDecoder, Viewer
    <2>3. ~(n > left)
      BY <1>1, <1>2
    <2> HIDE DEF e
    <2> QED BY <1>1, <1>4, <2>1, <2>2, <2>3 DEF Took, Reaches
  <1> QED BY <1>3, <1>4

(* To read on is to have read more.                                        *)
LEMMA TookMore ==
  ASSUME NEW d, Viewer(d), Bytes(d), NEW e, NEW n \in Nat, NEW m \in Nat, Took(d, e, n),
         n + m <= PartLeft(d)
  PROVE  Took(d, Skip(e, m), n + m)
  <1> DEFINE f == Skip(e, m)
  <1>1. /\ Viewer(e) /\ ~e.lost /\ e.avail = d.avail - n /\ d.at \in Nat /\ d.avail \in Nat
        /\ SameElse(d, e)
    BY DEF Took, Reaches, SameElse, Bytes
  <1>2. PartLeft(d) \in Int
    BY WholeFirst DEF Bytes, PartLeft
  <1>3. CASE n > 0 /\ n = PartLeft(d)
    <2>1. m = 0 /\ e.wire = Tail(d.wire) /\ e.at = 0 /\ d.wire # <<>>
      BY <1>2, <1>3 DEF Took, Reaches, PartLeft
    <2>2. Whole(e.wire)
      BY <2>1, WholeFirst DEF Bytes
    <2>3. m <= PartLeft(e)
      <3>1. e.wire # <<>> => Head(e.wire).len \in Nat
        BY <2>2, WholeFirst
      <3> QED BY <2>1, <3>1 DEF PartLeft
    <2>4. Took(e, f, m)
      BY <1>1, <2>1, <2>2, <2>3, SkipIs
    <2> HIDE DEF f
    <2>5. f.wire = e.wire /\ f.at = e.at /\ f.avail = e.avail /\ ~f.lost /\ SameElse(e, f)
      BY <1>1, <2>1, <2>4 DEF Took, Reaches
    <2>6. n + m = n
      BY <2>1
    <2>7. SameElse(d, f)
      BY <1>1, <2>5 DEF SameElse, SameSession, SameTalk, SameRequests, SameDecoder
    <2>8. Took(d, f, n)
      BY <1>1, <1>3, <2>1, <2>5, <2>7 DEF Took, Reaches
    <2> QED BY <2>6, <2>8 DEF f
  <1>4. CASE ~(n > 0 /\ n = PartLeft(d))
    <2>1. e.wire = d.wire /\ e.at = d.at + n
      BY <1>4 DEF Took, Reaches
    <2>2. PartLeft(e) = IF d.wire = <<>> THEN 0 ELSE PartLeft(d) - n
      <3>1. d.wire # <<>> => Head(d.wire).len \in Nat
        BY WholeFirst DEF Bytes
      <3> QED BY <1>1, <2>1, <3>1 DEF PartLeft
    <2>3. d.wire = <<>> => n = 0 /\ m = 0 /\ PartLeft(d) = 0
      BY DEF PartLeft
    <2>4. m <= PartLeft(e)
      BY <1>2, <2>2, <2>3
    <2>5. Took(e, f, m)
      <3>1. Whole(e.wire) /\ e.at \in Nat
        BY <1>1, <2>1 DEF Bytes
      <3> QED BY <1>1, <2>4, <3>1, SkipIs
    <2> HIDE DEF f
    <2>6. SameElse(d, f) /\ ~f.lost /\ f.avail = d.avail - (n + m)
      BY <1>1, <2>5 DEF Took, Reaches, SameElse, SameSession, SameTalk, SameRequests, SameDecoder
    <2>7. IF n + m > 0 /\ n + m = PartLeft(d) THEN f.wire = Tail(d.wire) /\ f.at = 0
          ELSE f.wire = d.wire /\ f.at = d.at + (n + m)
      <3>1. CASE m = 0
        <4>1. f.wire = e.wire /\ f.at = e.at
          BY <1>1, <2>1, <2>5, <3>1 DEF Took, Reaches
        <4> QED BY <1>1, <1>4, <2>1, <3>1, <4>1
      <3>2. CASE m > 0
        <4>1. d.wire # <<>> /\ (m = PartLeft(e) <=> n + m = PartLeft(d))
          BY <1>2, <2>2, <2>3, <3>2
        <4>2. IF m = PartLeft(e) THEN f.wire = Tail(e.wire) /\ f.at = 0
              ELSE f.wire = e.wire /\ f.at = e.at + m
          BY <2>5, <3>2 DEF Took, Reaches
        <4> QED BY <1>1, <2>1, <3>2, <4>1, <4>2
      <3> QED BY <3>1, <3>2
    <2> HIDE DEF f
    <2> DEFINE k == n + m
    <2>8. SameElse(d, f) /\ ~f.lost /\ f.avail = d.avail - k
      BY <2>6
    <2>9. IF k > 0 /\ k = PartLeft(d) THEN f.wire = Tail(d.wire) /\ f.at = 0
          ELSE f.wire = d.wire /\ f.at = d.at + k
      BY <2>7
    <2> HIDE DEF k
    <2>10. Took(d, f, k)
      BY <2>8, <2>9 DEF Took, Reaches
    <2> QED BY <2>10 DEF k, f
  <1> QED BY <1>3, <1>4

(* Within the part and what arrived, the bytes stay as they should be.     *)
LEMMA ReachesBytes ==
  ASSUME NEW d, Bytes(d), NEW e, NEW n \in Nat, Reaches(d, e, n), n <= PartLeft(d), n <= d.avail
  PROVE  Bytes(e)
  <1>1. Whole(d.wire) /\ d.at \in Nat /\ d.avail \in Nat /\ d.at + d.avail <= Total(d.wire)
    BY DEF Bytes
  <1>2. ~e.lost /\ e.avail = d.avail - n
    BY DEF Reaches
  <1>3. CASE n > 0 /\ n = PartLeft(d)
    <2>1. d.wire # <<>> /\ n = Head(d.wire).len - d.at /\ e.wire = Tail(d.wire) /\ e.at = 0
      BY <1>3 DEF Reaches, PartLeft
    <2>2. /\ Whole(Tail(d.wire)) /\ Total(Tail(d.wire)) \in Nat /\ Head(d.wire).len \in Nat
          /\ Total(d.wire) = Head(d.wire).len + Total(Tail(d.wire))
      BY <1>1, <2>1, WholeFirst
    <2>3. e.avail \in Nat /\ e.at + e.avail <= Total(e.wire)
      BY <1>1, <1>2, <2>1, <2>2
    <2> QED BY <1>2, <2>1, <2>2, <2>3 DEF Bytes
  <1>4. CASE ~(n > 0 /\ n = PartLeft(d))
    <2>1. e.wire = d.wire /\ e.at = d.at + n
      BY <1>4 DEF Reaches
    <2>2. Total(d.wire) \in Nat
      BY <1>1, WholeMeasured
    <2>3. e.at \in Nat /\ e.avail \in Nat /\ e.at + e.avail <= Total(e.wire)
      BY <1>1, <1>2, <2>1, <2>2
    <2> QED BY <1>1, <1>2, <2>1, <2>3 DEF Bytes
  <1> QED BY <1>3, <1>4

(* Who takes back all it read has only drawn.                              *)
LEMMA BackIs ==
  ASSUME NEW d, Viewer(d), Bytes(d), NEW e, NEW n \in Nat, Took(d, e, n), n < PartLeft(d)
  PROVE  Alike(d, Back(e, n))
  <1>1. /\ e.wire = d.wire /\ e.at = d.at + n /\ e.avail = d.avail - n /\ ~e.lost
        /\ SameElse(d, e) /\ Viewer(e)
    <2>1. ~(n > 0 /\ n = PartLeft(d))
      <3>1. PartLeft(d) \in Int
        BY WholeFirst DEF Bytes, PartLeft
      <3> QED BY <3>1
    <2> QED BY <2>1 DEF Took, Reaches, SameElse
  <1>2. d.at \in Nat /\ d.avail \in Nat /\ ~d.lost
    BY DEF Bytes
  <1>3. Back(e, n) = [e EXCEPT !.at = e.at - n, !.avail = e.avail + n, !.lost = e.lost \/ e.at < n]
    BY DEF Back
  <1>4. e.at - n = d.at /\ e.avail + n = d.avail /\ ~(e.at < n)
    BY <1>1, <1>2
  <1> DEFINE f == [e EXCEPT !.at = d.at, !.avail = d.avail, !.lost = e.lost \/ e.at < n]
  <1>5. Back(e, n) = f
    BY <1>3, <1>4
  <1>6. SameElse(e, f) /\ f.wire = e.wire /\ f.at = d.at /\ f.avail = d.avail
        /\ f.lost = (e.lost \/ e.at < n)
    BY <1>1 DEF SameElse, SameSession, SameTalk, SameRequests, SameDecoder, Viewer
  <1> HIDE DEF f
  <1>7. SameElse(d, f)
    BY <1>1, <1>6 DEF SameElse, SameSession, SameTalk, SameRequests, SameDecoder
  <1>8. f.lost <=> d.lost
    BY <1>1, <1>2, <1>4, <1>6
  <1> QED BY <1>1, <1>5, <1>6, <1>7, <1>8 DEF Alike, SameBytes

-----------------------------------------------------------------------------
(* The grammar of what a server says                                       *)

(* Between two messages a server has k rectangles to send, of an update    *)
(* that is open or not; Leads says where a message takes it.               *)
Standings == [k : 0 .. MaxRects, open : BOOLEAN]

UpdatePart(n) == [type |-> "update", n |-> n, len |-> 4]

Leads(a, m, b, repertoire) ==
    \/ /\ a.k = 0
       /\ \/ \E n \in 0 .. MaxRects : m = UpdatePart(n) /\ b = [k |-> n, open |-> FALSE]
          \/ m = UpdatePart(OpenCount) /\ b = [k |-> MaxRects, open |-> TRUE]
          \/ m \in Repertoires[repertoire].messages /\ b = a
    \/ /\ a.k > 0
       /\ IF a.open /\ a.k = 1 THEN m = LastRect ELSE m \in Repertoires[repertoire].rectangles
       /\ b = [k |-> a.k - 1, open |-> a.open]

(* A server says w on its way from a to b.                                 *)
Speech(w, a, b, repertoire) ==
    \E f \in [1 .. Len(w) + 1 -> Standings] :
        /\ f[1] = a /\ f[Len(w) + 1] = b
        /\ \A i \in 1 .. Len(w) : Leads(f[i], w[i], f[i + 1], repertoire)

(* Where it is *)
Stand(t) == [k |-> t.owed, open |-> t.open]

-----------------------------------------------------------------------------
(* What the decoders have read of a rectangle                              *)

(* The bytes it still has, by its encoding: first of data that is preceded *)
(* by its length, of pixels, of Tight, of tiles.                           *)
DataUnread(d) == IF d.len > 0 THEN d.len ELSE d.rect.lenBytes + d.rect.dataLen
PixelsUnread(d, size) == IF size < 12 THEN size ELSE DataUnread(d)
TightUnread(d) ==
    CASE d.ctl = "none" -> 1 + TightBytes(d.rect)
      [] d.ctl = "fill" -> 3
      [] d.ctl \in {"jpeg", "png"} -> DataUnread(d)
      [] d.ctl = "basic" /\ d.filter = "none" -> TightBytes(d.rect)
      [] d.ctl = "basic" /\ d.filter = "copy" -> PixelsUnread(d, ColourSize(d.rect))
      [] OTHER -> IF d.colours = 0 THEN TightBytes(d.rect) - 1
                  ELSE PixelsUnread(d, PaletteSize(d.rect))
LastTiles(r, n) == SubSeq(TileParts(r), Len(r.hextiles) - n + 1, Len(r.hextiles))
Unread(d) ==
    LET r == d.rect
    IN  CASE r.encoding = "raw" -> 4 * r.w * (IF d.lines = 0 THEN r.h ELSE d.lines)
          [] r.encoding = "rre" -> IF d.subrects = 0 THEN 8 + 12 * r.n ELSE 12 * d.subrects
          [] r.encoding = "hextile" ->
                Total(LastTiles(r, IF d.tiles = 0 THEN Len(r.hextiles) ELSE d.tiles))
          [] r.encoding \in {"tight", "tightPNG"} -> TightUnread(d)
          [] OTHER -> BodyBytes(r)

(* A decoder remembers only the rectangle in progress.                     *)
Begun(d) == d.rect # NoRect
Decoding(d, E) == Begun(d) /\ d.rect.encoding \in E

RawFits(d) ==
    IF Decoding(d, {"raw"}) THEN d.lines \in 0 .. d.rect.h /\ (d.rect.w = 0 => d.lines = 0)
    ELSE d.lines = 0
RREFits(d) == IF Decoding(d, {"rre"}) THEN d.subrects \in 0 .. d.rect.n ELSE d.subrects = 0
HextileFits(d) ==
    IF Decoding(d, {"hextile"}) THEN d.tiles \in 0 .. Len(d.rect.hextiles) ELSE d.tiles = 0

(* The length of the data is known from when it is read to when the data   *)
(* is, and only of 12 bytes or more.                                       *)
LengthFits(d, size) == d.len = 0 \/ (d.len = d.rect.dataLen /\ size >= 12)
TightIdle(d) == d.filter = "none" /\ d.colours = 0 /\ d.len = 0
TightFits(d) ==
    LET r == d.rect
    IN  IF Decoding(d, {"tight", "tightPNG"})
          THEN \/ d.ctl = "none" /\ TightIdle(d)
               \/ d.ctl = "fill" /\ r.ctl = "fill" /\ TightIdle(d)
               \/ /\ d.ctl \in {"jpeg", "png"} /\ r.ctl = d.ctl
                  /\ d.filter = "none" /\ d.colours = 0 /\ d.len \in {0, r.dataLen}
               \/ /\ d.ctl = "basic" /\ r.ctl = "basic"
                  /\ \/ TightIdle(d)
                     \/ /\ d.filter = "copy" /\ r.filter \in {"none", "copy"} /\ d.colours = 0
                        /\ LengthFits(d, ColourSize(r))
                     \/ /\ d.filter = "palette" /\ r.filter = "palette"
                        /\ \/ d.colours = 0 /\ d.len = 0
                           \/ d.colours = r.n /\ LengthFits(d, PaletteSize(r))
          ELSE d.ctl = "none" /\ TightIdle(d)

DecoderFits(d) ==
    /\ d.rect = NoRect \/ d.rect = LastRect \/ RectFits(d.rect)
    /\ RawFits(d) /\ RREFits(d) /\ HextileFits(d) /\ TightFits(d)

-----------------------------------------------------------------------------
(* The place of the viewer in what the server says                         *)

(* It is at the beginning of a message or of a rectangle, or in the middle *)
(* of a rectangle that its decoder began.                                  *)
Inside(d) == Begun(d) /\ Unread(d) > 0
Stands(d) ==
    /\ d.rects \in Nat /\ (d.rects = 0 => ~Begun(d))
    /\ IF Inside(d) THEN d.wire # <<>> /\ Head(d.wire) = d.rect /\ d.at = d.rect.len - Unread(d)
       ELSE d.at = 0

(* There the server was at a: one that left the number of rectangles open  *)
(* ends them with its last one.                                            *)
RectsLeft(d) == IF Begun(d) /\ ~Inside(d) THEN d.rects - 1 ELSE d.rects
From(d, a) ==
    /\ a \in Standings
    /\ IF d.rects = 0 \/ d.rect = LastRect THEN a.k = 0
       ELSE IF a.open THEN a.k \in 1 .. RectsLeft(d) ELSE a.k = RectsLeft(d)

Parses(d, t) ==
    /\ DecoderFits(d) /\ Stands(d)
    /\ \E a : From(d, a) /\ Speech(d.wire, a, Stand(t), t.repertoire)

(* Promises of both: the server says once, before the viewer knows, that   *)
(* it can send updates unasked; waits for the answer to a fence that is    *)
(* under way, or the fence is; and the viewer's requests are about its     *)
(* whole screen.                                                           *)
Types(w, T) == {i \in DOMAIN w : w[i].type \in T}
Debts(d, t) ==
    /\ d.continuous <=> d.knowsContinuous
    /\ d.knowsContinuous => t.continuous /\ Types(d.wire, {"endOfContinuousUpdates"}) = {}
    /\ \A i, j \in Types(d.wire, {"endOfContinuousUpdates"}) : i = j /\ t.continuous
    /\ t.fenced => \/ <<"fence">> \in Range(d.out)
                   \/ \E i \in Types(d.wire, {"fence"}) : d.wire[i].request
    /\ d.continuous \/ d.rects = 0 => d.region = d.size

Awaits(d) == d.dropped \/ d.asked \/ d.continuous \/ d.rects > 0 \/ Types(d.wire, {"update"}) # {}

(* To a viewer that is connected, and says nothing but that it met a fence *)
Owed(d, t) == Debts(d, t) /\ Awaits(d) /\ d.out \in Seq({<<"fence">>})

(* Handlers that are switched on, and no timer that would switch them off  *)
Hears(d) == d.onOpen /\ d.onMessage /\ d.onClose /\ ~d.timer

-----------------------------------------------------------------------------
(* What a server says, part by part                                        *)

(* Nothing leads nowhere.                                                  *)
LEMMA SpeechEmpty ==
  ASSUME NEW a, NEW b, NEW k
  PROVE  Speech(<<>>, a, b, k) <=> a = b /\ a \in Standings
  <1> DEFINE w == <<>>
  <1>1. Len(w) = 0 /\ Len(w) + 1 = 1
    OBVIOUS
  <1>2. ASSUME Speech(w, a, b, k) PROVE a = b /\ a \in Standings
    <2>1. PICK f \in [1 .. Len(w) + 1 -> Standings] : f[1] = a /\ f[Len(w) + 1] = b
      BY <1>2 DEF Speech
    <2>2. 1 \in 1 .. Len(w) + 1
      BY <1>1
    <2> QED BY <1>1, <2>1, <2>2
  <1>3. ASSUME a = b, a \in Standings PROVE Speech(w, a, b, k)
    <2> DEFINE f == [i \in 1 .. Len(w) + 1 |-> a]
    <2>1. f \in [1 .. Len(w) + 1 -> Standings] /\ f[1] = a /\ f[Len(w) + 1] = b
      BY <1>1, <1>3
    <2>2. \A i \in 1 .. Len(w) : Leads(f[i], w[i], f[i + 1], k)
      BY <1>1
    <2> HIDE DEF f
    <2> QED BY <2>1, <2>2 DEF Speech
  <1> QED BY <1>2, <1>3

(* It begins in a standing and ends in one.                                *)
LEMMA SpeechEnds ==
  ASSUME NEW w, NEW a, NEW b, NEW k, Len(w) \in Nat, Speech(w, a, b, k)
  PROVE  a \in Standings /\ b \in Standings
  <1>1. PICK f \in [1 .. Len(w) + 1 -> Standings] : f[1] = a /\ f[Len(w) + 1] = b
    BY DEF Speech
  <1>2. 1 \in 1 .. Len(w) + 1 /\ Len(w) + 1 \in 1 .. Len(w) + 1
    OBVIOUS
  <1> QED BY <1>1, <1>2

(* The server says one thing more.                                         *)
LEMMA SpeechMore ==
  ASSUME NEW S, NEW w \in Seq(S), NEW m, NEW a, NEW b, NEW e \in Standings, NEW k,
         Speech(w, a, b, k), Leads(b, m, e, k)
  PROVE  Speech(w \o <<m>>, a, e, k)
  <1> DEFINE v == w \o <<m>>
             n == Len(w)
  <1>1. n \in Nat /\ Len(v) = n + 1 /\ v[n + 1] = m /\ \A i \in 1 .. n : v[i] = w[i]
    OBVIOUS
  <1>2. PICK f \in [1 .. n + 1 -> Standings] :
          f[1] = a /\ f[n + 1] = b /\ \A i \in 1 .. n : Leads(f[i], w[i], f[i + 1], k)
    BY DEF Speech
  <1> HIDE DEF v, n
  <1> DEFINE g == [i \in 1 .. n + 2 |-> IF i <= n + 1 THEN f[i] ELSE e]
  <1>3. g \in [1 .. n + 2 -> Standings] /\ g[1] = a /\ g[n + 2] = e /\ g[n + 1] = b
    BY <1>1, <1>2
  <1>4. \A i \in 1 .. n + 1 : Leads(g[i], v[i], g[i + 1], k)
    <2> TAKE i \in 1 .. n + 1
    <2>1. CASE i \in 1 .. n
      <3>1. g[i] = f[i] /\ g[i + 1] = f[i + 1] /\ v[i] = w[i]
        BY <1>1, <2>1
      <3> QED BY <1>2, <2>1, <3>1
    <2>2. CASE i = n + 1
      <3>1. i + 1 = n + 2
        BY <1>1, <2>2
      <3> QED BY <1>1, <1>3, <2>2, <3>1
    <2> QED BY <1>1, <2>1, <2>2
  <1> HIDE DEF g
  <1>5. Len(v) + 1 = n + 2
    BY <1>1
  <1>6. Speech(v, a, e, k)
    BY <1>1, <1>3, <1>4, <1>5 DEF Speech
  <1> QED BY <1>6 DEF v

(* The viewer takes the first thing.                                       *)
LEMMA SpeechFirst ==
  ASSUME NEW S, NEW w \in Seq(S), w # <<>>, NEW a, NEW b, NEW k, Speech(w, a, b, k)
  PROVE  \E e \in Standings : Leads(a, Head(w), e, k) /\ Speech(Tail(w), e, b, k)
  <1> DEFINE v == Tail(w)
             n == Len(w)
  <1>1. n \in Nat \ {0} /\ Len(v) = n - 1 /\ \A i \in 1 .. n - 1 : v[i] = w[i + 1]
    OBVIOUS
  <1>2. PICK f \in [1 .. n + 1 -> Standings] :
          f[1] = a /\ f[n + 1] = b /\ \A i \in 1 .. n : Leads(f[i], w[i], f[i + 1], k)
    BY DEF Speech
  <1>h. Head(w) = w[1]
    OBVIOUS
  <1> HIDE DEF v, n
  <1> DEFINE g == [i \in 1 .. n |-> f[i + 1]]
  <1>3. g \in [1 .. n -> Standings] /\ g[1] = f[2] /\ g[n] = b
    BY <1>1, <1>2
  <1>4. \A i \in 1 .. n - 1 : Leads(g[i], v[i], g[i + 1], k)
    <2> TAKE i \in 1 .. n - 1
    <2>1. i + 1 \in 1 .. n /\ i \in 1 .. n
      BY <1>1
    <2>2. g[i] = f[i + 1] /\ g[i + 1] = f[i + 1 + 1] /\ v[i] = w[i + 1]
      BY <1>1, <2>1
    <2> QED BY <1>2, <2>1, <2>2
  <1> HIDE DEF g
  <1>5. Len(v) + 1 = n /\ 1 \in 1 .. n /\ 1 + 1 = 2
    BY <1>1
  <1>6. Speech(v, f[2], b, k)
    BY <1>1, <1>3, <1>4, <1>5 DEF Speech
  <1>7. Leads(a, Head(w), f[2], k) /\ f[2] \in Standings
    BY <1>1, <1>2, <1>3, <1>5, <1>h
  <1> QED BY <1>6, <1>7 DEF v

-----------------------------------------------------------------------------
(* What rectangles and messages have                                       *)

(* A standing leads to an update and its rectangles, or to a message.      *)
LEMMA LeadsTo ==
  ASSUME NEW k \in DOMAIN Repertoires, NEW a \in Standings, NEW m, NEW b, Leads(a, m, b, k)
  PROVE  /\ a.k = 0 =>
              \/ \E n \in 0 .. MaxRects : m = UpdatePart(n) /\ b = [k |-> n, open |-> FALSE]
              \/ m = UpdatePart(OpenCount) /\ b = [k |-> MaxRects, open |-> TRUE]
              \/ MessageFits(m) /\ m \in Repertoires[k].messages /\ b = a
         /\ a.k > 0 => /\ b = [k |-> a.k - 1, open |-> a.open]
                       /\ \/ m = LastRect /\ a.open /\ a.k = 1
                          \/ m # LastRect /\ RectFits(m) /\ ~(a.open /\ a.k = 1)
  <1>1. a.k \in Nat
    BY VncClientAssumption DEF Standings
  <1>2. \A r : RectFits(r) => r # LastRect
    BY DEF RectFits, LastRect
  <1> QED BY <1>1, <1>2, LayoutAssumption DEF Leads

(* A rectangle in progress is none, the last, or one of those.             *)
LEMMA Encodings ==
  ASSUME NEW d, DecoderFits(d), Begun(d)
  PROVE  /\ d.rect.type = "rect"
         /\ \/ d.rect = LastRect
            \/ RectFits(d.rect) /\ d.rect # LastRect
  BY DEF DecoderFits, Begun, RectFits, LastRect

-----------------------------------------------------------------------------
(* Rectangles                                                              *)

(* Areas count with natural numbers.                                       *)
LEMMA Areas ==
  /\ \A a, b \in Nat : a * b \in Nat /\ (a > 0 /\ b > 0 => a * b > 0)
  /\ \A a, b, e \in Nat : a * b * e \in Nat
  /\ \A a \in Nat : (a + 7) \div 8 \in Nat /\ (a > 0 => (a + 7) \div 8 > 0)
  <1>1. \A a, b \in Nat : a * b \in Nat /\ (a > 0 /\ b > 0 => a * b > 0)
    OBVIOUS
  <1>2. \A a, b, e \in Nat : a * b * e \in Nat
    BY <1>1
  <1>3. \A a \in Nat : (a + 7) \div 8 \in Nat /\ (a > 0 => (a + 7) \div 8 > 0)
    OBVIOUS
  <1> QED BY <1>1, <1>2, <1>3

(* Tight: a rectangle has a control byte and that many bytes.              *)
LEMMA TightSizes ==
  ASSUME NEW r, RectFits(r), r.encoding \in {"tight", "tightPNG"}
  PROVE  /\ TightBytes(r) \in Nat
         /\ r.ctl = "basic" => ColourSize(r) \in Nat
         /\ r.ctl = "basic" /\ r.filter = "palette" =>
              /\ PaletteSize(r) \in Nat \ {0} /\ r.n \in Nat \ {0}
              /\ TightBytes(r) = 2 + 3 * r.n + PixelBytes(r, PaletteSize(r))
         /\ r.ctl = "basic" /\ r.filter = "copy" =>
              TightBytes(r) = 1 + PixelBytes(r, ColourSize(r))
         /\ r.ctl = "basic" /\ r.filter = "none" =>
              TightBytes(r) = PixelBytes(r, ColourSize(r))
         /\ r.ctl # "fill" => r.lenBytes \in 1 .. 3 /\ r.dataLen \in Nat \ {0}
         /\ \A size \in Nat : r.ctl # "fill" => PixelBytes(r, size) \in Nat
  <1>1. /\ r.ctl \in {"fill", "jpeg", "png", "basic"}
        /\ r.ctl # "fill" => r.lenBytes \in 1 .. 3 /\ r.dataLen \in Nat \ {0}
        /\ r.ctl = "basic" =>
                /\ r.filter \in {"none", "copy", "palette"}
                /\ r.w \in Nat /\ r.h \in Nat
                /\ r.filter = "palette" => r.n \in Nat \ {0} /\ r.w > 0 /\ r.h > 0
    BY DEF RectFits
  <1>2. r.ctl = "basic" => ColourSize(r) \in Nat
    <2>1. r.ctl = "basic" => 3 * r.w \in Nat
      BY <1>1
    <2> QED BY <1>1, <2>1, Areas DEF ColourSize
  <1>3. r.ctl = "basic" /\ r.filter = "palette" => PaletteSize(r) \in Nat \ {0}
    <2> SUFFICES ASSUME r.ctl = "basic", r.filter = "palette" PROVE PaletteSize(r) \in Nat \ {0}
      OBVIOUS
    <2> DEFINE row == IF r.n <= 2 THEN (r.w + 7) \div 8 ELSE r.w
    <2>1. row \in Nat /\ row > 0 /\ r.h \in Nat /\ r.h > 0
      BY <1>1, Areas
    <2>2. PaletteSize(r) = row * r.h
      BY DEF PaletteSize
    <2> HIDE DEF row
    <2> QED BY <2>1, <2>2, Areas
  <1>4. \A size \in Nat : r.ctl # "fill" => PixelBytes(r, size) \in Nat
    BY <1>1 DEF PixelBytes
  <1>5. /\ r.ctl = "basic" /\ r.filter = "palette" =>
             TightBytes(r) = 1 + 3 * r.n + PixelBytes(r, PaletteSize(r)) + 1
        /\ r.ctl = "basic" /\ r.filter = "copy" =>
             TightBytes(r) = PixelBytes(r, ColourSize(r)) + 1
        /\ r.ctl = "basic" /\ r.filter = "none" =>
             TightBytes(r) = PixelBytes(r, ColourSize(r)) + 0
        /\ r.ctl = "fill" => TightBytes(r) = 3
        /\ r.ctl \in {"jpeg", "png"} => TightBytes(r) = r.lenBytes + r.dataLen
    BY DEF TightBytes, FilterBytes
  <1> QED BY <1>1, <1>2, <1>3, <1>4, <1>5

(* The end of a sequence is its first element and the rest of it.          *)
LEMMA LastElements ==
  ASSUME NEW S, NEW q \in Seq(S), NEW i \in 1 .. Len(q)
  PROVE  SubSeq(q, i, Len(q)) = <<q[i]>> \o SubSeq(q, i + 1, Len(q))
  <1> DEFINE k == Len(q)
             v == SubSeq(q, i, k)
             u == SubSeq(q, i + 1, k)
             w == <<q[i]>> \o u
  <1>1. k \in Nat /\ i \in 1 .. k /\ \A j \in 1 .. k : q[j] \in S
    OBVIOUS
  <1>2. v \in Seq(S) /\ Len(v) = k - i + 1 /\ \A j \in 1 .. k - i + 1 : v[j] = q[i + j - 1]
    BY <1>1
  <1>3. u \in Seq(S) /\ Len(u) = k - i /\ \A j \in 1 .. k - i : u[j] = q[i + j]
    <2>1. u \in Seq(S) /\ Len(u) = k - (i + 1) + 1 /\ \A j \in 1 .. k - (i + 1) + 1 : u[j] = q[(i + 1) + j - 1]
      BY <1>1
    <2> HIDE DEF u, k
    <2>2. k - (i + 1) + 1 = k - i /\ \A j \in 1 .. k - i : (i + 1) + j - 1 = i + j
      BY <1>1
    <2> QED BY <2>1, <2>2
  <1> HIDE DEF u, v
  <1>4. w \in Seq(S) /\ Len(w) = k - i + 1 /\ w[1] = q[i] /\ \A j \in 2 .. k - i + 1 : w[j] = u[j - 1]
    <2> DEFINE x == q[i]
    <2>1. x \in S
      BY <1>1
    <2> HIDE DEF k, x
    <2>2. /\ <<x>> \o u \in Seq(S) /\ Len(<<x>> \o u) = 1 + Len(u) /\ (<<x>> \o u)[1] = x
          /\ \A j \in 2 .. 1 + Len(u) : (<<x>> \o u)[j] = u[j - 1]
      BY <1>3, <2>1
    <2>3. 1 + Len(u) = k - i + 1
      BY <1>1, <1>3
    <2> QED BY <2>2, <2>3 DEF x
  <1> HIDE DEF w, k
  <1>5. \A j \in 1 .. k - i + 1 : v[j] = w[j]
    <2> TAKE j \in 1 .. k - i + 1
    <2>1. CASE j = 1
      <3>1. v[1] = q[i + 1 - 1] /\ i + 1 - 1 = i
        BY <1>1, <1>2, <2>1
      <3> QED BY <1>4, <2>1, <3>1
    <2>2. CASE j \in 2 .. k - i + 1
      <3>1. w[j] = u[j - 1] /\ j - 1 \in 1 .. k - i /\ i + (j - 1) = i + j - 1
        BY <1>1, <1>4, <2>2
      <3> QED BY <1>2, <1>3, <3>1
    <2> QED BY <1>1, <2>1, <2>2
  <1>6. v = w
    BY <1>2, <1>4, <1>5
  <1> QED BY <1>6 DEF v, w, u, k

(* The tiles of a Hextile rectangle have bytes, too.                       *)
LEMMA TilesMeasured ==
  ASSUME NEW r, r.hextiles \in Seq(Tiles)
  PROVE  /\ TileParts(r) \in Seq([len : Nat]) /\ Len(TileParts(r)) = Len(r.hextiles)
         /\ Len(r.hextiles) \in Nat
         /\ \A i \in 1 .. Len(r.hextiles) :
              /\ r.hextiles[i] \in Tiles
              /\ TileParts(r)[i].len = r.hextiles[i].head + r.hextiles[i].n * r.hextiles[i].sub
  <1>1. /\ Len(r.hextiles) \in Nat /\ DOMAIN r.hextiles = 1 .. Len(r.hextiles)
        /\ \A i \in 1 .. Len(r.hextiles) : r.hextiles[i] \in Tiles
    OBVIOUS
  <1>2. \A x \in Tiles : x.head + x.n * x.sub \in Nat
    <2> TAKE x \in Tiles
    <2>1. x.head \in Nat /\ x.n \in Nat /\ x.sub \in Nat
      BY DEF Tiles
    <2>2. x.n * x.sub \in Nat
      BY <2>1, Areas
    <2> QED BY <2>1, <2>2
  <1> DEFINE q == TileParts(r)
             k == Len(r.hextiles)
             part(i) == [len |-> r.hextiles[i].head + r.hextiles[i].n * r.hextiles[i].sub]
  <1>3. q = [i \in 1 .. k |-> part(i)]
    BY <1>1 DEF TileParts
  <1>4. \A i \in 1 .. k : part(i) \in [len : Nat]
    BY <1>1, <1>2
  <1> HIDE DEF q, k, part
  <1>5. q \in Seq([len : Nat]) /\ Len(q) = k /\ \A i \in 1 .. k : q[i] = part(i)
    <2>1. k \in Nat
      BY <1>1 DEF k
    <2> QED BY <1>3, <1>4, <2>1
  <1>6. \A i \in 1 .. k : q[i].len = r.hextiles[i].head + r.hextiles[i].n * r.hextiles[i].sub
    BY <1>5 DEF part
  <1> QED BY <1>1, <1>5, <1>6 DEF q, k

(* The bytes of the last tiles are those of their first and the rest.      *)
LEMMA LastTilesTotal ==
  ASSUME NEW r, r.hextiles \in Seq(Tiles), NEW n \in 0 .. Len(r.hextiles)
  PROVE  /\ Total(LastTiles(r, n)) \in Nat
         /\ n = 0 => Total(LastTiles(r, n)) = 0
         /\ n > 0 => LET tile == r.hextiles[Len(r.hextiles) - n + 1]
                         bytes == tile.head + tile.n * tile.sub
                     IN  /\ bytes \in Nat /\ tile.head \in Nat /\ tile.head <= bytes
                         /\ Total(LastTiles(r, n)) = bytes + Total(LastTiles(r, n - 1))
  <1> DEFINE q == TileParts(r)
             k == Len(r.hextiles)
             v == SubSeq(q, k - n + 1, k)
             u == SubSeq(q, k - n + 2, k)
             tile == r.hextiles[k - n + 1]
             bytes == tile.head + tile.n * tile.sub
  <1>1. q \in Seq([len : Nat]) /\ Len(q) = k /\ k \in Nat /\ n \in Nat /\ n <= k
    BY TilesMeasured
  <1>2. LastTiles(r, n) = v /\ LastTiles(r, n - 1) = u
    <2>1. LastTiles(r, n) = v /\ LastTiles(r, n - 1) = SubSeq(q, k - (n - 1) + 1, k)
      BY DEF LastTiles
    <2>2. k - (n - 1) + 1 = k - n + 2
      BY <1>1
    <2> QED BY <2>1, <2>2
  <1>3. \A p \in [len : Nat] : p.len \in Nat
    OBVIOUS
  <1>4. \A w \in Seq([len : Nat]) : Measured(w) /\ Total(w) \in Nat
    <2> TAKE w \in Seq([len : Nat])
    <2>1. <<>> \in Seq([len : Nat])
      OBVIOUS
    <2>2. Measured(w) /\ Measured(<<>>)
      BY <1>3, <2>1 DEF Measured
    <2> QED BY <2>2, TotalJoined
  <1> HIDE DEF q
  <1>5. v \in Seq([len : Nat]) /\ u \in Seq([len : Nat])
    <2> DEFINE A == [len : Nat]
               i == k - n + 1
    <2>1. q \in Seq(A) /\ Len(q) = k /\ k \in Nat
      BY <1>1
    <2>2. i \in 1 .. k + 1 /\ k - n + 2 = i + 1
      BY <1>1
    <2> HIDE DEF k, A, i
    <2>3. SubSeq(q, i, k) \in Seq(A) /\ SubSeq(q, i + 1, k) \in Seq(A)
      BY <2>1, <2>2
    <2> QED BY <2>2, <2>3 DEF A, i
  <1>6. ASSUME n = 0 PROVE Total(v) = 0
    <2>1. v = <<>>
      <3> HIDE DEF k
      <3> QED BY <1>1, <1>6
    <2> QED BY <2>1, TotalNone
  <1>7. ASSUME n > 0
        PROVE  bytes \in Nat /\ tile.head \in Nat /\ tile.head <= bytes /\ Total(v) = bytes + Total(u)
    <2> DEFINE i == k - n + 1
    <2>1. i \in 1 .. k /\ i + 1 = k - n + 2
      BY <1>1, <1>7
    <2>2. v = <<q[i]>> \o u
      <3>1. SubSeq(q, i, Len(q)) = <<q[i]>> \o SubSeq(q, i + 1, Len(q))
        BY <1>1, <2>1, LastElements
      <3> QED BY <1>1, <2>1, <3>1
    <2>3. tile \in Tiles /\ q[i].len = bytes
      BY <2>1, TilesMeasured DEF q
    <2>4. tile.head \in Nat /\ tile.n * tile.sub \in Nat
      <3>1. tile.head \in Nat /\ tile.n \in Nat /\ tile.sub \in Nat
        BY <2>3 DEF Tiles
      <3> HIDE DEF tile
      <3> QED BY <3>1, Areas
    <2>5. bytes \in Nat /\ tile.head <= bytes
      <3> HIDE DEF tile
      <3> QED BY <2>4
    <2> HIDE DEF v, u, i, bytes
    <2>6. Measured(<<q[i]>>) /\ Total(<<q[i]>>) = bytes
      BY <2>3, <2>5, TotalOne
    <2>7. Measured(u)
      BY <1>4, <1>5
    <2>8. Total(v) = bytes + Total(u)
      BY <2>2, <2>6, <2>7, TotalJoined
    <2> QED BY <2>4, <2>5, <2>8
  <1> HIDE DEF v, u, bytes
  <1>8. Total(v) \in Nat
    BY <1>4, <1>5
  <1> QED BY <1>2, <1>6, <1>7, <1>8 DEF bytes

(* Every rectangle has a number of bytes.                                  *)
LEMMA BodyNat == ASSUME NEW r, RectFits(r) PROVE BodyBytes(r) \in Nat
  <1>1. CASE r.encoding = "raw"
    <2>1. r.w \in Nat /\ r.h \in Nat /\ 4 * r.w \in Nat
      BY <1>1 DEF RectFits
    <2> QED BY <1>1, <2>1, Areas DEF BodyBytes
  <1>2. CASE r.encoding = "hextile"
    <2>1. TileParts(r) \in Seq([len : Nat])
      BY <1>2, TilesMeasured DEF RectFits
    <2>2. \A p \in [len : Nat] : p.len \in Nat
      OBVIOUS
    <2>3. Measured(TileParts(r))
      BY <2>1, <2>2 DEF Measured
    <2>4. Total(TileParts(r)) \in Nat
      BY <2>3, TotalJoined
    <2> QED BY <1>2, <2>4 DEF BodyBytes
  <1>3. CASE r.encoding \in {"tight", "tightPNG"}
    <2>1. BodyBytes(r) = 1 + TightBytes(r)
      BY <1>3 DEF BodyBytes
    <2> QED BY <1>3, <2>1, TightSizes
  <1>4. CASE r.encoding \in {"cursor", "vmwareCursor"}
    <2>1. r.w \in Nat /\ r.h \in Nat
      BY <1>4 DEF RectFits
    <2>2. CursorBytes(r) \in Nat
      <3>1. 4 * r.w \in Nat /\ (r.w + 7) \div 8 \in Nat
        BY <2>1, Areas
      <3>2. 4 * r.w * r.h \in Nat /\ ((r.w + 7) \div 8) * r.h \in Nat
        BY <2>1, <3>1, Areas
      <3> QED BY <3>2 DEF CursorBytes
    <2>3. VMwareCursorBytes(r) \in Nat
      <3>1. 4 * r.w \in Nat /\ 8 * r.w \in Nat
        BY <2>1
      <3>2. 4 * r.w * r.h \in Nat /\ 8 * r.w * r.h \in Nat
        BY <2>1, <3>1, Areas
      <3>3. VMwareCursorBytes(r) = IF r.form = "classic" THEN 8 * r.w * r.h ELSE 4 * r.w * r.h
        BY DEF VMwareCursorBytes
      <3> QED BY <3>2, <3>3
    <2> QED BY <1>4, <2>2, <2>3 DEF BodyBytes
  <1>5. CASE r.encoding \in {"rre", "desktopName", "extendedDesktopSize"}
    <2>1. r.n \in Nat
      BY <1>5 DEF RectFits
    <2> QED BY <1>5, <2>1 DEF BodyBytes
  <1>6. CASE r.encoding \notin {"raw", "hextile", "tight", "tightPNG", "cursor", "vmwareCursor",
                                "rre", "desktopName", "extendedDesktopSize"}
    BY <1>6 DEF BodyBytes
  <1> QED BY <1>1, <1>2, <1>3, <1>4, <1>5, <1>6

(* The decoder has some bytes to read, or none.                            *)
LEMMA UnreadNat ==
  ASSUME NEW d, DecoderFits(d), Begun(d)
  PROVE  /\ Unread(d) \in Nat
         /\ d.rect = LastRect => Unread(d) = 0
         /\ (d.lines = 0 /\ d.subrects = 0 /\ d.tiles = 0 /\ d.ctl = "none") =>
              Unread(d) = BodyBytes(d.rect)
  <1> DEFINE r == d.rect
  <1>1. CASE r = LastRect
    <2>1. r.encoding = "lastRect"
      BY <1>1 DEF LastRect
    <2>2. Unread(d) = 0 /\ BodyBytes(r) = 0
      BY <2>1 DEF Unread, BodyBytes
    <2> QED BY <1>1, <2>2
  <1>2. CASE r # LastRect
    <2>1. RectFits(r)
      BY <1>2 DEF DecoderFits, Begun
    <2>2. BodyBytes(r) \in Nat
      BY <2>1, BodyNat
    <2>3. CASE r.encoding = "raw"
      <3>1. r.w \in Nat /\ r.h \in Nat /\ d.lines \in 0 .. r.h
        BY <2>1, <2>3 DEF RectFits, DecoderFits, RawFits, Decoding
      <3>2. 4 * r.w \in Nat
        BY <3>1
      <3>3. 4 * r.w * (IF d.lines = 0 THEN r.h ELSE d.lines) \in Nat
        BY <3>1, <3>2, Areas
      <3> QED BY <1>2, <2>3, <3>3 DEF Unread, BodyBytes
    <2>4. CASE r.encoding = "rre"
      <3>1. r.n \in Nat /\ d.subrects \in 0 .. r.n
        BY <2>1, <2>4 DEF RectFits, DecoderFits, RREFits, Decoding
      <3> QED BY <1>2, <2>4, <3>1 DEF Unread, BodyBytes
    <2>5. CASE r.encoding = "hextile"
      <3>1. r.hextiles \in Seq(Tiles) /\ d.tiles \in 0 .. Len(r.hextiles) /\ Len(r.hextiles) \in Nat
        BY <2>1, <2>5 DEF RectFits, DecoderFits, HextileFits, Decoding
      <3> DEFINE n == IF d.tiles = 0 THEN Len(r.hextiles) ELSE d.tiles
      <3>2. n \in 0 .. Len(r.hextiles)
        BY <3>1
      <3>3. Total(LastTiles(r, n)) \in Nat
        BY <3>1, <3>2, LastTilesTotal
      <3>4. Unread(d) = Total(LastTiles(r, n))
        BY <2>5 DEF Unread
      <3>5. LastTiles(r, Len(r.hextiles)) = TileParts(r)
        <4> DEFINE q == TileParts(r)
        <4>1. q \in Seq([len : Nat]) /\ Len(q) = Len(r.hextiles)
          BY <3>1, TilesMeasured
        <4>2. Len(r.hextiles) - Len(r.hextiles) + 1 = 1
          BY <3>1
        <4> HIDE DEF q
        <4>3. SubSeq(q, 1, Len(q)) = q
          BY <4>1
        <4> QED BY <4>1, <4>2, <4>3 DEF LastTiles, q
      <3>6. BodyBytes(r) = Total(TileParts(r))
        BY <2>5 DEF BodyBytes
      <3> QED BY <1>2, <3>3, <3>4, <3>5, <3>6
    <2>6. CASE r.encoding \in {"tight", "tightPNG"}
      <3>1. Unread(d) = TightUnread(d) /\ BodyBytes(r) = 1 + TightBytes(r) /\ TightFits(d)
        BY <2>6 DEF Unread, BodyBytes, DecoderFits
      <3>2. /\ TightBytes(r) \in Nat
            /\ r.ctl = "basic" => ColourSize(r) \in Nat
            /\ r.ctl = "basic" /\ r.filter = "palette" =>
                 /\ PaletteSize(r) \in Nat \ {0} /\ r.n \in Nat \ {0}
                 /\ TightBytes(r) = 2 + 3 * r.n + PixelBytes(r, PaletteSize(r))
            /\ r.ctl # "fill" => r.lenBytes \in 1 .. 3 /\ r.dataLen \in Nat \ {0}
            /\ \A size \in Nat : r.ctl # "fill" => PixelBytes(r, size) \in Nat
        BY <2>1, <2>6, TightSizes
      <3>3. Decoding(d, {"tight", "tightPNG"})
        BY <2>6 DEF Decoding
      <3>4. CASE d.ctl = "none"
        BY <1>2, <3>1, <3>2, <3>4 DEF TightUnread
      <3>5. CASE d.ctl = "fill"
        BY <1>2, <3>1, <3>2, <3>5 DEF TightUnread
      <3>6. CASE d.ctl \in {"jpeg", "png"}
        <4>1. d.len \in {0, r.dataLen} /\ r.ctl # "fill"
          BY <3>1, <3>3, <3>6 DEF TightFits
        <4> QED BY <1>2, <3>1, <3>2, <3>6, <4>1 DEF TightUnread, DataUnread
      <3>7. CASE d.ctl = "basic"
        <4>1. /\ r.ctl = "basic"
              /\ \/ TightIdle(d)
                 \/ /\ d.filter = "copy" /\ d.len \in {0, r.dataLen}
                 \/ /\ d.filter = "palette" /\ r.filter = "palette"
                    /\ \/ d.colours = 0
                       \/ d.colours = r.n /\ d.len \in {0, r.dataLen}
          BY <3>1, <3>3, <3>7 DEF TightFits, LengthFits
        <4>2. CASE TightIdle(d)
          BY <1>2, <3>1, <3>2, <3>7, <4>2 DEF TightUnread, TightIdle
        <4>3. CASE d.filter = "copy" /\ d.len \in {0, r.dataLen}
          BY <1>2, <3>1, <3>2, <3>7, <4>1, <4>3 DEF TightUnread, PixelsUnread, DataUnread
        <4>4. CASE /\ d.filter = "palette" /\ r.filter = "palette"
                   /\ \/ d.colours = 0
                      \/ d.colours = r.n /\ d.len \in {0, r.dataLen}
          BY <1>2, <3>1, <3>2, <3>7, <4>1, <4>4 DEF TightUnread, PixelsUnread, DataUnread
        <4> QED BY <4>1, <4>2, <4>3, <4>4
      <3>8. d.ctl \in {"none", "fill", "jpeg", "png", "basic"}
        BY <3>1, <3>3 DEF TightFits
      <3> QED BY <3>4, <3>5, <3>6, <3>7, <3>8
    <2>7. CASE r.encoding \notin {"raw", "rre", "hextile", "tight", "tightPNG"}
      BY <1>2, <2>2, <2>7 DEF Unread
    <2> QED BY <2>3, <2>4, <2>5, <2>6, <2>7
  <1> QED BY <1>1, <1>2

(* The viewer follows what the server says.                                *)
InStep(d, t) == Viewer(d) /\ Bytes(d) /\ Parses(d, t) /\ t.repertoire \in DOMAIN Repertoires

(* In the middle of a rectangle what is left of it is left of its part,    *)
(* and after it the server goes on as after any rectangle but the last.    *)
LEMMA InsideRect ==
  ASSUME NEW d, NEW t, InStep(d, t), Inside(d)
  PROVE  /\ PartLeft(d) = Unread(d) /\ Unread(d) \in Nat \ {0} /\ d.wire # <<>>
         /\ d.rect # LastRect /\ d.rects \in Nat \ {0}
         /\ \E b \in Standings : /\ Speech(Tail(d.wire), b, Stand(t), t.repertoire)
                                 /\ IF b.open THEN b.k \in 1 .. d.rects - 1 ELSE b.k = d.rects - 1
  <1>1. DecoderFits(d) /\ Stands(d) /\ Begun(d) /\ Whole(d.wire)
    BY DEF InStep, Parses, Inside, Bytes
  <1>2. /\ d.wire # <<>> /\ Head(d.wire) = d.rect /\ d.at = d.rect.len - Unread(d)
        /\ d.rects \in Nat /\ d.rects # 0
    BY <1>1 DEF Stands
  <1>3. Unread(d) \in Nat \ {0} /\ d.rect # LastRect
    BY <1>1, UnreadNat DEF Inside
  <1>4. PartLeft(d) = Unread(d)
    <2>1. Head(d.wire).len \in Nat
      BY <1>1, <1>2, WholeFirst
    <2> QED BY <1>2, <1>3, <2>1 DEF PartLeft
  <1>5. PICK a : From(d, a) /\ Speech(d.wire, a, Stand(t), t.repertoire)
    BY DEF InStep, Parses
  <1>6. PICK S : d.wire \in Seq(S)
    BY <1>1 DEF Whole
  <1>7. PICK b \in Standings : /\ Leads(a, d.rect, b, t.repertoire)
                               /\ Speech(Tail(d.wire), b, Stand(t), t.repertoire)
    BY <1>2, <1>5, <1>6, SpeechFirst
  <1>8. a \in Standings /\ IF a.open THEN a.k \in 1 .. d.rects ELSE a.k = d.rects
    <2>1. RectsLeft(d) = d.rects
      BY DEF RectsLeft
    <2> QED BY <1>2, <1>3, <1>5, <2>1 DEF From
  <1>9. a.k \in Nat /\ a.k > 0
    BY <1>2, <1>8
  <1>10. b = [k |-> a.k - 1, open |-> a.open] /\ ~(a.open /\ a.k = 1)
    BY <1>3, <1>7, <1>8, <1>9, LeadsTo DEF InStep
  <1>11. IF b.open THEN b.k \in 1 .. d.rects - 1 ELSE b.k = d.rects - 1
    BY <1>2, <1>8, <1>9, <1>10
  <1> QED BY <1>2, <1>3, <1>4, <1>7, <1>11

(* A decoder can read what is left of its rectangle.                       *)
LEMMA InRect ==
  ASSUME NEW d, NEW t, InStep(d, t), Begun(d), NEW n \in Nat, n <= Unread(d)
  PROVE  n <= PartLeft(d)
  <1>1. CASE Inside(d)
    BY <1>1, InsideRect
  <1>2. CASE ~Inside(d)
    <2>1. DecoderFits(d) /\ Stands(d) /\ Whole(d.wire)
      BY DEF InStep, Parses, Bytes
    <2>2. n = 0 /\ d.at = 0
      BY <1>2, <2>1, UnreadNat DEF Inside, Stands
    <2>3. d.wire # <<>> => Head(d.wire).len \in Nat
      BY <2>1, WholeFirst
    <2> QED BY <2>2, <2>3 DEF PartLeft
  <1> QED BY <1>1, <1>2

(* It has read n bytes more.                                               *)
LEMMA Going ==
  ASSUME NEW d, NEW t, InStep(d, t), Begun(d), NEW n \in Nat, n <= Unread(d), n <= d.avail,
         NEW e, Viewer(e), Reaches(d, e, n), e.rect = d.rect, e.rects = d.rects,
         Unread(e) = Unread(d) - n, DecoderFits(e)
  PROVE  InStep(e, t)
  <1>1. DecoderFits(d) /\ Stands(d) /\ Bytes(d) /\ Unread(d) \in Nat
    BY UnreadNat DEF InStep, Parses
  <1>2. Bytes(e)
    BY <1>1, InRect, ReachesBytes
  <1>3. Begun(e) /\ (Inside(e) <=> n < Unread(d))
    BY <1>1 DEF Begun, Inside
  <1>4. e.rects \in Nat /\ (e.rects = 0 => ~Begun(e))
    BY <1>1 DEF Stands, Begun
  <1>5. CASE n = Unread(d) /\ n > 0
    <2>1. Inside(d) /\ ~Inside(e)
      BY <1>3, <1>5 DEF Inside
    <2>2. /\ PartLeft(d) = n /\ d.rect # LastRect /\ d.rects \in Nat \ {0}
      BY <1>5, <2>1, InsideRect
    <2>3. e.wire = Tail(d.wire) /\ e.at = 0
      BY <1>5, <2>2 DEF Reaches
    <2>4. PICK b \in Standings :
            /\ Speech(Tail(d.wire), b, Stand(t), t.repertoire)
            /\ IF b.open THEN b.k \in 1 .. d.rects - 1 ELSE b.k = d.rects - 1
      BY <2>1, InsideRect
    <2>5. RectsLeft(e) = d.rects - 1
      BY <1>3, <2>1 DEF RectsLeft
    <2>6. From(e, b)
      BY <2>2, <2>4, <2>5 DEF From
    <2>7. Stands(e)
      BY <1>4, <2>1, <2>3 DEF Stands
    <2> QED BY <1>2, <2>3, <2>4, <2>6, <2>7 DEF InStep, Parses
  <1>6. CASE ~(n = Unread(d) /\ n > 0)
    <2>1. Inside(e) <=> Inside(d)
      BY <1>1, <1>3, <1>6 DEF Inside
    <2>2. ~(n > 0 /\ n = PartLeft(d))
      <3>1. CASE Inside(d)
        BY <1>6, <3>1, InsideRect
      <3>2. CASE ~Inside(d)
        BY <1>1, <3>2 DEF Inside
      <3> QED BY <3>1, <3>2
    <2>3. e.wire = d.wire /\ e.at = d.at + n
      BY <2>2 DEF Reaches
    <2>4. Stands(e)
      <3>1. CASE Inside(d)
        <4>1. d.wire # <<>> /\ Head(d.wire) = d.rect /\ d.at = d.rect.len - Unread(d)
          BY <1>1, <3>1 DEF Stands
        <4>2. Head(d.wire).len \in Nat
          BY <1>1, <4>1, WholeFirst DEF Bytes
        <4>3. e.at = e.rect.len - Unread(e)
          BY <1>1, <2>3, <4>1, <4>2
        <4> QED BY <1>4, <2>1, <2>3, <3>1, <4>1, <4>3 DEF Stands
      <3>2. CASE ~Inside(d)
        <4>1. n = 0 /\ d.at = 0
          BY <1>1, <3>2 DEF Inside, Stands
        <4> QED BY <1>4, <2>1, <2>3, <3>2, <4>1 DEF Stands
      <3> QED BY <3>1, <3>2
    <2>5. RectsLeft(e) = RectsLeft(d)
      BY <1>3, <2>1 DEF RectsLeft
    <2>6. \A a : From(d, a) => From(e, a)
      BY <2>5 DEF From
    <2> QED BY <1>2, <2>3, <2>4, <2>6 DEF InStep, Parses
  <1> QED BY <1>5, <1>6

(* It has read all of it.                                                  *)
LEMMA Done ==
  ASSUME NEW d, NEW t, InStep(d, t), Begun(d), NEW n, n = Unread(d), n <= d.avail,
         NEW e, Viewer(e), Reaches(d, e, n), e.rect = NoRect, DecoderFits(e),
         e.rects = IF d.rect = LastRect THEN 0 ELSE d.rects - 1
  PROVE  InStep(e, t)
  <1>1. DecoderFits(d) /\ Stands(d) /\ Bytes(d) /\ n \in Nat
    BY UnreadNat DEF InStep, Parses
  <1>2. Bytes(e)
    <2>1. n <= PartLeft(d)
      BY <1>1, InRect
    <2> QED BY <1>1, <2>1, ReachesBytes
  <1>3. ~Begun(e) /\ ~Inside(e) /\ d.rects \in Nat \ {0} /\ e.rects \in Nat
    BY <1>1 DEF Begun, Inside, Stands
  <1>4. RectsLeft(e) = e.rects /\ e.rect # LastRect
    BY <1>3 DEF RectsLeft, NoRect, LastRect
  <1>5. CASE Inside(d)
    <2>1. PartLeft(d) = n /\ d.rect # LastRect /\ n > 0
      BY <1>5, InsideRect
    <2>2. e.wire = Tail(d.wire) /\ e.at = 0 /\ e.rects = d.rects - 1
      BY <2>1 DEF Reaches
    <2>3. PICK b \in Standings :
            /\ Speech(Tail(d.wire), b, Stand(t), t.repertoire)
            /\ IF b.open THEN b.k \in 1 .. d.rects - 1 ELSE b.k = d.rects - 1
      BY <1>5, InsideRect
    <2>4. From(e, b)
      BY <1>3, <1>4, <2>2, <2>3 DEF From
    <2>5. Stands(e)
      BY <1>3, <2>2 DEF Stands
    <2> QED BY <1>2, <2>2, <2>3, <2>4, <2>5 DEF InStep, Parses
  <1>6. CASE ~Inside(d)
    <2>1. n = 0 /\ d.at = 0
      BY <1>1, <1>6 DEF Inside, Stands
    <2>2. e.wire = d.wire /\ e.at = 0
      BY <2>1 DEF Reaches
    <2>3. RectsLeft(d) = d.rects - 1
      BY <1>6 DEF RectsLeft
    <2>4. \A a : From(d, a) => From(e, a)
      <3> SUFFICES ASSUME NEW a, From(d, a) PROVE From(e, a)
        OBVIOUS
      <3>1. CASE d.rect = LastRect
        BY <1>3, <3>1 DEF From
      <3>2. CASE d.rect # LastRect
        <4>1. IF a.open THEN a.k \in 1 .. d.rects - 1 ELSE a.k = d.rects - 1
          BY <1>3, <2>3, <3>2 DEF From
        <4>2. a \in Standings /\ e.rects = d.rects - 1
          BY <3>2 DEF From
        <4> QED BY <1>3, <1>4, <4>1, <4>2 DEF From
      <3> QED BY <3>1, <3>2
    <2>5. Stands(e)
      BY <1>3, <2>2 DEF Stands
    <2> QED BY <1>2, <2>2, <2>4, <2>5 DEF InStep, Parses
  <1> QED BY <1>5, <1>6

(* Of all that is not the decoders', only the size may have changed; what  *)
(* continuous updates are about changed with it.                           *)
Steady(a, b) ==
    /\ Viewer(b) /\ SameSession(a, b) /\ SameTalk(a, b)
    /\ b.asked = a.asked /\ b.continuous = a.continuous /\ b.knowsContinuous = a.knowsContinuous
    /\ b.dropped = a.dropped /\ b.flushing = a.flushing /\ b.out = a.out /\ b.halted = a.halted
    /\ a.continuous /\ a.region = a.size => b.region = b.size

(* What decoders remember                                                  *)
Remembers(a, b) ==
    /\ b.lines = a.lines /\ b.subrects = a.subrects /\ b.tiles = a.tiles
    /\ b.ctl = a.ctl /\ b.filter = a.filter /\ b.colours = a.colours /\ b.len = a.len
Cleared(d) == d.lines = 0 /\ d.subrects = 0 /\ d.tiles = 0 /\ d.ctl = "none" /\ TightIdle(d)

(* What is under way besides rectangles is still, or it was nothing.       *)
SameNews(a, b) ==
    LET ends(d) == Types(d.wire, {"endOfContinuousUpdates"})
    IN  /\ ends(a) = {} => ends(b) = {}
        /\ (\A i, j \in ends(a) : i = j) => \A i, j \in ends(b) : i = j
        /\ (\E i \in Types(a.wire, {"fence"}) : a.wire[i].request) =>
               \E i \in Types(b.wire, {"fence"}) : b.wire[i].request

(* A step of a decoder                                                     *)
Steps(a, b, t) == InStep(b, t) /\ Steady(a, b) /\ SameNews(a, b)

(* v is w without its first part: the parts of some types, one place on.   *)
Passed(w, v, T) ==
    /\ \A i \in Types(v, T) : i + 1 \in Types(w, T) /\ v[i] = w[i + 1]
    /\ \A i \in Types(w, T) : i = 1 \/ (i - 1 \in Types(v, T) /\ v[i - 1] = w[i])
    /\ (1 \in Types(w, T) <=> Head(w).type \in T) /\ w[1] = Head(w)
    /\ Types(w, T) \cup Types(v, T) \subseteq Nat \ {0}

(* So are those of any sequence that is not empty.                         *)
LEMMA TypesTail ==
  ASSUME NEW w, Whole(w), w # <<>>, NEW T
  PROVE  Passed(w, Tail(w), T)
  <1> DEFINE v == Tail(w)
  <1>0. PICK S : w \in Seq(S)
    BY DEF Whole
  <1>1. /\ Len(w) \in Nat \ {0} /\ Len(v) = Len(w) - 1 /\ DOMAIN w = 1 .. Len(w)
        /\ DOMAIN v = 1 .. Len(v) /\ w[1] = Head(w)
        /\ \A i \in 1 .. Len(w) - 1 : v[i] = w[i + 1]
    BY <1>0
  <1> HIDE DEF v
  <1>2. \A i \in Types(v, T) : i + 1 \in Types(w, T) /\ v[i] = w[i + 1]
    BY <1>1 DEF Types
  <1>3. \A i \in Types(w, T) : i = 1 \/ (i - 1 \in Types(v, T) /\ v[i - 1] = w[i])
    <2> SUFFICES ASSUME NEW i \in Types(w, T), i # 1
                 PROVE  i - 1 \in Types(v, T) /\ v[i - 1] = w[i]
      OBVIOUS
    <2> DEFINE j == i - 1
    <2>1. i \in 1 .. Len(w) /\ w[i].type \in T
      BY <1>1 DEF Types
    <2>2. j \in 1 .. Len(w) - 1 /\ i = j + 1
      BY <1>1, <2>1
    <2> HIDE DEF j
    <2>3. v[j] = w[i] /\ j \in DOMAIN v
      BY <1>1, <2>2
    <2> QED BY <2>1, <2>3 DEF Types, j
  <1>4. (1 \in Types(w, T) <=> Head(w).type \in T)
    BY <1>1 DEF Types
  <1>5. Types(w, T) \cup Types(v, T) \subseteq Nat \ {0}
    BY <1>1 DEF Types
  <1> QED BY <1>1, <1>2, <1>3, <1>4, <1>5 DEF Passed, v

(* Without a first part that is neither, news of fences and updates stays. *)
LEMMA TailNews ==
  ASSUME NEW a, NEW b, Whole(a.wire), a.wire # <<>>, b.wire = Tail(a.wire),
         Head(a.wire).type \notin {"endOfContinuousUpdates", "fence"}
  PROVE  SameNews(a, b)
  <1> DEFINE w == a.wire
             v == b.wire
  <1>1. \A T : Passed(w, v, T)
    BY TypesTail
  <1>2. Head(w).type \notin {"endOfContinuousUpdates", "fence"}
    OBVIOUS
  <1> HIDE DEF w, v
  <1> DEFINE E == {"endOfContinuousUpdates"}
  <1>3. Types(w, E) = {} => Types(v, E) = {}
    <2> HIDE DEF E
    <2> QED BY <1>1, <1>2 DEF Passed
  <1>4. (\A i, j \in Types(w, E) : i = j) => \A i, j \in Types(v, E) : i = j
    <2> HIDE DEF E
    <2> SUFFICES ASSUME \A i, j \in Types(w, E) : i = j,
                        NEW i \in Types(v, E), NEW j \in Types(v, E)
                 PROVE  i = j
      OBVIOUS
    <2>1. i + 1 = j + 1 /\ i \in Nat /\ j \in Nat
      BY <1>1, <1>2 DEF Passed
    <2> QED BY <2>1
  <1>5. (\E i \in Types(w, {"fence"}) : w[i].request) =>
          \E i \in Types(v, {"fence"}) : v[i].request
    <2> DEFINE F == {"fence"}
    <2>1. 1 \notin Types(w, F)
      BY <1>1, <1>2 DEF Passed
    <2> HIDE DEF F
    <2>2. (\E i \in Types(w, F) : w[i].request) =>
            \E i \in Types(v, F) : v[i].request
      <3> SUFFICES ASSUME NEW i \in Types(w, F), w[i].request
                   PROVE  \E j \in Types(v, F) : v[j].request
        OBVIOUS
      <3>1. i - 1 \in Types(v, F) /\ v[i - 1] = w[i]
        BY <1>1, <2>1 DEF Passed
      <3> QED BY <3>1
    <2> QED BY <2>2 DEF F
  <1> QED BY <1>3, <1>4, <1>5 DEF SameNews, w, v

(* What leaves the wire alone leaves its news alone.                       *)
LEMMA SameWireNews == ASSUME NEW a, NEW b, b.wire = a.wire PROVE SameNews(a, b)
  BY DEF SameNews

(* News that stays twice stays.                                            *)
LEMMA NewsOn == ASSUME NEW a, NEW b, NEW e, SameNews(a, b), SameNews(b, e) PROVE SameNews(a, e)
  BY DEF SameNews

(* Only rectangles are read in the middle of one.                          *)
LEMMA ReadNews ==
  ASSUME NEW d, NEW t, InStep(d, t), Begun(d), NEW n \in Nat, n <= Unread(d),
         NEW e, Reaches(d, e, n)
  PROVE  SameNews(d, e)
  <1>1. CASE e.wire = d.wire
    BY <1>1, SameWireNews
  <1>2. CASE e.wire # d.wire
    <2>1. n > 0 /\ n = PartLeft(d) /\ e.wire = Tail(d.wire)
      BY <1>2 DEF Reaches
    <2>2. DecoderFits(d) /\ Whole(d.wire) /\ Stands(d)
      BY DEF InStep, Parses, Bytes
    <2>3. Unread(d) \in Nat
      BY <2>2, UnreadNat
    <2>4. Inside(d)
      BY <2>1, <2>3 DEF Inside
    <2>5. d.wire # <<>> /\ Head(d.wire) = d.rect
      BY <2>2, <2>4 DEF Stands
    <2>6. d.rect.type = "rect"
      BY <2>2, Encodings
    <2> QED BY <2>1, <2>2, <2>5, <2>6, TailNews
  <1> QED BY <1>1, <1>2

(* What is steady twice is steady.                                         *)
LEMMA SteadyOn == ASSUME NEW a, NEW b, NEW e, Steady(a, b), Steady(b, e) PROVE Steady(a, e)
  BY DEF Steady, SameSession, SameTalk

(* What changes nothing else is steady.                                    *)
LEMMA ElseSteady ==
  ASSUME NEW a, NEW b, SameElse(a, b)
  PROVE  Steady(a, b) /\ Remembers(a, b) /\ b.rect = a.rect /\ b.rects = a.rects
  BY DEF Steady, SameElse, SameRequests, SameDecoder, Remembers

(* A resize is steady.                                                     *)
LEMMA ResizeSteady ==
  ASSUME NEW a, NEW b, Resizes(a, b)
  PROVE  Steady(a, b) /\ Remembers(a, b) /\ b.rect = a.rect /\ b.rects = a.rects
  BY DEF Steady, Resizes, SameDecoder, Remembers

(* To read and to draw what was read *)
LEMMA TookAlike == ASSUME NEW a, NEW b, NEW e, NEW n, Took(a, b, n), Alike(b, e) PROVE Took(a, e, n)
  BY DEF Took, Reaches, Alike, SameElse, SameBytes, SameSession, SameTalk, SameRequests,
         SameDecoder

(* To draw is to read nothing.                                             *)
LEMMA TookNothing ==
  ASSUME NEW a, Viewer(a), NEW b, Alike(a, b), Bytes(a)
  PROVE  Took(a, b, 0)
  BY DEF Took, Reaches, Alike, SameBytes, Bytes

(* To be done with a rectangle, and to clear what was remembered           *)
LEMMA RectDoneIs ==
  ASSUME NEW d, Viewer(d)
  PROVE  LET e == RectDone(d)
         IN  /\ Steady(d, e) /\ SameBytes(d, e) /\ Remembers(d, e)
             /\ e.rects = d.rects - 1 /\ e.rect = NoRect
  BY DEF RectDone, Viewer, Steady, SameSession, SameTalk, SameBytes, Remembers

(* A decoder that waits, that goes on, that is done                        *)
LEMMA Waiting1 ==
  ASSUME NEW d, NEW t, InStep(d, t)
  PROVE  Steps(d, d, t)
  BY SameWireNews DEF Steps, Steady, InStep, SameSession, SameTalk

(* A decoder that read a piece of its rectangle made a step.               *)
LEMMA GoesOn ==
  ASSUME NEW d, NEW t, InStep(d, t), Begun(d), NEW n \in Nat, n <= Unread(d), n <= d.avail,
         NEW e, Steady(d, e), Reaches(d, e, n), e.rect = d.rect, e.rects = d.rects,
         Unread(e) = Unread(d) - n, DecoderFits(e)
  PROVE  Steps(d, e, t)
  BY Going, ReadNews DEF Steps, Steady

(* A decoder that read all of it made a step.                              *)
LEMMA IsDone ==
  ASSUME NEW d, NEW t, InStep(d, t), Begun(d), NEW n, n = Unread(d), n <= d.avail,
         NEW e, Steady(d, e), Reaches(d, e, n), e.rect = NoRect, Cleared(e),
         d.rect # LastRect, e.rects = d.rects - 1
  PROVE  Steps(d, e, t)
  <1>1. DecoderFits(e)
    BY DEF DecoderFits, RawFits, RREFits, HextileFits, TightFits, Decoding, Begun, Cleared
  <1>2. n \in Nat /\ n <= Unread(d)
    <2>1. DecoderFits(d)
      BY DEF InStep, Parses
    <2> QED BY <2>1, UnreadNat
  <1> QED BY <1>1, <1>2, Done, ReadNews DEF Steps, Steady

(* The decoders but one have nothing to remember.                          *)
LEMMA OneDecoder ==
  ASSUME NEW d, DecoderFits(d), Begun(d)
  PROVE  /\ d.rect.encoding # "raw" => d.lines = 0
         /\ d.rect.encoding # "rre" => d.subrects = 0
         /\ d.rect.encoding # "hextile" => d.tiles = 0
         /\ d.rect.encoding \notin {"tight", "tightPNG"} => d.ctl = "none" /\ TightIdle(d)
  BY DEF DecoderFits, RawFits, RREFits, HextileFits, TightFits, Decoding

(* What a rectangle in progress has                                        *)
LEMMA RectIs ==
  ASSUME NEW d, NEW t, InStep(d, t), Begun(d), d.rect # LastRect
  PROVE  /\ Viewer(d) /\ DecoderFits(d) /\ RectFits(d.rect) /\ Bytes(d) /\ d.avail \in Nat
         /\ Unread(d) \in Nat /\ d.rects \in Nat \ {0}
         /\ \A n \in Nat : n <= Unread(d) => Took(d, Skip(d, n), n)
  <1>1. Viewer(d) /\ DecoderFits(d) /\ RectFits(d.rect) /\ Bytes(d) /\ d.avail \in Nat
    BY Encodings DEF InStep, Parses, Bytes
  <1>2. d.rects \in Nat \ {0}
    BY DEF InStep, Parses, Stands
  <1>3. Unread(d) \in Nat
    BY <1>1, UnreadNat
  <1>4. \A n \in Nat : n <= Unread(d) => Took(d, Skip(d, n), n)
    <2> SUFFICES ASSUME NEW n \in Nat, n <= Unread(d) PROVE Took(d, Skip(d, n), n)
      OBVIOUS
    <2>1. n <= PartLeft(d)
      BY InRect
    <2> QED BY <1>1, <2>1, SkipIs DEF Bytes
  <1> QED BY <1>1, <1>2, <1>3, <1>4

(* Bytes that fill whole lines                                             *)
LEMMA WholeLines ==
  ASSUME NEW a \in Nat, NEW w \in Nat, w > 0, NEW left \in Nat
  PROVE  LET n == Min({left, a \div (4 * w)})
         IN  n \in Nat /\ n <= left /\ n * 4 * w <= a /\ n * 4 * w = 4 * w * n
  <1> DEFINE q == a \div (4 * w)
             n == Min({left, q})
  <1>1. q \in Nat /\ (4 * w) * q <= a
    <2>1. 4 * w \in Nat \ {0}
      OBVIOUS
    <2>2. \A b \in Nat \ {0} : a \div b \in Nat /\ b * (a \div b) <= a
      OBVIOUS
    <2> QED BY <2>1, <2>2
  <1> HIDE DEF q
  <1>2. n \in Nat /\ n <= left /\ n <= q
    <2>1. Min({left, q}) = IF left <= q THEN left ELSE q
      BY <1>1 DEF Min
    <2> QED BY <1>1, <2>1
  <1> HIDE DEF n
  <1>3. n * 4 * w = 4 * w * n /\ n * 4 * w \in Nat
    BY <1>2
  <1>4. 4 * w * n <= 4 * w * q
    BY <1>1, <1>2
  <1>5. n * 4 * w <= a
    BY <1>1, <1>2, <1>3, <1>4
  <1> QED BY <1>2, <1>3, <1>5 DEF n, q

(* To remember something else                                              *)
Remembering(a, b) ==
    Steady(a, b) /\ SameBytes(a, b) /\ b.rect = a.rect /\ b.rects = a.rects

(* What leaves the bytes alone is as far as before.                        *)
LEMMA ReachesOn ==
  ASSUME NEW a, NEW b, NEW e, NEW n, Reaches(a, b, n), SameBytes(b, e)
  PROVE  Reaches(a, e, n)
  BY DEF Reaches, SameBytes

(* It is no further from where it began.                                   *)
LEMMA ReachesSame ==
  ASSUME NEW a, NEW b, Bytes(a), SameBytes(a, b)
  PROVE  Reaches(a, b, 0)
  BY DEF Reaches, SameBytes, Bytes

(* Lines as they arrive                                                    *)
LEMMA RawSteps ==
  ASSUME NEW d, NEW t, InStep(d, t), Decoding(d, {"raw"})
  PROVE  Steps(d, DecodeRaw(d), t)
  <1> DEFINE r == d.rect
             left == IF d.lines = 0 THEN r.h ELSE d.lines
             arrived == Min({left, d.avail \div (4 * r.w)})
             n == arrived * 4 * r.w
             u == BlitImage(Skip(d, n), r.cell, r.colour, TRUE)
  <1>0. Begun(d) /\ r.encoding = "raw" /\ r # LastRect
    BY DEF Decoding, LastRect
  <1>1. /\ Viewer(d) /\ DecoderFits(d) /\ RectFits(r) /\ Bytes(d) /\ d.avail \in Nat
        /\ Unread(d) \in Nat /\ d.rects \in Nat \ {0}
        /\ \A m \in Nat : m <= Unread(d) => Took(d, Skip(d, m), m)
    BY <1>0, RectIs
  <1>2. r.w \in Nat /\ r.h \in Nat /\ d.lines \in 0 .. r.h /\ (r.w = 0 => d.lines = 0)
    BY <1>0, <1>1 DEF RectFits, DecoderFits, RawFits, Decoding
  <1>3. d.subrects = 0 /\ d.tiles = 0 /\ d.ctl = "none" /\ TightIdle(d)
    BY <1>0, <1>1, OneDecoder
  <1>4. Unread(d) = 4 * r.w * left /\ left \in Nat
    BY <1>0, <1>2 DEF Unread
  <1>7. DecodeRaw(d) = CASE r.w = 0 \/ r.h = 0 -> RectDone(d)
                         [] r.w > 0 /\ r.h > 0 /\ arrived = 0 -> [d EXCEPT !.lines = left]
                         [] r.w > 0 /\ r.h > 0 /\ arrived \in 1 .. left - 1 -> [u EXCEPT !.lines = left - arrived]
                         [] OTHER -> RectDone([u EXCEPT !.lines = 0])
    BY DEF DecodeRaw
  <1>5. CASE r.w = 0 \/ r.h = 0
    <2> DEFINE e == RectDone(d)
    <2>1. DecodeRaw(d) = e
      <3> HIDE DEF u, arrived, left, e
      <3>1. ~(r.w > 0 /\ r.h > 0)
        BY <1>2, <1>5
      <3> QED BY <1>5, <1>7, <3>1 DEF e
    <2>2. d.lines = 0 /\ Unread(d) = 0
      <3>1. CASE r.w = 0
        BY <1>2, <1>4, <3>1
      <3>2. CASE r.h = 0
        BY <1>2, <1>4, <3>2
      <3> QED BY <1>5, <3>1, <3>2
    <2>3. /\ Steady(d, e) /\ SameBytes(d, e) /\ Remembers(d, e)
          /\ e.rects = d.rects - 1 /\ e.rect = NoRect
      BY <1>1, RectDoneIs
    <2> HIDE DEF e
    <2>4. Cleared(e)
      BY <1>3, <2>2, <2>3 DEF Cleared, TightIdle, Remembers
    <2>5. Reaches(d, e, 0)
      BY <1>1, <2>3, ReachesSame
    <2>6. 0 <= d.avail
      BY <1>1
    <2> QED BY <1>0, <2>1, <2>2, <2>3, <2>4, <2>5, <2>6, IsDone
  <1>6. CASE r.w > 0 /\ r.h > 0
    <2>1. left > 0 /\ left \in Nat /\ left <= r.h
      BY <1>2, <1>6
    <2>2. arrived \in Nat /\ arrived <= left /\ n <= d.avail /\ n = 4 * r.w * arrived
      <3> HIDE DEF left
      <3> QED BY <1>1, <1>2, <1>6, <2>1, WholeLines
    <2>3. n \in Nat /\ n <= Unread(d)
      <3> HIDE DEF left, arrived, n
      <3>1. 4 * r.w \in Nat
        BY <1>2
      <3>2. 4 * r.w * arrived \in Nat
        BY <2>2, <3>1, Areas
      <3>3. \A x \in Nat : x * arrived <= x * left
        BY <2>1, <2>2
      <3> QED BY <1>4, <2>2, <3>1, <3>2, <3>3
    <2>4. CASE arrived = 0
      <3> DEFINE e == [d EXCEPT !.lines = left]
      <3>1. DecodeRaw(d) = e
        BY <1>6, <1>2, <2>4 DEF DecodeRaw
      <3>2. /\ Remembering(d, e) /\ e.lines = left /\ e.subrects = d.subrects /\ e.tiles = d.tiles
            /\ e.ctl = d.ctl /\ e.filter = d.filter /\ e.colours = d.colours /\ e.len = d.len
        BY <1>1 DEF Remembering, Steady, SameSession, SameTalk, SameBytes, Viewer
      <3> HIDE DEF e
      <3>3. Unread(e) = Unread(d) - 0
        <4>1. Unread(e) = 4 * r.w * left
          BY <1>0, <2>1, <3>2 DEF Unread, Remembering
        <4> HIDE DEF left
        <4> QED BY <1>1, <1>4, <4>1
      <3>4. DecoderFits(e)
        <4>1. e.rect = r
          BY <3>2 DEF Remembering
        <4>2. e.lines \in 0 .. r.h
          BY <1>2, <2>1, <3>2
        <4>3. RawFits(e)
          BY <1>0, <1>2, <1>6, <4>1, <4>2 DEF RawFits, Decoding, Begun
        <4> HIDE DEF left
        <4> QED BY <1>0, <1>1, <1>3, <3>2, <4>1, <4>3
                DEF DecoderFits, RREFits, HextileFits, TightFits, Decoding, TightIdle, Begun
      <3>5. Reaches(d, e, 0)
        BY <1>1, <3>2, ReachesSame DEF Remembering
      <3>6. Steady(d, e) /\ e.rect = d.rect /\ e.rects = d.rects
        BY <3>2 DEF Remembering
      <3>7. 0 <= d.avail /\ 0 <= Unread(d)
        BY <1>1
      <3>8. Steps(d, e, t)
        BY <1>0, <3>3, <3>4, <3>5, <3>6, <3>7, GoesOn
      <3> QED BY <3>1, <3>8
    <2>5. Took(d, u, n)
      <3> DEFINE f == Skip(d, n)
      <3>1. Took(d, f, n)
        BY <1>1, <2>3
      <3>2. Viewer(f)
        BY <3>1 DEF Took, SameElse
      <3> HIDE DEF f, n
      <3>3. Alike(f, BlitImage(f, r.cell, r.colour, TRUE))
        BY <3>2, DrawingDraws
      <3>4. Took(d, BlitImage(f, r.cell, r.colour, TRUE), n)
        BY <3>1, <3>3, TookAlike
      <3> QED BY <3>4 DEF f
    <2>6. Viewer(u) /\ Steady(d, u) /\ Remembers(d, u) /\ u.rect = r /\ u.rects = d.rects /\ Reaches(d, u, n)
      BY <2>5, ElseSteady DEF Took, SameElse
    <2> HIDE DEF u
    <2>8. CASE arrived > 0 /\ arrived < left
      <3> DEFINE e == [u EXCEPT !.lines = left - arrived]
      <3>1. DecodeRaw(d) = e
        <4> HIDE DEF left, arrived, e
        <4>1. ~(r.w = 0 \/ r.h = 0) /\ ~(arrived = 0) /\ arrived \in 1 .. left - 1
          BY <1>2, <1>6, <2>1, <2>2, <2>8
        <4> QED BY <1>6, <1>7, <4>1 DEF e
      <3>2. /\ Remembering(u, e) /\ e.lines = left - arrived /\ e.subrects = u.subrects
            /\ e.tiles = u.tiles /\ e.ctl = u.ctl /\ e.filter = u.filter /\ e.colours = u.colours
            /\ e.len = u.len
        BY <2>6 DEF Remembering, Steady, SameSession, SameTalk, SameBytes, Viewer
      <3> HIDE DEF e
      <3>3. Steady(d, e) /\ Reaches(d, e, n) /\ e.rect = r /\ e.rects = d.rects
        BY <2>6, <3>2, SteadyOn, ReachesOn DEF Remembering
      <3>4. Unread(e) = Unread(d) - n
        <4>1. e.lines # 0
          <5> HIDE DEF left, arrived
          <5> QED BY <2>1, <2>2, <2>8, <3>2
        <4>2. Unread(e) = 4 * r.w * e.lines
          BY <1>0, <3>3, <4>1 DEF Unread
        <4>3. \A x \in Nat : x * (left - arrived) = x * left - x * arrived
          <5> HIDE DEF left, arrived
          <5> QED BY <2>1, <2>2
        <4>4. 4 * r.w \in Nat
          BY <1>2
        <4> HIDE DEF left, arrived, n
        <4> QED BY <1>4, <2>2, <3>2, <4>2, <4>3, <4>4
      <3>5. DecoderFits(e)
        <4>1. e.lines \in 0 .. r.h
          <5> HIDE DEF left, arrived
          <5> QED BY <1>2, <2>1, <2>2, <2>8, <3>2
        <4>2. e.subrects = 0 /\ e.tiles = 0 /\ e.ctl = "none" /\ TightIdle(e)
          BY <1>3, <2>6, <3>2 DEF Remembers, TightIdle
        <4> QED BY <1>0, <1>1, <1>2, <1>6, <3>3, <4>1, <4>2
                DEF DecoderFits, RawFits, RREFits, HextileFits, TightFits, Decoding, Begun
      <3>6. Steps(d, e, t)
        <4> HIDE DEF n
        <4> QED BY <1>0, <2>2, <2>3, <3>3, <3>4, <3>5, GoesOn
      <3> QED BY <3>1, <3>6
    <2>9. CASE arrived = left
      <3> DEFINE v == [u EXCEPT !.lines = 0]
                 e == RectDone(v)
      <3>1. DecodeRaw(d) = e
        <4> HIDE DEF left, arrived, e
        <4>1. ~(r.w = 0 \/ r.h = 0) /\ ~(arrived = 0) /\ arrived \notin 1 .. left - 1
          BY <1>2, <1>6, <2>1, <2>2, <2>9
        <4> QED BY <1>7, <2>9, <4>1 DEF e
      <3>2. /\ Remembering(u, v) /\ v.lines = 0 /\ v.subrects = u.subrects
            /\ v.tiles = u.tiles /\ v.ctl = u.ctl /\ v.filter = u.filter /\ v.colours = u.colours
            /\ v.len = u.len
        BY <2>6 DEF Remembering, Steady, SameSession, SameTalk, SameBytes, Viewer
      <3>3. Viewer(v)
        BY <3>2 DEF Remembering, Steady
      <3> HIDE DEF v
      <3>4. /\ Steady(v, e) /\ SameBytes(v, e) /\ Remembers(v, e)
            /\ e.rects = v.rects - 1 /\ e.rect = NoRect
        BY <3>3, RectDoneIs
      <3> HIDE DEF e
      <3>5. Steady(d, e) /\ Reaches(d, e, n) /\ e.rects = d.rects - 1
        BY <2>6, <3>2, <3>4, SteadyOn, ReachesOn DEF Remembering
      <3>6. Cleared(e)
        BY <1>3, <2>6, <3>2, <3>4 DEF Cleared, Remembers, TightIdle
      <3>7. n = Unread(d)
        <4> HIDE DEF left, arrived, n
        <4> QED BY <1>4, <2>2, <2>9
      <3>8. Steps(d, e, t)
        <4> HIDE DEF n
        <4> QED BY <1>0, <2>2, <3>4, <3>5, <3>6, <3>7, IsDone
      <3> QED BY <3>1, <3>8
    <2> QED
      <3> HIDE DEF left, arrived
      <3> QED BY <2>1, <2>2, <2>4, <2>8, <2>9
  <1> QED BY <1>2, <1>5, <1>6

(* To follow is a matter of bytes and decoders only.                       *)
LEMMA StepOn ==
  ASSUME NEW a, NEW t, InStep(a, t), NEW b, Viewer(b), Bytes(b), b.wire = a.wire, b.at = a.at,
         Remembers(a, b), b.rect = a.rect, b.rects = a.rects
  PROVE  InStep(b, t)
  <1>2. Begun(b) = Begun(a) /\ \A E : Decoding(b, E) = Decoding(a, E)
    BY DEF Begun, Decoding
  <1>3. Unread(b) = Unread(a)
    <2>1. TightUnread(b) = TightUnread(a)
      BY DEF TightUnread, PixelsUnread, DataUnread, Remembers
    <2> QED BY <2>1 DEF Unread, Remembers
  <1>4. DecoderFits(a) => DecoderFits(b)
    <2>1. TightFits(a) => TightFits(b)
      BY <1>2 DEF TightFits, TightIdle, LengthFits, Remembers
    <2>2. (RawFits(a) => RawFits(b)) /\ (RREFits(a) => RREFits(b)) /\ (HextileFits(a) => HextileFits(b))
      BY <1>2 DEF RawFits, RREFits, HextileFits, Remembers
    <2> QED BY <2>1, <2>2 DEF DecoderFits
  <1>5. Inside(b) <=> Inside(a)
    BY <1>2, <1>3 DEF Inside
  <1>6. Stands(a) => Stands(b)
    BY <1>2, <1>3, <1>5 DEF Stands
  <1>7. \A x : From(a, x) => From(b, x)
    BY <1>2, <1>5 DEF From, RectsLeft
  <1> QED BY <1>4, <1>6, <1>7 DEF InStep, Parses

(* With the same bytes it is in step, too.                                 *)
LEMMA StepAlike ==
  ASSUME NEW a, NEW t, InStep(a, t), NEW b, Viewer(b), SameBytes(a, b), Remembers(a, b),
         b.rect = a.rect, b.rects = a.rects
  PROVE  InStep(b, t)
  <1>1. Bytes(b)
    BY DEF InStep, Bytes, SameBytes
  <1> QED BY <1>1, StepOn DEF SameBytes

(* A rectangle that was read is done.                                      *)
LEMMA Finishes ==
  ASSUME NEW d, NEW t, InStep(d, t), Begun(d), d.rect # LastRect, NEW n, n = Unread(d),
         n <= d.avail, NEW u, Steady(d, u), Reaches(d, u, n), u.rects = d.rects, Cleared(u)
  PROVE  Steps(d, RectDone(u), t)
  <1> DEFINE e == RectDone(u)
  <1>1. /\ Steady(u, e) /\ SameBytes(u, e) /\ Remembers(u, e) /\ e.rects = u.rects - 1
        /\ e.rect = NoRect
    BY RectDoneIs DEF Steady
  <1> HIDE DEF e
  <1>2. Steady(d, e) /\ Reaches(d, e, n) /\ e.rects = d.rects - 1
    BY <1>1, SteadyOn, ReachesOn
  <1>3. Cleared(e)
    BY <1>1 DEF Cleared, Remembers, TightIdle
  <1> QED BY <1>1, <1>2, <1>3, IsDone DEF e

(* Decoders that read all of a rectangle or nothing                        *)
LEMMA AtOnce ==
  ASSUME NEW d, NEW t, InStep(d, t), Begun(d), d.rect # LastRect,
         d.rect.encoding \notin {"raw", "rre", "hextile", "tight", "tightPNG"},
         Unread(d) <= d.avail
  PROVE  /\ Took(d, Skip(d, Unread(d)), Unread(d))
         /\ \A u : Took(d, u, Unread(d)) => Steps(d, RectDone(u), t)
  <1>1. Cleared(d) /\ Took(d, Skip(d, Unread(d)), Unread(d))
    <2>1. /\ DecoderFits(d) /\ Unread(d) \in Nat
          /\ \A n \in Nat : n <= Unread(d) => Took(d, Skip(d, n), n)
      BY RectIs
    <2> QED BY <2>1, OneDecoder DEF Cleared
  <1>2. ASSUME NEW u, Took(d, u, Unread(d)) PROVE Steps(d, RectDone(u), t)
    <2>1. /\ Steady(d, u) /\ Remembers(d, u) /\ u.rects = d.rects /\ Reaches(d, u, Unread(d))
      BY <1>2, ElseSteady DEF Took
    <2>2. Cleared(u)
      BY <1>1, <2>1 DEF Cleared, Remembers, TightIdle
    <2> QED BY <2>1, <2>2, Finishes
  <1> QED BY <1>1, <1>2

(* A copy has the four bytes of its source.                                *)
LEMMA CopyRectSteps ==
  ASSUME NEW d, NEW t, InStep(d, t), Decoding(d, {"copyRect"})
  PROVE  Steps(d, DecodeCopyRect(d), t)
  <1>1. Begun(d) /\ d.rect # LastRect /\ d.rect.encoding = "copyRect" /\ d.avail \in Nat
    BY DEF Decoding, LastRect, InStep, Bytes
  <1>2. Unread(d) = 4
    BY <1>1 DEF Unread, BodyBytes
  <1>3. CASE Short(d, 4)
    BY <1>3, Waiting1 DEF DecodeCopyRect
  <1>4. CASE ~Short(d, 4)
    <2> DEFINE f == Skip(d, 4)
               u == CopyImage(f, d.rect.from, d.rect.cell)
    <2>1. Took(d, f, 4) /\ \A v : Took(d, v, 4) => Steps(d, RectDone(v), t)
      <3>1. Unread(d) <= d.avail
        BY <1>1, <1>2, <1>4 DEF Short
      <3> HIDE DEF f
      <3>2. Took(d, Skip(d, Unread(d)), Unread(d)) /\ \A v : Took(d, v, Unread(d)) => Steps(d, RectDone(v), t)
        BY <1>1, <3>1, AtOnce
      <3> QED BY <1>2, <3>2 DEF f
    <2>2. DecodeCopyRect(d) = RectDone(u)
      BY <1>4 DEF DecodeCopyRect
    <2> HIDE DEF f
    <2>3. Alike(f, u)
      BY <2>1, DrawingDraws DEF Took, SameElse
    <2> HIDE DEF u
    <2>4. Took(d, u, 4)
      BY <2>1, <2>3, TookAlike
    <2> QED BY <2>1, <2>2, <2>4
  <1> QED BY <1>3, <1>4

(* To resize is not to read.                                               *)
LEMMA ResizeSteps ==
  ASSUME NEW d, NEW t, InStep(d, t), NEW size
  PROVE  Steps(d, Resize(d, size), t)
  <1> DEFINE e == Resize(d, size)
  <1>1. Resizes(d, e)
    BY ResizeResizes DEF InStep
  <1> HIDE DEF e
  <1>2. Steady(d, e) /\ Remembers(d, e) /\ e.rect = d.rect /\ e.rects = d.rects
    BY <1>1, ResizeSteady
  <1>3. Viewer(e) /\ SameBytes(d, e)
    BY <1>1 DEF Resizes
  <1>4. InStep(e, t)
    BY <1>2, <1>3, StepAlike
  <1>5. SameNews(d, e)
    BY <1>3, SameWireNews DEF SameBytes
  <1> QED BY <1>2, <1>4, <1>5 DEF Steps, e

(* Steps after steps are steps.                                            *)
LEMMA StepsOn ==
  ASSUME NEW a, NEW b, NEW e, NEW t, Steps(a, b, t), Steps(b, e, t)
  PROVE  Steps(a, e, t)
  BY SteadyOn, NewsOn DEF Steps

(* Rectangles that are not drawn                                           *)
LEMMA CursorSteps ==
  ASSUME NEW d, NEW t, InStep(d, t)
  PROVE  /\ Decoding(d, {"vmwareCursor"}) => Steps(d, HandleVMwareCursor(d), t)
         /\ Decoding(d, {"cursor"}) => Steps(d, HandleCursor(d), t)
  <1> DEFINE r == d.rect
  <1>1. ASSUME Decoding(d, {"vmwareCursor"}) PROVE Steps(d, HandleVMwareCursor(d), t)
    <2> DEFINE bytes == (IF r.form = "classic" THEN 8 ELSE 4) * r.w * r.h
    <2>1. Begun(d) /\ r # LastRect /\ r.encoding = "vmwareCursor" /\ d.avail \in Nat
      BY <1>1 DEF Decoding, LastRect, InStep, Bytes
    <2>2. Unread(d) = 2 + bytes /\ Unread(d) \in Nat
      <3>1. Unread(d) \in Nat
        BY <2>1, RectIs
      <3>2. Unread(d) = 2 + bytes
        BY <2>1 DEF Unread, BodyBytes, VMwareCursorBytes
      <3> QED BY <3>1, <3>2
    <2>3. HandleVMwareCursor(d) = CASE Short(d, 1) \/ Short(d, 2 + bytes) -> d
                                    [] OTHER -> RectDone(Skip(d, 2 + bytes))
      BY DEF HandleVMwareCursor
    <2> HIDE DEF bytes
    <2>4. CASE Short(d, 1) \/ Short(d, 2 + bytes)
      BY <2>3, <2>4, Waiting1
    <2>5. CASE ~(Short(d, 1) \/ Short(d, 2 + bytes))
      <3>1. Unread(d) <= d.avail
        BY <2>1, <2>2, <2>5 DEF Short
      <3>2. Steps(d, RectDone(Skip(d, Unread(d))), t)
        BY <2>1, <3>1, AtOnce
      <3> QED BY <2>2, <2>3, <2>5, <3>2
    <2> QED BY <2>4, <2>5
  <1>2. ASSUME Decoding(d, {"cursor"}) PROVE Steps(d, HandleCursor(d), t)
    <2> DEFINE bytes == 4 * r.w * r.h + ((r.w + 7) \div 8) * r.h
    <2>1. Begun(d) /\ r # LastRect /\ r.encoding = "cursor" /\ d.avail \in Nat
      BY <1>2 DEF Decoding, LastRect, InStep, Bytes
    <2>2. Unread(d) = bytes /\ Unread(d) \in Nat
      <3>1. Unread(d) \in Nat
        BY <2>1, RectIs
      <3>2. Unread(d) = bytes
        BY <2>1 DEF Unread, BodyBytes, CursorBytes
      <3> QED BY <3>1, <3>2
    <2>3. HandleCursor(d) = IF Short(d, bytes) THEN d ELSE RectDone(Skip(d, bytes))
      BY DEF HandleCursor
    <2> HIDE DEF bytes
    <2>4. CASE Short(d, bytes)
      BY <2>3, <2>4, Waiting1
    <2>5. CASE ~Short(d, bytes)
      <3>1. Unread(d) <= d.avail
        BY <2>1, <2>2, <2>5 DEF Short
      <3>2. Steps(d, RectDone(Skip(d, Unread(d))), t)
        BY <2>1, <3>1, AtOnce
      <3> QED BY <2>2, <2>3, <2>5, <3>2
    <2> QED BY <2>4, <2>5
  <1> QED BY <1>1, <1>2

(* A name is preceded by its length.                                       *)
LEMMA NameSteps ==
  ASSUME NEW d, NEW t, InStep(d, t), Decoding(d, {"desktopName"})
  PROVE  Steps(d, HandleDesktopName(d), t)
  <1> DEFINE n == d.rect.n
             f == Skip(d, 4)
  <1>1. Begun(d) /\ d.rect # LastRect /\ d.rect.encoding = "desktopName" /\ d.avail \in Nat
    BY DEF Decoding, LastRect, InStep, Bytes
  <1>2. /\ Viewer(d) /\ RectFits(d.rect) /\ Bytes(d)
        /\ \A m \in Nat : m <= Unread(d) => Took(d, Skip(d, m), m)
    BY <1>1, RectIs
  <1>3. n \in Nat /\ Unread(d) = 4 + n
    BY <1>1, <1>2 DEF Unread, BodyBytes, RectFits
  <1>4. Took(d, f, 4)
    BY <1>2, <1>3
  <1>5. HandleDesktopName(d) = CASE Short(d, 4) -> d
                                 [] ~Short(d, 4) /\ Short(f, n) -> Back(f, 4)
                                 [] OTHER -> RectDone(Skip(f, n))
    BY DEF HandleDesktopName
  <1>6. f.avail = d.avail - 4
    BY <1>4 DEF Took, Reaches
  <1> HIDE DEF f, n
  <1>7. CASE Short(d, 4)
    BY <1>5, <1>7, Waiting1
  <1>8. CASE ~Short(d, 4) /\ Short(f, n)
    <2>1. 4 < PartLeft(d)
      <3>1. n > 0
        BY <1>1, <1>3, <1>6, <1>8 DEF Short
      <3>2. Inside(d)
        BY <1>1, <1>3 DEF Inside
      <3>3. PartLeft(d) = 4 + n
        BY <1>3, <3>2, InsideRect
      <3> QED BY <1>3, <3>1, <3>3
    <2> DEFINE e == Back(f, 4)
    <2>2. Alike(d, e)
      BY <1>2, <1>4, <2>1, BackIs
    <2> HIDE DEF e
    <2>3. InStep(e, t) /\ Steady(d, e)
      BY <2>2, ElseSteady, StepAlike DEF Alike, SameElse
    <2>4. SameNews(d, e)
      BY <2>2, SameWireNews DEF Alike, SameBytes
    <2> QED BY <1>5, <1>8, <2>3, <2>4 DEF Steps, e
  <1>9. CASE ~Short(d, 4) /\ ~Short(f, n)
    <2>1. Unread(d) <= d.avail
      BY <1>1, <1>3, <1>6, <1>9 DEF Short
    <2>2. Took(d, Skip(f, n), 4 + n)
      <3>1. 4 + n <= PartLeft(d)
        BY <1>1, <1>3, InRect
      <3> QED BY <1>2, <1>3, <1>4, <3>1, TookMore
    <2>3. Steps(d, RectDone(Skip(f, n)), t)
      BY <1>1, <1>3, <2>1, <2>2, AtOnce
    <2> QED BY <1>5, <1>9, <2>3
  <1> QED BY <1>7, <1>8, <1>9

(* The sizes of the desktop, and the answer for keys, have lengths too.    *)
LEMMA SizeSteps ==
  ASSUME NEW d, NEW t, InStep(d, t)
  PROVE  /\ Decoding(d, {"extendedDesktopSize"}) => Steps(d, HandleExtendedDesktopSize(d), t)
         /\ Decoding(d, {"desktopSize"}) => Steps(d, Resize(RectDone(d), d.rect.size), t)
         /\ Decoding(d, {"qemuExtendedKeyEvent"}) => Steps(d, RectDone(d), t)
  <1>1. ASSUME Decoding(d, {"extendedDesktopSize"}) PROVE Steps(d, HandleExtendedDesktopSize(d), t)
    <2> DEFINE bytes == 4 + 16 * d.rect.n
               e == RectDone(Skip(d, bytes))
    <2>1. Begun(d) /\ d.rect # LastRect /\ d.rect.encoding = "extendedDesktopSize" /\ d.avail \in Nat
      BY <1>1 DEF Decoding, LastRect, InStep, Bytes
    <2>2. Unread(d) = bytes /\ Unread(d) \in Nat
      <3>1. Unread(d) \in Nat
        BY <2>1, RectIs
      <3>2. Unread(d) = bytes
        BY <2>1 DEF Unread, BodyBytes
      <3> QED BY <3>1, <3>2
    <2>3. \/ HandleExtendedDesktopSize(d) = d
          \/ ~Short(d, bytes) /\ HandleExtendedDesktopSize(d) = e
          \/ ~Short(d, bytes) /\ HandleExtendedDesktopSize(d) = Resize(e, d.rect.size)
      BY DEF HandleExtendedDesktopSize
    <2> HIDE DEF bytes, e
    <2>4. CASE ~Short(d, bytes)
      <3>1. Unread(d) <= d.avail
        BY <2>1, <2>2, <2>4 DEF Short
      <3>2. Steps(d, e, t)
        <4>1. Steps(d, RectDone(Skip(d, Unread(d))), t)
          BY <2>1, <3>1, AtOnce
        <4> QED BY <2>2, <4>1 DEF e
      <3>3. Steps(e, Resize(e, d.rect.size), t)
        BY <3>2, ResizeSteps DEF Steps
      <3> QED BY <2>3, <3>2, <3>3, StepsOn, Waiting1
    <2> QED BY <2>3, <2>4, Waiting1
  <1>2. ASSUME Begun(d), d.rect.encoding \in {"desktopSize", "qemuExtendedKeyEvent"}
        PROVE  Steps(d, RectDone(d), t)
    <2>1. d.rect # LastRect /\ d.avail \in Nat /\ Viewer(d) /\ Bytes(d)
      BY <1>2 DEF LastRect, InStep, Bytes
    <2>2. Unread(d) = 0
      BY <1>2 DEF Unread, BodyBytes
    <2>3. Took(d, d, 0)
      BY <2>1, SameSelf, TookNothing
    <2>4. Unread(d) <= d.avail
      BY <2>1, <2>2
    <2>5. \A u : Took(d, u, Unread(d)) => Steps(d, RectDone(u), t)
      BY <1>2, <2>1, <2>4, AtOnce
    <2> QED BY <2>2, <2>3, <2>5
  <1>3. ASSUME Decoding(d, {"desktopSize"}) PROVE Steps(d, Resize(RectDone(d), d.rect.size), t)
    <2> DEFINE e == RectDone(d)
    <2>1. Steps(d, e, t)
      BY <1>2, <1>3 DEF Decoding
    <2> HIDE DEF e
    <2>2. Steps(e, Resize(e, d.rect.size), t)
      BY <2>1, ResizeSteps DEF Steps
    <2>3. Steps(d, Resize(e, d.rect.size), t)
      BY <2>1, <2>2, StepsOn
    <2> QED BY <2>3 DEF e
  <1> QED BY <1>1, <1>2, <1>3 DEF Decoding

(* What was read and drawn is of the rectangle in progress.                *)
LEMMA DrawnOn ==
  ASSUME NEW d, NEW t, InStep(d, t), Begun(d), d.rect # LastRect, NEW n \in Nat, n <= Unread(d),
         NEW u, Alike(Skip(d, n), u)
  PROVE  /\ Viewer(u) /\ Steady(d, u) /\ Remembers(d, u) /\ Reaches(d, u, n)
         /\ u.rect = d.rect /\ u.rects = d.rects
  <1>1. Took(d, Skip(d, n), n)
    BY RectIs
  <1>2. Took(d, u, n)
    BY <1>1, TookAlike
  <1> QED BY <1>2, ElseSteady DEF Took, SameElse

(* A subrectangle at a time                                                *)
LEMMA RRESteps ==
  ASSUME NEW d, NEW t, InStep(d, t), Decoding(d, {"rre"})
  PROVE  Steps(d, DecodeRRE(d), t)
  <1> DEFINE r == d.rect
             drawn(bytes, left) ==
                [Fill(Skip(d, bytes), r.cell, r.colour) EXCEPT !.subrects = left]
  <1>0. Begun(d) /\ r.encoding = "rre" /\ r # LastRect
    BY DEF Decoding, LastRect
  <1>1. /\ Viewer(d) /\ DecoderFits(d) /\ RectFits(r) /\ Bytes(d) /\ d.avail \in Nat
        /\ Unread(d) \in Nat /\ d.rects \in Nat \ {0}
    BY <1>0, RectIs
  <1>2. r.n \in Nat /\ d.subrects \in 0 .. r.n
    BY <1>0, <1>1 DEF RectFits, DecoderFits, RREFits, Decoding
  <1>3. d.lines = 0 /\ d.tiles = 0 /\ d.ctl = "none" /\ TightIdle(d)
    BY <1>0, <1>1, OneDecoder
  <1>4. Unread(d) = IF d.subrects = 0 THEN 8 + 12 * r.n ELSE 12 * d.subrects
    BY <1>0 DEF Unread
  <1>5. ASSUME NEW bytes \in Nat, bytes <= Unread(d), NEW left
        PROVE  LET e == drawn(bytes, left)
               IN  /\ Viewer(e) /\ Steady(d, e) /\ Reaches(d, e, bytes) /\ e.rect = r
                   /\ e.rects = d.rects /\ e.subrects = left /\ e.lines = 0 /\ e.tiles = 0
                   /\ e.ctl = "none" /\ TightIdle(e)
    <2> DEFINE f == Skip(d, bytes)
               u == Fill(f, r.cell, r.colour)
               e == [u EXCEPT !.subrects = left]
    <2>1. Viewer(f)
      BY <1>0, <1>5, RectIs DEF Took, SameElse
    <2>2. Alike(f, u)
      <3> HIDE DEF f
      <3> QED BY <2>1, DrawingDraws
    <2>3. /\ Viewer(u) /\ Steady(d, u) /\ Remembers(d, u) /\ Reaches(d, u, bytes)
          /\ u.rect = d.rect /\ u.rects = d.rects
      <3> HIDE DEF u
      <3> QED BY <1>0, <1>5, <2>2, DrawnOn
    <2> HIDE DEF u
    <2>4. /\ Remembering(u, e) /\ e.subrects = left /\ e.lines = u.lines /\ e.tiles = u.tiles
          /\ e.ctl = u.ctl /\ e.filter = u.filter /\ e.colours = u.colours /\ e.len = u.len
      BY <2>3 DEF Remembering, Steady, SameSession, SameTalk, SameBytes, Viewer
    <2> HIDE DEF e
    <2>5. Viewer(e) /\ Steady(d, e) /\ Reaches(d, e, bytes) /\ e.rect = r /\ e.rects = d.rects
      BY <2>3, <2>4, SteadyOn, ReachesOn DEF Remembering, Steady
    <2>6. e.lines = 0 /\ e.tiles = 0 /\ e.ctl = "none" /\ TightIdle(e)
      BY <1>3, <2>3, <2>4 DEF Remembers, TightIdle
    <2> QED BY <2>4, <2>5, <2>6 DEF e, u
  <1>6. DecodeRRE(d) =
          CASE d.subrects = 0 /\ ~Short(d, 8) ->
                IF r.n = 0 THEN RectDone(drawn(8, 0)) ELSE drawn(8, r.n)
            [] d.subrects = 1 /\ ~Short(d, 12) -> RectDone(drawn(12, 0))
            [] d.subrects > 1 /\ ~Short(d, 12) -> drawn(12, d.subrects - 1)
            [] OTHER -> d
    BY DEF DecodeRRE
  <1> HIDE DEF drawn
  <1>7. ASSUME NEW bytes \in Nat, bytes <= Unread(d), bytes <= d.avail, NEW left \in 1 .. r.n,
               12 * left = Unread(d) - bytes
        PROVE  Steps(d, drawn(bytes, left), t)
    <2> DEFINE e == drawn(bytes, left)
    <2>1. /\ Viewer(e) /\ Steady(d, e) /\ Reaches(d, e, bytes) /\ e.rect = r
          /\ e.rects = d.rects /\ e.subrects = left /\ e.lines = 0 /\ e.tiles = 0
          /\ e.ctl = "none" /\ TightIdle(e)
      BY <1>5, <1>7
    <2> HIDE DEF e
    <2>2. Unread(e) = Unread(d) - bytes
      BY <1>0, <1>7, <2>1 DEF Unread
    <2>3. DecoderFits(e)
      BY <1>0, <1>1, <1>2, <1>7, <2>1
         DEF DecoderFits, RawFits, RREFits, HextileFits, TightFits, Decoding, Begun
    <2> QED BY <1>0, <1>7, <2>1, <2>2, <2>3, GoesOn DEF e
  <1>8. ASSUME NEW bytes \in Nat, bytes = Unread(d), bytes <= d.avail
        PROVE  Steps(d, RectDone(drawn(bytes, 0)), t)
    <2> DEFINE e == drawn(bytes, 0)
    <2>1. /\ Viewer(e) /\ Steady(d, e) /\ Reaches(d, e, bytes) /\ e.rect = r
          /\ e.rects = d.rects /\ e.subrects = 0 /\ e.lines = 0 /\ e.tiles = 0
          /\ e.ctl = "none" /\ TightIdle(e)
      BY <1>1, <1>5, <1>8
    <2> HIDE DEF e
    <2>2. Cleared(e)
      BY <2>1 DEF Cleared
    <2> QED BY <1>0, <1>8, <2>1, <2>2, Finishes DEF e
  <1>9. CASE d.subrects = 0 /\ ~Short(d, 8)
    <2>1. 8 <= d.avail /\ 8 <= Unread(d)
      BY <1>1, <1>2, <1>4, <1>9 DEF Short
    <2>2. CASE r.n = 0
      <3>1. Steps(d, RectDone(drawn(8, 0)), t)
        BY <1>4, <1>8, <1>9, <2>1, <2>2
      <3> QED BY <1>6, <1>9, <2>2, <3>1
    <2>3. CASE r.n # 0
      <3>1. r.n \in 1 .. r.n /\ 12 * r.n = Unread(d) - 8
        BY <1>2, <1>4, <1>9, <2>3
      <3>2. Steps(d, drawn(8, r.n), t)
        BY <1>7, <2>1, <3>1
      <3> QED BY <1>6, <1>9, <2>3, <3>2
    <2> QED BY <2>2, <2>3
  <1>10. CASE d.subrects = 1 /\ ~Short(d, 12)
    <2>1. 12 <= d.avail /\ 12 = Unread(d)
      BY <1>1, <1>2, <1>4, <1>10 DEF Short
    <2>2. Steps(d, RectDone(drawn(12, 0)), t)
      BY <1>8, <2>1
    <2> QED BY <1>6, <1>10, <2>2
  <1>11. CASE d.subrects > 1 /\ ~Short(d, 12)
    <2>1. 12 <= d.avail /\ 12 <= Unread(d) /\ d.subrects - 1 \in 1 .. r.n
          /\ 12 * (d.subrects - 1) = Unread(d) - 12
      BY <1>1, <1>2, <1>4, <1>11 DEF Short
    <2> DEFINE left == d.subrects - 1
    <2>2. Steps(d, drawn(12, left), t)
      <3> HIDE DEF left
      <3> QED BY <1>7, <2>1 DEF left
    <2>3. ~(d.subrects = 0) /\ ~(d.subrects = 1)
      BY <1>2, <1>11
    <2> QED BY <1>6, <1>11, <2>2, <2>3
  <1>12. CASE /\ ~(d.subrects = 0 /\ ~Short(d, 8)) /\ ~(d.subrects = 1 /\ ~Short(d, 12))
              /\ ~(d.subrects > 1 /\ ~Short(d, 12))
    BY <1>6, <1>12, Waiting1
  <1> QED BY <1>9, <1>10, <1>11, <1>12

(* A tile at a time                                                        *)
LEMMA HextileSteps ==
  ASSUME NEW d, NEW t, InStep(d, t), Decoding(d, {"hextile"})
  PROVE  Steps(d, DecodeHextile(d), t)
  <1> DEFINE r == d.rect
             k == Len(r.hextiles)
             left == IF d.tiles = 0 THEN k ELSE d.tiles
             tile == r.hextiles[k - left + 1]
             bytes == tile.head + tile.n * tile.sub
             f == Skip(d, bytes)
             read == [f EXCEPT !.tiles = left - 1, !.lastRaw = tile.kind = "raw"]
             drawn == DrawTile(read, tile, d.lastRaw)
             waiting == [d EXCEPT !.tiles = left]
  <1>0. Begun(d) /\ r.encoding = "hextile" /\ r # LastRect
    BY DEF Decoding, LastRect
  <1>1. /\ Viewer(d) /\ DecoderFits(d) /\ RectFits(r) /\ Bytes(d) /\ d.avail \in Nat
        /\ Unread(d) \in Nat /\ d.rects \in Nat \ {0}
        /\ \A n \in Nat : n <= Unread(d) => Took(d, Skip(d, n), n)
    BY <1>0, RectIs
  <1>2. r.hextiles \in Seq(Tiles) /\ k \in Nat /\ d.tiles \in 0 .. k /\ left \in 0 .. k
    <2>1. r.hextiles \in Seq(Tiles) /\ d.tiles \in 0 .. k
      BY <1>0, <1>1 DEF RectFits, DecoderFits, HextileFits, Decoding
    <2>2. k \in Nat
      BY <2>1
    <2> HIDE DEF k
    <2> QED BY <2>1, <2>2
  <1>3. d.lines = 0 /\ d.subrects = 0 /\ d.ctl = "none" /\ TightIdle(d)
    BY <1>0, <1>1, OneDecoder
  <1>4. Unread(d) = Total(LastTiles(r, left))
    BY <1>0 DEF Unread
  <1>5. /\ left = 0 => Unread(d) = 0
        /\ left > 0 => /\ bytes \in Nat /\ tile.head \in Nat /\ tile.head <= bytes
                       /\ Unread(d) = bytes + Total(LastTiles(r, left - 1))
    BY <1>2, <1>4, LastTilesTotal
  <1>6. left > 0 => Total(LastTiles(r, left - 1)) \in Nat /\ (left = 1 => Total(LastTiles(r, left - 1)) = 0)
    <2> HAVE left > 0
    <2> DEFINE m == left - 1
    <2>1. m \in 0 .. Len(r.hextiles) /\ (left = 1 => m = 0)
      BY <1>2
    <2> HIDE DEF m
    <2> QED BY <1>2, <2>1, LastTilesTotal DEF m
  <1>7. DecodeHextile(d) =
          CASE left = 0 -> RectDone(d)
            [] left > 0 /\ (Short(d, tile.head) \/ Short(d, bytes)) -> waiting
            [] left = 1 /\ ~Short(d, tile.head) /\ ~Short(d, bytes) -> RectDone(drawn)
            [] OTHER -> drawn
    BY DEF DecodeHextile
  <1>8. waiting = [d EXCEPT !.tiles = left]
    OBVIOUS
  <1>r. read = [f EXCEPT !.tiles = left - 1, !.lastRaw = tile.kind = "raw"]
    OBVIOUS
  <1>d. drawn = DrawTile(read, tile, d.lastRaw)
    OBVIOUS
  <1>f. f = Skip(d, bytes)
    OBVIOUS
  <1> HIDE DEF drawn, read, f, waiting, tile, bytes
  <1>9. CASE left = 0
    <2>1. DecodeHextile(d) = RectDone(d) /\ d.tiles = 0
      <3>1. ~(left > 0) /\ ~(left = 1)
        BY <1>9
      <3> QED BY <1>2, <1>7, <1>9, <3>1
    <2>2. Cleared(d) /\ Steady(d, d) /\ Reaches(d, d, 0)
      BY <1>1, <1>3, <2>1, SameSelf, ElseSteady, TookNothing DEF Cleared, Alike, Took
    <2>3. 0 <= d.avail /\ 0 = Unread(d)
      BY <1>1, <1>5, <1>9
    <2> QED BY <1>0, <2>1, <2>2, <2>3, Finishes
  <1>10. CASE left > 0 /\ (Short(d, tile.head) \/ Short(d, bytes))
    <2>1. DecodeHextile(d) = waiting
      <3>1. ~(left = 0)
        BY <1>10
      <3> HIDE DEF left
      <3> QED BY <1>7, <1>10, <3>1
    <2>2. /\ Remembering(d, waiting) /\ waiting.tiles = left /\ waiting.lines = d.lines
          /\ waiting.subrects = d.subrects /\ waiting.ctl = d.ctl /\ waiting.filter = d.filter
          /\ waiting.colours = d.colours /\ waiting.len = d.len
      <3> HIDE DEF left
      <3> QED BY <1>1, <1>8 DEF Remembering, Steady, SameSession, SameTalk, SameBytes, Viewer
    <2>3. Steady(d, waiting) /\ waiting.rect = r /\ waiting.rects = d.rects
          /\ Reaches(d, waiting, 0)
      BY <1>1, <2>2, ReachesSame DEF Remembering
    <2>4. Unread(waiting) = Unread(d) - 0
      <3>1. Unread(waiting) = Total(LastTiles(r, left))
        BY <1>0, <1>10, <2>2, <2>3 DEF Unread
      <3> HIDE DEF left
      <3> QED BY <1>1, <1>4, <3>1
    <2>5. DecoderFits(waiting)
      <3>1. HextileFits(waiting)
        BY <1>0, <1>2, <2>2, <2>3 DEF HextileFits, Decoding, Begun
      <3> HIDE DEF left
      <3> QED BY <1>0, <1>1, <1>3, <2>2, <2>3, <3>1
              DEF DecoderFits, RawFits, RREFits, TightFits, Decoding, TightIdle, Begun
    <2>6. 0 <= Unread(d) /\ 0 <= d.avail
      BY <1>1
    <2>7. Steps(d, waiting, t)
      BY <1>0, <2>3, <2>4, <2>5, <2>6, GoesOn
    <2> QED BY <2>1, <2>7
  <1>11. CASE left > 0 /\ ~Short(d, tile.head) /\ ~Short(d, bytes)
    <2>1. bytes \in Nat /\ bytes <= Unread(d) /\ bytes <= d.avail
      <3> HIDE DEF left
      <3> QED BY <1>1, <1>5, <1>6, <1>11 DEF Short
    <2>2. Took(d, f, bytes)
      BY <1>1, <1>f, <2>1
    <2>3. Viewer(f) /\ Steady(d, f) /\ Remembers(d, f) /\ Reaches(d, f, bytes)
          /\ f.rect = r /\ f.rects = d.rects
      BY <2>2, ElseSteady DEF Took, SameElse
    <2>4. /\ Viewer(read) /\ Remembering(f, read) /\ read.tiles = left - 1 /\ read.lines = f.lines
          /\ read.subrects = f.subrects /\ read.ctl = f.ctl /\ read.filter = f.filter
          /\ read.colours = f.colours /\ read.len = f.len
      <3> HIDE DEF left
      <3> QED BY <1>r, <2>3 DEF Remembering, Steady, SameSession, SameTalk, SameBytes, Viewer
    <2>5. Alike(read, drawn)
      <3>1. \/ drawn = read \/ drawn = Fill(read, read.rect.cell, read.rect.colour)
            \/ drawn = BlitImage(read, read.rect.cell, read.rect.colour, tile.kind = "raw")
        BY <1>d DEF DrawTile
      <3> QED BY <2>4, <3>1, SameSelf, DrawingDraws
    <2>6. /\ Viewer(drawn) /\ Steady(read, drawn) /\ Remembers(read, drawn) /\ SameBytes(read, drawn)
          /\ drawn.rect = read.rect /\ drawn.rects = read.rects
      BY <2>5, ElseSteady DEF Alike, SameElse
    <2>7. /\ Steady(d, drawn) /\ Reaches(d, drawn, bytes) /\ drawn.rect = r
          /\ drawn.rects = d.rects
      BY <2>3, <2>4, <2>6, SteadyOn, ReachesOn DEF Remembering
    <2>8. /\ drawn.tiles = left - 1 /\ drawn.lines = 0 /\ drawn.subrects = 0 /\ drawn.ctl = "none"
          /\ TightIdle(drawn)
      BY <1>3, <2>3, <2>4, <2>6 DEF Remembers, TightIdle
    <2>9. CASE left = 1
      <3>1. DecodeHextile(d) = RectDone(drawn)
        <4>1. ~(left = 0)
          BY <2>9
        <4> HIDE DEF left
        <4> QED BY <1>7, <1>11, <2>9, <4>1
      <3>2. Cleared(drawn)
        <4>1. left - 1 = 0
          BY <2>9
        <4> QED BY <2>8, <4>1 DEF Cleared
      <3>3. bytes = Unread(d)
        <4> HIDE DEF left
        <4> QED BY <1>5, <1>6, <2>1, <2>9
      <3> QED BY <1>0, <2>1, <2>7, <3>1, <3>2, <3>3, Finishes
    <2>10. CASE left # 1
      <3>1. DecodeHextile(d) = drawn
        <4>1. ~(left = 0)
          BY <1>11
        <4> HIDE DEF left
        <4> QED BY <1>7, <1>11, <2>10, <4>1
      <3>2. left - 1 \in 0 .. k /\ left - 1 # 0
        <4> HIDE DEF left, k
        <4> QED BY <1>2, <1>11, <2>10
      <3>3. Unread(drawn) = Unread(d) - bytes
        <4>1. Unread(drawn) = Total(LastTiles(r, left - 1))
          BY <1>0, <2>7, <2>8, <3>2 DEF Unread
        <4> HIDE DEF left
        <4> QED BY <1>5, <1>6, <1>11, <2>1, <4>1
      <3>4. DecoderFits(drawn)
        <4>1. HextileFits(drawn)
          BY <1>0, <2>7, <2>8, <3>2 DEF HextileFits, Decoding, Begun
        <4> HIDE DEF left
        <4> QED BY <1>0, <1>1, <2>7, <2>8, <4>1
                DEF DecoderFits, RawFits, RREFits, TightFits, Decoding, TightIdle, Begun
      <3> QED BY <1>0, <2>1, <2>7, <3>1, <3>3, <3>4, GoesOn
    <2> QED BY <2>9, <2>10
  <1>12. left \in Nat
    BY <1>2
  <1> HIDE DEF left
  <1> QED BY <1>9, <1>10, <1>11, <1>12

-----------------------------------------------------------------------------
(* The Tight decoder                                                       *)
TightEncodings == {"tight", "tightPNG"}

(* What the other decoders remember                                        *)
SameOthers(a, b) == b.lines = a.lines /\ b.subrects = a.subrects /\ b.tiles = a.tiles

(* b has read n bytes more of a's rectangle, which is still in progress.   *)
ReadOn(a, b, n) ==
    /\ Viewer(b) /\ Steady(a, b) /\ Reaches(a, b, n) /\ SameOthers(a, b)
    /\ b.rect = a.rect /\ b.rects = a.rects

(* What is known of a rectangle of Tight in progress                       *)
LEMMA TightIs ==
  ASSUME NEW d, NEW t, InStep(d, t), Decoding(d, TightEncodings)
  PROVE  /\ Begun(d) /\ d.rect # LastRect /\ Viewer(d) /\ Bytes(d) /\ DecoderFits(d)
         /\ RectFits(d.rect) /\ d.rect.encoding \in TightEncodings
         /\ TightFits(d) /\ d.lines = 0 /\ d.subrects = 0 /\ d.tiles = 0 /\ d.avail \in Nat
         /\ Unread(d) = TightUnread(d) /\ Unread(d) \in Nat
  <1>1. Begun(d) /\ d.rect # LastRect /\ d.rect.encoding \in TightEncodings
    BY DEF Decoding, LastRect, TightEncodings
  <1>2. Viewer(d) /\ DecoderFits(d) /\ RectFits(d.rect) /\ Bytes(d) /\ d.avail \in Nat /\ Unread(d) \in Nat
    BY <1>1, RectIs
  <1>3. d.lines = 0 /\ d.subrects = 0 /\ d.tiles = 0
    BY <1>1, <1>2, OneDecoder DEF TightEncodings
  <1>4. Unread(d) = TightUnread(d)
    BY <1>1 DEF Unread, TightEncodings
  <1> QED BY <1>1, <1>2, <1>3, <1>4 DEF DecoderFits

(* To read and to draw leaves what is remembered as it is.                 *)
LEMMA ReadOnDrawn ==
  ASSUME NEW d, NEW t, InStep(d, t), Decoding(d, TightEncodings), NEW n \in Nat, n <= Unread(d),
         NEW u, Alike(Skip(d, n), u)
  PROVE  ReadOn(d, u, n) /\ Remembers(d, u)
  <1>1. Begun(d) /\ d.rect # LastRect
    BY TightIs
  <1>2. /\ Viewer(u) /\ Steady(d, u) /\ Remembers(d, u) /\ Reaches(d, u, n)
        /\ u.rect = d.rect /\ u.rects = d.rects
    BY <1>1, DrawnOn
  <1> QED BY <1>2 DEF ReadOn, SameOthers, Remembers

(* To skip within it is to read on.                                        *)
LEMMA ReadOnSkip ==
  ASSUME NEW d, NEW t, InStep(d, t), Decoding(d, TightEncodings), NEW n \in Nat, n <= Unread(d)
  PROVE  ReadOn(d, Skip(d, n), n) /\ Remembers(d, Skip(d, n))
  <1>1. Viewer(Skip(d, n))
    BY TightIs, RectIs DEF Took, SameElse
  <1>2. Alike(Skip(d, n), Skip(d, n))
    BY <1>1, SameSelf
  <1> QED BY <1>2, ReadOnDrawn

(* Nothing read                                                            *)
LEMMA ReadOnSelf ==
  ASSUME NEW d, NEW t, InStep(d, t)
  PROVE  ReadOn(d, d, 0)
  BY ReachesSame DEF InStep, ReadOn, SameOthers, Steady, SameSession, SameTalk, SameBytes

(* A step in the middle of a rectangle                                     *)
LEMMA TightGoes ==
  ASSUME NEW d, NEW t, InStep(d, t), Decoding(d, TightEncodings), NEW n \in Nat, n <= Unread(d),
         n <= d.avail, NEW e, ReadOn(d, e, n), TightUnread(e) = TightUnread(d) - n, TightFits(e)
  PROVE  Steps(d, e, t) /\ Decoding(e, TightEncodings)
  <1>1. /\ Begun(d) /\ d.rect # LastRect /\ DecoderFits(d) /\ d.rect.encoding \in TightEncodings
        /\ d.lines = 0 /\ d.subrects = 0 /\ d.tiles = 0 /\ Unread(d) = TightUnread(d)
    BY TightIs
  <1>2. Begun(e) /\ Decoding(e, TightEncodings)
    BY <1>1 DEF Begun, Decoding, ReadOn
  <1>3. Unread(e) = TightUnread(e)
    BY <1>1 DEF Unread, ReadOn, TightEncodings
  <1>4. DecoderFits(e)
    BY <1>1 DEF DecoderFits, RawFits, RREFits, HextileFits, Decoding, ReadOn, SameOthers,
                TightEncodings
  <1> QED BY <1>1, <1>2, <1>3, <1>4, GoesOn DEF ReadOn

(* The last step                                                           *)
LEMMA TightEnds ==
  ASSUME NEW d, NEW t, InStep(d, t), Decoding(d, TightEncodings), NEW n, n = Unread(d),
         n <= d.avail, NEW u, ReadOn(d, u, n), u.colours = 0, u.len = 0
  PROVE  Steps(d, TightDone(u), t)
  <1> DEFINE v == RectDone(u)
             e == [v EXCEPT !.ctl = "none", !.filter = "none"]
  <1>1. /\ Begun(d) /\ d.rect # LastRect /\ d.lines = 0 /\ d.subrects = 0 /\ d.tiles = 0
    BY TightIs
  <1>2. /\ Steady(u, v) /\ SameBytes(u, v) /\ Remembers(u, v) /\ v.rects = u.rects - 1
        /\ v.rect = NoRect /\ Viewer(v)
    BY RectDoneIs DEF ReadOn, Steady
  <1>3. TightDone(u) = e
    BY DEF TightDone
  <1> HIDE DEF v
  <1>4. /\ Remembering(v, e) /\ e.ctl = "none" /\ e.filter = "none" /\ e.lines = v.lines
        /\ e.subrects = v.subrects /\ e.tiles = v.tiles /\ e.colours = v.colours /\ e.len = v.len
    BY <1>2 DEF Remembering, Steady, SameSession, SameTalk, SameBytes, Viewer
  <1> HIDE DEF e
  <1>5. Cleared(e)
    BY <1>1, <1>2, <1>4 DEF Cleared, TightIdle, Remembers, ReadOn, SameOthers
  <1>6. /\ Steady(d, e) /\ Reaches(d, e, n) /\ e.rect = NoRect /\ e.rects = d.rects - 1
    BY <1>2, <1>4, SteadyOn, ReachesOn DEF Remembering, ReadOn
  <1> QED BY <1>1, <1>3, <1>5, <1>6, IsDone

(* A solid rectangle                                                       *)
LEMMA TightFillSteps ==
  ASSUME NEW d, NEW t, InStep(d, t), Decoding(d, TightEncodings), d.ctl = "fill"
  PROVE  Steps(d, TightFill(d), t)
  <1>1. /\ Viewer(d) /\ TightFits(d) /\ d.avail \in Nat /\ Unread(d) = TightUnread(d) /\ Begun(d)
        /\ d.rect # LastRect
    BY TightIs
  <1>2. d.colours = 0 /\ d.len = 0 /\ Unread(d) = 3
    BY <1>1 DEF TightFits, TightIdle, TightUnread, TightEncodings
  <1>3. CASE Short(d, 3)
    BY <1>3, Waiting1 DEF TightFill
  <1>4. CASE ~Short(d, 3)
    <2> DEFINE f == Skip(d, 3)
               u == Fill(f, d.rect.cell, d.rect.colour)
    <2>1. TightFill(d) = TightDone(u)
      BY <1>4 DEF TightFill
    <2>2. Viewer(f)
      BY <1>1, <1>2, RectIs DEF Took, SameElse
    <2>3. Alike(f, u)
      <3> HIDE DEF f
      <3> QED BY <2>2, DrawingDraws
    <2> HIDE DEF u
    <2>4. ReadOn(d, u, 3) /\ Remembers(d, u)
      BY <1>2, <2>3, ReadOnDrawn
    <2>5. 3 <= d.avail
      BY <1>1, <1>4 DEF Short
    <2> QED BY <1>2, <2>1, <2>4, <2>5, TightEnds DEF Remembers
  <1> QED BY <1>3, <1>4

(* The decoder is at data that is preceded by its length.                  *)
AtData(d) ==
    \/ d.ctl \in {"jpeg", "png"}
    \/ /\ d.ctl = "basic"
       /\ \/ d.filter = "copy" /\ ColourSize(d.rect) >= 12
          \/ d.filter = "palette" /\ d.colours # 0 /\ PaletteSize(d.rect) >= 12

(* What is known where its data begins                                     *)
LEMMA AtDataIs ==
  ASSUME NEW d, NEW t, InStep(d, t), Decoding(d, TightEncodings), AtData(d)
  PROVE  /\ d.rect.lenBytes \in 1 .. 3 /\ d.rect.dataLen \in Nat \ {0}
         /\ d.len \in {0, d.rect.dataLen}
         /\ Unread(d) = DataUnread(d)
         /\ \A e : /\ e.ctl = d.ctl /\ e.filter = d.filter /\ e.colours = d.colours
                   /\ e.rect = d.rect /\ e.len \in {0, d.rect.dataLen}
                   => /\ TightUnread(e) = DataUnread(e) /\ TightFits(e) /\ AtData(e)
  <1> DEFINE r == d.rect
  <1>1. /\ Begun(d) /\ RectFits(r) /\ r.encoding \in TightEncodings /\ TightFits(d)
        /\ Unread(d) = TightUnread(d)
    BY TightIs
  <1>2. r.ctl # "fill" /\ d.len \in {0, r.dataLen}
    BY <1>1 DEF AtData, TightFits, TightIdle, LengthFits, Decoding, TightEncodings
  <1>3. r.lenBytes \in 1 .. 3 /\ r.dataLen \in Nat \ {0}
    BY <1>1, <1>2 DEF RectFits, TightEncodings
  <1>s. /\ r.ctl = "basic" => ColourSize(r) \in Nat
        /\ r.ctl = "basic" /\ r.filter = "palette" => PaletteSize(r) \in Nat
    BY <1>1, TightSizes DEF TightEncodings
  <1>4. ASSUME NEW e, e.ctl = d.ctl, e.filter = d.filter, e.colours = d.colours, e.rect = r,
               e.len \in {0, r.dataLen}
        PROVE  TightUnread(e) = DataUnread(e) /\ TightFits(e) /\ AtData(e)
    <2>1. CASE d.ctl \in {"jpeg", "png"}
      <3>1. TightUnread(e) = DataUnread(e)
        BY <1>4, <2>1 DEF TightUnread
      <3> QED BY <1>1, <1>4, <2>1, <3>1 DEF TightFits, AtData, Decoding, Begun, TightEncodings
    <2>2. CASE d.ctl = "basic" /\ d.filter = "copy" /\ ColourSize(r) >= 12
      <3>1. /\ r.ctl = "basic" /\ r.filter \in {"none", "copy"} /\ d.colours = 0
        BY <1>1, <2>2 DEF TightFits, TightIdle, Decoding, TightEncodings
      <3>2. TightUnread(e) = DataUnread(e)
        BY <1>s, <1>4, <2>2, <3>1 DEF TightUnread, PixelsUnread
      <3> QED BY <1>1, <1>4, <2>2, <3>1, <3>2
              DEF TightFits, LengthFits, AtData, Decoding, Begun, TightEncodings
    <2>3. CASE d.ctl = "basic" /\ d.filter = "palette" /\ d.colours # 0 /\ PaletteSize(r) >= 12
      <3>1. /\ r.ctl = "basic" /\ r.filter = "palette" /\ d.colours = r.n
        BY <1>1, <2>3 DEF TightFits, TightIdle, Decoding, TightEncodings
      <3>2. TightUnread(e) = DataUnread(e)
        BY <1>s, <1>4, <2>3, <3>1 DEF TightUnread, PixelsUnread
      <3> QED BY <1>1, <1>4, <2>3, <3>1, <3>2
              DEF TightFits, LengthFits, AtData, Decoding, Begun, TightEncodings
    <2> QED BY <2>1, <2>2, <2>3 DEF AtData
  <1>5. TightUnread(d) = DataUnread(d)
    BY <1>2, <1>4
  <1> QED BY <1>1, <1>2, <1>3, <1>4, <1>5

(* The length is read once, and remembered until the data is.              *)
LEMMA ReadLengthSteps ==
  ASSUME NEW d, NEW t, InStep(d, t), Decoding(d, TightEncodings), AtData(d)
  PROVE  LET e == ReadLength(d)
         IN  /\ Steps(d, e, t) /\ Decoding(e, TightEncodings) /\ AtData(e)
             /\ e.rect = d.rect /\ e.colours = d.colours
  <1> DEFINE r == d.rect
             f == Skip(d, r.lenBytes)
             e == [f EXCEPT !.len = r.dataLen]
  <1>1. /\ r.lenBytes \in 1 .. 3 /\ r.dataLen \in Nat \ {0} /\ d.len \in {0, r.dataLen}
        /\ Unread(d) = DataUnread(d)
        /\ \A x : /\ x.ctl = d.ctl /\ x.filter = d.filter /\ x.colours = d.colours
                  /\ x.rect = r /\ x.len \in {0, r.dataLen}
                  => /\ TightUnread(x) = DataUnread(x) /\ TightFits(x) /\ AtData(x)
    BY AtDataIs
  <1>2. d.avail \in Nat /\ Unread(d) = TightUnread(d)
    BY TightIs
  <1>3. CASE d.len = 0 /\ ~Short(d, 3)
    <2>1. ReadLength(d) = e
      BY <1>3 DEF ReadLength
    <2>2. r.lenBytes \in Nat /\ r.lenBytes <= Unread(d) /\ r.lenBytes <= d.avail
          /\ Unread(d) = r.lenBytes + r.dataLen
      BY <1>1, <1>2, <1>3 DEF Short, DataUnread
    <2>3. ReadOn(d, f, r.lenBytes) /\ Remembers(d, f)
      BY <2>2, ReadOnSkip
    <2> HIDE DEF f
    <2>4. /\ Remembering(f, e) /\ e.len = r.dataLen /\ e.lines = f.lines /\ e.subrects = f.subrects
          /\ e.tiles = f.tiles /\ e.ctl = f.ctl /\ e.filter = f.filter /\ e.colours = f.colours
      BY <2>3 DEF ReadOn, Remembering, Steady, SameSession, SameTalk, SameBytes, Viewer
    <2> HIDE DEF e
    <2>5. ReadOn(d, e, r.lenBytes)
      BY <2>3, <2>4, SteadyOn, ReachesOn DEF ReadOn, SameOthers, Remembering, Steady
    <2>6. e.ctl = d.ctl /\ e.filter = d.filter /\ e.colours = d.colours /\ e.rect = r
      BY <2>3, <2>4, <2>5 DEF Remembers, ReadOn
    <2>7. TightUnread(e) = DataUnread(e) /\ TightFits(e) /\ AtData(e)
      BY <1>1, <2>4, <2>6
    <2>8. DataUnread(e) = DataUnread(d) - r.lenBytes
      BY <1>1, <1>3, <2>2, <2>4, <2>6 DEF DataUnread
    <2>9. Steps(d, e, t) /\ Decoding(e, TightEncodings)
      BY <1>1, <1>2, <2>2, <2>5, <2>7, <2>8, TightGoes
    <2> QED BY <2>1, <2>6, <2>7, <2>9
  <1>4. CASE ~(d.len = 0 /\ ~Short(d, 3))
    <2>1. ReadLength(d) = d
      BY <1>4 DEF ReadLength
    <2> QED BY <2>1, Waiting1
  <1> QED BY <1>3, <1>4

(* The data has arrived.                                                   *)
LEMMA TakeDataIs ==
  ASSUME NEW d, NEW t, InStep(d, t), Decoding(d, TightEncodings), AtData(d), HasData(d)
  PROVE  LET f == TakeData(d)
         IN  /\ ReadOn(d, f, Unread(d)) /\ Unread(d) \in Nat /\ Unread(d) <= d.avail
             /\ f.len = 0 /\ f.colours = d.colours
  <1> DEFINE u == Skip(d, d.len)
             f == [u EXCEPT !.len = 0]
  <1>1. /\ d.rect.dataLen \in Nat \ {0} /\ d.len \in {0, d.rect.dataLen}
        /\ Unread(d) = DataUnread(d) /\ d.avail \in Nat
    BY AtDataIs, TightIs
  <1>2. d.len \in Nat /\ d.len = Unread(d) /\ d.len <= d.avail
    BY <1>1 DEF HasData, Short, DataUnread
  <1>3. ReadOn(d, u, d.len) /\ Remembers(d, u)
    BY <1>2, ReadOnSkip
  <1>4. TakeData(d) = f
    BY DEF TakeData
  <1> HIDE DEF u
  <1>5. /\ Remembering(u, f) /\ f.len = 0 /\ f.lines = u.lines /\ f.subrects = u.subrects
        /\ f.tiles = u.tiles /\ f.colours = u.colours
    BY <1>3 DEF ReadOn, Remembering, Steady, SameSession, SameTalk, SameBytes, Viewer
  <1> HIDE DEF f
  <1>6. ReadOn(d, f, d.len)
    BY <1>3, <1>5, SteadyOn, ReachesOn DEF ReadOn, SameOthers, Remembering, Steady
  <1> QED BY <1>2, <1>3, <1>4, <1>5, <1>6 DEF Remembers

(* What was taken is drawn.                                                *)
LEMMA TightDraws ==
  ASSUME NEW d, NEW t, InStep(d, t), Decoding(d, TightEncodings), Unread(d) <= d.avail,
         NEW f, ReadOn(d, f, Unread(d)), f.len = 0, NEW cell, NEW colour
  PROVE  /\ f.colours = 0 => Steps(d, TightDone(ImageRect(f, cell, colour)), t)
         /\ \A left : left = 0 =>
              Steps(d, TightDone(BlitImage([f EXCEPT !.colours = left], cell, colour, FALSE)), t)
  <1>1. ASSUME NEW g, ReadOn(d, g, Unread(d)), g.len = 0, g.colours = 0, NEW u, Alike(g, u)
        PROVE  Steps(d, TightDone(u), t)
    <2>1. /\ Viewer(u) /\ Steady(g, u) /\ Remembers(g, u) /\ SameBytes(g, u) /\ u.rect = g.rect
          /\ u.rects = g.rects
      BY <1>1, ElseSteady DEF Alike, SameElse
    <2>2. ReadOn(d, u, Unread(d)) /\ u.colours = 0 /\ u.len = 0
      BY <1>1, <2>1, SteadyOn, ReachesOn DEF ReadOn, SameOthers, Remembers
    <2> QED BY <2>2, TightEnds
  <1>2. ASSUME f.colours = 0 PROVE Steps(d, TightDone(ImageRect(f, cell, colour)), t)
    <2>1. Alike(f, ImageRect(f, cell, colour))
      BY DrawingDraws DEF ReadOn
    <2> QED BY <1>1, <1>2, <2>1
  <1>3. ASSUME NEW left, left = 0
        PROVE  Steps(d, TightDone(BlitImage([f EXCEPT !.colours = left], cell, colour, FALSE)), t)
    <2> DEFINE g == [f EXCEPT !.colours = left]
    <2>1. /\ Remembering(f, g) /\ g.len = f.len /\ g.lines = f.lines /\ g.subrects = f.subrects
          /\ g.tiles = f.tiles /\ g.colours = left
      BY DEF ReadOn, Remembering, Steady, SameSession, SameTalk, SameBytes, Viewer
    <2> HIDE DEF g
    <2>2. ReadOn(d, g, Unread(d)) /\ g.len = 0 /\ g.colours = 0
      BY <1>3, <2>1, SteadyOn, ReachesOn DEF ReadOn, SameOthers, Remembering, Steady
    <2>3. Alike(g, BlitImage(g, cell, colour, FALSE))
      BY <2>2, DrawingDraws DEF ReadOn
    <2>4. Steps(d, TightDone(BlitImage(g, cell, colour, FALSE)), t)
      BY <1>1, <2>2, <2>3
    <2> QED BY <2>4 DEF g
  <1> QED BY <1>2, <1>3

(* An image                                                                *)
LEMMA TightImageSteps ==
  ASSUME NEW d, NEW t, InStep(d, t), Decoding(d, TightEncodings), d.ctl \in {"jpeg", "png"}
  PROVE  Steps(d, TightImage(d), t)
  <1> DEFINE e == ReadLength(d)
             f == TakeData(e)
  <1>1. AtData(d) /\ d.colours = 0
    <2>1. TightFits(d)
      BY TightIs
    <2> QED BY <2>1 DEF AtData, TightFits, TightIdle, TightEncodings
  <1>2. TightImage(d) = IF HasData(e) THEN TightDone(ImageRect(f, d.rect.cell, d.rect.colour)) ELSE e
    BY DEF TightImage
  <1>3. Steps(d, e, t) /\ Decoding(e, TightEncodings) /\ AtData(e) /\ e.colours = 0
    BY <1>1, ReadLengthSteps
  <1> HIDE DEF e
  <1>4. CASE HasData(e)
    <2>1. InStep(e, t)
      BY <1>3 DEF Steps
    <2>2. /\ ReadOn(e, f, Unread(e)) /\ Unread(e) <= e.avail /\ f.len = 0 /\ f.colours = 0
      BY <1>3, <1>4, <2>1, TakeDataIs
    <2> HIDE DEF f
    <2>3. Steps(e, TightDone(ImageRect(f, d.rect.cell, d.rect.colour)), t)
      BY <1>3, <2>1, <2>2, TightDraws
    <2> QED BY <1>2, <1>3, <1>4, <2>3, StepsOn
  <1>5. CASE ~HasData(e)
    BY <1>2, <1>3, <1>5
  <1> QED BY <1>4, <1>5

(* The pixels of a rectangle, or their indices in a palette                *)
LEMMA TightPixelsSteps ==
  ASSUME NEW d, NEW t, InStep(d, t), Decoding(d, TightEncodings), d.ctl = "basic", NEW size,
         \/ d.filter = "copy" /\ size = ColourSize(d.rect)
         \/ d.filter = "palette" /\ d.colours # 0 /\ size = PaletteSize(d.rect)
  PROVE  Steps(d, TightPixels(d, size), t)
  <1> DEFINE r == d.rect
             e == ReadLength(d)
             left == IF d.filter = "palette" THEN 0 ELSE d.colours
             drawn(x) == TightDone(BlitImage([x EXCEPT !.colours = left], r.cell, r.colour, FALSE))
  <1>1. /\ Begun(d) /\ RectFits(r) /\ r.encoding \in TightEncodings /\ TightFits(d)
        /\ Unread(d) = TightUnread(d) /\ d.avail \in Nat /\ Viewer(d)
    BY TightIs
  <1>2. /\ r.ctl = "basic" /\ (d.filter = "copy" => d.colours = 0)
        /\ (d.filter = "palette" => r.filter = "palette")
        /\ d.len = 0 \/ (d.len = r.dataLen /\ size >= 12)
    BY <1>1 DEF TightFits, TightIdle, LengthFits, TightEncodings
  <1>3. /\ size \in Nat /\ (size = 0 => d.filter = "copy")
        /\ r.lenBytes \in 1 .. 3 /\ r.dataLen \in Nat \ {0}
    BY <1>1, <1>2, TightSizes DEF TightEncodings
  <1>4. left = 0 /\ Unread(d) = PixelsUnread(d, size)
    BY <1>1, <1>2 DEF TightUnread
  <1>5. TightPixels(d, size) =
          CASE size = 0 -> TightDone(d)
            [] size \in 1 .. 11 /\ ~Short(d, size) -> drawn(Skip(d, size))
            [] size >= 12 /\ HasData(e) -> drawn(TakeData(e))
            [] size >= 12 /\ ~HasData(e) -> e
            [] OTHER -> d
    BY DEF TightPixels
  <1>6. \A a, f, cell, colour : InStep(a, t) /\ Decoding(a, TightEncodings)
          /\ Unread(a) <= a.avail /\ ReadOn(a, f, Unread(a)) /\ f.len = 0
          => Steps(a, TightDone(BlitImage([f EXCEPT !.colours = left], cell, colour, FALSE)), t)
    <2> SUFFICES ASSUME NEW a, NEW f, NEW cell, NEW colour, InStep(a, t),
                        Decoding(a, TightEncodings), Unread(a) <= a.avail,
                        ReadOn(a, f, Unread(a)), f.len = 0
                 PROVE  Steps(a, TightDone(BlitImage([f EXCEPT !.colours = left], cell, colour, FALSE)), t)
      OBVIOUS
    <2> HIDE DEF left
    <2> QED BY <1>4, TightDraws
  <1> HIDE DEF left
  <1>7. \A a, f : InStep(a, t) /\ Decoding(a, TightEncodings)
          /\ Unread(a) <= a.avail /\ ReadOn(a, f, Unread(a)) /\ f.len = 0 => Steps(a, drawn(f), t)
    BY <1>6
  <1> HIDE DEF e, drawn
  <1>8. CASE size = 0
    <2>1. TightPixels(d, size) = TightDone(d)
      BY <1>5, <1>8
    <2>2. Unread(d) = 0 /\ d.colours = 0 /\ d.len = 0 /\ 0 <= d.avail
      BY <1>1, <1>2, <1>3, <1>4, <1>8 DEF PixelsUnread
    <2> QED BY <2>1, <2>2, ReadOnSelf, TightEnds
  <1>9. CASE size \in 1 .. 11 /\ ~Short(d, size)
    <2> DEFINE f == Skip(d, size)
    <2>1. TightPixels(d, size) = drawn(f)
      <3>1. ~(size = 0) /\ ~(size >= 12)
        BY <1>9
      <3> HIDE DEF f
      <3> QED BY <1>5, <1>9, <3>1 DEF f
    <2>2. Unread(d) = size /\ d.len = 0 /\ size <= d.avail
      BY <1>1, <1>2, <1>3, <1>4, <1>9 DEF PixelsUnread, Short
    <2>3. ReadOn(d, f, Unread(d)) /\ f.len = 0
      BY <1>3, <2>2, ReadOnSkip DEF Remembers
    <2> HIDE DEF f
    <2> QED BY <1>7, <2>1, <2>2, <2>3
  <1>10. CASE size >= 12
    <2>1. AtData(d)
      BY <1>10 DEF AtData
    <2>2. Steps(d, e, t) /\ Decoding(e, TightEncodings) /\ AtData(e) /\ InStep(e, t)
      BY <2>1, ReadLengthSteps DEF e, Steps
    <2>3. CASE HasData(e)
      <3> DEFINE f == TakeData(e)
      <3>1. TightPixels(d, size) = drawn(f)
        <4>1. ~(size = 0) /\ ~(size \in 1 .. 11)
          BY <1>10
        <4> HIDE DEF f
        <4> QED BY <1>5, <1>10, <2>3, <4>1 DEF f
      <3>2. ReadOn(e, f, Unread(e)) /\ Unread(e) <= e.avail /\ f.len = 0
        BY <2>2, <2>3, TakeDataIs
      <3> HIDE DEF f
      <3>3. Steps(e, drawn(f), t)
        BY <1>7, <2>2, <3>2
      <3> QED BY <2>2, <3>1, <3>3, StepsOn
    <2>4. CASE ~HasData(e)
      <3>1. TightPixels(d, size) = e
        <4>1. ~(size = 0) /\ ~(size \in 1 .. 11)
          BY <1>10
        <4> QED BY <1>5, <1>10, <2>4, <4>1
      <3> QED BY <2>2, <3>1
    <2> QED BY <2>3, <2>4
  <1>11. CASE size \in 1 .. 11 /\ Short(d, size)
    <2>1. ~(size = 0) /\ ~(size >= 12)
      BY <1>11
    <2>2. TightPixels(d, size) = d
      BY <1>5, <1>11, <2>1
    <2> QED BY <2>2, Waiting1
  <1>12. size = 0 \/ size \in 1 .. 11 \/ size >= 12
    BY <1>3
  <1> QED BY <1>8, <1>9, <1>10, <1>11, <1>12

(* A palette, and what is drawn with it                                    *)
LEMMA TightPaletteSteps ==
  ASSUME NEW d, NEW t, InStep(d, t), Decoding(d, TightEncodings), d.ctl = "basic",
         d.filter = "palette"
  PROVE  Steps(d, TightPalette(d), t)
  <1> DEFINE r == d.rect
             row == IF d.colours <= 2 THEN (r.w + 7) \div 8 ELSE r.w
             n == 1 + 3 * r.n
             f == Skip(d, n)
             e == [f EXCEPT !.colours = r.n]
  <1>1. /\ Begun(d) /\ RectFits(r) /\ r.encoding \in TightEncodings /\ TightFits(d)
        /\ Unread(d) = TightUnread(d) /\ Unread(d) \in Nat /\ d.avail \in Nat /\ Viewer(d)
    BY TightIs
  <1>2. /\ r.ctl = "basic" /\ r.filter = "palette"
        /\ \/ d.colours = 0 /\ d.len = 0
           \/ d.colours = r.n
    BY <1>1 DEF TightFits, TightIdle, TightEncodings
  <1>3. /\ PaletteSize(r) \in Nat \ {0} /\ r.n \in Nat \ {0}
        /\ TightBytes(r) = 2 + 3 * r.n + PixelBytes(r, PaletteSize(r))
        /\ PixelBytes(r, PaletteSize(r)) \in Nat
    BY <1>1, <1>2, TightSizes DEF TightEncodings
  <1>4. CASE d.colours = 0
    <2>1. TightPalette(d) = IF Short(d, 1) \/ Short(d, n) THEN d ELSE e
      <3> DEFINE pixels == TightPixels(d, row * r.h)
      <3>1. TightPalette(d) =
              CASE d.colours = 0 /\ (Short(d, 1) \/ Short(d, n)) -> d
                [] d.colours = 0 /\ ~Short(d, n) -> e
                [] OTHER -> pixels
        BY DEF TightPalette
      <3>2. Short(d, 1) => Short(d, n)
        <4>1. 1 <= n
          BY <1>3
        <4> HIDE DEF n
        <4>2. n \in Nat
          BY <1>3 DEF n
        <4> QED BY <1>1, <4>1, <4>2 DEF Short
      <3> HIDE DEF n, e, pixels
      <3> QED BY <1>4, <3>1, <3>2
    <2>2. CASE Short(d, 1) \/ Short(d, n)
      BY <2>1, <2>2, Waiting1
    <2>3. CASE ~(Short(d, 1) \/ Short(d, n))
      <3>1. TightUnread(d) = n + PixelBytes(r, PaletteSize(r)) /\ n \in Nat
        BY <1>3, <1>4 DEF TightUnread
      <3>2. n <= d.avail /\ n <= Unread(d) /\ n \in Nat
        BY <1>1, <1>3, <2>3, <3>1 DEF Short
      <3>3. ReadOn(d, f, n) /\ Remembers(d, f)
        <4> HIDE DEF n
        <4> QED BY <3>2, ReadOnSkip
      <3> HIDE DEF f, n
      <3>4. /\ Remembering(f, e) /\ e.len = f.len /\ e.lines = f.lines /\ e.subrects = f.subrects
            /\ e.tiles = f.tiles /\ e.ctl = f.ctl /\ e.filter = f.filter /\ e.colours = r.n
        BY <3>3 DEF ReadOn, Remembering, Steady, SameSession, SameTalk, SameBytes, Viewer
      <3>h. TightPalette(d) = e
        BY <2>1, <2>3
      <3> HIDE DEF e
      <3>5. ReadOn(d, e, n)
        BY <3>3, <3>4, SteadyOn, ReachesOn DEF ReadOn, SameOthers, Remembering, Steady
      <3>6. e.ctl = "basic" /\ e.filter = "palette" /\ e.len = 0 /\ e.rect = r
        BY <1>2, <1>3, <1>4, <3>3, <3>4, <3>5 DEF Remembers, ReadOn
      <3>7. TightUnread(e) = PixelBytes(r, PaletteSize(r))
        BY <1>3, <3>4, <3>6 DEF TightUnread, PixelsUnread, DataUnread, PixelBytes
      <3>8. TightFits(e)
        BY <1>1, <1>2, <3>4, <3>6 DEF TightFits, LengthFits, Decoding, Begun, TightEncodings
      <3>9. TightUnread(e) = TightUnread(d) - n
        BY <1>3, <3>1, <3>2, <3>7
      <3> QED BY <3>h, <3>2, <3>5, <3>8, <3>9, TightGoes
    <2> QED BY <2>2, <2>3
  <1>5. CASE d.colours # 0
    <2> DEFINE size == row * r.h
    <2>1. TightPalette(d) = TightPixels(d, size)
      BY <1>5 DEF TightPalette
    <2>2. size = PaletteSize(r)
      BY <1>2, <1>5 DEF PaletteSize
    <2> HIDE DEF size
    <2> QED BY <1>5, <2>1, <2>2, TightPixelsSteps
  <1> QED BY <1>4, <1>5

(* The filter of a basic rectangle                                         *)
LEMMA TightFilterSteps ==
  ASSUME NEW d, NEW t, InStep(d, t), Decoding(d, TightEncodings), d.ctl = "basic",
         d.filter = "none"
  PROVE  Steps(d, TightFilter(d), t)
  <1> DEFINE r == d.rect
  <1>1. /\ Begun(d) /\ RectFits(r) /\ r.encoding \in TightEncodings /\ TightFits(d)
        /\ Unread(d) = TightUnread(d) /\ Unread(d) \in Nat /\ d.avail \in Nat /\ Viewer(d)
    BY TightIs
  <1>2. r.ctl = "basic" /\ d.colours = 0 /\ d.len = 0 /\ Unread(d) = TightBytes(r)
    BY <1>1 DEF TightFits, TightIdle, TightUnread, TightEncodings
  <1>3. /\ r.filter \in {"none", "copy", "palette"} /\ ColourSize(r) \in Nat
        /\ r.filter = "copy" => TightBytes(r) = 1 + PixelBytes(r, ColourSize(r))
        /\ r.filter = "none" => TightBytes(r) = PixelBytes(r, ColourSize(r))
        /\ TightBytes(r) \in Nat /\ PixelBytes(r, ColourSize(r)) \in Nat
        /\ r.filter = "palette" => /\ PaletteSize(r) \in Nat \ {0} /\ r.n \in Nat \ {0}
                                   /\ PixelBytes(r, PaletteSize(r)) \in Nat
                                   /\ TightBytes(r) = 2 + 3 * r.n + PixelBytes(r, PaletteSize(r))
    BY <1>1, <1>2, TightSizes DEF TightEncodings, RectFits
  <1>4. ASSUME NEW e, NEW n \in Nat, n <= d.avail, ReadOn(d, e, n),
               e.ctl = "basic", e.colours = 0, e.len = 0,
               \/ r.filter = "none" /\ n = 0 /\ e.filter = "copy"
               \/ r.filter \in {"copy", "palette"} /\ n = 1 /\ e.filter = r.filter
        PROVE  Steps(d, e, t)
    <2>1. e.rect = r
      BY <1>4 DEF ReadOn
    <2>2. TightFits(e)
      BY <1>1, <1>2, <1>4, <2>1 DEF TightFits, LengthFits, Decoding, Begun, TightEncodings
    <2>3. n <= Unread(d) /\ TightUnread(e) = TightUnread(d) - n
      <3>1. CASE e.filter = "copy"
        <4>1. TightUnread(e) = PixelBytes(r, ColourSize(r))
          BY <1>4, <2>1, <3>1 DEF TightUnread, PixelsUnread, DataUnread, PixelBytes
        <4> QED BY <1>1, <1>2, <1>3, <1>4, <3>1, <4>1
      <3>2. CASE e.filter = "palette"
        <4>1. TightUnread(e) = TightBytes(r) - 1
          BY <1>4, <2>1, <3>2 DEF TightUnread
        <4> QED BY <1>1, <1>2, <1>3, <1>4, <3>2, <4>1
      <3> QED BY <1>4, <3>1, <3>2
    <2> QED BY <1>4, <2>2, <2>3, TightGoes
  <1>5. CASE r.filter = "none"
    <2> DEFINE e == [d EXCEPT !.filter = "copy"]
    <2>1. TightFilter(d) = e
      BY <1>5 DEF TightFilter
    <2>2. /\ Remembering(d, e) /\ e.len = d.len /\ e.lines = d.lines /\ e.subrects = d.subrects
          /\ e.tiles = d.tiles /\ e.ctl = d.ctl /\ e.filter = "copy" /\ e.colours = d.colours
      BY <1>1 DEF Remembering, Steady, SameSession, SameTalk, SameBytes, Viewer
    <2> HIDE DEF e
    <2>3. ReadOn(d, e, 0)
      BY <2>2, ReachesSame DEF ReadOn, SameOthers, Remembering, Steady, InStep
    <2> QED BY <1>1, <1>2, <1>4, <1>5, <2>1, <2>2, <2>3
  <1>6. CASE r.filter # "none" /\ Short(d, 1)
    BY <1>6, Waiting1 DEF TightFilter
  <1>7. CASE r.filter # "none" /\ ~Short(d, 1)
    <2> DEFINE f == Skip(d, 1)
               e == [f EXCEPT !.filter = r.filter]
    <2>1. TightFilter(d) = e
      BY <1>7 DEF TightFilter
    <2>2. 1 <= d.avail /\ 1 <= Unread(d)
      BY <1>1, <1>2, <1>3, <1>7 DEF Short
    <2>3. ReadOn(d, f, 1) /\ Remembers(d, f)
      BY <2>2, ReadOnSkip
    <2> HIDE DEF f
    <2>4. /\ Remembering(f, e) /\ e.len = f.len /\ e.lines = f.lines /\ e.subrects = f.subrects
          /\ e.tiles = f.tiles /\ e.ctl = f.ctl /\ e.filter = r.filter /\ e.colours = f.colours
      BY <2>3 DEF ReadOn, Remembering, Steady, SameSession, SameTalk, SameBytes, Viewer
    <2> HIDE DEF e
    <2>5. ReadOn(d, e, 1) /\ e.ctl = "basic" /\ e.colours = 0 /\ e.len = 0
      BY <1>2, <2>3, <2>4, SteadyOn, ReachesOn
         DEF ReadOn, SameOthers, Remembering, Steady, Remembers
    <2> QED BY <1>3, <1>4, <1>7, <2>1, <2>2, <2>4, <2>5
  <1> QED BY <1>5, <1>6, <1>7

(* Pixels that were filtered, each filter by its own bytes                 *)
LEMMA TightBasicSteps ==
  ASSUME NEW d, NEW t, InStep(d, t), Decoding(d, TightEncodings), d.ctl = "basic"
  PROVE  Steps(d, TightBasic(d), t)
  <1>1. d.filter \in {"none", "copy", "palette"}
    <2>1. TightFits(d)
      BY TightIs
    <2> QED BY <2>1 DEF TightFits, TightIdle, TightEncodings
  <1>2. CASE d.filter = "none"
    <2>1. TightBasic(d) = TightFilter(d)
      BY <1>2 DEF TightBasic
    <2> QED BY <1>2, <2>1, TightFilterSteps
  <1>3. CASE d.filter = "copy"
    <2> DEFINE size == 3 * d.rect.w * d.rect.h
    <2>1. TightBasic(d) = TightPixels(d, size) /\ size = ColourSize(d.rect)
      BY <1>3 DEF TightBasic, ColourSize
    <2> HIDE DEF size
    <2> QED BY <1>3, <2>1, TightPixelsSteps
  <1>4. CASE d.filter = "palette"
    <2>1. TightBasic(d) = TightPalette(d)
      BY <1>4 DEF TightBasic
    <2> QED BY <1>4, <2>1, TightPaletteSteps
  <1> QED BY <1>1, <1>2, <1>3, <1>4

(* From the control byte on                                                *)
LEMMA TightSteps ==
  ASSUME NEW d, NEW t, InStep(d, t), Decoding(d, TightEncodings)
  PROVE  Steps(d, DecodeTight(d), t)
  <1> DEFINE r == d.rect
             png == r.encoding = "tightPNG"
             f == Skip(d, 1)
             e == [f EXCEPT !.ctl = r.ctl]
  <1>1. /\ Begun(d) /\ RectFits(r) /\ r.encoding \in TightEncodings /\ TightFits(d)
        /\ Unread(d) = TightUnread(d) /\ Unread(d) \in Nat /\ d.avail \in Nat /\ Viewer(d)
    BY TightIs
  <1>2. /\ r.ctl \in {"fill", "jpeg", "png", "basic"}
        /\ r.ctl = "png" => png
        /\ r.ctl = "basic" => ~png
    BY <1>1 DEF RectFits, TightEncodings
  <1>3. d.ctl \in {"none", r.ctl}
    BY <1>1 DEF TightFits, TightEncodings
  <1>4. DecodeTight(d) =
          CASE d.ctl = "none" /\ Short(d, 1) -> d
            [] d.ctl = "none" /\ ~Short(d, 1) -> e
            [] d.ctl = "fill" -> TightFill(d)
            [] d.ctl = "jpeg" \/ (d.ctl = "png" /\ png) -> TightImage(d)
            [] d.ctl = "basic" /\ ~png -> TightBasic(d)
            [] OTHER -> Refuse(d)
    BY DEF DecodeTight
  <1>5. CASE d.ctl = "none" /\ Short(d, 1)
    BY <1>4, <1>5, Waiting1
  <1>6. CASE d.ctl = "none" /\ ~Short(d, 1)
    <2>1. TightBytes(r) \in Nat
      BY <1>1, TightSizes DEF TightEncodings
    <2>2. TightIdle(d) /\ TightUnread(d) = 1 + TightBytes(r)
      BY <1>1, <1>6 DEF TightFits, TightUnread, TightEncodings
    <2>3. 1 <= d.avail /\ 1 <= Unread(d)
      BY <1>1, <1>6, <2>1, <2>2 DEF Short
    <2>4. ReadOn(d, f, 1) /\ Remembers(d, f)
      BY <2>3, ReadOnSkip
    <2>h. DecodeTight(d) = e
      <3> HIDE DEF e, f, png
      <3> QED BY <1>4, <1>6
    <2> HIDE DEF f
    <2>5. /\ Remembering(f, e) /\ e.len = f.len /\ e.lines = f.lines /\ e.subrects = f.subrects
          /\ e.tiles = f.tiles /\ e.ctl = r.ctl /\ e.filter = f.filter /\ e.colours = f.colours
      BY <2>4 DEF ReadOn, Remembering, Steady, SameSession, SameTalk, SameBytes, Viewer
    <2> HIDE DEF e
    <2>6. ReadOn(d, e, 1) /\ TightIdle(e) /\ e.rect = r
      BY <2>2, <2>4, <2>5, SteadyOn, ReachesOn
         DEF ReadOn, SameOthers, Remembering, Steady, Remembers, TightIdle
    <2>7. TightFits(e)
      BY <1>1, <1>2, <2>5, <2>6 DEF TightFits, TightIdle, Decoding, Begun, TightEncodings
    <2>8. TightUnread(e) = TightBytes(r)
      BY <1>2, <2>5, <2>6 DEF TightUnread, TightIdle, TightBytes, DataUnread
    <2>9. TightUnread(e) = TightUnread(d) - 1
      BY <2>1, <2>2, <2>8
    <2> QED BY <2>h, <2>3, <2>6, <2>7, <2>9, TightGoes
  <1>7. CASE d.ctl = "fill"
    BY <1>4, <1>7, TightFillSteps
  <1>8. CASE d.ctl \in {"jpeg", "png"}
    <2>1. DecodeTight(d) = TightImage(d)
      BY <1>2, <1>3, <1>4, <1>8
    <2> QED BY <1>8, <2>1, TightImageSteps
  <1>9. CASE d.ctl = "basic"
    <2>1. DecodeTight(d) = TightBasic(d)
      BY <1>2, <1>3, <1>4, <1>9
    <2> QED BY <1>9, <2>1, TightBasicSteps
  <1> QED BY <1>2, <1>3, <1>5, <1>6, <1>7, <1>8, <1>9

(* The last rectangle of an update that left their number open             *)
LEMMA LastSteps ==
  ASSUME NEW d, NEW t, InStep(d, t), d.rect = LastRect
  PROVE  Steps(d, RectDone([d EXCEPT !.rects = 1]), t)
  <1> DEFINE u == [d EXCEPT !.rects = 1]
             e == RectDone(u)
  <1>1. Begun(d) /\ d.rect.encoding = "lastRect"
    BY DEF Begun, LastRect, NoRect
  <1>2. DecoderFits(d) /\ Viewer(d) /\ Bytes(d) /\ d.avail \in Nat
    BY DEF InStep, Parses, Bytes
  <1>3. Cleared(d) /\ Unread(d) = 0
    BY <1>1, <1>2, OneDecoder, UnreadNat DEF Cleared
  <1>4. Viewer(u) /\ Steady(d, u) /\ SameBytes(d, u) /\ Remembers(d, u) /\ u.rects = 1
    BY <1>2 DEF Steady, SameSession, SameTalk, SameBytes, Viewer, Remembers
  <1> HIDE DEF u
  <1>5. /\ Steady(u, e) /\ SameBytes(u, e) /\ Remembers(u, e) /\ e.rects = u.rects - 1
        /\ e.rect = NoRect
    BY <1>4, RectDoneIs
  <1> HIDE DEF e
  <1>6. Steady(d, e) /\ Reaches(d, e, 0) /\ Viewer(e) /\ e.rects = 0
    BY <1>2, <1>4, <1>5, SteadyOn, ReachesSame, ReachesOn DEF Steady
  <1>7. DecoderFits(e)
    <2>1. Cleared(e)
      BY <1>3, <1>4, <1>5 DEF Cleared, Remembers, TightIdle
    <2> QED BY <1>5, <2>1
            DEF DecoderFits, RawFits, RREFits, HextileFits, TightFits, Decoding, Begun, Cleared
  <1>8. InStep(e, t)
    <2>1. 0 <= d.avail
      BY <1>2
    <2> QED BY <1>1, <1>3, <1>5, <1>6, <1>7, <2>1, Done
  <1>9. SameNews(d, e)
    BY <1>4, <1>5, SameWireNews DEF SameBytes
  <1> QED BY <1>6, <1>8, <1>9 DEF Steps, e, u

(* Encodings that stand for messages                                       *)
Messaging == {"xvp", "fence", "continuousUpdates", "extendedClipboard"}

(* A rectangle, of whatever encoding                                       *)
LEMMA RectSteps ==
  ASSUME NEW d, NEW t, InStep(d, t), Begun(d)
  PROVE  \/ Steps(d, HandleRect(d), t)
         \/ HandleRect(d) = Refuse(d) /\ d.rect # LastRect
  <1>1. CASE d.rect = LastRect
    <2>1. HandleRect(d) = RectDone([d EXCEPT !.rects = 1])
      BY <1>1 DEF HandleRect, LastRect
    <2> QED BY <1>1, <2>1, LastSteps
  <1>2. CASE d.rect # LastRect
    <2> DEFINE k == d.rect.encoding
    <2>1. k \in SendEncodings \ {"lastRect"}
      <3>1. RectFits(d.rect)
        BY <1>2, RectIs
      <3> QED BY <3>1 DEF RectFits
    <2>2. k \in {"raw", "copyRect", "rre", "hextile", "tight", "tightPNG", "desktopSize",
                 "qemuExtendedKeyEvent", "extendedDesktopSize", "desktopName", "vmwareCursor",
                 "cursor"} \cup Messaging
      BY <2>1 DEF SendEncodings, Drawing, Messaging
    <2>3. CASE k = "raw"
      BY <2>3, RawSteps DEF HandleRect, Decoding
    <2>4. CASE k = "copyRect"
      BY <2>4, CopyRectSteps DEF HandleRect, Decoding
    <2>5. CASE k = "rre"
      BY <2>5, RRESteps DEF HandleRect, Decoding
    <2>6. CASE k = "hextile"
      BY <2>6, HextileSteps DEF HandleRect, Decoding
    <2>7. CASE k \in {"tight", "tightPNG"}
      BY <2>7, TightSteps DEF HandleRect, Decoding, TightEncodings
    <2>8. CASE k \in {"desktopSize", "qemuExtendedKeyEvent", "extendedDesktopSize"}
      BY <2>8, SizeSteps DEF HandleRect, Decoding
    <2>9. CASE k = "desktopName"
      BY <2>9, NameSteps DEF HandleRect, Decoding
    <2>10. CASE k \in {"vmwareCursor", "cursor"}
      BY <2>10, CursorSteps DEF HandleRect, Decoding
    <2>11. CASE k \in Messaging
      BY <1>2, <2>11 DEF HandleRect, Messaging
    <2> QED BY <2>2, <2>3, <2>4, <2>5, <2>6, <2>7, <2>8, <2>9, <2>10, <2>11
  <1> QED BY <1>1, <1>2

-----------------------------------------------------------------------------
(* Messages                                                                *)

(* Between rectangles the viewer is at the beginning of a part, with       *)
(* nothing to remember.                                                    *)
LEMMA Beginning ==
  ASSUME NEW d, NEW t, InStep(d, t), ~Begun(d)
  PROVE  /\ Viewer(d) /\ Bytes(d) /\ d.rect = NoRect /\ d.at = 0 /\ Cleared(d) /\ d.rects \in Nat
         /\ d.avail \in Nat /\ DecoderFits(d)
         /\ d.avail > 0 =>
              /\ d.wire # <<>> /\ Head(d.wire).len \in Nat /\ PartLeft(d) = Head(d.wire).len
              /\ \E a, b \in Standings :
                    /\ IF d.rects = 0 THEN a.k = 0
                       ELSE IF a.open THEN a.k \in 1 .. d.rects ELSE a.k = d.rects
                    /\ Speech(d.wire, a, Stand(t), t.repertoire)
                    /\ Leads(a, Head(d.wire), b, t.repertoire)
                    /\ Speech(Tail(d.wire), b, Stand(t), t.repertoire)
  <1>1. /\ Viewer(d) /\ Bytes(d) /\ d.rect = NoRect /\ DecoderFits(d) /\ Stands(d) /\ d.avail \in Nat
        /\ Whole(d.wire) /\ d.at \in Nat
    BY DEF InStep, Parses, Begun, Bytes
  <1>2. d.at = 0 /\ d.rects \in Nat
    BY <1>1 DEF Stands, Inside
  <1>3. Cleared(d)
    BY <1>1 DEF DecoderFits, RawFits, RREFits, HextileFits, TightFits, Decoding, Cleared
  <1>4. ASSUME d.avail > 0
        PROVE  /\ d.wire # <<>> /\ Head(d.wire).len \in Nat /\ PartLeft(d) = Head(d.wire).len
               /\ \E a, b \in Standings :
                    /\ IF d.rects = 0 THEN a.k = 0
                       ELSE IF a.open THEN a.k \in 1 .. d.rects ELSE a.k = d.rects
                    /\ Speech(d.wire, a, Stand(t), t.repertoire)
                    /\ Leads(a, Head(d.wire), b, t.repertoire)
                    /\ Speech(Tail(d.wire), b, Stand(t), t.repertoire)
    <2>1. d.wire # <<>>
      <3>1. d.wire = <<>> => Total(d.wire) = 0
        BY TotalNone
      <3>2. d.at + d.avail <= Total(d.wire)
        BY DEF InStep, Bytes
      <3> QED BY <1>1, <1>4, <3>1, <3>2
    <2>2. Head(d.wire).len \in Nat
      BY <1>1, <2>1, WholeFirst
    <2>3. PartLeft(d) = Head(d.wire).len
      BY <1>2, <2>1, <2>2 DEF PartLeft
    <2>4. PICK S : d.wire \in Seq(S)
      BY <1>1 DEF Whole
    <2>5. PICK a : From(d, a) /\ Speech(d.wire, a, Stand(t), t.repertoire)
      BY DEF InStep, Parses
    <2>6. PICK b \in Standings : /\ Leads(a, Head(d.wire), b, t.repertoire)
                                 /\ Speech(Tail(d.wire), b, Stand(t), t.repertoire)
      BY <2>1, <2>4, <2>5, SpeechFirst
    <2>7. /\ a \in Standings
          /\ IF d.rects = 0 THEN a.k = 0
             ELSE IF a.open THEN a.k \in 1 .. d.rects ELSE a.k = d.rects
      <3>1. RectsLeft(d) = d.rects /\ d.rect # LastRect
        BY <1>1 DEF RectsLeft, NoRect, LastRect
      <3> QED BY <2>5, <3>1 DEF From
    <2> QED BY <2>1, <2>2, <2>3, <2>5, <2>6, <2>7
  <1> QED BY <1>1, <1>2, <1>3, <1>4

(* The header of a rectangle                                               *)
LEMMA HeaderSteps ==
  ASSUME NEW d, NEW t, InStep(d, t), ~Begun(d), d.rects # 0, ~Short(d, 12)
  PROVE  /\ AtPart(d, {"rect"})
         /\ Steps(d, [Skip(d, 12) EXCEPT !.rect = Part(d)], t)
         /\ [Skip(d, 12) EXCEPT !.rect = Part(d)].rects = d.rects
  <1> DEFINE r == Part(d)
             f == Skip(d, 12)
             e == [f EXCEPT !.rect = r]
  <1>1. /\ Viewer(d) /\ Bytes(d) /\ d.rect = NoRect /\ d.at = 0 /\ Cleared(d) /\ d.rects \in Nat
        /\ d.avail \in Nat /\ DecoderFits(d)
    BY Beginning
  <1>2. d.avail > 0 /\ 12 <= d.avail
    BY <1>1 DEF Short
  <1>3. /\ d.wire # <<>> /\ r = Head(d.wire) /\ r.len \in Nat /\ PartLeft(d) = r.len
    BY <1>2, Beginning DEF Part
  <1>4. PICK a \in Standings, b \in Standings :
          /\ IF a.open THEN a.k \in 1 .. d.rects ELSE a.k = d.rects
          /\ Speech(d.wire, a, Stand(t), t.repertoire)
          /\ Leads(a, r, b, t.repertoire)
          /\ Speech(Tail(d.wire), b, Stand(t), t.repertoire)
    BY <1>2, <1>3, Beginning
  <1>k. a.k \in Nat /\ a.k > 0
    BY <1>1, <1>4
  <1>5. /\ b = [k |-> a.k - 1, open |-> a.open]
        /\ \/ r = LastRect /\ a.open /\ a.k = 1
           \/ r # LastRect /\ RectFits(r) /\ ~(a.open /\ a.k = 1)
    BY <1>4, <1>k, LeadsTo DEF InStep
  <1>6. r.type = "rect" /\ r.len = 12 + BodyBytes(r) /\ BodyBytes(r) \in Nat
    <2>1. CASE r = LastRect
      BY <2>1 DEF LastRect, BodyBytes
    <2>2. CASE r # LastRect
      BY <1>5, <2>2, BodyNat DEF RectFits
    <2> QED BY <2>1, <2>2
  <1>7. AtPart(d, {"rect"})
    BY <1>1, <1>3, <1>6 DEF AtPart, Part
  <1>8. Took(d, f, 12)
    <2>1. 12 <= PartLeft(d)
      BY <1>3, <1>6
    <2> QED BY <1>1, <2>1, SkipIs DEF Bytes
  <1>9. /\ Viewer(f) /\ Steady(d, f) /\ Remembers(d, f) /\ Reaches(d, f, 12)
        /\ f.rects = d.rects
    BY <1>8, ElseSteady DEF Took, SameElse
  <1>e. e = [f EXCEPT !.rect = r]
    OBVIOUS
  <1> HIDE DEF f, r, e
  <1>10. /\ Viewer(e) /\ Steady(f, e) /\ Remembers(f, e) /\ SameBytes(f, e) /\ e.rect = r
         /\ e.rects = f.rects
    BY <1>9, <1>e DEF Steady, SameSession, SameTalk, SameBytes, Viewer, Remembers
  <1>11. /\ Steady(d, e) /\ Reaches(d, e, 12) /\ e.rects = d.rects /\ Cleared(e)
    BY <1>1, <1>9, <1>10, SteadyOn, ReachesOn DEF Cleared, Remembers, TightIdle
  <1>12. Bytes(e)
    <2>1. 12 <= PartLeft(d)
      BY <1>3, <1>6
    <2> QED BY <1>1, <1>2, <1>11, <2>1, ReachesBytes
  <1>13. Begun(e)
    BY <1>6, <1>10 DEF Begun, NoRect
  <1>14. DecoderFits(e)
    <2>1. CASE r = LastRect
      BY <1>10, <1>11, <2>1 DEF LastRect, DecoderFits, RawFits, RREFits, HextileFits, TightFits,
                                Decoding, Cleared
    <2>2. CASE r # LastRect
      <3>1. RectFits(r)
        BY <1>5, <2>2
      <3>2. RawFits(e) /\ RREFits(e) /\ TightFits(e)
        BY <1>10, <1>11, <3>1 DEF RectFits, RawFits, RREFits, TightFits, Decoding, Cleared
      <3>3. HextileFits(e)
        <4>1. r.encoding = "hextile" => Len(r.hextiles) \in Nat
          BY <3>1 DEF RectFits
        <4> QED BY <1>10, <1>11, <4>1 DEF HextileFits, Decoding, Cleared
      <3> QED BY <1>10, <3>1, <3>2, <3>3 DEF DecoderFits
    <2> QED BY <2>1, <2>2
  <1>15. Unread(e) = BodyBytes(r)
    BY <1>10, <1>11, <1>13, <1>14, UnreadNat DEF Cleared
  <1>16. Parses(e, t)
    <2>1. CASE BodyBytes(r) > 0
      <3>1. e.wire = d.wire /\ e.at = 12
        BY <1>1, <1>3, <1>6, <1>11, <2>1 DEF Reaches
      <3>2. Inside(e)
        BY <1>13, <1>15, <2>1 DEF Inside
      <3>3. Stands(e)
        <4>1. 12 = r.len - BodyBytes(r)
          BY <1>6
        <4> QED BY <1>1, <1>3, <1>10, <1>11, <1>15, <3>1, <3>2, <4>1 DEF Stands
      <3>4. r # LastRect
        BY <2>1 DEF LastRect, BodyBytes
      <3>5. From(e, a)
        BY <1>4, <1>10, <1>11, <3>2, <3>4 DEF From, RectsLeft
      <3> QED BY <1>4, <1>14, <3>1, <3>3, <3>5 DEF Parses
    <2>2. CASE BodyBytes(r) = 0
      <3>1. e.wire = Tail(d.wire) /\ e.at = 0
        BY <1>3, <1>6, <1>11, <2>2 DEF Reaches
      <3>2. ~Inside(e)
        BY <1>15, <2>2 DEF Inside
      <3>3. Stands(e)
        BY <1>1, <1>11, <3>1, <3>2 DEF Stands
      <3>4. RectsLeft(e) = d.rects - 1
        BY <1>11, <1>13, <3>2 DEF RectsLeft
      <3>5. From(e, b)
        <4>1. CASE r = LastRect
          BY <1>5, <1>10, <4>1 DEF From
        <4>2. CASE r # LastRect
          <5>1. IF b.open THEN b.k \in 1 .. d.rects - 1 ELSE b.k = d.rects - 1
            BY <1>1, <1>4, <1>5, <1>k, <4>2
          <5> QED BY <1>10, <1>11, <3>4, <4>2, <5>1 DEF From
        <4> QED BY <4>1, <4>2
      <3> QED BY <1>4, <1>14, <3>1, <3>3, <3>5 DEF Parses
    <2> QED BY <1>6, <2>1, <2>2
  <1>17. SameNews(d, e)
    <2>1. CASE e.wire = d.wire
      BY <2>1, SameWireNews
    <2>2. CASE e.wire # d.wire
      <3>1. e.wire = Tail(d.wire) /\ Whole(d.wire)
        BY <1>1, <1>11, <2>2 DEF Reaches, Bytes
      <3> QED BY <1>3, <1>6, <3>1, TailNews
    <2> QED BY <2>1, <2>2
  <1> QED BY <1>7, <1>10, <1>11, <1>12, <1>16, <1>17 DEF Steps, InStep, e, f, r

(* A turn of the loop over what arrived keeps in step, and the promises of *)
(* a connection; or it breaks the connection.                              *)
Heeds(a, b, t) ==
    /\ InStep(b, t) /\ SameSession(a, b) /\ SameTalk(a, b) /\ b.halted = a.halted
    /\ a.sock = "open" /\ Owed(a, t) => Owed(b, t)
Parted(d) == d.conn = "disconnected" /\ d.sock \notin {"connecting", "open"}
Outcome(a, b, t) ==
    \/ Heeds(a, b, t)
    \/ Viewer(b) /\ b.askings = a.askings /\ Parted(b) /\ (b.halted \/ InStep(b, t))

(* Promises are kept where what they are about is the same.                *)
LEMMA DebtsOn ==
  ASSUME NEW a, NEW t, NEW b, Debts(a, t), SameNews(a, b), b.continuous = a.continuous,
         b.knowsContinuous = a.knowsContinuous, b.out = a.out,
         b.continuous \/ b.rects = 0 => b.region = b.size
  PROVE  Debts(b, t)
  BY DEF Debts, SameNews

(* A handler that waits changes nothing. *)
LEMMA AlikeHeeds ==
  ASSUME NEW a, NEW t, InStep(a, t), NEW b, Alike(a, b)
  PROVE  Heeds(a, b, t)
  <1>1. Viewer(b) /\ SameBytes(a, b) /\ Remembers(a, b) /\ b.rect = a.rect /\ b.rects = a.rects
    BY ElseSteady DEF Alike, SameElse
  <1>2. InStep(b, t)
    BY <1>1, StepAlike
  <1>3. SameSession(a, b) /\ SameTalk(a, b) /\ SameRequests(a, b) /\ b.halted = a.halted
        /\ b.out = a.out /\ b.size = a.size
    BY DEF Alike, SameElse
  <1>4. ASSUME Owed(a, t) PROVE Owed(b, t)
    <2>1. SameNews(a, b)
      BY <1>1, SameWireNews DEF SameBytes
    <2>2. Debts(b, t)
      <3>1. b.continuous \/ b.rects = 0 => b.region = b.size
        BY <1>1, <1>3, <1>4 DEF Owed, Debts, SameRequests
      <3> QED BY <1>3, <1>4, <2>1, <3>1, DebtsOn DEF Owed, SameRequests
    <2>3. Awaits(b)
      BY <1>1, <1>3, <1>4 DEF Owed, Awaits, SameRequests, SameBytes
    <2> QED BY <1>3, <1>4, <2>2, <2>3 DEF Owed
  <1> QED BY <1>2, <1>3, <1>4 DEF Heeds

(* In an update the viewer needs no request.                               *)
LEMMA StepHeeds ==
  ASSUME NEW a, NEW b, NEW t, Steps(a, b, t), b.rects # 0
  PROVE  Heeds(a, b, t)
  <1>1. InStep(b, t) /\ Steady(a, b) /\ SameNews(a, b)
    BY DEF Steps
  <1>2. b.rects \in Nat /\ b.rects > 0
    BY <1>1 DEF InStep, Parses, Stands
  <1>3. ASSUME Owed(a, t) PROVE Owed(b, t)
    <2>1. b.continuous \/ b.rects = 0 => b.region = b.size
      BY <1>1, <1>2, <1>3 DEF Owed, Debts, Steady
    <2>2. Debts(b, t)
      BY <1>1, <1>3, <2>1, DebtsOn DEF Owed, Steady
    <2> QED BY <1>1, <1>2, <1>3, <2>2 DEF Owed, Awaits, Steady
  <1> QED BY <1>1, <1>3 DEF Heeds, Steady

(* At the end of one it asks for the next, of its whole screen.            *)
LEMMA FinishHeeds ==
  ASSUME NEW a, NEW e, NEW t, Steps(a, e, t), e.rects = 0
  PROVE  Heeds(a, FinishUpdate(e), t)
  <1> DEFINE f == Perform(e, Flip)
             b == FinishUpdate(e)
  <1>1. InStep(e, t) /\ Steady(a, e) /\ SameNews(a, e) /\ Viewer(e)
    BY DEF Steps, InStep
  <1>2. Alike(e, f)
    BY <1>1, PerformDraws
  <1>e. b = IF e.continuous THEN f ELSE RequestUpdate(f)
    BY DEF FinishUpdate
  <1> HIDE DEF f, b
  <1>3. /\ Viewer(f) /\ SameBytes(e, f) /\ Remembers(e, f) /\ f.rect = e.rect /\ f.rects = e.rects
        /\ SameSession(e, f) /\ SameTalk(e, f) /\ SameRequests(e, f) /\ f.halted = e.halted
        /\ f.out = e.out /\ f.size = e.size
    BY <1>2, ElseSteady DEF Alike, SameElse
  <1>4. /\ Viewer(b) /\ SameBytes(f, b) /\ Remembers(f, b) /\ b.rect = f.rect /\ b.rects = f.rects
        /\ SameSession(f, b) /\ SameTalk(f, b) /\ b.halted = f.halted
        /\ b.out = f.out /\ b.size = f.size
        /\ b.continuous = f.continuous /\ b.knowsContinuous = f.knowsContinuous
        /\ \/ e.continuous /\ b.region = f.region
           \/ ~e.continuous /\ (f.sock = "open" => b.asked /\ b.region = b.size)
    <2>1. CASE e.continuous
      <3>1. b = f
        BY <1>e, <2>1
      <3> QED BY <1>3, <2>1, <3>1 DEF SameBytes, Remembers, SameSession, SameTalk
    <2>2. CASE ~e.continuous /\ f.sock = "open"
      <3>1. b = [f EXCEPT !.asked = TRUE, !.region = f.size]
        BY <1>e, <2>2 DEF RequestUpdate
      <3> QED BY <1>3, <2>2, <3>1 DEF SameBytes, Remembers, SameSession, SameTalk, Viewer
    <2>3. CASE ~e.continuous /\ f.sock # "open"
      <3>1. b = f
        BY <1>e, <2>3 DEF RequestUpdate
      <3> QED BY <1>3, <2>3, <3>1 DEF SameBytes, Remembers, SameSession, SameTalk
    <2> QED BY <2>1, <2>2, <2>3
  <1>5. SameBytes(e, b) /\ Remembers(e, b) /\ SameSession(a, b) /\ SameTalk(a, b)
    BY <1>1, <1>3, <1>4 DEF SameBytes, Remembers, SameSession, SameTalk, Steady
  <1>6. InStep(b, t)
    BY <1>1, <1>3, <1>4, <1>5, StepAlike
  <1>7. b.halted = a.halted
    BY <1>1, <1>3, <1>4 DEF Steady
  <1>8. ASSUME a.sock = "open", Owed(a, t) PROVE Owed(b, t)
    <2>1. SameNews(a, b)
      BY <1>1, <1>5, SameWireNews, NewsOn DEF SameBytes
    <2>2. b.continuous = a.continuous /\ b.knowsContinuous = a.knowsContinuous /\ b.out = a.out
      BY <1>1, <1>3, <1>4 DEF Steady, SameRequests
    <2>3. f.sock = "open"
      BY <1>1, <1>3, <1>8 DEF Steady, SameSession
    <2>4. b.region = b.size /\ (b.asked \/ b.continuous)
      <3>1. CASE e.continuous
        <4>1. a.continuous /\ a.region = a.size
          BY <1>1, <1>8, <3>1 DEF Owed, Debts, Steady
        <4> QED BY <1>1, <1>3, <1>4, <2>2, <3>1, <4>1 DEF Steady, SameRequests
      <3>2. CASE ~e.continuous
        BY <1>4, <2>3, <3>2
      <3> QED BY <3>1, <3>2
    <2>5. Debts(b, t)
      BY <1>8, <2>1, <2>2, <2>4, DebtsOn DEF Owed
    <2> QED BY <1>8, <2>2, <2>4, <2>5 DEF Owed, Awaits
  <1> QED BY <1>5, <1>6, <1>7, <1>8 DEF Heeds, b

(* A viewer that refuses or fails has left. *)
LEMMA BreakParts ==
  ASSUME NEW d, NEW f, Viewer(f), SameSession(d, f), SameTalk(d, f),
         d.conn = "connected" \/ Parted(d)
  PROVE  /\ Viewer(Refuse(f)) /\ Refuse(f).askings = d.askings /\ Parted(Refuse(f))
         /\ Refuse(f).halted
         /\ Viewer(Fail(f)) /\ Fail(f).askings = d.askings /\ Parted(Fail(f))
         /\ SameBytes(f, Fail(f)) /\ SameDecoder(f, Fail(f))
  <1>1. /\ Broken(f, Leave(f)) /\ Fail(f) = Leave(f) /\ Broken(f, Refuse(f))
        /\ Refuse(f).halted = TRUE
    BY LeaveBreaks
  <1>2. \A e : Broken(f, e) => Viewer(e) /\ e.askings = d.askings /\ Parted(e)
    BY DEF Broken, SameSession, SameTalk, Parted
  <1> QED BY <1>1, <1>2 DEF Broken

(* One turn in an update                                                   *)
LEMMA ContinueOutcome ==
  ASSUME NEW d, NEW t, InStep(d, t), d.rects # 0, d.conn = "connected" \/ Parted(d)
  PROVE  Outcome(d, ContinueUpdate(d), t)
  <1> DEFINE e == HandleRect(d)
             h == [Skip(d, 12) EXCEPT !.rect = Part(d)]
  <1>e. ContinueUpdate(d) = CASE d.rect = NoRect /\ Short(d, 12) -> d
          [] d.rect = NoRect /\ ~Short(d, 12) -> IF AtPart(d, {"rect"}) THEN h ELSE Lose(d)
          [] d.rect # NoRect /\ e.rects > 0 -> e
          [] OTHER -> FinishUpdate(e)
    BY DEF ContinueUpdate
  <1>1. CASE d.rect = NoRect /\ Short(d, 12)
    <2>1. ContinueUpdate(d) = d
      BY <1>1, <1>e
    <2>2. Alike(d, d)
      BY SameSelf DEF InStep
    <2> QED BY <2>1, <2>2, AlikeHeeds DEF Outcome
  <1>2. CASE d.rect = NoRect /\ ~Short(d, 12)
    <2>1. AtPart(d, {"rect"}) /\ Steps(d, h, t) /\ h.rects = d.rects
      BY <1>2, HeaderSteps DEF Begun
    <2>2. ContinueUpdate(d) = h
      BY <1>2, <1>e, <2>1
    <2> HIDE DEF h
    <2> QED BY <2>1, <2>2, StepHeeds DEF Outcome
  <1>3. CASE d.rect # NoRect
    <2>1. Steps(d, e, t) \/ (e = Refuse(d) /\ d.rect # LastRect)
      BY <1>3, RectSteps DEF Begun
    <2>2. ContinueUpdate(d) = IF e.rects > 0 THEN e ELSE FinishUpdate(e)
      BY <1>3, <1>e
    <2>r. d.rects \in Nat /\ d.rects > 0
      BY DEF InStep, Parses, Stands
    <2> HIDE DEF e
    <2>3. CASE Steps(d, e, t)
      <3>1. e.rects \in Nat
        BY <2>3 DEF Steps, InStep, Parses, Stands
      <3>2. CASE e.rects > 0
        BY <2>2, <2>3, <3>2, StepHeeds DEF Outcome
      <3>3. CASE ~(e.rects > 0)
        <4>1. e.rects = 0 /\ ContinueUpdate(d) = FinishUpdate(e)
          BY <2>2, <3>1, <3>3
        <4> QED BY <2>3, <4>1, FinishHeeds DEF Outcome
      <3> QED BY <3>2, <3>3
    <2>4. CASE e = Refuse(d)
      <3>1. Viewer(d) /\ SameSession(d, d) /\ SameTalk(d, d)
        BY DEF InStep, SameSession, SameTalk
      <3>2. Viewer(e) /\ e.askings = d.askings /\ Parted(e) /\ e.halted
        BY <2>4, <3>1, BreakParts
      <3>3. Broken(d, e)
        BY <2>4, <3>1, LeaveBreaks
      <3>4. e.rects = d.rects
        BY <3>3 DEF Broken, SameDecoder
      <3>5. ContinueUpdate(d) = e
        BY <2>2, <2>r, <3>4
      <3> QED BY <3>2, <3>5 DEF Outcome
    <2> QED BY <2>1, <2>3, <2>4
  <1> QED BY <1>1, <1>2, <1>3

(* After a message of so many rectangles the server is there.              *)
Begins(b, n) ==
    /\ b \in Standings
    /\ IF n = 0 THEN b.k = 0 ELSE IF b.open THEN b.k \in 1 .. n ELSE b.k = n
GoesOnFrom(d, t, b, n) == Begins(b, n) /\ Speech(Tail(d.wire), b, Stand(t), t.repertoire)

(* Between updates the viewer is at a message, which is an update or has   *)
(* the layout of its kind.                                                 *)
LEMMA MessageIs ==
  ASSUME NEW d, NEW t, InStep(d, t), d.rects = 0, d.avail > 0
  PROVE  /\ Viewer(d) /\ Bytes(d) /\ d.rect = NoRect /\ d.at = 0 /\ d.avail \in Nat /\ ~Begun(d)
         /\ AtPart(d, NormalTypes) /\ PartLeft(d) = Part(d).len /\ d.wire # <<>>
         /\ Part(d) = Head(d.wire) /\ Part(d).len \in Nat \ {0}
         /\ \/ /\ MessageFits(Part(d)) /\ Part(d).type # "update"
               /\ \E b : GoesOnFrom(d, t, b, 0)
            \/ \E n \in Nat : Part(d) = UpdatePart(n) /\ \E b : GoesOnFrom(d, t, b, n)
  <1>1. ~Begun(d)
    BY DEF InStep, Parses, Stands
  <1>2. /\ Viewer(d) /\ Bytes(d) /\ d.rect = NoRect /\ d.at = 0 /\ d.avail \in Nat
        /\ d.wire # <<>> /\ Head(d.wire).len \in Nat /\ PartLeft(d) = Head(d.wire).len
    BY <1>1, Beginning
  <1>3. PICK a \in Standings, b \in Standings :
          /\ a.k = 0
          /\ Leads(a, Head(d.wire), b, t.repertoire)
          /\ Speech(Tail(d.wire), b, Stand(t), t.repertoire)
    BY <1>1, Beginning
  <1>4. Part(d) = Head(d.wire) /\ Part(d).len \in Nat \ {0}
    BY <1>2, WholeFirst DEF Part, Bytes
  <1> DEFINE m == Part(d)
  <1>5. \/ \E n \in 0 .. MaxRects : m = UpdatePart(n) /\ b = [k |-> n, open |-> FALSE]
        \/ m = UpdatePart(OpenCount) /\ b = [k |-> MaxRects, open |-> TRUE]
        \/ MessageFits(m) /\ b = a
    BY <1>3, <1>4, LeadsTo DEF InStep
  <1> HIDE DEF m
  <1>6. MaxRects \in 1 .. OpenCount - 1 /\ OpenCount \in Nat /\ OpenCount # 0
    BY VncClientAssumption, SMTT(20), ZenonT(40) DEF OpenCount
  <1>7. CASE \E n \in 0 .. MaxRects : m = UpdatePart(n) /\ b = [k |-> n, open |-> FALSE]
    <2>1. PICK n \in 0 .. MaxRects : m = UpdatePart(n) /\ b = [k |-> n, open |-> FALSE]
      BY <1>7
    <2>2. GoesOnFrom(d, t, b, n) /\ n \in Nat
      BY <1>3, <1>6, <2>1 DEF GoesOnFrom, Begins
    <2>3. m.type \in NormalTypes
      BY <2>1 DEF UpdatePart, NormalTypes
    <2> QED BY <1>1, <1>2, <1>4, <2>1, <2>2, <2>3 DEF AtPart, m
  <1>8. CASE m = UpdatePart(OpenCount) /\ b = [k |-> MaxRects, open |-> TRUE]
    <2>1. GoesOnFrom(d, t, b, OpenCount)
      BY <1>3, <1>6, <1>8 DEF GoesOnFrom, Begins
    <2>2. m.type \in NormalTypes
      BY <1>8 DEF UpdatePart, NormalTypes
    <2> QED BY <1>1, <1>2, <1>4, <1>6, <1>8, <2>1, <2>2 DEF AtPart, m
  <1>9. CASE MessageFits(m) /\ b = a
    <2>1. m.type \in NormalTypes /\ m.type # "update"
      BY <1>9 DEF MessageFits, NormalTypes
    <2>2. GoesOnFrom(d, t, b, 0)
      BY <1>3, <1>9 DEF GoesOnFrom, Begins
    <2> QED BY <1>1, <1>2, <1>4, <1>9, <2>1, <2>2 DEF AtPart, m
  <1> QED BY <1>5, <1>7, <1>8, <1>9

(* All of a message has been read. *)
LEMMA MessageTaken ==
  ASSUME NEW d, NEW t, InStep(d, t), d.rects = 0, d.avail > 0, Part(d).len <= d.avail,
         NEW e, Viewer(e), Reaches(d, e, Part(d).len), Remembers(d, e), e.rect = NoRect,
         NEW b, GoesOnFrom(d, t, b, e.rects), e.rects \in Nat
  PROVE  InStep(e, t) /\ e.wire = Tail(d.wire)
  <1>1. /\ Bytes(d) /\ d.rect = NoRect /\ PartLeft(d) = Part(d).len /\ Part(d).len \in Nat \ {0}
        /\ ~Begun(d)
    BY MessageIs
  <1>2. Bytes(e)
    BY <1>1, ReachesBytes
  <1>3. e.wire = Tail(d.wire) /\ e.at = 0
    BY <1>1 DEF Reaches
  <1>4. Cleared(d)
    BY <1>1, Beginning
  <1>5. DecoderFits(e)
    BY <1>4 DEF DecoderFits, RawFits, RREFits, HextileFits, TightFits, Decoding, Begun, Cleared,
                Remembers, TightIdle
  <1>6. ~Begun(e) /\ ~Inside(e) /\ e.rect # LastRect /\ RectsLeft(e) = e.rects
    BY DEF Begun, Inside, RectsLeft, NoRect, LastRect
  <1>7. Stands(e)
    BY <1>3, <1>6 DEF Stands
  <1>8. From(e, b)
    BY <1>6 DEF From, GoesOnFrom, Begins
  <1> QED BY <1>2, <1>3, <1>5, <1>7, <1>8 DEF InStep, Parses, GoesOnFrom

(* What is still under way when a message of no kind that anybody waits    *)
(* for has been read                                                       *)
LEMMA OtherTaken ==
  ASSUME NEW d, NEW t, InStep(d, t), d.rects = 0, d.avail > 0, Part(d).len <= d.avail,
         Part(d).type \notin {"update", "endOfContinuousUpdates", "fence"},
         NEW e, Took(d, e, Part(d).len), NEW b, GoesOnFrom(d, t, b, 0)
  PROVE  Heeds(d, e, t) /\ InStep(e, t)
  <1>1. /\ Viewer(e) /\ SameSession(d, e) /\ SameTalk(d, e) /\ SameRequests(d, e)
        /\ SameDecoder(d, e) /\ e.out = d.out /\ e.size = d.size /\ e.halted = d.halted
        /\ Reaches(d, e, Part(d).len)
    BY DEF Took, SameElse
  <1>2. /\ Whole(d.wire) /\ d.wire # <<>> /\ Part(d) = Head(d.wire) /\ d.rect = NoRect
    BY MessageIs DEF Bytes
  <1>3. Remembers(d, e) /\ e.rect = NoRect /\ e.rects = 0
    BY <1>1, <1>2 DEF SameDecoder, Remembers
  <1>4. InStep(e, t) /\ e.wire = Tail(d.wire)
    BY <1>1, <1>3, MessageTaken
  <1>5. ASSUME Owed(d, t) PROVE Owed(e, t)
    <2>1. SameNews(d, e)
      BY <1>2, <1>4, TailNews
    <2>2. e.region = e.size
      BY <1>1, <1>5 DEF Owed, Debts, SameRequests
    <2>3. Debts(e, t)
      BY <1>1, <1>5, <2>1, <2>2, DebtsOn DEF Owed, SameRequests
    <2>4. Types(d.wire, {"update"}) # {} => Types(e.wire, {"update"}) # {}
      <3> DEFINE U == {"update"}
      <3>1. Passed(d.wire, e.wire, U)
        BY <1>2, <1>4, TypesTail
      <3>2. 1 \notin Types(d.wire, U)
        BY <1>2, <3>1 DEF Passed
      <3> HIDE DEF U
      <3>3. Types(d.wire, U) # {} => Types(e.wire, U) # {}
        BY <3>1, <3>2 DEF Passed
      <3> QED BY <3>3 DEF U
    <2>5. Awaits(e)
      BY <1>1, <1>3, <1>5, <2>4 DEF Owed, Awaits, SameRequests
    <2> QED BY <1>1, <1>5, <2>3, <2>5 DEF Owed
  <1> QED BY <1>1, <1>4, <1>5 DEF Heeds

(* To take back what was read of a message that is not all there           *)
LEMMA BackHeeds ==
  ASSUME NEW d, NEW t, InStep(d, t), NEW e, NEW n \in Nat, Took(d, e, n), n < PartLeft(d)
  PROVE  Heeds(d, Back(e, n), t)
  <1>1. Alike(d, Back(e, n))
    BY BackIs DEF InStep
  <1> QED BY <1>1, AlikeHeeds

(* A message is read a few bytes at a time.                                *)
LEMMA MessageRead ==
  ASSUME NEW d, NEW t, InStep(d, t), d.rects = 0, d.avail > 0
  PROVE  /\ Took(d, Skip(d, 1), 1)
         /\ \A n, k \in Nat : \A e : Took(d, e, n) /\ n + k <= Part(d).len => Took(d, Skip(e, k), n + k)
  <1>1. /\ Viewer(d) /\ Bytes(d) /\ PartLeft(d) = Part(d).len /\ Part(d).len \in Nat \ {0}
    BY MessageIs
  <1>2. Took(d, Skip(d, 1), 1)
    BY <1>1, SkipIs DEF Bytes
  <1> QED BY <1>1, <1>2, TookMore

(* An update begins, waits for the display or ends at once.                *)
LEMMA BeginOutcome ==
  ASSUME NEW d, NEW t, InStep(d, t), d.rects = 0, d.avail > 0, Part(d).type = "update"
  PROVE  Heeds(d, BeginUpdate(d, Skip(d, 1)), t)
  <1> DEFINE e == Skip(d, 1)
             f == Skip(e, 3)
             n == Part(d).n
             g == [f EXCEPT !.rects = n]
             h == [g EXCEPT !.flushing = TRUE, !.dflush = TRUE, !.dropped = @ \/ n = 0]
  <1>1. /\ Viewer(d) /\ Bytes(d) /\ d.rect = NoRect /\ d.avail \in Nat
        /\ Whole(d.wire) /\ d.wire # <<>> /\ Part(d) = Head(d.wire) /\ PartLeft(d) = Part(d).len
    BY MessageIs DEF Bytes
  <1>2. /\ Part(d) = UpdatePart(n) /\ n \in Nat /\ Part(d).len = 4
        /\ \E b : GoesOnFrom(d, t, b, n)
    <2>1. PICK k \in Nat : Part(d) = UpdatePart(k) /\ \E b : GoesOnFrom(d, t, b, k)
      BY MessageIs
    <2>2. n = k /\ Part(d).len = 4
      BY <2>1 DEF UpdatePart
    <2> QED BY <2>1, <2>2
  <1>3. Took(d, e, 1) /\ Took(d, f, 4)
    <2>1. Took(d, e, 1) /\ \A i, k \in Nat : \A x : Took(d, x, i) /\ i + k <= Part(d).len => Took(d, Skip(x, k), i + k)
      BY MessageRead
    <2>2. Took(d, f, 1 + 3)
      BY <1>2, <2>1
    <2> QED BY <2>1, <2>2
  <1>e. BeginUpdate(d, e) = CASE Short(e, 3) -> Back(e, 1)
          [] ~Short(e, 3) /\ d.renderQ # <<>> -> h
          [] OTHER -> IF n = 0 THEN FinishUpdate(g) ELSE g
    BY DEF BeginUpdate
  <1>a. e.avail = d.avail - 1
    BY <1>3 DEF Took, Reaches
  <1>g. g = [f EXCEPT !.rects = n] /\ h = [g EXCEPT !.flushing = TRUE, !.dflush = TRUE, !.dropped = g.dropped \/ n = 0]
    OBVIOUS
  <1>h. BeginUpdate(d, e) \in {Back(e, 1), h, FinishUpdate(g), g}
    BY <1>e
  <1> HIDE DEF e, f, g, h, n
  <1>4. CASE Short(e, 3)
    <2>1. BeginUpdate(d, e) = Back(e, 1)
      BY <1>4, <1>e
    <2>2. Heeds(d, Back(e, 1), t)
      BY <1>1, <1>2, <1>3, BackHeeds
    <2> QED BY <2>1, <2>2 DEF e
  <1>5. CASE ~Short(e, 3)
    <2>1. 4 <= d.avail
      BY <1>1, <1>5, <1>a DEF Short
    <2>2. /\ Viewer(f) /\ SameSession(d, f) /\ SameTalk(d, f) /\ SameRequests(d, f)
          /\ SameDecoder(d, f) /\ f.out = d.out /\ f.size = d.size /\ f.halted = d.halted
          /\ Reaches(d, f, 4)
      BY <1>3 DEF Took, SameElse
    <2>3. /\ Viewer(g) /\ SameSession(f, g) /\ SameTalk(f, g) /\ SameRequests(f, g)
          /\ SameBytes(f, g) /\ Remembers(f, g) /\ g.rect = f.rect /\ g.rects = n
          /\ g.out = f.out /\ g.size = f.size /\ g.halted = f.halted
      BY <1>g, <2>2 DEF Viewer, SameSession, SameTalk, SameRequests, SameBytes, Remembers
    <2>4. /\ SameSession(d, g) /\ SameTalk(d, g) /\ SameRequests(d, g) /\ Remembers(d, g)
          /\ g.out = d.out /\ g.size = d.size /\ g.halted = d.halted /\ Reaches(d, g, 4)
          /\ g.rect = NoRect
      BY <1>1, <2>2, <2>3, ReachesOn DEF SameSession, SameTalk, SameRequests, SameDecoder, Remembers
    <2>5. InStep(g, t) /\ g.wire = Tail(d.wire)
      <3>1. PICK b : GoesOnFrom(d, t, b, g.rects)
        BY <1>2, <2>3
      <3> QED BY <1>2, <2>1, <2>3, <2>4, <3>1, MessageTaken
    <2>6. SameNews(d, g)
      <3>1. Head(d.wire).type = "update"
        BY <1>1
      <3> QED BY <1>1, <2>5, <3>1, TailNews
    <2>7. Steps(d, g, t)
      BY <2>3, <2>4, <2>5, <2>6 DEF Steps, Steady, SameRequests
    <2>8. CASE d.renderQ # <<>>
      <3>1. BeginUpdate(d, e) = h
        BY <1>5, <1>e, <2>8
      <3>2. /\ Viewer(h) /\ SameBytes(g, h) /\ Remembers(g, h) /\ h.rect = g.rect /\ h.rects = g.rects
            /\ SameSession(g, h) /\ SameTalk(g, h) /\ h.halted = g.halted /\ h.out = g.out
            /\ h.size = g.size /\ h.region = g.region /\ h.continuous = g.continuous
            /\ h.knowsContinuous = g.knowsContinuous /\ h.dropped = (g.dropped \/ n = 0)
        BY <1>g, <2>3 DEF Viewer, SameSession, SameTalk, SameBytes, Remembers
      <3>3. InStep(h, t)
        BY <2>5, <3>2, StepAlike
      <3>4. SameSession(d, h) /\ SameTalk(d, h) /\ h.halted = d.halted
        BY <2>4, <3>2 DEF SameSession, SameTalk
      <3>5. ASSUME Owed(d, t) PROVE Owed(h, t)
        <4>1. SameNews(d, h)
          BY <2>6, <3>2, SameWireNews, NewsOn DEF SameBytes
        <4>2. h.region = h.size
          BY <2>4, <3>2, <3>5 DEF Owed, Debts, SameRequests
        <4>3. Debts(h, t)
          BY <2>4, <3>2, <3>5, <4>1, <4>2, DebtsOn DEF Owed, SameRequests
        <4>4. Awaits(h)
          <5>1. h.rects = n /\ (n = 0 => h.dropped)
            BY <2>3, <3>2
          <5> QED BY <1>2, <5>1 DEF Awaits
        <4> QED BY <2>4, <3>2, <3>5, <4>3, <4>4 DEF Owed
      <3> QED BY <3>1, <3>3, <3>4, <3>5 DEF Heeds, e
    <2>9. CASE d.renderQ = <<>>
      <3>1. BeginUpdate(d, e) = IF n = 0 THEN FinishUpdate(g) ELSE g
        BY <1>5, <1>e, <2>9
      <3>2. CASE n = 0
        BY <2>3, <2>7, <3>1, <3>2, FinishHeeds DEF e
      <3>3. CASE n # 0
        BY <2>3, <2>7, <3>1, <3>3, StepHeeds DEF e
      <3> QED BY <3>2, <3>3
    <2> QED BY <2>8, <2>9
  <1> QED BY <1>4, <1>5

(* Text of the clipboard, whole or not yet there                           *)
LEMMA TextOutcome ==
  ASSUME NEW d, NEW t, InStep(d, t), d.rects = 0, d.avail > 0, Part(d).type = "cutText",
         d.conn = "connected" \/ Parted(d)
  PROVE  Outcome(d, HandleServerCutText(d, Skip(d, 1)), t)
  <1> DEFINE m == Part(d)
             u == Skip(d, 1)
             e == Skip(u, 7)
             f == Skip(e, 4)
             x == HandleExtendedClipboard(m, e)
  <1>1. /\ Viewer(d) /\ Bytes(d) /\ d.avail \in Nat /\ PartLeft(d) = m.len
    BY MessageIs
  <1>2. MessageFits(m) /\ \E b : GoesOnFrom(d, t, b, 0)
    <2>1. \A k : UpdatePart(k).type = "update"
      BY DEF UpdatePart
    <2> QED BY <2>1, MessageIs
  <1>3. /\ m.n \in Nat /\ m.len = 8 + m.n
        /\ m.form # "text" => m.n >= 4
        /\ m.form = "caps" => m.n = 4 + 4 * m.formats /\ m.formats \in Nat
        /\ m.form \in {"request", "peek", "notify"} => m.n = 4
        /\ m.form = "provide" => m.text
    BY <1>2 DEF MessageFits
  <1>r. Took(d, u, 1) /\ \A i, k \in Nat : \A y : Took(d, y, i) /\ i + k <= m.len => Took(d, Skip(y, k), i + k)
    BY MessageRead
  <1>t. m.type = "cutText"
    OBVIOUS
  <1>e. HandleServerCutText(d, u) =
          CASE Short(u, 7) -> Back(u, 1)
            [] ~Short(u, 7) /\ Short(e, m.n) -> Back(e, 8)
            [] ~Short(u, 7) /\ ~Short(e, m.n) /\ m.form = "text" -> Skip(e, m.n)
            [] OTHER -> x
    BY DEF HandleServerCutText
  <1>x. x = CASE m.form = "caps" -> Skip(f, 4 * m.formats)
              [] m.form \in {"request", "peek", "notify"} -> f
              [] m.form = "provide" -> IF m.text THEN Skip(f, m.n - 4) ELSE f
              [] OTHER -> Refuse(f)
    BY DEF HandleExtendedClipboard
  <1>4. Took(d, e, 8)
    <2>1. Took(d, e, 1 + 7)
      BY <1>3, <1>r
    <2> QED BY <2>1
  <1>5. m.n >= 4 => Took(d, f, 12)
    <2>1. m.n >= 4 => Took(d, f, 8 + 4)
      BY <1>3, <1>4, <1>r
    <2> QED BY <2>1
  <1>a. u.avail = d.avail - 1 /\ e.avail = d.avail - 8
    BY <1>4, <1>r DEF Took, Reaches
  <1> HIDE DEF u, e, f, x, m
  <1>6. CASE Short(u, 7)
    <2>1. HandleServerCutText(d, u) = Back(u, 1)
      BY <1>6, <1>e
    <2>2. Heeds(d, Back(u, 1), t)
      BY <1>1, <1>3, <1>r, BackHeeds
    <2> QED BY <2>1, <2>2 DEF u, Outcome
  <1>7. CASE ~Short(u, 7) /\ Short(e, m.n)
    <2>1. HandleServerCutText(d, u) = Back(e, 8)
      BY <1>7, <1>e
    <2>2. 8 < m.len
      BY <1>1, <1>3, <1>7, <1>a DEF Short
    <2>3. Heeds(d, Back(e, 8), t)
      BY <1>1, <1>4, <2>2, BackHeeds
    <2> QED BY <2>1, <2>3 DEF u, Outcome
  <1>8. CASE ~Short(u, 7) /\ ~Short(e, m.n)
    <2>1. m.len <= d.avail
      BY <1>1, <1>3, <1>8, <1>a DEF Short
    <2>2. \A y : Took(d, y, m.len) => Outcome(d, y, t)
      <3>1. m.type \notin {"update", "endOfContinuousUpdates", "fence"}
        BY <1>t
      <3>2. \A y, b : Took(d, y, m.len) /\ GoesOnFrom(d, t, b, 0) => Heeds(d, y, t)
        BY <2>1, <3>1, OtherTaken DEF m
      <3> QED BY <1>2, <3>2 DEF Outcome
    <2>3. CASE m.form = "text"
      <3>1. HandleServerCutText(d, u) = Skip(e, m.n)
        BY <1>8, <1>e, <2>3
      <3>2. Took(d, Skip(e, m.n), 8 + m.n)
        BY <1>3, <1>4, <1>r
      <3> QED BY <1>3, <2>2, <3>1, <3>2 DEF u
    <2>4. CASE m.form # "text"
      <3>1. HandleServerCutText(d, u) = x /\ m.n >= 4 /\ Took(d, f, 12)
        BY <1>3, <1>5, <1>8, <1>e, <2>4
      <3>2. CASE m.form = "caps"
        <4>1. x = Skip(f, 4 * m.formats)
          BY <1>x, <3>2
        <4> DEFINE k == 4 * m.formats
        <4>2. k \in Nat /\ m.n = 4 + k
          BY <1>3, <3>2
        <4> HIDE DEF k
        <4>3. 12 + k = m.len
          BY <1>3, <4>2
        <4>4. Took(d, Skip(f, k), 12 + k)
          BY <1>r, <3>1, <4>2, <4>3
        <4> QED BY <2>2, <3>1, <4>1, <4>3, <4>4 DEF u, k
      <3>3. CASE m.form \in {"request", "peek", "notify"}
        <4>1. x = f /\ m.len = 12
          BY <1>3, <1>x, <3>3
        <4> QED BY <2>2, <3>1, <4>1 DEF u
      <3>4. CASE m.form = "provide"
        <4>1. x = Skip(f, m.n - 4)
          BY <1>3, <1>x, <3>4
        <4>2. m.n - 4 \in Nat /\ 12 + (m.n - 4) = m.len
          BY <1>3, <3>1
        <4>3. Took(d, Skip(f, m.n - 4), 12 + (m.n - 4))
          BY <1>r, <3>1, <4>2
        <4> QED BY <2>2, <3>1, <4>1, <4>2, <4>3 DEF u
      <3>5. CASE m.form \notin {"caps", "request", "peek", "notify", "provide"}
        <4>1. x = Refuse(f)
          BY <1>x, <3>5
        <4>2. Viewer(f) /\ SameSession(d, f) /\ SameTalk(d, f)
          BY <3>1 DEF Took, SameElse
        <4> QED BY <3>1, <4>1, <4>2, BreakParts DEF u, Outcome
      <3> QED BY <3>2, <3>3, <3>4, <3>5
    <2> QED BY <2>3, <2>4
  <1> QED BY <1>6, <1>7, <1>8 DEF u

(* A fence is answered: the server that waits for it is promised that.     *)
LEMMA FenceOutcome ==
  ASSUME NEW d, NEW t, InStep(d, t), d.rects = 0, d.avail > 0, Part(d).type = "fence",
         d.conn = "connected" \/ Parted(d)
  PROVE  Outcome(d, HandleServerFence(d, Skip(d, 1)), t)
  <1> DEFINE m == Part(d)
             u == Skip(d, 1)
             e == Skip(u, 8)
             f == Skip(e, Min({m.n, 64}))
             x == ClientFence(f)
  <1>1. /\ Viewer(d) /\ Bytes(d) /\ d.avail \in Nat /\ PartLeft(d) = m.len /\ d.rect = NoRect
        /\ Whole(d.wire) /\ d.wire # <<>> /\ m = Head(d.wire)
    BY MessageIs DEF Bytes
  <1>2. MessageFits(m) /\ \E b : GoesOnFrom(d, t, b, 0)
    <2>1. \A k : UpdatePart(k).type = "update"
      BY DEF UpdatePart
    <2> QED BY <2>1, MessageIs
  <1>3. m.n \in Nat /\ m.n <= 64 /\ m.len = 9 + m.n /\ m.type = "fence"
    <2>1. m.n \in 0 .. 64 /\ m.len = 9 + m.n /\ m.type = "fence"
      BY <1>2 DEF MessageFits
    <2> HIDE DEF m
    <2> QED BY <2>1
  <1>r. Took(d, u, 1) /\ \A i, k \in Nat : \A y : Took(d, y, i) /\ i + k <= m.len => Took(d, Skip(y, k), i + k)
    BY MessageRead
  <1>4. Took(d, e, 9)
    <2>1. Took(d, e, 1 + 8)
      BY <1>3, <1>r
    <2> QED BY <2>1
  <1>5. Took(d, f, m.len)
    <2>1. Min({m.n, 64}) = m.n
      BY <1>3 DEF Min
    <2>2. m.n \in Nat /\ 9 + m.n <= m.len
      BY <1>3
    <2>3. Took(d, Skip(e, m.n), 9 + m.n)
      BY <1>4, <1>r, <2>2
    <2> QED BY <1>3, <2>1, <2>3
  <1>a. u.avail = d.avail - 1 /\ e.avail = d.avail - 9
    BY <1>4, <1>r DEF Took, Reaches
  <1>e. HandleServerFence(d, u) =
          CASE Short(u, 8) -> Back(u, 1)
            [] ~Short(u, 8) /\ Short(e, m.n) -> Back(e, 9)
            [] OTHER -> IF m.request THEN x ELSE Refuse(f)
    BY DEF HandleServerFence
  <1>x. x = IF f.sock = "open" THEN [f EXCEPT !.out = Append(f.out, <<"fence">>)] ELSE f
    BY DEF ClientFence, Say
  <1> HIDE DEF u, e, f, x, m
  <1>6. CASE Short(u, 8)
    <2>1. HandleServerFence(d, u) = Back(u, 1)
      BY <1>6, <1>e
    <2>2. Heeds(d, Back(u, 1), t)
      BY <1>1, <1>3, <1>r, BackHeeds
    <2> QED BY <2>1, <2>2 DEF u, Outcome
  <1>7. CASE ~Short(u, 8) /\ Short(e, m.n)
    <2>1. HandleServerFence(d, u) = Back(e, 9)
      BY <1>7, <1>e
    <2>2. 9 < m.len
      BY <1>1, <1>3, <1>7, <1>a DEF Short
    <2>3. Heeds(d, Back(e, 9), t)
      BY <1>1, <1>4, <2>2, BackHeeds
    <2> QED BY <2>1, <2>3 DEF u, Outcome
  <1>8. CASE ~Short(u, 8) /\ ~Short(e, m.n)
    <2>1. m.len <= d.avail
      BY <1>1, <1>3, <1>8, <1>a DEF Short
    <2>2. /\ Viewer(f) /\ SameSession(d, f) /\ SameTalk(d, f) /\ SameRequests(d, f)
          /\ SameDecoder(d, f) /\ f.out = d.out /\ f.size = d.size /\ f.halted = d.halted
          /\ Reaches(d, f, m.len)
      BY <1>5 DEF Took, SameElse
    <2>3. CASE ~m.request
      <3>1. HandleServerFence(d, u) = Refuse(f)
        BY <1>8, <1>e, <2>3
      <3> QED BY <2>2, <3>1, BreakParts DEF u, Outcome
    <2>4. CASE m.request
      <3>1. HandleServerFence(d, u) = x
        BY <1>8, <1>e, <2>4
      <3>2. Remembers(d, f) /\ f.rect = NoRect /\ f.rects = 0
        BY <1>1, <2>2 DEF SameDecoder, Remembers
      <3>3. InStep(f, t) /\ f.wire = Tail(d.wire)
        BY <1>2, <2>1, <2>2, <3>2, MessageTaken DEF m
      <3>4. /\ Viewer(x) /\ SameBytes(f, x) /\ Remembers(f, x) /\ x.rect = f.rect /\ x.rects = f.rects
            /\ SameSession(f, x) /\ SameTalk(f, x) /\ SameRequests(f, x) /\ x.halted = f.halted
            /\ x.size = f.size
            /\ f.sock = "open" => x.out = Append(f.out, <<"fence">>)
        <4>1. CASE f.sock = "open"
          <5>1. x = [f EXCEPT !.out = Append(f.out, <<"fence">>)]
            BY <1>x, <4>1
          <5> QED BY <2>2, <5>1 DEF Viewer, SameBytes, Remembers, SameSession, SameTalk, SameRequests
        <4>2. CASE f.sock # "open"
          <5>1. x = f
            BY <1>x, <4>2
          <5> QED BY <2>2, <4>2, <5>1 DEF SameBytes, Remembers, SameSession, SameTalk, SameRequests
        <4> QED BY <4>1, <4>2
      <3>5. InStep(x, t)
        BY <3>3, <3>4, StepAlike
      <3>6. SameSession(d, x) /\ SameTalk(d, x) /\ SameRequests(d, x) /\ x.halted = d.halted
            /\ x.size = d.size /\ x.wire = Tail(d.wire) /\ x.rects = 0
        BY <2>2, <3>2, <3>3, <3>4 DEF SameSession, SameTalk, SameRequests, SameBytes
      <3>7. ASSUME d.sock = "open", Owed(d, t) PROVE Owed(x, t)
        <4>1. f.sock = "open"
          BY <2>2, <3>7 DEF SameSession
        <4>2. x.out = Append(d.out, <<"fence">>) /\ d.out \in Seq({<<"fence">>})
          BY <2>2, <3>4, <3>7, <4>1 DEF Owed
        <4>3. x.out \in Seq({<<"fence">>}) /\ <<"fence">> \in Range(x.out)
          <5>1. Len(x.out) = Len(d.out) + 1 /\ x.out[Len(d.out) + 1] = <<"fence">> /\ Len(d.out) \in Nat
            BY <4>2
          <5>2. x.out \in Seq({<<"fence">>})
            BY <4>2
          <5>3. Len(d.out) + 1 \in DOMAIN x.out
            BY <5>1, <5>2
          <5> QED BY <5>1, <5>2, <5>3 DEF Range
        <4> DEFINE E == {"endOfContinuousUpdates"}
                   U == {"update"}
        <4>4. Passed(d.wire, x.wire, E) /\ Passed(d.wire, x.wire, U)
          BY <1>1, <3>6, TypesTail
        <4>5. 1 \notin Types(d.wire, E) /\ 1 \notin Types(d.wire, U)
          BY <1>1, <1>3, <4>4 DEF Passed
        <4> HIDE DEF E, U
        <4>6. /\ Types(d.wire, E) = {} => Types(x.wire, E) = {}
              /\ (\A i, j \in Types(d.wire, E) : i = j) => \A i, j \in Types(x.wire, E) : i = j
              /\ Types(x.wire, E) # {} => Types(d.wire, E) # {}
          <5>1. \A i \in Types(x.wire, E) : i \in Nat /\ i + 1 \in Types(d.wire, E)
            BY <4>4 DEF Passed
          <5> QED BY <5>1
        <4>7. Types(d.wire, U) # {} => Types(x.wire, U) # {}
          BY <4>4, <4>5 DEF Passed
        <4>8. Debts(x, t)
          <5>1. x.region = x.size
            BY <3>6, <3>7 DEF Owed, Debts, SameRequests
          <5> QED BY <3>6, <3>7, <4>3, <4>6, <5>1 DEF Owed, Debts, SameRequests, E
        <4>9. Awaits(x)
          BY <3>6, <3>7, <4>7 DEF Owed, Awaits, SameRequests, U
        <4> QED BY <4>3, <4>8, <4>9 DEF Owed
      <3> QED BY <3>1, <3>5, <3>6, <3>7 DEF Heeds, Outcome, u
    <2> QED BY <2>3, <2>4
  <1> QED BY <1>6, <1>7, <1>8 DEF u

(* The server says that it can send updates unasked, and the viewer has it *)
(* send them.                                                              *)
LEMMA ContinuousOutcome ==
  ASSUME NEW d, NEW t, InStep(d, t), d.rects = 0, d.avail > 0,
         Part(d).type = "endOfContinuousUpdates"
  PROVE  Heeds(d, EndOfContinuousUpdates(Skip(d, 1)), t)
  <1> DEFINE u == Skip(d, 1)
             v == [u EXCEPT !.knowsContinuous = TRUE, !.continuous = ~u.knowsContinuous]
             e == EndOfContinuousUpdates(u)
  <1>1. /\ Viewer(d) /\ Bytes(d) /\ d.avail \in Nat /\ PartLeft(d) = Part(d).len /\ d.rect = NoRect
        /\ Whole(d.wire) /\ d.wire # <<>> /\ Part(d) = Head(d.wire)
    BY MessageIs DEF Bytes
  <1>2. Part(d).len = 1 /\ \E b : GoesOnFrom(d, t, b, 0)
    <2>1. \A k : UpdatePart(k).type = "update"
      BY DEF UpdatePart
    <2>2. MessageFits(Part(d)) /\ \E b : GoesOnFrom(d, t, b, 0)
      BY <2>1, MessageIs
    <2> QED BY <2>2 DEF MessageFits
  <1>3. Took(d, u, 1)
    BY MessageRead
  <1>e. e = IF v.continuous THEN [v EXCEPT !.region = v.size] ELSE v
    BY DEF EndOfContinuousUpdates, UpdateContinuousUpdates, EnableContinuousUpdates
  <1>v. v = [u EXCEPT !.knowsContinuous = TRUE, !.continuous = ~u.knowsContinuous]
    OBVIOUS
  <1> HIDE DEF u, v, e
  <1>4. /\ Viewer(u) /\ SameSession(d, u) /\ SameTalk(d, u) /\ SameRequests(d, u)
        /\ SameDecoder(d, u) /\ u.out = d.out /\ u.size = d.size /\ u.halted = d.halted
        /\ Reaches(d, u, 1)
    BY <1>3 DEF Took, SameElse
  <1>5. InStep(u, t) /\ u.wire = Tail(d.wire) /\ u.rects = 0
    <2>1. Remembers(d, u) /\ u.rect = NoRect /\ u.rects = 0
      BY <1>1, <1>4 DEF SameDecoder, Remembers
    <2>2. Part(d).len <= d.avail /\ Reaches(d, u, Part(d).len)
      BY <1>1, <1>2, <1>4
    <2>3. PICK b : GoesOnFrom(d, t, b, u.rects)
      BY <1>2, <2>1
    <2>4. InStep(u, t) /\ u.wire = Tail(d.wire)
      BY <1>4, <2>1, <2>2, <2>3, MessageTaken
    <2> QED BY <2>1, <2>4
  <1>6. /\ Viewer(v) /\ SameBytes(u, v) /\ Remembers(u, v) /\ v.rect = u.rect /\ v.rects = u.rects
        /\ SameSession(u, v) /\ SameTalk(u, v) /\ v.halted = u.halted /\ v.out = u.out
        /\ v.size = u.size /\ v.knowsContinuous = TRUE /\ v.continuous = ~u.knowsContinuous
        /\ v.asked = u.asked /\ v.dropped = u.dropped /\ v.region = u.region
    BY <1>4, <1>v DEF Viewer, SameBytes, Remembers, SameSession, SameTalk
  <1>7. /\ Viewer(e) /\ SameBytes(v, e) /\ Remembers(v, e) /\ e.rect = v.rect /\ e.rects = v.rects
        /\ SameSession(v, e) /\ SameTalk(v, e) /\ e.halted = v.halted /\ e.out = v.out
        /\ e.size = v.size /\ e.knowsContinuous = v.knowsContinuous /\ e.continuous = v.continuous
        /\ (v.continuous => e.region = e.size)
    <2>1. CASE v.continuous
      <3>1. e = [v EXCEPT !.region = v.size]
        BY <1>e, <2>1
      <3> QED BY <1>6, <3>1 DEF Viewer, SameBytes, Remembers, SameSession, SameTalk
    <2>2. CASE ~v.continuous
      <3>1. e = v
        BY <1>e, <2>2
      <3> QED BY <1>6, <2>2, <3>1 DEF SameBytes, Remembers, SameSession, SameTalk
    <2> QED BY <2>1, <2>2
  <1>8. InStep(e, t)
    <2>1. InStep(v, t)
      BY <1>5, <1>6, StepAlike
    <2> QED BY <1>7, <2>1, StepAlike
  <1>9. SameSession(d, e) /\ SameTalk(d, e) /\ e.halted = d.halted
    BY <1>4, <1>6, <1>7 DEF SameSession, SameTalk
  <1>10. ASSUME Owed(d, t) PROVE Owed(e, t)
    <2> DEFINE E == {"endOfContinuousUpdates"}
    <2>1. Passed(d.wire, Tail(d.wire), E) /\ Passed(d.wire, Tail(d.wire), {"fence"})
      BY <1>1, TypesTail
    <2>2. 1 \in Types(d.wire, E) /\ 1 \notin Types(d.wire, {"fence"})
      BY <1>1, <2>1 DEF Passed
    <2>3. (\A i, j \in Types(d.wire, E) : i = j /\ t.continuous) /\ ~d.knowsContinuous
      <3>1. Types(d.wire, E) # {}
        BY <2>2
      <3> QED BY <1>10, <3>1 DEF Owed, Debts
    <2> HIDE DEF E
    <2>4. t.continuous
      BY <2>2, <2>3
    <2>5. Types(Tail(d.wire), E) = {}
      <3> SUFFICES ASSUME NEW i \in Types(Tail(d.wire), E) PROVE FALSE
        OBVIOUS
      <3>1. i \in Nat \ {0} /\ i + 1 \in Types(d.wire, E)
        BY <2>1 DEF Passed
      <3>2. i + 1 = 1
        BY <2>2, <2>3, <3>1
      <3> QED BY <3>1, <3>2
    <2> DEFINE F == {"fence"}
    <2>6. Passed(d.wire, Tail(d.wire), F) /\ 1 \notin Types(d.wire, F)
      BY <2>1, <2>2
    <2> HIDE DEF F
    <2>7. (\E i \in Types(d.wire, F) : d.wire[i].request) =>
            \E i \in Types(Tail(d.wire), F) : Tail(d.wire)[i].request
      <3> SUFFICES ASSUME NEW i \in Types(d.wire, F), d.wire[i].request
                   PROVE  \E j \in Types(Tail(d.wire), F) : Tail(d.wire)[j].request
        OBVIOUS
      <3>1. i - 1 \in Types(Tail(d.wire), F) /\ Tail(d.wire)[i - 1] = d.wire[i]
        BY <2>6 DEF Passed
      <3> QED BY <3>1
    <2>8. e.continuous = TRUE /\ e.knowsContinuous = TRUE
      BY <1>4, <1>6, <1>7, <2>3 DEF SameRequests
    <2>9. e.wire = Tail(d.wire) /\ e.out = d.out /\ e.region = e.size
      BY <1>4, <1>5, <1>6, <1>7, <2>8 DEF SameBytes
    <2>10. Debts(e, t)
      BY <1>10, <2>4, <2>5, <2>7, <2>8, <2>9 DEF Owed, Debts, E, F
    <2> QED BY <1>10, <2>8, <2>9, <2>10 DEF Owed, Awaits
  <1> QED BY <1>8, <1>9, <1>10 DEF Heeds, e, u

(* After an illegal message of xvp the viewer has left, still in step.     *)
LEMMA XvpOutcome ==
  ASSUME NEW d, NEW t, InStep(d, t), d.rects = 0, d.avail > 0, Part(d).type = "xvp",
         d.conn = "connected" \/ Parted(d)
  PROVE  Outcome(d, HandleXvp(d, Skip(d, 1)), t)
  <1> DEFINE u == Skip(d, 1)
             e == Skip(u, 3)
  <1>1. /\ Viewer(d) /\ Bytes(d) /\ d.avail \in Nat /\ PartLeft(d) = Part(d).len
    BY MessageIs
  <1>2. Part(d).len = 4 /\ \E b : GoesOnFrom(d, t, b, 0)
    <2>1. \A k : UpdatePart(k).type = "update"
      BY DEF UpdatePart
    <2>2. MessageFits(Part(d)) /\ \E b : GoesOnFrom(d, t, b, 0)
      BY <2>1, MessageIs
    <2> QED BY <2>2 DEF MessageFits
  <1>3. Took(d, u, 1) /\ Took(d, e, 4)
    <2>1. Took(d, u, 1) /\ \A i, k \in Nat : \A y : Took(d, y, i) /\ i + k <= Part(d).len => Took(d, Skip(y, k), i + k)
      BY MessageRead
    <2>2. Took(d, e, 1 + 3)
      BY <1>2, <2>1
    <2> QED BY <2>1, <2>2
  <1>e. HandleXvp(d, u) = CASE Short(u, 3) -> Back(u, 1)
          [] ~Short(u, 3) /\ Part(d).legal -> e
          [] OTHER -> Fail(e)
    BY DEF HandleXvp
  <1>a. u.avail = d.avail - 1
    BY <1>3 DEF Took, Reaches
  <1> HIDE DEF u, e
  <1>4. CASE Short(u, 3)
    <2>1. HandleXvp(d, u) = Back(u, 1)
      BY <1>4, <1>e
    <2>2. Heeds(d, Back(u, 1), t)
      BY <1>1, <1>2, <1>3, BackHeeds
    <2> QED BY <2>1, <2>2 DEF u, Outcome
  <1>5. CASE ~Short(u, 3)
    <2>1. Part(d).len <= d.avail
      BY <1>1, <1>2, <1>5, <1>a DEF Short
    <2>2. Heeds(d, e, t) /\ InStep(e, t)
      BY <1>2, <1>3, <2>1, OtherTaken
    <2>3. CASE Part(d).legal
      <3>1. HandleXvp(d, u) = e
        BY <1>5, <1>e, <2>3
      <3> QED BY <2>2, <3>1 DEF u, Outcome
    <2>4. CASE ~Part(d).legal
      <3>1. HandleXvp(d, u) = Fail(e)
        BY <1>5, <1>e, <2>4
      <3>2. Viewer(e) /\ SameSession(d, e) /\ SameTalk(d, e)
        BY <1>3 DEF Took, SameElse
      <3>3. /\ Viewer(Fail(e)) /\ Fail(e).askings = d.askings /\ Parted(Fail(e))
            /\ SameBytes(e, Fail(e)) /\ SameDecoder(e, Fail(e))
        BY <3>2, BreakParts
      <3>4. InStep(Fail(e), t)
        BY <2>2, <3>3, StepAlike DEF SameDecoder, Remembers
      <3> QED BY <3>1, <3>3, <3>4 DEF u, Outcome
    <2> QED BY <2>3, <2>4
  <1> QED BY <1>4, <1>5 DEF u

(* A message, whichever it is                                              *)
LEMMA MessageOutcome ==
  ASSUME NEW d, NEW t, InStep(d, t), ~(d.rects = 0 /\ d.avail = 0), d.conn = "connected" \/ Parted(d)
  PROVE  Outcome(d, NormalMsg(d), t)
  <1> DEFINE u == Skip(d, 1)
             type == Part(d).type
  <1>0. d.rects \in Nat /\ d.avail \in Nat
    BY DEF InStep, Parses, Stands, Bytes
  <1>1. CASE d.rects > 0
    <2>1. NormalMsg(d) = ContinueUpdate(d)
      BY <1>1 DEF NormalMsg
    <2>2. d.rects # 0
      BY <1>1
    <2> QED BY <2>1, <2>2, ContinueOutcome
  <1>2. CASE ~(d.rects > 0)
    <2>1. d.rects = 0 /\ d.avail > 0
      BY <1>0, <1>2
    <2>2. AtPart(d, NormalTypes)
      BY <2>1, MessageIs
    <2>3. NormalMsg(d) =
            CASE type = "update" -> BeginUpdate(d, u)
              [] type = "setColourMap" -> Refuse(u)
              [] type = "bell" -> u
              [] type = "cutText" -> HandleServerCutText(d, u)
              [] type = "endOfContinuousUpdates" -> EndOfContinuousUpdates(u)
              [] type = "fence" -> HandleServerFence(d, u)
              [] type = "xvp" -> HandleXvp(d, u)
              [] OTHER -> Fail(u)
      BY <2>1, <2>2 DEF NormalMsg
    <2>4. type = "update" \/ (MessageFits(Part(d)) /\ \E b : GoesOnFrom(d, t, b, 0))
      <3>1. \A k : UpdatePart(k).type = "update"
        BY DEF UpdatePart
      <3> QED BY <2>1, <3>1, MessageIs
    <2>5. Took(d, u, 1)
      BY <2>1, MessageRead
    <2>6. Viewer(u) /\ SameSession(d, u) /\ SameTalk(d, u)
      BY <2>5 DEF Took, SameElse
    <2>7. Outcome(d, Refuse(u), t)
      BY <2>6, BreakParts DEF Outcome
    <2>8. type \in {"update", "setColourMap", "bell", "cutText", "endOfContinuousUpdates",
                    "fence", "xvp"}
      BY <2>4 DEF MessageFits
    <2>9. CASE type = "bell"
      <3>1. Part(d).len = 1
        BY <2>4, <2>9 DEF MessageFits
      <3>2. type \notin {"update", "endOfContinuousUpdates", "fence"}
        BY <2>9
      <3>3. Part(d).len <= d.avail
        BY <1>0, <2>1, <3>1
      <3>4. \E b : GoesOnFrom(d, t, b, 0)
        BY <2>4, <3>2
      <3>5. Heeds(d, u, t)
        BY <2>1, <2>5, <3>1, <3>2, <3>3, <3>4, OtherTaken
      <3>6. NormalMsg(d) = u
        BY <2>3, <2>9
      <3> QED BY <3>5, <3>6 DEF Outcome
    <2>10. CASE type = "update"
      BY <2>1, <2>3, <2>10, BeginOutcome DEF Outcome
    <2>11. CASE type = "endOfContinuousUpdates"
      BY <2>1, <2>3, <2>11, ContinuousOutcome DEF Outcome
    <2>12. CASE type = "cutText"
      BY <2>1, <2>3, <2>12, TextOutcome
    <2>13. CASE type = "fence"
      BY <2>1, <2>3, <2>13, FenceOutcome
    <2>14. CASE type = "xvp"
      BY <2>1, <2>3, <2>14, XvpOutcome
    <2>15. CASE type = "setColourMap"
      BY <2>3, <2>7, <2>15
    <2> QED BY <2>8, <2>9, <2>10, <2>11, <2>12, <2>13, <2>14, <2>15
  <1> QED BY <1>1, <1>2

(* What the loop over what arrived keeps                                   *)
Loop(d, t) ==
    /\ Viewer(d) /\ d.askings = 0 /\ t.repertoire \in DOMAIN Repertoires
    /\ d.halted \/ InStep(d, t)
    /\ \/ Parted(d)
       \/ /\ d.conn = "connected" /\ d.sock = "open" /\ ~d.halted /\ Hears(d)
          /\ InStep(d, t) /\ Owed(d, t)

(* One turn of it                                                          *)
LEMMA TurnLoops ==
  ASSUME NEW d, NEW t, Loop(d, t)
  PROVE  Loop(NextTurn(d), t)
  <1>1. CASE d.flushing \/ d.halted \/ d.lost \/ (d.rects = 0 /\ d.avail = 0)
    BY <1>1 DEF NextTurn
  <1>2. CASE ~(d.flushing \/ d.halted \/ d.lost \/ (d.rects = 0 /\ d.avail = 0))
    <2> DEFINE e == NormalMsg(d)
    <2>1. NextTurn(d) = e
      BY <1>2 DEF NextTurn
    <2>2. InStep(d, t) /\ (d.conn = "connected" \/ Parted(d))
      BY <1>2 DEF Loop
    <2>3. Outcome(d, e, t)
      BY <1>2, <2>2, MessageOutcome
    <2> HIDE DEF e
    <2>4. CASE Heeds(d, e, t)
      <3>1. /\ InStep(e, t) /\ SameSession(d, e) /\ SameTalk(d, e) /\ e.halted = d.halted
            /\ d.sock = "open" /\ Owed(d, t) => Owed(e, t)
        BY <2>4 DEF Heeds
      <3>2. Viewer(e) /\ e.askings = 0
        BY <3>1 DEF InStep, SameTalk, Loop
      <3>3. CASE Parted(d)
        BY <2>1, <3>1, <3>2, <3>3 DEF Loop, Parted, SameSession
      <3>4. CASE ~Parted(d)
        BY <2>1, <3>1, <3>2, <3>4 DEF Loop, Hears, SameSession
      <3> QED BY <3>3, <3>4
    <2>5. CASE Viewer(e) /\ e.askings = d.askings /\ Parted(e) /\ (e.halted \/ InStep(e, t))
      BY <2>1, <2>5 DEF Loop
    <2> QED BY <2>3, <2>4, <2>5 DEF Outcome
  <1> QED BY <1>1, <1>2

(* All of it                                                               *)
LEMMA MessagesLoop ==
  ASSUME NEW d, NEW t, Loop(d, t)
  PROVE  Loop(NormalMsgs(d), t)
  <1> DEFINE f == CHOOSE f : Turned(f, d, MaxTurns)
             T == {n \in Nat : n <= MaxTurns => Loop(f[n], t)}
  <1>1. MaxTurns \in Nat
    BY VncClientAssumption
  <1>2. NormalMsgs(d) = f[MaxTurns]
    BY DEF NormalMsgs, Turned
  <1>3. Turned(f, d, MaxTurns)
    BY <1>1, TurnedExists
  <1> HIDE DEF f
  <1>4. f[0] = d /\ \A n \in 1 .. MaxTurns : f[n] = NextTurn(f[n - 1])
    BY <1>1, <1>3 DEF Turned
  <1>5. 0 \in T
    BY <1>4
  <1>6. \A n \in T : n < MaxTurns => n + 1 \in T
    <2> SUFFICES ASSUME NEW n \in T, n < MaxTurns
                 PROVE  Loop(f[n + 1], t)
      OBVIOUS
    <2>1. n + 1 \in 1 .. MaxTurns /\ n + 1 - 1 = n
      BY <1>1
    <2>2. f[n + 1] = NextTurn(f[n])
      BY <1>4, <2>1
    <2>3. Loop(f[n], t)
      BY <1>1
    <2> QED BY <2>2, <2>3, TurnLoops
  <1>7. 0 .. MaxTurns \subseteq T
    <2> HIDE DEF T
    <2>1. T \subseteq Nat
      BY DEF T
    <2> QED BY <1>1, <1>5, <1>6, <2>1, Counting
  <1> QED BY <1>1, <1>2, <1>7

(* A message event of a viewer that is connected                           *)
LEMMA ConnectedHandles ==
  ASSUME NEW d, NEW t, Loop(d, t), d.conn = "connected"
  PROVE  Loop(HandleMessage(d), t)
  <1>1. d.avail \in Nat
    BY DEF Loop, Parted, InStep, Bytes
  <1>2. HandleMessage(d) = IF d.avail = 0 THEN d ELSE NormalMsgs(d)
    BY <1>1 DEF HandleMessage
  <1> QED BY <1>2, MessagesLoop

=============================================================================
