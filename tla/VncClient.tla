------------------------------ MODULE VncClient ------------------------------
(***************************************************************************)
(* The VNC viewer that the page of a session opens                         *)
(* (html/templates/vnc.tmpl), with its WebSocket and a VNC server: the     *)
(* server's messages arrive cut into pieces at any byte, images load in    *)
(* their own time, and the connection ends when the page, the server, the  *)
(* network or an error ends it.                                            *)
(***************************************************************************)
EXTENDS RfbMessages, VncServer

CONSTANTS
    Credentials,    \* what the page may have given to begin with, or may give when asked
    Cuts,           \* where a part may be cut; the end of one is always a place to cut
    MaxParts        \* parts of messages on the wire

(* The number of rectangles has two bytes, and one of its values is taken. *)
ASSUME VncClientAssumption ==
    MaxParts \in Nat \ {0} /\ MaxRects \in 1 .. OpenCount - 1 /\ MaxTurns \in Nat

(* A server has something to say whenever it is its turn. *)
ASSUME ServersAssumption ==
    /\ Versions \subseteq Nat /\ Versions # {}
    /\ TypeLists # {} /\ \A T \in TypeLists : IsFiniteSet(T)
    /\ SubAuths # {} /\ \A T \in SubAuths : IsFiniteSet(T)
    /\ DOMAIN Repertoires # {}

(* A server sends nothing the viewer did not offer to take. *)
ASSUME OffersAssumption ==
    \A i \in DOMAIN Repertoires :
        {r.encoding : r \in Repertoires[i].rectangles} \subseteq SendEncodings

(* What it draws is on the screen, and only rectangles are rectangles. *)
ASSUME ScreenAssumption ==
    \A i \in DOMAIN Repertoires :
        /\ \A r \in Repertoires[i].rectangles :
              r.encoding \in Drawing =>
                  r.cell \in Cells /\ (r.encoding = "copyRect" => r.from \in Cells)
        /\ \A m \in Repertoires[i].messages : m.type # "rect"

(* The bytes of a sequence of parts *)
Total(w) ==
    LET upTo[n \in 0 .. Len(w)] == IF n = 0 THEN 0 ELSE upTo[n - 1] + w[n].len
    IN  upTo[Len(w)]

(* The bytes of a rectangle after its header, as its decoder reads them.   *)
PaletteSize(r) == (IF r.n <= 2 THEN (r.w + 7) \div 8 ELSE r.w) * r.h
ColourSize(r) == 3 * r.w * r.h
PixelBytes(r, size) == IF size < 12 THEN size ELSE r.lenBytes + r.dataLen
FilterBytes(r) ==
    IF r.filter = "palette"
      THEN 1 + 3 * r.n + PixelBytes(r, PaletteSize(r)) ELSE PixelBytes(r, ColourSize(r))
TightBytes(r) ==
    CASE r.ctl = "fill" -> 3
      [] r.ctl \in {"jpeg", "png"} -> r.lenBytes + r.dataLen
      [] OTHER -> FilterBytes(r) + IF r.filter = "none" THEN 0 ELSE 1
TileParts(r) ==
    [i \in DOMAIN r.hextiles |->
        [len |-> r.hextiles[i].head + r.hextiles[i].n * r.hextiles[i].sub]]
CursorBytes(r) == 4 * r.w * r.h + ((r.w + 7) \div 8) * r.h
VMwareCursorBytes(r) == (IF r.form = "classic" THEN 8 ELSE 4) * r.w * r.h
BodyBytes(r) ==
    CASE r.encoding = "raw" -> 4 * r.w * r.h
      [] r.encoding = "copyRect" -> 4
      [] r.encoding = "rre" -> 8 + 12 * r.n
      [] r.encoding = "hextile" -> Total(TileParts(r))
      [] r.encoding \in {"tight", "tightPNG"} -> 1 + TightBytes(r)
      [] r.encoding = "cursor" -> CursorBytes(r)
      [] r.encoding = "vmwareCursor" -> 2 + VMwareCursorBytes(r)
      [] r.encoding = "desktopName" -> 4 + r.n
      [] r.encoding = "extendedDesktopSize" -> 4 + 16 * r.n
      [] OTHER -> 0

(* A tile of a Hextile rectangle *)
Tiles == [kind : {"raw", "blank", "subs"}, head : Nat, n : Nat, sub : Nat]

(* A rectangle has the fields of its encoding. *)
RectFits(r) ==
    /\ r.type = "rect" /\ r.encoding \in SendEncodings \ {"lastRect"}
    /\ r.encoding \in {"raw", "cursor", "vmwareCursor"} => r.w \in Nat /\ r.h \in Nat
    /\ r.encoding \in {"rre", "desktopName", "extendedDesktopSize"} => r.n \in Nat
    /\ r.encoding = "hextile" => r.hextiles \in Seq(Tiles)
    /\ r.encoding \in {"tight", "tightPNG"} =>
          /\ r.ctl \in {"fill", "jpeg", "png", "basic"}
          /\ r.ctl = "png" => r.encoding = "tightPNG"
          /\ r.ctl = "basic" =>
                /\ r.encoding = "tight" /\ r.filter \in {"none", "copy", "palette"}
                /\ r.w \in Nat /\ r.h \in Nat
                /\ r.filter = "palette" => r.n \in Nat \ {0} /\ r.w > 0 /\ r.h > 0
          /\ r.ctl # "fill" => r.lenBytes \in 1 .. 3 /\ r.dataLen \in Nat \ {0}
    /\ r.len = 12 + BodyBytes(r)

(* A message has the length that its handler reads.  *)
MessageFits(m) ==
    \/ m.type \in {"bell", "endOfContinuousUpdates"} /\ m.len = 1
    \/ m.type = "xvp" /\ m.len = 4
    \/ m.type = "setColourMap" /\ m.len \in Nat \ {0}
    \/ m.type = "fence" /\ m.n \in 0 .. 64 /\ m.len = 9 + m.n
    \/ /\ m.type = "cutText" /\ m.n \in Nat /\ m.len = 8 + m.n
       /\ m.form # "text" => m.n >= 4
       /\ m.form = "caps" => m.n = 4 + 4 * m.formats /\ m.formats \in Nat
       /\ m.form \in {"request", "peek", "notify"} => m.n = 4
       /\ m.form = "provide" => m.text

ASSUME LayoutAssumption ==
    \A i \in DOMAIN Repertoires :
        /\ \A r \in Repertoires[i].rectangles : RectFits(r)
        /\ \A m \in Repertoires[i].messages : MessageFits(m)

VARIABLES
    c,              \* the viewer: see RfbConnection
    s               \* the server: see VncServer

vars == <<c, s>>

NewServer ==
    [phase |-> "announce", version |-> 0, tight |-> FALSE, repertoire |-> 0,
     owed |-> 0, open |-> FALSE, continuous |-> FALSE, fenced |-> FALSE]

NewViewer(creds, answer) ==
    [conn |-> "connecting", timer |-> FALSE, sock |-> "connecting", hearing |-> TRUE,
     onOpen |-> TRUE, onMessage |-> TRUE, onClose |-> TRUE,
     attached |-> TRUE, grabbed |-> TRUE, connects |-> 0, disconnects |-> 0,
     wire |-> <<>>, at |-> 0, avail |-> 0, lost |-> FALSE, out |-> <<>>,
     init |-> "", version |-> 0, scheme |-> 0, tight |-> FALSE, vencrypt |-> 0,
     subtypes |-> 0, creds |-> creds, answer |-> answer, askings |-> 0, asked |-> FALSE,
     renderQ |-> <<>>, dflush |-> FALSE, size |-> 0, damage |-> {},
     canvas |-> [x \in Cells |-> Blank], shown |-> [x \in Cells |-> Blank],
     ideal |-> [x \in Cells |-> Blank],
     rects |-> 0, rect |-> NoRect, lines |-> 0, subrects |-> 0, tiles |-> 0,
     lastRaw |-> FALSE, ctl |-> "none", filter |-> "none", colours |-> 0, len |-> 0,
     halted |-> FALSE, flushing |-> FALSE, dropped |-> FALSE,
     continuous |-> FALSE, knowsContinuous |-> FALSE, region |-> 0, stray |-> FALSE]

(* The constructor, up to the connecting WebSocket; the page then sets     *)
(* viewOnly, which grabs the keyboard.                                     *)
Init == s = NewServer /\ \E creds, answer \in Credentials : c = NewViewer(creds, answer)

(* What is never used again is forgotten, to have fewer states: by a       *)
(* viewer that is connected, what the handshake agreed on; by one that     *)
(* leaves or has left, everything about messages and drawing, unless a     *)
(* flush or a request for credentials will look at it.                     *)
Connected(d) ==
    [d EXCEPT !.version = 0, !.scheme = 0, !.tight = FALSE, !.vencrypt = 0, !.subtypes = 0,
              !.creds = {}, !.answer = {}]

Left(d) ==
    d.askings = 0 /\ (d.conn = "disconnected" \/ (d.conn = "disconnecting" /\ ~d.flushing))

Remains(d) ==
    [NewViewer({}, {}) EXCEPT
        !.conn = d.conn, !.timer = d.timer, !.sock = d.sock, !.hearing = d.hearing,
        !.onOpen = d.onOpen, !.onMessage = d.onMessage, !.onClose = d.onClose,
        !.attached = d.attached, !.grabbed = d.grabbed, !.init = d.init,
        !.connects = d.connects, !.disconnects = d.disconnects]

Becomes(d) ==
    CASE d.conn = "connected" ->
            c' = Connected(d) /\ s' = [s EXCEPT !.version = 0, !.tight = FALSE]
      [] Left(d) -> c' = Remains(d) /\ s' = NewServer
      [] OTHER -> c' = d /\ s' = s

-----------------------------------------------------------------------------
(* The network *)
Open ==
    /\ c.sock = "connecting"
    /\ LET d == [c EXCEPT !.sock = "open"] IN Becomes(IF c.onOpen THEN SocketOpen(d) ELSE d)

UnderWay == Total(c.wire) - c.at - c.avail

Turns ==
    Unasked(s) \cup Says(s, c.asked)
    \cup IF c.out # <<>> THEN Answer(s, Head(c.out)) ELSE {}

(* The server says something; an update answers all requests so far. *)
ServerSpeaks ==
    /\ c.sock = "open" /\ c.conn # "disconnected"
    /\ Len(c.wire) < MaxParts
    /\ \E turn \in Turns :
        /\ s' = turn.next
        /\ c' = [c EXCEPT !.wire = @ \o turn.parts,
                          !.out = IF turn \in Unasked(s) \cup Says(s, c.asked) THEN @ ELSE Tail(@),
                          !.asked = @ /\ (turn.parts = <<>> \/ turn.parts[1].type # "update")]

(* Where the network may cut what is on the wire, seen from the viewer *)
Places ==
    LET starts == {Total(SubSeq(c.wire, 1, i)) - c.at : i \in 0 .. Len(c.wire)}
        read == c.avail
    IN  {p \in starts \cup {b + k : b \in starts, k \in Cuts} : p > read /\ p <= UnderWay + read}

(* A message event, with as much of the wire as arrived together *)
Receive(n) ==
    /\ c.sock = "open" /\ c.hearing
    /\ n \in 1 .. UnderWay
    /\ LET d == [c EXCEPT !.avail = @ + n] IN Becomes(IF c.onMessage THEN HandleMessage(d) ELSE d)

(* By the server, by the network, or after the viewer closed its end *)
Close ==
    /\ c.sock # "closed"
    /\ LET d == [c EXCEPT !.sock = "closed"] IN Becomes(IF c.onClose THEN SocketClose(d) ELSE d)

-----------------------------------------------------------------------------
(* Timers, images, the page *)
DisconnectTimeout ==
    /\ c.timer
    /\ Becomes(UpdateConnectionState(c, "disconnected"))

ResumeHandshake ==
    /\ c.askings > 0
    /\ Becomes(InitMsg([c EXCEPT !.askings = @ - 1]))

ImageLoads ==
    \E i \in Waiting(c.renderQ) : Becomes(ImageLoaded(c, i))

PageDisconnects == Becomes(UserDisconnect(c))

Next ==
    \/ Open
    \/ ServerSpeaks
    \/ \E p \in Places : Receive(p - c.avail)
    \/ Close
    \/ DisconnectTimeout
    \/ ResumeHandshake
    \/ ImageLoads
    \/ PageDisconnects

(* The browser runs the timers that are due. *)
Spec == Init /\ [][Next]_vars /\ WF_vars(DisconnectTimeout)

-----------------------------------------------------------------------------
(* The viewer never takes the middle of a message for the beginning of     *)
(* one, nor reads past its end, wherever its bytes were cut.               *)
InSync == ~c.lost

(* The connection of the viewer is one as the page is promised. *)
Connection ==
    INSTANCE VncConnection
        WITH state <- c.conn, connects <- c.connects, disconnects <- c.disconnects
ConnectionKept == Connection!Spec

(* A viewer that is not drawing shows what the server drew, all of it, in  *)
(* the order it was drawn.  A blit from the receive queue that had to wait *)
(* has other pixels.                                                       *)
Settles ==
    c.conn = "connected" /\ c.renderQ = <<>> /\ c.rects = 0 =>
        /\ c.shown = c.canvas
        /\ \A x \in Cells : c.canvas[x] \in {c.ideal[x], Stale}

(* A viewer is always owed an update, or one is under way: its screen does *)
(* not stay as it is for ever; and what it asked for is all of the         *)
(* framebuffer, also after a resize.  An update without rectangles that    *)
(* meets a queue that is not empty is forgotten with its request.  Nor     *)
(* does a server that waits for its fence wait for ever: the answer is     *)
(* under way, or the viewer has not reached the fence yet.                 *)
NeverStalled ==
    c.conn = "connected" =>
        /\ ~c.dropped =>
              /\ \/ c.asked \/ c.continuous \/ c.rects > 0 \/ s.owed > 0
                 \/ \E i \in DOMAIN c.wire : c.wire[i].type = "update"
              /\ c.rects = 0 => c.region = c.size
        /\ s.fenced =>
              \/ <<"fence">> \in Range(c.out)
              \/ \E i \in DOMAIN c.wire : c.wire[i].type = "fence"

(* The viewer waits for its display only as long as the display waits for  *)
(* an image, and will tell it.                                             *)
NobodyWaitsInVain ==
    /\ c.flushing <=> c.dflush
    /\ c.flushing => 1 \in Waiting(c.renderQ)

(* In the handshake, viewer and server do not wait for each other.  A      *)
(* result that arrives together with an empty list of Tight is left unread.*)
HandshakeMoves ==
    c.conn = "connecting" /\ c.sock = "open" =>
        \/ UnderWay > 0
        \/ c.askings > 0
        \/ Unasked(s) # {}
        \/ c.out # <<>> /\ Answer(s, Head(c.out)) # {}
        \/ c.scheme = 16 /\ c.init = "SecurityResult" /\ c.avail >= 4
=============================================================================
