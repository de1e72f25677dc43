----------------------------- MODULE RfbDecoders -----------------------------
(***************************************************************************)
(* The decoders of the VNC viewer (core/decoders).  A decoder draws what   *)
(* has arrived and remembers where it was; an operator is one step of it   *)
(* and changes nothing when it has to wait.  Fields of the viewer:         *)
(*   rects, rect   rectangles left in the update, the one being decoded    *)
(*   lines, subrects, tiles, lastRaw   of the Raw, RRE, Hextile decoders   *)
(*   ctl, filter, colours, len   of the Tight decoder                      *)
(*   halted        a handler returned false after failing                  *)
(* A rectangle has the fields its decoder reads: cell and colour, w and h  *)
(* in pixels, and those named below.                                       *)
(***************************************************************************)
EXTENDS RfbDisplay

NoRect == [type |-> "none"]

RectDone(c) == [c EXCEPT !.rects = @ - 1, !.rect = NoRect]

(* return this._fail() *)
Refuse(c) == [Fail(c) EXCEPT !.halted = TRUE]

(* All whole lines that have arrived *)
DecodeRaw(c) ==
    LET r == c.rect
        left == IF c.lines = 0 THEN r.h ELSE c.lines
        arrived == Min({left, c.avail \div (4 * r.w)})
        drawn == BlitImage(Skip(c, arrived * 4 * r.w), r.cell, r.colour, TRUE)
    IN  CASE r.w = 0 \/ r.h = 0 -> RectDone(c)
          [] r.w > 0 /\ r.h > 0 /\ arrived = 0 -> [c EXCEPT !.lines = left]
          [] r.w > 0 /\ r.h > 0 /\ arrived \in 1 .. left - 1 ->
                [drawn EXCEPT !.lines = left - arrived]
          [] OTHER -> RectDone([drawn EXCEPT !.lines = 0])

DecodeCopyRect(c) ==
    IF Short(c, 4) THEN c
    ELSE RectDone(CopyImage(Skip(c, 4), c.rect.from, c.rect.cell))

(* n subrectangles *)
DecodeRRE(c) ==
    LET r == c.rect
        drawn(bytes, left) ==
            [Fill(Skip(c, bytes), r.cell, r.colour) EXCEPT !.subrects = left]
    IN  CASE c.subrects = 0 /\ ~Short(c, 8) ->
                IF r.n = 0 THEN RectDone(drawn(8, 0)) ELSE drawn(8, r.n)
          [] c.subrects = 1 /\ ~Short(c, 12) -> RectDone(drawn(12, 0))
          [] c.subrects > 1 /\ ~Short(c, 12) -> drawn(12, c.subrects - 1)
          [] OTHER -> c

(* Tiles of one colour are filled, others assembled in a buffer; a blank   *)
(* one after a raw one is left as it is.                                   *)
DrawTile(c, tile, afterRaw) ==
    CASE tile.kind = "blank" /\ afterRaw -> c
      [] tile.kind = "blank" /\ ~afterRaw -> Fill(c, c.rect.cell, c.rect.colour)
      [] OTHER -> BlitImage(c, c.rect.cell, c.rect.colour, tile.kind = "raw")

(* A tile has a kind, head bytes (with the number of subrectangles as the  *)
(* last) and n subrectangles of sub bytes; the head of a raw one is all.   *)
DecodeHextile(c) ==
    LET r == c.rect
        left == IF c.tiles = 0 THEN Len(r.hextiles) ELSE c.tiles
        tile == r.hextiles[Len(r.hextiles) - left + 1]
        bytes == tile.head + tile.n * tile.sub
        read == [Skip(c, bytes) EXCEPT !.tiles = left - 1, !.lastRaw = tile.kind = "raw"]
        drawn == DrawTile(read, tile, c.lastRaw)
    IN  CASE left = 0 -> RectDone(c)
          [] left > 0 /\ (Short(c, tile.head) \/ Short(c, bytes)) -> [c EXCEPT !.tiles = left]
          [] left = 1 /\ ~Short(c, tile.head) /\ ~Short(c, bytes) -> RectDone(drawn)
          [] OTHER -> drawn

-----------------------------------------------------------------------------
(* Tight.  Data is preceded by its length (dataLen) in lenBytes bytes,     *)
(* which are only read when three bytes are there.                         *)
TightDone(c) == [RectDone(c) EXCEPT !.ctl = "none", !.filter = "none"]

ReadLength(c) ==
    IF c.len = 0 /\ ~Short(c, 3) THEN [Skip(c, c.rect.lenBytes) EXCEPT !.len = c.rect.dataLen] ELSE c

HasData(c) == c.len > 0 /\ ~Short(c, c.len)
TakeData(c) == [Skip(c, c.len) EXCEPT !.len = 0]

TightFill(c) ==
    IF Short(c, 3) THEN c ELSE TightDone(Fill(Skip(c, 3), c.rect.cell, c.rect.colour))

TightImage(c) ==
    LET d == ReadLength(c)
    IN  IF HasData(d) THEN TightDone(ImageRect(TakeData(d), c.rect.cell, c.rect.colour)) ELSE d

(* Fewer than 12 bytes are not compressed. *)
TightPixels(c, size) ==
    LET r == c.rect
        d == ReadLength(c)
        left == IF c.filter = "palette" THEN 0 ELSE c.colours
        drawn(e) == TightDone(BlitImage([e EXCEPT !.colours = left], r.cell, r.colour, FALSE))
    IN  CASE size = 0 -> TightDone(c)
          [] size \in 1 .. 11 /\ ~Short(c, size) -> drawn(Skip(c, size))
          [] size >= 12 /\ HasData(d) -> drawn(TakeData(d))
          [] size >= 12 /\ ~HasData(d) -> d
          [] OTHER -> c

(* n colours, three bytes each *)
TightPalette(c) ==
    LET r == c.rect
        row == IF c.colours <= 2 THEN (r.w + 7) \div 8 ELSE r.w
    IN  CASE c.colours = 0 /\ (Short(c, 1) \/ Short(c, 1 + 3 * r.n)) -> c
          [] c.colours = 0 /\ ~Short(c, 1 + 3 * r.n) -> [Skip(c, 1 + 3 * r.n) EXCEPT !.colours = r.n]
          [] OTHER -> TightPixels(c, row * r.h)

TightFilter(c) ==
    LET r == c.rect
    IN  CASE r.filter = "none" -> [c EXCEPT !.filter = "copy"]
          [] r.filter # "none" /\ Short(c, 1) -> c
          [] OTHER -> [Skip(c, 1) EXCEPT !.filter = r.filter]

TightBasic(c) ==
    CASE c.filter = "none" -> TightFilter(c)
      [] c.filter = "copy" -> TightPixels(c, 3 * c.rect.w * c.rect.h)
      [] c.filter = "palette" -> TightPalette(c)
      [] OTHER -> Refuse(c)

(* The subclass for TightPNG takes images only. *)
DecodeTight(c) ==
    LET r == c.rect
        png == r.encoding = "tightPNG"
    IN  CASE c.ctl = "none" /\ Short(c, 1) -> c
          [] c.ctl = "none" /\ ~Short(c, 1) -> [Skip(c, 1) EXCEPT !.ctl = r.ctl]
          [] c.ctl = "fill" -> TightFill(c)
          [] c.ctl = "jpeg" \/ (c.ctl = "png" /\ png) -> TightImage(c)
          [] c.ctl = "basic" /\ ~png -> TightBasic(c)
          [] OTHER -> Refuse(c)
=============================================================================
