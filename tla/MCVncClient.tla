----------------------------- MODULE MCVncClient -----------------------------
(* VncClient with a rectangle of each encoding and a message of each type, *)
(* shared out among a few kinds of servers.                                *)
EXTENDS VncClient

Rect(encoding, cell, bytes, rest) ==
    rest @@ [type |-> "rect", encoding |-> encoding, cell |-> cell, len |-> 12 + bytes,
             colour |-> "red"]

Raw == Rect("raw", 1, 8, [w |-> 1, h |-> 2])
Copy == Rect("copyRect", 2, 4, [from |-> 1])
Jpeg == Rect("tight", 1, 7, [ctl |-> "jpeg", lenBytes |-> 2, dataLen |-> 4, colour |-> "blue"])
NewSize == Rect("desktopSize", 1, 0, [size |-> 2])
RRE == Rect("rre", 1, 32, [n |-> 2])
Tile(kind, head, n) == [kind |-> kind, head |-> head, n |-> n, sub |-> 2]
Hextile == Rect("hextile", 1, 10,
                [hextiles |-> <<Tile("raw", 5, 0), Tile("blank", 1, 0), Tile("subs", 2, 1)>>])
Png == Rect("tightPNG", 2, 6, [ctl |-> "png", lenBytes |-> 1, dataLen |-> 4])
OneColour == Rect("tight", 1, 4, [ctl |-> "fill"])
Palette(n, w) ==
    Rect("tight", 2, 3 + 3 * n + (IF w < 12 THEN 2 ELSE 5),
         [ctl |-> "basic", filter |-> "palette", n |-> n, w |-> w, h |-> 1,
          lenBytes |-> 1, dataLen |-> 4])
Truecolour == Rect("tight", 1, 6, [ctl |-> "basic", filter |-> "none", w |-> 2, h |-> 2,
                                   lenBytes |-> 1, dataLen |-> 4])
Cursor == Rect("cursor", 1, 5, [w |-> 1, h |-> 1])
VMware(form, n) == Rect("vmwareCursor", 1, 2 + n, [form |-> form, w |-> 1, h |-> 1])
Name == Rect("desktopName", 1, 6, [n |-> 2])
Layout(refused) == Rect("extendedDesktopSize", 1, 20, [n |-> 1, size |-> 2, refused |-> refused])
Qemu == Rect("qemuExtendedKeyEvent", 1, 0, [n |-> 0])

Bell == [type |-> "bell", len |-> 1]
CutText(form, n) ==
    [type |-> "cutText", form |-> form, text |-> TRUE, formats |-> 1, n |-> n, len |-> 8 + n]
Fence(request) == [type |-> "fence", n |-> 2, request |-> request, len |-> 11]
Xvp(legal) == [type |-> "xvp", legal |-> legal, len |-> 4]
EndOfUpdates == [type |-> "endOfContinuousUpdates", len |-> 1]
Palettes == [type |-> "setColourMap", len |-> 6]

MCRepertoires ==
    <<[rectangles |-> {Raw, Copy, Jpeg, NewSize}, messages |-> {Bell}],
      [rectangles |-> {Hextile, Png}, messages |-> {EndOfUpdates, Fence(TRUE)}],
      [rectangles |-> {RRE, OneColour, Jpeg}, messages |-> {EndOfUpdates, CutText("text", 3)}],
      [rectangles |-> {Palette(2, 9), Palette(3, 12), Truecolour}, messages |-> {Xvp(TRUE)}],
      [rectangles |-> {Cursor, VMware("classic", 8), VMware("alpha", 4), Name, Layout(FALSE)},
       messages |-> {CutText("caps", 8), CutText("request", 4), CutText("provide", 7)}],
      [rectangles |-> {Layout(TRUE), Qemu, Jpeg},
       messages |-> {Xvp(FALSE), Fence(FALSE), Palettes, Bell}]>>

MCTypeLists == {{}, {1, 2}, {2, 19}, {16}, {19}, {22}, {30}}
MCSubAuths == {{}, {1}, {2, 129}, {129}}
MCCredentials == {{"password"}, {"username", "password", "target"}}
=============================================================================
