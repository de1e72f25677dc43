----------------------------- MODULE RfbDisplay ------------------------------
(***************************************************************************)
(* Drawing in the VNC viewer (core/display.js).  The screen is a few       *)
(* cells, each with the colour last drawn in it.  Images load in their own *)
(* time: what is drawn after one waits behind it in the render queue.      *)
(* Fields of the viewer:                                                   *)
(*   renderQ, dflush   _renderQ and _flushing of the Display               *)
(*   canvas, shown     the backbuffer and the visible canvas               *)
(*   damage            cells of the canvas not yet copied                  *)
(*   size              size of the framebuffer                             *)
(*   ideal             history: the cells as the server drew them          *)
(***************************************************************************)
EXTENDS RfbConnection, SequencesExt

CONSTANT Cells

Blank == "blank"
Stale == "stale"    \* bytes from the beginning of the receive queue
Flip == [op |-> "flip"]

Apply(c, a) ==
    CASE a.op = "flip" ->
            [c EXCEPT !.shown = [x \in Cells |-> IF x \in c.damage THEN c.canvas[x] ELSE @[x]],
                      !.damage = {}]
      [] a.op = "copy" -> [c EXCEPT !.canvas[a.cell] = c.canvas[a.from], !.damage = @ \cup {a.cell}]
      [] OTHER -> [c EXCEPT !.canvas[a.cell] = a.colour, !.damage = @ \cup {a.cell}]

Perform_Unqueued(c, a) == Apply(c, a)
Perform(c, a) ==
    IF c.renderQ # <<>> THEN [c EXCEPT !.renderQ = Append(@, a)] ELSE Apply(c, a)

Fill(c, cell, colour) ==
    Perform([c EXCEPT !.ideal[cell] = colour], [op |-> "fill", cell |-> cell, colour |-> colour])

(* Within the backbuffer, as it is when the operation is performed *)
CopyImage(c, from, cell) ==
    Perform([c EXCEPT !.ideal[cell] = c.ideal[from]],
            [op |-> "copy", from |-> from, cell |-> cell])

(* The pixels are in a buffer of their own, or in the receive queue; a     *)
(* blit that has to wait copies the beginning of the buffer.               *)
BlitImage(c, cell, colour, received) ==
    Perform([c EXCEPT !.ideal[cell] = colour],
            [op |-> "blit", cell |-> cell,
             colour |-> IF received /\ c.renderQ # <<>> THEN Stale ELSE colour])

(* The first of the queue is waiting for its image; it is never loaded at  *)
(* once.                                                                   *)
ImageRect(c, cell, colour) ==
    [c EXCEPT !.ideal[cell] = colour,
              !.renderQ = Append(@, [op |-> "img", cell |-> cell, colour |-> colour,
                                     loaded |-> FALSE])]

Waiting(q) == {i \in DOMAIN q : q[i].op = "img" /\ ~q[i].loaded}

(* Everything up to the first image that is not loaded is drawn. *)
Ready(q) == IF Waiting(q) = {} THEN Len(q) ELSE Min(Waiting(q)) - 1

ScanRenderQ(c) ==
    LET q == c.renderQ
        drawn[n \in 0 .. Len(q)] == IF n = 0 THEN c ELSE Apply(drawn[n - 1], q[n])
    IN  [drawn[Ready(q)] EXCEPT !.renderQ = SubSeq(q, Ready(q) + 1, Len(q))]

(* A canvas whose size is set is empty; the backbuffer keeps its contents. *)
ResizeDisplay(c, size) ==
    IF c.size = size THEN c
    ELSE Perform([c EXCEPT !.size = size, !.shown = [x \in Cells |-> Blank], !.damage = Cells],
                 Flip)
=============================================================================
