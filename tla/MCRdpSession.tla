---------------------------- MODULE MCRdpSession ----------------------------
(* RdpSession with desktops of at most two by two pixels.                  *)
EXTENDS RdpSession

MCSizes == {<<2, 2>>, <<1, 2>>}

At(left, top, width, height) ==
  [left |-> left, top |-> top, width |-> width, height |-> height]

(* The right column and the bottom row, which both reach over the edge of  *)
(* the narrow desktop, and a bitmap that is cut.                           *)
MCUpdates == {[rect |-> At(1, 0, 1, 2), data |-> <<"red", "black">>],
              [rect |-> At(0, 1, 2, 1), data |-> <<"red", "black">>],
              [rect |-> At(0, 0, 2, 2), data |-> <<"red">>]}
=============================================================================
