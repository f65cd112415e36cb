---------------------------- MODULE MCWmStore ----------------------------
(* Instances of WmStore for TLC: the payloads of WindowDiscovered and the   *)
(* monitors by position.                                                    *)
EXTENDS WmStore

D(managed, layer, mode, preserve, placement) ==
  [managed |-> managed, layer |-> layer, mode |-> mode, preserve |-> preserve,
   placement |-> placement]

\* Windows of every kind, as the platform snapshot reports them.
AnyWindow == {D(TRUE, "Tiled", "Normal", FALSE, "After"),
              D(TRUE, "Tiled", "Normal", TRUE, "After"),
              D(TRUE, "Floating", "Normal", FALSE, "After"),
              D(FALSE, "Tiled", "Normal", FALSE, "End")}

TiledWindow == {D(TRUE, "Tiled", "Normal", FALSE, "After")}

\* Those that do not ask to keep the focus where it is.
PlainWindow == {d \in AnyWindow : ~d.preserve}

\* Windows placed by the rules rather than after the focused column.
WindowBefore == {D(TRUE, "Tiled", "Normal", FALSE, "Before"),
                 D(TRUE, "Floating", "Normal", FALSE, "After")}
TabbedWindow == {D(TRUE, "Tiled", "Tabbed", FALSE, "End"),
                 D(TRUE, "Tiled", "Normal", FALSE, "Join")}

OneMonitor  == <<1>>
LeftToRight == <<1, 2>>
===========================================================================
