------------------------------- MODULE Strip -------------------------------
(***************************************************************************)
(* Where the columns of one workspace are shown: widths, the scroll offset *)
(* of the strip and the geometry of crates/layout-engine, kept by the      *)
(* handlers of the store (state_store.rs, width_resize.rs,                 *)
(* window_modes.rs), by the adaptation to windows that cannot be made as   *)
(* narrow as their column (runtime/validation.rs) and by changes of the    *)
(* monitor (runtime/observation.rs).                                       *)
(*                                                                         *)
(* StateStore says which columns there are and who has the focus; here a   *)
(* column is one window, as the rules place them, and only what its place  *)
(* depends on is kept.  Coordinates are relative to the tiled viewport.    *)
(***************************************************************************)
EXTENDS Integers, Sequences, SequencesExt

CONSTANTS Views,      \* widths the tiled viewport may have
          Gap,        \* column_gap
          ScrollStep, \* strip_scroll_step
          OpenWidths, \* widths windows have before they are managed
          MinWidths,  \* widths below which some windows cannot be made
          MaxColumns  \* bound: windows of the workspace, one of them floating at most

ASSUME StripAssumption ==
  /\ Views \subseteq Nat \ {0} /\ Gap \in Nat /\ ScrollStep \in Nat
  /\ OpenWidths \subseteq Nat \ {0} /\ MinWidths \subseteq Nat \ {0} /\ MaxColumns \in Nat

\* One record:
\*   view     width of the tiled viewport
\*   columns  the strip: [width, full], full being maximized_state
\*   scroll   scroll_offset
\*   focus    the focused window, remembered when the focus is in another
\*            workspace: the index of its column, OnFloating, or Nothing
\*   here     the focus is in this workspace
\*   floats   the windows of the floating layer: [at, full], at being the
\*            column_index of the restore target
VARIABLE strip

Nothing    == 0
OnFloating == MaxColumns + 1
HalfWide   == 0   \* MonitorFraction 1/2, the default of default_column_width

DefaultColumn == [width |-> HalfWide, full |-> FALSE]

Least(a, b)      == IF a < b THEN a ELSE b
Greatest(a, b)   == IF a < b THEN b ELSE a
Within(n, lo, hi) == Least(Greatest(n, lo), hi)

Count(s) == Len(s.columns)

StripInit ==
  \E v \in Views :
    strip = [view |-> v, columns |-> <<>>, scroll |-> 0, focus |-> Nothing,
             here |-> TRUE, floats |-> <<>>]

---------------------------------------------------------------------------
(* The geometry. *)

\* WidthSemantics::resolve
Resolve(width, view) == Greatest(1, IF width = HalfWide THEN view \div 2 ELSE width)

\* resolve_width
WidthOf(s, i) ==
  IF s.columns[i].full THEN s.view ELSE Resolve(s.columns[i].width, s.view)

\* The first i columns, each with the gap after it.
Span(s, i) ==
  LET span[k \in 0..i] == IF k = 0 THEN 0 ELSE span[k - 1] + WidthOf(s, k) + Gap
  IN  span[i]

\* workspace_content_width
ContentWidth(s) == IF Count(s) = 0 THEN 0 ELSE Span(s, Count(s)) - Gap

\* strip_origin_x: a strip narrower than the viewport is centred when it is one
\* column, and pushed to the right when its last column has the focus.
Origin(s) ==
  LET slack == s.view - ContentWidth(s)
  IN  IF slack <= 0 \/ Count(s) = 0 THEN -s.scroll
      ELSE IF Count(s) = 1 THEN slack \div 2
      ELSE IF s.here /\ s.focus = Count(s) THEN slack
      ELSE -s.scroll

\* recompute_workspace
LeftOf(s, i)  == Origin(s) + Span(s, i - 1)
RightOf(s, i) == LeftOf(s, i) + WidthOf(s, i)

---------------------------------------------------------------------------
(* The scroll offset. *)

\* max_scroll_offset
MaxScroll(s) == Greatest(ContentWidth(s) - s.view, 0)

\* Mistake: the offset is left where it is.
LeaveScroll(s) == s

\* clamp_scroll_offset
ClampScroll(s) == [s EXCEPT !.scroll = Within(s.scroll, 0, MaxScroll(s))]

\* apply_scroll_delta
ScrollBy(s, delta) == [s EXCEPT !.scroll = Within(s.scroll + delta, 0, MaxScroll(s))]

\* Mistake: only what is out of sight on the right is scrolled to.
RevealRight(s, i) ==
  ScrollBy(s, IF RightOf(s, i) > s.view THEN RightOf(s, i) - s.view ELSE 0)

\* reveal_column_in_workspace: as little as needed; a single column that fits is
\* where it belongs.
Reveal(s, i) ==
  LET middle == LeftOf(s, i) + WidthOf(s, i) \div 2 - s.view \div 2
  IN  ScrollBy(s, IF WidthOf(s, i) < s.view /\ Count(s) = 1
                    THEN Within(middle, 0, MaxScroll(s)) - s.scroll
                  ELSE IF LeftOf(s, i) < 0 THEN LeftOf(s, i)
                  ELSE IF RightOf(s, i) > s.view THEN RightOf(s, i) - s.view
                  ELSE 0)

---------------------------------------------------------------------------
(* Columns and the focus. *)

\* insert_new_column: the remembered column keeps the focus.
Inserted(s, i, column) ==
  [s EXCEPT !.columns = InsertAt(@, i, column),
            !.focus = IF @ \in i..Count(s) THEN @ + 1 ELSE @]

\* detach_window_membership: the window of column i loses its column.
Detached(s, i) ==
  [s EXCEPT !.columns = RemoveAt(@, i),
            !.focus = IF @ = i THEN Nothing ELSE IF @ \in i + 1..Count(s) THEN @ - 1 ELSE @]

\* set_focus_to_window
Focused(s, target) == [s EXCEPT !.focus = target, !.here = TRUE]

FocusedAndRevealed(s, i) == Reveal(Focused(s, i), i)

\* retarget_focus_after_destroy, and the end of workspace_focus_target: the
\* first column, else the first floating window.
Retargeted(s) ==
  IF Count(s) > 0 THEN FocusedAndRevealed(s, 1)
  ELSE IF s.floats # <<>> THEN Focused(s, OnFloating)
  ELSE Focused(s, Nothing)

\* activate_workspace: what had the focus here, else as when that closed; with the
\* focus on no column the offset is clamped.
Reopened(s) ==
  IF s.focus \in 1..Count(s) THEN FocusedAndRevealed(s, s.focus)
  ELSE IF s.focus = OnFloating THEN ClampScroll(Focused(s, OnFloating))
  ELSE IF Count(s) > 0 THEN Retargeted(s)
  ELSE ClampScroll(Retargeted(s))

---------------------------------------------------------------------------
(* Windows come and go. *)

Room == Count(strip) + Len(strip.floats) < MaxColumns

\* discovery_anchor_column_in_workspace and fullscreen_restore_index_in_workspace:
\* after the focused column, where a focused fullscreen window came from, else last.
PlaceAfterFocus(s) ==
  IF s.here /\ s.focus \in 1..Count(s) THEN s.focus + 1
  ELSE IF s.here /\ s.focus = OnFloating /\ s.floats[1].full
         THEN Least(s.floats[1].at, Count(s) + 1)
  ELSE Count(s) + 1

\* discovered_width_semantics: what a rule says, else what the window had, which
\* the viewport bounds.
WidthsOfNew(s) == {HalfWide} \union {Least(width, s.view) : width \in OpenWidths}

\* Columns of other workspaces, of other monitors too.
OtherColumns == [width : {HalfWide} \union OpenWidths, full : BOOLEAN]

\* handle_window_discovered, of a tiled window; a window that keeps the focus
\* where it is moves nothing, unless nothing here or a fullscreen window has it.
OpensOnStrip(keepsFocus, last, width) ==
  /\ Room
  /\ LET at    == IF last THEN Count(strip) + 1 ELSE PlaceAfterFocus(strip)
         there == Inserted(strip, at, [width |-> width, full |-> FALSE])
         keeps == /\ keepsFocus /\ strip.here /\ strip.focus # Nothing
                  /\ strip.focus = OnFloating => ~strip.floats[1].full
     IN  strip' = IF keeps THEN there ELSE Reveal(ClampScroll(Focused(there, at)), at)

\* handle_window_destroyed
ClosesOnStrip(i) ==
  LET gone == Detached(strip, i)
  IN  strip' = ClampScroll(IF strip.here /\ strip.focus = i THEN Retargeted(gone) ELSE gone)

FloatingCloses ==
  /\ strip.floats # <<>>
  /\ LET had  == strip.focus = OnFloating
         gone == [strip EXCEPT !.floats = <<>>, !.focus = IF had THEN Nothing ELSE @]
     IN  strip' = ClampScroll(IF strip.here /\ had THEN Retargeted(gone) ELSE gone)

\* move_column_to_workspace_target_internal: the focused column goes to another
\* workspace, which is shown instead; a column comes from another; one is moved
\* behind another on the overview.
ColumnLeaves ==
  /\ strip.here /\ strip.focus \in 1..Count(strip)
  /\ strip' = [Detached(strip, strip.focus) EXCEPT !.here = FALSE]

ColumnComes(column) ==
  /\ Room
  /\ LET at == Count(strip) + 1
     IN  strip' = FocusedAndRevealed(Inserted(strip, at, column), at)

ColumnMoves(i, at) ==
  /\ at # i
  /\ strip' = FocusedAndRevealed(Inserted(Detached(strip, i), at, strip.columns[i]), at)

---------------------------------------------------------------------------
(* The focus moves. *)

\* handle_focus_navigation: from a floating window as from the first column.
Navigates(forward) ==
  /\ strip.here /\ Count(strip) > 0
  /\ LET from == IF strip.focus = OnFloating THEN 1 ELSE strip.focus
         to   == IF from = Nothing THEN IF forward THEN 1 ELSE Count(strip)
                 ELSE Within(IF forward THEN from + 1 ELSE from - 1, 1, Count(strip))
     IN  strip' = FocusedAndRevealed(strip, to)

\* handle_window_focus_observed
ColumnIsFocused(i) == strip' = FocusedAndRevealed(strip, i)
FloatingIsFocused  == strip.floats # <<>> /\ strip' = Focused(strip, OnFloating)

\* The focus goes to another workspace, and comes back to this one
\* (handle_focus_workspace).
FocusLeaves == strip.here /\ strip' = [strip EXCEPT !.here = FALSE]
FocusReturns == ~strip.here /\ strip' = Reopened(strip)

---------------------------------------------------------------------------
(* Scrolling, widths and modes. *)

\* handle_strip_scroll
StripScrolls(direction) == strip.here /\ strip' = ScrollBy(strip, direction * ScrollStep)

\* column_target_width_bounds
LeastWidth(s) == Greatest(1, s.view \div 6)

\* next_cycled_column_width
NextWidth(s, width) ==
  LET steps == {Within(w, LeastWidth(s), s.view) :
                  w \in {s.view \div 3, s.view \div 2, (2 * s.view) \div 3, s.view}}
      wider == {w \in steps : w > width}
      from  == IF wider = {} THEN steps ELSE wider
  IN  CHOOSE w \in from : \A v \in from : w <= v

\* The end of handle_cycle_column_width and handle_commit_column_width.
Widened(s, i, width) ==
  Reveal(ClampScroll([s EXCEPT !.columns[i] = [width |-> width, full |-> FALSE]]), i)

CyclesWidth ==
  /\ strip.here /\ strip.focus \in 1..Count(strip)
  /\ strip' = Widened(strip, strip.focus, NextWidth(strip, WidthOf(strip, strip.focus)))

\* handle_commit_column_width: the column the drag began on, which need not have
\* the focus any more.  compute_width_resize_metrics keeps the width in bounds; of
\* these StripNext takes the least, the wider ones come from CyclesWidth.
EndsResize(i, width) == strip' = Widened(strip, i, width)

\* handle_toggle_maximized, of the focused window or of one a request names
TogglesMaximized(i) == strip' = Reveal([strip EXCEPT !.columns[i].full = ~@], i)

\* handle_toggle_floating and handle_toggle_fullscreen, both ways
LeavesStrip(i, full) ==
  /\ strip.floats = <<>>
  /\ strip' = ClampScroll(Focused([Detached(strip, i) EXCEPT
                                     !.floats = <<[at |-> i, full |-> full]>>], OnFloating))

ReturnsToStrip ==
  /\ strip.floats # <<>>
  /\ LET at   == Least(strip.floats[1].at, Count(strip) + 1)
         back == [Inserted(strip, at, DefaultColumn) EXCEPT !.floats = <<>>]
     IN  strip' = ClampScroll(FocusedAndRevealed(back, at))

---------------------------------------------------------------------------
(* Nobody asked. *)

\* adapt_to_platform_min_widths: a window came out wider than its column.
WindowIsWider(i, width) ==
  /\ width > WidthOf(strip, i) /\ strip.columns[i].width # width
  /\ strip' = [strip EXCEPT !.columns[i].width = width]

\* sync_monitors_from_snapshot with another work area, and
\* handle_config_reload_succeeded with another padding
ViewChanges(view) == view # strip.view /\ strip' = [strip EXCEPT !.view = view]

---------------------------------------------------------------------------

ColumnStep(i) ==
  \/ ClosesOnStrip(i)
  \/ \E at \in 1..Count(strip) : ColumnMoves(i, at)
  \/ ColumnIsFocused(i)
  \/ EndsResize(i, LeastWidth(strip))
  \/ TogglesMaximized(i)
  \/ \E full \in BOOLEAN : LeavesStrip(i, full)
  \/ \E width \in MinWidths : WindowIsWider(i, width)

StripNext ==
  \/ \E keepsFocus, last \in BOOLEAN, width \in WidthsOfNew(strip) :
       OpensOnStrip(keepsFocus, last, width)
  \/ \E i \in 1..Count(strip) : ColumnStep(i)
  \/ FloatingCloses
  \/ ColumnLeaves
  \/ \E column \in OtherColumns : ColumnComes(column)
  \/ \E forward \in BOOLEAN : Navigates(forward)
  \/ FloatingIsFocused
  \/ FocusLeaves
  \/ FocusReturns
  \/ \E direction \in {-1, 1} : StripScrolls(direction)
  \/ CyclesWidth
  \/ ReturnsToStrip
  \/ \E view \in Views : ViewChanges(view)

StripSpec == StripInit /\ [][StripNext]_strip

---------------------------------------------------------------------------
(* Properties. *)

InRange(s) == s.scroll \in 0..MaxScroll(s)

\* In sight: all of the column, or a viewport full of it.
InSight(s, i) ==
  \/ LeftOf(s, i) >= 0 /\ RightOf(s, i) <= s.view
  \/ LeftOf(s, i) <= 0 /\ RightOf(s, i) >= s.view

OnStrip(s) == s.here /\ s.focus \in 1..Count(s)

\* The strip that is shown never leaves a part of the viewport empty that columns
\* could fill, except after the viewport has changed, or when a floating window
\* calls the focus back to a strip that lost a column with it: neither clamps the
\* offset.
OnlyReturnsStrandTheStrip ==
  [][(strip.here => InRange(strip)) =>
       \/ strip'.here => InRange(strip')
       \/ strip'.view # strip.view
       \/ ~strip.here /\ FloatingIsFocused]_strip

\* While the offset is in range the focused column is in sight, unless the user
\* looks elsewhere or works on another column, or it goes out of sight with no step
\* of the user: another window closes or becomes wider, or the viewport changes.
\* Whatever moves the focus shows the column.
OnlyOthersHideTheFocus ==
  [][InRange(strip) /\ OnStrip(strip') /\ ~InSight(strip', strip'.focus) =>
       \/ OnStrip(strip) /\ ~InSight(strip, strip.focus)
       \/ \E direction \in {-1, 1} : StripScrolls(direction)
       \/ \E i \in 1..Count(strip) \ {strip.focus} :
            \/ ClosesOnStrip(i)
            \/ TogglesMaximized(i)
            \/ EndsResize(i, LeastWidth(strip))
       \/ \E i \in 1..Count(strip), width \in MinWidths : WindowIsWider(i, width)
       \/ \E view \in Views : ViewChanges(view)]_strip
============================================================================
