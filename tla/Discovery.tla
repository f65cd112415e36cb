----------------------------- MODULE Discovery -----------------------------
(***************************************************************************)
(* Which windows of the desktop become windows of the store: what a scan   *)
(* or an event of the observer captures and filters out                    *)
(* (windows-adapter/src/native_snapshot.rs and window_filtering.rs), what  *)
(* the adapter makes of the rest (windows-adapter/src/lib.rs), and how     *)
(* often the runtime must see a window before it takes it                  *)
(* (wm-core/src/runtime/observation.rs).                                   *)
(*                                                                         *)
(* A look is what the queries return of a window: its kind ("top" for one  *)
(* a user sees and no style excludes), its program (the process name       *)
(* without case and suffix, or the process of one without a name), its     *)
(* class and title up to what the code asks of them, its rectangle, and the *)
(* width of its shadow.                                                    *)
(* Ratios of the code are compared by cross multiplication; rounding at    *)
(* their very boundary is left out.                                        *)
(*                                                                         *)
(* An envelope is consumed when it is sent: what it may miss on its way is *)
(* in modules Observer and Runtime.                                        *)
(***************************************************************************)
EXTENDS Integers, Sequences, Functions

CONSTANTS Hwnds,      \* window handles, not 0
          Looks,      \* what a window can look like
          Displays,   \* the work area of each monitor, in order from left to right
          MaxShifts   \* bound: changes of the desktop

ASSUME HwndsAssumption == Hwnds \subseteq Nat \ {0}

VARIABLES screen,     \* the look of each open window
          front,      \* GetForegroundWindow, 0 for none of Hwnds
          picture,    \* the observer's snapshot: the looks of windows, and its foreground
          sightings,  \* pending_discoveries: stable_ticks and last_rect
          tracked,    \* the handles bound to windows of the store
          synced,     \* last_snapshot.is_some()
          polling,    \* the main loop scans for itself
          shifts      \* changes left

discoveryVars == <<screen, front, picture, sightings, tracked, synced, polling, shifts>>

---------------------------------------------------------------------------
(* Rectangles: [x, y, w, h]. *)

Overlap(a, b) == /\ a.x < b.x + b.w /\ b.x < a.x + a.w
                 /\ a.y < b.y + b.h /\ b.y < a.y + a.h

Inside(outer, inner) ==
  /\ inner.x >= outer.x /\ inner.x + inner.w <= outer.x + outer.w
  /\ inner.y >= outer.y /\ inner.y + inner.h <= outer.y + outer.h

Near(a, b, px) == Overlap([x |-> a.x - px, y |-> a.y - px, w |-> a.w + 2 * px, h |-> a.h + 2 * px], b)

Close(i, j) == -24 <= i - j /\ i - j <= 24

\* rects_are_near_duplicates, pending_discovery_rect_is_stable
SameRect(a, b) == Close(a.x, b.x) /\ Close(a.y, b.y) /\ Close(a.w, b.w) /\ Close(a.h, b.h)

Area(a) == a.w * a.h

\* The monitor a window is on, external: the one its left edge is on.
DisplayOf(c) == CHOOSE d \in DOMAIN Displays :
  /\ c.rect.x >= Displays[d].x \/ d = 1
  /\ d = Len(Displays) \/ c.rect.x < Displays[d + 1].x

---------------------------------------------------------------------------
(* What a snapshot holds of the desktop. *)

\* is_real_user_window: it is visible, not minimised, not cloaked, has no owner,
\* and is neither a tool window nor a popup without a frame.
RealUserWindow(c) == c.kind = "top"

\* query_window_rect: the frame a user sees lies inside the window's rectangle by
\* the width of its shadow; one that does not lie inside is not used.
VisibleRect(c) ==
  LET frame == [x |-> c.rect.x + c.shadow, y |-> c.rect.y,
                w |-> c.rect.w - 2 * c.shadow, h |-> c.rect.h - c.shadow]
  IN  IF Inside(c.rect, frame) /\ frame.w > 0 /\ frame.h > 0 THEN frame ELSE c.rect

\* capture_window_snapshot: whether there is one, and the window as captured.
Captured(h) ==
  /\ h \in DOMAIN screen
  /\ RealUserWindow(screen[h])
  /\ Area(screen[h].rect) > 0
  /\ screen[h].class # "core"
Capture(h) == [screen[h] EXCEPT !.rect = VisibleRect(screen[h])]

\* has_transient_surface_signature
TransientSignature(c) == /\ c.rect.h <= 180 /\ c.rect.w <= 720 /\ Area(c.rect) <= 120000
                         /\ c.title = "" \/ c.rect.h <= 96

EngineInternal(c) == c.program = "browser" /\ c.title = "legacy"

\* The container o may hold c: same monitor and application, not smaller.
Holds(o, c) == /\ DisplayOf(o) = DisplayOf(c) /\ o.program = c.program
               /\ o.rect.w >= c.rect.w /\ o.rect.h >= c.rect.h

EmbeddedPanel(o, c) == /\ 10 * c.w <= 8 * o.w /\ 10 * c.h <= 9 * o.h
                       /\ 2 * Area(c) <= Area(o)
AnchoredSmall(o, c) == /\ 10 * c.w <= 6 * o.w /\ 10 * c.h <= 4 * o.h
                       /\ 4 * Area(c) <= Area(o)

Touches(o, c) == Inside(o, c) \/ Overlap(o, c)

\* Mistake: a title does not keep a window.
AnchoredWhateverTitle(wins, focused, h) ==
  LET c == wins[h]
  IN  /\ h \notin focused
      /\ \E g \in DOMAIN wins \ {h} :
           Holds(wins[g], c) /\ EmbeddedPanel(wins[g].rect, c.rect) /\ Touches(wins[g].rect, c.rect)

\* is_process_anchored_transient_candidate
AnchoredTransient(wins, focused, h) ==
  LET c == wins[h]
      Anchors(o) ==
        CASE c.title = ""          -> EmbeddedPanel(o.rect, c.rect) /\ Touches(o.rect, c.rect)
          [] EngineInternal(c)     -> Touches(o.rect, c.rect)
          [] TransientSignature(c) -> /\ AnchoredSmall(o.rect, c.rect)
                                      /\ Touches(o.rect, c.rect) \/ Near(o.rect, c.rect, 96)
          [] OTHER                 -> FALSE
  IN  /\ h \notin focused
      /\ \E g \in DOMAIN wins \ {h} : Holds(wins[g], c) /\ Anchors(wins[g])

\* filter_embedded_transient_windows
Filtered(wins, focused) ==
  Restrict(wins, {h \in DOMAIN wins : ~AnchoredTransient(wins, focused, h)})

\* scan_snapshot
Scan == [wins |-> Filtered([h \in {g \in DOMAIN screen : Captured(g)} |-> Capture(h)], {front}),
         fg   |-> front]

\* remove_window and refresh_focus
Removed(p, h) == [wins |-> Restrict(p.wins, DOMAIN p.wins \ {h}), fg |-> front]

\* refresh_window: the windows are filtered before their focus is refreshed.
Refreshed(p, h) ==
  LET wins == [g \in DOMAIN p.wins \union {h} |-> IF g = h THEN Capture(h) ELSE p.wins[g]]
      focused == {g \in DOMAIN wins : g = (IF g = h THEN front ELSE p.fg)}
  IN  IF Captured(h) THEN [wins |-> Filtered(wins, focused), fg |-> front] ELSE Removed(p, h)

---------------------------------------------------------------------------
(* What the adapter makes of window h of the snapshot p. *)

\* window_has_primary_like_footprint
Footprint(c) ==
  LET m == Displays[DisplayOf(c)]
  IN  \/ 100 * Area(c.rect) >= 22 * Area(m)
      \/ 10 * c.rect.w >= 3 * m.w /\ 2 * c.rect.h >= m.h
      \/ 100 * c.rect.h >= 85 * m.h

\* is_discovery_known_internal_family_surface
KnownInternal(c) == \/ c.program \in {"terminal", "explorer"} /\ c.class = "internal"
                    \/ c.program = "terminal" /\ c.title = "hosting"

\* discovery_presentation_preflight
Preflight(c) == IF KnownInternal(c) \/ c.class = "escape" THEN "Rejected"
                ELSE IF c.class = "fallback" THEN "FallbackOnly"
                ELSE "Eligible"

Unfocused(p, h) == h # p.fg
Family(p, h) == {g \in DOMAIN p.wins \ {h} : /\ p.wins[g].program = p.wins[h].program
                                             /\ DisplayOf(p.wins[g]) = DisplayOf(p.wins[h])}

\* is_discovery_duplicate_titleless_family_surface
TitlelessDuplicate(p, h) ==
  /\ Unfocused(p, h) /\ p.wins[h].title = ""
  /\ \E g \in Family(p, h) : p.wins[g].title = "" /\ SameRect(p.wins[g].rect, p.wins[h].rect)

Compact(c) == c.rect.h <= 160 \/ c.rect.w <= 220

\* Mistake: any window on top of another of its family is one of its surfaces.
AuxiliaryWhenStacked(p, h) ==
  /\ Unfocused(p, h)
  /\ \E g \in Family(p, h) : p.wins[g].title # "" /\ Touches(p.wins[g].rect, p.wins[h].rect)

\* is_discovery_auxiliary_app_surface
AuxiliarySurface(p, h) ==
  LET c == p.wins[h]
  IN  /\ Unfocused(p, h)
      /\ \E g \in Family(p, h) :
           LET o == p.wins[g]
           IN  /\ o.title # "" /\ Footprint(o)
               /\ Touches(o.rect, c.rect) \/ Near(o.rect, c.rect, 96)
               /\ \/ c.title = "" \/ Compact(c)
                  \/ SameRect(o.rect, c.rect) /\ (c.title = "hosting" \/ Preflight(c) = "FallbackOnly")

\* is_discovery_titleless_non_primary_footprint
TitlelessPanel(p, h) == Unfocused(p, h) /\ p.wins[h].title = "" /\ ~Footprint(p.wins[h])

\* is_transient_shell_overlay: such a window is no management_candidate.
ShellSurface(c) == c.class = "switcher" \/ c.program = "shell" \/ c.title = "task switching"

\* is_discovery_transient_escape_surface
EscapeSurface(c) == c.class = "escape"

\* classify_platform_window_role
Role(p, h) ==
  LET c == p.wins[h]
  IN  IF ShellSurface(c) THEN "Noise"
      ELSE IF EscapeSurface(c) THEN "Transient"
      ELSE IF \/ KnownInternal(c) \/ TitlelessDuplicate(p, h)
              \/ AuxiliarySurface(p, h) \/ TitlelessPanel(p, h)
      THEN "Auxiliary"
      ELSE "Primary"

\* The windows assess_platform_window_for_discovery lets be promoted, at once or
\* later.
Candidates(p) == {h \in DOMAIN p.wins : Role(p, h) = "Primary"}

\* should_hold_primary_candidate_in_pending
HeldPending(p, h) ==
  LET c == p.wins[h]
  IN  \/ c.title = ""
      \/ Preflight(c) = "FallbackOnly" /\ Unfocused(p, h) /\ ~Footprint(c)

---------------------------------------------------------------------------
(* What the runtime makes of it. *)

\* pending_discovery_required_stable_ticks
NeededTicks(p, h) ==
  LET fallback == Preflight(p.wins[h]) = "FallbackOnly"
  IN  IF ~HeldPending(p, h) THEN (IF fallback /\ Unfocused(p, h) THEN 2 ELSE 1)
      ELSE (IF ~synced \/ ~Unfocused(p, h) THEN 2 ELSE 3) + (IF fallback THEN 1 ELSE 0)

MaxTicks == 4  \* the most any window needs

\* stable_ticks with one more sighting: a new entry is made with 1, and at once
\* found stable.
StableTicks(h, rect) ==
  IF h \notin DOMAIN sightings THEN 2
  ELSE IF ~SameRect(sightings[h].rect, rect) THEN 1
  ELSE IF sightings[h].ticks < MaxTicks THEN sightings[h].ticks + 1
  ELSE MaxTicks

\* sync_snapshot_with_reason, as far as discoveries go: candidates are promoted
\* or wait, windows that are missing are pruned.
Sync(p) ==
  LET candidates == Candidates(p) \ tracked
      promoted == {h \in candidates : StableTicks(h, p.wins[h].rect) >= NeededTicks(p, h)}
  IN  /\ tracked' = (tracked \union promoted) \intersect DOMAIN p.wins
      /\ sightings' = [h \in candidates \ promoted |->
                         [ticks |-> StableTicks(h, p.wins[h].rect), rect |-> p.wins[h].rect]]
      /\ synced' = TRUE

---------------------------------------------------------------------------
(* The desktop, external. *)

Shifts == /\ shifts > 0
          /\ shifts' = shifts - 1
          /\ UNCHANGED <<picture, sightings, tracked, synced, polling>>

WindowOpens(h, c) ==
  /\ Shifts
  /\ h \notin DOMAIN screen
  /\ screen' = [g \in DOMAIN screen \union {h} |-> IF g = h THEN c ELSE screen[g]]
  /\ front' \in {front, h}

WindowCloses(h) ==
  /\ Shifts
  /\ h \in DOMAIN screen
  /\ screen' = Restrict(screen, DOMAIN screen \ {h})
  /\ front' \in (DOMAIN screen \ {h}) \union {0}

\* It gets another title, moves, is minimised or restored.
WindowAlters(h, c) ==
  /\ Shifts
  /\ h \in DOMAIN screen
  /\ c # screen[h] /\ c.program = screen[h].program /\ c.class = screen[h].class
  /\ screen' = [screen EXCEPT ![h] = c]
  /\ UNCHANGED front

FocusMoves(h) ==
  /\ Shifts
  /\ h \in (DOMAIN screen \union {0}) \ {front}
  /\ front' = h
  /\ UNCHANGED screen

---------------------------------------------------------------------------
(* The observer's thread and the polling loop. *)

\* apply_observation of a snapshot of the observer.
Sends(p) == picture' = p /\ Sync(picture') /\ UNCHANGED <<screen, front, polling, shifts>>

\* run_observer: the first snapshot of the thread.
FirstSnapshot == ~polling /\ ~synced /\ Sends(Scan)

\* should_rescan_after_incremental_event; k is the kind of the event.
Escalates(k, before, after) ==
  \/ k \in {"show", "hide"} /\ ~(before /\ after)
  \/ k \in {"create", "destroy"} /\ ~before /\ ~after

\* apply_incremental_event: p is the snapshot refreshed for an event of window h.
\* An event that escalates sends what a scan finds to differ from p, which may
\* be nothing although p is news.
Answers(k, h, p) ==
  LET escalates == Escalates(k, h \in DOMAIN picture.wins, h \in DOMAIN p.wins)
  IN  IF ~escalates THEN Sends(p)
      ELSE IF p # Scan THEN Sends(Scan)
      ELSE picture' = p /\ UNCHANGED <<screen, front, sightings, tracked, synced, polling, shifts>>

\* An event comes for a window, late or twice perhaps; "create" stands for a
\* foreground event too.  That it has gone is only said of a window that has: a
\* later event would have overwritten that one.
EventComes(k, h) ==
  /\ ~polling /\ synced
  /\ \E p \in {IF k \in {"destroy", "hide"} THEN Removed(picture, h) ELSE Refreshed(picture, h)} :
       Answers(k, h, p)
  /\ k \in {"destroy", "hide"} => ~Captured(h)

\* rescan_snapshot: an unchanged snapshot is not sent.
RescanFinds == ~polling /\ synced /\ picture # Scan /\ Sends(Scan)

\* scan_and_sync of the polling loop.
PollSyncs == polling /\ (\E p \in {Scan} : Sync(p)) /\ UNCHANGED <<screen, front, picture, polling, shifts>>

\* dispatch_command scans for itself, and leaves the observer's snapshot alone.
CommandSyncs == ~polling /\ synced /\ (\E p \in {Scan} : Sync(p)) /\ UNCHANGED <<screen, front, picture, polling, shifts>>

---------------------------------------------------------------------------

DiscoveryInit ==
  /\ \E hs \in SUBSET Hwnds : screen \in [hs -> Looks]
  /\ front \in DOMAIN screen \union {0}
  /\ picture = [wins |-> <<>>, fg |-> 0]
  /\ sightings = <<>>
  /\ tracked = {} /\ synced = FALSE
  /\ polling \in BOOLEAN
  /\ shifts = MaxShifts

DiscoveryNext ==
  \/ \E h \in Hwnds, c \in Looks : WindowOpens(h, c) \/ WindowAlters(h, c)
  \/ \E h \in Hwnds : WindowCloses(h)
  \/ \E h \in Hwnds \union {0} : FocusMoves(h)
  \/ FirstSnapshot
  \/ \E h \in Hwnds, k \in {"create", "show", "location", "hide", "destroy"} : EventComes(k, h)
  \/ RescanFinds
  \/ PollSyncs
  \/ CommandSyncs

\* The thread scans again and again, at intervals that are bounded; the polling
\* loop too.  Nobody need give a command, and no event need come.
DiscoveryFairness ==
  /\ WF_discoveryVars(FirstSnapshot) /\ WF_discoveryVars(RescanFinds)
  /\ WF_discoveryVars(PollSyncs)

DiscoverySpec == DiscoveryInit /\ [][DiscoveryNext]_discoveryVars /\ DiscoveryFairness

---------------------------------------------------------------------------

\* A window of its own: titled, no thin strip, of a class copies can be made of.
Ordinary(c) == /\ c.kind = "top" /\ c.title = "named" /\ ~Compact(c)
               /\ c.class = "plain" /\ c.program # "shell"

\* Where the daemon polls, every window that stays a candidate is managed in the
\* end, titled or not, however often it has changed; a titled window of its own
\* is always a candidate, wherever its siblings are.
CandidatesAreTracked ==
  <>[](polling => \A h \in DOMAIN screen : Ordinary(screen[h]) \/ h \in Candidates(Scan) => h \in tracked)

\* A candidate that stays as it is gets promoted once it has been seen often enough.
StableWindowsAreTracked == <>[](Candidates(Scan) \subseteq tracked)

\* A look the filter may take for a surface of another window.
Surface(c) == c.title = "" \/ EngineInternal(c) \/ TransientSignature(c)

\* A window that is open loses its place for two reasons only: it looks like a
\* surface as it is captured (or did, to the observer), or the snapshot is older
\* than the window.
\* A titled window of some size is never dropped because of what another window
\* does.
OnlySurfacesAreDropped ==
  [][\A h \in tracked \ tracked' :
       \/ ~Captured(h) \/ Surface(Capture(h))
       \/ h \notin DOMAIN picture.wins
       \/ Surface(picture.wins[h])]_discoveryVars
============================================================================
