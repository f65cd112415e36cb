---------------------------- MODULE WmState ----------------------------
(***************************************************************************)
(* The window-manager state of crates/domain/src/model.rs: monitors, their *)
(* workspace sets, workspaces, columns, windows, the focus, the overview   *)
(* and the column-width resize session, with the operations WmState itself *)
(* offers.  Everything is an operator on one state record s, so that the   *)
(* reducer (StateStore) can compose them as the Rust methods do.           *)
(*                                                                         *)
(* Abstractions.  A workspace set is identified with its monitor (the code *)
(* creates exactly one per monitor and never deletes either).  Identifiers *)
(* are naturals; the code's counters only grow, here a new identifier is   *)
(* the least one that nothing in the state refers to, which no operation   *)
(* can tell apart and keeps the state space finite.  Rectangles, widths,   *)
(* scroll offsets, the maximised flag and the workspace name (never set by *)
(* the code) are left out.                                                 *)
(***************************************************************************)
EXTENDS Naturals, Sequences, FiniteSets, SequencesExt

CONSTANTS Monitors,   \* identifiers of the monitors that may be plugged in
          None        \* Rust's None

ASSUME MonitorsAssumption == Monitors \subseteq Nat
ASSUME NoneAssumption == None \notin Nat

Layers == {"Tiled", "Floating", "Fullscreen"}
Modes  == {"Normal", "Tabbed"}
Option(T) == T \union {None}

(***************************************************************************)
(* The records of model.rs.  RestoreTarget and WidthResizeSession are      *)
(* optional in the code: absence is the record of Nones.                   *)
(***************************************************************************)
WorkspaceSet  == [order : Seq(Nat), active : Nat]
Workspace     == [mon : Monitors, cols : Seq(Nat), flt : Seq(Nat),
                  remWin : Option(Nat), remCol : Option(Nat), tail : BOOLEAN]
Column        == [mode : Modes, wins : Seq(Nat), active : Nat, tab : Nat]
RestoreTarget == [ws : Option(Nat), col : Option(Nat), idx : Option(Nat),
                  layer : Option(Layers)]
Window        == [layer : Layers, ws : Nat, col : Option(Nat), managed : BOOLEAN,
                  flt : BOOLEAN, full : BOOLEAN, restore : RestoreTarget]
OverviewState == [open : BOOLEAN, mon : Option(Monitors), sel : Option(Nat)]
ResizeSession == [ws : Option(Nat), col : Option(Nat), win : Option(Nat)]

NoRestore == [ws |-> None, col |-> None, idx |-> None, layer |-> None]
NoSession == [ws |-> None, col |-> None, win |-> None]

EmptyWorkspace(m) == [mon |-> m, cols |-> <<>>, flt |-> <<>>,
                      remWin |-> None, remCol |-> None, tail |-> TRUE]

NewColumn(mode, x) == [mode |-> mode, wins |-> <<x>>, active |-> x, tab |-> x]

InitState == [sets       |-> <<>>,
              workspaces |-> <<>>,
              columns    |-> <<>>,
              windows    |-> <<>>,
              focus      |-> [mon |-> None, win |-> None, col |-> None,
                              activeBy |-> <<>>],
              overview   |-> [open |-> FALSE, mon |-> None, sel |-> None],
              session    |-> NoSession]

---------------------------------------------------------------------------
(* Maps (BTreeMap) and vectors. *)
(* A definition marked "mistake" is a wrong variant of the one after it: the  *)
(* properties are exercised by putting it in its place.                       *)

Put(f, k, v) == [x \in DOMAIN f \union {k} |-> IF x = k THEN v ELSE f[x]]
Drop(f, S)   == [x \in DOMAIN f \ S |-> f[x]]

\* Vec::retain of the elements outside S: position j of the result is the
\* kept position of rank j.  (Where nothing goes, TLC is spared the ranks.)
Without(seq, S) ==
  LET kept == {i \in DOMAIN seq : seq[i] \notin S}
      rank(i) == Cardinality({k \in kept : k <= i})
  IN  IF kept = DOMAIN seq THEN seq ELSE
      [j \in 1..Cardinality(kept) |-> seq[CHOOSE i \in kept : rank(i) = j]]

\* Iterator::position, None when absent.
Position(seq, x) ==
  IF \E i \in DOMAIN seq : seq[i] = x
  THEN CHOOSE i \in DOMAIN seq : seq[i] = x /\ \A k \in 1..(i - 1) : seq[k] # x
  ELSE None

\* A natural outside a finite set (TLC takes the least).
Fresh(used) == CHOOSE n \in 0..Cardinality(used) : n \notin used

---------------------------------------------------------------------------
(* Identifiers the state refers to. *)

UsedWorkspaceIds(s) ==
  DOMAIN s.workspaces \union {s.windows[x].ws : x \in DOMAIN s.windows}
    \union {s.overview.sel, s.session.ws}

UsedColumnIds(s) ==
  DOMAIN s.columns \union {s.windows[x].restore.col : x \in DOMAIN s.windows}
    \union {s.workspaces[w].remCol : w \in DOMAIN s.workspaces}
    \union {s.session.col}

UsedWindowIds(s) ==
  DOMAIN s.windows \union {s.workspaces[w].remWin : w \in DOMAIN s.workspaces}
    \union {s.session.win}

FreshWorkspace(s) == Fresh(UsedWorkspaceIds(s))
FreshColumn(s)    == Fresh(UsedColumnIds(s))
FreshWindow(s)    == Fresh(UsedWindowIds(s))

---------------------------------------------------------------------------
(* Queries. *)

ActiveWorkspace(s, m) ==
  IF m \in DOMAIN s.focus.activeBy THEN s.focus.activeBy[m] ELSE s.sets[m].active

IsWorkspaceEmpty(s, w) ==
  w \in DOMAIN s.workspaces =>
    /\ s.workspaces[w].flt = <<>>
    /\ \A i \in DOMAIN s.workspaces[w].cols :
         LET c == s.workspaces[w].cols[i]
         IN  c \in DOMAIN s.columns => s.columns[c].wins = <<>>

---------------------------------------------------------------------------
(* normalize_workspace_set, step by step. *)

PutOrder(s, m, order) ==
  [s EXCEPT !.sets = Put(s.sets, m, [order |-> order, active |-> s.sets[m].active])]

\* Mistake: the focus map is not written.
PutSetActive(s, m, w) ==
  [s EXCEPT !.sets = Put(s.sets, m, [order |-> s.sets[m].order, active |-> w])]

PutActive(s, m, w) ==
  [s EXCEPT !.sets = Put(s.sets, m, [order |-> s.sets[m].order, active |-> w]),
            !.focus = [s.focus EXCEPT !.activeBy = Put(s.focus.activeBy, m, w)]]

AppendEmptyWorkspace(s, m) ==
  LET w == FreshWorkspace(s)
  IN  PutOrder([s EXCEPT !.workspaces = Put(s.workspaces, w, EmptyWorkspace(m))],
               m, Append(s.sets[m].order, w))

\* Mistake: nothing is removed.
NoStrays(s, m) == {}

\* The workspaces the retain closure removes: empty, not active, not last.
StrayEmpties(s, m) ==
  {w \in ToSet(s.sets[m].order) :
     /\ w \in DOMAIN s.workspaces
     /\ IsWorkspaceEmpty(s, w)
     /\ w # s.sets[m].active
     /\ w # Last(s.sets[m].order)}

\* The positions from which on every workspace is empty.
EmptySuffix(s, m) ==
  LET order == s.sets[m].order
  IN  {i \in DOMAIN order : \A k \in i..Len(order) : IsWorkspaceEmpty(s, order[k])}

\* The while loop pops empty workspaces off the end as long as the one before
\* is empty too: the first position of the empty suffix survives.
CollapsedTail(s, m) ==
  LET order  == s.sets[m].order
      suffix == EmptySuffix(s, m)
  IN  {order[i] : i \in {k \in 2..Len(order) : k - 1 \in suffix}}

RemoveFromSet(s, m, gone) ==
  PutOrder([s EXCEPT !.workspaces = Drop(s.workspaces, gone)],
           m, Without(s.sets[m].order, gone))

\* Mistake: the kept ones are collected from the back.
RetainBackwards(s, m) ==
  LET kept == RemoveFromSet(s, m, StrayEmpties(s, m))
  IN  PutOrder(kept, m, Reverse(kept.sets[m].order))

RetainOccupied(s, m) == RemoveFromSet(s, m, StrayEmpties(s, m))
CollapseTail(s, m)   == RemoveFromSet(s, m, CollapsedTail(s, m))

EnsureEmptyTail(s, m) ==
  IF IsWorkspaceEmpty(s, Last(s.sets[m].order)) THEN s ELSE AppendEmptyWorkspace(s, m)

\* The final loop over the order ...
RefreshWorkspaces(s, m) ==
  LET order == s.sets[m].order
      last(w) == w = Last(order) /\ IsWorkspaceEmpty(s, w)
      fresh(w) == [s.workspaces[w] EXCEPT !.mon = m, !.tail = last(w)]
  IN  [s EXCEPT !.workspaces = [w \in DOMAIN s.workspaces |->
                                  IF w \in ToSet(order) THEN fresh(w) ELSE s.workspaces[w]]]

\* ... and the choice of the active workspace.
ChooseActive(s, m) ==
  LET order == s.sets[m].order
  IN  PutActive(s, m, IF s.sets[m].active \in ToSet(order) THEN s.sets[m].active ELSE order[1])

NonEmptySet(s, m) == IF s.sets[m].order = <<>> THEN AppendEmptyWorkspace(s, m) ELSE s

NormalizeWorkspaceSet(s, m) ==
  LET kept == CollapseTail(RetainOccupied(NonEmptySet(s, m), m), m)
  IN  ChooseActive(RefreshWorkspaces(EnsureEmptyTail(kept, m), m), m)

---------------------------------------------------------------------------
(* add_monitor: a monitor, its set with one empty workspace, the focus. *)

AddMonitor(s, m) ==
  LET w == FreshWorkspace(s)
      added == [s EXCEPT
                  !.workspaces = Put(s.workspaces, w, EmptyWorkspace(m)),
                  !.sets = Put(s.sets, m, [order |-> <<w>>, active |-> w]),
                  !.focus = [s.focus EXCEPT
                               !.activeBy = Put(s.focus.activeBy, m, w),
                               !.mon = IF s.focus.mon = None THEN m ELSE s.focus.mon]]
  IN  NormalizeWorkspaceSet(added, m)
===========================================================================
