------------------------ MODULE PlacementProofs ------------------------
(***************************************************************************)
(* Proofs about what the state store holds: for every number of monitors,  *)
(* workspaces, columns and windows the state stays well typed, every       *)
(* window stands in exactly the list its record names, every column in     *)
(* exactly one strip with its selections among its windows, and the focus  *)
(* is coherent.                                                            *)
(*                                                                         *)
(* None of these is inductive alone: a window that is toggled goes where   *)
(* its restore target says, a workspace that is activated focuses the      *)
(* window it remembers, and normalisation removes the workspaces it finds  *)
(* empty.  The invariant is Arranged.  A handler breaks it between taking  *)
(* a window out of its list and putting it into another: Arranged(s, L) is *)
(* the invariant but for the loose windows L, which stand in no list.      *)
(***************************************************************************)
EXTENDS WmStoreProofs

---------------------------------------------------------------------------
(* The inductive invariant. *)

\* A column holds windows that name it, and selects among them.
ColumnFits(s, c, L) ==
  LET r == s.columns[c]
  IN  /\ r.wins # <<>> /\ IsInjective(r.wins)
      /\ {r.active, r.tab} \subseteq ToSet(r.wins)
      /\ \A x \in ToSet(r.wins) :
           /\ x \in DOMAIN s.windows \ L
           /\ s.windows[x].col = c
           /\ s.windows[x].ws \in DOMAIN s.workspaces
           /\ c \in ToSet(s.workspaces[s.windows[x].ws].cols)

\* The strip of a workspace holds columns of its windows, its floating list
\* windows that name it.
WorkspaceFits(s, w, L) ==
  LET r == s.workspaces[w]
  IN  /\ IsInjective(r.cols) /\ IsInjective(r.flt)
      /\ \A c \in ToSet(r.cols) :
           c \in DOMAIN s.columns /\ \A x \in ToSet(s.columns[c].wins) : s.windows[x].ws = w
      /\ \A x \in ToSet(r.flt) :
           x \in DOMAIN s.windows \ L /\ s.windows[x].col = None /\ s.windows[x].ws = w

\* A window that has left its place knows a way back to its own workspace.
RestoreFits(r) ==
  r.restore # NoRestore =>
    r.restore.ws = r.ws /\ r.restore.idx # 0 /\ r.restore.layer \in Layers

\* A window is where its record says.
WindowFits(s, x) ==
  LET r == s.windows[x]
  IN  /\ r.col # None => /\ r.col \in DOMAIN s.columns
                         /\ x \in ToSet(s.columns[r.col].wins)
                         /\ r.restore = NoRestore
      /\ r.managed => /\ r.ws \in DOMAIN s.workspaces
                      /\ r.col = None => x \in ToSet(s.workspaces[r.ws].flt)
      /\ RestoreFits(r)

Placed(s, L) ==
  /\ \A c \in DOMAIN s.columns : ColumnFits(s, c, L)
  /\ \A w \in DOMAIN s.workspaces : WorkspaceFits(s, w, L)
  /\ \A x \in DOMAIN s.windows \ L : WindowFits(s, x)

Arranged(s, L) ==
  Shape(s) /\ StateType(s) /\ IsFiniteSet(DOMAIN s.columns) /\ Placed(s, L)

---------------------------------------------------------------------------
(* Types. *)

\* Writing one entry of a map, or taking some away, keeps its type.
LEMMA MapsKeepTypes ==
  ASSUME NEW K, NEW V, NEW f, IsMap(f, K, V)
  PROVE  /\ \A k \in K, v \in V : IsMap(Put(f, k, v), K, V)
         /\ \A S : IsMap(Drop(f, S), K, V)
         /\ \A k \in DOMAIN f : k \in K /\ f[k] \in V
BY DEF IsMap, Put, Drop

\* Putting a value of the map's kind under a key of the map's kind leaves a map.
LEMMA PutType ==
  ASSUME NEW K, NEW V, NEW f, IsMap(f, K, V), NEW k \in K, NEW v \in V
  PROVE  IsMap(Put(f, k, v), K, V)
BY MapsKeepTypes

\* What a state is made of.
LEMMA TypeLookups ==
  ASSUME NEW s, StateType(s)
  PROVE  /\ \A m \in DOMAIN s.sets : m \in Monitors /\ s.sets[m] \in WorkspaceSet
         /\ \A w \in DOMAIN s.workspaces : w \in Nat /\ s.workspaces[w] \in Workspace
         /\ \A c \in DOMAIN s.columns : c \in Nat /\ s.columns[c] \in Column
         /\ \A x \in DOMAIN s.windows : x \in Nat /\ s.windows[x] \in Window
         /\ \A m \in DOMAIN s.focus.activeBy : s.focus.activeBy[m] \in Nat
BY MapsKeepTypes DEF StateType

\* A workspace list is a sequence of identifiers, none of which is None.
LEMMA NoneIsNoId ==
  \A n \in Nat : n # None
BY NoneAssumption

---------------------------------------------------------------------------
(* Operators that move nothing. *)

Cols(s, w) == IF w \in DOMAIN s.workspaces THEN s.workspaces[w].cols ELSE <<>>
Flt(s, w)  == IF w \in DOMAIN s.workspaces THEN s.workspaces[w].flt ELSE <<>>

\* Two states with the same lists: empty workspaces may come and go.
SameLists(s, t) ==
  /\ t.columns = s.columns
  /\ t.windows = s.windows
  /\ \A w : Cols(t, w) = Cols(s, w) /\ Flt(t, w) = Flt(s, w)

\* The invariant looks at the lists only.
LEMMA SameListsPlaced ==
  ASSUME NEW s, NEW t, NEW L, Placed(s, L), SameLists(s, t)
  PROVE  Placed(t, L)
<1>0. \A k : k \notin ToSet(<<>>)
  BY DEF ToSet
<1>1. ASSUME NEW c \in DOMAIN t.columns PROVE ColumnFits(t, c, L)
  <2>1. ColumnFits(s, c, L) /\ t.columns = s.columns /\ t.windows = s.windows
    BY DEF Placed, SameLists
  <2>2. ASSUME NEW x \in ToSet(t.columns[c].wins)
        PROVE  /\ t.windows[x].ws \in DOMAIN t.workspaces
               /\ c \in ToSet(t.workspaces[t.windows[x].ws].cols)
    <3> DEFINE w == t.windows[x].ws
    <3>1. w \in DOMAIN s.workspaces /\ c \in ToSet(s.workspaces[w].cols)
      BY <2>1 DEF ColumnFits
    <3> HIDE DEF w
    <3>2. Cols(t, w) = Cols(s, w)
      BY DEF SameLists
    <3>3. QED
      BY <1>0, <3>1, <3>2 DEF Cols, w
  <2>3. QED
    BY <2>1, <2>2 DEF ColumnFits
<1>2. ASSUME NEW w \in DOMAIN t.workspaces PROVE WorkspaceFits(t, w, L)
  <2>1. t.workspaces[w].cols = Cols(s, w) /\ t.workspaces[w].flt = Flt(s, w)
    BY DEF SameLists, Cols, Flt
  <2>2. t.columns = s.columns /\ t.windows = s.windows
    BY DEF SameLists
  <2>3. CASE w \in DOMAIN s.workspaces
    <3>1. Cols(s, w) = s.workspaces[w].cols /\ Flt(s, w) = s.workspaces[w].flt
      BY <2>3 DEF Cols, Flt
    <3>2. WorkspaceFits(s, w, L)
      BY <2>3 DEF Placed
    <3>3. QED
      BY <2>1, <2>2, <3>1, <3>2 DEF WorkspaceFits
  <2>4. CASE w \notin DOMAIN s.workspaces
    <3>1. Cols(s, w) = <<>> /\ Flt(s, w) = <<>>
      BY <2>4 DEF Cols, Flt
    <3>2. IsInjective(<<>>)
      BY DEF IsInjective
    <3>3. QED
      BY <1>0, <2>1, <3>1, <3>2 DEF WorkspaceFits
  <2>5. QED
    BY <2>3, <2>4
<1>3. ASSUME NEW x \in DOMAIN t.windows \ L PROVE WindowFits(t, x)
  <2>1. WindowFits(s, x) /\ t.columns = s.columns /\ t.windows = s.windows
    BY DEF Placed, SameLists
  <2>2. ASSUME t.windows[x].managed PROVE t.windows[x].ws \in DOMAIN t.workspaces
    <3> DEFINE w == s.windows[x].ws
               c == s.windows[x].col
    <3>1. w \in DOMAIN s.workspaces /\ (c = None => x \in ToSet(s.workspaces[w].flt))
      BY <2>1, <2>2 DEF WindowFits
    <3>2. c # None => c \in ToSet(s.workspaces[w].cols)
      BY <2>1 DEF WindowFits, Placed, ColumnFits
    <3> HIDE DEF w, c
    <3>3. Cols(t, w) = Cols(s, w) /\ Flt(t, w) = Flt(s, w)
      BY DEF SameLists
    <3>4. w \in DOMAIN t.workspaces
      BY <1>0, <3>1, <3>2, <3>3 DEF Cols, Flt
    <3>5. QED
      BY <2>1, <3>4 DEF w
  <2>3. ASSUME t.windows[x].managed, t.windows[x].col = None
        PROVE  x \in ToSet(t.workspaces[t.windows[x].ws].flt)
    <3> DEFINE w == s.windows[x].ws
    <3>1. w \in DOMAIN s.workspaces /\ x \in ToSet(s.workspaces[w].flt)
      BY <2>1, <2>3 DEF WindowFits
    <3>2. w \in DOMAIN t.workspaces
      BY <2>1, <2>2, <2>3
    <3> HIDE DEF w
    <3>3. Flt(t, w) = Flt(s, w)
      BY DEF SameLists
    <3>4. QED
      BY <2>1, <3>1, <3>2, <3>3 DEF Flt, w
  <2>4. QED
    BY <2>1, <2>2, <2>3 DEF WindowFits
<1>4. QED
  BY <1>1, <1>2, <1>3 DEF Placed

\* The lists stay the same along a chain of such operators.
LEMMA SameListsTransitive ==
  ASSUME NEW s, NEW t, NEW u, SameLists(s, t), SameLists(t, u)
  PROVE  SameLists(s, u)
BY DEF SameLists

\* States whose workspaces are the same but for fields that are no lists.
LEMMA SameWorkspacesLists ==
  ASSUME NEW s, NEW t, t.columns = s.columns, t.windows = s.windows,
         DOMAIN t.workspaces = DOMAIN s.workspaces,
         \A w \in DOMAIN s.workspaces : /\ t.workspaces[w].cols = s.workspaces[w].cols
                                        /\ t.workspaces[w].flt = s.workspaces[w].flt
  PROVE  SameLists(s, t)
BY DEF SameLists, Cols, Flt

\* An operator that moves nothing keeps the invariant if it keeps the types.
LEMMA SameListsArranged ==
  ASSUME NEW s, NEW t, NEW L, Arranged(s, L), SameLists(s, t), Shape(t), StateType(t)
  PROVE  Arranged(t, L)
BY SameListsPlaced DEF Arranged, SameLists

\* The focus moves.
LEMMA SetFocusArranged ==
  ASSUME NEW s, NEW L, Arranged(s, L),
         NEW m \in Option(Monitors), NEW x \in Option(Nat), NEW c \in Option(Nat)
  PROVE  LET t == SetFocus(s, m, x, c)
         IN  /\ Arranged(t, L) /\ SameLists(s, t)
             /\ t.focus.mon = m /\ t.focus.win = x /\ t.focus.col = c
             /\ t.sets = s.sets /\ t.workspaces = s.workspaces
<1> DEFINE t == SetFocus(s, m, x, c)
<1>1. /\ Shape(t) /\ t.columns = s.columns /\ t.windows = s.windows
      /\ t.workspaces = s.workspaces /\ t.sets = s.sets
      /\ t.overview = s.overview /\ t.session = s.session
      /\ t.focus.mon = m /\ t.focus.win = x /\ t.focus.col = c
      /\ t.focus.activeBy = s.focus.activeBy
  BY DEF Arranged, Shape, SetFocus
<1> HIDE DEF t
<1>2. SameLists(s, t)
  BY <1>1, SameWorkspacesLists
<1>3. StateType(t)
  BY <1>1 DEF Arranged, StateType
<1>4. QED
  BY <1>1, <1>2, <1>3, SameListsArranged DEF t

\* A monitor shows a workspace: both copies are written.
LEMMA PutActiveArranged ==
  ASSUME NEW s, NEW L, Arranged(s, L), NEW m \in DOMAIN s.sets, NEW w \in Nat
  PROVE  LET t == PutActive(s, m, w)
         IN  /\ Arranged(t, L) /\ SameLists(s, t)
             /\ t.focus.mon = s.focus.mon /\ t.focus.win = s.focus.win /\ t.focus.col = s.focus.col
             /\ t.workspaces = s.workspaces
             /\ t.overview = s.overview /\ t.session = s.session
             /\ DOMAIN t.sets = DOMAIN s.sets
             /\ t.sets[m].active = w
             /\ \A k \in DOMAIN s.sets \ {m} : t.sets[k] = s.sets[k]
<1> DEFINE t == PutActive(s, m, w)
           r == [order |-> s.sets[m].order, active |-> w]
<1>1. /\ Shape(t) /\ t.columns = s.columns /\ t.windows = s.windows
      /\ t.workspaces = s.workspaces /\ t.sets = Put(s.sets, m, r)
      /\ t.overview = s.overview /\ t.session = s.session
      /\ t.focus.mon = s.focus.mon /\ t.focus.win = s.focus.win /\ t.focus.col = s.focus.col
      /\ t.focus.activeBy = Put(s.focus.activeBy, m, w)
  BY DEF Arranged, Shape, PutActive
<1>2. m \in Monitors /\ r \in WorkspaceSet
  BY TypeLookups DEF Arranged, WorkspaceSet
<1>3. /\ DOMAIN t.sets = DOMAIN s.sets /\ t.sets[m] = r
      /\ \A k \in DOMAIN s.sets \ {m} : t.sets[k] = s.sets[k]
  BY <1>1 DEF Put
<1> HIDE DEF t, r
<1>4. SameLists(s, t)
  BY <1>1, SameWorkspacesLists
<1>5. StateType(t)
  BY <1>1, <1>2, MapsKeepTypes DEF Arranged, StateType
<1>6. QED
  BY <1>1, <1>3, <1>4, <1>5, SameListsArranged DEF t, r

\* Workspaces change, but neither their strips nor their floating lists.
LEMMA WorkspaceFieldsArranged ==
  ASSUME NEW s, NEW L, Arranged(s, L), NEW t, Shape(t), t.columns = s.columns,
         t.windows = s.windows, t.overview = s.overview, t.session = s.session,
         IsMap(t.sets, Monitors, WorkspaceSet), t.focus = s.focus,
         t.workspaces = [v \in DOMAIN s.workspaces |-> t.workspaces[v]],
         \A v \in DOMAIN s.workspaces :
           /\ t.workspaces[v] \in Workspace
           /\ t.workspaces[v].cols = s.workspaces[v].cols
           /\ t.workspaces[v].flt = s.workspaces[v].flt
  PROVE  Arranged(t, L) /\ SameLists(s, t)
<1>1. /\ DOMAIN t.workspaces = DOMAIN s.workspaces
      /\ \A v \in DOMAIN s.workspaces : /\ t.workspaces[v] \in Workspace
                                        /\ t.workspaces[v].cols = s.workspaces[v].cols
                                        /\ t.workspaces[v].flt = s.workspaces[v].flt
  OBVIOUS
<1>2. SameLists(s, t)
  <2> HIDE DEF SameLists
  <2>1. QED
    BY <1>1, SameWorkspacesLists
<1>3. IsMap(t.workspaces, Nat, Workspace)
  BY TypeLookups DEF IsMap, Arranged
<1>4. StateType(t)
  BY <1>3 DEF Arranged, StateType
<1>5. QED
  BY <1>2, <1>4, SameListsArranged

\* A workspace remembers its focus.
LEMMA RememberArranged ==
  ASSUME NEW s, NEW L, Arranged(s, L), NEW w, NEW x \in Option(Nat), NEW c \in Option(Nat)
  PROVE  LET t == Remember(s, w, x, c)
         IN  /\ Arranged(t, L) /\ SameLists(s, t)
             /\ t.sets = s.sets /\ t.focus = s.focus
             /\ t.overview = s.overview /\ t.session = s.session
             /\ DOMAIN t.workspaces = DOMAIN s.workspaces
             /\ \A v \in DOMAIN s.workspaces : t.workspaces[v].mon = s.workspaces[v].mon
<1> DEFINE t == Remember(s, w, x, c)
           f == [v \in DOMAIN s.workspaces |->
                   IF v = w THEN [s.workspaces[v] EXCEPT !.remWin = x, !.remCol = c]
                   ELSE s.workspaces[v]]
<1>1. /\ Shape(t) /\ t.columns = s.columns /\ t.windows = s.windows
      /\ t.sets = s.sets /\ t.focus = s.focus
      /\ t.overview = s.overview /\ t.session = s.session
      /\ t.workspaces = f
  BY DEF Arranged, Shape, Remember
<1>2. ASSUME NEW v \in DOMAIN s.workspaces
      PROVE  /\ f[v] \in Workspace
             /\ f[v].cols = s.workspaces[v].cols
             /\ f[v].flt = s.workspaces[v].flt
             /\ f[v].mon = s.workspaces[v].mon
  <2>1. s.workspaces[v] \in Workspace
    BY TypeLookups DEF Arranged
  <2>2. QED
    BY <2>1 DEF Workspace
<1>3. f = [v \in DOMAIN s.workspaces |-> f[v]] /\ DOMAIN f = DOMAIN s.workspaces
  OBVIOUS
<1>4. IsMap(s.sets, Monitors, WorkspaceSet)
  BY DEF Arranged, StateType
<1> HIDE DEF t, f
<1>5. Arranged(t, L) /\ SameLists(s, t)
  BY <1>1, <1>2, <1>3, <1>4, WorkspaceFieldsArranged
<1>6. QED
  BY <1>1, <1>2, <1>3, <1>5 DEF t

\* A column selects one of its windows.
LEMMA SelectArranged ==
  ASSUME NEW s, NEW L, Arranged(s, L), NEW c, NEW x \in Nat,
         c \in DOMAIN s.columns => x \in ToSet(s.columns[c].wins)
  PROVE  LET t == SelectInColumn(s, c, x)
         IN  /\ Arranged(t, L)
             /\ t.windows = s.windows /\ t.workspaces = s.workspaces
             /\ t.sets = s.sets /\ t.focus = s.focus
             /\ t.overview = s.overview /\ t.session = s.session
             /\ DOMAIN t.columns = DOMAIN s.columns
             /\ \A k \in DOMAIN s.columns : t.columns[k].wins = s.columns[k].wins
<1> DEFINE t == SelectInColumn(s, c, x)
           f == [k \in DOMAIN s.columns |->
                   IF k = c THEN [s.columns[k] EXCEPT
                                    !.active = x,
                                    !.tab = IF s.columns[k].mode = "Tabbed" THEN x ELSE s.columns[k].tab]
                   ELSE s.columns[k]]
<1>1. /\ Shape(t) /\ t.columns = f /\ t.windows = s.windows
      /\ t.workspaces = s.workspaces
      /\ t.sets = s.sets /\ t.focus = s.focus
      /\ t.overview = s.overview /\ t.session = s.session
  BY DEF Arranged, Shape, SelectInColumn
<1>2. ASSUME NEW k \in DOMAIN s.columns
      PROVE  /\ f[k] \in Column
             /\ f[k].wins = s.columns[k].wins
             /\ {f[k].active, f[k].tab} \subseteq {x, s.columns[k].active, s.columns[k].tab}
             /\ k # c => f[k] = s.columns[k]
  <2>1. s.columns[k] \in Column
    BY TypeLookups DEF Arranged
  <2>2. QED
    BY <2>1 DEF Column
<1>3. DOMAIN f = DOMAIN s.columns
  OBVIOUS
<1>4. IsMap(f, Nat, Column)
  BY <1>2, TypeLookups DEF IsMap, Arranged
<1> HIDE DEF t, f
<1>5. StateType(t)
  BY <1>1, <1>4 DEF Arranged, StateType
<1>6. Placed(t, L)
  <2>0. Placed(s, L)
    BY DEF Arranged
  <2>1. ASSUME NEW k \in DOMAIN t.columns PROVE ColumnFits(t, k, L)
    <3>1. ColumnFits(s, k, L) /\ k \in DOMAIN s.columns /\ t.columns[k] = f[k]
      BY <1>1, <1>3, <2>0, <2>1 DEF Placed
    <3>2. {f[k].active, f[k].tab} \subseteq ToSet(f[k].wins)
      BY <1>2, <3>1 DEF ColumnFits
    <3>3. QED
      BY <1>1, <1>2, <3>1, <3>2 DEF ColumnFits
  <2>2. ASSUME NEW w \in DOMAIN t.workspaces PROVE WorkspaceFits(t, w, L)
    BY <1>1, <1>2, <1>3, <2>0, <2>2 DEF Placed, WorkspaceFits
  <2>3. ASSUME NEW y \in DOMAIN t.windows \ L PROVE WindowFits(t, y)
    BY <1>1, <1>2, <1>3, <2>0, <2>3 DEF Placed, WindowFits
  <2>4. QED
    BY <2>1, <2>2, <2>3 DEF Placed
<1>7. QED
  BY <1>1, <1>2, <1>3, <1>5, <1>6 DEF Arranged, t

---------------------------------------------------------------------------
(* Focus. *)

\* FocusCoherent, of a state: the focused window exists, its column and its monitor
\* are the focused ones, and its workspace is the one its monitor shows.
FocusFits(s) ==
  /\ s.focus.win = None => s.focus.col = None
  /\ s.focus.win # None =>
       LET x == s.focus.win
       IN  /\ x \in DOMAIN s.windows
           /\ s.windows[x].col = s.focus.col
           /\ s.windows[x].ws \in DOMAIN s.workspaces
           /\ s.workspaces[s.windows[x].ws].mon = s.focus.mon
           /\ s.sets[s.focus.mon].active = s.windows[x].ws

\* What focusing a window leaves alone.
FocusOnly(s, t) ==
  /\ t.windows = s.windows
  /\ t.overview = s.overview /\ t.session = s.session
  /\ DOMAIN t.columns = DOMAIN s.columns
  /\ \A k \in DOMAIN s.columns : t.columns[k].wins = s.columns[k].wins
  /\ DOMAIN t.workspaces = DOMAIN s.workspaces
  /\ \A v \in DOMAIN s.workspaces : /\ t.workspaces[v].mon = s.workspaces[v].mon
                                    /\ t.workspaces[v].cols = s.workspaces[v].cols
                                    /\ t.workspaces[v].flt = s.workspaces[v].flt
  /\ DOMAIN t.sets = DOMAIN s.sets

\* A workspace that exists in both states has the same lists in both.
LEMMA SameListsLookups ==
  ASSUME NEW s, NEW t, SameLists(s, t),
         NEW w, w \in DOMAIN s.workspaces, w \in DOMAIN t.workspaces
  PROVE  t.workspaces[w].cols = s.workspaces[w].cols /\ t.workspaces[w].flt = s.workspaces[w].flt
BY DEF SameLists, Cols, Flt

\* A window is focused: its column selects it, its workspace remembers it and is
\* shown.
LEMMA FocusWindowArranged ==
  ASSUME NEW s, NEW L, Arranged(s, L), NEW m \in DOMAIN s.sets, NEW w \in DOMAIN s.workspaces,
         NEW x \in DOMAIN s.windows \ L, NEW c, c = s.windows[x].col
  PROVE  LET t == FocusWindow(s, m, w, x, c)
         IN  /\ Arranged(t, L) /\ FocusOnly(s, t)
             /\ t.focus.mon = m /\ t.focus.win = x /\ t.focus.col = c
             /\ t.sets[m].active = w
             /\ \A k \in DOMAIN s.sets \ {m} : t.sets[k] = s.sets[k]
<1> DEFINE r == Remember(s, w, x, c)
           k == SelectInColumn(r, c, x)
           a == PutActive(k, m, w)
           t == SetFocus(a, m, x, c)
<1>1. /\ x \in Nat /\ s.windows[x] \in Window /\ m \in Monitors /\ w \in Nat
  BY TypeLookups DEF Arranged
<1>2. c \in Option(Nat) /\ x \in Option(Nat) /\ m \in Option(Monitors)
  BY <1>1 DEF Window, Option
<1>3. c \in DOMAIN s.columns => x \in ToSet(s.columns[c].wins)
  <2>1. SUFFICES ASSUME c \in DOMAIN s.columns PROVE x \in ToSet(s.columns[c].wins)
    OBVIOUS
  <2>2. c \in Nat /\ WindowFits(s, x)
    BY <2>1, TypeLookups DEF Arranged, Placed
  <2>3. QED
    BY <2>2, NoneIsNoId DEF WindowFits
<1>4. /\ Arranged(r, L) /\ SameLists(s, r)
      /\ r.sets = s.sets /\ r.focus = s.focus
      /\ r.overview = s.overview /\ r.session = s.session
      /\ DOMAIN r.workspaces = DOMAIN s.workspaces
      /\ \A v \in DOMAIN s.workspaces : r.workspaces[v].mon = s.workspaces[v].mon
  BY <1>2, RememberArranged
<1> HIDE DEF r
<1>5. \A v \in DOMAIN s.workspaces : /\ r.workspaces[v].cols = s.workspaces[v].cols
                                     /\ r.workspaces[v].flt = s.workspaces[v].flt
  BY <1>4, SameListsLookups
<1>6. r.columns = s.columns /\ r.windows = s.windows
  BY <1>4 DEF SameLists
<1>7. /\ Arranged(k, L)
      /\ k.windows = r.windows /\ k.workspaces = r.workspaces
      /\ k.sets = r.sets /\ k.focus = r.focus
      /\ k.overview = r.overview /\ k.session = r.session
      /\ DOMAIN k.columns = DOMAIN r.columns
      /\ \A d \in DOMAIN r.columns : k.columns[d].wins = r.columns[d].wins
  BY <1>1, <1>3, <1>4, <1>6, SelectArranged
<1> HIDE DEF k
<1>8. m \in DOMAIN k.sets
  BY <1>4, <1>7
<1>9. /\ Arranged(a, L) /\ SameLists(k, a)
      /\ a.workspaces = k.workspaces
      /\ a.overview = k.overview /\ a.session = k.session
      /\ DOMAIN a.sets = DOMAIN k.sets
      /\ a.sets[m].active = w
      /\ \A n \in DOMAIN k.sets \ {m} : a.sets[n] = k.sets[n]
  BY <1>1, <1>7, <1>8, PutActiveArranged
<1> HIDE DEF a
<1>10. /\ Arranged(t, L) /\ SameLists(a, t)
       /\ t.focus.mon = m /\ t.focus.win = x /\ t.focus.col = c
       /\ t.sets = a.sets /\ t.workspaces = a.workspaces
  BY <1>2, <1>9, SetFocusArranged
<1>11. t.overview = a.overview /\ t.session = a.session
  BY <1>9 DEF SetFocus, Arranged, Shape
<1> HIDE DEF t
<1>12. FocusOnly(s, t)
  <2>1. t.columns = k.columns /\ t.windows = k.windows
    BY <1>9, <1>10 DEF SameLists
  <2>2. t.workspaces = r.workspaces
    BY <1>7, <1>9, <1>10
  <2>3. DOMAIN t.sets = DOMAIN s.sets
    BY <1>4, <1>7, <1>9, <1>10
  <2>4. t.overview = s.overview /\ t.session = s.session
    BY <1>4, <1>7, <1>9, <1>11
  <2>5. QED
    BY <1>4, <1>5, <1>6, <1>7, <2>1, <2>2, <2>3, <2>4 DEF FocusOnly
<1>13. t.sets[m].active = w /\ \A n \in DOMAIN s.sets \ {m} : t.sets[n] = s.sets[n]
  BY <1>4, <1>7, <1>9, <1>10
<1>14. QED
  BY <1>10, <1>12, <1>13 DEF FocusWindow, t, a, k, r

\* Window x of workspace w, at column c, has the focus, on monitor m.
TakesFocus(s, t, m, w, x, c) ==
  /\ FocusOnly(s, t)
  /\ t.focus.mon = m /\ t.focus.win = x /\ t.focus.col = c
  /\ t.sets[m].active = w

\* A focused window has the focus.
LEMMA FocusWindowTakes ==
  ASSUME NEW s, NEW L, Arranged(s, L), NEW m \in DOMAIN s.sets, NEW w \in DOMAIN s.workspaces,
         NEW x \in DOMAIN s.windows \ L, NEW c, c = s.windows[x].col
  PROVE  TakesFocus(s, FocusWindow(s, m, w, x, c), m, w, x, c)
BY FocusWindowArranged DEF TakesFocus

\* A window focused on its own workspace leaves a coherent focus.
LEMMA FocusWindowFits ==
  ASSUME NEW s, NEW L, Arranged(s, L), NEW x \in DOMAIN s.windows \ L, NEW w \in DOMAIN s.workspaces,
         w = s.windows[x].ws, NEW m \in DOMAIN s.sets, m = s.workspaces[w].mon,
         NEW c, c = s.windows[x].col
  PROVE  FocusFits(FocusWindow(s, m, w, x, c))
<1>0. TakesFocus(s, FocusWindow(s, m, w, x, c), m, w, x, c)
  BY FocusWindowTakes
<1> DEFINE t == FocusWindow(s, m, w, x, c)
<1>1. /\ FocusOnly(s, t)
      /\ t.focus.mon = m /\ t.focus.win = x /\ t.focus.col = c
      /\ t.sets[m].active = w
  BY <1>0 DEF TakesFocus
<1>2. x # None
  BY TypeLookups, NoneIsNoId DEF Arranged
<1> HIDE DEF t
<1>3. t.windows = s.windows /\ t.workspaces[w].mon = m /\ w \in DOMAIN t.workspaces
  BY <1>1 DEF FocusOnly
<1>4. FocusFits(t)
  BY <1>1, <1>2, <1>3 DEF FocusFits
<1>5. QED
  BY <1>4 DEF t

\* A monitor shows a workspace without a window to focus.
LEMMA FocusNoWindowArranged ==
  ASSUME NEW s, NEW L, Arranged(s, L), NEW m \in DOMAIN s.sets, NEW w \in DOMAIN s.workspaces
  PROVE  LET t == FocusNoWindow(s, m, w)
         IN  /\ Arranged(t, L) /\ FocusOnly(s, t) /\ FocusFits(t)
             /\ t.sets[m].active = w
             /\ \A k \in DOMAIN s.sets \ {m} : t.sets[k] = s.sets[k]
<1> DEFINE a == PutActive(s, m, w)
           t == SetFocus(a, m, None, None)
<1>1. w \in Nat /\ m \in Option(Monitors) /\ None \in Option(Nat)
  BY TypeLookups DEF Arranged, Option
<1>2. /\ Arranged(a, L) /\ SameLists(s, a)
      /\ a.workspaces = s.workspaces
      /\ a.overview = s.overview /\ a.session = s.session
      /\ DOMAIN a.sets = DOMAIN s.sets
      /\ a.sets[m].active = w
      /\ \A k \in DOMAIN s.sets \ {m} : a.sets[k] = s.sets[k]
  BY <1>1, PutActiveArranged
<1> HIDE DEF a
<1>3. /\ Arranged(t, L) /\ SameLists(a, t)
      /\ t.focus.win = None /\ t.focus.col = None
      /\ t.sets = a.sets /\ t.workspaces = a.workspaces
  BY <1>1, <1>2, SetFocusArranged
<1>4. t.overview = a.overview /\ t.session = a.session
  BY <1>2 DEF SetFocus, Arranged, Shape
<1> HIDE DEF t
<1>5. FocusOnly(s, t) /\ FocusFits(t)
  BY <1>2, <1>3, <1>4 DEF FocusOnly, FocusFits, SameLists
<1>6. QED
  BY <1>2, <1>3, <1>5 DEF FocusNoWindow, t, a

\* The window a column shows is one of its windows.
LEMMA ShownWindow ==
  ASSUME NEW s, NEW L, Arranged(s, L), NEW c \in DOMAIN s.columns
  PROVE  LET x == ColumnActiveWindow(s.columns[c])
         IN  /\ x \in ToSet(s.columns[c].wins)
             /\ x \in DOMAIN s.windows \ L
             /\ s.windows[x].col = c
             /\ s.windows[x].ws \in DOMAIN s.workspaces
             /\ c \in ToSet(s.workspaces[s.windows[x].ws].cols)
<1>1. ColumnFits(s, c, L)
  BY DEF Arranged, Placed
<1>2. ColumnActiveWindow(s.columns[c]) \in ToSet(s.columns[c].wins)
  BY <1>1 DEF ColumnFits, ColumnActiveWindow
<1>3. QED
  BY <1>1, <1>2 DEF ColumnFits

\* A column of the strip of a workspace, and the window it shows.
LEMMA ShownInStrip ==
  ASSUME NEW s, NEW L, Arranged(s, L), NEW w \in DOMAIN s.workspaces,
         NEW c \in ToSet(s.workspaces[w].cols)
  PROVE  /\ c \in DOMAIN s.columns
         /\ ColumnActiveWindow(s.columns[c]) \in DOMAIN s.windows \ L
         /\ s.windows[ColumnActiveWindow(s.columns[c])].col = c
         /\ s.windows[ColumnActiveWindow(s.columns[c])].ws = w
<1>1. WorkspaceFits(s, w, L)
  BY DEF Arranged, Placed
<1>2. c \in DOMAIN s.columns /\ \A x \in ToSet(s.columns[c].wins) : s.windows[x].ws = w
  BY <1>1 DEF WorkspaceFits
<1>3. QED
  BY <1>2, ShownWindow

\* An entry of the floating list of a workspace.
LEMMA FloatingInList ==
  ASSUME NEW s, NEW L, Arranged(s, L), NEW w \in DOMAIN s.workspaces,
         NEW x \in ToSet(s.workspaces[w].flt)
  PROVE  x \in DOMAIN s.windows \ L /\ s.windows[x].col = None /\ s.windows[x].ws = w
BY DEF Arranged, Placed, WorkspaceFits

\* Lists are sequences of identifiers.
LEMMA ListTypes ==
  ASSUME NEW s, StateType(s), NEW w \in DOMAIN s.workspaces
  PROVE  /\ s.workspaces[w].cols \in Seq(Nat) /\ s.workspaces[w].flt \in Seq(Nat)
         /\ s.workspaces[w].cols # <<>> =>
              s.workspaces[w].cols[1] \in ToSet(s.workspaces[w].cols)
         /\ s.workspaces[w].flt # <<>> =>
              s.workspaces[w].flt[1] \in ToSet(s.workspaces[w].flt)
<1>1. s.workspaces[w].cols \in Seq(Nat) /\ s.workspaces[w].flt \in Seq(Nat)
  BY TypeLookups DEF Workspace
<1>2. \A q \in Seq(Nat) : q # <<>> => q[1] \in ToSet(q)
  BY DEF ToSet
<1>3. QED
  BY <1>1, <1>2

\* What a workspace wants focused is one of its windows, with its column.
LEMMA TargetFits ==
  ASSUME NEW s, Arranged(s, {}), NEW w \in DOMAIN s.workspaces
  PROVE  LET target == WorkspaceFocusTarget(s, w)
         IN  target.win # None => /\ target.win \in DOMAIN s.windows
                                  /\ s.windows[target.win].ws = w
                                  /\ target.col = s.windows[target.win].col
<1> DEFINE r == s.workspaces[w]
           target == WorkspaceFocusTarget(s, w)
<1>1. CASE r.remWin \in DOMAIN s.windows /\ s.windows[r.remWin].ws = w
  <2>1. target.win = r.remWin
        /\ target.col = IF s.windows[r.remWin].col \in ToSet(r.cols)
                        THEN s.windows[r.remWin].col ELSE None
    BY <1>1 DEF WorkspaceFocusTarget
  <2>2. WindowFits(s, r.remWin)
    BY <1>1 DEF Arranged, Placed
  <2>3. s.windows[r.remWin].col # None => s.windows[r.remWin].col \in ToSet(r.cols)
    <3>1. HAVE s.windows[r.remWin].col # None
    <3>2. /\ s.windows[r.remWin].col \in DOMAIN s.columns
          /\ r.remWin \in ToSet(s.columns[s.windows[r.remWin].col].wins)
      BY <2>2, <3>1 DEF WindowFits
    <3>3. ColumnFits(s, s.windows[r.remWin].col, {})
      BY <3>2 DEF Arranged, Placed
    <3>4. s.windows[r.remWin].col \in ToSet(s.workspaces[s.windows[r.remWin].ws].cols)
      BY <3>2, <3>3 DEF ColumnFits
    <3>5. QED
      BY <1>1, <3>4
  <2>4. QED
    BY <1>1, <2>1, <2>3
<1>2. CASE ~(r.remWin \in DOMAIN s.windows /\ s.windows[r.remWin].ws = w) /\ r.cols # <<>>
  <2> DEFINE c == IF r.remCol \in ToSet(r.cols) THEN r.remCol ELSE r.cols[1]
  <2>1. c \in ToSet(r.cols)
    BY <1>2, ListTypes DEF Arranged
  <2>2. target.win = ColumnActiveWindow(s.columns[c]) /\ target.col = c
    BY <1>2 DEF WorkspaceFocusTarget
  <2> HIDE DEF c, target
  <2>3. QED
    BY <2>1, <2>2, ShownInStrip DEF target
<1>3. CASE ~(r.remWin \in DOMAIN s.windows /\ s.windows[r.remWin].ws = w) /\ r.cols = <<>>
  <2>1. target.win = (IF r.flt # <<>> THEN r.flt[1] ELSE None) /\ target.col = None
    BY <1>3 DEF WorkspaceFocusTarget
  <2>2. r.flt # <<>> => r.flt[1] \in ToSet(r.flt)
    BY ListTypes DEF Arranged
  <2>3. QED
    BY <2>1, <2>2, FloatingInList
<1>4. QED
  BY <1>1, <1>2, <1>3

\* What the overview shows is no list.
LEMMA OverviewArranged ==
  ASSUME NEW s, NEW L, Arranged(s, L), NEW o \in OverviewState, NEW t, t = [s EXCEPT !.overview = o]
  PROVE  /\ Arranged(t, L) /\ SameLists(s, t)
         /\ t.sets = s.sets /\ t.focus = s.focus /\ t.workspaces = s.workspaces
         /\ t.session = s.session /\ t.overview = o
<1>1. /\ Shape(t) /\ t.columns = s.columns /\ t.windows = s.windows
      /\ t.workspaces = s.workspaces /\ t.sets = s.sets /\ t.focus = s.focus
      /\ t.session = s.session /\ t.overview = o
  BY DEF Arranged, Shape
<1>2. SameLists(s, t)
  BY <1>1, SameWorkspacesLists
<1>3. StateType(t)
  BY <1>1 DEF Arranged, StateType
<1>4. QED
  BY <1>1, <1>2, <1>3, SameListsArranged

\* The workspace a monitor shows has an identifier.
LEMMA ActiveType ==
  ASSUME NEW s, StateType(s), NEW m \in DOMAIN s.sets
  PROVE  ActiveWorkspace(s, m) \in Nat
BY TypeLookups DEF ActiveWorkspace, WorkspaceSet

\* The mark of the overview follows.
LEMMA SyncOverviewArranged ==
  ASSUME NEW s, NEW L, Arranged(s, L), NEW m \in DOMAIN s.sets
  PROVE  LET t == SyncOverview(s, m)
         IN  /\ Arranged(t, L) /\ SameLists(s, t)
             /\ t.sets = s.sets /\ t.focus = s.focus /\ t.workspaces = s.workspaces
             /\ t.session = s.session
<1> DEFINE o == [s.overview EXCEPT !.sel = ActiveWorkspace(s, m)]
<1>1. s.overview \in OverviewState /\ ActiveWorkspace(s, m) \in Option(Nat)
  BY ActiveType DEF Arranged, StateType, Option
<1>2. o \in OverviewState
  BY <1>1 DEF OverviewState
<1>3. SyncOverview(s, m) = s \/ SyncOverview(s, m) = [s EXCEPT !.overview = o]
  BY DEF SyncOverview
<1> HIDE DEF o
<1>4. CASE SyncOverview(s, m) = s
  BY <1>4 DEF SameLists
<1>5. CASE SyncOverview(s, m) = [s EXCEPT !.overview = o]
  BY <1>2, <1>5, OverviewArranged
<1>6. QED
  BY <1>3, <1>4, <1>5

\* The focus looks at the maps the mark is not in.
LEMMA FocusElsewhereFits ==
  ASSUME NEW s, NEW t, FocusFits(s), t.windows = s.windows, t.focus = s.focus,
         t.sets = s.sets, t.workspaces = s.workspaces
  PROVE  FocusFits(t)
BY DEF FocusFits

\* A workspace is activated: whatever the focus was, it is coherent now.
LEMMA ActivateArranged ==
  ASSUME NEW s, Arranged(s, {}), NEW m \in DOMAIN s.sets, NEW w \in DOMAIN s.workspaces,
         s.workspaces[w].mon = m
  PROVE  LET t == ActivateWorkspace(s, m, w)
         IN  /\ Arranged(t, {}) /\ FocusFits(t)
             /\ t.windows = s.windows /\ t.session = s.session
             /\ DOMAIN t.columns = DOMAIN s.columns
             /\ \A c \in DOMAIN s.columns : t.columns[c].wins = s.columns[c].wins
             /\ DOMAIN t.workspaces = DOMAIN s.workspaces
             /\ DOMAIN t.sets = DOMAIN s.sets
             /\ t.sets[m].active = w
             /\ \A k \in DOMAIN s.sets \ {m} : t.sets[k] = s.sets[k]
<1> DEFINE target == WorkspaceFocusTarget(s, w)
           f == IF target.win # None THEN FocusWindow(s, m, w, target.win, target.col)
                ELSE FocusNoWindow(s, m, w)
           t == SyncOverview(f, m)
<1>1. target.win # None => /\ target.win \in DOMAIN s.windows
                           /\ s.windows[target.win].ws = w
                           /\ target.col = s.windows[target.win].col
  BY TargetFits
<1> HIDE DEF target
<1>2. /\ Arranged(f, {}) /\ FocusFits(f) /\ FocusOnly(s, f)
      /\ f.sets[m].active = w
      /\ \A k \in DOMAIN s.sets \ {m} : f.sets[k] = s.sets[k]
  <2>1. CASE target.win # None
    <3>1. target.win \in DOMAIN s.windows \ {}
      BY <1>1, <2>1
    <3>2. QED
      BY <1>1, <2>1, <3>1, FocusWindowArranged, FocusWindowFits
  <2>2. CASE target.win = None
    BY <2>2, FocusNoWindowArranged
  <2>3. QED
    BY <2>1, <2>2
<1> HIDE DEF f
<1>3. m \in DOMAIN f.sets
  BY <1>2 DEF FocusOnly
<1>4. /\ Arranged(t, {}) /\ SameLists(f, t)
      /\ t.sets = f.sets /\ t.focus = f.focus /\ t.workspaces = f.workspaces
      /\ t.session = f.session
  BY <1>2, <1>3, SyncOverviewArranged
<1> HIDE DEF t
<1>5. t.windows = f.windows /\ t.columns = f.columns
  BY <1>4 DEF SameLists
<1>6. FocusFits(t)
  BY <1>2, <1>4, <1>5, FocusElsewhereFits
<1>7. ActivateWorkspace(s, m, w) = t
  BY DEF ActivateWorkspace, t, f, target
<1>8. QED
  BY <1>2, <1>4, <1>5, <1>6, <1>7 DEF FocusOnly

---------------------------------------------------------------------------
(* Normalisation. *)

\* What normalising leaves alone: all lists, the focus but for the active
\* workspaces, the overview and the drag.
Tidied(s, t) ==
  /\ SameLists(s, t)
  /\ t.focus.mon = s.focus.mon /\ t.focus.win = s.focus.win /\ t.focus.col = s.focus.col
  /\ t.overview = s.overview /\ t.session = s.session

\* Tidying up twice is tidying up.
LEMMA TidiedTransitive ==
  ASSUME NEW s, NEW t, NEW u, Tidied(s, t), Tidied(t, u)
  PROVE  Tidied(s, u)
BY SameListsTransitive DEF Tidied

\* Doing nothing is tidying up.
LEMMA TidiedReflexive ==
  ASSUME NEW s
  PROVE  Tidied(s, s)
BY DEF Tidied, SameLists

\* A workspace that counts as empty has no columns and no floating windows.
LEMMA EmptyHoldsNothing ==
  ASSUME NEW s, NEW L, Arranged(s, L), NEW w \in DOMAIN s.workspaces, IsWorkspaceEmpty(s, w)
  PROVE  Cols(s, w) = <<>> /\ Flt(s, w) = <<>>
<1>1. s.workspaces[w].flt = <<>>
  BY DEF IsWorkspaceEmpty
<1>2. SUFFICES ASSUME s.workspaces[w].cols # <<>> PROVE FALSE
  BY <1>1 DEF Cols, Flt
<1> DEFINE c == s.workspaces[w].cols[1]
<1>3. 1 \in DOMAIN s.workspaces[w].cols /\ c \in ToSet(s.workspaces[w].cols)
  <2>1. \A q \in Seq(Nat) : q # <<>> => 1 \in DOMAIN q
    OBVIOUS
  <2>2. QED
    BY <1>2, <2>1, ListTypes DEF Arranged
<1>4. c \in DOMAIN s.columns
  BY <1>3, ShownInStrip
<1>5. s.columns[c].wins # <<>>
  BY <1>4 DEF Arranged, Placed, ColumnFits
<1>6. QED
  BY <1>3, <1>4, <1>5 DEF IsWorkspaceEmpty

\* Empty workspaces of a monitor are removed.
LEMMA RemoveFromSetArranged ==
  ASSUME NEW s, NEW L, Arranged(s, L), NEW m \in DOMAIN s.sets, Homes(s),
         NEW gone \in SUBSET ToSet(s.sets[m].order), \A w \in gone : IsWorkspaceEmpty(s, w)
  PROVE  LET t == RemoveFromSet(s, m, gone)
         IN  Arranged(t, L) /\ Tidied(s, t)
<1> DEFINE t == RemoveFromSet(s, m, gone)
           r == [order |-> Without(s.sets[m].order, gone), active |-> s.sets[m].active]
<1>1. /\ t.columns = s.columns /\ t.windows = s.windows /\ t.focus = s.focus
      /\ t.overview = s.overview /\ t.session = s.session
      /\ t.workspaces = Drop(s.workspaces, gone)
      /\ t.sets = Put(s.sets, m, r)
  BY DEF Arranged, Shape, RemoveFromSet, PutOrder
<1>2. Shape(t)
  BY RemoveFromSetNearby DEF Nearby, Arranged
<1>3. m \in Monitors /\ s.sets[m].order \in Seq(Nat) /\ s.sets[m].active \in Nat
  BY TypeLookups DEF Arranged, WorkspaceSet
<1>4. r \in WorkspaceSet
  BY <1>3, WithoutKeeps DEF WorkspaceSet
<1>5. \A w \in gone : w \in DOMAIN s.workspaces /\ Cols(s, w) = <<>> /\ Flt(s, w) = <<>>
  BY HousedExists, EmptyHoldsNothing
<1> HIDE DEF t, r
<1>6. SameLists(s, t)
  BY <1>1, <1>5 DEF SameLists, Cols, Flt, Drop
<1>7. StateType(t)
  BY <1>1, <1>3, <1>4, MapsKeepTypes DEF Arranged, StateType
<1>8. QED
  BY <1>1, <1>2, <1>6, <1>7, SameListsArranged DEF Tidied, t

\* A new empty workspace is appended.
LEMMA AppendEmptyArranged ==
  ASSUME NEW s, NEW L, Arranged(s, L), NEW m \in DOMAIN s.sets, Homes(s)
  PROVE  LET t == AppendEmptyWorkspace(s, m)
         IN  Arranged(t, L) /\ Tidied(s, t)
<1> DEFINE t == AppendEmptyWorkspace(s, m)
           v == FreshWorkspace(s)
           r == [order |-> Append(s.sets[m].order, v), active |-> s.sets[m].active]
<1>1. /\ t.columns = s.columns /\ t.windows = s.windows /\ t.focus = s.focus
      /\ t.overview = s.overview /\ t.session = s.session
      /\ t.workspaces = Put(s.workspaces, v, EmptyWorkspace(m))
      /\ t.sets = Put(s.sets, m, r)
  BY DEF Arranged, Shape, AppendEmptyWorkspace, PutOrder
<1>2. Shape(t)
  BY AppendEmptyNearby DEF Nearby, Arranged
<1>3. v \in Nat /\ v \notin DOMAIN s.workspaces
  BY FreshWorkspaceIsNew DEF Arranged
<1>4. m \in Monitors /\ s.sets[m].order \in Seq(Nat) /\ s.sets[m].active \in Nat
  BY TypeLookups DEF Arranged, WorkspaceSet
<1> HIDE DEF v
<1>5. r \in WorkspaceSet
  <2>1. Append(s.sets[m].order, v) \in Seq(Nat)
    BY <1>3, <1>4
  <2>2. QED
    BY <1>4, <2>1 DEF WorkspaceSet
<1>6. EmptyWorkspace(m) \in Workspace
  BY <1>4 DEF EmptyWorkspace, Workspace, Option
<1> HIDE DEF t, r
<1>7. SameLists(s, t)
  BY <1>1, <1>3 DEF SameLists, Cols, Flt, Put, EmptyWorkspace
<1>8. StateType(t)
  <2> DEFINE e == EmptyWorkspace(m)
  <2> HIDE DEF e
  <2>1. IsMap(Put(s.workspaces, v, e), Nat, Workspace)
    BY <1>3, <1>6, MapsKeepTypes DEF Arranged, StateType, e
  <2>2. IsMap(Put(s.sets, m, r), Monitors, WorkspaceSet)
    BY <1>4, <1>5, MapsKeepTypes DEF Arranged, StateType
  <2>3. QED
    BY <1>1, <2>1, <2>2 DEF Arranged, StateType, e
<1>9. QED
  BY <1>1, <1>2, <1>7, <1>8, SameListsArranged DEF Tidied, t

\* The final loop only writes the monitor and the tail flag.
LEMMA RefreshArranged ==
  ASSUME NEW s, NEW L, Arranged(s, L), NEW m \in DOMAIN s.sets, Homes(s)
  PROVE  LET t == RefreshWorkspaces(s, m)
         IN  Arranged(t, L) /\ Tidied(s, t)
<1> DEFINE order == s.sets[m].order
           last(w) == w = Last(order) /\ IsWorkspaceEmpty(s, w)
           f == [w \in DOMAIN s.workspaces |->
                   IF w \in ToSet(order) THEN [s.workspaces[w] EXCEPT !.mon = m, !.tail = last(w)]
                   ELSE s.workspaces[w]]
           t == RefreshWorkspaces(s, m)
<1>1. /\ t.columns = s.columns /\ t.windows = s.windows
      /\ t.sets = s.sets /\ t.focus = s.focus
      /\ t.overview = s.overview /\ t.session = s.session
      /\ t.workspaces = f
  BY DEF Arranged, Shape, RefreshWorkspaces
<1>2. Shape(t)
  BY RefreshAlike DEF Alike, Arranged
<1>3. ASSUME NEW v \in DOMAIN s.workspaces
      PROVE  /\ f[v] \in Workspace
             /\ f[v].cols = s.workspaces[v].cols
             /\ f[v].flt = s.workspaces[v].flt
  <2>1. s.workspaces[v] \in Workspace /\ m \in Monitors
    BY TypeLookups DEF Arranged
  <2>2. last(v) \in BOOLEAN
    OBVIOUS
  <2> HIDE DEF last
  <2>3. QED
    BY <2>1, <2>2 DEF Workspace
<1>4. f = [v \in DOMAIN s.workspaces |-> f[v]]
  OBVIOUS
<1>5. IsMap(s.sets, Monitors, WorkspaceSet)
  BY DEF Arranged, StateType
<1> HIDE DEF t, f
<1>6. Arranged(t, L) /\ SameLists(s, t)
  BY <1>1, <1>2, <1>3, <1>4, <1>5, WorkspaceFieldsArranged
<1>7. QED
  BY <1>1, <1>6 DEF Tidied, t

\* normalize_workspace_set moves no window and no column, and does not touch the
\* focus but for the workspace the monitor shows.
LEMMA NormalizeArranged ==
  ASSUME NEW s, NEW U, Ring(s, U), NEW L, Arranged(s, L), NEW m \in DOMAIN s.sets
  PROVE  LET n == NormalizeWorkspaceSet(s, m)
         IN  Arranged(n, L) /\ Tidied(s, n)
<1> DEFINE a == s.sets[m].active
           e == NonEmptySet(s, m)
           r == RetainOccupied(e, m)
           c == CollapseTail(r, m)
           n == EnsureEmptyTail(c, m)
           f == RefreshWorkspaces(n, m)
           active == IF f.sets[m].active \in ToSet(f.sets[m].order)
                     THEN f.sets[m].active ELSE f.sets[m].order[1]
           g == PutActive(f, m, active)
<1>1. NormalizeWorkspaceSet(s, m) = g
  BY DEF NormalizeWorkspaceSet, ChooseActive
<1>2. Nearby(s, e, m) /\ e.sets[m].order # <<>>
  BY NonEmptyNearby DEF Ring
<1>3. Arranged(e, L) /\ Tidied(s, e)
  BY AppendEmptyArranged, TidiedReflexive DEF Ring, NonEmptySet
<1> HIDE DEF e
<1>4. m \in DOMAIN e.sets /\ Shape(e) /\ Homes(e) /\ e.sets[m].active = a
  BY <1>2 DEF Nearby
<1>5. /\ Nearby(e, r, m) /\ r.sets[m].order # <<>>
      /\ \A w \in ToSet(r.sets[m].order) :
           IsWorkspaceEmpty(r, w) => w = a \/ w = Last(r.sets[m].order)
  BY <1>2, <1>4, RetainNearby
<1>6. Arranged(r, L) /\ Tidied(e, r)
  <2>1. StrayEmpties(e, m) \in SUBSET ToSet(e.sets[m].order)
        /\ \A w \in StrayEmpties(e, m) : IsWorkspaceEmpty(e, w)
    BY DEF StrayEmpties
  <2>2. QED
    BY <1>3, <1>4, <2>1, RemoveFromSetArranged DEF RetainOccupied
<1> HIDE DEF r
<1>7. m \in DOMAIN r.sets /\ Shape(r) /\ Homes(r) /\ r.sets[m].active = a
  BY <1>4, <1>5 DEF Nearby
<1>8. Nearby(r, c, m) /\ c.sets[m].order # <<>>
  BY <1>5, <1>7, CollapseNearby
<1>9. Arranged(c, L) /\ Tidied(r, c)
  <2> DEFINE order == r.sets[m].order
  <2>1. order \in Seq(DOMAIN r.workspaces) /\ DOMAIN order = 1..Len(order) /\ Len(order) \in Nat
    BY <1>7 DEF Homes, Housed
  <2>2. ASSUME NEW w \in CollapsedTail(r, m)
        PROVE  w \in ToSet(order) /\ IsWorkspaceEmpty(r, w)
    <3>1. PICK k \in 2..Len(order) : k - 1 \in EmptySuffix(r, m) /\ order[k] = w
      BY DEF CollapsedTail
    <3>2. k \in DOMAIN order /\ k \in (k - 1)..Len(order)
      BY <2>1
    <3>3. IsWorkspaceEmpty(r, order[k])
      BY <3>1, <3>2 DEF EmptySuffix
    <3>4. QED
      BY <3>1, <3>2, <3>3 DEF ToSet
  <2>3. CollapsedTail(r, m) \in SUBSET ToSet(order)
    BY <2>2
  <2>4. QED
    BY <1>6, <1>7, <2>2, <2>3, RemoveFromSetArranged DEF CollapseTail
<1> HIDE DEF c
<1>10. m \in DOMAIN c.sets /\ Shape(c) /\ Homes(c)
  BY <1>7, <1>8 DEF Nearby
<1>11. Nearby(c, n, m) /\ n.sets[m].order # <<>>
  BY <1>8, <1>10, EnsureTailNearby
<1>12. Arranged(n, L) /\ Tidied(c, n)
  BY <1>9, <1>10, AppendEmptyArranged, TidiedReflexive DEF EnsureEmptyTail
<1> HIDE DEF n
<1>13. m \in DOMAIN n.sets /\ Shape(n) /\ Homes(n)
  BY <1>10, <1>11 DEF Nearby
<1>14. Arranged(f, L) /\ Tidied(n, f)
  BY <1>12, <1>13, RefreshArranged
<1>15. Alike(n, f)
  BY <1>13, RefreshAlike
<1> HIDE DEF f
<1>16. m \in DOMAIN f.sets /\ f.sets[m].order # <<>>
  BY <1>11, <1>13, <1>15 DEF Alike
<1>17. active \in Nat
  <2>1. f.sets[m].order \in Seq(Nat) /\ f.sets[m].active \in Nat
    BY <1>14, <1>16, TypeLookups DEF Arranged, WorkspaceSet
  <2>2. f.sets[m].order[1] \in Nat
    BY <1>16, <2>1
  <2>3. QED
    BY <2>1, <2>2
<1> HIDE DEF active
<1>18. Arranged(g, L) /\ Tidied(f, g)
  BY <1>14, <1>16, <1>17, PutActiveArranged DEF Tidied
<1> HIDE DEF g
<1>19. Tidied(s, g)
  BY <1>3, <1>6, <1>9, <1>12, <1>14, <1>18, TidiedTransitive
<1>20. QED
  BY <1>1, <1>18, <1>19

\* A coherent focus stays coherent when a monitor of a sound state is normalised.
LEMMA NormalizeKeepsFocus ==
  ASSUME NEW s, Sound(s), Arranged(s, {}), FocusFits(s), NEW m \in DOMAIN s.sets
  PROVE  FocusFits(NormalizeWorkspaceSet(s, m))
<1> DEFINE n == NormalizeWorkspaceSet(s, m)
           x == s.focus.win
           w == s.windows[x].ws
           k == s.focus.mon
<1>1. /\ Sound(n) /\ DOMAIN n.sets = DOMAIN s.sets
      /\ \A j \in DOMAIN s.sets : n.sets[j].active = s.sets[j].active
  BY NormalizeSound
<1>2. Tidied(s, n)
  BY NormalizeArranged DEF Sound
<1> HIDE DEF n
<1>3. /\ n.focus.mon = k /\ n.focus.win = x /\ n.focus.col = s.focus.col
      /\ n.windows = s.windows
  BY <1>2 DEF Tidied, SameLists
<1>4. ASSUME x # None
      PROVE  w \in DOMAIN n.workspaces /\ n.workspaces[w].mon = k /\ n.sets[k].active = w
  <2>1. w \in DOMAIN s.workspaces /\ s.workspaces[w].mon = k /\ s.sets[k].active = w
    BY <1>4 DEF FocusFits
  <2>2. k \in DOMAIN s.sets
    BY <2>1, SoundLookups
  <2> HIDE DEF w, k
  <2>3. n.sets[k].active = w /\ k \in DOMAIN n.sets
    BY <1>1, <2>1, <2>2
  <2>4. w \in ToSet(n.sets[k].order)
    BY <1>1, <2>3, SoundLookups
  <2>5. QED
    BY <1>1, <2>3, <2>4, SoundLookups
<1>5. QED
  BY <1>3, <1>4 DEF FocusFits, n

---------------------------------------------------------------------------
(* Windows enter lists. *)

\* The values of a finite map are finitely many.
LEMMA ValuesFinite ==
  ASSUME NEW f, IsFiniteSet(DOMAIN f)
  PROVE  IsFiniteSet({f[x] : x \in DOMAIN f})
<1> DEFINE S == DOMAIN f
           T == {f[x] : x \in S}
           g == [x \in S |-> f[x]]
<1>1. g \in Surjection(S, T)
  BY DEF Surjection
<1>2. QED
  BY <1>1, FS_Surjection

\* The new column is none the state knows.
LEMMA FreshColumnIsNew ==
  ASSUME NEW s, NEW L, Arranged(s, L)
  PROVE  FreshColumn(s) \in Nat /\ FreshColumn(s) \notin DOMAIN s.columns
<1> DEFINE f == [x \in DOMAIN s.windows |-> s.windows[x].restore.col]
           g == [w \in DOMAIN s.workspaces |-> s.workspaces[w].remCol]
           F == {s.windows[x].restore.col : x \in DOMAIN s.windows}
           G == {s.workspaces[w].remCol : w \in DOMAIN s.workspaces}
<1>1. IsFiniteSet({f[x] : x \in DOMAIN f}) /\ IsFiniteSet({g[w] : w \in DOMAIN g})
  BY ValuesFinite DEF Arranged, Shape
<1>2. F = {f[x] : x \in DOMAIN f} /\ G = {g[w] : w \in DOMAIN g}
  OBVIOUS
<1>3. IsFiniteSet({s.session.col})
  BY FS_Singleton
<1> HIDE DEF F, G, f, g
<1>4. IsFiniteSet(DOMAIN s.columns \union F)
  BY <1>1, <1>2, FS_Union DEF Arranged
<1>5. IsFiniteSet(DOMAIN s.columns \union F \union G)
  BY <1>1, <1>2, <1>4, FS_Union
<1>6. IsFiniteSet(UsedColumnIds(s))
  BY <1>3, <1>5, FS_Union DEF UsedColumnIds, F, G
<1>7. QED
  BY <1>6, FreshIsFresh DEF FreshColumn, UsedColumnIds

\* The new window is none the state knows.
LEMMA FreshWindowIsNew ==
  ASSUME NEW s, Shape(s)
  PROVE  FreshWindow(s) \in Nat /\ FreshWindow(s) \notin DOMAIN s.windows
<1> DEFINE g == [w \in DOMAIN s.workspaces |-> s.workspaces[w].remWin]
           G == {s.workspaces[w].remWin : w \in DOMAIN s.workspaces}
<1>1. IsFiniteSet({g[w] : w \in DOMAIN g})
  BY ValuesFinite DEF Shape
<1>2. G = {g[w] : w \in DOMAIN g}
  OBVIOUS
<1>3. IsFiniteSet({s.session.win})
  BY FS_Singleton
<1> HIDE DEF G, g
<1>4. IsFiniteSet(DOMAIN s.windows \union G)
  BY <1>1, <1>2, FS_Union DEF Shape
<1>5. IsFiniteSet(UsedWindowIds(s))
  BY <1>3, <1>4, FS_Union DEF UsedWindowIds, G
<1>6. QED
  BY <1>5, FreshIsFresh DEF FreshWindow, UsedWindowIds

\* A window the state does not know stands in no list.
LEMMA UnknownIsLoose ==
  ASSUME NEW s, Arranged(s, {}), NEW x, x \notin DOMAIN s.windows
  PROVE  Arranged(s, {x})
BY DEF Arranged, Placed, ColumnFits, WorkspaceFits

\* Window x gets a record, and nothing but lists changes.
Enters(s, t, x, node) ==
  /\ t.windows = Put(s.windows, x, node)
  /\ t.sets = s.sets /\ t.focus = s.focus
  /\ t.overview = s.overview /\ t.session = s.session
  /\ DOMAIN t.workspaces = DOMAIN s.workspaces
  /\ \A v \in DOMAIN s.workspaces : t.workspaces[v].mon = s.workspaces[v].mon

\* A loose window enters the strip in a column of its own.
LEMMA NewColumnArranged ==
  ASSUME NEW s, NEW x \in Nat, Arranged(s, {x}), NEW w \in DOMAIN s.workspaces,
         NEW mode \in Modes, NEW at \in 1..(Len(s.workspaces[w].cols) + 1),
         NEW node \in Window, node.ws = w, node.col = FreshColumn(s), node.restore = NoRestore
  PROVE  LET t == SetWindow(InsertNewColumn(s, w, x, mode, at), x, node)
         IN  Arranged(t, {}) /\ Enters(s, t, x, node)
<1> DEFINE c == FreshColumn(s)
           r == s.workspaces[w]
           cols == InsertAt(r.cols, at, c)
           q == [r EXCEPT !.cols = cols]
           n == NewColumn(mode, x)
           t == SetWindow(InsertNewColumn(s, w, x, mode, at), x, node)
<1>1. /\ DOMAIN t = DOMAIN s
      /\ t.columns = Put(s.columns, c, n)
      /\ t.workspaces = Put(s.workspaces, w, q)
      /\ t.windows = Put(s.windows, x, node)
      /\ t.sets = s.sets /\ t.focus = s.focus
      /\ t.overview = s.overview /\ t.session = s.session
  BY DEF Arranged, Shape, SetWindow, InsertNewColumn, SetWorkspace, SetColumn
<1> HIDE DEF t
<1>2. c \in Nat /\ c \notin DOMAIN s.columns /\ c # None /\ node.col = c
  BY FreshColumnIsNew, NoneIsNoId
<1> HIDE DEF c
<1>3. r \in Workspace /\ r.cols \in Seq(Nat) /\ w \in Nat
  BY TypeLookups DEF Arranged, Workspace
<1>4. WorkspaceFits(s, w, {x})
  BY DEF Arranged, Placed
<1>5. /\ cols \in Seq(Nat)
      /\ ToSet(cols) = ToSet(r.cols) \union {c}
      /\ IsInjective(cols)
  <2>1. IsInjective(r.cols) /\ c \notin ToSet(r.cols)
    BY <1>2, <1>4 DEF WorkspaceFits
  <2> DEFINE old == r.cols
  <2>2. old \in Seq(Nat) /\ at \in 1..(Len(old) + 1)
    BY <1>3
  <2> HIDE DEF old
  <2>3. /\ InsertAt(old, at, c) \in Seq(Nat)
        /\ ToSet(InsertAt(old, at, c)) = ToSet(old) \union {c}
        /\ IsInjective(old) /\ c \notin ToSet(old) => IsInjective(InsertAt(old, at, c))
    BY <1>2, <2>2, InsertAtAdds
  <2>4. QED
    BY <2>1, <2>3 DEF old
<1> HIDE DEF cols
<1>6. q \in Workspace /\ q.cols = cols /\ q.flt = r.flt /\ q.mon = r.mon
  BY <1>3, <1>5 DEF Workspace
<1>7. n \in Column /\ n.wins = <<x>> /\ n.active = x /\ n.tab = x
  BY DEF NewColumn, Column
<1> HIDE DEF q, n
<1>8. /\ DOMAIN t.columns = DOMAIN s.columns \union {c}
      /\ t.columns[c] = n
      /\ \A k \in DOMAIN s.columns : t.columns[k] = s.columns[k]
  BY <1>1, <1>2 DEF Put
<1>9. /\ DOMAIN t.workspaces = DOMAIN s.workspaces
      /\ t.workspaces[w] = q
      /\ \A v \in DOMAIN s.workspaces \ {w} : t.workspaces[v] = s.workspaces[v]
  BY <1>1 DEF Put
<1>10. /\ DOMAIN t.windows = DOMAIN s.windows \union {x}
       /\ t.windows[x] = node
       /\ \A y \in DOMAIN s.windows \ {x} : t.windows[y] = s.windows[y]
  BY <1>1 DEF Put
<1>11. /\ \A v \in DOMAIN s.workspaces : /\ t.workspaces[v].flt = s.workspaces[v].flt
                                         /\ t.workspaces[v].mon = s.workspaces[v].mon
       /\ \A v \in DOMAIN s.workspaces \ {w} : t.workspaces[v].cols = s.workspaces[v].cols
       /\ t.workspaces[w].cols = cols
  BY <1>6, <1>9
<1>12. ToSet(<<x>>) = {x} /\ IsInjective(<<x>>) /\ <<x>> # <<>>
  BY DEF ToSet, IsInjective
<1>13. ASSUME NEW k \in DOMAIN t.columns PROVE ColumnFits(t, k, {})
  <2>1. CASE k = c
    <3>1. t.columns[k].wins = <<x>> /\ t.columns[k].active = x /\ t.columns[k].tab = x
      BY <1>7, <1>8, <2>1
    <3>2. /\ x \in DOMAIN t.windows /\ t.windows[x].col = k
          /\ t.windows[x].ws = w /\ w \in DOMAIN t.workspaces
      BY <1>2, <1>9, <1>10, <2>1
    <3>3. k \in ToSet(t.workspaces[w].cols)
      BY <1>5, <1>11, <2>1
    <3>4. QED
      BY <1>12, <3>1, <3>2, <3>3 DEF ColumnFits
  <2>2. CASE k # c
    <3>1. k \in DOMAIN s.columns /\ t.columns[k] = s.columns[k] /\ ColumnFits(s, k, {x})
      BY <1>8, <2>2 DEF Arranged, Placed
    <3>2. ASSUME NEW y \in ToSet(s.columns[k].wins)
          PROVE  /\ y \in DOMAIN s.windows /\ t.windows[y] = s.windows[y]
                 /\ s.windows[y].col = k
                 /\ s.windows[y].ws \in DOMAIN t.workspaces
                 /\ k \in ToSet(t.workspaces[s.windows[y].ws].cols)
      <4>1. y \in DOMAIN s.windows \ {x} /\ s.windows[y].col = k
            /\ s.windows[y].ws \in DOMAIN s.workspaces
            /\ k \in ToSet(s.workspaces[s.windows[y].ws].cols)
        BY <3>1 DEF ColumnFits
      <4>2. QED
        BY <1>5, <1>9, <1>10, <1>11, <4>1
    <3>3. QED
      BY <1>10, <3>1, <3>2 DEF ColumnFits
  <2>3. QED
    BY <2>1, <2>2
<1>14. ASSUME NEW v \in DOMAIN t.workspaces PROVE WorkspaceFits(t, v, {})
  <2>1. WorkspaceFits(s, v, {x}) /\ v \in DOMAIN s.workspaces
    BY <1>9 DEF Arranged, Placed
  <2>2. ASSUME NEW k \in ToSet(s.workspaces[v].cols)
        PROVE  /\ k \in DOMAIN t.columns
               /\ \A y \in ToSet(t.columns[k].wins) : t.windows[y].ws = v
    <3>1. k \in DOMAIN s.columns /\ \A y \in ToSet(s.columns[k].wins) : s.windows[y].ws = v
      BY <2>1 DEF WorkspaceFits
    <3>2. \A y \in ToSet(s.columns[k].wins) : y \in DOMAIN s.windows \ {x}
      BY <3>1 DEF Arranged, Placed, ColumnFits
    <3>3. QED
      BY <1>8, <1>10, <3>1, <3>2
  <2>3. ASSUME NEW k \in ToSet(t.workspaces[v].cols)
        PROVE  /\ k \in DOMAIN t.columns
               /\ \A y \in ToSet(t.columns[k].wins) : t.windows[y].ws = v
    <3>1. CASE k \in ToSet(s.workspaces[v].cols)
      BY <2>2, <3>1
    <3>2. CASE k \notin ToSet(s.workspaces[v].cols)
      <4>1. v = w /\ k = c
        BY <1>5, <1>9, <1>11, <3>2
      <4>2. QED
        BY <1>7, <1>8, <1>10, <1>12, <4>1
    <3>3. QED
      BY <3>1, <3>2
  <2>4. ASSUME NEW y \in ToSet(t.workspaces[v].flt)
        PROVE  y \in DOMAIN t.windows /\ t.windows[y].col = None /\ t.windows[y].ws = v
    BY <1>9, <1>10, <1>11, <2>1 DEF WorkspaceFits
  <2>5. IsInjective(t.workspaces[v].cols) /\ IsInjective(t.workspaces[v].flt)
    BY <1>5, <1>9, <1>11, <2>1 DEF WorkspaceFits
  <2>6. QED
    BY <2>3, <2>4, <2>5 DEF WorkspaceFits
<1>15. ASSUME NEW y \in DOMAIN t.windows PROVE WindowFits(t, y)
  <2>1. CASE y = x
    BY <1>2, <1>7, <1>8, <1>9, <1>10, <1>12, <2>1 DEF WindowFits, RestoreFits
  <2>2. CASE y # x
    <3>1. y \in DOMAIN s.windows \ {x} /\ t.windows[y] = s.windows[y] /\ WindowFits(s, y)
      BY <1>10, <2>2 DEF Arranged, Placed
    <3>2. QED
      BY <1>8, <1>9, <1>11, <3>1 DEF WindowFits
  <2>3. QED
    BY <2>1, <2>2
<1>16. StateType(t)
  <2>0. /\ IsMap(s.columns, Nat, Column) /\ IsMap(s.workspaces, Nat, Workspace)
        /\ IsMap(s.windows, Nat, Window)
    BY DEF Arranged, StateType
  <2>1. IsMap(t.columns, Nat, Column)
    BY <1>1, <1>2, <1>7, <2>0, PutType
  <2>2. IsMap(t.workspaces, Nat, Workspace)
    BY <1>1, <1>3, <1>6, <2>0, PutType
  <2>3. IsMap(t.windows, Nat, Window)
    BY <1>1, <2>0, PutType
  <2>4. QED
    BY <1>1, <2>1, <2>2, <2>3 DEF Arranged, StateType
<1>17. Shape(t) /\ IsFiniteSet(DOMAIN t.columns)
  <2>1. IsFiniteSet(DOMAIN t.columns) /\ IsFiniteSet(DOMAIN t.windows)
    BY <1>8, <1>10, FS_AddElement DEF Arranged, Shape
  <2>2. \A v \in DOMAIN t.workspaces : t.workspaces[v] \in Workspace
    BY <1>16, TypeLookups
  <2>3. QED
    BY <1>1, <1>9, <2>1, <2>2 DEF Arranged, Shape, Workspace
<1>18. QED
  BY <1>1, <1>9, <1>11, <1>13, <1>14, <1>15, <1>16, <1>17 DEF Arranged, Placed, Enters, t

\* Appending a new element adds just that element.
LEMMA AppendAdds ==
  ASSUME NEW T, NEW seq \in Seq(T), NEW e \in T
  PROVE  /\ Append(seq, e) \in Seq(T) /\ Append(seq, e) # <<>>
         /\ ToSet(Append(seq, e)) = ToSet(seq) \union {e}
         /\ IsInjective(seq) /\ e \notin ToSet(seq) => IsInjective(Append(seq, e))
<1> DEFINE n == Len(seq)
           w == Append(seq, e)
<1>1. n \in Nat /\ DOMAIN seq = 1..n
  OBVIOUS
<1>2. /\ w \in Seq(T) /\ w # <<>> /\ DOMAIN w = 1..(n + 1)
      /\ \A k \in 1..n : w[k] = seq[k]
      /\ w[n + 1] = e
  OBVIOUS
<1> HIDE DEF n, w
<1>3. ToSet(w) = ToSet(seq) \union {e}
  BY <1>1, <1>2 DEF ToSet
<1>4. ASSUME IsInjective(seq), e \notin ToSet(seq) PROVE IsInjective(w)
  <2>1. \A a, b \in 1..n : seq[a] = seq[b] => a = b
    BY <1>1, <1>4 DEF IsInjective
  <2>2. \A a \in 1..n : seq[a] # e
    BY <1>1, <1>4 DEF ToSet
  <2>3. QED
    BY <1>1, <1>2, <2>1, <2>2 DEF IsInjective
<1>5. QED
  BY <1>2, <1>3, <1>4 DEF w

\* A loose window joins a column.
LEMMA JoinArranged ==
  ASSUME NEW s, NEW x \in Nat, Arranged(s, {x}), NEW w \in DOMAIN s.workspaces,
         NEW c \in ToSet(s.workspaces[w].cols),
         NEW node \in Window, node.ws = w, node.col = c, node.restore = NoRestore
  PROVE  LET t == SetWindow(JoinColumn(s, c, x), x, node)
         IN  Arranged(t, {}) /\ Enters(s, t, x, node)
<1> DEFINE r == s.columns[c]
           wins == IF x \in ToSet(r.wins) THEN r.wins ELSE Append(r.wins, x)
           n == [r EXCEPT !.wins = wins, !.tab = IF r.mode = "Tabbed" THEN x ELSE r.tab]
           t == SetWindow(JoinColumn(s, c, x), x, node)
<1>1. /\ DOMAIN t = DOMAIN s
      /\ t.columns = Put(s.columns, c, n)
      /\ t.workspaces = s.workspaces
      /\ t.windows = Put(s.windows, x, node)
      /\ t.sets = s.sets /\ t.focus = s.focus
      /\ t.overview = s.overview /\ t.session = s.session
  BY DEF Arranged, Shape, SetWindow, JoinColumn, SetColumn
<1> HIDE DEF t
<1>2. WorkspaceFits(s, w, {x})
  BY DEF Arranged, Placed
<1>3. c \in DOMAIN s.columns /\ ColumnFits(s, c, {x})
  BY <1>2 DEF WorkspaceFits, Arranged, Placed
<1>4. c \in Nat /\ c # None /\ r \in Column /\ r.wins \in Seq(Nat)
  BY <1>3, TypeLookups, NoneIsNoId DEF Arranged, Column
<1>5. x \notin ToSet(r.wins) /\ IsInjective(r.wins)
      /\ \A y \in ToSet(r.wins) : s.windows[y].ws = w
  BY <1>2, <1>3 DEF ColumnFits, WorkspaceFits
<1>6. /\ wins \in Seq(Nat) /\ wins # <<>>
      /\ ToSet(wins) = ToSet(r.wins) \union {x}
      /\ IsInjective(wins)
  BY <1>4, <1>5, AppendAdds
<1> HIDE DEF wins
<1>7. n \in Column /\ n.wins = wins /\ {n.active, n.tab} \subseteq {r.active, r.tab, x}
  BY <1>4, <1>6 DEF Column
<1> HIDE DEF n
<1>8. /\ DOMAIN t.columns = DOMAIN s.columns
      /\ t.columns[c] = n
      /\ \A k \in DOMAIN s.columns \ {c} : t.columns[k] = s.columns[k]
  BY <1>1, <1>3 DEF Put
<1>9. /\ DOMAIN t.windows = DOMAIN s.windows \union {x}
      /\ t.windows[x] = node
      /\ \A y \in DOMAIN s.windows \ {x} : t.windows[y] = s.windows[y]
  BY <1>1 DEF Put
<1>10. ASSUME NEW k \in DOMAIN t.columns PROVE ColumnFits(t, k, {})
  <2>1. ColumnFits(s, k, {x}) /\ k \in DOMAIN s.columns
    BY <1>8 DEF Arranged, Placed
  <2>2. ASSUME NEW y \in ToSet(s.columns[k].wins)
        PROVE  /\ y \in DOMAIN t.windows /\ t.windows[y].col = k
               /\ t.windows[y].ws \in DOMAIN t.workspaces
               /\ k \in ToSet(t.workspaces[t.windows[y].ws].cols)
    BY <1>1, <1>9, <2>1 DEF ColumnFits
  <2>3. CASE k = c
    <3>1. /\ x \in DOMAIN t.windows /\ t.windows[x].col = k
          /\ t.windows[x].ws \in DOMAIN t.workspaces
          /\ k \in ToSet(t.workspaces[t.windows[x].ws].cols)
      BY <1>1, <1>9, <2>3
    <3>2. {n.active, n.tab} \subseteq ToSet(n.wins)
      BY <1>3, <1>6, <1>7 DEF ColumnFits
    <3>3. QED
      BY <1>6, <1>7, <1>8, <2>2, <2>3, <3>1, <3>2 DEF ColumnFits
  <2>4. CASE k # c
    <3>1. t.columns[k] = s.columns[k]
      BY <1>8, <2>1, <2>4
    <3>2. QED
      BY <2>1, <2>2, <3>1 DEF ColumnFits
  <2>5. QED
    BY <2>3, <2>4
<1>11. ASSUME NEW v \in DOMAIN t.workspaces PROVE WorkspaceFits(t, v, {})
  <2>1. WorkspaceFits(s, v, {x}) /\ v \in DOMAIN s.workspaces /\ t.workspaces = s.workspaces
    BY <1>1 DEF Arranged, Placed
  <2>2. ASSUME NEW k \in ToSet(s.workspaces[v].cols)
        PROVE  /\ k \in DOMAIN t.columns
               /\ \A y \in ToSet(t.columns[k].wins) : t.windows[y].ws = v
    <3>1. k \in DOMAIN s.columns /\ \A y \in ToSet(s.columns[k].wins) : s.windows[y].ws = v
      BY <2>1 DEF WorkspaceFits
    <3>2. \A y \in ToSet(s.columns[k].wins) : y \in DOMAIN s.windows \ {x}
      BY <3>1 DEF Arranged, Placed, ColumnFits
    <3>3. \A y \in ToSet(s.columns[k].wins) : t.windows[y].ws = v
      BY <1>9, <3>1, <3>2
    <3>4. CASE k = c
      <4>1. PICK y \in ToSet(r.wins) : TRUE
        BY <1>3 DEF ColumnFits
      <4>2. v = w
        BY <1>5, <3>1, <3>4, <4>1
      <4>3. QED
        BY <1>6, <1>7, <1>8, <1>9, <3>1, <3>3, <3>4, <4>2
    <3>5. CASE k # c
      BY <1>8, <3>1, <3>3, <3>5
    <3>6. QED
      BY <3>4, <3>5
  <2>3. ASSUME NEW y \in ToSet(s.workspaces[v].flt)
        PROVE  y \in DOMAIN t.windows /\ t.windows[y].col = None /\ t.windows[y].ws = v
    BY <1>9, <2>1 DEF WorkspaceFits
  <2>4. QED
    BY <2>1, <2>2, <2>3 DEF WorkspaceFits
<1>12. ASSUME NEW y \in DOMAIN t.windows PROVE WindowFits(t, y)
  <2>1. CASE y = x
    BY <1>1, <1>3, <1>4, <1>6, <1>7, <1>8, <1>9, <2>1 DEF WindowFits, RestoreFits
  <2>2. CASE y # x
    <3>1. y \in DOMAIN s.windows \ {x} /\ t.windows[y] = s.windows[y] /\ WindowFits(s, y)
      BY <1>9, <2>2 DEF Arranged, Placed
    <3>2. \A k \in DOMAIN s.columns : ToSet(s.columns[k].wins) \subseteq ToSet(t.columns[k].wins)
      BY <1>6, <1>7, <1>8
    <3>3. QED
      BY <1>1, <1>8, <3>1, <3>2 DEF WindowFits
  <2>3. QED
    BY <2>1, <2>2
<1>13. StateType(t)
  <2>1. IsMap(s.columns, Nat, Column) /\ IsMap(s.windows, Nat, Window)
    BY DEF Arranged, StateType
  <2>2. IsMap(t.columns, Nat, Column)
    BY <1>1, <1>4, <1>7, <2>1, PutType
  <2>3. IsMap(t.windows, Nat, Window)
    BY <1>1, <2>1, PutType
  <2>4. QED
    BY <1>1, <2>2, <2>3 DEF Arranged, StateType
<1>14. Shape(t) /\ IsFiniteSet(DOMAIN t.columns)
  <2>1. IsFiniteSet(DOMAIN t.windows)
    BY <1>9, FS_AddElement DEF Arranged, Shape
  <2>2. QED
    BY <1>1, <1>8, <2>1 DEF Arranged, Shape
<1>15. QED
  BY <1>1, <1>10, <1>11, <1>12, <1>13, <1>14 DEF Arranged, Placed, Enters, t

\* A loose window enters a floating list.
LEMMA PushArranged ==
  ASSUME NEW s, NEW x \in Nat, Arranged(s, {x}), NEW w \in DOMAIN s.workspaces,
         NEW node \in Window, node.ws = w, node.col = None, RestoreFits(node)
  PROVE  LET t == SetWindow(PushFloating(s, w, x), x, node)
         IN  Arranged(t, {}) /\ Enters(s, t, x, node)
<1> DEFINE r == s.workspaces[w]
           flt == IF x \in ToSet(r.flt) THEN r.flt ELSE Append(r.flt, x)
           q == [r EXCEPT !.flt = flt]
           t == SetWindow(PushFloating(s, w, x), x, node)
<1>1. /\ DOMAIN t = DOMAIN s
      /\ t.columns = s.columns
      /\ t.workspaces = Put(s.workspaces, w, q)
      /\ t.windows = Put(s.windows, x, node)
      /\ t.sets = s.sets /\ t.focus = s.focus
      /\ t.overview = s.overview /\ t.session = s.session
  BY DEF Arranged, Shape, SetWindow, PushFloating, SetWorkspace
<1> HIDE DEF t
<1>2. WorkspaceFits(s, w, {x})
  BY DEF Arranged, Placed
<1>3. w \in Nat /\ r \in Workspace /\ r.flt \in Seq(Nat)
  BY TypeLookups DEF Arranged, Workspace
<1>4. x \notin ToSet(r.flt) /\ IsInjective(r.flt)
  BY <1>2 DEF WorkspaceFits
<1>5. /\ flt \in Seq(Nat)
      /\ ToSet(flt) = ToSet(r.flt) \union {x}
      /\ IsInjective(flt)
  BY <1>3, <1>4, AppendAdds
<1> HIDE DEF flt
<1>6. q \in Workspace /\ q.flt = flt /\ q.cols = r.cols /\ q.mon = r.mon
  BY <1>3, <1>5 DEF Workspace
<1> HIDE DEF q
<1>7. /\ DOMAIN t.workspaces = DOMAIN s.workspaces
      /\ \A v \in DOMAIN s.workspaces : /\ t.workspaces[v].mon = s.workspaces[v].mon
                                        /\ t.workspaces[v].cols = s.workspaces[v].cols
      /\ t.workspaces[w].flt = flt
      /\ \A v \in DOMAIN s.workspaces \ {w} : t.workspaces[v].flt = s.workspaces[v].flt
  BY <1>1, <1>6 DEF Put
<1>8. /\ DOMAIN t.windows = DOMAIN s.windows \union {x}
      /\ t.windows[x] = node
      /\ \A y \in DOMAIN s.windows \ {x} : t.windows[y] = s.windows[y]
  BY <1>1 DEF Put
<1>9. ASSUME NEW k \in DOMAIN t.columns PROVE ColumnFits(t, k, {})
  <2>1. ColumnFits(s, k, {x}) /\ t.columns = s.columns
    BY <1>1 DEF Arranged, Placed
  <2>2. ASSUME NEW y \in ToSet(s.columns[k].wins)
        PROVE  /\ y \in DOMAIN t.windows /\ t.windows[y].col = k
               /\ t.windows[y].ws \in DOMAIN t.workspaces
               /\ k \in ToSet(t.workspaces[t.windows[y].ws].cols)
    BY <1>7, <1>8, <2>1 DEF ColumnFits
  <2>3. QED
    BY <2>1, <2>2 DEF ColumnFits
<1>10. ASSUME NEW v \in DOMAIN t.workspaces PROVE WorkspaceFits(t, v, {})
  <2>1. WorkspaceFits(s, v, {x}) /\ v \in DOMAIN s.workspaces
    BY <1>7 DEF Arranged, Placed
  <2>2. ASSUME NEW k \in ToSet(s.workspaces[v].cols)
        PROVE  /\ k \in DOMAIN t.columns
               /\ \A y \in ToSet(t.columns[k].wins) : t.windows[y].ws = v
    <3>1. k \in DOMAIN s.columns /\ \A y \in ToSet(s.columns[k].wins) : s.windows[y].ws = v
      BY <2>1 DEF WorkspaceFits
    <3>2. \A y \in ToSet(s.columns[k].wins) : y \in DOMAIN s.windows \ {x}
      BY <3>1 DEF Arranged, Placed, ColumnFits
    <3>3. QED
      BY <1>1, <1>8, <3>1, <3>2
  <2>3. ASSUME NEW y \in ToSet(t.workspaces[v].flt)
        PROVE  y \in DOMAIN t.windows /\ t.windows[y].col = None /\ t.windows[y].ws = v
    <3>1. CASE y \in ToSet(s.workspaces[v].flt)
      BY <1>8, <2>1, <3>1 DEF WorkspaceFits
    <3>2. CASE y \notin ToSet(s.workspaces[v].flt)
      <4>1. v = w /\ y = x
        BY <1>5, <1>7, <2>1, <3>2
      <4>2. QED
        BY <1>8, <4>1
    <3>3. QED
      BY <3>1, <3>2
  <2>4. IsInjective(t.workspaces[v].cols) /\ IsInjective(t.workspaces[v].flt)
    BY <1>5, <1>7, <2>1 DEF WorkspaceFits
  <2>5. QED
    BY <1>7, <2>1, <2>2, <2>3, <2>4 DEF WorkspaceFits
<1>11. ASSUME NEW y \in DOMAIN t.windows PROVE WindowFits(t, y)
  <2>1. CASE y = x
    BY <1>5, <1>7, <1>8, <2>1 DEF WindowFits
  <2>2. CASE y # x
    <3>1. y \in DOMAIN s.windows \ {x} /\ t.windows[y] = s.windows[y] /\ WindowFits(s, y)
      BY <1>8, <2>2 DEF Arranged, Placed
    <3>2. \A v \in DOMAIN s.workspaces :
            ToSet(s.workspaces[v].flt) \subseteq ToSet(t.workspaces[v].flt)
      BY <1>5, <1>7
    <3>3. QED
      BY <1>1, <1>7, <3>1, <3>2 DEF WindowFits
  <2>3. QED
    BY <2>1, <2>2
<1>12. StateType(t)
  <2>1. IsMap(s.workspaces, Nat, Workspace) /\ IsMap(s.windows, Nat, Window)
    BY DEF Arranged, StateType
  <2>2. IsMap(t.workspaces, Nat, Workspace)
    BY <1>1, <1>3, <1>6, <2>1, PutType
  <2>3. IsMap(t.windows, Nat, Window)
    BY <1>1, <2>1, PutType
  <2>4. QED
    BY <1>1, <2>2, <2>3 DEF Arranged, StateType
<1>13. Shape(t) /\ IsFiniteSet(DOMAIN t.columns)
  <2>1. IsFiniteSet(DOMAIN t.windows)
    BY <1>8, FS_AddElement DEF Arranged, Shape
  <2>2. \A v \in DOMAIN t.workspaces : t.workspaces[v] \in Workspace
    BY <1>12, TypeLookups
  <2>3. QED
    BY <1>1, <1>7, <2>1, <2>2 DEF Arranged, Shape, Workspace
<1>14. QED
  BY <1>1, <1>7, <1>9, <1>10, <1>11, <1>12, <1>13 DEF Arranged, Placed, Enters, t

\* A window that is not managed enters no list.
LEMMA UnlistedArranged ==
  ASSUME NEW s, NEW x \in Nat, Arranged(s, {x}),
         NEW node \in Window, ~node.managed, node.col = None, RestoreFits(node)
  PROVE  LET t == SetWindow(s, x, node)
         IN  Arranged(t, {}) /\ Enters(s, t, x, node)
<1> DEFINE t == SetWindow(s, x, node)
<1>1. /\ DOMAIN t = DOMAIN s
      /\ t.columns = s.columns
      /\ t.workspaces = s.workspaces
      /\ t.windows = Put(s.windows, x, node)
      /\ t.sets = s.sets /\ t.focus = s.focus
      /\ t.overview = s.overview /\ t.session = s.session
  BY DEF Arranged, Shape, SetWindow
<1> HIDE DEF t
<1>2. /\ DOMAIN t.windows = DOMAIN s.windows \union {x}
      /\ t.windows[x] = node
      /\ \A y \in DOMAIN s.windows \ {x} : t.windows[y] = s.windows[y]
  BY <1>1 DEF Put
<1>3. ASSUME NEW k \in DOMAIN t.columns PROVE ColumnFits(t, k, {})
  BY <1>1, <1>2 DEF Arranged, Placed, ColumnFits
<1>4. ASSUME NEW v \in DOMAIN t.workspaces PROVE WorkspaceFits(t, v, {})
  <2>1. WorkspaceFits(s, v, {x}) /\ v \in DOMAIN s.workspaces
    BY <1>1 DEF Arranged, Placed
  <2>2. ASSUME NEW k \in ToSet(s.workspaces[v].cols)
        PROVE  /\ k \in DOMAIN t.columns
               /\ \A y \in ToSet(t.columns[k].wins) : t.windows[y].ws = v
    <3>1. k \in DOMAIN s.columns /\ \A y \in ToSet(s.columns[k].wins) : s.windows[y].ws = v
      BY <2>1 DEF WorkspaceFits
    <3>2. \A y \in ToSet(s.columns[k].wins) : y \in DOMAIN s.windows \ {x}
      BY <3>1 DEF Arranged, Placed, ColumnFits
    <3>3. QED
      BY <1>1, <1>2, <3>1, <3>2
  <2>3. QED
    BY <1>1, <1>2, <2>1, <2>2 DEF WorkspaceFits
<1>5. ASSUME NEW y \in DOMAIN t.windows PROVE WindowFits(t, y)
  <2>1. CASE y = x
    BY <1>2, <2>1 DEF WindowFits
  <2>2. CASE y # x
    BY <1>1, <1>2, <2>2 DEF Arranged, Placed, WindowFits
  <2>3. QED
    BY <2>1, <2>2
<1>6. StateType(t)
  <2>1. IsMap(s.windows, Nat, Window)
    BY DEF Arranged, StateType
  <2>2. IsMap(t.windows, Nat, Window)
    BY <1>1, <2>1, PutType
  <2>3. QED
    BY <1>1, <2>2 DEF Arranged, StateType
<1>7. Shape(t) /\ IsFiniteSet(DOMAIN t.columns)
  <2>1. IsFiniteSet(DOMAIN t.windows)
    BY <1>2, FS_AddElement DEF Arranged, Shape
  <2>2. QED
    BY <1>1, <2>1 DEF Arranged, Shape
<1>8. QED
  BY <1>1, <1>3, <1>4, <1>5, <1>6, <1>7 DEF Arranged, Placed, Enters, t

---------------------------------------------------------------------------
(* Windows leave lists. *)

\* What taking a window out of its list leaves alone: all records but those of
\* lists.
Leaves(s, t) ==
  /\ t.windows = s.windows
  /\ t.sets = s.sets /\ t.focus = s.focus
  /\ t.overview = s.overview /\ t.session = s.session
  /\ DOMAIN t.workspaces = DOMAIN s.workspaces
  /\ \A v \in DOMAIN s.workspaces : t.workspaces[v].mon = s.workspaces[v].mon

\* A window leaves its floating list.
LEMMA LeaveFloatingArranged ==
  ASSUME NEW s, Arranged(s, {}), NEW x \in DOMAIN s.windows, s.windows[x].col = None,
         NEW w \in DOMAIN s.workspaces, w = s.windows[x].ws
  PROVE  LET t == LeaveFloating(s, w, x)
         IN  Arranged(t, {x}) /\ Leaves(s, t)
<1> DEFINE r == s.workspaces[w]
           flt == Without(r.flt, {x})
           q == [r EXCEPT !.flt = flt]
           t == LeaveFloating(s, w, x)
<1>1. /\ DOMAIN t = DOMAIN s
      /\ t.columns = s.columns /\ t.windows = s.windows
      /\ t.workspaces = Put(s.workspaces, w, q)
      /\ t.sets = s.sets /\ t.focus = s.focus
      /\ t.overview = s.overview /\ t.session = s.session
  BY DEF Arranged, Shape, LeaveFloating, SetWorkspace
<1> HIDE DEF t
<1>2. w \in Nat /\ r \in Workspace /\ r.flt \in Seq(Nat)
  BY TypeLookups DEF Arranged, Workspace
<1>3. IsInjective(r.flt)
  BY DEF Arranged, Placed, WorkspaceFits
<1>4. flt \in Seq(Nat) /\ ToSet(flt) = ToSet(r.flt) \ {x} /\ IsInjective(flt)
  <2> DEFINE old == r.flt
  <2>1. old \in Seq(Nat) /\ IsInjective(old)
    BY <1>2, <1>3
  <2> HIDE DEF old
  <2>2. /\ Without(old, {x}) \in Seq(Nat)
        /\ ToSet(Without(old, {x})) = ToSet(old) \ {x}
        /\ IsInjective(Without(old, {x}))
    BY <2>1, WithoutKeeps
  <2>3. QED
    BY <2>2 DEF old
<1> HIDE DEF flt
<1>5. q \in Workspace /\ q.flt = flt /\ q.cols = r.cols /\ q.mon = r.mon
  BY <1>2, <1>4 DEF Workspace
<1> HIDE DEF q
<1>6. /\ DOMAIN t.workspaces = DOMAIN s.workspaces
      /\ \A v \in DOMAIN s.workspaces : /\ t.workspaces[v].mon = s.workspaces[v].mon
                                        /\ t.workspaces[v].cols = s.workspaces[v].cols
      /\ t.workspaces[w].flt = flt
      /\ \A v \in DOMAIN s.workspaces \ {w} : t.workspaces[v].flt = s.workspaces[v].flt
  BY <1>1, <1>5 DEF Put
<1>7. ASSUME NEW k \in DOMAIN t.columns PROVE ColumnFits(t, k, {x})
  <2>1. ColumnFits(s, k, {}) /\ t.columns = s.columns /\ k # None
    BY <1>1, TypeLookups, NoneIsNoId DEF Arranged, Placed
  <2>2. ASSUME NEW y \in ToSet(t.columns[k].wins)
        PROVE  /\ y \in DOMAIN t.windows \ {x}
               /\ t.windows[y].col = k
               /\ t.windows[y].ws \in DOMAIN t.workspaces
               /\ k \in ToSet(t.workspaces[t.windows[y].ws].cols)
    <3>1. /\ y \in DOMAIN s.windows /\ s.windows[y].col = k
          /\ s.windows[y].ws \in DOMAIN s.workspaces
          /\ k \in ToSet(s.workspaces[s.windows[y].ws].cols)
      BY <2>1 DEF ColumnFits
    <3>2. y # x
      BY <2>1, <3>1
    <3>3. QED
      BY <1>1, <1>6, <3>1, <3>2
  <2>3. QED
    BY <2>1, <2>2 DEF ColumnFits
<1>8. ASSUME NEW v \in DOMAIN t.workspaces PROVE WorkspaceFits(t, v, {x})
  <2>1. WorkspaceFits(s, v, {}) /\ v \in DOMAIN s.workspaces
    BY <1>6 DEF Arranged, Placed
  <2>2. ASSUME NEW y \in ToSet(t.workspaces[v].flt)
        PROVE  y \in ToSet(s.workspaces[v].flt) /\ y # x
    <3>1. CASE v = w
      BY <1>4, <1>6, <3>1
    <3>2. CASE v # w
      BY <1>6, <2>1, <3>2 DEF WorkspaceFits
    <3>3. QED
      BY <3>1, <3>2
  <2>3. IsInjective(t.workspaces[v].flt)
    BY <1>4, <1>6, <2>1 DEF WorkspaceFits
  <2>4. ASSUME NEW k \in ToSet(t.workspaces[v].cols)
        PROVE  k \in DOMAIN t.columns /\ \A y \in ToSet(t.columns[k].wins) : t.windows[y].ws = v
    BY <1>1, <1>6, <2>1 DEF WorkspaceFits
  <2>5. ASSUME NEW y \in ToSet(t.workspaces[v].flt)
        PROVE  y \in DOMAIN t.windows \ {x} /\ t.windows[y].col = None /\ t.windows[y].ws = v
    BY <1>1, <2>1, <2>2 DEF WorkspaceFits
  <2>6. IsInjective(t.workspaces[v].cols)
    BY <1>6, <2>1 DEF WorkspaceFits
  <2>7. QED
    BY <2>3, <2>4, <2>5, <2>6 DEF WorkspaceFits
<1>9. ASSUME NEW y \in DOMAIN t.windows \ {x} PROVE WindowFits(t, y)
  <2>1. WindowFits(s, y) /\ t.windows = s.windows
    BY <1>1 DEF Arranged, Placed
  <2>2. \A v \in DOMAIN s.workspaces :
          ToSet(s.workspaces[v].flt) \ {x} \subseteq ToSet(t.workspaces[v].flt)
    BY <1>4, <1>6
  <2>3. QED
    BY <1>1, <1>6, <2>1, <2>2 DEF WindowFits
<1>10. StateType(t)
  <2>1. IsMap(s.workspaces, Nat, Workspace)
    BY DEF Arranged, StateType
  <2>2. IsMap(t.workspaces, Nat, Workspace)
    BY <1>1, <1>2, <1>5, <2>1, PutType
  <2>3. QED
    BY <1>1, <2>2 DEF Arranged, StateType
<1>11. Shape(t) /\ IsFiniteSet(DOMAIN t.columns)
  <2>1. \A v \in DOMAIN t.workspaces : t.workspaces[v] \in Workspace
    BY <1>10, TypeLookups
  <2>2. QED
    BY <1>1, <1>6, <2>1 DEF Arranged, Shape, Workspace
<1>12. QED
  BY <1>1, <1>6, <1>7, <1>8, <1>9, <1>10, <1>11 DEF Arranged, Placed, Leaves, t

\* A window leaves the column it had to itself, which goes.
LEMMA LeaveOwnColumnArranged ==
  ASSUME NEW s, Arranged(s, {}), NEW x \in DOMAIN s.windows, NEW w \in DOMAIN s.workspaces,
         w = s.windows[x].ws, NEW c, c = s.windows[x].col, c # None,
         ToSet(s.columns[c].wins) \subseteq {x}
  PROVE  LET t == LeaveOwnColumn(s, w, c)
         IN  Arranged(t, {x}) /\ Leaves(s, t) /\ c \notin DOMAIN t.columns
<1> DEFINE r == s.workspaces[w]
           cols == Without(r.cols, {c})
           q == [r EXCEPT !.cols = cols]
           t == LeaveOwnColumn(s, w, c)
<1>1. /\ DOMAIN t = DOMAIN s
      /\ t.columns = Drop(s.columns, {c}) /\ t.windows = s.windows
      /\ t.workspaces = Put(s.workspaces, w, q)
      /\ t.sets = s.sets /\ t.focus = s.focus
      /\ t.overview = s.overview /\ t.session = s.session
  BY DEF Arranged, Shape, LeaveOwnColumn, SetWorkspace
<1> HIDE DEF t
<1>2. w \in Nat /\ r \in Workspace /\ r.cols \in Seq(Nat)
  BY TypeLookups DEF Arranged, Workspace
<1>3. IsInjective(r.cols)
  BY DEF Arranged, Placed, WorkspaceFits
<1>4. cols \in Seq(Nat) /\ ToSet(cols) = ToSet(r.cols) \ {c} /\ IsInjective(cols)
  <2> DEFINE old == r.cols
  <2>1. old \in Seq(Nat) /\ IsInjective(old)
    BY <1>2, <1>3
  <2> HIDE DEF old
  <2>2. /\ Without(old, {c}) \in Seq(Nat)
        /\ ToSet(Without(old, {c})) = ToSet(old) \ {c}
        /\ IsInjective(Without(old, {c}))
    BY <2>1, WithoutKeeps
  <2>3. QED
    BY <2>2 DEF old
<1> HIDE DEF cols
<1>5. q \in Workspace /\ q.cols = cols /\ q.flt = r.flt /\ q.mon = r.mon
  BY <1>2, <1>4 DEF Workspace
<1> HIDE DEF q
<1>6. /\ DOMAIN t.workspaces = DOMAIN s.workspaces
      /\ \A v \in DOMAIN s.workspaces : /\ t.workspaces[v].mon = s.workspaces[v].mon
                                        /\ t.workspaces[v].flt = s.workspaces[v].flt
      /\ t.workspaces[w].cols = cols
      /\ \A v \in DOMAIN s.workspaces \ {w} : t.workspaces[v].cols = s.workspaces[v].cols
  BY <1>1, <1>5 DEF Put
<1>7. /\ DOMAIN t.columns = DOMAIN s.columns \ {c}
      /\ \A k \in DOMAIN t.columns : t.columns[k] = s.columns[k]
  BY <1>1 DEF Drop
<1>8. c \in DOMAIN s.columns /\ x \in ToSet(s.columns[c].wins)
  BY DEF Arranged, Placed, WindowFits
<1>9. \A v \in DOMAIN s.workspaces : ToSet(t.workspaces[v].cols) = ToSet(s.workspaces[v].cols) \ {c}
  <2>1. ASSUME NEW v \in DOMAIN s.workspaces, v # w PROVE c \notin ToSet(s.workspaces[v].cols)
    BY <1>8, <2>1 DEF Arranged, Placed, WorkspaceFits
  <2>2. QED
    BY <1>4, <1>6, <2>1
<1>10. ASSUME NEW k \in DOMAIN t.columns PROVE ColumnFits(t, k, {x})
  <2>1. ColumnFits(s, k, {}) /\ k # c /\ t.columns[k] = s.columns[k]
    BY <1>7 DEF Arranged, Placed
  <2>2. ASSUME NEW y \in ToSet(s.columns[k].wins)
        PROVE  /\ y \in DOMAIN t.windows \ {x}
               /\ t.windows[y].col = k
               /\ t.windows[y].ws \in DOMAIN t.workspaces
               /\ k \in ToSet(t.workspaces[t.windows[y].ws].cols)
    <3>1. /\ y \in DOMAIN s.windows /\ s.windows[y].col = k
          /\ s.windows[y].ws \in DOMAIN s.workspaces
          /\ k \in ToSet(s.workspaces[s.windows[y].ws].cols)
      BY <2>1, <2>2 DEF ColumnFits
    <3>2. y # x
      BY <2>1, <3>1
    <3>3. k \in ToSet(t.workspaces[s.windows[y].ws].cols)
      BY <1>9, <2>1, <3>1
    <3>4. QED
      BY <1>1, <1>6, <3>1, <3>2, <3>3
  <2>3. QED
    BY <2>1, <2>2 DEF ColumnFits
<1>11. ASSUME NEW v \in DOMAIN t.workspaces PROVE WorkspaceFits(t, v, {x})
  <2>1. WorkspaceFits(s, v, {}) /\ v \in DOMAIN s.workspaces
    BY <1>6 DEF Arranged, Placed
  <2>2. IsInjective(t.workspaces[v].cols) /\ IsInjective(t.workspaces[v].flt)
    BY <1>4, <1>6, <2>1 DEF WorkspaceFits
  <2>3. ASSUME NEW k \in ToSet(t.workspaces[v].cols)
        PROVE  /\ k \in DOMAIN t.columns
               /\ \A y \in ToSet(t.columns[k].wins) : t.windows[y].ws = v
    <3>1. k \in ToSet(s.workspaces[v].cols) /\ k # c
      BY <1>9, <2>1
    <3>2. k \in DOMAIN t.columns
      BY <1>7, <2>1, <3>1 DEF WorkspaceFits
    <3>3. QED
      BY <1>1, <1>7, <2>1, <3>1, <3>2 DEF WorkspaceFits
  <2>4. ASSUME NEW y \in ToSet(t.workspaces[v].flt)
        PROVE  y \in DOMAIN t.windows \ {x} /\ t.windows[y].col = None /\ t.windows[y].ws = v
    BY <1>1, <1>6, <2>1 DEF WorkspaceFits
  <2>5. QED
    BY <2>2, <2>3, <2>4 DEF WorkspaceFits
<1>12. ASSUME NEW y \in DOMAIN t.windows \ {x} PROVE WindowFits(t, y)
  <2>1. WindowFits(s, y) /\ t.windows = s.windows
    BY <1>1 DEF Arranged, Placed
  <2>2. s.windows[y].col # c
    BY <2>1, NoneIsNoId DEF WindowFits
  <2>3. s.windows[y].col # None => /\ s.windows[y].col \in DOMAIN t.columns
                                   /\ t.columns[s.windows[y].col] = s.columns[s.windows[y].col]
    BY <1>7, <2>1, <2>2 DEF WindowFits
  <2>4. t.windows[y] = s.windows[y]
    BY <2>1
  <2>5. t.windows[y].col # None =>
          /\ t.windows[y].col \in DOMAIN t.columns
          /\ y \in ToSet(t.columns[t.windows[y].col].wins)
          /\ t.windows[y].restore = NoRestore
    BY <2>1, <2>3, <2>4 DEF WindowFits
  <2>6. t.windows[y].managed =>
          /\ t.windows[y].ws \in DOMAIN t.workspaces
          /\ t.windows[y].col = None => y \in ToSet(t.workspaces[t.windows[y].ws].flt)
    BY <1>6, <2>1, <2>4 DEF WindowFits
  <2>7. QED
    BY <2>1, <2>4, <2>5, <2>6 DEF WindowFits
<1>13. StateType(t)
  <2>1. IsMap(s.workspaces, Nat, Workspace) /\ IsMap(s.columns, Nat, Column)
    BY DEF Arranged, StateType
  <2>2. IsMap(t.workspaces, Nat, Workspace) /\ IsMap(t.columns, Nat, Column)
    BY <1>1, <1>2, <1>5, <2>1, PutType, MapsKeepTypes
  <2>3. QED
    BY <1>1, <2>2 DEF Arranged, StateType
<1>14. Shape(t) /\ IsFiniteSet(DOMAIN t.columns)
  <2>1. \A v \in DOMAIN t.workspaces : t.workspaces[v] \in Workspace
    BY <1>13, TypeLookups
  <2>2. IsFiniteSet(DOMAIN t.columns)
    BY <1>7, FS_Subset DEF Arranged
  <2>3. QED
    BY <1>1, <1>6, <2>1, <2>2 DEF Arranged, Shape, Workspace
<1>15. QED
  BY <1>1, <1>6, <1>7, <1>10, <1>11, <1>12, <1>13, <1>14 DEF Arranged, Placed, Leaves, t

\* A window leaves a column that others stay in.
LEMMA LeaveSharedColumnArranged ==
  ASSUME NEW s, Arranged(s, {}), NEW x \in DOMAIN s.windows,
         s.windows[x].ws \in DOMAIN s.workspaces, NEW c, c = s.windows[x].col, c # None,
         ~(ToSet(s.columns[c].wins) \subseteq {x})
  PROVE  LET t == LeaveSharedColumn(s, c, x)
         IN  Arranged(t, {x}) /\ Leaves(s, t) /\ t.workspaces = s.workspaces
<1> DEFINE r == s.columns[c]
           left == Without(r.wins, {x})
           tab == IF r.tab = x THEN left[1] ELSE r.tab
           n == [r EXCEPT !.wins = left, !.tab = tab,
                          !.active = IF r.active = x THEN tab ELSE r.active]
           t == LeaveSharedColumn(s, c, x)
<1>1. /\ DOMAIN t = DOMAIN s
      /\ t.columns = Put(s.columns, c, n) /\ t.windows = s.windows
      /\ t.workspaces = s.workspaces
      /\ t.sets = s.sets /\ t.focus = s.focus
      /\ t.overview = s.overview /\ t.session = s.session
  BY DEF Arranged, Shape, LeaveSharedColumn, SetColumn
<1> HIDE DEF t
<1>2. c \in DOMAIN s.columns /\ ColumnFits(s, c, {})
  BY DEF Arranged, Placed, WindowFits
<1>3. c \in Nat /\ r \in Column /\ r.wins \in Seq(Nat) /\ r.active \in Nat /\ r.tab \in Nat
  BY <1>2, TypeLookups DEF Arranged, Column
<1>4. /\ left \in Seq(Nat) /\ ToSet(left) = ToSet(r.wins) \ {x} /\ IsInjective(left)
      /\ left # <<>> /\ left[1] \in ToSet(left)
  <2> DEFINE old == r.wins
  <2>1. old \in Seq(Nat) /\ IsInjective(old)
    BY <1>2, <1>3 DEF ColumnFits
  <2> HIDE DEF old
  <2>2. /\ Without(old, {x}) \in Seq(Nat)
        /\ ToSet(Without(old, {x})) = ToSet(old) \ {x}
        /\ IsInjective(Without(old, {x}))
    BY <2>1, WithoutKeeps
  <2>3. left \in Seq(Nat) /\ ToSet(left) = ToSet(r.wins) \ {x} /\ IsInjective(left)
    BY <2>2 DEF old
  <2> HIDE DEF left
  <2>4. ToSet(left) # {}
    BY <2>3
  <2>5. \A q \in Seq(Nat) : ToSet(q) # {} => q # <<>> /\ q[1] \in ToSet(q)
    <3>1. TAKE q \in Seq(Nat)
    <3>2. HAVE ToSet(q) # {}
    <3>3. DOMAIN q # {}
      BY <3>2 DEF ToSet
    <3>4. q # <<>> /\ 1 \in DOMAIN q
      BY <3>3
    <3>5. QED
      BY <3>4 DEF ToSet
  <2>6. QED
    BY <2>3, <2>4, <2>5
<1> HIDE DEF left
<1>5. left[1] \in Nat
  BY <1>4
<1>6. n \in Column /\ n.wins = left /\ {n.active, n.tab} \subseteq ToSet(left)
  <2>0. r.active \in ToSet(r.wins) /\ r.tab \in ToSet(r.wins)
    BY <1>2 DEF ColumnFits
  <2>1. tab \in Nat /\ tab \in ToSet(left)
    BY <1>3, <1>4, <1>5, <2>0
  <2> HIDE DEF tab
  <2>2. (IF r.active = x THEN tab ELSE r.active) \in ToSet(left) \intersect Nat
    BY <1>3, <1>4, <2>0, <2>1
  <2>3. QED
    BY <1>3, <1>4, <2>1, <2>2 DEF Column
<1> HIDE DEF n
<1>7. /\ DOMAIN t.columns = DOMAIN s.columns
      /\ t.columns[c] = n
      /\ \A k \in DOMAIN s.columns \ {c} : t.columns[k] = s.columns[k]
  BY <1>1, <1>2 DEF Put
<1>8. ASSUME NEW k \in DOMAIN t.columns PROVE ColumnFits(t, k, {x})
  <2>1. ColumnFits(s, k, {}) /\ k \in DOMAIN s.columns
    BY <1>7 DEF Arranged, Placed
  <2>2. CASE k = c
    <3>1. \A y \in ToSet(left) : y \in ToSet(s.columns[k].wins) /\ y # x
      BY <1>4, <2>2
    <3>2. t.columns[k] = n
      BY <1>7, <2>2
    <3>3. QED
      BY <1>1, <1>4, <1>6, <2>1, <3>1, <3>2 DEF ColumnFits
  <2>3. CASE k # c
    BY <1>1, <1>7, <2>1, <2>3 DEF ColumnFits
  <2>4. QED
    BY <2>2, <2>3
<1>9. ASSUME NEW v \in DOMAIN t.workspaces PROVE WorkspaceFits(t, v, {x})
  <2>1. WorkspaceFits(s, v, {}) /\ t.workspaces = s.workspaces /\ v \in DOMAIN s.workspaces
    BY <1>1 DEF Arranged, Placed
  <2>2. \A k \in DOMAIN s.columns : ToSet(t.columns[k].wins) \subseteq ToSet(s.columns[k].wins)
    BY <1>4, <1>6, <1>7
  <2>3. ASSUME NEW k \in ToSet(t.workspaces[v].cols)
        PROVE  k \in DOMAIN t.columns /\ \A y \in ToSet(t.columns[k].wins) : t.windows[y].ws = v
    <3>1. k \in DOMAIN s.columns /\ \A y \in ToSet(s.columns[k].wins) : s.windows[y].ws = v
      BY <1>1, <2>1 DEF WorkspaceFits
    <3>2. QED
      BY <1>1, <1>7, <2>2, <3>1
  <2>4. ASSUME NEW y \in ToSet(t.workspaces[v].flt)
        PROVE  y \in DOMAIN t.windows \ {x} /\ t.windows[y].col = None /\ t.windows[y].ws = v
    BY <1>1, <2>1 DEF WorkspaceFits
  <2>5. IsInjective(t.workspaces[v].cols) /\ IsInjective(t.workspaces[v].flt)
    BY <2>1 DEF WorkspaceFits
  <2>6. QED
    BY <2>3, <2>4, <2>5 DEF WorkspaceFits
<1>10. ASSUME NEW y \in DOMAIN t.windows \ {x} PROVE WindowFits(t, y)
  <2>1. WindowFits(s, y) /\ t.windows = s.windows
    BY <1>1 DEF Arranged, Placed
  <2>2. \A k \in DOMAIN s.columns :
          ToSet(s.columns[k].wins) \ {x} \subseteq ToSet(t.columns[k].wins)
    BY <1>4, <1>6, <1>7
  <2>3. QED
    BY <1>1, <1>7, <2>1, <2>2 DEF WindowFits
<1>11. StateType(t)
  <2>1. IsMap(s.columns, Nat, Column)
    BY DEF Arranged, StateType
  <2>2. IsMap(t.columns, Nat, Column)
    BY <1>1, <1>3, <1>6, <2>1, PutType
  <2>3. QED
    BY <1>1, <2>2 DEF Arranged, StateType
<1>12. Shape(t) /\ IsFiniteSet(DOMAIN t.columns)
  BY <1>1, <1>7 DEF Arranged, Shape
<1>13. QED
  BY <1>1, <1>8, <1>9, <1>10, <1>11, <1>12 DEF Arranged, Placed, Leaves, t

\* detach_window_membership: the window is loose, and its column, if it is still
\* there, is still in the strip.
LEMMA DetachArranged ==
  ASSUME NEW s, Arranged(s, {}), NEW x \in DOMAIN s.windows,
         NEW w \in DOMAIN s.workspaces, w = s.windows[x].ws
  PROVE  LET t == DetachWindow(s, x)
         IN  /\ Arranged(t, {x}) /\ Leaves(s, t)
             /\ s.windows[x].col \in DOMAIN t.columns =>
                  s.windows[x].col \in ToSet(t.workspaces[w].cols)
<1> DEFINE c == s.windows[x].col
           t == DetachWindow(s, x)
<1>1. CASE c = None
  <2>1. t = LeaveFloating(s, w, x)
    BY <1>1 DEF DetachWindow
  <2>2. Arranged(t, {x}) /\ Leaves(s, t)
    BY <1>1, <2>1, LeaveFloatingArranged
  <2> HIDE DEF t
  <2>3. c \notin DOMAIN t.columns
    BY <1>1, <2>2, TypeLookups, NoneIsNoId DEF Arranged
  <2>4. QED
    BY <2>2, <2>3 DEF t
<1>2. CASE c # None /\ ToSet(s.columns[c].wins) \subseteq {x}
  BY <1>2, LeaveOwnColumnArranged DEF DetachWindow
<1>3. CASE c # None /\ ~(ToSet(s.columns[c].wins) \subseteq {x})
  <2>1. t = LeaveSharedColumn(s, c, x)
    BY <1>3 DEF DetachWindow
  <2>2. Arranged(t, {x}) /\ Leaves(s, t) /\ t.workspaces = s.workspaces
    BY <1>3, <2>1, LeaveSharedColumnArranged
  <2>3. c \in ToSet(s.workspaces[w].cols)
    <3>1. WindowFits(s, x)
      BY DEF Arranged, Placed
    <3>2. QED
      BY <1>3, <3>1 DEF WindowFits, Arranged, Placed, ColumnFits
  <2> HIDE DEF t
  <2>4. QED
    BY <2>2, <2>3 DEF t
<1>4. QED
  BY <1>1, <1>2, <1>3

\* What forgetting a window leaves alone.
Forgets(s, t, x) ==
  /\ t.windows = Drop(s.windows, {x}) /\ t.columns = s.columns
  /\ t.sets = s.sets /\ t.focus = s.focus
  /\ t.overview = s.overview /\ t.session = s.session
  /\ DOMAIN t.workspaces = DOMAIN s.workspaces
  /\ \A v \in DOMAIN s.workspaces : /\ t.workspaces[v].mon = s.workspaces[v].mon
                                    /\ t.workspaces[v].cols = s.workspaces[v].cols
                                    /\ t.workspaces[v].flt = s.workspaces[v].flt

\* A loose window is forgotten.
LEMMA ForgetArranged ==
  ASSUME NEW s, NEW x \in Nat, Arranged(s, {x}), NEW w \in DOMAIN s.workspaces, NEW c
  PROVE  LET t == Forget(s, w, x, c)
         IN  Arranged(t, {}) /\ Forgets(s, t, x)
<1> DEFINE r == s.workspaces[w]
           a == IF r.remWin = x THEN None ELSE r.remWin
           b == IF r.remCol = c /\ c \notin ToSet(r.cols) THEN None ELSE r.remCol
           q == [r EXCEPT !.remWin = a, !.remCol = b]
           t == Forget(s, w, x, c)
<1>1. /\ DOMAIN t = DOMAIN s
      /\ t.columns = s.columns /\ t.windows = Drop(s.windows, {x})
      /\ t.workspaces = Put(s.workspaces, w, q)
      /\ t.sets = s.sets /\ t.focus = s.focus
      /\ t.overview = s.overview /\ t.session = s.session
  BY DEF Arranged, Shape, Forget, SetWorkspace
<1> HIDE DEF t
<1>2. w \in Nat /\ r \in Workspace
  BY TypeLookups DEF Arranged
<1>3. a \in Option(Nat) /\ b \in Option(Nat)
  BY <1>2 DEF Workspace, Option
<1> HIDE DEF a, b
<1>4. q \in Workspace /\ q.cols = r.cols /\ q.flt = r.flt /\ q.mon = r.mon
  BY <1>2, <1>3 DEF Workspace
<1> HIDE DEF q
<1>5. /\ DOMAIN t.workspaces = DOMAIN s.workspaces
      /\ \A v \in DOMAIN s.workspaces : /\ t.workspaces[v].mon = s.workspaces[v].mon
                                        /\ t.workspaces[v].cols = s.workspaces[v].cols
                                        /\ t.workspaces[v].flt = s.workspaces[v].flt
  BY <1>1, <1>4 DEF Put
<1>6. /\ DOMAIN t.windows = DOMAIN s.windows \ {x}
      /\ \A y \in DOMAIN t.windows : t.windows[y] = s.windows[y]
  BY <1>1 DEF Drop
<1>7. ASSUME NEW k \in DOMAIN t.columns PROVE ColumnFits(t, k, {})
  <2>1. ColumnFits(s, k, {x}) /\ t.columns = s.columns
    BY <1>1 DEF Arranged, Placed
  <2>2. QED
    BY <1>5, <1>6, <2>1 DEF ColumnFits
<1>8. ASSUME NEW v \in DOMAIN t.workspaces PROVE WorkspaceFits(t, v, {})
  <2>1. WorkspaceFits(s, v, {x}) /\ v \in DOMAIN s.workspaces /\ t.columns = s.columns
    BY <1>1, <1>5 DEF Arranged, Placed
  <2>2. ASSUME NEW k \in ToSet(s.workspaces[v].cols)
        PROVE  /\ k \in DOMAIN t.columns
               /\ \A y \in ToSet(t.columns[k].wins) : t.windows[y].ws = v
    <3>1. k \in DOMAIN s.columns /\ \A y \in ToSet(s.columns[k].wins) : s.windows[y].ws = v
      BY <2>1 DEF WorkspaceFits
    <3>2. \A y \in ToSet(s.columns[k].wins) : y \in DOMAIN s.windows \ {x}
      BY <3>1 DEF Arranged, Placed, ColumnFits
    <3>3. QED
      BY <1>6, <2>1, <3>1, <3>2
  <2>3. \A y \in ToSet(s.workspaces[v].flt) :
          y \in DOMAIN t.windows /\ t.windows[y].col = None /\ t.windows[y].ws = v
    BY <1>6, <2>1 DEF WorkspaceFits
  <2>4. QED
    BY <1>5, <2>1, <2>2, <2>3 DEF WorkspaceFits
<1>9. ASSUME NEW y \in DOMAIN t.windows PROVE WindowFits(t, y)
  <2>1. WindowFits(s, y) /\ t.windows[y] = s.windows[y]
    BY <1>6 DEF Arranged, Placed
  <2>2. QED
    BY <1>1, <1>5, <2>1 DEF WindowFits
<1>10. StateType(t)
  <2>1. IsMap(s.workspaces, Nat, Workspace) /\ IsMap(s.windows, Nat, Window)
    BY DEF Arranged, StateType
  <2>2. IsMap(t.workspaces, Nat, Workspace) /\ IsMap(t.windows, Nat, Window)
    BY <1>1, <1>2, <1>4, <2>1, PutType, MapsKeepTypes
  <2>3. QED
    BY <1>1, <2>2 DEF Arranged, StateType
<1>11. Shape(t) /\ IsFiniteSet(DOMAIN t.columns)
  <2>1. \A v \in DOMAIN t.workspaces : t.workspaces[v] \in Workspace
    BY <1>10, TypeLookups
  <2>2. IsFiniteSet(DOMAIN t.windows)
    BY <1>6, FS_Subset DEF Arranged, Shape
  <2>3. QED
    BY <1>1, <1>5, <2>1, <2>2 DEF Arranged, Shape, Workspace
<1>12. QED
  BY <1>1, <1>5, <1>7, <1>8, <1>9, <1>10, <1>11 DEF Arranged, Placed, Forgets, t

\* A focus on another window is none the worse when one is forgotten, whichever list
\* it left.
LEMMA FocusSurvives ==
  ASSUME NEW s, NEW t, NEW x, FocusFits(s), s.focus.win # x, t.focus = s.focus,
         t.windows = Drop(s.windows, {x}), t.sets = s.sets,
         DOMAIN t.workspaces = DOMAIN s.workspaces,
         \A v \in DOMAIN s.workspaces : t.workspaces[v].mon = s.workspaces[v].mon
  PROVE  FocusFits(t)
<1> DEFINE y == s.focus.win
<1>1. CASE y = None
  BY <1>1 DEF FocusFits
<1>2. CASE y # None
  <2>1. /\ y \in DOMAIN s.windows /\ s.windows[y].col = s.focus.col
        /\ s.windows[y].ws \in DOMAIN s.workspaces
        /\ s.workspaces[s.windows[y].ws].mon = s.focus.mon
        /\ s.sets[s.focus.mon].active = s.windows[y].ws
    BY <1>2 DEF FocusFits
  <2>2. y \in DOMAIN t.windows /\ t.windows[y] = s.windows[y]
    BY <2>1 DEF Drop
  <2>3. QED
    BY <1>2, <2>1, <2>2 DEF FocusFits
<1>3. QED
  BY <1>1, <1>2

\* retarget_focus_after_destroy: whatever had the focus, it is coherent now.
LEMMA RetargetArranged ==
  ASSUME NEW s, Sound(s), Arranged(s, {}), NEW w \in DOMAIN s.workspaces,
         NEW p, p \in DOMAIN s.columns => p \in ToSet(s.workspaces[w].cols)
  PROVE  Arranged(RetargetFocus(s, w, p), {}) /\ FocusFits(RetargetFocus(s, w, p))
<1> DEFINE r == s.workspaces[w]
           c == IF p \in DOMAIN s.columns THEN p
                ELSE IF r.cols # <<>> THEN r.cols[1] ELSE None
           t == RetargetFocus(s, w, p)
           m == r.mon
<1>1. m \in DOMAIN s.sets
  BY SoundLookups
<1>2. t = IF c # None THEN FocusWindow(s, m, w, ColumnActiveWindow(s.columns[c]), c)
          ELSE IF r.flt # <<>> THEN FocusWindow(s, m, w, r.flt[1], None)
          ELSE SetFocus(s, m, None, None)
  BY DEF RetargetFocus
<1>3. c # None => c \in ToSet(r.cols)
  BY ListTypes DEF Arranged
<1>4. ASSUME NEW y \in DOMAIN s.windows, s.windows[y].ws = w, NEW k, k = s.windows[y].col
      PROVE  Arranged(FocusWindow(s, m, w, y, k), {}) /\ FocusFits(FocusWindow(s, m, w, y, k))
  <2>1. y \in DOMAIN s.windows \ {}
    OBVIOUS
  <2>2. QED
    BY <1>1, <1>4, <2>1, FocusWindowArranged, FocusWindowFits
<1> HIDE DEF t, c
<1>5. CASE c # None
  <2> DEFINE y == ColumnActiveWindow(s.columns[c])
  <2>1. y \in DOMAIN s.windows /\ s.windows[y].ws = w /\ c = s.windows[y].col
    BY <1>3, <1>5, ShownInStrip
  <2> HIDE DEF y
  <2>2. QED
    BY <1>2, <1>4, <1>5, <2>1 DEF y, t
<1>6. CASE c = None /\ r.flt # <<>>
  <2>1. r.flt[1] \in ToSet(r.flt)
    BY <1>6, ListTypes DEF Arranged
  <2>2. r.flt[1] \in DOMAIN s.windows /\ s.windows[r.flt[1]].ws = w
        /\ None = s.windows[r.flt[1]].col
    BY <2>1, FloatingInList
  <2>3. QED
    BY <1>2, <1>4, <1>6, <2>2 DEF t
<1>7. CASE c = None /\ r.flt = <<>>
  <2>1. t = SetFocus(s, m, None, None)
    BY <1>2, <1>7
  <2>2. m \in Option(Monitors) /\ None \in Option(Nat)
    BY <1>1, TypeLookups DEF Arranged, Option
  <2>3. Arranged(t, {}) /\ t.focus.win = None /\ t.focus.col = None
    BY <2>1, <2>2, SetFocusArranged
  <2>4. QED
    BY <2>3 DEF FocusFits, t
<1>8. QED
  BY <1>5, <1>6, <1>7

---------------------------------------------------------------------------
(* The handlers of the platform's events.                                  *)

\* What the store keeps between two events.
InOrder(s) == Sound(s) /\ Arranged(s, {}) /\ FocusFits(s)

\* A monitor of a state in order is normalised.
LEMMA NormalizeInOrder ==
  ASSUME NEW s, InOrder(s), NEW m \in DOMAIN s.sets
  PROVE  InOrder(NormalizeWorkspaceSet(s, m))
BY NormalizeSound, NormalizeArranged, NormalizeKeepsFocus DEF InOrder, Sound

\* A monitor is plugged in with an empty workspace; the focus stays where it is.
LEMMA PluggedArranged ==
  ASSUME NEW s, InOrder(s), NEW m \in Monitors, m \notin DOMAIN s.sets
  PROVE  Arranged(Plugged(s, m), {}) /\ FocusFits(Plugged(s, m))
<1> DEFINE t == Plugged(s, m)
           v == FreshWorkspace(s)
           r == [order |-> <<v>>, active |-> v]
           e == EmptyWorkspace(m)
           k == IF s.focus.mon = None THEN m ELSE s.focus.mon
<1>1. /\ Sound(s) /\ Arranged(s, {}) /\ FocusFits(s) /\ StateType(s) /\ Shape(s)
  BY DEF InOrder, Arranged
<1>2. v \in Nat /\ v \notin DOMAIN s.workspaces
  BY <1>1, FreshWorkspaceIsNew
<1>3. /\ t.columns = s.columns /\ t.windows = s.windows
      /\ t.workspaces = Put(s.workspaces, v, e)
      /\ t.sets = Put(s.sets, m, r)
      /\ t.focus.activeBy = Put(s.focus.activeBy, m, v)
      /\ t.focus.mon = k /\ t.focus.win = s.focus.win /\ t.focus.col = s.focus.col
      /\ t.overview = s.overview /\ t.session = s.session
  BY <1>1 DEF Plugged, Shape
<1>4. Shape(t)
  BY PluggedSound, SoundShape, <1>1
<1> HIDE DEF v
<1>5. r \in WorkspaceSet
  BY <1>2 DEF WorkspaceSet
<1>6. e \in Workspace
  BY DEF EmptyWorkspace, Workspace, Option
<1>7. k \in Option(Monitors)
  BY <1>1 DEF StateType, Option
<1> HIDE DEF t, r
<1>8. SameLists(s, t)
  BY <1>2, <1>3 DEF SameLists, Cols, Flt, Put, EmptyWorkspace
<1> HIDE DEF e
<1>9. StateType(t)
  <2>1. /\ IsMap(s.workspaces, Nat, Workspace) /\ IsMap(s.sets, Monitors, WorkspaceSet)
        /\ IsMap(s.focus.activeBy, Monitors, Nat)
    BY <1>1 DEF StateType
  <2>2. /\ IsMap(t.workspaces, Nat, Workspace) /\ IsMap(t.sets, Monitors, WorkspaceSet)
        /\ IsMap(t.focus.activeBy, Monitors, Nat)
    BY <1>2, <1>3, <1>5, <1>6, <2>1, PutType
  <2>3. QED
    BY <1>1, <1>3, <1>7, <2>2 DEF StateType
<1>10. Arranged(t, {})
  BY <1>1, <1>4, <1>8, <1>9, SameListsArranged
<1>11. FocusFits(t)
  <2> DEFINE x == s.focus.win
             w == s.windows[x].ws
  <2>1. ASSUME x # None
        PROVE  /\ k = s.focus.mon
               /\ w \in DOMAIN t.workspaces /\ t.workspaces[w].mon = k
               /\ t.sets[k].active = w
    <3>1. w \in DOMAIN s.workspaces /\ s.workspaces[w].mon = s.focus.mon
          /\ s.sets[s.focus.mon].active = w
      BY <1>1, <2>1 DEF FocusFits
    <3>2. s.focus.mon \in DOMAIN s.sets
      BY <1>1, <3>1, SoundLookups
    <3>3. s.focus.mon # None /\ s.focus.mon # m
      BY <1>1, <3>2, TypeLookups, MonitorsAssumption, NoneIsNoId
    <3> HIDE DEF w
    <3>4. QED
      BY <1>2, <1>3, <3>1, <3>2, <3>3 DEF Put
  <2>2. QED
    BY <1>1, <1>3, <2>1 DEF FocusFits
<1>12. QED
  BY <1>10, <1>11 DEF t

\* A monitor that is plugged in, with its set and its first workspace, leaves the order.
LEMMA AddMonitorInOrder ==
  ASSUME NEW s, InOrder(s), NEW m \in Monitors, m \notin DOMAIN s.sets
  PROVE  InOrder(AddMonitor(s, m))
<1> DEFINE p == Plugged(s, m)
<1>1. Sound(p) /\ m \in DOMAIN p.sets
  BY PluggedSound DEF InOrder
<1>2. InOrder(p)
  BY <1>1, PluggedArranged DEF InOrder
<1>3. AddMonitor(s, m) = NormalizeWorkspaceSet(p, m)
  BY DEF AddMonitor, Plugged
<1> HIDE DEF p
<1>4. QED
  BY <1>1, <1>2, <1>3, NormalizeInOrder

---------------------------------------------------------------------------
(* Placing a window. *)

\* The place of an insertion is in or just behind the strip.
LEMMA InsertPositionInside ==
  ASSUME NEW s, StateType(s), NEW w \in DOMAIN s.workspaces, IsInjective(s.workspaces[w].cols),
         NEW override \in Option(Nat \ {0}), NEW anchor \in Option(Nat), NEW before \in BOOLEAN
  PROVE  InsertPosition(s, w, override, anchor, before) \in 1..(Len(s.workspaces[w].cols) + 1)
<1> DEFINE cols == s.workspaces[w].cols
           p == Position(cols, anchor)
<1>1. cols \in Seq(Nat) /\ IsInjective(cols)
  BY ListTypes
<1>2. InsertPosition(s, w, override, anchor, before)
        = IF override # None THEN (IF override < Len(cols) + 1 THEN override ELSE Len(cols) + 1)
          ELSE IF anchor \in ToSet(cols) THEN p + (IF before THEN 0 ELSE 1)
          ELSE IF before THEN 1 ELSE Len(cols) + 1
  BY DEF InsertPosition
<1> HIDE DEF cols
<1>3. Len(cols) \in Nat /\ DOMAIN cols = 1..Len(cols)
  BY <1>1
<1>4. anchor \in ToSet(cols) => p \in 1..Len(cols)
  BY <1>1, <1>3, PositionFinds
<1> HIDE DEF p
<1>5. override # None => override \in Nat /\ override # 0
  BY DEF Option
<1>6. InsertPosition(s, w, override, anchor, before) \in 1..(Len(cols) + 1)
  BY <1>2, <1>3, <1>4, <1>5
<1>7. QED
  BY <1>6 DEF cols

\* The place of a window that leaves it.
LEMMA PlaceOfFits ==
  ASSUME NEW s, Arranged(s, {}), NEW x \in DOMAIN s.windows, s.windows[x].ws \in DOMAIN s.workspaces
  PROVE  LET p == PlaceOf(s, x)
         IN  /\ p \in RestoreTarget
             /\ p.ws = s.windows[x].ws /\ p.layer = s.windows[x].layer
             /\ p.idx \in Option(Nat \ {0})
<1> DEFINE r == s.windows[x]
           cols == s.workspaces[r.ws].cols
           i == IF r.col = None THEN None ELSE Position(cols, r.col)
<1>1. r \in Window /\ r.ws \in Nat /\ r.col \in Option(Nat) /\ r.layer \in Layers
  BY TypeLookups DEF Arranged, Window
<1>2. i \in Option(Nat \ {0})
  <2>1. CASE r.col = None
    BY <2>1 DEF Option
  <2>2. CASE r.col # None
    <3>1. cols \in Seq(Nat) /\ IsInjective(cols)
      BY ListTypes DEF Arranged, Placed, WorkspaceFits
    <3>2. r.col \in ToSet(cols)
      <4>1. WindowFits(s, x)
        BY DEF Arranged, Placed
      <4>2. QED
        BY <2>2, <4>1 DEF WindowFits, Arranged, Placed, ColumnFits
    <3> HIDE DEF cols
    <3>3. Position(cols, r.col) \in DOMAIN cols
      BY <3>1, <3>2, PositionFinds
    <3>4. Position(cols, r.col) \in Nat \ {0}
      BY <3>1, <3>3
    <3>5. QED
      BY <2>2, <3>4 DEF Option
  <2>3. QED
    BY <2>1, <2>2
<1>3. PlaceOf(s, x) = [ws |-> r.ws, col |-> r.col, layer |-> r.layer, idx |-> i]
  BY DEF PlaceOf
<1> HIDE DEF i, r
<1>4. QED
  BY <1>1, <1>2, <1>3 DEF RestoreTarget, Option, r

\* The focused column of a workspace is one of its strip.
LEMMA FocusedColumnType ==
  ASSUME NEW s, StateType(s), NEW w
  PROVE  /\ FocusedColumnIn(s, w) \in Option(Nat)
         /\ FocusedColumnIn(s, w) # None =>
              w \in DOMAIN s.workspaces /\ FocusedColumnIn(s, w) \in ToSet(s.workspaces[w].cols)
BY DEF FocusedColumnIn, StateType, Option

\* The place of a window that comes back is in its workspace.
LEMMA RestoreOfFits ==
  ASSUME NEW s, Arranged(s, {}), NEW x \in DOMAIN s.windows, s.windows[x].ws \in DOMAIN s.workspaces
  PROVE  LET p == RestoreOf(s, x)
         IN  /\ p.ws = s.windows[x].ws /\ p.layer \in Layers
             /\ p.idx \in Option(Nat \ {0})
<1> DEFINE r == s.windows[x]
           p == PlaceOf(s, x)
           f == FocusedColumnIn(s, r.ws)
<1>1. CASE r.restore # NoRestore
  <2>1. r.restore \in RestoreTarget
    BY TypeLookups DEF Arranged, Window
  <2>2. WindowFits(s, x)
    BY DEF Arranged, Placed
  <2>3. QED
    BY <1>1, <2>1, <2>2 DEF WindowFits, RestoreFits, RestoreOf, RestoreTarget, Option
<1>2. CASE r.restore = NoRestore
  <2>1. /\ p \in RestoreTarget /\ p.ws = r.ws /\ p.idx \in Option(Nat \ {0})
    BY PlaceOfFits
  <2>2. RestoreOf(s, x) = [p EXCEPT !.col = f, !.layer = "Tiled"]
    BY <1>2 DEF RestoreOf
  <2> HIDE DEF p, f
  <2>3. QED
    BY <2>1, <2>2 DEF RestoreTarget, Layers
<1>3. QED
  BY <1>1, <1>2

\* restore_window_to_target: the loose window stands in its workspace again.
LEMMA RestoreArranged ==
  ASSUME NEW s, NEW x \in Nat, Arranged(s, {x}), NEW w \in DOMAIN s.workspaces,
         NEW target, target.ws = w, target.layer \in Layers, target.idx \in Option(Nat \ {0}),
         NEW node \in Window, node.ws = w, node.col = RestoreWindow(s, x, target).col,
         node.restore = NoRestore
  PROVE  LET t == SetWindow(RestoreWindow(s, x, target).st, x, node)
         IN  Arranged(t, {}) /\ Enters(s, t, x, node)
<1> DEFINE at == InsertPosition(s, w, target.idx, None, FALSE)
           p == RestoreWindow(s, x, target)
<1>1. p = IF target.layer = "Floating" THEN [st |-> PushFloating(s, w, x), col |-> None]
          ELSE IF target.col \in ToSet(s.workspaces[w].cols)
          THEN [st |-> JoinColumn(s, target.col, x), col |-> target.col]
          ELSE [st |-> InsertNewColumn(s, w, x, DefaultMode, at), col |-> FreshColumn(s)]
  BY DEF RestoreWindow
<1> HIDE DEF p
<1>2. CASE target.layer = "Floating"
  <2>1. p.st = PushFloating(s, w, x) /\ p.col = None
    BY <1>1, <1>2
  <2>2. RestoreFits(node) /\ node.col = None
    BY <2>1 DEF RestoreFits, p
  <2>3. QED
    BY <2>1, <2>2, PushArranged DEF p
<1>3. CASE target.layer # "Floating" /\ target.col \in ToSet(s.workspaces[w].cols)
  <2>1. p.st = JoinColumn(s, target.col, x) /\ p.col = target.col
    BY <1>1, <1>3
  <2>2. node.col = target.col
    BY <2>1 DEF p
  <2>3. QED
    BY <1>3, <2>1, <2>2, JoinArranged DEF p
<1>4. CASE target.layer # "Floating" /\ target.col \notin ToSet(s.workspaces[w].cols)
  <2>1. p.st = InsertNewColumn(s, w, x, DefaultMode, at) /\ p.col = FreshColumn(s)
    BY <1>1, <1>4
  <2>2. at \in 1..(Len(s.workspaces[w].cols) + 1)
    <3>1. StateType(s) /\ IsInjective(s.workspaces[w].cols) /\ None \in Option(Nat)
          /\ FALSE \in BOOLEAN
      BY DEF Arranged, Placed, WorkspaceFits, Option
    <3>2. QED
      BY <3>1, InsertPositionInside
  <2>3. node.col = FreshColumn(s)
    BY <2>1 DEF p
  <2> HIDE DEF at
  <2>4. QED
    BY <2>1, <2>2, <2>3, NewColumnArranged, DefaultModeAssumption DEF p
<1>5. QED
  BY <1>2, <1>3, <1>4

\* What opens a window: the payload of WindowDiscovered.
Payload(d) ==
  /\ d.managed \in BOOLEAN /\ d.layer \in Layers /\ d.mode \in Modes
  /\ d.placement \in {"After", "Before", "End", "Join"}

\* The index a fullscreen window left at is one of a strip.
LEMMA FullscreenRestoreFits ==
  ASSUME NEW s, Arranged(s, {}), NEW w
  PROVE  /\ FullscreenRestore(s, w).idx \in Option(Nat \ {0})
         /\ FullscreenRestore(s, w).col \in Option(Nat)
<1> DEFINE x == s.focus.win
           r == s.windows[x].restore
<1>1. CASE FullscreenRestore(s, w) = NoRestore
  BY <1>1 DEF NoRestore, Option
<1>2. CASE FullscreenRestore(s, w) # NoRestore
  <2>1. FullscreenRestore(s, w) = r /\ x \in DOMAIN s.windows
    BY <1>2 DEF FullscreenRestore, FullscreenFocusIn, FocusedWindowIn
  <2>2. r \in RestoreTarget
    BY <2>1, TypeLookups DEF Arranged, Window
  <2>3. WindowFits(s, x)
    BY <2>1 DEF Arranged, Placed
  <2>4. r.idx # 0
    BY <1>2, <2>1, <2>3 DEF WindowFits, RestoreFits
  <2> HIDE DEF r
  <2>5. QED
    BY <2>1, <2>2, <2>4 DEF RestoreTarget, Option
<1>3. QED
  BY <1>1, <1>2

\* A discovered window stands in the workspace that is shown.
LEMMA DiscoveredArranged ==
  ASSUME NEW s, Arranged(s, {}), NEW x \in Nat, x \notin DOMAIN s.windows,
         NEW w \in DOMAIN s.workspaces, NEW d, Payload(d),
         NEW node \in Window, node.ws = w, node.col = PlaceDiscovered(s, w, x, d).col,
         node.managed = d.managed, node.restore = NoRestore
  PROVE  LET t == SetWindow(PlaceDiscovered(s, w, x, d).st, x, node)
         IN  Arranged(t, {}) /\ Enters(s, t, x, node)
<1> DEFINE p == PlaceDiscovered(s, w, x, d)
           f == FocusedColumnIn(s, w)
           anchor == IF NextToAnchor(d) THEN DiscoveryAnchor(s, w) ELSE None
           override == IF NextToAnchor(d) /\ anchor = None
                       THEN FullscreenRestore(s, w).idx ELSE None
           mode == IF d.placement = "Join" THEN "Normal" ELSE d.mode
           before == d.placement = "Before"
           at == InsertPosition(s, w, override, anchor, before)
<1>1. p = IF ~d.managed THEN [st |-> s, col |-> None]
          ELSE IF d.layer = "Tiled"
          THEN (IF d.placement = "Join" /\ f # None
                THEN [st |-> JoinColumn(s, f, x), col |-> f]
                ELSE [st |-> InsertNewColumn(s, w, x, mode, at), col |-> FreshColumn(s)])
          ELSE [st |-> PushFloating(s, w, x), col |-> None]
  BY DEF PlaceDiscovered, PlaceTiled
<1>2. Arranged(s, {x})
  BY UnknownIsLoose
<1>3. RestoreFits(node)
  BY DEF RestoreFits
<1>4. at \in 1..(Len(s.workspaces[w].cols) + 1)
  <2>1. f \in Option(Nat) /\ FullscreenRestore(s, w).idx \in Option(Nat \ {0})
        /\ FullscreenRestore(s, w).col \in Option(Nat)
    BY FocusedColumnType, FullscreenRestoreFits DEF Arranged
  <2>2. anchor \in Option(Nat)
    BY <2>1 DEF DiscoveryAnchor, Option
  <2> HIDE DEF anchor
  <2>3. override \in Option(Nat \ {0})
    BY <2>1 DEF Option
  <2>4. before \in BOOLEAN
    OBVIOUS
  <2> HIDE DEF override, before
  <2>5. StateType(s) /\ IsInjective(s.workspaces[w].cols)
    BY DEF Arranged, Placed, WorkspaceFits
  <2>6. QED
    BY <2>2, <2>3, <2>4, <2>5, InsertPositionInside
<1>5. mode \in Modes
  BY DEF Payload, Modes
<1> HIDE DEF at, mode, p
<1>6. CASE ~d.managed
  <2>1. p.st = s /\ node.col = None /\ ~node.managed
    BY <1>1, <1>6 DEF p
  <2>2. QED
    BY <1>2, <1>3, <2>1, UnlistedArranged DEF p
<1>7. CASE d.managed /\ d.layer # "Tiled"
  <2>1. p.st = PushFloating(s, w, x) /\ node.col = None
    BY <1>1, <1>7 DEF p
  <2>2. QED
    BY <1>2, <1>3, <2>1, PushArranged DEF p
<1>8. CASE d.managed /\ d.layer = "Tiled" /\ d.placement = "Join" /\ f # None
  <2>1. p.st = JoinColumn(s, f, x) /\ node.col = f
    BY <1>1, <1>8 DEF p
  <2>2. f \in ToSet(s.workspaces[w].cols)
    BY <1>8, FocusedColumnType DEF Arranged
  <2> HIDE DEF f
  <2>3. QED
    BY <1>2, <2>1, <2>2, JoinArranged DEF p
<1>9. CASE d.managed /\ d.layer = "Tiled" /\ ~(d.placement = "Join" /\ f # None)
  <2>1. p.st = InsertNewColumn(s, w, x, mode, at) /\ node.col = FreshColumn(s)
    BY <1>1, <1>9 DEF p
  <2>2. QED
    BY <1>2, <1>4, <1>5, <2>1, NewColumnArranged DEF p
<1>10. QED
  BY <1>6, <1>7, <1>8, <1>9

\* A window that enters or leaves a list changes no workspace's monitor.
LEMMA EntersAlike ==
  ASSUME NEW s, NEW t, NEW x, NEW node, Arranged(t, {}), Enters(s, t, x, node)
  PROVE  Alike(s, t)
BY DEF Arranged, Enters, Alike

\* The focus stays coherent while another window is given a record.
LEMMA FocusEnters ==
  ASSUME NEW s, NEW t, NEW x, NEW node, FocusFits(s), Enters(s, t, x, node), s.focus.win # x
  PROVE  FocusFits(t)
<1> DEFINE y == s.focus.win
<1>1. CASE y = None
  BY <1>1 DEF FocusFits, Enters
<1>2. CASE y # None
  <2>1. /\ y \in DOMAIN s.windows /\ s.windows[y].col = s.focus.col
        /\ s.windows[y].ws \in DOMAIN s.workspaces
        /\ s.workspaces[s.windows[y].ws].mon = s.focus.mon
        /\ s.sets[s.focus.mon].active = s.windows[y].ws
    BY <1>2 DEF FocusFits
  <2>2. y \in DOMAIN t.windows /\ t.windows[y] = s.windows[y]
    BY <2>1 DEF Enters, Put
  <2>3. t.workspaces[s.windows[y].ws].mon = s.workspaces[s.windows[y].ws].mon
    BY <2>1 DEF Enters
  <2>4. QED
    BY <1>2, <2>1, <2>2, <2>3 DEF FocusFits, Enters
<1>3. QED
  BY <1>1, <1>2

\* Showing again what is shown.
LEMMA ShowAgain ==
  ASSUME NEW s, InOrder(s), NEW m \in DOMAIN s.sets, NEW w, w = s.sets[m].active
  PROVE  LET t == PutActive(s, m, w)
         IN  /\ InOrder(t)
             /\ t.windows = s.windows /\ t.workspaces = s.workspaces /\ DOMAIN t.sets = DOMAIN s.sets
<1> DEFINE t == PutActive(s, m, w)
<1>1. Sound(s) /\ Arranged(s, {}) /\ FocusFits(s)
  BY DEF InOrder
<1>2. w \in ToSet(s.sets[m].order) /\ w \in DOMAIN s.workspaces
  BY <1>1, SoundLookups
<1>3. w \in Nat
  BY <1>1, <1>2, TypeLookups DEF Arranged
<1>4. Sound(t)
  BY <1>1, <1>2, PutActiveSound
<1>5. /\ Arranged(t, {}) /\ SameLists(s, t)
      /\ t.focus.mon = s.focus.mon /\ t.focus.win = s.focus.win /\ t.focus.col = s.focus.col
      /\ t.workspaces = s.workspaces
      /\ DOMAIN t.sets = DOMAIN s.sets
      /\ t.sets[m].active = w
      /\ \A k \in DOMAIN s.sets \ {m} : t.sets[k] = s.sets[k]
  BY <1>1, <1>3, PutActiveArranged
<1> HIDE DEF t
<1>6. t.windows = s.windows
  BY <1>5 DEF SameLists
<1>7. \A k \in DOMAIN s.sets : t.sets[k].active = s.sets[k].active
  BY <1>5
<1>8. FocusFits(t)
  <2>1. ASSUME s.focus.win # None PROVE s.focus.mon \in DOMAIN s.sets
    BY <1>1, <2>1, SoundLookups DEF FocusFits
  <2>2. QED
    BY <1>1, <1>5, <1>6, <1>7, <2>1 DEF FocusFits
<1>9. QED
  BY <1>4, <1>5, <1>6, <1>8 DEF InOrder, t

\* A window of a state in order is focused on its own workspace.
LEMMA FocusWindowInOrder ==
  ASSUME NEW s, InOrder(s), NEW x \in DOMAIN s.windows, NEW w \in DOMAIN s.workspaces,
         w = s.windows[x].ws, NEW m, m = s.workspaces[w].mon, NEW c, c = s.windows[x].col
  PROVE  InOrder(FocusWindow(s, m, w, x, c)) /\ DOMAIN FocusWindow(s, m, w, x, c).sets = DOMAIN s.sets
<1>1. Sound(s) /\ Arranged(s, {}) /\ FocusFits(s)
  BY DEF InOrder
<1>2. m \in DOMAIN s.sets /\ x \in DOMAIN s.windows \ {}
  BY <1>1, SoundLookups
<1>3. Sound(FocusWindow(s, m, w, x, c)) /\ DOMAIN FocusWindow(s, m, w, x, c).sets = DOMAIN s.sets
  BY <1>1, FocusWindowSound
<1>4. Arranged(FocusWindow(s, m, w, x, c), {})
  BY <1>1, <1>2, FocusWindowArranged
<1>5. FocusFits(FocusWindow(s, m, w, x, c))
  BY <1>1, <1>2, FocusWindowFits
<1>6. QED
  BY <1>3, <1>4, <1>5 DEF InOrder

\* Settle keeps the state.
LEMMA SettleInOrder ==
  ASSUME NEW s, InOrder(s), NEW w
  PROVE  InOrder(Settle(s, w).st)
BY SettleState

\* handle_window_discovered
LEMMA WindowDiscoveredInOrder ==
  ASSUME NEW s, InOrder(s), NEW d, d.mon \in DOMAIN s.sets, Payload(d)
  PROVE  InOrder(WindowDiscovered(s, d).st)
<1> DEFINE m      == d.mon
           w      == ActiveWorkspace(s, m)
           x      == FreshWindow(s)
           placed == PlaceDiscovered(s, w, x, d)
           node   == [layer |-> d.layer, ws |-> w, col |-> placed.col, managed |-> d.managed,
                      flt |-> d.layer = "Floating", full |-> d.layer = "Fullscreen",
                      restore |-> NoRestore]
           added  == SetWindow(placed.st, x, node)
           active == PutActive(added, m, w)
           focused == IF d.managed /\ ~KeepsFocus(s, w, d)
                      THEN FocusWindow(active, m, w, x, placed.col) ELSE active
           final  == NormalizeWorkspaceSet(focused, m)
<1>1. WindowDiscovered(s, d).st = final
  BY SettleState DEF WindowDiscovered, Ok
<1>2. Sound(s) /\ Arranged(s, {}) /\ FocusFits(s) /\ StateType(s) /\ Shape(s)
  BY DEF InOrder, Arranged
<1>3. w = s.sets[m].active /\ w \in DOMAIN s.workspaces /\ s.workspaces[w].mon = m
  BY <1>2, SoundLookups
<1>4. w \in Nat
  BY <1>2, <1>3, TypeLookups
<1>5. x \in Nat /\ x \notin DOMAIN s.windows
  BY <1>2, FreshWindowIsNew
<1> HIDE DEF w, x
<1>6. placed.col \in Option(Nat)
  <2>1. FreshColumn(s) \in Nat /\ FocusedColumnIn(s, w) \in Option(Nat)
    BY <1>2, FreshColumnIsNew, FocusedColumnType
  <2>2. placed.col \in {None, FreshColumn(s), FocusedColumnIn(s, w)}
    BY DEF PlaceDiscovered, PlaceTiled
  <2>3. QED
    BY <2>1, <2>2 DEF Option
<1>7. /\ node.ws = w /\ node.col = placed.col /\ node.managed = d.managed
      /\ node.restore = NoRestore
  OBVIOUS
<1>8. node \in Window
  <2>1. NoRestore \in RestoreTarget
    BY DEF NoRestore, RestoreTarget, Option
  <2> HIDE DEF placed
  <2>2. QED
    BY <1>4, <1>6, <2>1 DEF Window, Payload
<1> HIDE DEF node
<1>9. Arranged(added, {}) /\ Enters(s, added, x, node)
  BY <1>2, <1>3, <1>5, <1>7, <1>8, DiscoveredArranged
<1> HIDE DEF placed
<1> HIDE DEF added
<1>10. InOrder(added)
  <2>1. Sound(added)
    BY <1>2, <1>9, EntersAlike, AlikeSound
  <2>2. s.focus.win # x
    BY <1>2, <1>5, NoneIsNoId DEF FocusFits
  <2>3. FocusFits(added)
    BY <1>2, <1>9, <2>2, FocusEnters
  <2>4. QED
    BY <1>9, <2>1, <2>3 DEF InOrder
<1>11. /\ m \in DOMAIN added.sets /\ w = added.sets[m].active
       /\ x \in DOMAIN added.windows /\ added.windows[x] = node
       /\ w \in DOMAIN added.workspaces /\ added.workspaces[w].mon = m
  BY <1>3, <1>9 DEF Enters, Put
<1>12. /\ InOrder(active) /\ DOMAIN active.sets = DOMAIN added.sets
       /\ active.windows = added.windows /\ active.workspaces = added.workspaces
  BY <1>10, <1>11, ShowAgain
<1> HIDE DEF active
<1>13. InOrder(FocusWindow(active, m, w, x, placed.col))
       /\ DOMAIN FocusWindow(active, m, w, x, placed.col).sets = DOMAIN active.sets
  <2>1. /\ x \in DOMAIN active.windows /\ w \in DOMAIN active.workspaces
        /\ w = active.windows[x].ws /\ m = active.workspaces[w].mon
        /\ placed.col = active.windows[x].col
    BY <1>7, <1>11, <1>12
  <2> HIDE DEF m
  <2>2. QED
    BY <1>12, <2>1, FocusWindowInOrder
<1>14. InOrder(focused) /\ m \in DOMAIN focused.sets
  BY <1>11, <1>12, <1>13
<1> HIDE DEF focused
<1>15. InOrder(final)
  BY <1>14, NormalizeInOrder
<1>16. QED
  BY <1>1, <1>15

\* A window that is detached and forgotten leaves everything in its place.
LEMMA ForgottenArranged ==
  ASSUME NEW s, InOrder(s), NEW x \in DOMAIN s.windows, s.windows[x].ws \in DOMAIN s.workspaces
  PROVE  LET w == s.windows[x].ws
             c == s.windows[x].col
             g == Forget(DetachWindow(s, x), w, x, c)
         IN  /\ Sound(g) /\ Arranged(g, {})
             /\ g.sets = s.sets /\ g.focus = s.focus /\ g.windows = Drop(s.windows, {x})
             /\ DOMAIN g.workspaces = DOMAIN s.workspaces
             /\ \A v \in DOMAIN s.workspaces : g.workspaces[v].mon = s.workspaces[v].mon
             /\ c \in DOMAIN g.columns => c \in ToSet(g.workspaces[w].cols)
<1> DEFINE w == s.windows[x].ws
           c == s.windows[x].col
           k == DetachWindow(s, x)
           g == Forget(k, w, x, c)
<1>1. Sound(s) /\ Arranged(s, {})
  BY DEF InOrder
<1>2. /\ Arranged(k, {x}) /\ Leaves(s, k)
      /\ c \in DOMAIN k.columns => c \in ToSet(k.workspaces[w].cols)
  BY <1>1, DetachArranged
<1> HIDE DEF k
<1>3. w \in DOMAIN k.workspaces
  BY <1>2 DEF Leaves
<1> HIDE DEF w, c
<1>4. Arranged(g, {}) /\ Forgets(k, g, x)
  <2>1. Arranged(k, {x}) /\ x \in Nat
    BY <1>1, <1>2, TypeLookups DEF Arranged
  <2>2. QED
    BY <1>3, <2>1, ForgetArranged
<1> HIDE DEF g
<1>5. /\ g.sets = s.sets /\ g.focus = s.focus /\ g.windows = Drop(s.windows, {x})
      /\ DOMAIN g.workspaces = DOMAIN s.workspaces
      /\ \A v \in DOMAIN s.workspaces : g.workspaces[v].mon = s.workspaces[v].mon
  BY <1>2, <1>4 DEF Leaves, Forgets
<1>6. Alike(s, g)
  BY <1>4, <1>5 DEF Alike, Arranged
<1>7. Sound(g)
  BY <1>1, <1>6, AlikeSound
<1>8. w \in DOMAIN g.workspaces
      /\ (c \in DOMAIN g.columns => c \in ToSet(g.workspaces[w].cols))
  BY <1>2, <1>3, <1>4 DEF Forgets
<1>9. QED
  BY <1>4, <1>5, <1>7, <1>8 DEF g, k, w, c

\* handle_window_destroyed
LEMMA WindowDestroyedInOrder ==
  ASSUME NEW s, InOrder(s), NEW x \in DOMAIN s.windows
  PROVE  InOrder(WindowDestroyed(s, x).st)
<1> DEFINE w == s.windows[x].ws
           c == s.windows[x].col
           m == s.workspaces[w].mon
           g == Forget(DetachWindow(s, x), w, x, c)
           f == RetargetFrom(g, w, x, c)
<1>1. CASE w \notin DOMAIN s.workspaces
  BY <1>1 DEF WindowDestroyed, Err
<1>2. CASE w \in DOMAIN s.workspaces
  <2>1. Sound(s) /\ Arranged(s, {}) /\ FocusFits(s)
    BY DEF InOrder
  <2>2. m \in DOMAIN s.sets
    BY <1>2, <2>1, SoundLookups
  <2>3. WindowDestroyed(s, x).st = NormalizeWorkspaceSet(f, m)
    BY <1>2, SettleState DEF WindowDestroyed
  <2>4. /\ Sound(g) /\ Arranged(g, {})
        /\ g.sets = s.sets /\ g.focus = s.focus /\ g.windows = Drop(s.windows, {x})
        /\ DOMAIN g.workspaces = DOMAIN s.workspaces
        /\ \A v \in DOMAIN s.workspaces : g.workspaces[v].mon = s.workspaces[v].mon
        /\ c \in DOMAIN g.columns => c \in ToSet(g.workspaces[w].cols)
    BY <1>2, ForgottenArranged
  <2> HIDE DEF g, w, c, m
  <2>5. InOrder(f) /\ DOMAIN f.sets = DOMAIN g.sets
    <3>1. CASE g.focus.win = x
      <4>1. f = RetargetFocus(g, w, c)
        BY <3>1 DEF RetargetFrom
      <4>2. Arranged(f, {}) /\ FocusFits(f)
        BY <1>2, <2>4, <4>1, RetargetArranged
      <4>3. Sound(f) /\ DOMAIN f.sets = DOMAIN g.sets
        BY <1>2, <2>4, <4>1, RetargetSound
      <4>4. QED
        BY <4>2, <4>3 DEF InOrder
    <3>2. CASE g.focus.win # x
      <4>1. f = g
        BY <3>2 DEF RetargetFrom
      <4>2. FocusFits(g)
        BY <2>1, <2>4, <3>2, FocusSurvives
      <4>3. QED
        BY <2>4, <4>1, <4>2 DEF InOrder
    <3>3. QED
      BY <3>1, <3>2
  <2> HIDE DEF f
  <2>6. m \in DOMAIN f.sets
    BY <2>2, <2>4, <2>5
  <2>7. QED
    BY <2>3, <2>5, <2>6, NormalizeInOrder
<1>3. QED
  BY <1>1, <1>2

\* handle_window_focus_observed
LEMMA WindowFocusObservedInOrder ==
  ASSUME NEW s, InOrder(s), NEW x \in DOMAIN s.windows, s.windows[x].ws \in DOMAIN s.workspaces
  PROVE  InOrder(WindowFocusObserved(s, x).st)
<1> DEFINE w == s.windows[x].ws
<1>1. InOrder(FocusWindow(s, s.workspaces[w].mon, w, x, s.windows[x].col))
  BY FocusWindowInOrder
<1>2. QED
  BY <1>1, SettleState DEF WindowFocusObserved

---------------------------------------------------------------------------
(* The handlers of commands on workspaces.                                 *)

\* activate_workspace, in a state whose focus need not be coherent.
LEMMA ActivateInOrder ==
  ASSUME NEW s, Sound(s), Arranged(s, {}), NEW m \in DOMAIN s.sets, NEW w \in ToSet(s.sets[m].order)
  PROVE  InOrder(ActivateWorkspace(s, m, w)) /\ DOMAIN ActivateWorkspace(s, m, w).sets = DOMAIN s.sets
<1>1. w \in DOMAIN s.workspaces /\ s.workspaces[w].mon = m
  BY SoundLookups
<1>2. Arranged(ActivateWorkspace(s, m, w), {}) /\ FocusFits(ActivateWorkspace(s, m, w))
  BY <1>1, ActivateArranged
<1>3. Sound(ActivateWorkspace(s, m, w)) /\ DOMAIN ActivateWorkspace(s, m, w).sets = DOMAIN s.sets
  BY ActivateWorkspaceSound
<1>4. QED
  BY <1>2, <1>3 DEF InOrder

\* sync_overview_selection
LEMMA SyncOverviewInOrder ==
  ASSUME NEW s, InOrder(s), NEW m \in DOMAIN s.sets
  PROVE  InOrder(SyncOverview(s, m))
<1> DEFINE t == SyncOverview(s, m)
<1>1. Sound(s) /\ Arranged(s, {}) /\ FocusFits(s)
  BY DEF InOrder
<1>2. /\ Arranged(t, {}) /\ SameLists(s, t)
      /\ t.sets = s.sets /\ t.focus = s.focus /\ t.workspaces = s.workspaces
  BY <1>1, SyncOverviewArranged
<1>3. Sound(t)
  BY <1>1, SyncOverviewSound
<1> HIDE DEF t
<1>4. t.windows = s.windows
  BY <1>2 DEF SameLists
<1>5. FocusFits(t)
  BY <1>1, <1>2, <1>4, FocusElsewhereFits
<1>6. QED
  BY <1>2, <1>3, <1>5 DEF InOrder, t

\* The neighbouring workspace is activated.
LEMMA FocusWorkspaceInOrder ==
  ASSUME NEW s, InOrder(s), NEW forward \in BOOLEAN, NEW requested
  PROVE  InOrder(FocusWorkspace(s, forward, requested).st)
<1> DEFINE m     == CommandMonitor(s, requested)
           n     == NormalizeWorkspaceSet(s, m)
           order == n.sets[m].order
           w     == ActiveWorkspace(n, m)
           to    == order[StepWithin(Position(order, w), forward, Len(order))]
           a     == ActivateWorkspace(n, m, to)
<1>1. CASE m = None
  BY <1>1 DEF FocusWorkspace, Err
<1>2. CASE m # None
  <2>1. m \in DOMAIN s.sets
    BY <1>2, CommandMonitorKnown
  <2> HIDE DEF m
  <2>2. InOrder(n) /\ Sound(n) /\ Arranged(n, {}) /\ m \in DOMAIN n.sets
    BY <2>1, NormalizeInOrder, NormalizeSound DEF InOrder
  <2> HIDE DEF n
  <2>3. w \in ToSet(n.sets[m].order)
    BY <2>2, SoundLookups
  <2> HIDE DEF w
  <2>4. to \in ToSet(n.sets[m].order)
    BY <2>2, <2>3, NeighbourInOrder
  <2> HIDE DEF to
  <2>5. InOrder(a) /\ m \in DOMAIN a.sets
    BY <2>2, <2>4, ActivateInOrder
  <2> HIDE DEF a
  <2>6. InOrder(NormalizeWorkspaceSet(a, m))
    BY <2>5, NormalizeInOrder
  <2>7. QED
    BY <1>2, <2>2, <2>6, SettleInOrder DEF FocusWorkspace, a, to, w, n, m
<1>3. QED
  BY <1>1, <1>2

\* The order of a monitor changes.
LEMMA PutOrderArranged ==
  ASSUME NEW s, NEW L, Arranged(s, L), NEW m \in DOMAIN s.sets, NEW order \in Seq(Nat)
  PROVE  LET t == PutOrder(s, m, order)
         IN  /\ Arranged(t, L)
             /\ t.windows = s.windows /\ t.workspaces = s.workspaces /\ t.focus = s.focus
             /\ \A k \in DOMAIN s.sets : t.sets[k].active = s.sets[k].active
<1> DEFINE t == PutOrder(s, m, order)
           r == [order |-> order, active |-> s.sets[m].active]
<1>1. /\ DOMAIN t = DOMAIN s
      /\ t.columns = s.columns /\ t.windows = s.windows
      /\ t.workspaces = s.workspaces /\ t.sets = Put(s.sets, m, r)
      /\ t.focus = s.focus /\ t.overview = s.overview /\ t.session = s.session
  BY DEF Arranged, Shape, PutOrder
<1>2. m \in Monitors /\ r \in WorkspaceSet
  BY TypeLookups DEF Arranged, WorkspaceSet
<1>3. \A k \in DOMAIN s.sets : t.sets[k].active = s.sets[k].active
  BY <1>1 DEF Put
<1> HIDE DEF t, r
<1>4. SameLists(s, t)
  BY <1>1, SameWorkspacesLists
<1>5. Shape(t)
  BY <1>1 DEF Arranged, Shape
<1>6. StateType(t)
  <2>1. IsMap(s.sets, Monitors, WorkspaceSet)
    BY DEF Arranged, StateType
  <2>2. IsMap(t.sets, Monitors, WorkspaceSet)
    BY <1>1, <1>2, <2>1, PutType
  <2>3. QED
    BY <1>1, <2>2 DEF Arranged, StateType
<1>7. QED
  BY <1>1, <1>3, <1>4, <1>5, <1>6, SameListsArranged DEF t

\* A coherent focus does not depend on orders.
LEMMA FocusIgnoresOrders ==
  ASSUME NEW s, NEW t, Sound(s), FocusFits(s), t.windows = s.windows, t.focus = s.focus,
         t.workspaces = s.workspaces,
         \A k \in DOMAIN s.sets : t.sets[k].active = s.sets[k].active
  PROVE  FocusFits(t)
<1>1. s.focus.win # None => s.focus.mon \in DOMAIN s.sets
  BY SoundLookups DEF FocusFits
<1>2. QED
  BY <1>1 DEF FocusFits

\* The active workspace changes places with a neighbour.
LEMMA MoveWorkspaceInOrder ==
  ASSUME NEW s, InOrder(s), NEW forward \in BOOLEAN, NEW requested
  PROVE  InOrder(MoveWorkspaceWithinMonitor(s, forward, requested).st)
<1> DEFINE m     == CommandMonitor(s, requested)
           n     == NormalizeWorkspaceSet(s, m)
           order == n.sets[m].order
           w     == ActiveWorkspace(n, m)
           i     == Position(order, w)
           j     == StepWithin(i, forward, Len(order))
           new   == Swapped(order, i, j)
           moved == PutOrder(n, m, new)
           tidy  == NormalizeWorkspaceSet(moved, m)
<1>1. CASE m = None
  BY <1>1 DEF MoveWorkspaceWithinMonitor, Err
<1>2. CASE m # None
  <2>1. m \in DOMAIN s.sets
    BY <1>2, CommandMonitorKnown
  <2> HIDE DEF m
  <2>2. InOrder(n) /\ Sound(n) /\ Arranged(n, {}) /\ FocusFits(n) /\ m \in DOMAIN n.sets
    BY <2>1, NormalizeInOrder, NormalizeSound DEF InOrder
  <2> HIDE DEF n
  <2>3. w \in ToSet(n.sets[m].order)
    BY <2>2, SoundLookups
  <2> HIDE DEF w
  <2>4. i \in DOMAIN n.sets[m].order /\ j \in DOMAIN n.sets[m].order
    BY <2>2, <2>3, NeighbourInOrder
  <2> HIDE DEF i, j
  <2>5. Sound(moved) /\ m \in DOMAIN moved.sets
    BY <2>2, <2>4, SwappedOrderSound
  <2>6. new \in Seq(Nat)
    <3>1. order \in Seq(Nat)
      BY <2>2, TypeLookups DEF Arranged, WorkspaceSet
    <3> HIDE DEF order
    <3>2. QED
      BY <2>4, <3>1, SwappedKeeps DEF order
  <2> HIDE DEF new
  <2>7. /\ Arranged(moved, {})
        /\ moved.windows = n.windows /\ moved.workspaces = n.workspaces /\ moved.focus = n.focus
        /\ \A k \in DOMAIN n.sets : moved.sets[k].active = n.sets[k].active
    BY <2>2, <2>6, PutOrderArranged
  <2> HIDE DEF moved
  <2>8. InOrder(moved)
    BY <2>2, <2>5, <2>7, FocusIgnoresOrders DEF InOrder
  <2>9. InOrder(tidy) /\ m \in DOMAIN tidy.sets
    BY <2>5, <2>8, NormalizeInOrder, NormalizeSound
  <2> HIDE DEF tidy
  <2>10. InOrder(SyncOverview(tidy, m))
    BY <2>9, SyncOverviewInOrder
  <2>11. QED
    BY <1>2, <2>2, <2>10, SettleInOrder
       DEF MoveWorkspaceWithinMonitor, tidy, moved, new, j, i, w, n, m
<1>3. QED
  BY <1>1, <1>2

\* A workspace moves to another monitor with all it holds.
LEMMA RehostArranged ==
  ASSUME NEW s, Sound(s), Arranged(s, {}), NEW from \in DOMAIN s.sets, NEW to \in DOMAIN s.sets,
         from # to, NEW w \in ToSet(s.sets[from].order)
  PROVE  Arranged(RehostWorkspace(s, from, to, w), {})
<1> DEFINE source == s.sets[from].order
           target == s.sets[to].order
           left == Without(source, {w})
           joined == InsertAt(target, TailPosition(s, to), w)
           r1 == [order |-> left, active |-> s.sets[from].active]
           r2 == [order |-> joined, active |-> w]
           t == RehostWorkspace(s, from, to, w)
<1>1. /\ Shape(t)
      /\ t.columns = s.columns /\ t.windows = s.windows /\ t.focus = s.focus
      /\ t.overview = s.overview /\ t.session = s.session
      /\ t.workspaces = [k \in DOMAIN s.workspaces |->
                           IF k = w THEN [s.workspaces[k] EXCEPT !.mon = to] ELSE s.workspaces[k]]
      /\ t.sets = Put(Put(s.sets, from, r1), to, r2)
  <2>1. Shape(t)
    <3>1. Ring(t, {from, to})
      BY RehostRing
    <3> HIDE DEF t
    <3>2. QED
      BY <3>1 DEF Ring
  <2>2. Shape(s)
    BY SoundShape
  <2>3. t.sets = Put(Put(s.sets, from, r1), to, r2)
    BY <2>2 DEF Shape, RehostWorkspace, PutOrder
  <2>4. QED
    BY <2>1, <2>2, <2>3 DEF Shape, RehostWorkspace, PutOrder, Hosted
<1>2. /\ source \in Seq(Nat) /\ s.sets[from].active \in Nat /\ from \in Monitors
      /\ target \in Seq(Nat) /\ to \in Monitors
      /\ w \in DOMAIN s.workspaces
  BY TypeLookups, SoundLookups DEF Arranged, WorkspaceSet
<1>3. w \in Nat
  BY <1>2, TypeLookups DEF Arranged
<1> HIDE DEF t, source
<1>4. left \in Seq(Nat)
  BY <1>2, WithoutKeeps
<1>5. joined \in Seq(Nat)
  <2>1. TailPosition(s, to) \in 1..(Len(target) + 1)
    BY <1>2, TailPositionInside
  <2> HIDE DEF target
  <2>2. QED
    BY <1>2, <1>3, <2>1, InsertAtAdds
<1> HIDE DEF left, joined
<1>6. r1 \in WorkspaceSet /\ r2 \in WorkspaceSet
  BY <1>2, <1>3, <1>4, <1>5 DEF WorkspaceSet
<1> HIDE DEF r1, r2
<1>7. IsMap(t.sets, Monitors, WorkspaceSet)
  <2>1. IsMap(s.sets, Monitors, WorkspaceSet)
    BY DEF Arranged, StateType
  <2>2. IsMap(Put(s.sets, from, r1), Monitors, WorkspaceSet)
    BY <1>2, <1>6, <2>1, PutType
  <2>3. QED
    BY <1>1, <1>2, <1>6, <2>2, PutType
<1>8. ASSUME NEW v \in DOMAIN s.workspaces
      PROVE  /\ t.workspaces[v] \in Workspace
             /\ t.workspaces[v].cols = s.workspaces[v].cols
             /\ t.workspaces[v].flt = s.workspaces[v].flt
  <2> DEFINE r == [s.workspaces[v] EXCEPT !.mon = to]
  <2>1. s.workspaces[v] \in Workspace
    BY TypeLookups DEF Arranged
  <2>2. t.workspaces[v] = IF v = w THEN r ELSE s.workspaces[v]
    BY <1>1
  <2>3. r \in Workspace /\ r.cols = s.workspaces[v].cols /\ r.flt = s.workspaces[v].flt
    BY <1>2, <2>1 DEF Workspace
  <2> HIDE DEF r
  <2>4. QED
    BY <2>1, <2>2, <2>3
<1>9. t.workspaces = [v \in DOMAIN s.workspaces |-> t.workspaces[v]]
  BY <1>1
<1>10. QED
  BY <1>1, <1>7, <1>8, <1>9, WorkspaceFieldsArranged DEF t

\* A workspace a monitor shows crosses to another one, which shows it then.
LEMMA CrossingArranged ==
  ASSUME NEW s, InOrder(s), NEW from \in DOMAIN s.sets, NEW to \in DOMAIN s.sets, from # to,
         NEW w, w = s.sets[from].active
  PROVE  LET u == NormalizeBoth(RehostWorkspace(NormalizeBoth(s, from, to), from, to, w), from, to)
         IN  /\ Sound(u) /\ Arranged(u, {}) /\ DOMAIN u.sets = DOMAIN s.sets
             /\ u.sets[to].active = w /\ w \in ToSet(u.sets[to].order)
<1> DEFINE n1 == NormalizeWorkspaceSet(s, from)
           n2 == NormalizeWorkspaceSet(n1, to)
           t  == RehostWorkspace(n2, from, to, w)
           t1 == NormalizeWorkspaceSet(t, from)
           t2 == NormalizeWorkspaceSet(t1, to)
<1>1. NormalizeBoth(RehostWorkspace(NormalizeBoth(s, from, to), from, to, w), from, to) = t2
  BY DEF NormalizeBoth
<1>2. Sound(s)
  BY DEF InOrder
<1>3. /\ Sound(n1) /\ InOrder(n1)
      /\ DOMAIN n1.sets = DOMAIN s.sets /\ n1.sets[from].active = w
  BY <1>2, NormalizeSound, NormalizeInOrder
<1> HIDE DEF n1
<1>4. /\ Sound(n2) /\ InOrder(n2)
      /\ DOMAIN n2.sets = DOMAIN s.sets /\ n2.sets[from].active = w
  BY <1>3, NormalizeSound, NormalizeInOrder
<1> HIDE DEF n2
<1>5. w \in ToSet(n2.sets[from].order)
  BY <1>4, SoundLookups
<1>6. /\ Ring(t, {from, to})
      /\ DOMAIN t.sets = DOMAIN s.sets
      /\ t.sets[to].active = w
      /\ w \in ToSet(t.sets[to].order)
  BY <1>4, <1>5, RehostRing
<1>7. Arranged(t, {})
  BY <1>4, <1>5, RehostArranged DEF InOrder
<1> HIDE DEF t
<1> DEFINE U == {from, to}
           V == U \ {from}
           W == V \ {to}
<1>8. W = {}
  OBVIOUS
<1>9. Ring(t, U) /\ from \in DOMAIN t.sets /\ to \in DOMAIN t.sets \ {from}
  BY <1>6
<1> HIDE DEF U
<1>10. Ring(t1, V) /\ DOMAIN t1.sets = DOMAIN t.sets /\ t1.sets[to] = t.sets[to]
  BY <1>9, NormalizeRing
<1>11. Arranged(t1, {})
  BY <1>7, <1>9, NormalizeArranged
<1> HIDE DEF t1
<1>12. /\ Ring(t1, V) /\ to \in DOMAIN t1.sets
       /\ t1.sets[to].active = w /\ t1.sets[to].active \in ToSet(t1.sets[to].order)
  BY <1>6, <1>10
<1> HIDE DEF V
<1>13. Ring(t2, W) /\ DOMAIN t2.sets = DOMAIN t1.sets /\ t2.sets[to].active = w
  BY <1>12, NormalizeRing
<1>14. Arranged(t2, {})
  BY <1>11, <1>12, NormalizeArranged
<1> HIDE DEF t2, W
<1>15. Sound(t2)
  BY <1>8, <1>13 DEF Sound
<1>16. DOMAIN t2.sets = DOMAIN s.sets /\ w \in ToSet(t2.sets[to].order)
  BY <1>6, <1>10, <1>13, <1>15, SoundLookups
<1>17. QED
  BY <1>1, <1>13, <1>14, <1>15, <1>16

\* The active workspace moves to the next monitor, which shows it.
LEMMA MoveWorkspaceToMonitorInOrder ==
  ASSUME NEW s, InOrder(s), NEW forward \in BOOLEAN, NEW requested
  PROVE  InOrder(MoveWorkspaceToMonitor(s, forward, requested).st)
<1> DEFINE from == CommandMonitor(s, requested)
           to   == AdjacentMonitor(s, from, forward)
           w    == ActiveWorkspace(s, from)
           u    == NormalizeBoth(RehostWorkspace(NormalizeBoth(s, from, to), from, to, w), from, to)
           a    == ActivateWorkspace(u, to, w)
<1>1. CASE from = None
  BY <1>1 DEF MoveWorkspaceToMonitor, Err
<1>2. CASE from # None /\ from = to
  BY <1>2, SettleInOrder DEF MoveWorkspaceToMonitor
<1>3. CASE from # None /\ from # to
  <2>1. from \in DOMAIN s.sets
    BY <1>3, CommandMonitorKnown
  <2>2. to \in DOMAIN s.sets /\ from # to
    BY <1>3, <2>1, AdjacentMonitorKnown
  <2>3. w = s.sets[from].active
    BY <2>1, SoundLookups DEF InOrder
  <2>4. MoveWorkspaceToMonitor(s, forward, requested) = Settle(SyncOverview(a, from), w)
    BY <1>3 DEF MoveWorkspaceToMonitor
  <2> HIDE DEF from, to, w
  <2>5. /\ Sound(u) /\ Arranged(u, {}) /\ DOMAIN u.sets = DOMAIN s.sets
        /\ w \in ToSet(u.sets[to].order)
    BY <2>1, <2>2, <2>3, CrossingArranged
  <2> HIDE DEF u
  <2>6. InOrder(a) /\ DOMAIN a.sets = DOMAIN u.sets
    BY <2>2, <2>5, ActivateInOrder
  <2> HIDE DEF a
  <2>7. InOrder(SyncOverview(a, from))
    BY <2>1, <2>5, <2>6, SyncOverviewInOrder
  <2>8. QED
    BY <2>4, <2>7, SettleInOrder
<1>4. QED
  BY <1>1, <1>2, <1>3

---------------------------------------------------------------------------
(* Navigation. *)

\* A function on 1..n is a sequence of length n.
LEMMA FunctionLength ==
  ASSUME NEW n \in Nat, NEW f, f = [i \in 1..n |-> f[i]]
  PROVE  Len(f) = n /\ DOMAIN f = 1..n
<1> DEFINE T == {f[i] : i \in 1..n}
<1>1. \A i \in 1..n : f[i] \in T
  OBVIOUS
<1> HIDE DEF T
<1>2. f \in [1..n -> T]
  BY <1>1
<1>3. f \in Seq(T)
  BY <1>2
<1>4. QED
  BY <1>2, <1>3

\* The windows navigation walks through are those of the workspace, each once,
\* with their columns.
LEMMA NavigationFits ==
  ASSUME NEW s, Arranged(s, {}), NEW w \in DOMAIN s.workspaces
  PROVE  LET seq == NavigationSequence(s, w)
         IN  /\ Len(seq) \in Nat /\ DOMAIN seq = 1..Len(seq)
             /\ \A i \in DOMAIN seq : /\ seq[i].win \in DOMAIN s.windows
                                      /\ s.windows[seq[i].win].ws = w
                                      /\ seq[i].col = s.windows[seq[i].win].col
             /\ \A i, k \in DOMAIN seq : seq[i].win = seq[k].win => i = k
<1> DEFINE cols == s.workspaces[w].cols
           flt  == s.workspaces[w].flt
           seq  == NavigationSequence(s, w)
<1>1. cols \in Seq(Nat) /\ flt \in Seq(Nat) /\ IsInjective(cols) /\ IsInjective(flt)
  BY ListTypes DEF Arranged, Placed, WorkspaceFits
<1>2. CASE cols # <<>>
  <2>1. seq = [i \in DOMAIN cols |-> [win |-> ColumnActiveWindow(s.columns[cols[i]]),
                                      col |-> cols[i]]]
    BY <1>2 DEF NavigationSequence
  <2> HIDE DEF seq
  <2>0. ASSUME NEW k \in ToSet(cols)
        PROVE  /\ ColumnActiveWindow(s.columns[k]) \in DOMAIN s.windows
               /\ s.windows[ColumnActiveWindow(s.columns[k])].col = k
               /\ s.windows[ColumnActiveWindow(s.columns[k])].ws = w
    <3>1. WorkspaceFits(s, w, {})
      BY DEF Arranged, Placed
    <3>2. k \in DOMAIN s.columns /\ \A y \in ToSet(s.columns[k].wins) : s.windows[y].ws = w
      BY <3>1 DEF WorkspaceFits
    <3> HIDE DEF cols
    <3>3. QED
      BY <3>2, ShownWindow
  <2>2. ASSUME NEW i \in DOMAIN cols
        PROVE  /\ seq[i].win \in DOMAIN s.windows /\ s.windows[seq[i].win].ws = w
               /\ seq[i].col = s.windows[seq[i].win].col /\ seq[i].col = cols[i]
    <3>1. cols[i] \in ToSet(cols)
      BY DEF ToSet
    <3>2. seq[i].win = ColumnActiveWindow(s.columns[cols[i]]) /\ seq[i].col = cols[i]
      BY <2>1
    <3>3. /\ seq[i].win \in DOMAIN s.windows
          /\ s.windows[seq[i].win].col = cols[i] /\ s.windows[seq[i].win].ws = w
      BY <2>0, <3>1, <3>2
    <3>4. QED
      BY <3>2, <3>3
  <2>3. Len(seq) = Len(cols) /\ DOMAIN seq = 1..Len(cols)
    <3>1. Len(cols) \in Nat /\ DOMAIN cols = 1..Len(cols)
      BY <1>1
    <3>2. seq = [i \in 1..Len(cols) |-> seq[i]]
      BY <2>1, <3>1
    <3> HIDE DEF cols
    <3>3. QED
      BY <3>1, <3>2, FunctionLength
  <2>4. \A i, k \in DOMAIN cols : cols[i] = cols[k] => i = k
    BY <1>1 DEF IsInjective
  <2> HIDE DEF cols
  <2>5. QED
    BY <2>1, <2>2, <2>3, <2>4 DEF seq
<1>3. CASE cols = <<>>
  <2>1. seq = [i \in DOMAIN flt |-> [win |-> flt[i], col |-> None]]
    BY <1>3 DEF NavigationSequence
  <2> HIDE DEF seq
  <2>2. ASSUME NEW i \in DOMAIN flt
        PROVE  /\ seq[i].win \in DOMAIN s.windows /\ s.windows[seq[i].win].ws = w
               /\ seq[i].col = s.windows[seq[i].win].col /\ seq[i].win = flt[i]
    <3>1. flt[i] \in ToSet(flt)
      BY DEF ToSet
    <3>2. seq[i].win = flt[i] /\ seq[i].col = None
      BY <2>1
    <3>3. flt[i] \in DOMAIN s.windows /\ s.windows[flt[i]].col = None /\ s.windows[flt[i]].ws = w
      BY <3>1, FloatingInList
    <3>4. QED
      BY <3>2, <3>3
  <2>3. Len(seq) = Len(flt) /\ DOMAIN seq = 1..Len(flt)
    <3>1. Len(flt) \in Nat /\ DOMAIN flt = 1..Len(flt)
      BY <1>1
    <3>2. seq = [i \in 1..Len(flt) |-> seq[i]]
      BY <2>1, <3>1
    <3> HIDE DEF flt
    <3>3. QED
      BY <3>1, <3>2, FunctionLength
  <2>4. \A i, k \in DOMAIN flt : flt[i] = flt[k] => i = k
    BY <1>1 DEF IsInjective
  <2> HIDE DEF flt
  <2>5. QED
    BY <2>1, <2>2, <2>3, <2>4 DEF seq
<1>4. QED
  BY <1>2, <1>3

\* Navigation starts from an entry of the sequence.
LEMMA NavigationIndexInside ==
  ASSUME NEW seq, Len(seq) \in Nat, DOMAIN seq = 1..Len(seq), Len(seq) # 0, NEW x,
         \A i, k \in DOMAIN seq : seq[i].win = seq[k].win => i = k
  PROVE  NavigationIndex(seq, x) \in 1..Len(seq)
<1>1. CASE \E i \in DOMAIN seq : seq[i].win = x
  <2>1. PICK i \in DOMAIN seq : seq[i].win = x
    BY <1>1
  <2>2. \A k \in 1..(i - 1) : seq[k].win # x
    BY <2>1
  <2>3. QED
    BY <1>1, <2>1, <2>2 DEF NavigationIndex
<1>2. CASE ~ \E i \in DOMAIN seq : seq[i].win = x
  BY <1>2 DEF NavigationIndex
<1>3. QED
  BY <1>1, <1>2

\* The next tab of a column is one of its windows.
LEMMA NextTabFits ==
  ASSUME NEW s, Arranged(s, {}), NEW c \in DOMAIN s.columns, NEW forward \in BOOLEAN
  PROVE  NextTab(s.columns[c], forward) \in ToSet(s.columns[c].wins)
<1> DEFINE wins == s.columns[c].wins
           n    == Len(wins)
           i    == Position(wins, s.columns[c].tab)
<1>1. wins \in Seq(Nat) /\ IsInjective(wins) /\ s.columns[c].tab \in ToSet(wins)
  <2>1. s.columns[c] \in Column
    BY TypeLookups DEF Arranged
  <2>2. ColumnFits(s, c, {})
    BY DEF Arranged, Placed
  <2>3. QED
    BY <2>1, <2>2 DEF ColumnFits, Column
<1>2. NextTab(s.columns[c], forward) = IF forward THEN wins[(i % n) + 1]
                                       ELSE wins[IF i = 1 THEN n ELSE i - 1]
  BY DEF NextTab
<1> HIDE DEF wins
<1>3. i \in 1..n /\ n \in Nat /\ DOMAIN wins = 1..n
  BY <1>1, PositionFinds
<1> HIDE DEF i, n
<1>4. (i % n) + 1 \in 1..n
  <2>1. n \in Nat \ {0} /\ i \in Nat
    BY <1>3
  <2>2. i % n \in 0..(n - 1)
    BY <2>1
  <2>3. QED
    BY <2>1, <2>2
<1>5. (IF i = 1 THEN n ELSE i - 1) \in 1..n
  BY <1>3
<1>6. NextTab(s.columns[c], forward) \in ToSet(wins)
  BY <1>2, <1>3, <1>4, <1>5 DEF ToSet
<1>7. QED
  BY <1>6 DEF wins

\* handle_focus_navigation
LEMMA FocusNavigationInOrder ==
  ASSUME NEW s, InOrder(s), NEW forward \in BOOLEAN, NEW tabs \in BOOLEAN
  PROVE  InOrder(FocusNavigation(s, forward, tabs).st)
<1> DEFINE w   == CommandWorkspace(s)
           c   == FocusedColumnIn(s, w)
           m   == s.workspaces[w].mon
           seq == NavigationSequence(s, w)
           x   == FocusedWindowIn(s, w)
           i   == IF x # None THEN StepWithin(NavigationIndex(seq, x), forward, Len(seq))
                  ELSE IF forward THEN 1 ELSE Len(seq)
           y   == NextTab(s.columns[c], forward)
<1>0. Arranged(s, {})
  BY DEF InOrder
<1>1. CASE w \notin DOMAIN s.workspaces
  BY <1>1 DEF FocusNavigation, Err
<1>2. CASE w \in DOMAIN s.workspaces /\ CyclesTabs(s, w, tabs)
  <2>1. FocusNavigation(s, forward, tabs) = Settle(FocusWindow(s, m, w, y, c), w)
    BY <1>2 DEF FocusNavigation
  <2>2. c \in ToSet(s.workspaces[w].cols)
    BY <1>2 DEF CyclesTabs, FocusedColumnIn
  <2> HIDE DEF c
  <2>3. /\ c \in DOMAIN s.columns
        /\ \A k \in ToSet(s.columns[c].wins) : s.windows[k].ws = w
    BY <1>0, <1>2, <2>2 DEF Arranged, Placed, WorkspaceFits
  <2>4. y \in ToSet(s.columns[c].wins)
    BY <1>0, <2>3, NextTabFits
  <2> HIDE DEF y
  <2>5. y \in DOMAIN s.windows /\ s.windows[y].col = c /\ s.windows[y].ws = w
    BY <1>0, <2>3, <2>4 DEF Arranged, Placed, ColumnFits
  <2> HIDE DEF w
  <2>6. InOrder(FocusWindow(s, m, w, y, c))
    BY <1>2, <2>5, FocusWindowInOrder
  <2>7. QED
    BY <2>1, <2>6, SettleInOrder
<1>3. CASE w \in DOMAIN s.workspaces /\ ~CyclesTabs(s, w, tabs) /\ seq = <<>>
  <2>1. FocusNavigation(s, forward, tabs) = Settle(s, w)
    BY <1>3 DEF FocusNavigation
  <2>2. QED
    BY <2>1, SettleInOrder
<1>4. CASE w \in DOMAIN s.workspaces /\ ~CyclesTabs(s, w, tabs) /\ seq # <<>>
  <2>1. FocusNavigation(s, forward, tabs) = Settle(FocusWindow(s, m, w, seq[i].win, seq[i].col), w)
    BY <1>4 DEF FocusNavigation
  <2> HIDE DEF w, x
  <2>2. /\ Len(seq) \in Nat /\ DOMAIN seq = 1..Len(seq)
        /\ \A k \in DOMAIN seq : /\ seq[k].win \in DOMAIN s.windows
                                 /\ s.windows[seq[k].win].ws = w
                                 /\ seq[k].col = s.windows[seq[k].win].col
        /\ \A j, k \in DOMAIN seq : seq[j].win = seq[k].win => j = k
    BY <1>0, <1>4, NavigationFits
  <2>3. Len(seq) # 0
    BY <1>4 DEF NavigationSequence
  <2> HIDE DEF seq
  <2>4. i \in 1..Len(seq)
    <3>1. NavigationIndex(seq, x) \in 1..Len(seq)
      BY <2>2, <2>3, NavigationIndexInside
    <3>2. StepWithin(NavigationIndex(seq, x), forward, Len(seq)) \in 1..Len(seq)
      BY <2>2, <3>1, StepStays
    <3>3. 1 \in 1..Len(seq) /\ Len(seq) \in 1..Len(seq)
      BY <2>2, <2>3
    <3>4. QED
      BY <3>2, <3>3
  <2> HIDE DEF i
  <2>5. seq[i].win \in DOMAIN s.windows /\ s.windows[seq[i].win].ws = w
        /\ seq[i].col = s.windows[seq[i].win].col
    BY <2>2, <2>4
  <2>6. InOrder(FocusWindow(s, m, w, seq[i].win, seq[i].col))
    BY <1>4, <2>5, FocusWindowInOrder
  <2>7. QED
    BY <2>1, <2>6, SettleInOrder
<1>5. QED
  BY <1>1, <1>2, <1>3, <1>4

---------------------------------------------------------------------------
(* A column changes workspace. *)

\* A workspace whose strip loses column c, or has it wherever it was before.
SheddingColumn(r, q, c) ==
  /\ q \in Workspace /\ q.mon = r.mon /\ q.flt = r.flt
  /\ IsInjective(q.cols)
  /\ \A d : d \in ToSet(q.cols) <=> (d # c /\ d \in ToSet(r.cols))

GainingColumn(r, q, c) ==
  /\ q \in Workspace /\ q.mon = r.mon /\ q.flt = r.flt
  /\ IsInjective(q.cols)
  /\ \A d : d \in ToSet(q.cols) <=> (d = c \/ d \in ToSet(r.cols))

\* The strip a column leaves.
LEMMA ForgetColumnFits ==
  ASSUME NEW r \in Workspace, IsInjective(r.cols), NEW c, NEW wins
  PROVE  SheddingColumn(r, ForgetColumn(r, c, wins), c)
<1> DEFINE cols   == Without(r.cols, {c})
           remCol == IF r.remCol = c THEN None ELSE r.remCol
           remWin == IF r.remWin \in wins THEN None ELSE r.remWin
<1>1. r.cols \in Seq(Nat) /\ r.remCol \in Option(Nat) /\ r.remWin \in Option(Nat)
  BY DEF Workspace
<1>2. cols \in Seq(Nat) /\ IsInjective(cols) /\ ToSet(cols) = ToSet(r.cols) \ {c}
  BY <1>1, WithoutKeeps
<1>3. remCol \in Option(Nat) /\ remWin \in Option(Nat)
  BY <1>1 DEF Option
<1>4. ForgetColumn(r, c, wins) = [r EXCEPT !.cols = cols, !.remCol = remCol, !.remWin = remWin]
  BY DEF ForgetColumn
<1> HIDE DEF cols, remCol, remWin
<1>5. QED
  BY <1>2, <1>3, <1>4 DEF Workspace, SheddingColumn

\* The strip a column joins.
LEMMA TakeColumnFits ==
  ASSUME NEW r \in Workspace, IsInjective(r.cols), NEW c \in Nat, NEW after, NEW x \in Nat
  PROVE  GainingColumn(r, TakeColumn(r, c, after, x), c)
<1> DEFINE cols == Without(r.cols, {c})
           at   == IF after \in ToSet(cols) THEN Position(cols, after) + 1 ELSE Len(cols) + 1
           in   == InsertAt(cols, at, c)
<1>1. r.cols \in Seq(Nat)
  BY DEF Workspace
<1>2. cols \in Seq(Nat) /\ IsInjective(cols) /\ ToSet(cols) = ToSet(r.cols) \ {c}
  BY <1>1, WithoutKeeps
<1>3. TakeColumn(r, c, after, x) = [r EXCEPT !.cols = in, !.remCol = c, !.remWin = x]
  BY DEF TakeColumn
<1> HIDE DEF cols
<1>4. at \in 1..(Len(cols) + 1)
  <2>1. Len(cols) \in Nat /\ DOMAIN cols = 1..Len(cols)
    BY <1>2
  <2>2. after \in ToSet(cols) => Position(cols, after) \in 1..Len(cols)
    BY <1>2, <2>1, PositionFinds
  <2>3. QED
    BY <2>1, <2>2
<1> HIDE DEF at
<1>5. in \in Seq(Nat) /\ IsInjective(in) /\ ToSet(in) = ToSet(cols) \union {c}
  BY <1>2, <1>4, InsertAtAdds
<1>6. ToSet(in) = ToSet(r.cols) \union {c}
  BY <1>2, <1>5
<1> DEFINE q == [r EXCEPT !.cols = in, !.remCol = c, !.remWin = x]
<1> HIDE DEF in
<1>7. q \in Workspace /\ q.mon = r.mon /\ q.flt = r.flt /\ q.cols = in
  BY <1>5 DEF Workspace, Option
<1> HIDE DEF q
<1>8. GainingColumn(r, q, c)
  BY <1>5, <1>6, <1>7 DEF GainingColumn
<1>9. QED
  BY <1>3, <1>8 DEF q

\* The windows of a column are on one workspace, whose strip it stands in alone.
LEMMA ColumnStands ==
  ASSUME NEW s, Arranged(s, {}), NEW c \in DOMAIN s.columns
  PROVE  LET from == ColumnWorkspace(s, c)
             wins == ToSet(s.columns[c].wins)
         IN  /\ from \in DOMAIN s.workspaces
             /\ c \in ToSet(s.workspaces[from].cols)
             /\ \A v \in DOMAIN s.workspaces \ {from} : c \notin ToSet(s.workspaces[v].cols)
             /\ \A k \in wins : /\ k \in DOMAIN s.windows /\ s.windows[k].col = c
                                /\ s.windows[k].ws = from
             /\ \A k \in DOMAIN s.windows : s.windows[k].col = c => k \in wins
             /\ ColumnActiveWindow(s.columns[c]) \in wins
<1> DEFINE wins == ToSet(s.columns[c].wins)
           x == s.columns[c].wins[1]
           from == s.windows[x].ws
<1>1. ColumnFits(s, c, {}) /\ s.columns[c].wins \in Seq(Nat)
  BY TypeLookups DEF Arranged, Placed, Column
<1>2. x \in wins
  BY <1>1 DEF ColumnFits, ToSet
<1>3. /\ \A k \in wins : /\ k \in DOMAIN s.windows /\ s.windows[k].col = c
                         /\ s.windows[k].ws \in DOMAIN s.workspaces
                         /\ c \in ToSet(s.workspaces[s.windows[k].ws].cols)
  BY <1>1 DEF ColumnFits
<1>4. ColumnActiveWindow(s.columns[c]) \in wins
  BY <1>1 DEF ColumnFits, ColumnActiveWindow
<1>5. \A v \in DOMAIN s.workspaces : c \in ToSet(s.workspaces[v].cols) =>
        \A k \in wins : s.windows[k].ws = v
  BY DEF Arranged, Placed, WorkspaceFits
<1>6. from \in DOMAIN s.workspaces /\ c \in ToSet(s.workspaces[from].cols)
  BY <1>2, <1>3
<1>7. c # None
  BY TypeLookups, NoneIsNoId DEF Arranged
<1>8. \A k \in DOMAIN s.windows : s.windows[k].col = c => k \in wins
  BY <1>7 DEF Arranged, Placed, WindowFits
<1>9. ColumnWorkspace(s, c) = from
  BY DEF ColumnWorkspace
<1> HIDE DEF wins, x
<1>10. QED
  BY <1>2, <1>3, <1>4, <1>5, <1>6, <1>8, <1>9 DEF wins

\* A column moves with its windows to another place, perhaps of the same strip.
LEMMA TransferArranged ==
  ASSUME NEW s, Arranged(s, {}), NEW c \in DOMAIN s.columns, NEW to \in DOMAIN s.workspaces,
         NEW from, from = ColumnWorkspace(s, c), NEW after
  PROVE  Arranged(TransferColumn(s, c, from, to, after), {})
<1> DEFINE wins == ToSet(s.columns[c].wins)
           x    == ColumnActiveWindow(s.columns[c])
           r1   == ForgetColumn(s.workspaces[from], c, wins)
           f1   == Put(s.workspaces, from, r1)
           r2   == TakeColumn(f1[to], c, after, x)
           moved(r) == [r EXCEPT !.ws = to, !.col = c]
           h    == [k \in DOMAIN s.windows |->
                      IF k \in wins THEN moved(s.windows[k]) ELSE s.windows[k]]
           t    == TransferColumn(s, c, from, to, after)
<1>1. /\ from \in DOMAIN s.workspaces
      /\ c \in ToSet(s.workspaces[from].cols)
      /\ \A v \in DOMAIN s.workspaces \ {from} : c \notin ToSet(s.workspaces[v].cols)
      /\ \A k \in wins : /\ k \in DOMAIN s.windows /\ s.windows[k].col = c
                         /\ s.windows[k].ws = from
      /\ \A k \in DOMAIN s.windows : s.windows[k].col = c => k \in wins
      /\ x \in wins
  BY ColumnStands
<1>2. /\ t.workspaces = Put(f1, to, r2) /\ t.windows = h
      /\ t.columns = s.columns /\ t.sets = s.sets /\ t.focus = s.focus
      /\ t.overview = s.overview /\ t.session = s.session
  BY DEF Arranged, Shape, TransferColumn, SetWorkspace
<1>3. Shape(t)
  <2>1. Alike(s, t)
    BY <1>1, TransferColumnAlike DEF Arranged
  <2> HIDE DEF t
  <2>2. QED
    BY <2>1 DEF Alike
<1>4. /\ DOMAIN h = DOMAIN s.windows /\ h = [k \in DOMAIN s.windows |-> h[k]]
      /\ \A k \in DOMAIN s.windows \ wins : h[k] = s.windows[k]
      /\ \A k \in DOMAIN s.windows : k \in wins => h[k] = moved(s.windows[k])
  <2> HIDE DEF wins, moved
  <2>1. QED
    OBVIOUS
<1> HIDE DEF t, h
<1>5. /\ c \in Nat /\ x \in Nat /\ to \in Nat /\ c # None
      /\ \A v \in DOMAIN s.workspaces :
           s.workspaces[v] \in Workspace /\ IsInjective(s.workspaces[v].cols)
      /\ \A k \in DOMAIN s.windows : s.windows[k] \in Window
  BY <1>1, TypeLookups, NoneIsNoId DEF Arranged, Placed, WorkspaceFits
<1> HIDE DEF x, wins
<1>6. /\ r1 \in Workspace /\ r1.flt = s.workspaces[from].flt
      /\ IsInjective(r1.cols)
      /\ \A d : d \in ToSet(r1.cols) <=> (d # c /\ d \in ToSet(s.workspaces[from].cols))
  <2>1. s.workspaces[from] \in Workspace /\ IsInjective(s.workspaces[from].cols)
    BY <1>1, <1>5
  <2>2. SheddingColumn(s.workspaces[from], r1, c)
    BY <2>1, ForgetColumnFits
  <2> HIDE DEF r1
  <2>3. QED
    BY <2>2 DEF SheddingColumn
<1> HIDE DEF r1
<1>7. /\ DOMAIN f1 = DOMAIN s.workspaces
      /\ f1[from] = r1
      /\ \A v \in DOMAIN s.workspaces \ {from} : f1[v] = s.workspaces[v]
  BY <1>1 DEF Put
<1>8. IsMap(f1, Nat, Workspace)
  <2>1. IsMap(s.workspaces, Nat, Workspace) /\ from \in Nat
    BY <1>1, TypeLookups DEF Arranged, StateType
  <2>2. QED
    BY <1>6, <2>1, PutType
<1> HIDE DEF f1
<1>9. /\ f1[to] \in Workspace /\ f1[to].flt = s.workspaces[to].flt
      /\ IsInjective(f1[to].cols)
      /\ \A d : d \in ToSet(f1[to].cols) <=> (d # c /\ d \in ToSet(s.workspaces[to].cols))
  <2>1. CASE to = from
    BY <1>6, <1>7, <2>1
  <2>2. CASE to # from
    BY <1>1, <1>5, <1>7, <2>2
  <2>3. QED
    BY <2>1, <2>2
<1>10. /\ r2 \in Workspace /\ r2.flt = f1[to].flt
      /\ IsInjective(r2.cols)
      /\ \A d : d \in ToSet(r2.cols) <=> (d = c \/ d \in ToSet(f1[to].cols))
  <2>1. GainingColumn(f1[to], r2, c)
    BY <1>5, <1>9, TakeColumnFits
  <2> HIDE DEF r2
  <2>2. QED
    BY <2>1 DEF GainingColumn
<1> HIDE DEF r2
<1>11. /\ DOMAIN t.workspaces = DOMAIN s.workspaces
       /\ t.workspaces[to] = r2
       /\ \A v \in DOMAIN s.workspaces \ {to} : t.workspaces[v] = f1[v]
  BY <1>2, <1>7 DEF Put
<1>12. ASSUME NEW v \in DOMAIN s.workspaces
       PROVE  /\ t.workspaces[v].flt = s.workspaces[v].flt
              /\ IsInjective(t.workspaces[v].cols)
              /\ \A d : d # c =>
                   (d \in ToSet(t.workspaces[v].cols) <=> d \in ToSet(s.workspaces[v].cols))
              /\ c \in ToSet(t.workspaces[v].cols) <=> v = to
  <2>1. CASE v = to
    BY <1>9, <1>10, <1>11, <2>1
  <2>2. CASE v # to /\ v = from
    BY <1>6, <1>7, <1>11, <2>2
  <2>3. CASE v # to /\ v # from
    BY <1>1, <1>5, <1>7, <1>11, <2>3
  <2>4. QED
    BY <2>1, <2>2, <2>3
<1>13. /\ DOMAIN t.windows = DOMAIN s.windows
       /\ \A k \in DOMAIN s.windows \ wins : t.windows[k] = s.windows[k]
       /\ t.windows = [k \in DOMAIN s.windows |-> t.windows[k]]
  <2> HIDE DEF moved
  <2>1. QED
    BY <1>2, <1>4
<1>14. ASSUME NEW k \in wins
       PROVE  /\ t.windows[k] \in Window
              /\ t.windows[k].ws = to /\ t.windows[k].col = c
              /\ t.windows[k].managed = s.windows[k].managed
              /\ t.windows[k].restore = s.windows[k].restore
  <2>1. s.windows[k] \in Window /\ k \in DOMAIN s.windows
    BY <1>1, <1>5
  <2>2. t.windows[k] = moved(s.windows[k])
    <3> HIDE DEF moved
    <3>1. QED
      BY <1>2, <1>4, <2>1
  <2>3. QED
    BY <1>5, <2>1, <2>2 DEF Window, Option
<1>15. ASSUME NEW d \in DOMAIN t.columns PROVE ColumnFits(t, d, {})
  <2>1. ColumnFits(s, d, {}) /\ t.columns = s.columns
    BY <1>2 DEF Arranged, Placed
  <2>2. ASSUME NEW k \in ToSet(s.columns[d].wins)
        PROVE  /\ k \in DOMAIN t.windows /\ t.windows[k].col = d
               /\ t.windows[k].ws \in DOMAIN t.workspaces
               /\ d \in ToSet(t.workspaces[t.windows[k].ws].cols)
    <3>1. /\ k \in DOMAIN s.windows /\ s.windows[k].col = d
          /\ s.windows[k].ws \in DOMAIN s.workspaces
          /\ d \in ToSet(s.workspaces[s.windows[k].ws].cols)
      BY <2>1 DEF ColumnFits
    <3>2. CASE d = c
      <4>1. k \in wins
        BY <3>2 DEF wins
      <4>2. t.windows[k].ws = to /\ t.windows[k].col = c
        BY <1>14, <4>1
      <4>3. QED
        BY <1>11, <1>12, <1>13, <3>1, <3>2, <4>2
    <3>3. CASE d # c
      <4>1. t.windows[k] = s.windows[k]
        BY <1>1, <1>13, <3>1, <3>3
      <4>2. QED
        BY <1>11, <1>12, <1>13, <3>1, <3>3, <4>1
    <3>4. QED
      BY <3>2, <3>3
  <2>3. QED
    BY <2>1, <2>2 DEF ColumnFits
<1>16. ASSUME NEW v \in DOMAIN t.workspaces PROVE WorkspaceFits(t, v, {})
  <2>1. WorkspaceFits(s, v, {}) /\ v \in DOMAIN s.workspaces
    BY <1>11 DEF Arranged, Placed
  <2>2. ASSUME NEW d \in ToSet(t.workspaces[v].cols)
        PROVE  /\ d \in DOMAIN t.columns
               /\ \A k \in ToSet(t.columns[d].wins) : t.windows[k].ws = v
    <3>1. CASE d = c
      BY <1>2, <1>12, <1>14, <2>1, <3>1 DEF wins
    <3>2. CASE d # c
      <4>1. d \in DOMAIN s.columns /\ \A k \in ToSet(s.columns[d].wins) : s.windows[k].ws = v
        BY <1>12, <2>1, <3>2 DEF WorkspaceFits
      <4>2. \A k \in ToSet(s.columns[d].wins) : k \in DOMAIN s.windows /\ s.windows[k].col = d
        BY <4>1 DEF Arranged, Placed, ColumnFits
      <4>3. \A k \in ToSet(s.columns[d].wins) : t.windows[k] = s.windows[k]
        BY <1>1, <1>13, <3>2, <4>2
      <4>4. QED
        BY <1>2, <4>1, <4>3
    <3>3. QED
      BY <3>1, <3>2
  <2>3. ASSUME NEW k \in ToSet(t.workspaces[v].flt)
        PROVE  k \in DOMAIN t.windows /\ t.windows[k].col = None /\ t.windows[k].ws = v
    <3>1. k \in DOMAIN s.windows /\ s.windows[k].col = None /\ s.windows[k].ws = v
      BY <1>12, <2>1 DEF WorkspaceFits
    <3>2. t.windows[k] = s.windows[k]
      BY <1>1, <1>5, <1>13, <3>1
    <3>3. QED
      BY <1>13, <3>1, <3>2
  <2>4. IsInjective(t.workspaces[v].cols) /\ IsInjective(t.workspaces[v].flt)
    BY <1>12, <2>1 DEF WorkspaceFits
  <2>5. QED
    BY <2>2, <2>3, <2>4 DEF WorkspaceFits
<1>17. ASSUME NEW k \in DOMAIN t.windows PROVE WindowFits(t, k)
  <2>1. WindowFits(s, k) /\ k \in DOMAIN s.windows
    BY <1>13 DEF Arranged, Placed
  <2>2. CASE k \in wins
    <3>1. t.windows[k].restore = NoRestore
      BY <1>1, <1>5, <1>14, <2>1, <2>2 DEF WindowFits
    <3>2. QED
      BY <1>2, <1>5, <1>11, <1>14, <2>2, <3>1 DEF WindowFits, RestoreFits, wins
  <2>3. CASE k \notin wins
    <3>1. t.windows[k] = s.windows[k]
      BY <1>13, <2>1, <2>3
    <3>2. \A v \in DOMAIN s.workspaces : t.workspaces[v].flt = s.workspaces[v].flt
      BY <1>12
    <3>3. QED
      BY <1>2, <1>11, <2>1, <3>1, <3>2 DEF WindowFits
  <2>4. QED
    BY <2>2, <2>3
<1>18. StateType(t)
  <2>1. IsMap(t.workspaces, Nat, Workspace)
    BY <1>2, <1>5, <1>8, <1>10, PutType
  <2>2. IsMap(t.windows, Nat, Window)
    <3>1. \A k \in DOMAIN s.windows : k \in Nat /\ t.windows[k] \in Window
      BY <1>5, <1>13, <1>14, TypeLookups DEF Arranged
    <3>2. QED
      BY <1>13, <3>1 DEF IsMap
  <2>3. QED
    BY <1>2, <2>1, <2>2 DEF Arranged, StateType
<1>19. QED
  BY <1>2, <1>3, <1>15, <1>16, <1>17, <1>18 DEF Arranged, Placed, t

\* move_column_to_workspace_target_internal
LEMMA MoveColumnToInOrder ==
  ASSUME NEW s, InOrder(s), NEW c, NEW to, NEW after
  PROVE  InOrder(MoveColumnTo(s, c, to, after).st)
<1> DEFINE from == ColumnWorkspace(s, c)
           m1   == s.workspaces[from].mon
           m2   == s.workspaces[to].mon
           k    == TransferColumn(s, c, from, to, after)
           a    == ActivateWorkspace(k, m2, to)
           n1   == NormalizeWorkspaceSet(a, m1)
           n2   == NormalizeWorkspaceSet(n1, m2)
           o    == SyncOverview(n2, m1)
           known == c \in DOMAIN s.columns /\ from \in DOMAIN s.workspaces /\ to \in DOMAIN s.workspaces
<1>1. CASE ~known
  BY <1>1 DEF MoveColumnTo, Err
<1>2. CASE known
  <2>1. MoveColumnTo(s, c, to, after).st \in {s, n1, o}
    BY SettleState DEF MoveColumnTo, NormalizeBoth, Err
  <2>2. Sound(s) /\ Arranged(s, {})
    BY DEF InOrder
  <2>3. m1 \in DOMAIN s.sets /\ m2 \in DOMAIN s.sets /\ to \in ToSet(s.sets[m2].order)
    BY <1>2, <2>2, SoundLookups
  <2>4. c \in DOMAIN s.columns /\ from \in DOMAIN s.workspaces /\ to \in DOMAIN s.workspaces
    BY <1>2
  <2>5. from = ColumnWorkspace(s, c)
    OBVIOUS
  <2> HIDE DEF m1, m2, from
  <2>6. Alike(s, k)
    BY <2>2, <2>4, TransferColumnAlike, SoundShape
  <2>7. Arranged(k, {})
    BY <2>2, <2>4, <2>5, TransferArranged
  <2> HIDE DEF k
  <2>8. Sound(k) /\ k.sets = s.sets
    BY <2>2, <2>6, AlikeSound DEF Alike
  <2>9. InOrder(a) /\ DOMAIN a.sets = DOMAIN s.sets
    BY <2>3, <2>7, <2>8, ActivateInOrder
  <2> HIDE DEF a
  <2>10. InOrder(n1) /\ DOMAIN n1.sets = DOMAIN s.sets
    BY <2>3, <2>9, NormalizeInOrder, NormalizeSound DEF InOrder
  <2> HIDE DEF n1
  <2>11. InOrder(n2) /\ DOMAIN n2.sets = DOMAIN s.sets
    BY <2>3, <2>10, NormalizeInOrder, NormalizeSound DEF InOrder
  <2> HIDE DEF n2
  <2>12. InOrder(o)
    BY <2>3, <2>11, SyncOverviewInOrder
  <2> HIDE DEF o
  <2>13. QED
    BY <2>1, <2>10, <2>12
<1>3. QED
  BY <1>1, <1>2

\* handle_move_column_to_workspace
LEMMA MoveColumnInOrder ==
  ASSUME NEW s, InOrder(s), NEW forward \in BOOLEAN, NEW requested
  PROVE  InOrder(MoveColumnToWorkspace(s, forward, requested).st)
<1> DEFINE m == CommandMonitor(s, requested)
           n == NormalizeWorkspaceSet(s, m)
<1>1. CASE m = None
  BY <1>1 DEF MoveColumnToWorkspace, Err
<1>2. CASE m # None
  <2>1. InOrder(n)
    BY <1>2, CommandMonitorKnown, NormalizeInOrder
  <2> HIDE DEF m, n
  <2>2. \A c, to : InOrder(MoveColumnTo(n, c, to, None).st)
    BY <2>1, MoveColumnToInOrder
  <2>3. \A w : InOrder(Settle(n, w).st)
    BY <2>1, SettleInOrder
  <2>4. QED
    BY <1>2, <2>2, <2>3 DEF MoveColumnToWorkspace, Err, m, n
<1>3. QED
  BY <1>1, <1>2

---------------------------------------------------------------------------
(* Window modes.                                                           *)

\* Focusing a window puts a focus in order that was not.
LEMMA RefocusInOrder ==
  ASSUME NEW s, Sound(s), Arranged(s, {}), NEW x \in DOMAIN s.windows, NEW w \in DOMAIN s.workspaces,
         w = s.windows[x].ws, NEW m, m = s.workspaces[w].mon, NEW c, c = s.windows[x].col
  PROVE  InOrder(FocusWindow(s, m, w, x, c))
<1>1. m \in DOMAIN s.sets /\ x \in DOMAIN s.windows \ {}
  BY SoundLookups
<1>2. Sound(FocusWindow(s, m, w, x, c))
  BY FocusWindowSound
<1>3. Arranged(FocusWindow(s, m, w, x, c), {})
  BY <1>1, FocusWindowArranged
<1>4. FocusFits(FocusWindow(s, m, w, x, c))
  BY <1>1, FocusWindowFits
<1>5. QED
  BY <1>2, <1>3, <1>4 DEF InOrder

\* A window that was taken out of its list, given another place and focused there.
LEMMA ReplacedInOrder ==
  ASSUME NEW s, Sound(s), NEW x, NEW d, Leaves(s, d), Arranged(d, {x}),
         NEW t, NEW node, Arranged(t, {}), Enters(d, t, x, node),
         NEW w \in DOMAIN s.workspaces, w = node.ws, NEW m, m = s.workspaces[w].mon,
         NEW c, c = node.col
  PROVE  InOrder(FocusWindow(t, m, w, x, c))
<1>1. Sound(t)
  <2>1. Alike(s, d)
    BY DEF Arranged, Leaves, Alike
  <2>2. Alike(d, t)
    BY EntersAlike
  <2>3. QED
    BY <2>1, <2>2, AlikeTransitive, AlikeSound
<1>2. /\ x \in DOMAIN t.windows /\ t.windows[x] = node
      /\ w \in DOMAIN t.workspaces /\ t.workspaces[w].mon = m
  BY DEF Leaves, Enters, Put
<1>3. QED
  BY <1>1, <1>2, RefocusInOrder

\* A window leaves its place for another layer.
LEMMA LeavePlaceInOrder ==
  ASSUME NEW s, InOrder(s), NEW x \in DOMAIN s.windows, s.windows[x].ws \in DOMAIN s.workspaces,
         NEW to \in Layers
  PROVE  InOrder(LeavePlace(s, x, to))
<1> DEFINE w    == s.windows[x].ws
           m    == s.workspaces[w].mon
           d    == DetachWindow(s, x)
           out  == PushFloating(d, w, x)
           p    == PlaceOf(s, x)
           node == [s.windows[x] EXCEPT
                      !.layer = to, !.col = None, !.flt = to = "Floating",
                      !.full = to = "Fullscreen", !.restore = p]
           t    == SetWindow(out, x, node)
<1>1. LeavePlace(s, x, to) = FocusWindow(t, m, w, x, None)
  BY DEF LeavePlace
<1>2. Sound(s) /\ Arranged(s, {}) /\ w \in DOMAIN s.workspaces
  BY DEF InOrder
<1>3. s.windows[x] \in Window /\ x \in Nat
  BY <1>2, TypeLookups DEF Arranged
<1>4. p \in RestoreTarget /\ p.ws = w /\ p.layer \in Layers /\ p.idx \in Option(Nat \ {0})
  BY <1>2, <1>3, PlaceOfFits DEF Window
<1> HIDE DEF p
<1>5. node \in Window /\ node.ws = w /\ node.col = None /\ node.restore = p
  <2> DEFINE f1 == to = "Floating"
             f2 == to = "Fullscreen"
  <2>1. f1 \in BOOLEAN /\ f2 \in BOOLEAN
    OBVIOUS
  <2> HIDE DEF f1, f2
  <2>2. [s.windows[x] EXCEPT !.layer = to, !.col = None, !.flt = f1,
                             !.full = f2, !.restore = p] = node
    BY DEF f1, f2
  <2>3. QED
    BY <1>3, <1>4, <2>1, <2>2 DEF Window, Option
<1> HIDE DEF node
<1>6. RestoreFits(node)
  <2>1. p.idx # 0
    BY <1>4, NoneIsNoId DEF Option
  <2>2. QED
    BY <1>4, <1>5, <2>1 DEF RestoreFits
<1>7. Arranged(d, {x}) /\ Leaves(s, d)
  BY <1>2, DetachArranged
<1> HIDE DEF d
<1>8. w \in DOMAIN d.workspaces
  BY <1>2, <1>7 DEF Leaves
<1>9. Arranged(t, {}) /\ Enters(d, t, x, node)
  BY <1>3, <1>5, <1>6, <1>7, <1>8, PushArranged
<1> HIDE DEF t
<1>10. InOrder(FocusWindow(t, m, w, x, None))
  BY <1>2, <1>5, <1>7, <1>9, ReplacedInOrder
<1>11. QED
  BY <1>1, <1>10

\* The column of a window that comes back is an identifier.
LEMMA RestoredColumnType ==
  ASSUME NEW s, NEW L, Arranged(s, L), NEW x, NEW target, target.ws \in DOMAIN s.workspaces
  PROVE  RestoreWindow(s, x, target).col \in Option(Nat)
<1>1. FreshColumn(s) \in Nat
  BY FreshColumnIsNew
<1>2. target.col \in ToSet(s.workspaces[target.ws].cols) => target.col \in Nat
  <2>1. s.workspaces[target.ws].cols \in Seq(Nat)
    BY ListTypes DEF Arranged
  <2>2. QED
    BY <2>1 DEF ToSet
<1>3. RestoreWindow(s, x, target).col \in {None, FreshColumn(s)}
        \/ /\ RestoreWindow(s, x, target).col = target.col
           /\ target.col \in ToSet(s.workspaces[target.ws].cols)
  BY DEF RestoreWindow
<1>4. QED
  BY <1>1, <1>2, <1>3 DEF Option

\* A window comes back to its place.
LEMMA ReturnToPlaceInOrder ==
  ASSUME NEW s, InOrder(s), NEW x \in DOMAIN s.windows, s.windows[x].ws \in DOMAIN s.workspaces,
         NEW from
  PROVE  InOrder(ReturnToPlace(s, x, from))
<1> DEFINE w        == s.windows[x].ws
           m        == s.workspaces[w].mon
           target   == RestoreOf(s, x)
           d        == DetachWindow(s, x)
           restored == RestoreWindow(d, x, target)
           layer    == target.layer
           c        == restored.col
           node     == Returned(s.windows[x], from, layer, c)
           t        == SetWindow(restored.st, x, node)
<1>1. ReturnToPlace(s, x, from) = FocusWindow(t, m, w, x, c)
  BY DEF ReturnToPlace
<1>2. Sound(s) /\ Arranged(s, {}) /\ w \in DOMAIN s.workspaces
  BY DEF InOrder
<1>3. s.windows[x] \in Window /\ x \in Nat
  BY <1>2, TypeLookups DEF Arranged
<1>4. target.ws = w /\ layer \in Layers /\ target.idx \in Option(Nat \ {0})
  BY <1>2, RestoreOfFits
<1> HIDE DEF target
<1>5. Arranged(d, {x}) /\ Leaves(s, d)
  BY <1>2, DetachArranged
<1> HIDE DEF d
<1>6. w \in DOMAIN d.workspaces
  BY <1>2, <1>5 DEF Leaves
<1>7. c \in Option(Nat) /\ c = RestoreWindow(d, x, target).col
  BY <1>4, <1>5, <1>6, RestoredColumnType
<1> HIDE DEF c, layer
<1>8. node \in Window /\ node.ws = w /\ node.col = c /\ node.restore = NoRestore
  <2> DEFINE f == from = "Fullscreen" /\ layer = "Floating"
  <2>1. f \in BOOLEAN
    OBVIOUS
  <2>2. node = [s.windows[x] EXCEPT !.layer = layer, !.col = c, !.full = FALSE,
                                    !.restore = NoRestore, !.flt = f]
    BY DEF Returned
  <2>3. NoRestore \in RestoreTarget
    BY DEF NoRestore, RestoreTarget, Option
  <2> HIDE DEF f, node
  <2>4. QED
    BY <1>3, <1>4, <1>7, <2>1, <2>2, <2>3 DEF Window
<1> HIDE DEF node
<1>9. Arranged(t, {}) /\ Enters(d, t, x, node)
  <2>1. target.layer \in Layers
    BY <1>4 DEF layer
  <2>2. QED
    BY <1>3, <1>4, <1>5, <1>6, <1>7, <1>8, <2>1, RestoreArranged
<1> HIDE DEF t
<1>10. InOrder(FocusWindow(t, m, w, x, c))
  BY <1>2, <1>5, <1>8, <1>9, ReplacedInOrder
<1>11. QED
  BY <1>1, <1>10

\* handle_toggle_floating, handle_toggle_fullscreen: the error after the window
\* was taken out of its place is out of reach.
LEMMA ToggleLayerInOrder ==
  ASSUME NEW s, InOrder(s), NEW requested, NEW layer \in Layers
  PROVE  InOrder(ToggleLayer(s, requested, layer).st)
<1> DEFINE x == CommandWindow(s, requested)
           w == s.windows[x].ws
<1> HIDE DEF x
<1>1. CASE x \notin DOMAIN s.windows \/ w \notin DOMAIN s.workspaces
  BY <1>1 DEF ToggleLayer, Err, x
<1>2. CASE x \in DOMAIN s.windows /\ w \in DOMAIN s.workspaces
  <2>1. RestoreOf(s, x).ws = w
    BY <1>2, RestoreOfFits DEF InOrder
  <2>2. ToggleLayer(s, requested, layer).st \in {LeavePlace(s, x, layer), ReturnToPlace(s, x, layer)}
    BY <1>2, <2>1, SettleState DEF ToggleLayer, x
  <2>3. QED
    BY <1>2, <2>2, LeavePlaceInOrder, ReturnToPlaceInOrder
<1>3. QED
  BY <1>1, <1>2

\* A column changes its mode and its selections.
LEMMA SetColumnInOrder ==
  ASSUME NEW s, InOrder(s), NEW c \in DOMAIN s.columns, NEW r \in Column,
         r.wins = s.columns[c].wins, r.active \in ToSet(r.wins), r.tab \in ToSet(r.wins)
  PROVE  InOrder(SetColumn(s, c, r))
<1> DEFINE t == SetColumn(s, c, r)
<1>1. Sound(s) /\ Arranged(s, {}) /\ FocusFits(s)
  BY DEF InOrder
<1>2. /\ t.columns = Put(s.columns, c, r) /\ t.windows = s.windows
      /\ t.workspaces = s.workspaces
      /\ t.sets = s.sets /\ t.focus = s.focus
      /\ t.overview = s.overview /\ t.session = s.session
  BY <1>1 DEF Arranged, Shape, SetColumn
<1>3. Alike(s, t)
  BY <1>1, SoundShape, SetColumnAlike
<1> HIDE DEF t
<1>4. /\ DOMAIN t.columns = DOMAIN s.columns
      /\ t.columns[c] = r
      /\ \A k \in DOMAIN s.columns \ {c} : t.columns[k] = s.columns[k]
  BY <1>2 DEF Put
<1>5. \A k \in DOMAIN s.columns : t.columns[k].wins = s.columns[k].wins
  BY <1>4
<1>6. StateType(t)
  <2>1. IsMap(s.columns, Nat, Column) /\ c \in Nat
    BY <1>1, TypeLookups DEF Arranged, StateType
  <2>2. IsMap(t.columns, Nat, Column)
    BY <1>2, <2>1, PutType
  <2>3. QED
    BY <1>1, <1>2, <2>2 DEF Arranged, StateType
<1>7. Placed(t, {})
  <2>0. Placed(s, {})
    BY <1>1 DEF Arranged
  <2>1. ASSUME NEW k \in DOMAIN t.columns PROVE ColumnFits(t, k, {})
    <3>1. ColumnFits(s, k, {})
      BY <1>4, <2>0 DEF Placed
    <3>2. {t.columns[k].active, t.columns[k].tab} \subseteq ToSet(t.columns[k].wins)
      BY <1>4, <3>1 DEF ColumnFits
    <3>3. QED
      BY <1>2, <1>4, <1>5, <3>1, <3>2 DEF ColumnFits
  <2>2. ASSUME NEW w \in DOMAIN t.workspaces PROVE WorkspaceFits(t, w, {})
    BY <1>2, <1>4, <1>5, <2>0 DEF Placed, WorkspaceFits
  <2>3. ASSUME NEW y \in DOMAIN t.windows PROVE WindowFits(t, y)
    BY <1>2, <1>4, <1>5, <2>0 DEF Placed, WindowFits
  <2>4. QED
    BY <2>1, <2>2, <2>3 DEF Placed
<1>8. Arranged(t, {})
  BY <1>1, <1>3, <1>4, <1>6, <1>7 DEF Arranged, Alike
<1>9. FocusFits(t)
  BY <1>1, <1>2 DEF FocusFits
<1>10. Sound(t)
  BY <1>1, <1>3, AlikeSound
<1>11. QED
  BY <1>8, <1>9, <1>10 DEF InOrder, t

\* handle_toggle_tabbed
LEMMA ToggleTabbedInOrder ==
  ASSUME NEW s, InOrder(s), NEW requested
  PROVE  InOrder(ToggleTabbed(s, requested).st)
<1> DEFINE x == CommandWindow(s, requested)
           c == s.windows[x].col
           w == s.windows[x].ws
           r == s.columns[c]
           untabbed == [r EXCEPT !.mode = "Normal", !.tab = r.wins[1], !.active = x]
           tabbed   == [r EXCEPT !.mode = "Tabbed", !.tab = x, !.active = x]
<1>1. CASE x \notin DOMAIN s.windows
  BY <1>1 DEF ToggleTabbed, Err
<1>2. CASE x \in DOMAIN s.windows /\ c = None
  BY <1>2, SettleState DEF ToggleTabbed
<1>3. CASE x \in DOMAIN s.windows /\ c # None
  <2>1. ToggleTabbed(s, requested).st \in {SetColumn(s, c, untabbed), SetColumn(s, c, tabbed)}
    <3>1. ToggleTabbed(s, requested) = Settle(SetColumn(s, c, IF r.mode = "Tabbed" THEN untabbed ELSE tabbed), w)
      BY <1>3 DEF ToggleTabbed
    <3> HIDE DEF x, c, w, r, untabbed, tabbed
    <3>2. ToggleTabbed(s, requested).st = SetColumn(s, c, IF r.mode = "Tabbed" THEN untabbed ELSE tabbed)
      BY <3>1, SettleState
    <3>3. QED
      BY <3>2
  <2> HIDE DEF x
  <2>2. c \in DOMAIN s.columns /\ x \in ToSet(r.wins) /\ r \in Column /\ x \in Nat
    BY <1>3, TypeLookups DEF InOrder, Arranged, Placed, WindowFits
  <2> HIDE DEF c
  <2>3. r.wins # <<>> /\ r.wins \in Seq(Nat)
    BY <2>2 DEF InOrder, Arranged, Placed, ColumnFits, Column
  <2>4. r.wins[1] \in ToSet(r.wins) /\ r.wins[1] \in Nat
    BY <2>3 DEF ToSet
  <2>5. /\ untabbed \in Column /\ untabbed.wins = r.wins
        /\ untabbed.active = x /\ untabbed.tab = r.wins[1]
    BY <2>2, <2>4 DEF Column, Modes
  <2>6. /\ tabbed \in Column /\ tabbed.wins = r.wins
        /\ tabbed.active = x /\ tabbed.tab = x
    BY <2>2 DEF Column, Modes
  <2> HIDE DEF untabbed, tabbed
  <2>7. InOrder(SetColumn(s, c, untabbed)) /\ InOrder(SetColumn(s, c, tabbed))
    BY <2>2, <2>4, <2>5, <2>6, SetColumnInOrder
  <2>8. QED
    BY <2>1, <2>7
<1>4. QED
  BY <1>1, <1>2, <1>3

---------------------------------------------------------------------------
(* The overview and the drags of column widths.                            *)

\* The overview opens, closes or marks another workspace.
LEMMA SetOverviewInOrder ==
  ASSUME NEW s, InOrder(s), NEW o \in OverviewState
  PROVE  InOrder([s EXCEPT !.overview = o])
<1> DEFINE t == [s EXCEPT !.overview = o]
<1>1. Sound(s) /\ Arranged(s, {}) /\ FocusFits(s)
  BY DEF InOrder
<1>2. Alike(s, t)
  BY <1>1, SoundShape DEF Shape, Alike
<1> HIDE DEF t
<1>3. /\ Arranged(t, {}) /\ SameLists(s, t)
      /\ t.sets = s.sets /\ t.focus = s.focus /\ t.workspaces = s.workspaces
  BY <1>1, OverviewArranged DEF t
<1>4. Sound(t)
  BY <1>1, <1>2, AlikeSound
<1>5. FocusFits(t)
  BY <1>1, <1>3 DEF FocusFits, SameLists
<1>6. QED
  BY <1>3, <1>4, <1>5 DEF InOrder, t

\* The handlers of the overview.
LEMMA OverviewInOrder ==
  ASSUME NEW s, InOrder(s), NEW requested
  PROVE  /\ InOrder(OpenOverview(s, requested).st)
         /\ InOrder(CloseOverview(s).st)
         /\ InOrder(ToggleOverview(s, requested).st)
<1> DEFINE m == CommandMonitor(s, requested)
           w == ActiveWorkspace(s, m)
           o == [open |-> TRUE, mon |-> m, sel |-> w]
           n == [open |-> FALSE, mon |-> None, sel |-> None]
<1>1. ASSUME m # None PROVE InOrder([s EXCEPT !.overview = o])
  <2>1. m \in DOMAIN s.sets
    BY <1>1, CommandMonitorKnown
  <2> HIDE DEF m
  <2>2. m \in Monitors /\ w \in Nat
    <3>1. w = s.sets[m].active /\ s.sets[m] \in WorkspaceSet /\ m \in Monitors
      BY <2>1, SoundLookups, TypeLookups DEF InOrder, Arranged
    <3>2. QED
      BY <3>1 DEF WorkspaceSet
  <2>3. o \in OverviewState
    BY <2>2 DEF OverviewState, Option
  <2> HIDE DEF o
  <2>4. QED
    BY <2>3, SetOverviewInOrder
<1>2. InOrder([s EXCEPT !.overview = n])
  <2>1. n \in OverviewState
    BY DEF OverviewState, Option
  <2>2. QED
    BY <2>1, SetOverviewInOrder
<1>3. OpenOverview(s, requested).st = IF m = None THEN s ELSE [s EXCEPT !.overview = o]
  BY DEF OpenOverview, OpenOverviewOn, Ok, Err
<1>4. CloseOverview(s).st = [s EXCEPT !.overview = n]
  BY DEF CloseOverview, Ok
<1> HIDE DEF m, o, n
<1>5. InOrder(OpenOverview(s, requested).st) /\ InOrder(CloseOverview(s).st)
  BY <1>1, <1>2, <1>3, <1>4
<1>6. QED
  BY <1>5 DEF ToggleOverview

\* A drag begins or ends.
LEMMA SetSessionInOrder ==
  ASSUME NEW s, InOrder(s), NEW r \in ResizeSession
  PROVE  InOrder([s EXCEPT !.session = r])
<1> DEFINE t == [s EXCEPT !.session = r]
<1>1. Sound(s) /\ Arranged(s, {}) /\ FocusFits(s)
  BY DEF InOrder
<1>2. Alike(s, t)
  BY <1>1, SoundShape DEF Shape, Alike
<1>3. /\ t.columns = s.columns /\ t.windows = s.windows /\ t.workspaces = s.workspaces
      /\ t.sets = s.sets /\ t.focus = s.focus
      /\ t.overview = s.overview /\ t.session = r
  BY <1>1 DEF Arranged, Shape
<1> HIDE DEF t
<1>4. SameLists(s, t)
  BY <1>3, SameWorkspacesLists
<1>5. StateType(t)
  BY <1>1, <1>3 DEF Arranged, StateType
<1>6. Arranged(t, {})
  BY <1>1, <1>2, <1>4, <1>5, SameListsArranged DEF Alike
<1>7. Sound(t) /\ FocusFits(t)
  BY <1>1, <1>2, <1>3, AlikeSound DEF FocusFits
<1>8. QED
  BY <1>6, <1>7 DEF InOrder, t

\* The window whose column width a command changes.
LEMMA WidthTargetType ==
  ASSUME NEW s, StateType(s), HasWidthTarget(s)
  PROVE  LET w == CommandWorkspace(s)
             x == FocusedWindowIn(s, w)
         IN  /\ x \in DOMAIN s.windows /\ w = s.windows[x].ws
             /\ x \in Nat /\ w \in Nat /\ s.windows[x].col \in Nat
<1> DEFINE w == CommandWorkspace(s)
           x == FocusedWindowIn(s, w)
<1>1. x # None /\ s.windows[x].col # None
  BY DEF HasWidthTarget, IsTiled
<1>2. x \in DOMAIN s.windows /\ s.windows[x].ws = w
  BY <1>1 DEF FocusedWindowIn
<1> HIDE DEF x, w
<1>3. x \in Nat /\ s.windows[x].ws \in Nat /\ s.windows[x].col \in Option(Nat)
  BY <1>2, TypeLookups DEF Window
<1>4. QED
  BY <1>1, <1>2, <1>3 DEF Option, x, w

\* The handlers of a drag.
LEMMA ResizeInOrder ==
  ASSUME NEW s, InOrder(s)
  PROVE  /\ InOrder(BeginResize(s).st)
         /\ InOrder(UpdateResize(s).st)
         /\ InOrder(CommitResize(s).st)
         /\ InOrder(CancelResize(s).st)
         /\ InOrder(CycleWidth(s).st)
<1> DEFINE w == CommandWorkspace(s)
           x == FocusedWindowIn(s, w)
           r == [ws |-> w, col |-> s.windows[x].col, win |-> x]
<1>1. ASSUME HasWidthTarget(s) PROVE InOrder([s EXCEPT !.session = r])
  <2>1. w \in Nat /\ x \in Nat /\ s.windows[x].col \in Nat
    BY <1>1, WidthTargetType DEF InOrder, Arranged
  <2> HIDE DEF w, x
  <2>2. r \in ResizeSession
    BY <2>1 DEF ResizeSession, Option
  <2> HIDE DEF r
  <2>3. QED
    BY <2>2, SetSessionInOrder
<1>2. InOrder([s EXCEPT !.session = NoSession])
  <2>1. NoSession \in ResizeSession
    BY DEF NoSession, ResizeSession, Option
  <2>2. QED
    BY <2>1, SetSessionInOrder
<1>3. BeginResize(s).st = IF HasWidthTarget(s) THEN [s EXCEPT !.session = r] ELSE s
  BY SettleState DEF BeginResize, Err
<1> HIDE DEF r
<1>4. InOrder(BeginResize(s).st)
  BY <1>1, <1>3
<1>5. UpdateResize(s).st = s /\ CycleWidth(s).st = s
  BY SettleState DEF UpdateResize, CycleWidth, Ok, Err
<1>6. /\ CommitResize(s).st \in {s, [s EXCEPT !.session = NoSession]}
      /\ CancelResize(s).st \in {s, [s EXCEPT !.session = NoSession]}
  BY SettleState DEF CommitResize, CancelResize, Ok, Err
<1>7. QED
  BY <1>2, <1>4, <1>5, <1>6

---------------------------------------------------------------------------
(* Every step.                                                             *)

\* What a discovery carries.
LEMMA DiscoveriesArePayloads ==
  ASSUME NEW d \in Discoveries, NEW m
  PROVE  Payload([mon |-> m, managed |-> d.managed, layer |-> d.layer,
                  mode |-> d.mode, preserve |-> d.preserve, placement |-> d.placement])
BY DiscoveriesAssumption DEF Payload

\* Every platform event keeps the invariant.
LEMMA PlatformInOrder ==
  ASSUME InOrder(st), Platform
  PROVE  InOrder(st')
<1>1. CASE \E m \in Monitors : PlugMonitor(m)
  BY <1>1, AddMonitorInOrder DEF PlugMonitor, Known
<1>2. CASE \E m \in Monitors : RefreshMonitor(m)
  BY <1>2, NormalizeInOrder DEF RefreshMonitor, Known
<1>3. CASE \E m \in Monitors, d \in Discoveries : Discover(m, d)
  <2>1. PICK m \in Monitors, d \in Discoveries : Discover(m, d)
    BY <1>3
  <2> DEFINE e == [mon |-> m, managed |-> d.managed, layer |-> d.layer,
                   mode |-> d.mode, preserve |-> d.preserve, placement |-> d.placement]
  <2>2. m \in DOMAIN st.sets /\ st' = WindowDiscovered(st, e).st
    BY <2>1 DEF Discover, Fatal, Known
  <2>3. e.mon = m /\ Payload(e)
    BY DiscoveriesArePayloads
  <2> HIDE DEF e
  <2>4. QED
    BY <2>2, <2>3, WindowDiscoveredInOrder
<1>4. CASE \E x \in DOMAIN st.windows : Destroy(x)
  BY <1>4, WindowDestroyedInOrder DEF Destroy, Fatal
<1>5. CASE \E x \in DOMAIN st.windows : ObserveFocus(x)
  BY <1>5, WindowFocusObservedInOrder DEF ObserveFocus, Fatal
<1>6. QED
  BY <1>1, <1>2, <1>3, <1>4, <1>5 DEF Platform

\* So does every step.
LEMMA NextInOrder ==
  ASSUME InOrder(st), Next
  PROVE  InOrder(st')
<1>1. CASE Platform
  BY <1>1, PlatformInOrder
<1>2. CASE \E forward, tabs \in BOOLEAN : CmdFocusNavigation(forward, tabs)
  BY <1>2, FocusNavigationInOrder DEF CmdFocusNavigation, Command, Fatal, Answered
<1>3. CASE WorkspaceCommand
  <2>1. PICK forward \in BOOLEAN, m \in MonitorRequests :
          \/ CmdFocusWorkspace(forward, m)
          \/ CmdMoveWorkspace(forward, m)
          \/ CmdMoveWorkspaceToMonitor(forward, m)
          \/ CmdMoveColumnToWorkspace(forward, m)
    BY <1>3 DEF WorkspaceCommand
  <2>2. CASE CmdFocusWorkspace(forward, m)
    BY <2>2, FocusWorkspaceInOrder DEF CmdFocusWorkspace, Command, Fatal, Answered
  <2>3. CASE CmdMoveWorkspace(forward, m)
    BY <2>3, MoveWorkspaceInOrder DEF CmdMoveWorkspace, Command, Fatal, Answered
  <2>4. CASE CmdMoveWorkspaceToMonitor(forward, m)
    BY <2>4, MoveWorkspaceToMonitorInOrder DEF CmdMoveWorkspaceToMonitor, Command, Fatal, Answered
  <2>5. CASE CmdMoveColumnToWorkspace(forward, m)
    BY <2>5, MoveColumnInOrder DEF CmdMoveColumnToWorkspace, Command, Fatal, Answered
  <2>6. QED
    BY <2>1, <2>2, <2>3, <2>4, <2>5
<1>4. CASE ColumnDrop
  BY <1>4, MoveColumnToInOrder DEF ColumnDrop, CmdDropColumn, Fatal
<1>5. CASE WindowCommand
  <2>1. PICK x \in WindowRequests :
          CmdToggleFloating(x) \/ CmdToggleFullscreen(x) \/ CmdToggleTabbed(x)
    BY <1>5 DEF WindowCommand
  <2>2. st' \in {ToggleFloating(st, x).st, ToggleFullscreen(st, x).st, ToggleTabbed(st, x).st}
    BY <2>1 DEF CmdToggleFloating, CmdToggleFullscreen, CmdToggleTabbed, Command, Fatal, Answered
  <2>3. QED
    BY <2>2, ToggleLayerInOrder, ToggleTabbedInOrder DEF ToggleFloating, ToggleFullscreen, Layers
<1>6. CASE OverviewCommand
  BY <1>6, OverviewInOrder
  DEF OverviewCommand, CmdOpenOverview, CmdCloseOverview, CmdToggleOverview,
      Command, Fatal, Answered
<1>7. CASE ResizeCommand
  BY <1>7, ResizeInOrder
  DEF ResizeCommand, CmdBeginResize, CmdUpdateResize, CmdCommitResize, CmdCancelResize,
      CmdCycleWidth, Command, Fatal, Answered
<1>8. QED
  BY <1>1, <1>2, <1>3, <1>4, <1>5, <1>6, <1>7 DEF Next

\* It holds at the start, when nothing is known.
LEMMA InitInOrder ==
  ASSUME Init
  PROVE  InOrder(st)
<1>1. Sound(st)
  BY InitSound
<1>2. /\ st = InitState
      /\ st.sets = <<>> /\ st.workspaces = <<>> /\ st.columns = <<>> /\ st.windows = <<>>
      /\ st.focus.activeBy = <<>>
      /\ st.focus.mon = None /\ st.focus.win = None /\ st.focus.col = None
      /\ st.overview = [open |-> FALSE, mon |-> None, sel |-> None]
      /\ st.session = NoSession
  BY DEF Init, InitState
<1>3. DOMAIN <<>> = {}
  OBVIOUS
<1>4. \A K, V : IsMap(<<>>, K, V)
  BY <1>3 DEF IsMap
<1>5. StateType(st)
  <2>1. st.overview \in OverviewState /\ st.session \in ResizeSession
    BY <1>2 DEF OverviewState, ResizeSession, NoSession, Option
  <2>2. QED
    BY <1>2, <1>4, <2>1 DEF StateType, Option
<1>6. Placed(st, {}) /\ IsFiniteSet(DOMAIN st.columns)
  BY <1>2, <1>3, FS_EmptySet DEF Placed
<1>7. FocusFits(st)
  BY <1>2 DEF FocusFits
<1>8. QED
  BY <1>1, <1>5, <1>6, <1>7, SoundShape DEF InOrder, Arranged

\* Between two events the store is in order.
THEOREM StoreIsInOrder == Spec => []InOrder(st)
<1>1. Init => InOrder(st)
  BY InitInOrder
<1>2. InOrder(st) /\ [Next]_vars => InOrder(st)'
  BY NextInOrder DEF vars
<1>3. QED
  BY <1>1, <1>2, PTL DEF Spec

---------------------------------------------------------------------------
(* What it implies.                                                        *)

\* An order says where everything is.
LEMMA InOrderSays ==
  ASSUME InOrder(st)
  PROVE  WindowsPlacedOnce /\ ColumnsPartitioned /\ ColumnSelection /\ FocusCoherent
<1>1. Arranged(st, {}) /\ FocusFits(st)
  BY DEF InOrder
<1>2. /\ \A c \in DOMAIN st.columns : ColumnFits(st, c, {})
      /\ \A w \in DOMAIN st.workspaces : WorkspaceFits(st, w, {})
      /\ \A x \in DOMAIN st.windows : WindowFits(st, x)
  BY <1>1 DEF Arranged, Placed
<1>3. WindowsPlacedOnce
  BY <1>2 DEF WindowsPlacedOnce, ColumnFits, WorkspaceFits, WindowFits
<1>4. ColumnsPartitioned
  <2>1. ASSUME NEW c \in DOMAIN st.columns
        PROVE  /\ st.columns[c].wins # <<>>
               /\ \E w \in DOMAIN st.workspaces :
                    /\ c \in ToSet(st.workspaces[w].cols)
                    /\ \A v \in DOMAIN st.workspaces \ {w} : c \notin ToSet(st.workspaces[v].cols)
    BY <1>1, <1>2, ColumnStands DEF ColumnFits
  <2>2. QED
    BY <1>2, <2>1 DEF ColumnsPartitioned, WorkspaceFits
<1>5. ColumnSelection
  BY <1>2 DEF ColumnSelection, ColumnFits
<1>6. FocusCoherent
  BY <1>1 DEF FocusFits, FocusCoherent
<1>7. QED
  BY <1>3, <1>4, <1>5, <1>6

\* A handler answers, with an error or without.
LEMMA HandlersAnswer ==
  ASSUME NEW s
  PROVE  /\ \A d : WindowDiscovered(s, d).ok \in BOOLEAN
         /\ \A x : WindowDestroyed(s, x).ok \in BOOLEAN
         /\ \A x : WindowFocusObserved(s, x).ok \in BOOLEAN
         /\ \A f, tabs : FocusNavigation(s, f, tabs).ok \in BOOLEAN
         /\ \A f, m : FocusWorkspace(s, f, m).ok \in BOOLEAN
         /\ \A f, m : MoveWorkspaceWithinMonitor(s, f, m).ok \in BOOLEAN
         /\ \A f, m : MoveWorkspaceToMonitor(s, f, m).ok \in BOOLEAN
         /\ \A c, to, after : MoveColumnTo(s, c, to, after).ok \in BOOLEAN
         /\ \A f, m : MoveColumnToWorkspace(s, f, m).ok \in BOOLEAN
         /\ \A x, layer : ToggleLayer(s, x, layer).ok \in BOOLEAN
         /\ \A x : ToggleTabbed(s, x).ok \in BOOLEAN
         /\ \A m : OpenOverview(s, m).ok \in BOOLEAN /\ ToggleOverview(s, m).ok \in BOOLEAN
         /\ CloseOverview(s).ok \in BOOLEAN
         /\ BeginResize(s).ok \in BOOLEAN /\ UpdateResize(s).ok \in BOOLEAN
         /\ CommitResize(s).ok \in BOOLEAN /\ CancelResize(s).ok \in BOOLEAN
         /\ CycleWidth(s).ok \in BOOLEAN
<1>1. /\ \A t, w : Settle(t, w).ok \in BOOLEAN
      /\ \A t, w : Ok(t, w).ok \in BOOLEAN
      /\ \A t : Err(t).ok \in BOOLEAN
  BY DEF Settle, Ok, Err
<1>2. \A d : WindowDiscovered(s, d).ok \in BOOLEAN
  BY <1>1 DEF WindowDiscovered
<1>3. /\ \A x : WindowDestroyed(s, x).ok \in BOOLEAN
      /\ \A x : WindowFocusObserved(s, x).ok \in BOOLEAN
  BY <1>1 DEF WindowDestroyed, WindowFocusObserved
<1>4. /\ \A f, tabs : FocusNavigation(s, f, tabs).ok \in BOOLEAN
      /\ \A f, m : FocusWorkspace(s, f, m).ok \in BOOLEAN
  BY <1>1 DEF FocusNavigation, FocusWorkspace
<1>5. /\ \A f, m : MoveWorkspaceWithinMonitor(s, f, m).ok \in BOOLEAN
      /\ \A f, m : MoveWorkspaceToMonitor(s, f, m).ok \in BOOLEAN
  BY <1>1 DEF MoveWorkspaceWithinMonitor, MoveWorkspaceToMonitor
<1>6. \A t, c, to, after : MoveColumnTo(t, c, to, after).ok \in BOOLEAN
  BY <1>1 DEF MoveColumnTo
<1>7. \A f, m : MoveColumnToWorkspace(s, f, m).ok \in BOOLEAN
  BY <1>1, <1>6 DEF MoveColumnToWorkspace
<1>8. /\ \A x, layer : ToggleLayer(s, x, layer).ok \in BOOLEAN
      /\ \A x : ToggleTabbed(s, x).ok \in BOOLEAN
  BY <1>1 DEF ToggleLayer, ToggleTabbed
<1>9. /\ \A m : OpenOverview(s, m).ok \in BOOLEAN /\ ToggleOverview(s, m).ok \in BOOLEAN
      /\ CloseOverview(s).ok \in BOOLEAN
  BY <1>1 DEF OpenOverview, ToggleOverview, CloseOverview
<1>10. /\ BeginResize(s).ok \in BOOLEAN /\ UpdateResize(s).ok \in BOOLEAN
       /\ CommitResize(s).ok \in BOOLEAN /\ CancelResize(s).ok \in BOOLEAN
       /\ CycleWidth(s).ok \in BOOLEAN
  BY <1>1 DEF BeginResize, UpdateResize, CommitResize, CancelResize, CycleWidth
<1>11. QED
  BY <1>2, <1>3, <1>4, <1>5, <1>6, <1>7, <1>8, <1>9, <1>10

\* The daemon runs or it does not.
LEMMA NextRunning ==
  ASSUME up \in BOOLEAN, Next
  PROVE  up' \in BOOLEAN
<1>1. CASE Platform
  <2>1. CASE \E m \in Monitors : PlugMonitor(m) \/ RefreshMonitor(m)
    BY <2>1 DEF PlugMonitor, RefreshMonitor
  <2>2. CASE \E m \in Monitors, d \in Discoveries : Discover(m, d)
    <3>1. \E e : up' = WindowDiscovered(st, e).ok
      BY <2>2 DEF Discover, Fatal
    <3>2. QED
      BY <3>1, HandlersAnswer
  <2>3. CASE \E x \in DOMAIN st.windows : Destroy(x) \/ ObserveFocus(x)
    BY <2>3, HandlersAnswer DEF Destroy, ObserveFocus, Fatal
  <2>4. QED
    BY <1>1, <2>1, <2>2, <2>3 DEF Platform
<1>2. CASE \E forward, tabs \in BOOLEAN : CmdFocusNavigation(forward, tabs)
  <2>1. PICK f \in BOOLEAN, tabs \in BOOLEAN : CmdFocusNavigation(f, tabs)
    BY <1>2
  <2>2. up' \in {up, FocusNavigation(st, f, tabs).ok}
    BY <2>1 DEF CmdFocusNavigation, Command, Fatal, Answered
  <2>3. QED
    BY <2>2, HandlersAnswer
<1>3. CASE WorkspaceCommand
  <2>1. PICK f \in BOOLEAN, m \in MonitorRequests :
          \/ CmdFocusWorkspace(f, m) \/ CmdMoveWorkspace(f, m)
          \/ CmdMoveWorkspaceToMonitor(f, m) \/ CmdMoveColumnToWorkspace(f, m)
    BY <1>3 DEF WorkspaceCommand
  <2>2. up' \in {up, FocusWorkspace(st, f, m).ok, MoveWorkspaceWithinMonitor(st, f, m).ok,
                 MoveWorkspaceToMonitor(st, f, m).ok, MoveColumnToWorkspace(st, f, m).ok}
    BY <2>1 DEF CmdFocusWorkspace, CmdMoveWorkspace, CmdMoveWorkspaceToMonitor,
                CmdMoveColumnToWorkspace, Command, Fatal, Answered
  <2>3. QED
    BY <2>2, HandlersAnswer
<1>4. CASE ColumnDrop
  <2>1. \E c, to, after : up' = MoveColumnTo(st, c, to, after).ok
    BY <1>4 DEF ColumnDrop, CmdDropColumn, Fatal
  <2>2. QED
    BY <2>1, HandlersAnswer
<1>5. CASE WindowCommand
  BY <1>5, HandlersAnswer
  DEF WindowCommand, CmdToggleFloating, CmdToggleFullscreen, CmdToggleTabbed, ToggleFloating,
      ToggleFullscreen, Command, Fatal, Answered
<1>6. CASE OverviewCommand
  BY <1>6, HandlersAnswer
  DEF OverviewCommand, CmdOpenOverview, CmdCloseOverview, CmdToggleOverview,
      Command, Fatal, Answered
<1>7. CASE ResizeCommand
  BY <1>7, HandlersAnswer
  DEF ResizeCommand, CmdBeginResize, CmdUpdateResize, CmdCommitResize, CmdCancelResize,
      CmdCycleWidth, Command, Fatal, Answered
<1>8. QED
  BY <1>1, <1>2, <1>3, <1>4, <1>5, <1>6, <1>7 DEF Next

\* The state stays well typed: the records of model.rs, whichever handlers have
\* written them.
THEOREM StoreIsWellTyped == Spec => []TypeOK
<1>1. Init => up \in BOOLEAN
  BY DEF Init
<1>2. InOrder(st) /\ up \in BOOLEAN /\ [Next]_vars => (up \in BOOLEAN)'
  <2>1. SUFFICES ASSUME InOrder(st), up \in BOOLEAN, Next PROVE up' \in BOOLEAN
    BY DEF vars
  <2>2. QED
    BY <2>1, NextRunning
<1>3. InOrder(st) /\ up \in BOOLEAN => TypeOK
  BY DEF InOrder, Arranged, TypeOK
<1>4. QED
  BY <1>1, <1>2, <1>3, StoreIsInOrder, PTL DEF Spec

\* No interleaving of events leaves a window in two lists, or a managed one in none:
\* detach, restore, transfer and normalise always agree on where it is.
THEOREM WindowsStayPlacedOnce == Spec => []WindowsPlacedOnce
BY StoreIsInOrder, InOrderSays, PTL

\* Every column stands in one strip and holds windows.
THEOREM ColumnsStayPartitioned == Spec => []ColumnsPartitioned
BY StoreIsInOrder, InOrderSays, PTL

\* A column always selects windows it holds.
THEOREM ColumnsSelectTheirOwn == Spec => []ColumnSelection
BY StoreIsInOrder, InOrderSays, PTL

\* The focused window, its column, its monitor and what the monitor shows always fit.
THEOREM FocusStaysCoherent == Spec => []FocusCoherent
BY StoreIsInOrder, InOrderSays, PTL
===========================================================================
