---------------------------- MODULE RuntimeProofs ----------------------------
(***************************************************************************)
(* Proofs about the runtime, and about the strip its windows are laid out  *)
(* on.                                                                     *)
(***************************************************************************)
EXTENDS Runtime, Discovery, Strip, CommandsProofs, DataProofs

\* A claim that lives lets no observed foreground take the focus.
THEOREM LiveClaimsHold == RuntimeSpec => LiveClaimHolds
<1> DEFINE holds == job.pc \in {"claims", "follow"} /\ claim.live /\ FocusedHandle(Now) = claim.win
                      => st'.focus = st.focus
<1>1. ASSUME RuntimeNext, job.pc \in {"claims", "follow"}, claim.live, FocusedHandle(Now) = claim.win
      PROVE  st' = st
  <2>1. job # Idle /\ job.pc # "idle" /\ job.pc \notin {"enter", "discover", "prune", "dispatch", "claim", "apply"}
    BY <1>1 DEF Idle
  <2>2. CASE RefreshClaims
    <3>1. claim # NoClaim
      BY <1>1 DEF NoClaim
    <3>2. ~Apart(Now, TRUE, cand)
      BY DEF Apart
    <3>3. Becomes(Now, "follow")
      BY <1>1, <2>2, <3>1, <3>2 DEF RefreshClaims
    <3>4. QED
      BY <3>3 DEF Becomes, Now
  <2>3. CASE FollowForeground
    <3>1. ForegroundIsNews => job.shot.fg # claim.win
      BY <1>1 DEF ForegroundIsNews
    <3>2. Becomes(Now, AfterSync)
      BY <1>1, <2>3, <3>1 DEF FollowForeground
    <3>3. QED
      BY <3>2 DEF Becomes, Now
  <2>4. CASE ClaimExpires \/ SettleExpires \/ Captures
    BY <2>4 DEF ClaimExpires, SettleExpires, Captures, loopVars
  <2>5. CASE DesktopChanges
    BY <2>5 DEF DesktopChanges, Closes, Clicks, Opens, Plugs, Unplugs, Changes, loopVars
  <2>6. QED
    BY <1>1, <2>1, <2>2, <2>3, <2>4, <2>5
    DEF RuntimeNext, Works, Observe, Poll, DispatchCommand, ReloadConfig, Requested, Enter,
        ReconcileDiscoveries, PruneMissing, RunCommand, ArmClaim, Apply
<1>2. [RuntimeNext]_runtimeVars => [holds]_runtimeVars
  BY <1>1
<1>3. QED
  BY <1>2, PTL DEF RuntimeSpec, LiveClaimHolds

---------------------------------------------------------------------------
(* The lists a step works through: a fold of the library goes from one      *)
(* element to the next.  Its recursion is over the sets of positions.       *)

\* The loop body of the discoveries, as long as the store accepts.
TryReconcile(r, S, moved, h) == IF r.ok THEN Reconcile(r, S, moved, h) ELSE r

\* The three steps a snapshot's lists are folded with: e is a monitor, a window
\* or a handle.
FoldStep(what, S, moved, a, e) ==
  IF what = "sync" THEN SyncMonitor(a, e)
  ELSE IF what = "destroy" THEN DestroyWindow(a, e)
  ELSE TryReconcile(a, S, moved, e)

\* f folds the elements of every set of the first n positions of q, from the first on.
FoldsUp(f, what, S, moved, a, q, n) ==
  f = [X \in SUBSET (1..n) |->
         IF X = {} THEN a ELSE FoldStep(what, S, moved, f[X \ {Max(X)}], q[Max(X)])]

\* The last position of a set is its largest.
LEMMA MaxIs ==
  ASSUME NEW n \in Nat, NEW X, X \subseteq 0..n, n \in X
  PROVE  Max(X) = n
<1>1. \A y \in X : n >= y
  OBVIOUS
<1>2. \A x \in X : (\A y \in X : x >= y) => x = n
  OBVIOUS
<1>3. \E x \in X : \A y \in X : x >= y
  BY <1>1
<1>4. QED
  BY <1>2, <1>3 DEF Max

\* There is one: it is built up position by position.
LEMMA FoldExists ==
  ASSUME NEW what, NEW S, NEW moved, NEW a, NEW q, NEW n \in Nat
  PROVE  \E f : FoldsUp(f, what, S, moved, a, q, n)
<1> DEFINE T == {k \in Nat : \E f : FoldsUp(f, what, S, moved, a, q, k)}
<1>1. 0 \in T
  <2> DEFINE f == [X \in SUBSET (1..0) |-> a]
  <2>1. \A X \in SUBSET (1..0) : X = {}
    OBVIOUS
  <2>2. f = [X \in SUBSET (1..0) |->
         IF X = {} THEN a ELSE FoldStep(what, S, moved, f[X \ {Max(X)}], q[Max(X)])]
    BY <2>1
  <2>3. FoldsUp(f, what, S, moved, a, q, 0)
    BY <2>2 DEF FoldsUp
  <2>4. QED
    BY <2>3
<1>2. ASSUME NEW k \in Nat, k < n /\ k \in T PROVE k + 1 \in T
  <2>1. PICK f : FoldsUp(f, what, S, moved, a, q, k)
    BY <1>2
  <2> DEFINE m == k + 1
             D == SUBSET (1..m)
             g == [X \in D |-> IF m \in X THEN FoldStep(what, S, moved, f[X \ {m}], q[m]) ELSE f[X]]
             val(X) == IF X = {} THEN a ELSE FoldStep(what, S, moved, g[X \ {Max(X)}], q[Max(X)])
  <2>2. \A X \in D : m \notin X => X \in SUBSET (1..k) /\ g[X] = f[X]
    OBVIOUS
  <2>3. ASSUME NEW X \in D, m \in X PROVE g[X] = val(X)
    <3>1. Max(X) = m
      <4>1. X \subseteq 0..m /\ m \in Nat
        OBVIOUS
      <4>2. QED
        BY <2>3, <4>1, MaxIs
    <3>2. X \ {m} \in D /\ m \notin X \ {m}
      OBVIOUS
    <3>3. g[X \ {m}] = f[X \ {m}]
      BY <2>2, <3>2
    <3>4. g[X] = FoldStep(what, S, moved, f[X \ {m}], q[m])
      BY <2>3
    <3>5. X # {}
      BY <2>3
    <3> HIDE DEF g, m
    <3>6. QED
      BY <3>1, <3>3, <3>4, <3>5
  <2>4. ASSUME NEW X \in D, m \notin X PROVE g[X] = val(X)
    <3>1. X \in SUBSET (1..k) /\ g[X] = f[X]
      BY <2>2, <2>4
    <3>2. f[X] = IF X = {} THEN a ELSE FoldStep(what, S, moved, f[X \ {Max(X)}], q[Max(X)])
      BY <2>1, <3>1 DEF FoldsUp
    <3>3. X \ {Max(X)} \in D /\ m \notin X \ {Max(X)}
      BY <2>4
    <3>4. g[X \ {Max(X)}] = f[X \ {Max(X)}]
      BY <2>2, <3>3
    <3> HIDE DEF g, m
    <3>5. QED
      BY <3>1, <3>2, <3>4
  <2>5. g = [X \in D |-> g[X]]
    OBVIOUS
  <2> HIDE DEF g
  <2>6. g = [X \in D |-> val(X)]
    <3> HIDE DEF val
    <3>1. QED
      BY <2>3, <2>4, <2>5
  <2>7. FoldsUp(g, what, S, moved, a, q, m)
    BY <2>6 DEF FoldsUp
  <2>8. QED
    BY <2>7
<1> HIDE DEF T
<1>3. \A k \in 0..n : k \in T
  BY <1>1, <1>2, UpTo
<1>4. QED
  BY <1>3 DEF T

\* g goes through the list q.
Runs(g, what, S, moved, a, q) ==
  /\ g[0] = a
  /\ \A k \in 1..Len(q) : g[k] = FoldStep(what, S, moved, g[k - 1], q[k])

\* A fold goes through the list, and its value is where it ends.
LEMMA FoldRuns ==
  ASSUME NEW what, NEW S, NEW moved, NEW a, NEW q, Len(q) \in Nat, NEW f,
         FoldsUp(f, what, S, moved, a, q, Len(q))
  PROVE  \E g : Runs(g, what, S, moved, a, q) /\ g[Len(q)] = f[1..Len(q)]
<1> DEFINE n == Len(q)
           g == [k \in 0..n |-> f[1..k]]
<1>1. g[0] = a
  <2>1. 1..0 = {} /\ {} \in SUBSET (1..n) /\ 0 \in 0..n
    OBVIOUS
  <2>2. f[{}] = a
    BY <2>1 DEF FoldsUp
  <2>3. g[0] = f[1..0]
    BY <2>1
  <2>4. QED
    BY <2>1, <2>2, <2>3
<1>2. ASSUME NEW k \in 1..n PROVE g[k] = FoldStep(what, S, moved, g[k - 1], q[k])
  <2>1. /\ 1..k \in SUBSET (1..n) /\ 1..k # {} /\ (1..k) \ {k} = 1..(k - 1)
        /\ k \in 0..n /\ k - 1 \in 0..n
    <3>1. n \in Nat /\ k \in Nat /\ 1 <= k /\ k <= n
      OBVIOUS
    <3> HIDE DEF n
    <3>2. k \in 0..n /\ k - 1 \in 0..n
      BY <3>1
    <3>3. k \in 1..k /\ \A i \in 1..k : i \in 1..n
      BY <3>1
    <3>4. \A i : i \in (1..k) \ {k} <=> i \in 1..(k - 1)
      BY <3>1
    <3>5. QED
      BY <3>2, <3>3, <3>4
  <2>2. Max(1..k) = k
    <3>1. k \in Nat /\ 1..k \subseteq 0..k /\ k \in 1..k
      OBVIOUS
    <3>2. QED
      BY <3>1, MaxIs
  <2>3. g[k] = f[1..k] /\ g[k - 1] = f[1..(k - 1)]
    BY <2>1
  <2>4. \A X \in SUBSET (1..n) : f[X] =
          IF X = {} THEN a ELSE FoldStep(what, S, moved, f[X \ {Max(X)}], q[Max(X)])
    BY DEF FoldsUp
  <2> HIDE DEF g, n
  <2>5. f[1..k] = FoldStep(what, S, moved, f[(1..k) \ {Max(1..k)}], q[Max(1..k)])
    BY <2>1, <2>4
  <2>6. QED
    BY <2>1, <2>2, <2>3, <2>5
<1>3. g[n] = f[1..n]
  OBVIOUS
<1> HIDE DEF g
<1>4. QED
  BY <1>1, <1>2, <1>3 DEF Runs

\* The list of monitors.
LEMMA SyncRuns ==
  ASSUME NEW s, NEW q, Len(q) \in Nat, DOMAIN q = 1..Len(q)
  PROVE  \E g : Runs(g, "sync", None, None, s, q) /\ SyncEach(s, q) = g[Len(q)]
<1> DEFINE D == DOMAIN q
           c == CHOOSE f : f = [X \in SUBSET D |-> IF X = {} THEN s
                                    ELSE SyncMonitor(f[X \ {Max(X)}], q[Max(X)])]
<1>1. SyncEach(s, q) = c[D]
  BY DEF SyncEach, FoldLeft, MapThenFoldSet
<1>2. \A a, e : FoldStep("sync", None, None, a, e) = SyncMonitor(a, e)
  BY DEF FoldStep
<1>3. PICK f : FoldsUp(f, "sync", None, None, s, q, Len(q))
  BY FoldExists
<1>4. f = [X \in SUBSET D |-> IF X = {} THEN s ELSE SyncMonitor(f[X \ {Max(X)}], q[Max(X)])]
  BY <1>2, <1>3 DEF FoldsUp
<1>5. c = [X \in SUBSET D |-> IF X = {} THEN s ELSE SyncMonitor(c[X \ {Max(X)}], q[Max(X)])]
  BY <1>4
<1> HIDE DEF c
<1>6. FoldsUp(c, "sync", None, None, s, q, Len(q))
  BY <1>2, <1>5 DEF FoldsUp
<1>7. PICK g : Runs(g, "sync", None, None, s, q) /\ g[Len(q)] = c[1..Len(q)]
  BY <1>6, FoldRuns
<1>8. QED
  BY <1>1, <1>7


\* The list of windows that go.
LEMMA DestroyRuns ==
  ASSUME NEW r, NEW q, Len(q) \in Nat, DOMAIN q = 1..Len(q)
  PROVE  \E g : Runs(g, "destroy", None, None, r, q) /\ DestroyEach(r, q) = g[Len(q)]
<1> DEFINE D == DOMAIN q
           c == CHOOSE f : f = [X \in SUBSET D |-> IF X = {} THEN r
                                    ELSE DestroyWindow(f[X \ {Max(X)}], q[Max(X)])]
<1>1. DestroyEach(r, q) = c[D]
  BY DEF DestroyEach, FoldLeft, MapThenFoldSet
<1>2. \A a, e : FoldStep("destroy", None, None, a, e) = DestroyWindow(a, e)
  BY DEF FoldStep
<1>3. PICK f : FoldsUp(f, "destroy", None, None, r, q, Len(q))
  BY FoldExists
<1>4. f = [X \in SUBSET D |-> IF X = {} THEN r
                            ELSE DestroyWindow(f[X \ {Max(X)}], q[Max(X)])]
  BY <1>2, <1>3 DEF FoldsUp
<1>5. c = [X \in SUBSET D |-> IF X = {} THEN r
                            ELSE DestroyWindow(c[X \ {Max(X)}], q[Max(X)])]
  BY <1>4
<1> HIDE DEF c
<1>6. FoldsUp(c, "destroy", None, None, r, q, Len(q))
  BY <1>2, <1>5 DEF FoldsUp
<1>7. PICK g : Runs(g, "destroy", None, None, r, q) /\ g[Len(q)] = c[1..Len(q)]
  BY <1>6, FoldRuns
<1>8. QED
  BY <1>1, <1>7

\* The list of handles of a snapshot.
LEMMA ReconcileRuns ==
  ASSUME NEW r, NEW S, NEW moved, NEW q, Len(q) \in Nat, DOMAIN q = 1..Len(q)
  PROVE  \E g : Runs(g, "reconcile", S, moved, r, q) /\ ReconcileEach(r, S, moved, q) = g[Len(q)]
<1> DEFINE D == DOMAIN q
           c == CHOOSE f : f = [X \in SUBSET D |-> IF X = {} THEN r
                                    ELSE TryReconcile(f[X \ {Max(X)}], S, moved, q[Max(X)])]
<1>1. ReconcileEach(r, S, moved, q) = c[D]
  BY DEF ReconcileEach, FoldLeft, MapThenFoldSet, Then, TryReconcile
<1>2. \A a, e : FoldStep("reconcile", S, moved, a, e) = TryReconcile(a, S, moved, e)
  BY DEF FoldStep
<1>3. PICK f : FoldsUp(f, "reconcile", S, moved, r, q, Len(q))
  BY FoldExists
<1>4. f = [X \in SUBSET D |-> IF X = {} THEN r
                            ELSE TryReconcile(f[X \ {Max(X)}], S, moved, q[Max(X)])]
  BY <1>2, <1>3 DEF FoldsUp
<1>5. c = [X \in SUBSET D |-> IF X = {} THEN r
                            ELSE TryReconcile(c[X \ {Max(X)}], S, moved, q[Max(X)])]
  BY <1>4
<1> HIDE DEF c
<1>6. FoldsUp(c, "reconcile", S, moved, r, q, Len(q))
  BY <1>2, <1>5 DEF FoldsUp
<1>7. PICK g : Runs(g, "reconcile", S, moved, r, q) /\ g[Len(q)] = c[1..Len(q)]
  BY <1>6, FoldRuns
<1>8. QED
  BY <1>1, <1>7

---------------------------------------------------------------------------
(* What is listed: monitors, windows and handles, each once. *)

\* There are finitely many monitors: they have an order of navigation.
LEMMA MonitorsAreFinite == IsFiniteSet(Monitors)
<1> DEFINE n == Len(NavOrder)
<1>1. n \in Nat /\ DOMAIN NavOrder = 1..n /\ \A i \in 1..n : NavOrder[i] \in Monitors
  BY NavOrderAssumption
<1>2. \A m \in Monitors : \E i \in 1..n : NavOrder[i] = m
  BY <1>1, NavOrderAssumption
<1> HIDE DEF n
<1>3. IsFiniteSet(1..n)
  BY <1>1, FS_Interval
<1> DEFINE f == [i \in 1..n |-> NavOrder[i]]
<1>4. f \in Surjection(1..n, Monitors)
  BY <1>1, <1>2 DEF Surjection
<1>5. QED
  BY <1>3, <1>4, FS_Surjection

\* The first monitor is one.
LEMMA PrimaryIsAMonitor ==
  ASSUME Monitors # {}
  PROVE  Primary \in Monitors
<1>1. \E m \in Monitors : \A k \in Monitors : m <= k
  BY LeastNumber, MonitorsAssumption
<1>2. QED
  BY <1>1 DEF Primary

\* Identifiers in ascending order are listed.
LEMMA AscendingLists ==
  ASSUME NEW X, IsFiniteSet(X), X \subseteq Nat
  PROVE  Lists(Ascending(X), X)
<1>1. \E q \in SetToSeqs(X) : \A i, j \in DOMAIN q : i < j => q[i] < q[j]
  BY AscendingExists
<1>2. Ascending(X) \in SetToSeqs(X)
  BY <1>1 DEF Ascending
<1>3. QED
  BY <1>2, Enumerates

\* What a snapshot may hold.
Placements == UNION {[H -> Monitors] : H \in SUBSET Handles}
Desktops   == {d \in [wins : Placements, fg : Nat, mons : SUBSET Monitors] :
                 IsFiniteSet(DOMAIN d.wins)}

\* Its parts.
LEMMA DesktopParts ==
  ASSUME NEW d \in Desktops
  PROVE  /\ d.mons \subseteq Monitors /\ IsFiniteSet(d.mons) /\ d.mons \subseteq Nat
         /\ IsFiniteSet(DOMAIN d.wins) /\ DOMAIN d.wins \subseteq Handles
         /\ \A h \in DOMAIN d.wins : d.wins[h] \in Monitors /\ d.wins[h] \in Nat /\ h \in Nat
<1>1. d.mons \subseteq Monitors /\ d.wins \in Placements /\ IsFiniteSet(DOMAIN d.wins)
  BY DEF Desktops
<1>2. PICK H \in SUBSET Handles : d.wins \in [H -> Monitors]
  BY <1>1 DEF Placements
<1>3. IsFiniteSet(d.mons)
  BY <1>1, MonitorsAreFinite, FS_Subset
<1>4. QED
  BY <1>1, <1>2, <1>3, MonitorsAssumption, RuntimeHandlesAssumption

\* The handles of a snapshot are listed.
LEMMA OrderedLists ==
  ASSUME NEW S \in Desktops
  PROVE  Lists(Ordered(S), DOMAIN S.wins)
<1> DEFINE D == DOMAIN S.wins
           before(g, h) == \/ g = S.fg
                           \/ /\ h # S.fg
                              /\ \/ S.wins[g] < S.wins[h]
                                 \/ S.wins[g] = S.wins[h] /\ g <= h
           R == {p \in D \X D : before(p[1], p[2]) /\ p[1] # p[2]}
<1>1. /\ IsFiniteSet(D) /\ \A h \in D : S.wins[h] \in Nat /\ h \in Nat
  BY DesktopParts
<1>2. \A g, h \in D : g # h => before(g, h) \/ before(h, g)
  BY <1>1
<1>3. ASSUME NEW x \in D, NEW y \in D, NEW z \in D, before(x, y), x # y, before(y, z), y # z
      PROVE  before(x, z) /\ x # z
  BY <1>1, <1>3
<1>4. \A g, h \in D : <<g, h>> \in R <=> before(g, h) /\ g # h
  OBVIOUS
<1> HIDE DEF R, before, D
<1>5. Orders(R, D)
  BY <1>2, <1>3, <1>4 DEF Orders
<1>6. PICK q \in SetToSeqs(D) : \A i, j \in DOMAIN q : i < j => <<q[i], q[j]>> \in R
  BY <1>1, <1>5, SortedExists
<1>7. \A i \in DOMAIN q : q[i] \in D
  BY <1>6 DEF SetToSeqs
<1>8. \A i, j \in DOMAIN q : i < j => before(q[i], q[j])
  BY <1>4, <1>6, <1>7
<1>9. Ordered(S) \in SetToSeqs(D)
  <2>1. \E r \in SetToSeqs(D) : \A i, j \in DOMAIN r : i < j => before(r[i], r[j])
    BY <1>8
  <2>2. QED
    BY <2>1 DEF Ordered, D, before
<1>10. QED
  BY <1>1, <1>9, Enumerates DEF D

---------------------------------------------------------------------------
(* What the steps of a job keep: the store is in order, and every binding   *)
(* is one of a window of the store.                                         *)

Tracks(r) ==
  /\ DOMAIN r = {"st", "ok", "hw", "pend"}
  /\ InOrder(r.st) /\ Grounded(r.st)
  /\ r.ok => DOMAIN r.hw \subseteq DOMAIN r.st.windows

\* The windows and the monitors of the store are finitely many numbers.
LEMMA TracksNumbers ==
  ASSUME NEW r, Tracks(r)
  PROVE  /\ Records(r.st)
         /\ IsFiniteSet(DOMAIN r.st.windows) /\ DOMAIN r.st.windows \subseteq Nat
         /\ IsFiniteSet(Known(r.st)) /\ Known(r.st) \subseteq Monitors
<1>1. Arranged(r.st, {}) /\ Records(r.st)
  BY DEF Tracks, InOrder, Grounded
<1>2. IsFiniteSet(DOMAIN r.st.windows) /\ DOMAIN r.st.windows \subseteq Nat /\ DOMAIN r.st.sets \subseteq Monitors
  BY <1>1 DEF Arranged, Shape, StateType, IsMap
<1>3. QED
  BY <1>1, <1>2, MonitorsAreFinite, FS_Subset DEF Known

\* One monitor of a snapshot.
LEMMA SyncMonitorTracks ==
  ASSUME NEW s, InOrder(s), Grounded(s), NEW m \in Monitors
  PROVE  LET t == SyncMonitor(s, m)
         IN  InOrder(t) /\ Grounded(t) /\ t.windows = s.windows
<1>1. CASE m \in Known(s)
  <2>1. InOrder(NormalizeWorkspaceSet(s, m))
    BY <1>1, NormalizeInOrder DEF Known
  <2>2. Spares(s, NormalizeWorkspaceSet(s, m), DOMAIN s.sets)
    BY <1>1, NormalizeSpares DEF Known, Grounded
  <2>3. Grounded(NormalizeWorkspaceSet(s, m))
    BY <2>2, TouchesGrounded DEF Spares
  <2>4. QED
    BY <1>1, <2>1, <2>2, <2>3 DEF SyncMonitor, Spares
<1>2. CASE m \notin Known(s)
  <2>1. InOrder(AddMonitor(s, m)) /\ Grounded(AddMonitor(s, m))
    BY <1>2, AddMonitorInOrder, PlugGrounded DEF Known
  <2>2. Quiet(s, AddMonitor(s, m), {m})
    BY <1>2, PlugQuiet DEF Known, Grounded
  <2>3. QED
    BY <1>2, <2>1, <2>2 DEF SyncMonitor, Quiet, Spares
<1>3. QED
  BY <1>1, <1>2

\* All of them.
LEMMA SyncMonitorsTracks ==
  ASSUME NEW r, Tracks(r), NEW S \in Desktops
  PROVE  LET t == SyncMonitors(r, S)
         IN  /\ Tracks(t) /\ t.st.windows = r.st.windows
             /\ t.hw = r.hw /\ t.ok = r.ok /\ t.pend = r.pend
<1> DEFINE a == Ascending(S.mons)
           b == Ascending(Known(r.st) \ S.mons)
           q == a \o b
           n == Len(q)
<1>1. Lists(a, S.mons) /\ S.mons \subseteq Monitors
  BY AscendingLists, DesktopParts
<1>2. Lists(b, Known(r.st) \ S.mons) /\ Known(r.st) \subseteq Monitors
  <2>1. Known(r.st) \ S.mons \in SUBSET Known(r.st)
    OBVIOUS
  <2>2. IsFiniteSet(Known(r.st) \ S.mons) /\ Known(r.st) \ S.mons \subseteq Nat /\ Known(r.st) \subseteq Monitors
    BY <2>1, TracksNumbers, FS_Subset, MonitorsAssumption
  <2>3. QED
    BY <2>2, AscendingLists
<1>3. a \in Seq(Monitors) /\ b \in Seq(Monitors)
  BY <1>1, <1>2 DEF Lists
<1> DEFINE s == r.st
<1>4. SyncMonitors(r, S) = [r EXCEPT !.st = SyncEach(r.st, q)]
  BY DEF SyncMonitors
<1> HIDE DEF a, b
<1>5. q \in Seq(Monitors)
  BY <1>3
<1> HIDE DEF q
<1>6. n \in Nat /\ DOMAIN q = 1..n /\ \A i \in 1..n : q[i] \in Monitors
  BY <1>5
<1>7. PICK g : Runs(g, "sync", None, None, s, q) /\ SyncEach(s, q) = g[n]
  BY <1>6, SyncRuns
<1> DEFINE T == {k \in Nat : InOrder(g[k]) /\ Grounded(g[k]) /\ g[k].windows = s.windows}
<1>8. 0 \in T
  BY <1>7 DEF Runs, Tracks
<1>9. ASSUME NEW k \in Nat, k < n /\ k \in T PROVE k + 1 \in T
  <2>1. k + 1 \in 1..n /\ (k + 1) - 1 = k
    BY <1>6, <1>9
  <2>2. g[k + 1] = SyncMonitor(g[k], q[k + 1])
    BY <1>7, <2>1 DEF Runs, FoldStep
  <2>3. q[k + 1] \in Monitors
    BY <1>6, <2>1
  <2>4. LET t == SyncMonitor(g[k], q[k + 1])
        IN  InOrder(t) /\ Grounded(t) /\ t.windows = g[k].windows
    BY <1>9, <2>3, SyncMonitorTracks
  <2>5. QED
    BY <1>9, <2>2, <2>4
<1>10. n \in T
  <2> HIDE DEF T, n
  <2>1. \A k \in 0..n : k \in T
    BY <1>6, <1>8, <1>9, UpTo
  <2>2. QED
    BY <1>6, <2>1
<1>11. InOrder(SyncEach(s, q)) /\ Grounded(SyncEach(s, q)) /\ SyncEach(s, q).windows = s.windows
  BY <1>7, <1>10
<1>12. QED
  BY <1>4, <1>11 DEF Tracks

\* One window that goes takes its own binding, and no other.
LEMMA DestroyTracks ==
  ASSUME NEW r, Tracks(r), NEW x, r.ok => x \in DOMAIN r.st.windows
  PROVE  LET t == DestroyWindow(r, x)
         IN  /\ Tracks(t) /\ Known(t.st) = Known(r.st)
             /\ t.ok => r.ok /\ DOMAIN r.st.windows \ {x} \subseteq DOMAIN t.st.windows
             /\ DOMAIN r.hw \ {x} \subseteq DOMAIN t.hw
<1>1. CASE ~r.ok
  BY <1>1 DEF DestroyWindow, Then
<1>2. CASE r.ok
  <2> DEFINE q == WindowDestroyed(r.st, x)
             s == r.st
             M == DOMAIN s.sets
             w == s.windows[x].ws
             g == Forget(DetachWindow(s, x), w, x, s.windows[x].col)
             t == [r EXCEPT !.st = q.st, !.ok = q.ok, !.hw = Drop(@, DOMAIN @ \ DOMAIN q.st.windows)]
  <2>1. DestroyWindow(r, x) = t
    BY <1>2 DEF DestroyWindow, Then, Dispatched
  <2>2. InOrder(s) /\ Grounded(s) /\ Records(s) /\ x \in DOMAIN s.windows
    BY <1>2 DEF Tracks, Grounded
  <2>3. w \in DOMAIN s.workspaces => s.workspaces[w].mon \in M /\ g.workspaces[w].mon \in M
    <3>1. w \in DOMAIN s.workspaces => s.workspaces[w].mon \in M
      BY <2>2, SoundLookups DEF InOrder
    <3>2. QED
      BY <2>2, <3>1, ForgottenArranged
  <2>4. /\ Affects(s, q.st, M)
        /\ DOMAIN s.windows \ {x} \subseteq DOMAIN q.st.windows
    BY <2>2, <2>3, DestroyTouches
  <2>5. InOrder(q.st) /\ Grounded(q.st)
    BY <2>2, <2>4, WindowDestroyedInOrder, TouchesGrounded
  <2>6. Known(q.st) = Known(s)
    BY <2>4 DEF Affects, Known
  <2> HIDE DEF q
  <2>7. DOMAIN t.hw = DOMAIN r.hw \cap DOMAIN q.st.windows
    BY DEF Drop, Tracks
  <2>8. DOMAIN t = DOMAIN r /\ t.st = q.st
    BY DEF Tracks
  <2>9. DOMAIN r.hw \subseteq DOMAIN s.windows
    BY <1>2 DEF Tracks
  <2>10. Tracks(t) 
    BY <2>5, <2>7, <2>8 DEF Tracks
  <2> HIDE DEF t
  <2>11. QED
    BY <1>2, <2>1, <2>4, <2>6, <2>7, <2>8, <2>9, <2>10
<1>3. QED
  BY <1>1, <1>2

\* Of several windows each is still there when its turn comes.
LEMMA DestroyAllTracks ==
  ASSUME NEW r, Tracks(r), r.ok, NEW X, X \subseteq DOMAIN r.hw
  PROVE  LET t == DestroyAll(r, X)
         IN  /\ Tracks(t) /\ Known(t.st) = Known(r.st)
             /\ DOMAIN r.hw \ X \subseteq DOMAIN t.hw
<1> DEFINE q == Ascending(X)
           n == Len(q)
<1>1. DOMAIN r.hw \subseteq DOMAIN r.st.windows
  BY DEF Tracks
<1>2. Lists(q, X)
  <2>1. X \in SUBSET DOMAIN r.st.windows
    BY <1>1
  <2>2. IsFiniteSet(X) /\ X \subseteq Nat
    BY <2>1, TracksNumbers, FS_Subset
  <2>3. QED
    BY <2>2, AscendingLists
<1>3. DestroyAll(r, X) = DestroyEach(r, q)
  BY DEF DestroyAll
<1> HIDE DEF q
<1>4. /\ n \in Nat /\ DOMAIN q = 1..n
      /\ \A i \in 1..n : q[i] \in X
      /\ \A i, j \in 1..n : i # j => q[i] # q[j]
  <2>1. q \in Seq(X)
    BY <1>2 DEF Lists
  <2>2. QED
    BY <1>2, <2>1 DEF Lists
<1>5. PICK g : Runs(g, "destroy", None, None, r, q) /\ DestroyEach(r, q) = g[n]
  BY <1>4, DestroyRuns
<1> DEFINE There(k) == \A j \in 1..n : k < j => q[j] \in DOMAIN g[k].st.windows
           T == {k \in Nat : /\ Tracks(g[k]) /\ Known(g[k].st) = Known(r.st)
                             /\ g[k].ok => There(k)
                             /\ DOMAIN r.hw \ X \subseteq DOMAIN g[k].hw}
<1>6. 0 \in T
  BY <1>1, <1>4, <1>5 DEF Runs
<1>7. ASSUME NEW k \in Nat, k < n /\ k \in T PROVE k + 1 \in T
  <2>1. k + 1 \in 1..n /\ (k + 1) - 1 = k /\ k < k + 1
    BY <1>4, <1>7
  <2> DEFINE x == q[k + 1]
             t == g[k + 1]
  <2>2. t = DestroyWindow(g[k], x)
    BY <1>5, <2>1 DEF Runs, FoldStep
  <2>3. g[k].ok => x \in DOMAIN g[k].st.windows
    BY <1>7, <2>1
  <2>4. /\ Tracks(t) /\ Known(t.st) = Known(g[k].st)
        /\ t.ok => g[k].ok /\ DOMAIN g[k].st.windows \ {x} \subseteq DOMAIN t.st.windows
        /\ DOMAIN g[k].hw \ {x} \subseteq DOMAIN t.hw
    <3>1. Tracks(g[k])
      BY <1>7
    <3> HIDE DEF t, x
    <3>2. QED
      BY <2>2, <2>3, <3>1, DestroyTracks
  <2>5. ASSUME t.ok PROVE There(k + 1)
    <3>1. SUFFICES ASSUME NEW j \in 1..n, k + 1 < j PROVE q[j] \in DOMAIN t.st.windows
      OBVIOUS
    <3>2. k < j /\ j # k + 1
      BY <1>4, <3>1
    <3>3. q[j] \in DOMAIN g[k].st.windows
      BY <1>7, <2>4, <2>5, <3>2
    <3>4. q[j] # x
      BY <1>4, <2>1, <3>2
    <3>5. QED
      BY <2>4, <2>5, <3>3, <3>4
  <2>6. x \in X
    BY <1>4, <2>1
  <2>7. QED
    BY <1>7, <2>4, <2>5, <2>6
<1>8. n \in T
  <2> HIDE DEF T, n
  <2>1. \A k \in 0..n : k \in T
    BY <1>4, <1>6, <1>7, UpTo
  <2>2. QED
    BY <1>4, <2>1
<1>9. QED
  BY <1>3, <1>5, <1>8

\* A discovered window is there.
LEMMA DiscoveredIsThere ==
  ASSUME NEW s, Records(s), NEW d
  PROVE  FreshWindow(s) \in DOMAIN WindowDiscovered(s, d).st.windows
<1> DEFINE m       == d.mon
           M       == {m}
           w       == ActiveWorkspace(s, m)
           x       == FreshWindow(s)
           placed  == PlaceDiscovered(s, w, x, d)
           node    == [layer |-> d.layer, ws |-> w, col |-> placed.col, managed |-> d.managed,
                       flt |-> d.layer = "Floating", full |-> d.layer = "Fullscreen",
                       restore |-> NoRestore]
           added   == SetWindow(placed.st, x, node)
           active  == PutActive(added, m, w)
           focused == IF d.managed /\ ~KeepsFocus(s, w, d)
                      THEN FocusWindow(active, m, w, x, placed.col) ELSE active
           final   == NormalizeWorkspaceSet(focused, m)
<1>1. WindowDiscovered(s, d).st = final
  BY SettleState DEF WindowDiscovered, Ok
<1> HIDE DEF w, x, node
<1>2. Placing(s, placed)
  BY PlacingRearranges
<1> HIDE DEF placed
<1>3. Records(added) /\ x \in DOMAIN added.windows
  <2>1. Records(placed.st)
    BY <1>2 DEF Placing, Rearranges
  <2>2. Rearranges(placed.st, added) /\ added.windows = Put(placed.st.windows, x, node)
    BY <2>1, WritesRearrange
  <2>3. QED
    BY <2>2 DEF Rearranges, Put
<1> HIDE DEF added
<1>4. m \in M
  OBVIOUS
<1> HIDE DEF m, M
<1>5. Spares(added, active, M)
  BY <1>3, <1>4, AssignmentsSpare
<1> HIDE DEF active
<1>6. Spares(active, focused, M)
  <2>1. Records(active)
    BY <1>5 DEF Spares, Affects
  <2>2. QED
    BY <1>4, <2>1, SparesReflexive, FocusSpares
<1> HIDE DEF focused
<1>7. Spares(focused, final, M)
  BY <1>4, <1>6, NormalizeSpares DEF Spares, Affects
<1> HIDE DEF final
<1>8. QED
  BY <1>1, <1>3, <1>5, <1>6, <1>7 DEF Spares, x

\* A discovered window gets a binding; the others keep theirs.
LEMMA PromoteTracks ==
  ASSUME NEW r, Tracks(r), r.ok, NEW S \in Desktops, NEW h \in DOMAIN S.wins,
         S.wins[h] \in Known(r.st)
  PROVE  LET t == Promote(r, S, h)
         IN  Tracks(t) /\ DOMAIN r.hw \subseteq DOMAIN t.hw
<1> DEFINE s       == r.st
           managed == WantedManaged(r, S, h)
           tiled   == managed /\ Class[h].layer = "Tiled"
           m       == IF seen.any THEN TargetMonitor(r, S.wins[h], managed) ELSE S.wins[h]
           d       == [mon |-> m, managed |-> managed, layer |-> Class[h].layer,
                       mode |-> DefaultMode,
                       preserve |-> ~Follows(r, S, h, m, tiled),
                       placement |-> Placement(r, m, tiled)]
           q       == WindowDiscovered(s, d)
           t       == Promote(r, S, h)
<1>1. t = [r EXCEPT !.st = q.st, !.ok = q.ok, !.hw = Put(@, FreshWindow(s), h),
                    !.pend = Drop(@, {h})]
  BY DEF Promote
<1>2. m \in DOMAIN s.sets
  BY DEF TargetMonitor, MonitorIsManaged, Known
<1>3. Payload(d)
  <2>1. h \in Handles
    BY DesktopParts
  <2>2. Class[h].layer \in Layers
    BY <2>1, ClassAssumption
  <2>3. managed \in BOOLEAN
    BY DEF WantedManaged
  <2>4. Placement(r, m, tiled) \in {"After", "End"}
    BY DEF Placement
  <2> HIDE DEF managed, tiled, m
  <2>5. QED
    BY <2>2, <2>3, <2>4, DefaultModeAssumption DEF Payload
<1>4. d.mon = m
  OBVIOUS
<1> HIDE DEF d, m
<1>5. InOrder(s) /\ Grounded(s) /\ Records(s) /\ Shape(s)
  BY DEF Tracks, Grounded, InOrder, Arranged
<1>6. Keeps(s, q.st, DOMAIN s.sets)
  BY <1>2, <1>4, <1>5, DiscoverKeeps
<1>7. InOrder(q.st) /\ Grounded(q.st)
  BY <1>2, <1>3, <1>4, <1>5, <1>6, WindowDiscoveredInOrder, TouchesGrounded DEF Keeps
<1>8. FreshWindow(s) \in DOMAIN q.st.windows
  BY <1>2, <1>4, <1>5, DiscoveredIsThere
<1> HIDE DEF q, t
<1>9. t.st = q.st /\ DOMAIN t = DOMAIN r /\ DOMAIN t.hw = DOMAIN r.hw \union {FreshWindow(s)}
  BY <1>1 DEF Tracks, Put
<1>10. DOMAIN r.hw \subseteq DOMAIN q.st.windows
  BY <1>6 DEF Tracks, Keeps
<1>11. QED
  BY <1>7, <1>8, <1>9, <1>10 DEF Tracks, t

\* One handle of a snapshot.
LEMMA ReconcileTracks ==
  ASSUME NEW r, Tracks(r), NEW S \in Desktops, NEW moved, NEW h \in DOMAIN S.wins
  PROVE  LET t == TryReconcile(r, S, moved, h)
         IN  Tracks(t) /\ DOMAIN r.hw \subseteq DOMAIN t.hw
<1> DEFINE t == TryReconcile(r, S, moved, h)
<1>1. CASE r.ok /\ ~Bound(r, h) /\ S.wins[h] \in Known(r.st) /\ t = Promote(r, S, h)
  BY <1>1, PromoteTracks
<1>2. CASE \E p : t \in {r, [r EXCEPT !.pend = p]}
  <2> HIDE DEF t
  <2>1. QED
    BY <1>2 DEF Tracks, t
<1>3. QED
  BY <1>1, <1>2 DEF TryReconcile, Reconcile

\* All of them.
LEMMA ReconcileAllTracks ==
  ASSUME NEW r, Tracks(r), NEW S \in Desktops, NEW moved
  PROVE  LET t == ReconcileAll(r, S, moved)
         IN  Tracks(t) /\ DOMAIN r.hw \subseteq DOMAIN t.hw
<1> DEFINE gone == {h \in DOMAIN r.pend : h \notin DOMAIN S.wins \/ Bound(r, h)}
           p == [r EXCEPT !.pend = Drop(@, gone)]
           q == Ordered(S)
           n == Len(q)
<1>1. ReconcileAll(r, S, moved) = ReconcileEach(p, S, moved, q)
  BY DEF ReconcileAll
<1>2. Tracks(p) /\ p.hw = r.hw
  BY DEF Tracks
<1>3. Lists(q, DOMAIN S.wins)
  BY OrderedLists
<1> HIDE DEF p, q
<1>4. n \in Nat /\ DOMAIN q = 1..n /\ \A i \in 1..n : q[i] \in DOMAIN S.wins
  <2>1. q \in Seq(DOMAIN S.wins)
    BY <1>3 DEF Lists
  <2>2. QED
    BY <1>3, <2>1 DEF Lists
<1>5. PICK g : Runs(g, "reconcile", S, moved, p, q) /\ ReconcileEach(p, S, moved, q) = g[n]
  BY <1>4, ReconcileRuns
<1> DEFINE T == {k \in Nat : Tracks(g[k]) /\ DOMAIN r.hw \subseteq DOMAIN g[k].hw}
<1>6. 0 \in T
  BY <1>2, <1>5 DEF Runs
<1>7. ASSUME NEW k \in Nat, k < n /\ k \in T PROVE k + 1 \in T
  <2>1. k + 1 \in 1..n /\ (k + 1) - 1 = k
    BY <1>4, <1>7
  <2> DEFINE h == q[k + 1]
             t == g[k + 1]
  <2>2. t = TryReconcile(g[k], S, moved, h)
    BY <1>5, <2>1 DEF Runs, FoldStep
  <2>3. h \in DOMAIN S.wins
    BY <1>4, <2>1
  <2>4. Tracks(g[k])
    BY <1>7
  <2> HIDE DEF t, h
  <2>5. Tracks(t) /\ DOMAIN g[k].hw \subseteq DOMAIN t.hw
    BY <2>2, <2>3, <2>4, ReconcileTracks
  <2>6. QED
    BY <1>7, <2>5 DEF t
<1>8. n \in T
  <2> HIDE DEF T, n
  <2>1. \A k \in 0..n : k \in T
    BY <1>4, <1>6, <1>7, UpTo
  <2>2. QED
    BY <1>4, <2>1
<1>9. QED
  BY <1>1, <1>5, <1>8

\* An event that closes no window takes no binding.
LEMMA DispatchedTracks ==
  ASSUME NEW r, Tracks(r), r.ok, NEW q, InOrder(q.st), Grounded(q.st),
         DOMAIN r.st.windows \subseteq DOMAIN q.st.windows
  PROVE  LET t == Dispatched(r, q)
         IN  Tracks(t) /\ DOMAIN t.hw = DOMAIN r.hw
<1> DEFINE t == Dispatched(r, q)
<1>1. /\ DOMAIN t = DOMAIN r /\ t.st = q.st
      /\ t.hw = Drop(r.hw, DOMAIN r.hw \ DOMAIN q.st.windows)
  BY DEF Dispatched, Tracks
<1>2. DOMAIN r.hw \subseteq DOMAIN q.st.windows
  BY DEF Tracks
<1> HIDE DEF t
<1>3. DOMAIN t.hw = DOMAIN r.hw
  BY <1>1, <1>2 DEF Drop
<1>4. QED
  BY <1>1, <1>2, <1>3 DEF Tracks, t

\* A foreground that is observed.
LEMMA ObserveTracks ==
  ASSUME NEW r, Tracks(r), r.ok, NEW h
  PROVE  LET t == ObserveForeground(r, h)
         IN  Tracks(t) /\ DOMAIN t.hw = DOMAIN r.hw
<1> DEFINE x == WindowOf(r, h)
           s == r.st
           q == WindowFocusObserved(s, x)
<1>1. CASE Bound(r, h) /\ s.windows[x].ws \in DOMAIN s.workspaces
           /\ ObserveForeground(r, h) = Dispatched(r, q)
  <2>1. x \in DOMAIN r.hw
    BY <1>1 DEF Bound, WindowOf
  <2>2. x \in DOMAIN s.windows /\ InOrder(s) /\ Grounded(s) /\ Records(s)
    BY <2>1 DEF Tracks, Grounded
  <2>3. s.workspaces[s.windows[x].ws].mon \in DOMAIN s.sets
    BY <1>1, <2>2, SoundLookups DEF InOrder
  <2> HIDE DEF x
  <2>4. Spares(s, q.st, DOMAIN s.sets)
    BY <2>2, <2>3, FocusObservedSpares
  <2>5. InOrder(q.st) /\ Grounded(q.st)
    BY <1>1, <2>2, <2>4, WindowFocusObservedInOrder, TouchesGrounded DEF Spares
  <2> HIDE DEF q
  <2>6. QED
    BY <1>1, <2>4, <2>5, DispatchedTracks DEF Spares
<1>2. CASE ObserveForeground(r, h) = r
  BY <1>2
<1>3. QED
  BY <1>1, <1>2 DEF ObserveForeground

\* What a command may do to the store: it stays in order, and no window goes.
Commanded(s, q) ==
  InOrder(q.st) /\ Grounded(q.st) /\ DOMAIN s.windows \subseteq DOMAIN q.st.windows

\* Every command does that.
LEMMA CommandKeepsWindows ==
  ASSUME NEW s, InOrder(s), Grounded(s),
         NEW c \in {"focus-next", "focus-workspace-down", "move-to-monitor", "toggle-fullscreen",
                    "cycle-column-width", "reload"}
  PROVE  Commanded(s, CommandResult(s, c))
<1> DEFINE M == DOMAIN s.sets
           q == CommandResult(s, c)
<1>1. Records(s)
  BY DEF Grounded
<1>2. ASSUME InOrder(q.st), Keeps(s, q.st, M) PROVE Commanded(s, q)
  BY <1>2, TouchesGrounded DEF Keeps, Commanded
<1>3. \A w \in DOMAIN s.workspaces : s.workspaces[w].mon \in M
  BY SoundLookups DEF InOrder
<1>4. CASE c = "focus-next"
  <2>1. q = FocusNavigation(s, TRUE, FALSE)
    BY <1>4 DEF CommandResult
  <2> HIDE DEF q
  <2>2. Keeps(s, FocusNavigation(s, TRUE, FALSE).st, M)
    BY <1>1, <1>3, NavigationSpares, SparesKeeps
  <2>3. InOrder(FocusNavigation(s, TRUE, FALSE).st)
    BY FocusNavigationInOrder
  <2>4. QED
    BY <1>2, <2>1, <2>2, <2>3 DEF q
<1> DEFINE k == CommandMonitor(s, None)
<1>5. k # None => k \in M /\ AdjacentMonitor(s, k, TRUE) \in M
  BY CommandMonitorKnown, AdjacentMonitorKnown
<1>6. CASE c = "focus-workspace-down"
  <2>1. q = FocusWorkspace(s, TRUE, None)
    BY <1>6 DEF CommandResult
  <2> HIDE DEF q
  <2>2. Keeps(s, FocusWorkspace(s, TRUE, None).st, M)
    BY <1>1, <1>5, FocusWorkspaceSpares, SparesKeeps
  <2>3. InOrder(FocusWorkspace(s, TRUE, None).st)
    BY FocusWorkspaceInOrder
  <2>4. QED
    BY <1>2, <2>1, <2>2, <2>3 DEF q
<1>7. CASE c = "move-to-monitor"
  <2>1. q = MoveWorkspaceToMonitor(s, TRUE, None)
    BY <1>7 DEF CommandResult
  <2> HIDE DEF q
  <2>2. Keeps(s, MoveWorkspaceToMonitor(s, TRUE, None).st, M)
    BY <1>1, <1>5, MoveWorkspaceToMonitorSpares, SparesKeeps
  <2>3. InOrder(MoveWorkspaceToMonitor(s, TRUE, None).st)
    BY MoveWorkspaceToMonitorInOrder
  <2>4. QED
    BY <1>2, <2>1, <2>2, <2>3 DEF q
<1>8. CASE c = "toggle-fullscreen"
  <2>1. q = ToggleLayer(s, None, "Fullscreen")
    BY <1>8 DEF CommandResult, ToggleFullscreen
  <2> HIDE DEF q
  <2>2. Keeps(s, ToggleLayer(s, None, "Fullscreen").st, M)
    BY <1>1, <1>3, ToggleLayerKeeps
  <2>3. InOrder(ToggleLayer(s, None, "Fullscreen").st)
    BY ToggleLayerInOrder DEF Layers
  <2>4. QED
    BY <1>2, <2>1, <2>2, <2>3 DEF q
<1>9. CASE c \in {"cycle-column-width", "reload"}
  <2>1. q = CycleWidth(s) \/ q = [st |-> s, ok |-> TRUE, ws |-> None]
    BY <1>9 DEF CommandResult
  <2>2. q.st = s
    BY <2>1, SettleState DEF CycleWidth, Err
  <2> HIDE DEF q
  <2>3. Keeps(s, s, M)
    BY <1>1, SparesReflexive, SparesKeeps
  <2>4. QED
    BY <1>2, <2>2, <2>3 DEF q
<1>10. QED
  BY <1>4, <1>6, <1>7, <1>8, <1>9

---------------------------------------------------------------------------
(* The steps of a job. *)

\* The store is in order, and its windows are the ones with bindings.
StoreFits ==
  InOrder(st) /\ Grounded(st) /\ (up => DOMAIN hw \subseteq DOMAIN st.windows)

\* A job runs only in a daemon that runs, and holds a snapshot.
JobFits ==
  \/ job = Idle
  \/ /\ up
     /\ DOMAIN job = {"pc", "shot", "moved", "what", "before"}
     /\ job.shot \in Desktops
     /\ job.what \in UserCommands \union {"sync", "reload"}
     /\ job.pc = "dispatch" => job.what # "sync"

\* A binding of a window that is open goes for one of the two reasons.
ForgetsWithReason ==
  \A x \in DOMAIN hw \ DOMAIN hw' :
     hw[x] \in DOMAIN os.wins =>
       \/ hw[x] \notin DOMAIN job.shot.wins
       \/ st.windows[x].managed #
            (hw[x] \in ruled /\ MonitorIsManaged(st', job.shot.wins[hw[x]]))

\* A step of a job begins with what the store and the bindings are.
LEMMA NowTracks ==
  ASSUME StoreFits, up
  PROVE  Tracks(Now) /\ Now.ok /\ Now.st = st /\ Now.hw = hw
BY DEF StoreFits, Tracks, Now

\* It ends with what the step makes of them.
LEMMA BecomesFits ==
  ASSUME JobFits, job # Idle, NEW r, Tracks(r), NEW pc, Becomes(r, pc),
         pc = "dispatch" => job.what # "sync"
  PROVE  StoreFits' /\ JobFits'
<1>1. StoreFits'
  BY DEF Becomes, Tracks, StoreFits
<1>2. CASE r.ok
  <2>1. job' = [job EXCEPT !.pc = pc] /\ up'
    BY <1>2 DEF Becomes
  <2>2. DOMAIN job = {"pc", "shot", "moved", "what", "before"}
    BY DEF JobFits
  <2>3. /\ DOMAIN job' = DOMAIN job /\ job'.shot = job.shot /\ job'.what = job.what
        /\ job'.pc = pc
    BY <2>1, <2>2
  <2>4. QED
    BY <1>1, <2>1, <2>3 DEF JobFits
<1>3. CASE ~r.ok
  BY <1>1, <1>3 DEF Becomes, JobFits
<1>4. QED
  BY <1>2, <1>3

\* A snapshot enters: windows go whose rules or monitors changed.
LEMMA EnterFits ==
  ASSUME StoreFits, JobFits, Enter
  PROVE  StoreFits' /\ JobFits' /\ ForgetsWithReason
<1> DEFINE S == job.shot
           r == SyncMonitors(Now, S)
           X == {x \in DOMAIN r.hw : /\ r.hw[x] \in DOMAIN S.wins
                                     /\ S.wins[r.hw[x]] \in Known(r.st)
                                     /\ r.st.windows[x].managed # WantedManaged(r, S, r.hw[x])}
           t == DestroyAll(r, X)
<1>1. job # Idle /\ up /\ S \in Desktops
  BY DEF Enter, Idle, JobFits
<1>2. Tracks(Now) /\ Now.ok /\ Now.st = st /\ Now.hw = hw
  BY <1>1, NowTracks
<1>3. Tracks(r) /\ r.st.windows = st.windows /\ r.hw = hw /\ r.ok
  <2> HIDE DEF S
  <2>1. QED
    BY <1>1, <1>2, SyncMonitorsTracks
<1>4. Becomes(t, "discover")
  BY DEF Enter, Reclassify
<1>5. X \subseteq DOMAIN r.hw
  OBVIOUS
<1>6. \A x \in X : /\ hw[x] \in DOMAIN S.wins
                   /\ st.windows[x].managed # (hw[x] \in ruled /\ MonitorIsManaged(r.st, S.wins[hw[x]]))
  BY <1>3 DEF WantedManaged
<1> HIDE DEF X, r, S
<1>7. Tracks(t) /\ Known(t.st) = Known(r.st) /\ DOMAIN r.hw \ X \subseteq DOMAIN t.hw
  BY <1>3, <1>5, DestroyAllTracks
<1> HIDE DEF t
<1>8. StoreFits' /\ JobFits'
  BY <1>1, <1>4, <1>7, BecomesFits
<1>9. st' = t.st /\ hw' = t.hw
  BY <1>4 DEF Becomes
<1>10. \A m : MonitorIsManaged(st', m) = MonitorIsManaged(r.st, m)
  BY <1>7, <1>9 DEF MonitorIsManaged
<1>11. \A x \in DOMAIN hw \ DOMAIN hw' : x \in X
  BY <1>3, <1>7, <1>9
<1>12. ForgetsWithReason
  BY <1>6, <1>10, <1>11 DEF ForgetsWithReason, S
<1>13. QED
  BY <1>8, <1>12

\* Windows are discovered.
LEMMA DiscoveriesFit ==
  ASSUME StoreFits, JobFits, ReconcileDiscoveries
  PROVE  StoreFits' /\ JobFits' /\ ForgetsWithReason
<1> DEFINE t == ReconcileAll(Now, job.shot, job.moved)
<1>1. job # Idle /\ up /\ job.shot \in Desktops
  BY DEF ReconcileDiscoveries, Idle, JobFits
<1>2. Tracks(Now) /\ Now.hw = hw
  BY <1>1, NowTracks
<1>3. Becomes(t, "prune")
  BY DEF ReconcileDiscoveries
<1>4. Tracks(t) /\ DOMAIN hw \subseteq DOMAIN t.hw
  BY <1>1, <1>2, ReconcileAllTracks
<1> HIDE DEF t
<1>5. StoreFits' /\ JobFits'
  BY <1>1, <1>3, <1>4, BecomesFits
<1>6. QED
  BY <1>3, <1>4, <1>5 DEF Becomes, ForgetsWithReason

\* The windows missing from the snapshot go.
LEMMA PruneFits ==
  ASSUME StoreFits, JobFits, PruneMissing
  PROVE  StoreFits' /\ JobFits' /\ ForgetsWithReason
<1> DEFINE X == {x \in DOMAIN hw : hw[x] \notin DOMAIN job.shot.wins}
           t == DestroyAll(Now, X)
<1>1. job # Idle /\ up
  BY DEF PruneMissing, Idle, JobFits
<1>2. Tracks(Now) /\ Now.ok /\ Now.hw = hw
  BY <1>1, NowTracks
<1>3. Becomes(t, "claims")
  BY <1>2 DEF PruneMissing, Prune
<1>4. X \subseteq DOMAIN hw
  OBVIOUS
<1> HIDE DEF X
<1>5. Tracks(t) /\ DOMAIN hw \ X \subseteq DOMAIN t.hw
  BY <1>2, <1>4, DestroyAllTracks
<1> HIDE DEF t
<1>6. StoreFits' /\ JobFits'
  BY <1>1, <1>3, <1>5, BecomesFits
<1>7. \A x \in DOMAIN hw \ DOMAIN hw' : x \in X
  BY <1>3, <1>5 DEF Becomes
<1>8. QED
  BY <1>6, <1>7 DEF ForgetsWithReason, X

\* The foreground is observed, or not: no binding goes.
LEMMA FocusStepFits ==
  ASSUME StoreFits, JobFits, job # Idle, NEW h, NEW pc,
         Becomes(ObserveForeground(Now, h), pc) \/ Becomes(Now, pc),
         pc = "dispatch" => job.what # "sync"
  PROVE  StoreFits' /\ JobFits' /\ ForgetsWithReason
<1>1. up
  BY DEF JobFits
<1>2. Tracks(Now) /\ Now.ok /\ Now.hw = hw
  BY <1>1, NowTracks
<1>3. PICK t : Becomes(t, pc) /\ Tracks(t) /\ DOMAIN t.hw = DOMAIN hw
  BY <1>2, ObserveTracks
<1>4. StoreFits' /\ JobFits'
  BY <1>3, BecomesFits
<1>5. QED
  BY <1>3, <1>4 DEF Becomes, ForgetsWithReason

\* Its two steps.
LEMMA ObservingFits ==
  ASSUME StoreFits, JobFits, RefreshClaims \/ FollowForeground
  PROVE  StoreFits' /\ JobFits' /\ ForgetsWithReason
<1>1. CASE RefreshClaims
  <2>1. job # Idle
    BY <1>1 DEF RefreshClaims, Idle
  <2>2. Becomes(ObserveForeground(Now, cand), "follow") \/ Becomes(Now, "follow")
    BY <1>1 DEF RefreshClaims
  <2>3. QED
    BY <2>1, <2>2, FocusStepFits
<1>2. CASE FollowForeground
  <2>1. job # Idle
    BY <1>2 DEF FollowForeground, Idle
  <2>2. \/ Becomes(ObserveForeground(Now, job.shot.fg), AfterSync)
        \/ Becomes(Now, AfterSync)
    BY <1>2 DEF FollowForeground
  <2>3. AfterSync = "dispatch" => job.what # "sync"
    BY DEF AfterSync
  <2>4. QED
    BY <2>1, <2>2, <2>3, FocusStepFits
<1>3. QED
  BY <1>1, <1>2

\* The command is dispatched.
LEMMA RunCommandFits ==
  ASSUME StoreFits, JobFits, RunCommand
  PROVE  StoreFits' /\ JobFits' /\ ForgetsWithReason
<1> DEFINE c == job.what
           q == CommandResult(st, c)
           r == Dispatched(Now, q)
<1>1. job # Idle
  BY DEF RunCommand, Idle
<1>2. /\ up
      /\ DOMAIN job = {"pc", "shot", "moved", "what", "before"}
      /\ job.shot \in Desktops
      /\ c \in UserCommands \union {"reload"}
  BY <1>1 DEF JobFits, RunCommand
<1>3. c \in {"focus-next", "focus-workspace-down", "move-to-monitor", "toggle-fullscreen",
             "cycle-column-width", "reload"}
  BY <1>2, UserCommandsAssumption
<1>4. Tracks(Now) /\ Now.ok /\ Now.st = st /\ Now.hw = hw
  BY <1>2, NowTracks
<1>5. /\ st' = r.st /\ hw' = r.hw /\ up' = r.ok
      /\ job' = IF r.ok THEN [job EXCEPT !.pc = "claim", !.before = FocusedHandle(Now)] ELSE Idle
  BY DEF RunCommand
<1>6. Commanded(st, q)
  <2> HIDE DEF c
  <2>1. QED
    BY <1>3, CommandKeepsWindows DEF StoreFits
<1> HIDE DEF q
<1>7. Tracks(r) /\ DOMAIN r.hw = DOMAIN hw
  BY <1>4, <1>6, DispatchedTracks DEF Commanded
<1> HIDE DEF r
<1>8. StoreFits'
  BY <1>5, <1>7 DEF StoreFits, Tracks
<1>9. JobFits'
  <2>1. CASE r.ok
    <3>1. job' = [job EXCEPT !.pc = "claim", !.before = FocusedHandle(Now)] /\ up'
      BY <1>5, <2>1
    <3>2. /\ DOMAIN job' = DOMAIN job /\ job'.shot = job.shot /\ job'.what = job.what
          /\ job'.pc = "claim"
      BY <1>2, <3>1
    <3>3. QED
      BY <1>2, <3>1, <3>2 DEF JobFits
  <2>2. CASE ~r.ok
    BY <1>5, <2>2 DEF JobFits
  <2>3. QED
    BY <2>1, <2>2
<1>10. ForgetsWithReason
  BY <1>5, <1>7 DEF ForgetsWithReason
<1>11. QED
  BY <1>8, <1>9, <1>10

---------------------------------------------------------------------------
(* The desktop. *)

Messages == [shot : Desktops, moved : BOOLEAN]

\* The desktop and the snapshots on their way hold what a snapshot may hold.
DesktopFits == os \in Desktops /\ channel \in Seq(Messages)

\* A desktop with other windows, another foreground or other monitors is one.
LEMMA DesktopBecomes ==
  ASSUME NEW d \in Desktops, NEW e, DOMAIN e = {"wins", "fg", "mons"},
         e = [k \in {"wins", "fg", "mons"} |-> e[k]],
         e.wins = [h \in DOMAIN e.wins |-> e.wins[h]],
         IsFiniteSet(DOMAIN e.wins), DOMAIN e.wins \subseteq Handles,
         \A h \in DOMAIN e.wins : e.wins[h] \in Monitors,
         e.fg \in Nat, e.mons \subseteq Monitors
  PROVE  e \in Desktops
<1>1. e.wins \in [DOMAIN e.wins -> Monitors]
  OBVIOUS
<1>2. e.wins \in Placements
  BY <1>1 DEF Placements
<1>3. e \in [wins : Placements, fg : Nat, mons : SUBSET Monitors]
  BY <1>2
<1>4. QED
  BY <1>3 DEF Desktops

\* Users and programs leave a desktop behind.
LEMMA ChangesFit ==
  ASSUME DesktopFits, DesktopChanges
  PROVE  DesktopFits'
<1>1. /\ os \in [wins : Placements, fg : Nat, mons : SUBSET Monitors]
      /\ os.mons \subseteq Monitors
      /\ IsFiniteSet(DOMAIN os.wins) /\ DOMAIN os.wins \subseteq Handles
      /\ \A h \in DOMAIN os.wins : os.wins[h] \in Monitors
  BY DesktopParts DEF DesktopFits, Desktops
<1>2. /\ os = [k \in {"wins", "fg", "mons"} |-> os[k]] /\ os.fg \in Nat
      /\ os.wins = [h \in DOMAIN os.wins |-> os.wins[h]]
  BY <1>1 DEF Placements
<1>3. UNCHANGED channel
  BY DEF DesktopChanges, Opens, Closes, Clicks, Plugs, Unplugs, Changes
<1>4. ASSUME NEW h \in Handles, NEW m \in Monitors, Opens(h, m) PROVE os' \in Desktops
  <2>1. PICK fg \in {os.fg, h} : os' = [os EXCEPT !.wins = Put(@, h, m), !.fg = fg]
    BY <1>4 DEF Opens, Changes
  <2>2. fg \in Nat
    BY <1>2, RuntimeHandlesAssumption
  <2>3. IsFiniteSet(DOMAIN os.wins \union {h})
    BY <1>1, FS_AddElement
  <2>4. /\ DOMAIN os' = {"wins", "fg", "mons"} /\ os' = [k \in {"wins", "fg", "mons"} |-> os'[k]]
        /\ os'.wins = Put(os.wins, h, m) /\ os'.fg = fg /\ os'.mons = os.mons
    BY <1>2, <2>1
  <2>5. DOMAIN Put(os.wins, h, m) = DOMAIN os.wins \union {h}
        /\ \A g \in DOMAIN Put(os.wins, h, m) : Put(os.wins, h, m)[g] \in Monitors
    BY <1>1 DEF Put
  <2>6. os'.wins = [g \in DOMAIN os'.wins |-> os'.wins[g]]
    BY <2>4 DEF Put
  <2>7. /\ IsFiniteSet(DOMAIN os'.wins) /\ DOMAIN os'.wins \subseteq Handles
        /\ \A g \in DOMAIN os'.wins : os'.wins[g] \in Monitors
        /\ os'.fg \in Nat /\ os'.mons \subseteq Monitors
    BY <1>1, <2>2, <2>3, <2>4, <2>5
  <2>8. QED
    BY <2>4, <2>6, <2>7, DesktopBecomes DEF DesktopFits
<1>5. ASSUME NEW h \in Handles, Closes(h) PROVE os' \in Desktops
  <2>1. os' = [os EXCEPT !.wins = Drop(@, {h}), !.fg = IF @ = h THEN 0 ELSE @]
    BY <1>5 DEF Closes, Changes
  <2>2. /\ DOMAIN os' = {"wins", "fg", "mons"} /\ os' = [k \in {"wins", "fg", "mons"} |-> os'[k]]
        /\ os'.wins = Drop(os.wins, {h}) /\ os'.fg \in {0, os.fg} /\ os'.mons = os.mons
    BY <1>2, <2>1
  <2>3. DOMAIN os.wins \ {h} \in SUBSET DOMAIN os.wins
    OBVIOUS
  <2>4. IsFiniteSet(DOMAIN os.wins \ {h})
    BY <1>1, <2>3, FS_Subset
  <2>5. DOMAIN Drop(os.wins, {h}) = DOMAIN os.wins \ {h}
        /\ \A g \in DOMAIN Drop(os.wins, {h}) : Drop(os.wins, {h})[g] \in Monitors
    BY <1>1 DEF Drop
  <2>6. os'.wins = [g \in DOMAIN os'.wins |-> os'.wins[g]]
    BY <2>2 DEF Drop
  <2>7. /\ IsFiniteSet(DOMAIN os'.wins) /\ DOMAIN os'.wins \subseteq Handles
        /\ \A g \in DOMAIN os'.wins : os'.wins[g] \in Monitors
        /\ os'.fg \in Nat /\ os'.mons \subseteq Monitors
    BY <1>1, <1>2, <2>2, <2>4, <2>5
  <2>8. QED
    BY <2>2, <2>6, <2>7, DesktopBecomes DEF DesktopFits
<1>6. ASSUME NEW h \in Handles, Clicks(h) PROVE os' \in Desktops
  <2>1. os' = [os EXCEPT !.fg = h]
    BY <1>6 DEF Clicks, Changes
  <2>2. /\ DOMAIN os' = {"wins", "fg", "mons"} /\ os' = [k \in {"wins", "fg", "mons"} |-> os'[k]]
        /\ os'.wins = os.wins /\ os'.fg = h /\ os'.mons = os.mons
    BY <1>2, <2>1
  <2>3. h \in Nat
    BY RuntimeHandlesAssumption
  <2>4. /\ os'.wins = [g \in DOMAIN os'.wins |-> os'.wins[g]]
        /\ IsFiniteSet(DOMAIN os'.wins) /\ DOMAIN os'.wins \subseteq Handles
        /\ \A g \in DOMAIN os'.wins : os'.wins[g] \in Monitors
        /\ os'.fg \in Nat /\ os'.mons \subseteq Monitors
    BY <1>1, <1>2, <2>2, <2>3
  <2>5. QED
    BY <2>2, <2>4, DesktopBecomes DEF DesktopFits
<1>7. ASSUME NEW m \in Monitors, Plugs(m) PROVE os' \in Desktops
  <2>1. os' = [os EXCEPT !.mons = @ \union {m}]
    BY <1>7 DEF Plugs, Changes
  <2>2. /\ DOMAIN os' = {"wins", "fg", "mons"} /\ os' = [k \in {"wins", "fg", "mons"} |-> os'[k]]
        /\ os'.wins = os.wins /\ os'.fg = os.fg /\ os'.mons = os.mons \union {m}
    BY <1>2, <2>1
  <2>3. os'.mons \subseteq Monitors
    BY <1>1, <2>2
  <2>4. /\ os'.wins = [h \in DOMAIN os'.wins |-> os'.wins[h]]
        /\ IsFiniteSet(DOMAIN os'.wins) /\ DOMAIN os'.wins \subseteq Handles
        /\ \A h \in DOMAIN os'.wins : os'.wins[h] \in Monitors
        /\ os'.fg \in Nat
    BY <1>1, <1>2, <2>2
  <2>5. QED
    BY <2>2, <2>3, <2>4, DesktopBecomes DEF DesktopFits
<1>8. ASSUME NEW m \in Monitors, Unplugs(m) PROVE os' \in Desktops
  <2> DEFINE W == [h \in DOMAIN os.wins |-> IF os.wins[h] = m THEN Primary ELSE os.wins[h]]
  <2>1. os' = [os EXCEPT !.mons = os.mons \ {m}, !.wins = W]
    BY <1>8 DEF Unplugs, Changes
  <2>2. Primary \in Monitors
    BY PrimaryIsAMonitor
  <2>3. /\ DOMAIN W = DOMAIN os.wins /\ W = [h \in DOMAIN W |-> W[h]]
        /\ \A h \in DOMAIN W : W[h] \in Monitors
    BY <1>1, <2>2
  <2> HIDE DEF W
  <2>4. /\ DOMAIN os' = {"wins", "fg", "mons"} /\ os' = [k \in {"wins", "fg", "mons"} |-> os'[k]]
        /\ os'.wins = W /\ os'.fg = os.fg /\ os'.mons = os.mons \ {m}
    BY <1>2, <2>1
  <2>5. /\ os'.wins = [h \in DOMAIN os'.wins |-> os'.wins[h]]
        /\ IsFiniteSet(DOMAIN os'.wins) /\ DOMAIN os'.wins \subseteq Handles
        /\ \A h \in DOMAIN os'.wins : os'.wins[h] \in Monitors
        /\ os'.fg \in Nat /\ os'.mons \subseteq Monitors
    BY <1>1, <1>2, <2>3, <2>4
  <2>6. QED
    BY <2>4, <2>5, DesktopBecomes DEF DesktopFits
<1>9. os' \in Desktops
  BY <1>4, <1>5, <1>6, <1>7, <1>8 DEF DesktopChanges
<1>10. QED
  BY <1>3, <1>9 DEF DesktopFits

\* The plan is applied.
LEMMA ApplyFits ==
  ASSUME DesktopFits, Apply
  PROVE  DesktopFits'
<1>1. /\ os \in [wins : Placements, fg : Nat, mons : SUBSET Monitors]
      /\ IsFiniteSet(DOMAIN os.wins) /\ DOMAIN os.wins \subseteq Handles
      /\ \A h \in DOMAIN os.wins : os.wins[h] \in Monitors
  BY DesktopParts DEF DesktopFits, Desktops
<1>2. os = [k \in {"wins", "fg", "mons"} |-> os[k]] /\ os.fg \in Nat /\ os.mons \subseteq Monitors
  BY <1>1
<1>3. PICK obeys, activates :
         os' = [os EXCEPT !.wins = [h \in DOMAIN @ |-> IF h \in obeys /\ PlacedOn(h) \in os.mons
                                                       THEN PlacedOn(h) ELSE @[h]],
                          !.fg = IF activates /\ Activated \in DOMAIN os.wins THEN Activated ELSE @]
  BY DEF Apply
<1> DEFINE W == [h \in DOMAIN os.wins |-> IF h \in obeys /\ PlacedOn(h) \in os.mons
                                          THEN PlacedOn(h) ELSE os.wins[h]]
           f == IF activates /\ Activated \in DOMAIN os.wins THEN Activated ELSE os.fg
<1>4. os' = [os EXCEPT !.wins = W, !.fg = f]
  BY <1>3
<1>5. /\ DOMAIN W = DOMAIN os.wins /\ W = [h \in DOMAIN W |-> W[h]]
      /\ \A h \in DOMAIN W : W[h] \in Monitors
  BY <1>1, <1>2
<1>6. f \in Nat
  BY <1>1, <1>2, RuntimeHandlesAssumption
<1> HIDE DEF W, f
<1>7. /\ DOMAIN os' = {"wins", "fg", "mons"} /\ os' = [k \in {"wins", "fg", "mons"} |-> os'[k]]
      /\ os'.wins = W /\ os'.fg = f /\ os'.mons = os.mons
  BY <1>2, <1>4
<1>8. /\ os'.wins = [h \in DOMAIN os'.wins |-> os'.wins[h]]
      /\ IsFiniteSet(DOMAIN os'.wins) /\ DOMAIN os'.wins \subseteq Handles
      /\ \A h \in DOMAIN os'.wins : os'.wins[h] \in Monitors
      /\ os'.fg \in Nat /\ os'.mons \subseteq Monitors
  BY <1>1, <1>2, <1>5, <1>6, <1>7
<1>9. os' \in Desktops
  BY <1>7, <1>8, DesktopBecomes DEF DesktopFits
<1>10. QED
  BY <1>9 DEF Apply, DesktopFits

---------------------------------------------------------------------------
(* Every step. *)

RuntimeInv == StoreFits /\ JobFits /\ DesktopFits

\* Jobs begin with a snapshot.
LEMMA JobsBegin ==
  ASSUME RuntimeInv,
         \/ Observe \/ Poll
         \/ \E c \in UserCommands : DispatchCommand(c)
         \/ \E hs \in SUBSET Handles : ReloadConfig(hs)
  PROVE  RuntimeInv' /\ UNCHANGED hw
<1> DEFINE begins(S, what) == \E moved : job' = Job(S, moved, what)
<1>1. ASSUME up', NEW S \in Desktops, NEW what \in UserCommands \union {"sync", "reload"},
             begins(S, what)
      PROVE  JobFits'
  <2>1. PICK moved : job' = Job(S, moved, what)
    BY <1>1
  <2>2. /\ DOMAIN job' = {"pc", "shot", "moved", "what", "before"}
        /\ job'.shot = S /\ job'.what = what /\ job'.pc = "enter"
    BY <2>1 DEF Job
  <2>3. QED
    BY <1>1, <2>2 DEF JobFits
<1>2. job' = Idle => JobFits'
  BY DEF JobFits
<1>3. CASE Observe
  <2>1. /\ channel \in Seq(Messages) /\ channel # <<>> /\ channel' = Tail(channel)
        /\ os' = os /\ st' = st /\ up' = up /\ hw' = hw /\ up
    BY <1>3 DEF Observe, RuntimeInv, DesktopFits
  <2>2. Head(channel) \in Messages /\ channel' \in Seq(Messages)
    BY <2>1
  <2>3. Head(channel).shot \in Desktops
    BY <2>2 DEF Messages
  <2>4. job' = Idle \/ begins(Head(channel).shot, "sync")
    BY <1>3 DEF Observe
  <2> HIDE DEF begins
  <2>5. JobFits'
    BY <1>1, <1>2, <2>1, <2>3, <2>4
  <2>6. QED
    BY <2>1, <2>2, <2>5 DEF RuntimeInv, StoreFits, DesktopFits
<1>4. CASE Poll \/ (\E c \in UserCommands : DispatchCommand(c))
           \/ (\E hs \in SUBSET Handles : ReloadConfig(hs))
  <2>1. /\ UNCHANGED <<st, up, hw, os, channel>> /\ up
        /\ job' = Idle \/ \E what \in UserCommands \union {"sync", "reload"} : begins(os, what)
    BY <1>4 DEF Poll, DispatchCommand, ReloadConfig, Requested
  <2>2. os \in Desktops
    BY DEF RuntimeInv, DesktopFits
  <2> HIDE DEF begins
  <2>3. JobFits'
    BY <1>1, <1>2, <2>1, <2>2
  <2>4. QED
    BY <2>1, <2>3 DEF RuntimeInv, StoreFits, DesktopFits
<1>5. QED
  BY <1>3, <1>4

\* Every step keeps the invariant, and forgets with a reason.
LEMMA RuntimeSteps ==
  ASSUME RuntimeInv, RuntimeNext
  PROVE  RuntimeInv' /\ ForgetsWithReason
<1>1. hw' = hw => ForgetsWithReason
  BY DEF ForgetsWithReason
<1>2. ASSUME UNCHANGED <<os, channel>>, StoreFits' /\ JobFits' /\ ForgetsWithReason
      PROVE  RuntimeInv' /\ ForgetsWithReason
  BY <1>2 DEF RuntimeInv, DesktopFits
<1>3. ASSUME UNCHANGED <<st, up, hw, job>>, DesktopFits'
      PROVE  RuntimeInv' /\ ForgetsWithReason
  BY <1>1, <1>3 DEF RuntimeInv, StoreFits, JobFits
<1>4. CASE Enter \/ ReconcileDiscoveries \/ PruneMissing \/ RefreshClaims \/ FollowForeground
           \/ RunCommand
  <2>1. UNCHANGED <<os, channel>>
    BY <1>4 DEF Enter, ReconcileDiscoveries, PruneMissing, RefreshClaims, FollowForeground, RunCommand
  <2>2. StoreFits' /\ JobFits' /\ ForgetsWithReason
    BY <1>4, EnterFits, DiscoveriesFit, PruneFits, ObservingFits, RunCommandFits DEF RuntimeInv
  <2>3. QED
    BY <1>2, <2>1, <2>2
<1>5. CASE ArmClaim
  <2>1. /\ UNCHANGED <<st, up, hw, os, channel>> /\ job # Idle
        /\ job' = [job EXCEPT !.pc = "apply"]
    BY <1>5 DEF ArmClaim, Idle
  <2>2. /\ up /\ job.shot \in Desktops
        /\ DOMAIN job = {"pc", "shot", "moved", "what", "before"}
        /\ job.what \in UserCommands \union {"sync", "reload"}
    BY <2>1 DEF RuntimeInv, JobFits
  <2>3. /\ DOMAIN job' = DOMAIN job /\ job'.shot = job.shot /\ job'.what = job.what
        /\ job'.pc = "apply"
    BY <2>1, <2>2
  <2>4. JobFits'
    BY <2>1, <2>2, <2>3 DEF JobFits
  <2>5. QED
    BY <1>1, <2>1, <2>4 DEF RuntimeInv, StoreFits, DesktopFits
<1>6. CASE Apply
  <2>1. DesktopFits' /\ UNCHANGED <<st, up, hw>> /\ job' = Idle
    BY <1>6, ApplyFits DEF RuntimeInv, Apply
  <2>2. QED
    BY <1>1, <2>1 DEF RuntimeInv, StoreFits, JobFits
<1>7. CASE DesktopChanges
  <2>1. UNCHANGED <<st, up, hw, job>>
    BY <1>7 DEF DesktopChanges, Opens, Closes, Clicks, Plugs, Unplugs, Changes, loopVars
  <2>2. DesktopFits'
    BY <1>7, ChangesFit DEF RuntimeInv
  <2>3. QED
    BY <1>3, <2>1, <2>2
<1>8. CASE Captures
  <2>1. PICK moved \in BOOLEAN : channel' = Append(channel, [shot |-> os, moved |-> moved])
    BY <1>8 DEF Captures
  <2>2. os \in Desktops /\ channel \in Seq(Messages)
    BY DEF RuntimeInv, DesktopFits
  <2>3. [shot |-> os, moved |-> moved] \in Messages
    BY <2>2 DEF Messages
  <2>4. channel' \in Seq(Messages)
    BY <2>1, <2>2, <2>3
  <2>5. UNCHANGED <<st, up, hw, job, os>>
    BY <1>8 DEF Captures, loopVars
  <2>6. QED
    BY <1>3, <2>2, <2>4, <2>5 DEF DesktopFits
<1>9. CASE ClaimExpires \/ SettleExpires
  <2>1. UNCHANGED <<st, up, hw, job, os, channel>>
    BY <1>9 DEF ClaimExpires, SettleExpires
  <2>2. QED
    BY <1>3, <2>1 DEF RuntimeInv, DesktopFits
<1>10. CASE \/ Observe \/ Poll
            \/ \E c \in UserCommands : DispatchCommand(c)
            \/ \E hs \in SUBSET Handles : ReloadConfig(hs)
  BY <1>1, <1>10, JobsBegin
<1>11. QED
  BY <1>4, <1>5, <1>6, <1>7, <1>8, <1>9, <1>10 DEF RuntimeNext, Works

\* It holds before the first snapshot.
LEMMA RuntimeBegins ==
  ASSUME RuntimeInit
  PROVE  RuntimeInv
<1>1. st = InitState /\ up = TRUE /\ hw = <<>> /\ job = Idle /\ channel = <<>>
      /\ os = [wins |-> <<>>, fg |-> 0, mons |-> Monitors]
  BY DEF RuntimeInit
<1>2. InOrder(st)
  BY <1>1, InitInOrder DEF Init
<1>3. Grounded(st)
  BY <1>1 DEF InitState, Grounded, Records
<1>4. DOMAIN <<>> = {} /\ IsFiniteSet({})
  BY FS_EmptySet
<1>5. <<>> \in [{} -> Monitors]
  OBVIOUS
<1>6. <<>> \in Placements
  BY <1>5 DEF Placements
<1>7. os \in Desktops
  BY <1>1, <1>4, <1>6 DEF Desktops
<1>8. QED
  BY <1>1, <1>2, <1>3, <1>4, <1>7 DEF RuntimeInv, StoreFits, JobFits, DesktopFits

\* What snapshots, commands and reloads do keeps the store in order, and every
\* binding one of a window of the store, however old a snapshot is.
THEOREM RuntimeKeepsTheStore == RuntimeSpec => []RuntimeInv
<1>1. RuntimeInv /\ [RuntimeNext]_runtimeVars => RuntimeInv'
  <2>1. ASSUME RuntimeInv, UNCHANGED runtimeVars PROVE RuntimeInv'
    BY <2>1 DEF runtimeVars, RuntimeInv, StoreFits, JobFits, DesktopFits
  <2>2. QED
    BY <2>1, RuntimeSteps
<1>2. QED
  BY <1>1, RuntimeBegins, PTL DEF RuntimeSpec

\* A window that is still open is forgotten for two reasons only.
THEOREM StaleSnapshotsAloneForget == RuntimeSpec => OnlyStaleSnapshotsForget
<1>1. RuntimeInv /\ [RuntimeNext]_runtimeVars => [ForgetsWithReason]_runtimeVars
  BY RuntimeSteps
<1>2. OnlyStaleSnapshotsForget <=> [][ForgetsWithReason]_runtimeVars
  BY DEF OnlyStaleSnapshotsForget, ForgetsWithReason
<1>3. QED
  BY <1>1, <1>2, RuntimeKeepsTheStore, PTL DEF RuntimeSpec

---------------------------------------------------------------------------
(* What is dropped from the tracked windows (Discovery). *)

\* A window the filter takes out looks like a surface.
LEMMA FilteredAreSurfaces ==
  ASSUME NEW wins, NEW focused, NEW h \in DOMAIN wins, h \notin DOMAIN Filtered(wins, focused)
  PROVE  Surface(wins[h])
<1>1. AnchoredTransient(wins, focused, h)
  BY DEF Filtered, Restrict
<1>2. QED
  BY <1>1 DEF AnchoredTransient, Surface

\* What is missing from a scan is not captured, or looks like a surface.
LEMMA ScanMisses ==
  ASSUME NEW h, h \notin DOMAIN Scan.wins
  PROVE  ~Captured(h) \/ Surface(Capture(h))
<1> DEFINE wins == [g \in {g \in DOMAIN screen : Captured(g)} |-> Capture(g)]
<1>1. SUFFICES ASSUME Captured(h) PROVE Surface(Capture(h))
  OBVIOUS
<1>2. h \in DOMAIN wins /\ wins[h] = Capture(h)
  BY <1>1 DEF Captured
<1>3. h \notin DOMAIN Filtered(wins, {front})
  BY DEF Scan
<1> HIDE DEF wins
<1>4. QED
  BY <1>2, <1>3, FilteredAreSurfaces

\* What is missing from a snapshot refreshed for a window.
LEMMA RefreshMisses ==
  ASSUME NEW g, NEW h, h \notin DOMAIN Refreshed(picture, g).wins
  PROVE  \/ ~Captured(h) \/ Surface(Capture(h))
         \/ h \notin DOMAIN picture.wins
         \/ Surface(picture.wins[h])
<1> DEFINE p    == picture
           wins == [x \in DOMAIN p.wins \union {g} |-> IF x = g THEN Capture(g) ELSE p.wins[x]]
           focused == {x \in DOMAIN wins : x = (IF x = g THEN front ELSE p.fg)}
<1>1. CASE ~Captured(g)
  <2>1. Refreshed(picture, g).wins = Restrict(p.wins, DOMAIN p.wins \ {g})
    BY <1>1 DEF Refreshed, Removed
  <2>2. QED
    BY <1>1, <2>1 DEF Restrict
<1>2. CASE Captured(g)
  <2>1. h \notin DOMAIN Filtered(wins, focused)
    BY <1>2 DEF Refreshed
  <2>2. h \in DOMAIN picture.wins => h \in DOMAIN wins /\ wins[h] = IF h = g THEN Capture(h) ELSE picture.wins[h]
    OBVIOUS
  <2> HIDE DEF wins, focused
  <2>3. QED
    BY <2>1, <2>2, FilteredAreSurfaces
<1>3. QED
  BY <1>1, <1>2

\* A window is dropped only for what it looks like itself, or because the
\* snapshot is older than it.
THEOREM SurfacesAloneAreDropped == DiscoverySpec => OnlySurfacesAreDropped
<1> DEFINE Reason(h) == \/ ~Captured(h) \/ Surface(Capture(h))
                        \/ h \notin DOMAIN picture.wins
                        \/ Surface(picture.wins[h])
           drops == \A h \in tracked \ tracked' : Reason(h)
<1>1. ASSUME NEW p, Sync(p), \A h : h \notin DOMAIN p.wins => Reason(h)
      PROVE  drops
  BY <1>1 DEF Sync
<1>2. \A h : h \notin DOMAIN Scan.wins => Reason(h)
  BY ScanMisses
<1>3. \A g, h : h \notin DOMAIN Refreshed(picture, g).wins => Reason(h)
  BY RefreshMisses
<1>4. \A g, h : ~Captured(g) /\ h \notin DOMAIN Removed(picture, g).wins => Reason(h)
  BY DEF Removed, Restrict
<1>5. ASSUME DiscoveryNext PROVE drops
  <2>1. CASE tracked' = tracked
    BY <2>1
  <2>2. CASE Sync(Scan)
    BY <1>1, <1>2, <2>2
  <2>3. ASSUME NEW h \in Hwnds, NEW k \in {"create", "show", "location", "hide", "destroy"}, EventComes(k, h)
        PROVE  drops
    <3>1. PICK p : /\ p = IF k \in {"destroy", "hide"} THEN Removed(picture, h) ELSE Refreshed(picture, h)
                   /\ Answers(k, h, p)
                   /\ k \in {"destroy", "hide"} => ~Captured(h)
      BY <2>3 DEF EventComes
    <3>2. \A x : x \notin DOMAIN p.wins => Reason(x)
      BY <1>3, <1>4, <3>1
    <3>3. Sync(p) \/ Sync(Scan) \/ tracked' = tracked
      BY <3>1 DEF Answers, Sends
    <3>4. QED
      BY <1>1, <2>1, <2>2, <3>2, <3>3
  <2>4. QED
    BY <1>5, <2>1, <2>2, <2>3
    DEF DiscoveryNext, WindowOpens, WindowAlters, WindowCloses, FocusMoves, Shifts, FirstSnapshot,
        RescanFinds, PollSyncs, CommandSyncs, Sends
<1>6. [DiscoveryNext]_discoveryVars => [drops]_discoveryVars
  BY <1>5
<1>7. QED
  BY <1>6, PTL DEF DiscoverySpec, OnlySurfacesAreDropped

---------------------------------------------------------------------------
(* The strip: what its offset and its columns have to do with each other.   *)

StripColumns == [width : Nat, full : BOOLEAN]
StripFloats  == [at : Nat \ {0}, full : BOOLEAN]

\* The strips there can be, with any focus.
Strips ==
  [view : Nat \ {0}, columns : Seq(StripColumns), scroll : Nat, focus : Nat,
   here : BOOLEAN, floats : Seq(StripFloats)]

\* What StripNext keeps: there is room for every column, and the focus is on a
\* window of the workspace.
RoomFor(s)      == Len(s.floats) \in {0, 1} /\ Count(s) + Len(s.floats) <= MaxColumns
Focusable(s, f) == f \in 0..Count(s) \/ (f = OnFloating /\ s.floats # <<>>)

Fitting(s) == s \in Strips /\ RoomFor(s) /\ Focusable(s, s.focus)
StripFits  == Fitting(strip)

\* f[i] is where the columns after the first i begin.
Adds(f, s) ==
  /\ DOMAIN f = 0..Count(s) /\ f[0] = 0
  /\ \A k \in 1..Count(s) : f[k] = f[k - 1] + WidthOf(s, k) + Gap

\* Columns have a width.
LEMMA WidthsAreNumbers ==
  ASSUME NEW s \in Strips
  PROVE  /\ Count(s) \in Nat
         /\ \A i \in 1..Count(s) : s.columns[i] \in StripColumns
         /\ \A i \in 1..Count(s) : WidthOf(s, i) \in Nat \ {0}
<1>1. s.columns \in Seq(StripColumns) /\ s.view \in Nat \ {0}
  BY DEF Strips
<1>2. Len(s.columns) \in Nat /\ \A i \in 1..Len(s.columns) : s.columns[i] \in StripColumns
  BY <1>1
<1>3. ASSUME NEW i \in 1..Len(s.columns) PROVE WidthOf(s, i) \in Nat \ {0}
  <2>1. s.columns[i].width \in Nat
    BY <1>2 DEF StripColumns
  <2>2. s.view \div 2 \in Nat
    BY <1>1
  <2>3. Resolve(s.columns[i].width, s.view) \in Nat \ {0}
    BY <2>1, <2>2 DEF Resolve, Greatest
  <2>4. QED
    BY <1>1, <2>3 DEF WidthOf
<1>4. QED
  BY <1>2, <1>3 DEF Count

\* The beginnings of the columns are numbers, one after the other.
LEMMA AddsUp ==
  ASSUME NEW s \in Strips, NEW n \in 0..Count(s)
  PROVE  \E f : /\ f = [k \in 0..n |-> IF k = 0 THEN 0 ELSE f[k - 1] + WidthOf(s, k) + Gap]
                /\ \A k \in 0..n : f[k] \in Nat
<1> DEFINE Good(m, f) == /\ f = [k \in 0..m |-> IF k = 0 THEN 0 ELSE f[k - 1] + WidthOf(s, k) + Gap]
                         /\ \A k \in 0..m : f[k] \in Nat
           T == {m \in Nat : m <= n => \E f : Good(m, f)}
<1>1. Count(s) \in Nat /\ n \in Nat /\ \A i \in 1..n : WidthOf(s, i) \in Nat
  BY WidthsAreNumbers
<1>2. 0 \in T
  <2>1. Good(0, [k \in 0..0 |-> 0])
    OBVIOUS
  <2>2. QED
    BY <2>1
<1>3. ASSUME NEW m \in Nat, m < n, m \in T PROVE m + 1 \in T
  <2>1. PICK f : Good(m, f)
    BY <1>1, <1>3
  <2> DEFINE w == WidthOf(s, m + 1)
             g == [k \in 0..(m + 1) |-> IF k <= m THEN f[k] ELSE f[m] + w + Gap]
  <2>2. w \in Nat /\ Gap \in Nat /\ f[m] \in Nat
    BY <1>1, <1>3, <2>1, StripAssumption
  <2>3. \A k \in 0..m : f[k] = IF k = 0 THEN 0 ELSE f[k - 1] + WidthOf(s, k) + Gap
    BY <2>1
  <2>4. \A k \in 0..(m + 1) : g[k] = IF k = 0 THEN 0 ELSE g[k - 1] + WidthOf(s, k) + Gap
    <3>1. ASSUME NEW k \in 0..m PROVE g[k] = IF k = 0 THEN 0 ELSE g[k - 1] + WidthOf(s, k) + Gap
      <4>1. g[k] = f[k] /\ (k # 0 => g[k - 1] = f[k - 1])
        OBVIOUS
      <4>2. QED
        BY <2>3, <4>1
    <3>2. ASSUME NEW k, k = m + 1 PROVE g[k] = IF k = 0 THEN 0 ELSE g[k - 1] + WidthOf(s, k) + Gap
      <4>1. g[m + 1] = g[m] + w + Gap /\ k # 0 /\ k - 1 = m
        BY <3>2
      <4>2. QED
        BY <3>2, <4>1
    <3>3. \A k \in 0..(m + 1) : k \in 0..m \/ k = m + 1
      OBVIOUS
    <3> HIDE DEF g
    <3>4. QED
      BY <3>1, <3>2, <3>3
  <2>5. \A k \in 0..(m + 1) : g[k] \in Nat
    BY <2>1, <2>2
  <2>6. g = [k \in 0..(m + 1) |-> IF k = 0 THEN 0 ELSE g[k - 1] + WidthOf(s, k) + Gap]
    <3>1. g = [k \in 0..(m + 1) |-> g[k]]
      OBVIOUS
    <3> HIDE DEF g
    <3>2. QED
      BY <2>4, <3>1
  <2>7. Good(m + 1, g)
    BY <2>5, <2>6
  <2> HIDE DEF Good, g
  <2>8. QED
    BY <2>7
<1>4. \A k \in 0..n : k \in T
  <2> HIDE DEF T
  <2>1. QED
    BY <1>1, <1>2, <1>3, UpTo
<1>5. n \in T
  BY <1>1, <1>4
<1>6. QED
  BY <1>1, <1>5

\* The beginning of a column is that of the one before it, moved by its width and the gap.
LEMMA SpanAdds ==
  ASSUME NEW s \in Strips
  PROVE  /\ \A i \in 0..Count(s) : Span(s, i) \in Nat
         /\ Span(s, 0) = 0
         /\ \A i \in 1..Count(s) : Span(s, i) = Span(s, i - 1) + WidthOf(s, i) + Gap
<1> DEFINE n == Count(s)
           Spans(i, f) == f = [k \in 0..i |-> IF k = 0 THEN 0 ELSE f[k - 1] + WidthOf(s, k) + Gap]
<1>1. n \in Nat
  BY WidthsAreNumbers
<1>2. PICK f : Spans(n, f) /\ \A k \in 0..n : f[k] \in Nat
  BY <1>1, AddsUp
<1>3. f[0] = 0 /\ \A k \in 1..n : f[k] = f[k - 1] + WidthOf(s, k) + Gap
  BY <1>1, <1>2
<1>4. ASSUME NEW i \in 0..n PROVE Span(s, i) = f[i]
  <2> DEFINE c == CHOOSE g : Spans(i, g)
  <2>1. \E g : Spans(i, g)
    BY <1>1, AddsUp
  <2>2. Spans(i, c)
    BY <2>1
  <2>3. Span(s, i) = c[i]
    BY DEF Span
  <2> HIDE DEF c
  <2>4. c[0] = 0 /\ \A k \in 1..i : c[k] = c[k - 1] + WidthOf(s, k) + Gap
    BY <1>1, <2>2
  <2> DEFINE T == {k \in Nat : k <= i => c[k] = f[k]}
  <2>5. 0 \in T
    BY <1>3, <2>4
  <2>6. ASSUME NEW k \in Nat, k < i, k \in T PROVE k + 1 \in T
    <3>1. k + 1 \in 1..i /\ k + 1 \in 1..n /\ k + 1 - 1 = k /\ c[k] = f[k]
      BY <1>1, <2>6
    <3>2. c[k + 1] = f[k + 1]
      BY <1>3, <2>4, <3>1
    <3>3. QED
      BY <3>2
  <2>7. \A k \in 0..i : k \in T
    <3> HIDE DEF T
    <3>1. QED
      BY <1>1, <2>5, <2>6, UpTo
  <2>8. QED
    BY <1>1, <2>3, <2>7
<1>5. QED
  <2>1. \A i \in 1..n : i \in 0..n /\ i - 1 \in 0..n
    BY <1>1
  <2>2. 0 \in 0..n
    BY <1>1
  <2>3. QED
    BY <1>2, <1>3, <1>4, <2>1, <2>2

\* The further a column is to the right, the further it begins to the right.
LEMMA SpansAscend ==
  ASSUME NEW s \in Strips, NEW i \in 0..Count(s), NEW j \in 0..Count(s), i <= j
  PROVE  Span(s, i) <= Span(s, j)
<1> DEFINE T == {k \in Nat : i <= k /\ k <= j => Span(s, i) <= Span(s, k)}
<1>1. Count(s) \in Nat /\ Gap \in Nat /\ j \in Nat
  BY WidthsAreNumbers, StripAssumption
<1>2. \A k \in 0..Count(s) : Span(s, k) \in Nat
  BY SpanAdds
<1>3. 0 \in T
  BY <1>1, <1>2
<1>4. ASSUME NEW k \in Nat, k < j, k \in T PROVE k + 1 \in T
  <2>1. k + 1 \in 1..Count(s) /\ k + 1 - 1 = k /\ k \in 0..Count(s)
    BY <1>1, <1>4
  <2>2. Span(s, k + 1) = Span(s, k) + WidthOf(s, k + 1) + Gap /\ WidthOf(s, k + 1) \in Nat
    BY <2>1, SpanAdds, WidthsAreNumbers
  <2>3. i = k + 1 => Span(s, i) <= Span(s, k + 1)
    BY <1>2
  <2>4. QED
    BY <1>1, <1>2, <1>4, <2>1, <2>2, <2>3
<1>5. \A k \in 0..j : k \in T
  <2> HIDE DEF T
  <2>1. QED
    BY <1>1, <1>3, <1>4, UpTo
<1>6. QED
  BY <1>1, <1>5

\* Where column i is in the strip: it begins at a, is w wide, and the strip is c long.
Lies(s, i, a, w, c) ==
  /\ Span(s, i - 1) = a /\ WidthOf(s, i) = w /\ ContentWidth(s) = c
  /\ a \in Nat /\ w \in Nat \ {0} /\ c \in Nat /\ a + w <= c
  /\ i = Count(s) => a + w = c
  /\ Count(s) = 1 => a = 0

\* Every column lies within the strip.
LEMMA ColumnsLie ==
  ASSUME NEW s \in Strips
  PROVE  /\ ContentWidth(s) \in Nat /\ MaxScroll(s) \in Nat
         /\ \A i \in 1..Count(s) : \E a, w, c : Lies(s, i, a, w, c)
<1> DEFINE n == Count(s)
<1>1. n \in Nat /\ Gap \in Nat /\ s.view \in Nat
  BY WidthsAreNumbers, StripAssumption DEF Strips
<1>2. ASSUME NEW i \in 1..n PROVE Lies(s, i, Span(s, i - 1), WidthOf(s, i), ContentWidth(s))
  <2>1. i \in 0..n /\ i - 1 \in 0..n /\ n \in 0..n /\ i <= n /\ n # 0
    BY <1>1
  <2>2. Span(s, i) = Span(s, i - 1) + WidthOf(s, i) + Gap /\ Span(s, 0) = 0
        /\ Span(s, i - 1) \in Nat /\ Span(s, n) \in Nat
    BY <2>1, SpanAdds
  <2>3. WidthOf(s, i) \in Nat \ {0}
    BY WidthsAreNumbers
  <2>4. Span(s, i) <= Span(s, n)
    BY <2>1, SpansAscend
  <2>5. ContentWidth(s) = Span(s, n) - Gap
    BY <2>1 DEF ContentWidth
  <2>6. n = 1 => i - 1 = 0
    BY <2>1
  <2>7. n = 1 => Span(s, i - 1) = 0
    BY <2>2, <2>6
  <2>8. i = n => Span(s, i) = Span(s, n)
    OBVIOUS
  <2>9. QED
    BY <1>1, <2>2, <2>3, <2>4, <2>5, <2>7, <2>8 DEF Lies
<1>3. ContentWidth(s) \in Nat
  <2>1. CASE n = 0
    BY <2>1 DEF ContentWidth
  <2>2. CASE n # 0
    <3>1. n \in 1..n
      BY <1>1, <2>2
    <3>2. QED
      BY <1>2, <3>1 DEF Lies
  <2>3. QED
    BY <2>1, <2>2
<1>4. MaxScroll(s) \in Nat
  BY <1>1, <1>3 DEF MaxScroll, Greatest
<1>5. QED
  BY <1>2, <1>3, <1>4

\* Wider columns begin further to the right.
LEMMA SpansCompare ==
  ASSUME NEW s \in Strips, NEW t \in Strips, NEW n \in Nat, n <= Count(s), n <= Count(t),
         \A k \in 1..n : WidthOf(s, k) <= WidthOf(t, k)
  PROVE  \A k \in 0..n : Span(s, k) <= Span(t, k)
<1> DEFINE T == {k \in Nat : k <= n => Span(s, k) <= Span(t, k)}
<1>1. Count(s) \in Nat /\ Count(t) \in Nat /\ Gap \in Nat
  BY WidthsAreNumbers, StripAssumption
<1>2. \A k \in 0..n : Span(s, k) \in Nat /\ Span(t, k) \in Nat
  BY <1>1, SpanAdds
<1>3. 0 \in T
  BY SpanAdds
<1>4. ASSUME NEW k \in Nat, k < n, k \in T PROVE k + 1 \in T
  <2>1. k + 1 \in 1..Count(s) /\ k + 1 \in 1..Count(t) /\ k + 1 \in 1..n /\ k + 1 - 1 = k /\ k \in 0..n
    BY <1>1, <1>4
  <2>2. Span(s, k + 1) = Span(s, k) + WidthOf(s, k + 1) + Gap /\ WidthOf(s, k + 1) \in Nat
    BY <2>1, SpanAdds, WidthsAreNumbers
  <2>3. Span(t, k + 1) = Span(t, k) + WidthOf(t, k + 1) + Gap /\ WidthOf(t, k + 1) \in Nat
    BY <2>1, SpanAdds, WidthsAreNumbers
  <2>4. Span(s, k) <= Span(t, k) /\ WidthOf(s, k + 1) <= WidthOf(t, k + 1)
    BY <1>4, <2>1
  <2>5. QED
    BY <1>1, <1>2, <2>1, <2>2, <2>3, <2>4
<1>5. \A k \in 0..n : k \in T
  <2> HIDE DEF T
  <2>1. QED
    BY <1>3, <1>4, UpTo
<1>6. QED
  BY <1>5

\* The same columns in the same viewport are at the same places.
SameLayout(t, s) == t \in Strips /\ t.view = s.view /\ t.columns = s.columns

LEMMA SameLayoutSamePlaces ==
  ASSUME NEW s \in Strips, NEW t, SameLayout(t, s)
  PROVE  /\ Count(t) = Count(s) /\ ContentWidth(t) = ContentWidth(s) /\ MaxScroll(t) = MaxScroll(s)
         /\ \A i \in 1..Count(s) : WidthOf(t, i) = WidthOf(s, i) /\ Span(t, i - 1) = Span(s, i - 1)
<1> DEFINE n == Count(s)
<1>1. t \in Strips /\ Count(t) = n /\ n \in Nat
  BY WidthsAreNumbers DEF SameLayout, Count
<1>2. \A i \in 1..n : WidthOf(t, i) = WidthOf(s, i) /\ WidthOf(s, i) \in Nat
  BY WidthsAreNumbers DEF SameLayout, WidthOf
<1>3. \A i \in 1..n : WidthOf(t, i) <= WidthOf(s, i) /\ WidthOf(s, i) <= WidthOf(t, i)
  BY <1>2
<1>4. n <= Count(s) /\ n <= Count(t)
  BY <1>1
<1>5. \A k \in 0..n : Span(s, k) <= Span(t, k)
  BY <1>1, <1>3, <1>4, SpansCompare
<1>6. \A k \in 0..n : Span(t, k) <= Span(s, k)
  BY <1>1, <1>3, <1>4, SpansCompare
<1>7. \A k \in 0..n : Span(t, k) = Span(s, k)
  <2>1. \A k \in 0..n : Span(s, k) \in Nat /\ Span(t, k) \in Nat
    BY <1>1, SpanAdds
  <2>2. QED
    BY <1>5, <1>6, <2>1
<1>8. \A i \in 1..n : i - 1 \in 0..n
  BY <1>1
<1>9. n \in 0..n
  BY <1>1
<1>10. ContentWidth(t) = ContentWidth(s)
  BY <1>1, <1>7, <1>9 DEF ContentWidth
<1>11. QED
  BY <1>1, <1>2, <1>7, <1>8, <1>10 DEF MaxScroll, SameLayout

\* A strip never becomes shorter than one whose columns it holds, at least as wide
\* and each no further to the left.
LEMMA InsertingLengthens ==
  ASSUME NEW s \in Strips, NEW t \in Strips, NEW at \in 1..(Count(s) + 1), t.view = s.view,
         Spliced(t.columns, StripColumns, s.columns, at, t.columns[at])
  PROVE  /\ Count(t) = Count(s) + 1
         /\ ContentWidth(s) <= ContentWidth(t) /\ MaxScroll(s) <= MaxScroll(t)
         /\ \A i \in 1..(at - 1) : WidthOf(t, i) = WidthOf(s, i) /\ Span(t, i - 1) = Span(s, i - 1)
<1> DEFINE n == Count(s)
           T == {k \in Nat : k <= n => Span(s, k) <= Span(t, k + 1)}
<1>1. n \in Nat /\ Count(t) = n + 1 /\ Gap \in Nat
  BY WidthsAreNumbers, StripAssumption DEF Spliced, Count
<1>2. \A k \in 1..(at - 1) : t.columns[k] = s.columns[k]
  BY <1>1 DEF Spliced, Count
<1>3. \A k \in at..n : t.columns[k + 1] = s.columns[k]
  <2>1. TAKE k \in at..n
  <2>2. k + 1 \in 1..(n + 1) /\ ~(k + 1 < at) /\ k + 1 # at /\ k + 1 - 1 = k
    BY <1>1
  <2>3. QED
    BY <2>2 DEF Spliced, Count
<1>4. \A k \in 1..(at - 1) : WidthOf(t, k) = WidthOf(s, k)
  BY <1>2 DEF WidthOf
<1>5. \A k \in at..n : WidthOf(t, k + 1) = WidthOf(s, k)
  BY <1>3 DEF WidthOf
<1>6. /\ \A k \in 0..n : Span(s, k) \in Nat /\ Span(t, k) \in Nat /\ Span(t, k + 1) \in Nat
      /\ \A k \in 1..n : WidthOf(s, k) \in Nat
      /\ \A k \in 1..(n + 1) : WidthOf(t, k) \in Nat
  BY <1>1, SpanAdds, WidthsAreNumbers
<1>7. at - 1 \in Nat /\ at - 1 <= n /\ at - 1 <= Count(t)
  BY <1>1
<1>8. \A k \in 0..(at - 1) : Span(s, k) = Span(t, k)
  <2>1. \A k \in 1..(at - 1) : WidthOf(t, k) <= WidthOf(s, k) /\ WidthOf(s, k) <= WidthOf(t, k)
    BY <1>1, <1>4, <1>6
  <2>2. \A k \in 0..(at - 1) : Span(s, k) <= Span(t, k)
    BY <1>7, <2>1, SpansCompare
  <2>3. \A k \in 0..(at - 1) : Span(t, k) <= Span(s, k)
    BY <1>7, <2>1, SpansCompare
  <2>4. QED
    BY <1>1, <1>6, <1>7, <2>2, <2>3
<1>9. 0 \in T
  <2>1. Span(s, 0) = 0 /\ Span(t, 0 + 1) \in Nat
    BY <1>1, <1>6, SpanAdds
  <2>2. QED
    BY <2>1
<1>10. ASSUME NEW k \in Nat, k < n, k \in T PROVE k + 1 \in T
  <2>1. /\ k + 1 \in 1..n /\ k + 1 + 1 \in 1..(n + 1) /\ k + 1 - 1 = k /\ k + 1 + 1 - 1 = k + 1
        /\ k \in 0..n /\ k + 1 \in 0..n
    BY <1>1, <1>10
  <2>2. Span(s, k + 1) = Span(s, k) + WidthOf(s, k + 1) + Gap
    BY <2>1, SpanAdds
  <2>3. Span(t, k + 1 + 1) = Span(t, k + 1) + WidthOf(t, k + 1 + 1) + Gap
    BY <1>1, <2>1, SpanAdds
  <2>4. Span(s, k + 1) <= Span(t, k + 1 + 1)
    <3>1. CASE k + 1 < at
      <4>1. Span(s, k + 1) = Span(t, k + 1)
        BY <1>1, <1>8, <2>1, <3>1
      <4>2. QED
        BY <1>1, <1>6, <2>1, <2>3, <4>1
    <3>2. CASE ~(k + 1 < at)
      <4>1. WidthOf(t, k + 1 + 1) = WidthOf(s, k + 1)
        BY <1>1, <1>5, <2>1, <3>2
      <4>2. Span(s, k) <= Span(t, k + 1)
        BY <1>10, <2>1
      <4>3. QED
        BY <1>1, <1>6, <2>1, <2>2, <2>3, <4>1, <4>2
    <3>3. QED
      BY <3>1, <3>2
  <2>5. QED
    BY <2>4
<1>11. \A k \in 0..n : k \in T
  <2> HIDE DEF T
  <2>1. QED
    BY <1>1, <1>9, <1>10, UpTo
<1>12. Span(s, n) <= Span(t, n + 1)
  BY <1>1, <1>11
<1>13. ContentWidth(s) <= ContentWidth(t)
  <2>1. n + 1 # 0 /\ ContentWidth(t) = Span(t, n + 1) - Gap /\ ContentWidth(t) \in Nat
    BY <1>1, ColumnsLie DEF ContentWidth
  <2>2. CASE n = 0
    BY <2>1, <2>2 DEF ContentWidth
  <2>3. CASE n # 0
    BY <1>1, <1>6, <1>12, <2>1, <2>3 DEF ContentWidth
  <2>4. QED
    BY <2>2, <2>3
<1>14. MaxScroll(s) <= MaxScroll(t)
  <2>1. ContentWidth(s) \in Nat /\ ContentWidth(t) \in Nat /\ s.view \in Nat
    BY ColumnsLie DEF Strips
  <2>2. QED
    BY <1>13, <2>1 DEF MaxScroll, Greatest
<1>15. \A i \in 1..(at - 1) : i - 1 \in 0..(at - 1)
  OBVIOUS
<1>16. QED
  BY <1>1, <1>4, <1>8, <1>13, <1>14, <1>15

\* t is s scrolled to an offset in range.
Rescrolled(t, s) ==
  /\ SameLayout(t, s) /\ InRange(t)
  /\ t.focus = s.focus /\ t.here = s.here /\ t.floats = s.floats

\* Scrolling ends in range.
LEMMA ScrollingRescrolls ==
  ASSUME NEW s \in Strips, NEW d \in Int
  PROVE  /\ Rescrolled(ScrollBy(s, d), s)
         /\ ScrollBy(s, d).scroll = Within(s.scroll + d, 0, MaxScroll(s))
<1> DEFINE to == Within(s.scroll + d, 0, MaxScroll(s))
           t == ScrollBy(s, d)
<1>1. s.scroll \in Nat /\ MaxScroll(s) \in Nat
  BY ColumnsLie DEF Strips
<1>2. to \in 0..MaxScroll(s)
  BY <1>1 DEF Within, Least, Greatest
<1>3. t = [s EXCEPT !.scroll = to]
  BY DEF ScrollBy
<1> HIDE DEF to, t
<1>4. /\ t \in Strips /\ t.scroll = to /\ t.view = s.view /\ t.columns = s.columns
      /\ t.focus = s.focus /\ t.here = s.here /\ t.floats = s.floats
  <2>1. to \in Nat
    BY <1>1, <1>2
  <2>2. QED
    BY <1>3, <2>1 DEF Strips
<1>5. SameLayout(t, s)
  BY <1>4 DEF SameLayout
<1>6. MaxScroll(t) = MaxScroll(s)
  BY <1>5, SameLayoutSamePlaces
<1>7. QED
  BY <1>2, <1>4, <1>5, <1>6 DEF InRange, Rescrolled, t, to

\* Clamping the offset ends in range, and leaves what is in range.
LEMMA ClampingRescrolls ==
  ASSUME NEW s \in Strips
  PROVE  Rescrolled(ClampScroll(s), s) /\ (InRange(s) => ClampScroll(s) = s)
<1>1. s.scroll \in Nat /\ MaxScroll(s) \in Nat
  BY ColumnsLie DEF Strips
<1>2. s.scroll + 0 = s.scroll
  BY <1>1
<1>3. ClampScroll(s) = ScrollBy(s, 0)
  BY <1>2 DEF ClampScroll, ScrollBy
<1>4. ASSUME InRange(s) PROVE ClampScroll(s) = s
  <2>1. Within(s.scroll, 0, MaxScroll(s)) = s.scroll
    BY <1>1, <1>4 DEF InRange, Within, Least, Greatest
  <2>2. QED
    BY <2>1 DEF ClampScroll, Strips
<1>5. QED
  BY <1>3, <1>4, ScrollingRescrolls

\* How far the offset is from where the layout puts a strip.
Leads(s, o) ==
  /\ s.view <= ContentWidth(s) => o = -s.scroll
  /\ s.view > ContentWidth(s) =>
       \/ o = -s.scroll /\ Count(s) # 1
       \/ Count(s) = 1 /\ o = (s.view - ContentWidth(s)) \div 2
       \/ o = s.view - ContentWidth(s) /\ Count(s) # 1

LEMMA OriginLeads ==
  ASSUME NEW s \in Strips, Count(s) # 0
  PROVE  Leads(s, Origin(s)) /\ Origin(s) \in Int
<1>1. s.scroll \in Nat /\ s.view \in Nat \ {0} /\ ContentWidth(s) \in Nat
  BY ColumnsLie DEF Strips
<1>2. Leads(s, Origin(s))
  BY <1>1 DEF Leads, Origin
<1>3. (s.view - ContentWidth(s)) \div 2 \in Int
  BY <1>1
<1>4. QED
  BY <1>1, <1>2, <1>3 DEF Leads

\* Wherever the strip is, a column lies in sight once it is revealed.
LEMMA RevealingShows ==
  ASSUME NEW s \in Strips, NEW i \in 1..Count(s)
  PROVE  Rescrolled(Reveal(s, i), s) /\ InSight(Reveal(s, i), i)
<1> DEFINE v == s.view
           n == Count(s)
           t == Reveal(s, i)
<1>1. PICK a, w, c : Lies(s, i, a, w, c)
  BY ColumnsLie
<1>2. PICK o \in Int : o = Origin(s) /\ Leads(s, o)
  <2>1. n # 0
    BY WidthsAreNumbers
  <2>2. QED
    BY <2>1, OriginLeads
<1>3. n \in Nat /\ v \in Nat \ {0} /\ s.scroll \in Nat
  BY WidthsAreNumbers DEF Strips
<1>4. a \in Nat /\ w \in Nat \ {0} /\ c \in Nat /\ a + w <= c /\ (i = n => a + w = c) /\ (n = 1 => a = 0)
  BY <1>1 DEF Lies
<1>5. LeftOf(s, i) = o + a /\ RightOf(s, i) = o + a + w /\ WidthOf(s, i) = w
  BY <1>1, <1>2 DEF LeftOf, RightOf, Lies
<1> DEFINE middle == o + a + w \div 2 - v \div 2
<1>6. PICK most \in Nat : most = MaxScroll(s) /\ (c <= v => most = 0) /\ (c > v => most = c - v)
  BY <1>1, <1>3, <1>4, ColumnsLie DEF MaxScroll, Greatest, Lies
<1> DEFINE d == IF w < v /\ n = 1 THEN Within(middle, 0, most) - s.scroll
                ELSE IF o + a < 0 THEN o + a
                ELSE IF o + a + w > v THEN o + a + w - v
                ELSE 0
<1>7. t = ScrollBy(s, d)
  <2> DEFINE there == LeftOf(s, i) + WidthOf(s, i) \div 2 - s.view \div 2
             by == IF WidthOf(s, i) < s.view /\ Count(s) = 1 THEN Within(there, 0, MaxScroll(s)) - s.scroll
                   ELSE IF LeftOf(s, i) < 0 THEN LeftOf(s, i)
                   ELSE IF RightOf(s, i) > s.view THEN RightOf(s, i) - s.view
                   ELSE 0
  <2>1. t = ScrollBy(s, by)
    BY DEF Reveal
  <2>2. there = middle
    BY <1>5
  <2>3. PICK m : m = Within(there, 0, MaxScroll(s)) /\ m = Within(middle, 0, most)
    BY <1>6, <2>2
  <2> HIDE DEF there, middle
  <2>4. by = d
    <3>1. PICK l \in Int : l = LeftOf(s, i) /\ l = o + a
      BY <1>4, <1>5
    <3>2. PICK r \in Int : r = RightOf(s, i) /\ r = o + a + w
      BY <1>4, <1>5
    <3>3. by = IF w < v /\ n = 1 THEN m - s.scroll
               ELSE IF l < 0 THEN l ELSE IF r > v THEN r - v ELSE 0
      BY <1>5, <2>3, <3>1, <3>2
    <3> HIDE DEF by
    <3>4. d = IF w < v /\ n = 1 THEN m - s.scroll
              ELSE IF l < 0 THEN l ELSE IF r > v THEN r - v ELSE 0
      BY <1>3, <1>4, <2>3, <3>1, <3>2
    <3> HIDE DEF d
    <3>5. QED
      BY <3>3, <3>4
  <2> HIDE DEF by, d, t
  <2>5. QED
    BY <2>1, <2>4
<1>8. middle \in Int
  BY <1>3, <1>4
<1>9. d \in Int
  BY <1>3, <1>4, <1>6, <1>8 DEF Within, Least, Greatest
<1>10. PICK x \in 0..most : x = t.scroll /\ x = Within(s.scroll + d, 0, most)
  <2>1. t.scroll = Within(s.scroll + d, 0, most)
    BY <1>6, <1>7, <1>9, ScrollingRescrolls
  <2>2. Within(s.scroll + d, 0, most) \in 0..most
    BY <1>3, <1>6, <1>9 DEF Within, Least, Greatest
  <2>3. QED
    BY <2>1, <2>2
<1>11. Rescrolled(t, s)
  BY <1>7, <1>9, ScrollingRescrolls
<1>12. t \in Strips /\ SameLayout(t, s) /\ t.view = v
  BY <1>11 DEF Rescrolled, SameLayout
<1>13. Count(t) = n /\ ContentWidth(t) = c /\ WidthOf(t, i) = w /\ Span(t, i - 1) = a
  BY <1>1, <1>12, SameLayoutSamePlaces DEF Lies
<1>14. PICK p \in Int : p = Origin(t) /\ Leads(t, p)
  <2>1. Count(t) # 0
    BY <1>3, <1>13
  <2>2. QED
    BY <1>12, <2>1, OriginLeads
<1>15. LeftOf(t, i) = p + a /\ RightOf(t, i) = p + a + w
  BY <1>13, <1>14 DEF LeftOf, RightOf
<1>16. /\ v <= c => p = -x
       /\ v > c => \/ p = -x /\ n # 1
                   \/ n = 1 /\ p = (v - c) \div 2
                   \/ p = v - c /\ n # 1
  BY <1>10, <1>12, <1>13, <1>14 DEF Leads
<1>17. v <= c => o = -s.scroll
  BY <1>1, <1>2 DEF Leads, Lies
<1> HIDE DEF t, n, v
<1>18. \/ p + a >= 0 /\ p + a + w <= v
       \/ p + a <= 0 /\ p + a + w >= v
  <2>1. CASE v > c
    <3>1. x = 0
      BY <1>3, <1>4, <1>6, <1>10, <2>1
    <3>2. (v - c) \div 2 >= 0 /\ (v - c) \div 2 <= v - c
      BY <1>3, <1>4, <2>1
    <3>3. QED
      BY <1>3, <1>4, <1>16, <2>1, <3>1, <3>2
  <2>2. CASE v <= c
    <3>1. p = -x /\ o = -s.scroll /\ most = c - v
      BY <1>3, <1>4, <1>6, <1>16, <1>17, <2>2
    <3>2. ~(w < v /\ n = 1)
      <4>1. ASSUME n = 1 PROVE w = c
        <5>1. i = n
          BY <4>1 DEF n
        <5>2. QED
          BY <1>3, <1>4, <4>1, <5>1
      <4>2. QED
        BY <1>3, <1>4, <2>2, <4>1
    <3>3. d = IF o + a < 0 THEN o + a ELSE IF o + a + w > v THEN o + a + w - v ELSE 0
      BY <3>2
    <3> HIDE DEF d
    <3>4. QED
      BY <1>3, <1>4, <1>6, <1>10, <3>1, <3>3 DEF Within, Least, Greatest
  <2>3. QED
    BY <1>3, <1>4, <2>1, <2>2
<1>19. QED
  BY <1>11, <1>12, <1>15, <1>18 DEF InSight, t

\* t is s with the focus on column i, which is in sight.
Shown(t, s, i) ==
  /\ SameLayout(t, s) /\ t.floats = s.floats
  /\ t.focus = i /\ t.here /\ InRange(t) /\ InSight(t, i)

\* f is s with the focus on the target.
Aimed(f, s, target) ==
  /\ SameLayout(f, s) /\ f.floats = s.floats /\ f.scroll = s.scroll
  /\ f.focus = target /\ f.here

\* Moving the focus moves nothing else.
LEMMA FocusingAims ==
  ASSUME NEW s \in Strips, NEW target \in Nat
  PROVE  Aimed(Focused(s, target), s, target)
<1>1. PICK f : f = [s EXCEPT !.focus = target, !.here = TRUE]
  OBVIOUS
<1>2. /\ f \in Strips /\ f.view = s.view /\ f.columns = s.columns /\ f.floats = s.floats
      /\ f.scroll = s.scroll /\ f.focus = target /\ f.here = TRUE
  BY <1>1 DEF Strips
<1>3. f = Focused(s, target)
  BY <1>1 DEF Focused
<1>4. QED
  BY <1>2, <1>3 DEF Aimed, SameLayout

\* Giving the focus to a column shows it.
LEMMA FocusingShows ==
  ASSUME NEW s \in Strips, NEW i \in 1..Count(s)
  PROVE  Shown(FocusedAndRevealed(s, i), s, i)
<1>1. PICK f : f = Focused(s, i)
  OBVIOUS
<1>2. Count(s) \in Nat
  BY WidthsAreNumbers
<1>3. Aimed(f, s, i)
  <2>1. i \in Nat
    BY <1>2
  <2>2. QED
    BY <1>1, <2>1, FocusingAims
<1>4. f \in Strips /\ i \in 1..Count(f)
  BY <1>3 DEF Count, Aimed, SameLayout
<1>5. PICK t : t = Reveal(f, i) /\ Rescrolled(t, f) /\ InSight(t, i)
  BY <1>4, RevealingShows
<1>6. FocusedAndRevealed(s, i) = t
  BY <1>1, <1>5 DEF FocusedAndRevealed
<1>7. QED
  BY <1>3, <1>5, <1>6 DEF Shown, Rescrolled, Aimed, SameLayout

\* t is s with the focus on what a workspace without one focuses.
Refocused(t, s) ==
  /\ Count(s) > 0 => Shown(t, s, 1)
  /\ Count(s) = 0 => /\ SameLayout(t, s) /\ t.floats = s.floats
                     /\ t.focus = IF s.floats # <<>> THEN OnFloating ELSE Nothing

LEMMA RetargetingRefocuses ==
  ASSUME NEW s \in Strips
  PROVE  Refocused(Retargeted(s), s)
<1>1. Count(s) \in Nat /\ MaxColumns \in Nat
  BY WidthsAreNumbers, StripAssumption
<1>2. CASE Count(s) > 0
  <2>1. 1 \in 1..Count(s)
    BY <1>1, <1>2
  <2>2. Retargeted(s) = FocusedAndRevealed(s, 1)
    BY <1>2 DEF Retargeted
  <2>3. QED
    BY <1>1, <1>2, <2>1, <2>2, FocusingShows DEF Refocused
<1>3. CASE Count(s) = 0
  <2>1. PICK f : f = IF s.floats # <<>> THEN OnFloating ELSE Nothing
    OBVIOUS
  <2>2. f \in Nat
    BY <1>1, <2>1 DEF OnFloating, Nothing
  <2>3. Retargeted(s) = Focused(s, f)
    BY <1>3, <2>1 DEF Retargeted
  <2>4. Aimed(Retargeted(s), s, f)
    BY <2>2, <2>3, FocusingAims
  <2>5. ~(Count(s) > 0)
    BY <1>3
  <2>6. QED
    BY <2>1, <2>4, <2>5 DEF Refocused, Aimed
<1>4. QED
  BY <1>1, <1>2, <1>3

\* t is s with one more column, in front of which nothing has moved.
Extended(t, s, at) ==
  /\ t \in Strips /\ t.view = s.view /\ t.scroll = s.scroll /\ t.here = s.here /\ t.floats = s.floats
  /\ t.focus = IF s.focus \in at..Count(s) THEN s.focus + 1 ELSE s.focus
  /\ Count(t) = Count(s) + 1
  /\ ContentWidth(s) <= ContentWidth(t) /\ MaxScroll(s) <= MaxScroll(t)
  /\ \A i \in 1..(at - 1) : WidthOf(t, i) = WidthOf(s, i) /\ Span(t, i - 1) = Span(s, i - 1)

LEMMA InsertingExtends ==
  ASSUME NEW s \in Strips, NEW at \in 1..(Count(s) + 1), NEW column \in StripColumns
  PROVE  Extended(Inserted(s, at, column), s, at)
<1>1. PICK t : t = Inserted(s, at, column)
  OBVIOUS
<1>2. PICK q : q = InsertAt(s.columns, at, column)
  OBVIOUS
<1>3. Spliced(q, StripColumns, s.columns, at, column)
  BY <1>2, InsertAtReads DEF Strips, Count
<1>4. PICK f : f = IF s.focus \in at..Count(s) THEN s.focus + 1 ELSE s.focus
  OBVIOUS
<1>5. f \in Nat
  BY <1>4 DEF Strips
<1>6. t = [s EXCEPT !.columns = q, !.focus = f]
  BY <1>1, <1>2, <1>4 DEF Inserted
<1>7. q \in Seq(StripColumns)
  BY <1>3 DEF Spliced
<1>8. /\ t \in Strips /\ t.view = s.view /\ t.scroll = s.scroll /\ t.here = s.here /\ t.floats = s.floats
      /\ t.focus = f /\ t.columns = q
  BY <1>5, <1>6, <1>7 DEF Strips
<1>9. q[at] = column
  BY <1>3, WidthsAreNumbers DEF Spliced, Count
<1>10. Spliced(t.columns, StripColumns, s.columns, at, t.columns[at])
  BY <1>3, <1>8, <1>9
<1>11. /\ Count(t) = Count(s) + 1
       /\ ContentWidth(s) <= ContentWidth(t) /\ MaxScroll(s) <= MaxScroll(t)
       /\ \A i \in 1..(at - 1) : WidthOf(t, i) = WidthOf(s, i) /\ Span(t, i - 1) = Span(s, i - 1)
  BY <1>8, <1>10, InsertingLengthens
<1>12. QED
  BY <1>1, <1>4, <1>8, <1>11 DEF Extended

\* Removing an element leaves a sequence that is shorter by one.
LEMMA RemovingShortens ==
  ASSUME NEW T, NEW seq \in Seq(T), NEW i \in 1..Len(seq)
  PROVE  RemoveAt(seq, i) \in Seq(T) /\ Len(RemoveAt(seq, i)) = Len(seq) - 1
<1> DEFINE n == Len(seq)
           early == SubSeq(seq, 1, i - 1)
           late == SubSeq(seq, i + 1, n)
<1>1. n \in Nat
  OBVIOUS
<1>2. early \in Seq(T) /\ Len(early) = i - 1
  BY <1>1
<1>3. late \in Seq(T) /\ Len(late) = n - i
  BY <1>1
<1>4. RemoveAt(seq, i) = early \o late
  BY DEF RemoveAt
<1> HIDE DEF early, late
<1>5. early \o late \in Seq(T) /\ Len(early \o late) = Len(early) + Len(late)
  BY <1>2, <1>3
<1>6. QED
  BY <1>1, <1>2, <1>3, <1>4, <1>5

\* t is s without one column.
Shortened(t, s, i) ==
  /\ t \in Strips /\ t.view = s.view /\ t.scroll = s.scroll /\ t.here = s.here /\ t.floats = s.floats
  /\ t.focus = IF s.focus = i THEN Nothing ELSE IF s.focus \in i + 1..Count(s) THEN s.focus - 1 ELSE s.focus
  /\ Count(t) = Count(s) - 1

LEMMA DetachingShortens ==
  ASSUME NEW s \in Strips, NEW i \in 1..Count(s)
  PROVE  Shortened(Detached(s, i), s, i)
<1>1. PICK t : t = Detached(s, i)
  OBVIOUS
<1>2. PICK n \in Nat : n = Len(s.columns) /\ i \in 1..n /\ n = Count(s)
  BY WidthsAreNumbers DEF Count
<1>3. PICK q : q = RemoveAt(s.columns, i)
  OBVIOUS
<1>4. q \in Seq(StripColumns) /\ Len(q) = n - 1
  <2>1. s.columns \in Seq(StripColumns)
    BY DEF Strips
  <2>2. QED
    BY <1>2, <1>3, <2>1, RemovingShortens
<1>5. PICK f : f = IF s.focus = i THEN Nothing ELSE IF s.focus \in i + 1..Count(s) THEN s.focus - 1 ELSE s.focus
  OBVIOUS
<1>6. f \in Nat
  BY <1>2, <1>5 DEF Strips, Nothing
<1>7. t = [s EXCEPT !.columns = q, !.focus = f]
  BY <1>1, <1>3, <1>5 DEF Detached
<1>8. /\ t \in Strips /\ t.view = s.view /\ t.scroll = s.scroll /\ t.here = s.here /\ t.floats = s.floats
      /\ t.focus = f /\ t.columns = q
  BY <1>4, <1>6, <1>7 DEF Strips
<1>9. QED
  BY <1>1, <1>2, <1>4, <1>5, <1>8 DEF Shortened, Count

---------------------------------------------------------------------------

\* A step keeps an offset in range that was, or ends there.
StaysInRange == (strip.here => InRange(strip)) /\ strip'.here => InRange(strip')

\* A step shows the column that has the focus, or leaves it as far out of sight as it was.
StaysInSight ==
  InRange(strip) /\ OnStrip(strip') /\ ~InSight(strip', strip'.focus)
    => OnStrip(strip) /\ ~InSight(strip, strip.focus)

\* A step that keeps everything in order.
StripKept == StripFits' /\ StaysInRange /\ StaysInSight

\* What a strip is, in numbers.
LEMMA FittingStrip ==
  ASSUME NEW s, Fitting(s)
  PROVE  /\ s \in Strips /\ RoomFor(s) /\ Focusable(s, s.focus)
         /\ Count(s) \in Nat /\ MaxColumns \in Nat /\ Count(s) <= MaxColumns
         /\ s.focus # OnFloating => s.focus \in 0..Count(s)
         /\ OnFloating \notin 0..Count(s)
<1>1. Count(s) \in Nat /\ MaxColumns \in Nat
  BY WidthsAreNumbers, StripAssumption DEF Fitting
<1>2. Len(s.floats) \in {0, 1} /\ Count(s) + Len(s.floats) <= MaxColumns
  BY DEF Fitting, RoomFor
<1>3. Count(s) <= MaxColumns
  BY <1>1, <1>2
<1>4. QED
  BY <1>1, <1>3 DEF Fitting, Focusable, OnFloating

\* The same columns and floating windows leave the same room.
LEMMA SameRoom ==
  ASSUME NEW s \in Strips, NEW t, SameLayout(t, s), t.floats = s.floats
  PROVE  /\ t \in Strips /\ Count(t) = Count(s) /\ (RoomFor(s) => RoomFor(t))
         /\ \A f : Focusable(s, f) => Focusable(t, f)
BY DEF SameLayout, Count, RoomFor, Focusable

\* Whatever shows the column it focuses keeps everything in order.
LEMMA ShownIsKept ==
  ASSUME NEW s \in Strips, RoomFor(s), NEW i \in 1..Count(s), Shown(strip', s, i)
  PROVE  StripKept
<1>1. i \in 0..Count(s)
  BY WidthsAreNumbers
<1>2. SameLayout(strip', s) /\ strip'.floats = s.floats /\ strip'.focus = i
  BY DEF Shown
<1>3. strip' \in Strips /\ RoomFor(strip') /\ Focusable(strip', strip'.focus)
  BY <1>1, <1>2, SameRoom DEF Focusable
<1>4. Fitting(strip') /\ StripFits'
  BY <1>3 DEF StripFits, Fitting
<1>5. QED
  BY <1>4 DEF StripKept, Shown, StaysInRange, StaysInSight

\* So does what takes the focus off the strip and leaves the offset in range.
LEMMA UnseenIsKept ==
  ASSUME NEW s \in Strips, RoomFor(s), SameLayout(strip', s), strip'.floats = s.floats,
         strip'.focus = Nothing \/ (strip'.focus = OnFloating /\ s.floats # <<>>),
         strip'.here => InRange(strip')
  PROVE  StripKept /\ ~OnStrip(strip')
<1>1. Count(s) \in Nat
  BY WidthsAreNumbers
<1>2. Nothing \in 0..Count(s)
  BY <1>1 DEF Nothing
<1>3. strip' \in Strips /\ RoomFor(strip') /\ Focusable(strip', strip'.focus) /\ Count(strip') = Count(s)
  BY <1>2, SameRoom DEF Focusable
<1>4. Fitting(strip') /\ StripFits'
  BY <1>3 DEF StripFits, Fitting
<1>5. strip'.focus \notin 1..Count(s)
  <2>1. OnFloating \notin 0..Count(strip')
    BY <1>4, FittingStrip
  <2>2. QED
    BY <1>1, <1>3, <2>1 DEF Nothing
<1>6. ~OnStrip(strip')
  BY <1>3, <1>5 DEF OnStrip
<1>7. QED
  BY <1>4, <1>6 DEF StripKept, StaysInRange, StaysInSight

\* And what only leaves the workspace.
LEMMA LeavingIsKept ==
  ASSUME NEW s \in Strips, RoomFor(s), SameLayout(strip', s), strip'.floats = s.floats, ~strip'.here,
         Focusable(s, strip'.focus)
  PROVE  StripKept
<1>1. strip' \in Strips /\ RoomFor(strip') /\ Focusable(strip', strip'.focus)
  BY SameRoom
<1>2. StripFits'
  BY <1>1 DEF StripFits, Fitting
<1>3. QED
  BY <1>2 DEF StripKept, StaysInRange, StaysInSight, OnStrip

\* A step whose strip is in order and in range; it may bring the focus out of sight.
StripHeld == StripFits' /\ StaysInRange

\* Revealing the column that has the focus keeps everything in order; revealing another
\* one may bring it out of sight.
LEMMA RevealedIsHeld ==
  ASSUME NEW s, Fitting(s), NEW i \in 1..Count(s), Rescrolled(strip', s), InSight(strip', i)
  PROVE  StripHeld /\ (s.focus = i => StripKept)
<1>1. SameLayout(strip', s) /\ strip'.floats = s.floats /\ strip'.focus = s.focus
  BY DEF Rescrolled
<1>2. Fitting(strip')
  BY <1>1, FittingStrip, SameRoom DEF Fitting
<1>3. StripHeld
  BY <1>2 DEF StripHeld, StripFits, StaysInRange, Rescrolled
<1>4. QED
  BY <1>1, <1>3 DEF StripKept, StripHeld, StaysInSight

\* A window that leaves its column leaves room for one.
LEMMA DetachingFits ==
  ASSUME NEW s, Fitting(s), NEW i \in 1..Count(s), NEW t, t = Detached(s, i)
  PROVE  /\ Shortened(t, s, i) /\ Fitting(t)
         /\ Count(t) \in Nat /\ Len(t.floats) \in Nat /\ Count(t) + Len(t.floats) < MaxColumns
<1>1. Shortened(t, s, i) /\ Count(s) \in Nat /\ MaxColumns \in Nat
  BY FittingStrip, DetachingShortens
<1>2. /\ t \in Strips /\ t.floats = s.floats /\ Count(t) = Count(s) - 1
      /\ t.focus = IF s.focus = i THEN Nothing ELSE IF s.focus \in i + 1..Count(s) THEN s.focus - 1 ELSE s.focus
  BY <1>1 DEF Shortened
<1>3. Len(s.floats) \in {0, 1} /\ Count(s) + Len(s.floats) <= MaxColumns
  BY FittingStrip DEF RoomFor
<1>4. Count(t) \in Nat /\ Len(t.floats) \in {0, 1} /\ Count(t) + Len(t.floats) < MaxColumns
  BY <1>1, <1>2, <1>3
<1>5. RoomFor(t)
  BY <1>1, <1>2, <1>3 DEF RoomFor
<1>6. Focusable(t, t.focus)
  <2>1. CASE s.focus = OnFloating
    <3>1. s.floats # <<>> /\ OnFloating \notin 0..Count(s)
      BY <2>1, FittingStrip DEF Focusable
    <3>2. OnFloating # i /\ OnFloating \notin i + 1..Count(s)
      BY <1>1, <3>1
    <3>3. QED
      BY <1>2, <2>1, <3>1, <3>2 DEF Focusable
  <2>2. CASE s.focus # OnFloating
    <3>1. s.focus \in 0..Count(s)
      BY <2>2, FittingStrip
    <3>2. t.focus \in 0..Count(t)
      BY <1>1, <1>2, <3>1 DEF Nothing
    <3>3. QED
      BY <3>2 DEF Focusable
  <2>3. QED
    BY <2>1, <2>2
<1>7. QED
  BY <1>1, <1>2, <1>4, <1>5, <1>6 DEF Fitting

\* A column that comes finds room.
LEMMA InsertingFits ==
  ASSUME NEW s, Fitting(s), Count(s) + Len(s.floats) < MaxColumns,
         NEW at \in 1..(Count(s) + 1), NEW column \in StripColumns, NEW t, t = Inserted(s, at, column)
  PROVE  Extended(t, s, at) /\ Fitting(t) /\ at \in 1..Count(t)
<1>1. Extended(t, s, at) /\ Count(s) \in Nat /\ MaxColumns \in Nat
  BY FittingStrip, InsertingExtends
<1>2. /\ t \in Strips /\ t.floats = s.floats /\ Count(t) = Count(s) + 1
      /\ t.focus = IF s.focus \in at..Count(s) THEN s.focus + 1 ELSE s.focus
  BY <1>1 DEF Extended
<1>3. Len(s.floats) \in {0, 1}
  BY FittingStrip DEF RoomFor
<1>4. RoomFor(t)
  BY <1>1, <1>2, <1>3 DEF RoomFor
<1>5. Focusable(t, t.focus)
  <2>1. CASE s.focus = OnFloating
    <3>1. s.floats # <<>> /\ OnFloating \notin 0..Count(s)
      BY <2>1, FittingStrip DEF Focusable
    <3>2. OnFloating \notin at..Count(s)
      BY <1>1, <3>1
    <3>3. QED
      BY <1>2, <2>1, <3>1, <3>2 DEF Focusable
  <2>2. CASE s.focus # OnFloating
    <3>1. s.focus \in 0..Count(s)
      BY <2>2, FittingStrip
    <3>2. t.focus \in 0..Count(t)
      BY <1>1, <1>2, <3>1
    <3>3. QED
      BY <3>2 DEF Focusable
  <2>3. QED
    BY <2>1, <2>2
<1>6. QED
  BY <1>1, <1>2, <1>4, <1>5 DEF Fitting

\* The column of a window that returns is one, and so are that of a new window and
\* those of other workspaces.
LEMMA DefaultIsAColumn == DefaultColumn \in StripColumns
BY DEF DefaultColumn, HalfWide, StripColumns

LEMMA NewIsAColumn ==
  ASSUME StripFits, NEW width \in WidthsOfNew(strip)
  PROVE  [width |-> width, full |-> FALSE] \in StripColumns
<1>1. strip.view \in Nat
  BY DEF StripFits, Fitting, Strips
<1>2. OpenWidths \subseteq Nat
  BY StripAssumption
<1>3. width \in Nat
  BY <1>1, <1>2 DEF WidthsOfNew, HalfWide, Least
<1>4. QED
  BY <1>3 DEF StripColumns

LEMMA OthersAreColumns == OtherColumns \subseteq StripColumns
<1>1. {HalfWide} \union OpenWidths \subseteq Nat
  BY StripAssumption DEF HalfWide
<1>2. ASSUME NEW column \in OtherColumns PROVE column \in StripColumns
  BY <1>1 DEF OtherColumns, StripColumns
<1>3. QED
  BY <1>2

\* A column behind the focused one leaves that in sight: only a strip shorter than the
\* viewport has its columns elsewhere than its offset says, and that offset is 0.
LEMMA ExtendingKeepsSight ==
  ASSUME NEW s \in Strips, NEW at \in Nat, NEW t, Extended(t, s, at), NEW i \in 1..Count(s), i < at,
         t.focus = i, InRange(s), InSight(s, i)
  PROVE  InSight(t, i)
<1>1. PICK a, w, c : Lies(s, i, a, w, c)
  BY ColumnsLie
<1>2. /\ t \in Strips /\ t.view = s.view /\ t.scroll = s.scroll /\ Count(t) = Count(s) + 1
      /\ c <= ContentWidth(t)
  BY <1>1 DEF Extended, Lies
<1>3. PICK n \in Nat : n = Count(s) /\ n # 0 /\ i \in 1..n
  BY WidthsAreNumbers
<1>4. PICK v \in Nat \ {0} : v = s.view
  BY DEF Strips
<1>5. PICK x \in Nat : x = s.scroll
  BY DEF Strips
<1>6. PICK e \in Nat : e = ContentWidth(t)
  BY <1>2, ColumnsLie
<1>7. a \in Nat /\ w \in Nat \ {0} /\ c \in Nat /\ a + w <= c /\ c <= e
  BY <1>1, <1>2, <1>6 DEF Lies
<1>8. i \in 1..(at - 1)
  BY <1>3
<1>9. WidthOf(t, i) = w /\ Span(t, i - 1) = a
  BY <1>1, <1>8 DEF Extended, Lies
<1>10. PICK o \in Int : o = Origin(s) /\ Leads(s, o)
  BY <1>3, OriginLeads
<1>11. v <= c => o = -x
  BY <1>1, <1>4, <1>5, <1>10 DEF Leads, Lies
<1>12. v > c => x = 0
  <2>1. MaxScroll(s) = IF c - v < 0 THEN 0 ELSE c - v
    BY <1>1, <1>4 DEF MaxScroll, Greatest, Lies
  <2>2. QED
    BY <1>4, <1>5, <1>7, <2>1 DEF InRange
<1>13. Origin(t) = -x
  <2>1. Count(t) # 0 /\ Count(t) # 1 /\ t.focus # Count(t)
    BY <1>2, <1>3
  <2>2. t.scroll = x
    BY <1>2, <1>5
  <2>3. QED
    BY <2>1, <2>2 DEF Origin
<1>14. LeftOf(s, i) = o + a /\ RightOf(s, i) = o + a + w
  BY <1>1, <1>10 DEF LeftOf, RightOf, Lies
<1>15. LeftOf(t, i) = -x + a /\ RightOf(t, i) = -x + a + w
  BY <1>9, <1>13 DEF LeftOf, RightOf
<1>16. \/ o + a >= 0 /\ o + a + w <= v
       \/ o + a <= 0 /\ o + a + w >= v
  BY <1>4, <1>14 DEF InSight
<1>17. \/ -x + a >= 0 /\ -x + a + w <= v
       \/ -x + a <= 0 /\ -x + a + w >= v
  <2>1. CASE v <= c
    BY <1>11, <1>16, <2>1
  <2>2. CASE v > c
    BY <1>5, <1>7, <1>12, <2>2
  <2>3. QED
    BY <1>4, <1>7, <2>1, <2>2
<1>18. QED
  BY <1>2, <1>4, <1>15, <1>17 DEF InSight

---------------------------------------------------------------------------
(* Windows come and go. *)

\* A new column gets the focus and is shown, or stays behind the column that has it.
LEMMA OpeningKeepsStrip ==
  ASSUME StripFits, NEW keepsFocus, NEW last, NEW width \in WidthsOfNew(strip),
         OpensOnStrip(keepsFocus, last, width)
  PROVE  StripKept
<1>1. /\ Fitting(strip) /\ strip \in Strips /\ Count(strip) \in Nat /\ MaxColumns \in Nat
      /\ strip.focus # OnFloating => strip.focus \in 0..Count(strip)
      /\ OnFloating \notin 0..Count(strip)
  BY FittingStrip DEF StripFits
<1>2. PICK n \in Nat : n = Count(strip)
  BY <1>1
<1>3. Count(strip) + Len(strip.floats) < MaxColumns
  BY DEF OpensOnStrip, Room
<1>4. PICK at : at = IF last THEN Count(strip) + 1 ELSE PlaceAfterFocus(strip)
  OBVIOUS
<1>5. at \in 1..(n + 1) /\ (strip.here /\ strip.focus \in 1..n => strip.focus < at)
  <2>1. CASE last
    BY <1>2, <1>4, <2>1
  <2>2. CASE ~last /\ strip.here /\ strip.focus \in 1..n
    <3>1. at = strip.focus + 1
      BY <1>2, <1>4, <2>2 DEF PlaceAfterFocus
    <3>2. QED
      BY <2>2, <3>1
  <2>3. CASE ~last /\ ~(strip.here /\ strip.focus \in 1..n) /\ strip.here /\ strip.focus = OnFloating /\ strip.floats[1].full
    <3>1. at = Least(strip.floats[1].at, n + 1)
      BY <1>2, <1>4, <2>3 DEF PlaceAfterFocus
    <3>2. strip.floats # <<>> /\ strip.floats \in Seq(StripFloats)
      BY <1>1, <2>3, FittingStrip DEF Focusable, Strips
    <3>3. strip.floats[1] \in StripFloats
      BY <3>2
    <3>4. strip.floats[1].at \in Nat \ {0}
      BY <3>3 DEF StripFloats
    <3>5. QED
      BY <2>3, <3>1, <3>4 DEF Least
  <2>4. CASE ~last /\ ~(strip.here /\ strip.focus \in 1..n) /\ ~(strip.here /\ strip.focus = OnFloating /\ strip.floats[1].full)
    <3>1. at = n + 1
      BY <1>2, <1>4, <2>4 DEF PlaceAfterFocus
    <3>2. QED
      BY <2>4, <3>1
  <2>5. QED
    BY <2>1, <2>2, <2>3, <2>4
<1>6. PICK there : there = Inserted(strip, at, [width |-> width, full |-> FALSE])
  OBVIOUS
<1>7. Extended(there, strip, at) /\ Fitting(there) /\ at \in 1..Count(there)
  BY <1>1, <1>2, <1>3, <1>5, <1>6, NewIsAColumn, InsertingFits
<1>8. CASE strip' = Reveal(ClampScroll(Focused(there, at)), at)
  <2>1. there \in Strips /\ RoomFor(there)
    BY <1>7, FittingStrip
  <2>2. at \in Nat
    BY <1>5
  <2>3. PICK f : f = Focused(there, at) /\ Aimed(f, there, at)
    BY <2>1, <2>2, FocusingAims
  <2>4. f \in Strips
    BY <2>3 DEF Aimed, SameLayout
  <2>5. PICK g : g = ClampScroll(f) /\ Rescrolled(g, f)
    BY <2>4, ClampingRescrolls
  <2>6. g \in Strips /\ g.columns = there.columns
    BY <2>3, <2>5 DEF Rescrolled, SameLayout, Aimed
  <2>7. at \in 1..Count(g)
    BY <1>7, <2>6 DEF Count
  <2>8. Rescrolled(strip', g) /\ InSight(strip', at)
    BY <1>8, <2>3, <2>5, <2>6, <2>7, RevealingShows
  <2>9. Shown(strip', there, at)
    BY <2>3, <2>5, <2>8 DEF Shown, Rescrolled, SameLayout, Aimed
  <2>10. QED
    BY <1>7, <2>1, <2>9, ShownIsKept
<1>9. CASE strip' = there /\ strip.here /\ strip.focus # Nothing
  <2>1. /\ strip' \in Strips /\ strip'.view = strip.view /\ strip'.scroll = strip.scroll
        /\ MaxScroll(strip) <= MaxScroll(strip')
        /\ strip'.focus = IF strip.focus \in at..Count(strip) THEN strip.focus + 1 ELSE strip.focus
        /\ Count(strip') = Count(strip) + 1
    BY <1>7, <1>9 DEF Extended
  <2>2. MaxScroll(strip) \in Nat /\ MaxScroll(strip') \in Nat
    BY <1>1, <2>1, ColumnsLie
  <2>3. InRange(strip) => InRange(strip')
    BY <2>1, <2>2 DEF InRange
  <2>4. StripFits' /\ StaysInRange
    BY <1>7, <1>9, <2>3 DEF StripFits, StaysInRange
  <2>5. CASE strip.focus = OnFloating
    <3>1. OnFloating \notin at..Count(strip) /\ OnFloating \notin 0..Count(strip')
      BY <1>1, <1>2, <1>5, <1>7, <1>9, FittingStrip
    <3>2. ~OnStrip(strip')
      BY <1>1, <2>1, <2>5, <3>1 DEF OnStrip
    <3>3. QED
      BY <2>4, <3>2 DEF StripKept, StaysInSight
  <2>6. CASE strip.focus # OnFloating
    <3>1. strip.focus \in 1..n
      BY <1>1, <1>2, <1>9, <2>6 DEF Nothing
    <3>2. strip.focus < at /\ at \in Nat
      BY <1>5, <1>9, <3>1
    <3>3. strip'.focus = strip.focus
      BY <2>1, <3>1, <3>2
    <3>4. ASSUME InRange(strip), InSight(strip, strip.focus)
          PROVE  InSight(strip', strip'.focus)
      BY <1>1, <1>2, <1>7, <1>9, <3>1, <3>2, <3>3, <3>4, ExtendingKeepsSight
    <3>5. OnStrip(strip)
      BY <1>2, <1>9, <3>1 DEF OnStrip
    <3>6. QED
      BY <2>4, <3>4, <3>5 DEF StripKept, StaysInSight
  <2>7. QED
    BY <2>5, <2>6
<1>10. QED
  <2>1. \/ strip' = there /\ strip.here /\ strip.focus # Nothing
        \/ strip' = Reveal(ClampScroll(Focused(there, at)), at)
    BY <1>4, <1>6 DEF OpensOnStrip
  <2>2. QED
    BY <1>8, <1>9, <2>1

\* What a workspace without a focus focuses is shown, or is not on the strip.
LEMMA RefocusedIsKept ==
  ASSUME NEW s, Fitting(s), NEW t, Refocused(t, s), strip' = ClampScroll(t)
  PROVE  StripKept
<1>1. s \in Strips /\ RoomFor(s) /\ Count(s) \in Nat
  BY FittingStrip
<1>2. CASE Count(s) > 0
  <2>1. 1 \in 1..Count(s) /\ Shown(t, s, 1)
    BY <1>1, <1>2 DEF Refocused
  <2>2. strip' = t
    BY <2>1, ClampingRescrolls DEF Shown, SameLayout
  <2>3. QED
    BY <1>1, <2>1, <2>2, ShownIsKept
<1>3. CASE Count(s) = 0
  <2>1. /\ SameLayout(t, s) /\ t.floats = s.floats
        /\ t.focus = IF s.floats # <<>> THEN OnFloating ELSE Nothing
    BY <1>3 DEF Refocused
  <2>2. Rescrolled(strip', t)
    BY <2>1, ClampingRescrolls DEF SameLayout
  <2>3. SameLayout(strip', s) /\ strip'.floats = s.floats /\ strip'.focus = t.focus /\ InRange(strip')
    BY <2>1, <2>2 DEF Rescrolled, SameLayout
  <2>4. QED
    BY <1>1, <2>1, <2>3, UnseenIsKept
<1>4. QED
  BY <1>1, <1>2, <1>3

\* Clamping a strip in order leaves one in order and in range.
LEMMA ClampedIsHeld ==
  ASSUME NEW s, Fitting(s), strip' = ClampScroll(s)
  PROVE  StripHeld /\ Rescrolled(strip', s) /\ (~s.here => StripKept)
<1>1. Rescrolled(strip', s)
  BY FittingStrip, ClampingRescrolls
<1>2. SameLayout(strip', s) /\ strip'.floats = s.floats /\ strip'.focus = s.focus /\ strip'.here = s.here
  BY <1>1 DEF Rescrolled
<1>3. Fitting(strip')
  BY <1>2, FittingStrip, SameRoom DEF Fitting
<1>4. StripHeld
  BY <1>1, <1>3 DEF StripHeld, StripFits, StaysInRange, Rescrolled
<1>5. QED
  BY <1>1, <1>2, <1>4 DEF StripKept, StripHeld, StaysInSight, OnStrip

\* When a window closes another takes the focus it had; else the offset is clamped.
LEMMA ClosingKeepsStrip ==
  ASSUME StripFits, NEW i \in 1..Count(strip), ClosesOnStrip(i)
  PROVE  StripHeld /\ (i = strip.focus => StripKept)
<1>1. PICK gone : gone = Detached(strip, i)
  OBVIOUS
<1>2. Fitting(gone) /\ Shortened(gone, strip, i)
  BY <1>1, DetachingFits DEF StripFits
<1>3. CASE strip.here /\ strip.focus = i
  <2>1. strip' = ClampScroll(Retargeted(gone))
    BY <1>1, <1>3 DEF ClosesOnStrip
  <2>2. Refocused(Retargeted(gone), gone)
    BY <1>2, FittingStrip, RetargetingRefocuses
  <2>3. StripKept
    BY <1>2, <2>1, <2>2, RefocusedIsKept
  <2>4. QED
    BY <2>3 DEF StripKept, StripHeld
<1>4. CASE ~(strip.here /\ strip.focus = i)
  <2>1. strip' = ClampScroll(gone)
    BY <1>1, <1>4 DEF ClosesOnStrip
  <2>2. StripHeld /\ (~gone.here => StripKept)
    BY <1>2, <2>1, ClampedIsHeld
  <2>3. gone.here = strip.here
    BY <1>2 DEF Shortened
  <2>4. QED
    BY <1>4, <2>2, <2>3
<1>5. QED
  BY <1>3, <1>4

\* s without its floating windows.
LEMMA FloatingLeaves ==
  ASSUME NEW s, Fitting(s), NEW f, Focusable([s EXCEPT !.floats = <<>>], f)
  PROVE  LET t == [s EXCEPT !.floats = <<>>, !.focus = f]
         IN  Fitting(t) /\ SameLayout(t, s) /\ t.here = s.here /\ t.scroll = s.scroll /\ t.focus = f
<1>1. PICK e : e = [s EXCEPT !.floats = <<>>]
  OBVIOUS
<1>2. PICK t : t = [s EXCEPT !.floats = <<>>, !.focus = f]
  OBVIOUS
<1>3. s \in Strips /\ RoomFor(s) /\ Count(s) \in Nat /\ MaxColumns \in Nat
  BY FittingStrip
<1>4. e.floats = <<>> /\ e.columns = s.columns
  BY <1>1, <1>3 DEF Strips
<1>5. f \in 0..Count(s)
  BY <1>1, <1>4 DEF Focusable, Count
<1>6. f \in Nat
  BY <1>3, <1>5
<1>7. <<>> \in Seq(StripFloats) /\ Len(<<>>) = 0
  OBVIOUS
<1>8. /\ t \in Strips /\ t.view = s.view /\ t.columns = s.columns /\ t.here = s.here
      /\ t.scroll = s.scroll /\ t.focus = f /\ t.floats = <<>>
  BY <1>2, <1>3, <1>6, <1>7 DEF Strips
<1>9. RoomFor(t)
  <2>1. Len(s.floats) \in {0, 1} /\ Count(s) + Len(s.floats) <= MaxColumns
    BY <1>3 DEF RoomFor
  <2>2. Count(t) = Count(s) /\ Len(t.floats) = 0
    BY <1>7, <1>8 DEF Count
  <2>3. QED
    BY <1>3, <2>1, <2>2 DEF RoomFor
<1>10. Focusable(t, t.focus)
  BY <1>5, <1>8 DEF Focusable, Count
<1>11. QED
  BY <1>2, <1>8, <1>9, <1>10 DEF Fitting, SameLayout

LEMMA FloatingClosingKeepsStrip ==
  ASSUME StripFits, FloatingCloses
  PROVE  StripKept
<1>1. PICK f : f = IF strip.focus = OnFloating THEN Nothing ELSE strip.focus
  OBVIOUS
<1>2. PICK gone : gone = [strip EXCEPT !.floats = <<>>, !.focus = f]
  OBVIOUS
<1>3. /\ Fitting(strip) /\ strip \in Strips /\ Count(strip) \in Nat
      /\ strip.focus # OnFloating => strip.focus \in 0..Count(strip)
  BY FittingStrip DEF StripFits
<1>4. f \in 0..Count(strip)
  BY <1>1, <1>3 DEF Nothing
<1>5. Focusable([strip EXCEPT !.floats = <<>>], f)
  <2>1. [strip EXCEPT !.floats = <<>>].columns = strip.columns
    BY <1>3 DEF Strips
  <2>2. QED
    BY <1>4, <2>1 DEF Focusable, Count
<1>6. Fitting(gone) /\ SameLayout(gone, strip) /\ gone.here = strip.here /\ gone.scroll = strip.scroll /\ gone.focus = f
  BY <1>2, <1>3, <1>5, FloatingLeaves
<1>7. strip' = ClampScroll(IF strip.here /\ strip.focus = OnFloating THEN Retargeted(gone) ELSE gone)
  BY <1>1, <1>2 DEF FloatingCloses
<1>8. CASE strip.here /\ strip.focus = OnFloating
  <2>1. Refocused(Retargeted(gone), gone)
    BY <1>6, FittingStrip, RetargetingRefocuses
  <2>2. QED
    BY <1>6, <1>7, <1>8, <2>1, RefocusedIsKept
<1>9. CASE ~(strip.here /\ strip.focus = OnFloating)
  <2>1. strip' = ClampScroll(gone)
    BY <1>7, <1>9
  <2>2. StripHeld /\ Rescrolled(strip', gone) /\ (~gone.here => StripKept)
    BY <1>6, <2>1, ClampedIsHeld
  <2>3. CASE strip.here /\ InRange(strip)
    <3>1. f = strip.focus
      BY <1>1, <1>9, <2>3
    <3>2. InRange(gone)
      BY <1>3, <1>6, <2>3, SameLayoutSamePlaces DEF InRange
    <3>3. strip' = gone
      BY <1>6, <2>1, <3>2, ClampingRescrolls DEF Fitting
    <3>4. \A i \in 1..Count(strip) : InSight(strip, i) => InSight(gone, i)
      <4>1. TAKE i \in 1..Count(strip)
      <4>2. /\ Count(gone) = Count(strip) /\ ContentWidth(gone) = ContentWidth(strip)
            /\ WidthOf(gone, i) = WidthOf(strip, i) /\ Span(gone, i - 1) = Span(strip, i - 1)
        BY <1>3, <1>6, SameLayoutSamePlaces
      <4>3. gone.view = strip.view /\ gone.scroll = strip.scroll /\ gone.focus = strip.focus /\ gone.here = strip.here
        BY <1>6, <3>1 DEF SameLayout
      <4>4. Origin(gone) = Origin(strip)
        BY <4>2, <4>3 DEF Origin
      <4>5. QED
        BY <4>2, <4>3, <4>4 DEF InSight, LeftOf, RightOf
    <3>5. Count(gone) = Count(strip)
      BY <1>3, <1>6, SameLayoutSamePlaces
    <3>6. StaysInSight
      BY <1>6, <2>3, <3>1, <3>3, <3>4, <3>5 DEF StaysInSight, OnStrip
    <3>7. QED
      BY <2>2, <3>6 DEF StripKept, StripHeld
  <2>4. CASE strip.here /\ ~InRange(strip)
    BY <2>2, <2>4 DEF StripKept, StripHeld, StaysInSight
  <2>5. CASE ~strip.here
    BY <1>6, <2>2, <2>5
  <2>6. QED
    BY <2>3, <2>4, <2>5
<1>10. QED
  BY <1>8, <1>9

\* A strip in order whose column i gets the focus.
LEMMA FocusedIsKept ==
  ASSUME NEW s, Fitting(s), NEW i \in 1..Count(s), strip' = FocusedAndRevealed(s, i)
  PROVE  StripKept
BY FittingStrip, FocusingShows, ShownIsKept

\* Columns come, go and change places.
LEMMA MovingKeepsStrip ==
  ASSUME StripFits,
         \/ ColumnLeaves
         \/ \E column \in OtherColumns : ColumnComes(column)
         \/ \E i, at \in 1..Count(strip) : ColumnMoves(i, at)
  PROVE  StripKept
<1>1. Fitting(strip) /\ Count(strip) \in Nat
  BY FittingStrip DEF StripFits
<1>2. CASE ColumnLeaves
  <2>1. PICK gone : gone = Detached(strip, strip.focus)
    OBVIOUS
  <2>2. strip.focus \in 1..Count(strip) /\ strip' = [gone EXCEPT !.here = FALSE]
    BY <1>2, <2>1 DEF ColumnLeaves
  <2>3. Fitting(gone) /\ gone \in Strips /\ RoomFor(gone) /\ Focusable(gone, gone.focus)
    BY <1>1, <2>1, <2>2, DetachingFits, FittingStrip
  <2>4. /\ strip' \in Strips /\ strip'.view = gone.view /\ strip'.columns = gone.columns
        /\ strip'.floats = gone.floats /\ strip'.focus = gone.focus /\ strip'.here = FALSE
    BY <2>2, <2>3 DEF Strips
  <2>5. SameLayout(strip', gone) /\ ~strip'.here
    BY <2>4 DEF SameLayout
  <2>6. QED
    BY <2>3, <2>4, <2>5, LeavingIsKept
<1>3. ASSUME NEW column \in OtherColumns, ColumnComes(column)
      PROVE  StripKept
  <2>1. PICK at : at = Count(strip) + 1
    OBVIOUS
  <2>2. PICK there : there = Inserted(strip, at, column)
    OBVIOUS
  <2>3. Count(strip) + Len(strip.floats) < MaxColumns /\ at \in 1..(Count(strip) + 1)
    BY <1>1, <1>3, <2>1 DEF ColumnComes, Room
  <2>4. Fitting(there) /\ at \in 1..Count(there)
    BY <1>1, <2>2, <2>3, OthersAreColumns, InsertingFits
  <2>5. strip' = FocusedAndRevealed(there, at)
    BY <1>3, <2>1, <2>2 DEF ColumnComes
  <2>6. QED
    BY <2>4, <2>5, FocusedIsKept
<1>4. ASSUME NEW i \in 1..Count(strip), NEW at \in 1..Count(strip), ColumnMoves(i, at)
      PROVE  StripKept
  <2>1. PICK gone : gone = Detached(strip, i)
    OBVIOUS
  <2>2. PICK there : there = Inserted(gone, at, strip.columns[i])
    OBVIOUS
  <2>3. /\ Shortened(gone, strip, i) /\ Fitting(gone)
        /\ Count(gone) + Len(gone.floats) < MaxColumns
    BY <1>1, <2>1, DetachingFits
  <2>4. at \in 1..(Count(gone) + 1)
    BY <1>1, <2>3 DEF Shortened
  <2>5. strip.columns[i] \in StripColumns
    BY <1>1, FittingStrip, WidthsAreNumbers
  <2>6. Fitting(there) /\ at \in 1..Count(there)
    BY <2>2, <2>3, <2>4, <2>5, InsertingFits
  <2>7. strip' = FocusedAndRevealed(there, at)
    BY <1>4, <2>1, <2>2 DEF ColumnMoves
  <2>8. QED
    BY <2>6, <2>7, FocusedIsKept
<1>5. QED
  BY <1>2, <1>3, <1>4

\* The focus moves to a column, or away from the strip.  Only from another workspace
\* to a floating window it moves without a look at the offset.
LEMMA FocusingKeepsStrip ==
  ASSUME StripFits,
         \/ \E forward \in BOOLEAN : Navigates(forward)
         \/ \E i \in 1..Count(strip) : ColumnIsFocused(i)
         \/ FloatingIsFocused
         \/ FocusLeaves
         \/ FocusReturns
  PROVE  /\ StripFits' /\ StaysInSight
         /\ StaysInRange \/ (~strip.here /\ FloatingIsFocused)
<1>1. /\ Fitting(strip) /\ strip \in Strips /\ RoomFor(strip) /\ Focusable(strip, strip.focus)
      /\ Count(strip) \in Nat /\ MaxColumns \in Nat
      /\ strip.focus # OnFloating => strip.focus \in 0..Count(strip)
  BY FittingStrip DEF StripFits
<1>2. ASSUME NEW forward \in BOOLEAN, Navigates(forward) PROVE StripKept
  <2>1. PICK from : from = IF strip.focus = OnFloating THEN 1 ELSE strip.focus
    OBVIOUS
  <2>2. PICK to : to = IF from = Nothing THEN IF forward THEN 1 ELSE Count(strip)
                       ELSE Within(IF forward THEN from + 1 ELSE from - 1, 1, Count(strip))
    OBVIOUS
  <2>3. Count(strip) > 0 /\ strip' = FocusedAndRevealed(strip, to)
    BY <1>2, <2>1, <2>2 DEF Navigates
  <2>4. from \in Nat
    BY <1>1, <2>1
  <2>5. PICK aim : aim = IF forward THEN from + 1 ELSE from - 1
    OBVIOUS
  <2>6. aim \in Int
    BY <2>4, <2>5
  <2>7. Within(aim, 1, Count(strip)) \in 1..Count(strip)
    BY <1>1, <2>3, <2>6 DEF Within, Least, Greatest
  <2>8. to \in 1..Count(strip)
    BY <1>1, <2>2, <2>3, <2>5, <2>7
  <2>9. QED
    BY <1>1, <2>3, <2>8, FocusedIsKept
<1>3. ASSUME NEW i \in 1..Count(strip), ColumnIsFocused(i) PROVE StripKept
  BY <1>1, <1>3, FocusedIsKept DEF ColumnIsFocused
<1>4. CASE FloatingIsFocused
  <2>1. strip.floats # <<>> /\ strip' = Focused(strip, OnFloating)
    BY <1>4 DEF FloatingIsFocused
  <2>2. OnFloating \in Nat
    BY <1>1 DEF OnFloating
  <2>3. Aimed(strip', strip, OnFloating)
    BY <1>1, <2>1, <2>2, FocusingAims
  <2>4. /\ SameLayout(strip', strip) /\ strip'.floats = strip.floats
        /\ strip'.focus = OnFloating /\ strip'.scroll = strip.scroll
    BY <2>3 DEF Aimed
  <2>5. strip' \in Strips /\ RoomFor(strip') /\ Focusable(strip', strip'.focus)
    BY <1>1, <2>1, <2>4, SameRoom DEF Focusable
  <2>6. Fitting(strip')
    BY <2>5 DEF Fitting
  <2>7. ~OnStrip(strip')
    <3>1. OnFloating \notin 0..Count(strip') /\ Count(strip') \in Nat
      BY <2>6, FittingStrip
    <3>2. QED
      BY <2>4, <3>1 DEF OnStrip
  <2>8. MaxScroll(strip') = MaxScroll(strip)
    BY <1>1, <2>4, SameLayoutSamePlaces
  <2>9. strip.here => StaysInRange
    BY <2>4, <2>8 DEF StaysInRange, InRange
  <2>10. QED
    BY <1>4, <2>6, <2>7, <2>9 DEF StripFits, StaysInSight
<1>5. CASE FocusLeaves
  <2>1. strip' = [strip EXCEPT !.here = FALSE]
    BY <1>5 DEF FocusLeaves
  <2>2. /\ strip' \in Strips /\ strip'.view = strip.view /\ strip'.columns = strip.columns
        /\ strip'.floats = strip.floats /\ strip'.focus = strip.focus /\ strip'.here = FALSE
    BY <1>1, <2>1 DEF Strips
  <2>3. SameLayout(strip', strip) /\ ~strip'.here
    BY <2>2 DEF SameLayout
  <2>4. StripKept
    BY <1>1, <2>2, <2>3, LeavingIsKept
  <2>5. QED
    BY <2>4 DEF StripKept
<1>6. CASE FocusReturns
  <2>1. strip' = Reopened(strip)
    BY <1>6 DEF FocusReturns
  <2>2. CASE strip.focus \in 1..Count(strip)
    <3>1. strip' = FocusedAndRevealed(strip, strip.focus)
      BY <2>1, <2>2 DEF Reopened
    <3>2. QED
      BY <1>1, <2>2, <3>1, FocusedIsKept DEF StripKept
  <2>3. CASE strip.focus \notin 1..Count(strip) /\ strip.focus = OnFloating
    <3>1. PICK f : f = Focused(strip, OnFloating)
      OBVIOUS
    <3>2. strip' = ClampScroll(f)
      BY <2>1, <2>3, <3>1 DEF Reopened
    <3>3. Aimed(f, strip, OnFloating)
      <4>1. OnFloating \in Nat
        BY <1>1, <2>3 DEF Strips
      <4>2. QED
        BY <1>1, <3>1, <4>1, FocusingAims
    <3>4. f \in Strips
      BY <3>3 DEF Aimed, SameLayout
    <3>5. Rescrolled(strip', f)
      BY <3>2, <3>4, ClampingRescrolls
    <3>6. SameLayout(strip', strip) /\ strip'.floats = strip.floats /\ strip'.focus = OnFloating /\ InRange(strip')
      BY <3>3, <3>5 DEF Aimed, Rescrolled, SameLayout
    <3>7. strip.floats # <<>>
      BY <1>1, <2>3, FittingStrip DEF Focusable
    <3>8. StripKept
      BY <1>1, <3>6, <3>7, UnseenIsKept
    <3>9. QED
      BY <3>8 DEF StripKept
  <2>4. CASE strip.focus \notin 1..Count(strip) /\ strip.focus # OnFloating /\ Count(strip) # 0
    <3>1. Count(strip) > 0 /\ 1 \in 1..Count(strip)
      BY <1>1, <2>4
    <3>2. strip' = FocusedAndRevealed(strip, 1)
      BY <2>1, <2>4, <3>1 DEF Reopened, Retargeted
    <3>3. QED
      BY <1>1, <3>1, <3>2, FocusedIsKept DEF StripKept
  <2>5. CASE strip.focus \notin 1..Count(strip) /\ strip.focus # OnFloating /\ Count(strip) = 0
    <3>1. PICK t : t = Retargeted(strip) /\ Refocused(t, strip)
      BY <1>1, RetargetingRefocuses
    <3>2. ~(Count(strip) > 0)
      BY <2>5
    <3>3. strip' = ClampScroll(t)
      BY <2>1, <2>5, <3>1, <3>2 DEF Reopened
    <3>4. StripKept
      BY <1>1, <3>1, <3>3, RefocusedIsKept
    <3>5. QED
      BY <3>4 DEF StripKept
  <2>6. QED
    BY <2>2, <2>3, <2>4, <2>5
<1>7. QED
  BY <1>2, <1>3, <1>4, <1>5, <1>6 DEF StripKept

\* t is s with column i of another width, or maximized or not.
Reshaped(t, s, i, column) ==
  /\ t.columns = [s.columns EXCEPT ![i] = column]
  /\ t = [s EXCEPT !.columns = t.columns]

LEMMA ReshapingFits ==
  ASSUME NEW s, Fitting(s), NEW i \in 1..Count(s), NEW column \in StripColumns, NEW t,
         Reshaped(t, s, i, column)
  PROVE  /\ Fitting(t) /\ Count(t) = Count(s) /\ t.columns[i] = column
         /\ \A k \in 1..Count(s) : k # i => t.columns[k] = s.columns[k]
         /\ t.view = s.view /\ t.floats = s.floats /\ t.focus = s.focus
         /\ t.here = s.here /\ t.scroll = s.scroll
<1>1. s \in Strips /\ RoomFor(s) /\ Focusable(s, s.focus) /\ Count(s) \in Nat
  BY FittingStrip
<1>2. PICK q : q = [s.columns EXCEPT ![i] = column]
  OBVIOUS
<1>3. t = [s EXCEPT !.columns = q]
  BY <1>2 DEF Reshaped
<1>4. s.columns \in Seq(StripColumns) /\ i \in 1..Len(s.columns)
  BY <1>1 DEF Strips, Count
<1>5. /\ q \in Seq(StripColumns) /\ Len(q) = Len(s.columns) /\ q[i] = column
      /\ \A k \in 1..Len(s.columns) : k # i => q[k] = s.columns[k]
  BY <1>2, <1>4
<1>6. /\ t \in Strips /\ t.columns = q /\ t.view = s.view /\ t.floats = s.floats /\ t.focus = s.focus
      /\ t.here = s.here /\ t.scroll = s.scroll
  BY <1>1, <1>3, <1>5 DEF Strips
<1>7. Count(t) = Count(s)
  BY <1>5, <1>6 DEF Count
<1>8. RoomFor(t) /\ Focusable(t, t.focus)
  BY <1>1, <1>6, <1>7 DEF RoomFor, Focusable
<1>9. QED
  BY <1>5, <1>6, <1>7, <1>8 DEF Fitting, Count

\* The end of every resize shows the column.
LEMMA WideningHolds ==
  ASSUME StripFits, NEW i \in 1..Count(strip), NEW width \in Nat, strip' = Widened(strip, i, width)
  PROVE  StripHeld /\ (strip.focus = i => StripKept)
<1>1. PICK column : column = [width |-> width, full |-> FALSE]
  OBVIOUS
<1>2. PICK e : e = [strip EXCEPT !.columns[i] = column]
  OBVIOUS
<1>3. Fitting(strip) /\ strip \in Strips
  BY FittingStrip DEF StripFits
<1>4. column \in StripColumns
  BY <1>1 DEF StripColumns
<1>5. Reshaped(e, strip, i, column)
  BY <1>2, <1>3 DEF Reshaped, Strips
<1>6. Fitting(e) /\ Count(e) = Count(strip) /\ e.focus = strip.focus
  BY <1>3, <1>4, <1>5, ReshapingFits
<1>7. PICK g : g = ClampScroll(e) /\ Rescrolled(g, e)
  BY <1>6, FittingStrip, ClampingRescrolls
<1>8. g \in Strips /\ RoomFor(g) /\ Focusable(g, g.focus) /\ Count(g) = Count(e) /\ g.focus = e.focus
  BY <1>6, <1>7, FittingStrip, SameRoom DEF Rescrolled
<1>9. Fitting(g) /\ i \in 1..Count(g)
  BY <1>6, <1>8 DEF Fitting
<1>10. strip' = Reveal(g, i)
  BY <1>1, <1>2, <1>7 DEF Widened
<1>11. Rescrolled(strip', g) /\ InSight(strip', i)
  BY <1>8, <1>9, <1>10, RevealingShows
<1>12. QED
  BY <1>6, <1>8, <1>9, <1>11, RevealedIsHeld

\* There is always a next width.
LEMMA NextWidthIsANumber ==
  ASSUME NEW s \in Strips, NEW width
  PROVE  NextWidth(s, width) \in Nat /\ LeastWidth(s) \in Nat
<1>1. PICK v \in Nat \ {0} : v = s.view
  BY DEF Strips
<1>2. v \div 6 \in Nat /\ v \div 3 \in Nat /\ v \div 2 \in Nat /\ (2 * v) \div 3 \in Nat
  BY <1>1
<1>3. PICK least \in Nat : least = LeastWidth(s)
  BY <1>1, <1>2 DEF LeastWidth, Greatest
<1>4. \A w \in Nat : Within(w, least, v) \in Nat
  BY <1>1, <1>3 DEF Within, Least, Greatest
<1>5. PICK steps : steps = {Within(w, LeastWidth(s), s.view) :
                              w \in {s.view \div 3, s.view \div 2, (2 * s.view) \div 3, s.view}}
  OBVIOUS
<1>6. steps \subseteq Nat /\ steps # {}
  BY <1>1, <1>2, <1>3, <1>4, <1>5
<1>7. PICK wider : wider = {w \in steps : w > width}
  OBVIOUS
<1>8. PICK from : from = IF wider = {} THEN steps ELSE wider
  OBVIOUS
<1>9. from \subseteq Nat /\ from # {}
  BY <1>6, <1>7, <1>8
<1>10. \E w \in from : \A x \in from : w <= x
  BY <1>9, LeastNumber
<1>11. NextWidth(s, width) = CHOOSE w \in from : \A x \in from : w <= x
  BY <1>5, <1>7, <1>8 DEF NextWidth
<1>12. NextWidth(s, width) \in from
  BY <1>10, <1>11
<1>13. QED
  BY <1>3, <1>9, <1>12

\* Scrolling, and resizing or maximizing a column, ends in range; the focused column
\* is in sight if it is the one that was meant.
LEMMA ResizingHoldsStrip ==
  ASSUME StripFits
  PROVE  /\ \A direction \in {-1, 1} : StripScrolls(direction) => StripHeld
         /\ CyclesWidth => StripKept
         /\ \A i \in 1..Count(strip) :
              EndsResize(i, LeastWidth(strip)) \/ TogglesMaximized(i)
                => StripHeld /\ (strip.focus = i => StripKept)
<1>1. Fitting(strip) /\ strip \in Strips
  BY FittingStrip DEF StripFits
<1>2. ASSUME NEW direction \in {-1, 1}, StripScrolls(direction) PROVE StripHeld
  <2>1. PICK d : d = direction * ScrollStep
    OBVIOUS
  <2>2. d \in Int
    BY <2>1, StripAssumption
  <2>3. Rescrolled(strip', strip)
    BY <1>1, <1>2, <2>1, <2>2, ScrollingRescrolls DEF StripScrolls
  <2>4. SameLayout(strip', strip) /\ strip'.floats = strip.floats /\ strip'.focus = strip.focus /\ InRange(strip')
    BY <2>3 DEF Rescrolled
  <2>5. Fitting(strip')
    BY <1>1, <2>4, SameRoom DEF Fitting
  <2>6. QED
    BY <2>4, <2>5 DEF StripHeld, StripFits, StaysInRange
<1>3. ASSUME CyclesWidth PROVE StripKept
  <2>1. PICK width : width = NextWidth(strip, WidthOf(strip, strip.focus))
    OBVIOUS
  <2>2. width \in Nat
    BY <1>1, <2>1, NextWidthIsANumber
  <2>3. strip.focus \in 1..Count(strip) /\ strip' = Widened(strip, strip.focus, width)
    BY <1>3, <2>1 DEF CyclesWidth
  <2>4. QED
    BY <2>2, <2>3, WideningHolds
<1>4. ASSUME NEW i \in 1..Count(strip), EndsResize(i, LeastWidth(strip))
      PROVE  StripHeld /\ (strip.focus = i => StripKept)
  <2>1. PICK width : width = LeastWidth(strip)
    OBVIOUS
  <2>2. width \in Nat
    BY <1>1, <2>1, NextWidthIsANumber
  <2>3. strip' = Widened(strip, i, width)
    BY <1>4, <2>1 DEF EndsResize
  <2>4. QED
    BY <2>2, <2>3, WideningHolds
<1>5. ASSUME NEW i \in 1..Count(strip), TogglesMaximized(i)
      PROVE  StripHeld /\ (strip.focus = i => StripKept)
  <2>1. PICK old : old = strip.columns[i]
    OBVIOUS
  <2>2. PICK column : column = [old EXCEPT !.full = ~@]
    OBVIOUS
  <2>3. old \in StripColumns
    BY <1>1, <2>1, WidthsAreNumbers
  <2>4. column \in StripColumns
    BY <2>2, <2>3 DEF StripColumns
  <2>5. PICK e : e = [strip EXCEPT !.columns[i].full = ~@]
    OBVIOUS
  <2>6. e = [strip EXCEPT !.columns[i] = column]
    BY <2>1, <2>2, <2>5
  <2>7. Reshaped(e, strip, i, column)
    BY <1>1, <2>6 DEF Reshaped, Strips
  <2>8. Fitting(e) /\ Count(e) = Count(strip) /\ e.focus = strip.focus
    BY <1>1, <2>4, <2>7, ReshapingFits
  <2>9. strip' = Reveal(e, i)
    BY <1>5, <2>5 DEF TogglesMaximized
  <2>10. Rescrolled(strip', e) /\ InSight(strip', i)
    BY <2>8, <2>9, FittingStrip, RevealingShows
  <2>11. QED
    BY <2>8, <2>10, RevealedIsHeld
<1>6. QED
  BY <1>2, <1>3, <1>4, <1>5

\* The window leaves the strip for the floating layer, and comes back.
LEMMA FloatingKeepsStrip ==
  ASSUME StripFits,
         \/ \E i \in 1..Count(strip), full \in BOOLEAN : LeavesStrip(i, full)
         \/ ReturnsToStrip
  PROVE  StripKept
<1>1. /\ Fitting(strip) /\ strip \in Strips /\ RoomFor(strip) /\ Count(strip) \in Nat /\ MaxColumns \in Nat
      /\ Len(strip.floats) \in {0, 1} /\ Count(strip) + Len(strip.floats) <= MaxColumns
  BY FittingStrip DEF StripFits, RoomFor
<1>2. ASSUME NEW i \in 1..Count(strip), NEW full \in BOOLEAN, LeavesStrip(i, full)
      PROVE  StripKept
  <2>1. PICK gone : gone = Detached(strip, i)
    OBVIOUS
  <2>2. PICK float : float = [at |-> i, full |-> full]
    OBVIOUS
  <2>3. PICK e : e = [gone EXCEPT !.floats = <<float>>]
    OBVIOUS
  <2>4. PICK f : f = Focused(e, OnFloating)
    OBVIOUS
  <2>5. /\ gone \in Strips /\ gone.floats = strip.floats /\ Count(gone) \in Nat
        /\ Count(gone) + Len(gone.floats) < MaxColumns
    BY <1>1, <2>1, DetachingFits DEF Shortened
  <2>6. strip.floats = <<>> /\ strip' = ClampScroll(f)
    BY <1>2, <2>1, <2>2, <2>3, <2>4 DEF LeavesStrip
  <2>7. float \in StripFloats
    BY <1>1, <2>2 DEF StripFloats
  <2>8. <<float>> \in Seq(StripFloats) /\ Len(<<float>>) = 1 /\ <<float>> # <<>>
    BY <2>7
  <2>9. e \in Strips /\ e.columns = gone.columns /\ e.floats = <<float>>
    BY <2>3, <2>5, <2>8 DEF Strips
  <2>10. Count(e) = Count(gone) /\ RoomFor(e)
    <3>1. Len(gone.floats) = 0
      BY <2>5, <2>6
    <3>2. Count(e) = Count(gone)
      BY <2>9 DEF Count
    <3>3. QED
      BY <1>1, <2>5, <2>8, <2>9, <3>1, <3>2 DEF RoomFor
  <2>11. OnFloating \in Nat
    BY <1>1 DEF OnFloating
  <2>12. Aimed(f, e, OnFloating)
    BY <2>4, <2>9, <2>11, FocusingAims
  <2>13. Rescrolled(strip', f)
    BY <2>6, <2>12, ClampingRescrolls DEF Aimed, SameLayout
  <2>14. SameLayout(strip', e) /\ strip'.floats = e.floats /\ strip'.focus = OnFloating /\ InRange(strip')
    BY <2>12, <2>13 DEF Aimed, Rescrolled, SameLayout
  <2>15. QED
    BY <2>8, <2>9, <2>10, <2>14, UnseenIsKept
<1>3. CASE ReturnsToStrip
  <2>1. PICK at : at = Least(strip.floats[1].at, Count(strip) + 1)
    OBVIOUS
  <2>2. PICK there : there = Inserted(strip, at, DefaultColumn)
    OBVIOUS
  <2>3. PICK back : back = [there EXCEPT !.floats = <<>>]
    OBVIOUS
  <2>4. strip.floats # <<>> /\ strip' = ClampScroll(FocusedAndRevealed(back, at))
    BY <1>3, <2>1, <2>2, <2>3 DEF ReturnsToStrip
  <2>5. strip.floats \in Seq(StripFloats)
    BY <1>1 DEF Strips
  <2>6. strip.floats[1] \in StripFloats /\ Len(strip.floats) = 1
    BY <1>1, <2>4, <2>5
  <2>7. strip.floats[1].at \in Nat \ {0}
    BY <2>6 DEF StripFloats
  <2>8. at \in 1..(Count(strip) + 1)
    BY <1>1, <2>1, <2>7 DEF Least
  <2>9. there \in Strips /\ Count(there) = Count(strip) + 1
    BY <1>1, <2>2, <2>8, DefaultIsAColumn, InsertingExtends DEF Extended
  <2>10. <<>> \in Seq(StripFloats) /\ Len(<<>>) = 0
    OBVIOUS
  <2>11. back \in Strips /\ back.columns = there.columns /\ back.floats = <<>>
    BY <2>3, <2>9, <2>10 DEF Strips
  <2>12. Count(back) = Count(strip) + 1
    BY <2>9, <2>11 DEF Count
  <2>13. RoomFor(back)
    BY <1>1, <2>6, <2>10, <2>11, <2>12 DEF RoomFor
  <2>14. at \in 1..Count(back)
    BY <2>8, <2>12
  <2>15. PICK t : t = FocusedAndRevealed(back, at)
    OBVIOUS
  <2>16. Shown(t, back, at)
    BY <2>11, <2>14, <2>15, FocusingShows
  <2>17. strip' = t
    BY <2>4, <2>15, <2>16, ClampingRescrolls DEF Shown, SameLayout
  <2>18. QED
    BY <2>11, <2>13, <2>14, <2>16, <2>17, ShownIsKept
<1>4. QED
  BY <1>2, <1>3

\* A column that becomes wider lengthens the strip.
LEMMA WiderKeepsRange ==
  ASSUME StripFits, NEW i \in 1..Count(strip), NEW width \in MinWidths, WindowIsWider(i, width)
  PROVE  StripHeld
<1>1. Fitting(strip) /\ strip \in Strips /\ Count(strip) \in Nat
  BY FittingStrip DEF StripFits
<1>2. PICK n \in Nat : n = Count(strip)
  BY <1>1
<1>3. PICK old : old = strip.columns[i]
  OBVIOUS
<1>4. PICK column : column = [old EXCEPT !.width = width]
  OBVIOUS
<1>5. width \in Nat /\ Gap \in Nat
  BY StripAssumption
<1>6. old \in StripColumns
  BY <1>1, <1>3, WidthsAreNumbers
<1>7. column \in StripColumns /\ column.full = old.full /\ column.width = width
  BY <1>4, <1>5, <1>6 DEF StripColumns
<1>8. strip' = [strip EXCEPT !.columns[i].width = width] /\ width > WidthOf(strip, i)
  BY DEF WindowIsWider
<1>9. strip' = [strip EXCEPT !.columns[i] = column]
  BY <1>3, <1>4, <1>8
<1>10. Reshaped(strip', strip, i, column)
  BY <1>1, <1>9 DEF Reshaped, Strips
<1>11. /\ Fitting(strip') /\ Count(strip') = n /\ strip'.columns[i] = column
       /\ \A k \in 1..n : k # i => strip'.columns[k] = strip.columns[k]
       /\ strip'.view = strip.view /\ strip'.here = strip.here /\ strip'.scroll = strip.scroll
  BY <1>1, <1>2, <1>7, <1>10, ReshapingFits
<1>12. strip' \in Strips
  BY <1>11, FittingStrip
<1>13. \A k \in 1..n : WidthOf(strip, k) \in Nat \ {0} /\ WidthOf(strip', k) \in Nat \ {0}
  BY <1>1, <1>2, <1>11, <1>12, WidthsAreNumbers
<1>14. WidthOf(strip, i) <= WidthOf(strip', i)
  <2>1. CASE old.full
    <3>1. WidthOf(strip, i) = WidthOf(strip', i)
      BY <1>3, <1>7, <1>11, <2>1 DEF WidthOf
    <3>2. QED
      BY <1>2, <1>13, <3>1
  <2>2. CASE ~old.full
    <3>1. WidthOf(strip', i) = Resolve(width, strip.view)
      BY <1>7, <1>11, <2>2 DEF WidthOf
    <3>2. width > 1
      BY <1>2, <1>5, <1>8, <1>13
    <3>3. Resolve(width, strip.view) = width
      BY <1>5, <3>2 DEF Resolve, Greatest, HalfWide
    <3>4. QED
      BY <1>2, <1>5, <1>8, <1>13, <3>1, <3>3
  <2>3. QED
    BY <2>1, <2>2
<1>15. \A k \in 1..n : WidthOf(strip, k) <= WidthOf(strip', k)
  <2>1. TAKE k \in 1..n
  <2>2. CASE k = i
    BY <1>14, <2>2
  <2>3. CASE k # i
    <3>1. WidthOf(strip', k) = WidthOf(strip, k)
      BY <1>11, <2>3 DEF WidthOf
    <3>2. QED
      BY <1>13, <3>1
  <2>4. QED
    BY <2>2, <2>3
<1>16. n <= Count(strip) /\ n <= Count(strip')
  BY <1>2, <1>11
<1>17. \A k \in 0..n : Span(strip, k) <= Span(strip', k)
  BY <1>1, <1>12, <1>15, <1>16, SpansCompare
<1>18. n # 0 /\ n \in 0..n
  BY <1>2
<1>19. Span(strip, n) <= Span(strip', n) /\ Span(strip, n) \in Nat /\ Span(strip', n) \in Nat
  BY <1>1, <1>2, <1>11, <1>12, <1>17, <1>18, SpanAdds
<1>20. ContentWidth(strip) <= ContentWidth(strip')
  BY <1>2, <1>5, <1>11, <1>18, <1>19 DEF ContentWidth
<1>21. /\ ContentWidth(strip) \in Nat /\ ContentWidth(strip') \in Nat
       /\ MaxScroll(strip) \in Nat /\ MaxScroll(strip') \in Nat /\ strip.view \in Nat
  BY <1>1, <1>12, ColumnsLie DEF Strips
<1>22. MaxScroll(strip) <= MaxScroll(strip')
  BY <1>11, <1>20, <1>21 DEF MaxScroll, Greatest
<1>23. InRange(strip) => InRange(strip')
  BY <1>11, <1>21, <1>22 DEF InRange
<1>24. QED
  BY <1>11, <1>23 DEF StripHeld, StripFits, StaysInRange

\* Another viewport leaves the columns and the focus.
LEMMA ViewingFits ==
  ASSUME StripFits, NEW view \in Views, ViewChanges(view)
  PROVE  StripFits'
<1>1. strip \in Strips /\ RoomFor(strip) /\ Focusable(strip, strip.focus)
  BY FittingStrip DEF StripFits
<1>2. view \in Nat \ {0}
  BY StripAssumption
<1>3. /\ strip' \in Strips /\ strip'.columns = strip.columns /\ strip'.floats = strip.floats
      /\ strip'.focus = strip.focus
  BY <1>1, <1>2 DEF ViewChanges, Strips
<1>4. QED
  BY <1>1, <1>3 DEF StripFits, Fitting, RoomFor, Focusable, Count

\* Every step keeps the strip in order, and each of the two properties unless it is one of
\* those it names.
LEMMA StripSteps ==
  ASSUME StripFits, StripNext
  PROVE  /\ StripFits'
         /\ \/ StaysInRange
            \/ \E view \in Views : ViewChanges(view)
            \/ ~strip.here /\ FloatingIsFocused
         /\ \/ StaysInSight
            \/ \E direction \in {-1, 1} : StripScrolls(direction)
            \/ \E i \in 1..Count(strip) \ {strip.focus} :
                 \/ ClosesOnStrip(i)
                 \/ TogglesMaximized(i)
                 \/ EndsResize(i, LeastWidth(strip))
            \/ \E i \in 1..Count(strip), width \in MinWidths : WindowIsWider(i, width)
            \/ \E view \in Views : ViewChanges(view)
<1>1. ASSUME NEW keepsFocus \in BOOLEAN, NEW last \in BOOLEAN, NEW width \in WidthsOfNew(strip),
             OpensOnStrip(keepsFocus, last, width)
      PROVE  StripKept
  BY <1>1, OpeningKeepsStrip
<1>2. ASSUME NEW i \in 1..Count(strip), ClosesOnStrip(i)
      PROVE  StripHeld /\ (i = strip.focus => StripKept)
  BY <1>2, ClosingKeepsStrip
<1>3. CASE FloatingCloses
  BY <1>3, FloatingClosingKeepsStrip DEF StripKept
<1>4. ASSUME \/ ColumnLeaves
             \/ \E column \in OtherColumns : ColumnComes(column)
             \/ \E i, at \in 1..Count(strip) : ColumnMoves(i, at)
      PROVE  StripKept
  BY <1>4, MovingKeepsStrip
<1>5. CASE \/ \E forward \in BOOLEAN : Navigates(forward)
           \/ \E i \in 1..Count(strip) : ColumnIsFocused(i)
           \/ FloatingIsFocused
           \/ FocusLeaves
           \/ FocusReturns
  BY <1>5, FocusingKeepsStrip
<1>6. ASSUME (\E i \in 1..Count(strip), full \in BOOLEAN : LeavesStrip(i, full)) \/ ReturnsToStrip
      PROVE  StripKept
  BY <1>6, FloatingKeepsStrip
<1>7. ASSUME NEW direction \in {-1, 1}, StripScrolls(direction) PROVE StripHeld
  BY <1>7, ResizingHoldsStrip
<1>8. CASE CyclesWidth
  BY <1>8, ResizingHoldsStrip DEF StripKept
<1>9. ASSUME NEW i \in 1..Count(strip), EndsResize(i, LeastWidth(strip)) \/ TogglesMaximized(i)
      PROVE  StripHeld /\ (strip.focus = i => StripKept)
  BY <1>9, ResizingHoldsStrip
<1>10. ASSUME NEW i \in 1..Count(strip), NEW width \in MinWidths, WindowIsWider(i, width)
       PROVE  StripHeld
  BY <1>10, WiderKeepsRange
<1>11. ASSUME NEW view \in Views, ViewChanges(view) PROVE StripFits'
  BY <1>11, ViewingFits
<1>12. ASSUME NEW i \in 1..Count(strip), ColumnStep(i)
       PROVE  \/ StripKept
              \/ ColumnIsFocused(i)
              \/ StripHeld /\ i # strip.focus
                   /\ (ClosesOnStrip(i) \/ TogglesMaximized(i) \/ EndsResize(i, LeastWidth(strip)))
              \/ StripHeld /\ \E width \in MinWidths : WindowIsWider(i, width)
  BY <1>2, <1>4, <1>6, <1>9, <1>10, <1>12 DEF ColumnStep
<1>13. QED
  BY <1>1, <1>3, <1>4, <1>5, <1>6, <1>7, <1>8, <1>11, <1>12 DEF StripNext, StripKept, StripHeld

\* The strip is empty at first.
LEMMA StripBegins ==
  ASSUME StripInit
  PROVE  StripFits
<1>1. PICK v \in Views : strip = [view |-> v, columns |-> <<>>, scroll |-> 0, focus |-> Nothing,
                                  here |-> TRUE, floats |-> <<>>]
  BY DEF StripInit
<1>2. v \in Nat \ {0} /\ MaxColumns \in Nat
  BY StripAssumption
<1>3. <<>> \in Seq(StripColumns) /\ <<>> \in Seq(StripFloats) /\ Len(<<>>) = 0
  OBVIOUS
<1>4. strip \in Strips
  BY <1>1, <1>2, <1>3 DEF Strips, Nothing
<1>5. RoomFor(strip) /\ Focusable(strip, strip.focus)
  BY <1>1, <1>2, <1>3 DEF RoomFor, Focusable, Count, Nothing
<1>6. QED
  BY <1>4, <1>5 DEF StripFits, Fitting

\* The strip has room for its columns, and the focus is on one of the windows.
THEOREM StripStaysInOrder == StripSpec => []StripFits
<1>1. StripFits /\ [StripNext]_strip => StripFits'
  <2>1. ASSUME StripFits, UNCHANGED strip PROVE StripFits'
    BY <2>1 DEF StripFits
  <2>2. QED
    BY <2>1, StripSteps
<1>2. QED
  BY <1>1, StripBegins, PTL DEF StripSpec

\* The strip that is shown leaves no part of the viewport empty that columns could
\* fill, unless the viewport changed or the focus came back to a floating window.
THEOREM OnlyReturnsStrand == StripSpec => OnlyReturnsStrandTheStrip
<1> DEFINE held == (strip.here => InRange(strip)) =>
                     \/ strip'.here => InRange(strip')
                     \/ strip'.view # strip.view
                     \/ ~strip.here /\ FloatingIsFocused
<1>1. StripFits /\ [StripNext]_strip => [held]_strip
  <2>1. ASSUME StripFits, StripNext PROVE held
    <3>1. ASSUME NEW view \in Views, ViewChanges(view) PROVE strip'.view # strip.view
      BY <2>1, <3>1, FittingStrip DEF ViewChanges, StripFits, Strips
    <3>2. QED
      BY <2>1, <3>1, StripSteps DEF StaysInRange
  <2>2. QED
    BY <2>1
<1>2. QED
  BY <1>1, StripStaysInOrder, PTL DEF StripSpec, OnlyReturnsStrandTheStrip

\* Whatever moves the focus shows the column, and only what nobody asked of it or what
\* works on another column takes it out of sight.
THEOREM OnlyOthersHide == StripSpec => OnlyOthersHideTheFocus
<1> DEFINE shows == InRange(strip) /\ OnStrip(strip') /\ ~InSight(strip', strip'.focus) =>
                     \/ OnStrip(strip) /\ ~InSight(strip, strip.focus)
                     \/ \E direction \in {-1, 1} : StripScrolls(direction)
                     \/ \E i \in 1..Count(strip) \ {strip.focus} :
                          \/ ClosesOnStrip(i)
                          \/ TogglesMaximized(i)
                          \/ EndsResize(i, LeastWidth(strip))
                     \/ \E i \in 1..Count(strip), width \in MinWidths : WindowIsWider(i, width)
                     \/ \E view \in Views : ViewChanges(view)
<1>1. StripFits /\ [StripNext]_strip => [shows]_strip
  <2>1. ASSUME StripFits, StripNext PROVE shows
    BY <2>1, StripSteps DEF StaysInSight
  <2>2. QED
    BY <2>1
<1>2. QED
  BY <1>1, StripStaysInOrder, PTL DEF StripSpec, OnlyOthersHideTheFocus
=============================================================================
