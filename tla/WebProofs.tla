------------------------------ MODULE WebProofs ------------------------------
(***************************************************************************)
(* Proofs about the web app, for any number of mounts, any caps, figures   *)
(* and answers: the types, the sockets of pages that were left, the curve, *)
(* the console, and what the pages say of an API that fails.               *)
(***************************************************************************)
EXTENDS WebApp, FiniteSetTheorems, SequenceTheorems, TLAPS

-----------------------------------------------------------------------------
(* The invariants, by the part of the app they are about.                  *)
DeskState == [pnl : Pnls, breaker : Breakers]
Points == [i : Nat, equity : Pnls]
Lines == {"answer", "API unreachable."}

FeedOK == FeedTypeOK /\ events \in Seq(Pushed)

PageOK == /\ desk \in DeskState
          /\ summary \in {<<>>} \cup {<<p>> : p \in Pnls}
          /\ market \in {<<>>} \cup {<<m>> : m \in [breaker : Breakers, regime : Regimes]}
          /\ trades \in {0, 1}
          /\ equity \in Seq(Points) /\ Len(equity) <= EquityCap
          /\ chains \in [Refreshes -> {<<>>} \cup Requests]

ConsoleOK == /\ asking \in 0 .. MaxAsks /\ busy \in BOOLEAN
             /\ log \in Seq(Lines) /\ Len(log) <= MaxLog + LogCap

(* The desk asks no tab, and a tab is only asked once it is mounted.       *)
TabsOK == /\ TabsTypeOK(route)
          /\ data = [t \in Tabs |-> data[t]]
          /\ route \notin Tabs => inflight = 0 /\ ~answered

AppOK == route \in Routes \cup {"none"} /\ scene \in Scenes /\ clicks \in 0 .. scene.clicks

(* The desk is shown exactly while its feed is not stopped, and leaves     *)
(* nothing behind.                                                         *)
Shown == (route = "desk") <=> (mount > 0 /\ ~stop[mount])
Blank == route # "desk" => /\ summary = <<>> /\ events = <<>> /\ log = <<>>
                           /\ asking = 0 /\ \A r \in Refreshes : chains[r] = <<>>

WebInv == FeedOK /\ PageOK /\ ConsoleOK /\ TabsOK /\ AppOK /\ Shown /\ Blank

(* A page that is shown has leaked nothing, and one that was left is       *)
(* about to open its late socket only if it has opened none.               *)
LeakInv == \A m \in 1 .. Mounts : /\ late[m] <= 1
                                  /\ ~stop[m] \/ link[m] = "waiting" => late[m] = 0

(* Until the curve is full its indices count its points.                   *)
CurveInv == Len(equity) \in 1 .. EquityCap - 1 => equity[Len(equity)].i = Len(equity) - 1

(* A page that was answered has something to show.                         *)
AnsweredInv == answered => /\ route = "strategies" => data.strategies # <<>>
                           /\ route = "simulate" => data.simulate # "none"

-----------------------------------------------------------------------------
(* The operators.                                                          *)

(* The least number of a set: the intervals from 1 to the numbers of a set *)
(* are subsets of a finite one, and inclusion is well-founded on those.    *)
LEMMA Least ==
    ASSUME NEW S, S \subseteq Nat, S # {}
    PROVE  Min(S) \in S /\ \A m \in S : Min(S) <= m
<1>1. PICK N \in S : TRUE
  OBVIOUS
<1> DEFINE I == 1 .. N
           T == {1 .. n : n \in {m \in S : m <= N}}
<1>2. IsFiniteSet(I)
  <2>1. 1 \in Int /\ N \in Int
    BY <1>1
  <2>2. QED
    BY <2>1, FS_Interval, Zenon
<1>3. IsWellFoundedOn(StrictSubsetOrdering(I), SUBSET I)
  BY <1>2, FS_StrictSubsetOrderingWellFounded, FS_FiniteSubsetsOfFinite
<1>4. \A n \in S : n <= N => 1 .. n \subseteq I
  OBVIOUS
<1>5. T \subseteq SUBSET I /\ T # {}
  BY <1>1, <1>4
<1> HIDE DEF T
<1>6. PICK x \in T : \A y \in T : ~(<<y, x>> \in StrictSubsetOrdering(I))
  BY <1>3, <1>5, WFMin, Zenon
<1> USE DEF T
<1>7. PICK n \in S : n <= N /\ x = 1 .. n
  BY <1>6
<1>8. ASSUME NEW m \in S, m < n PROVE FALSE
  <2>1. 1 .. m \in T /\ 1 .. m \subseteq 1 .. n /\ n \in 1 .. n /\ n \notin 1 .. m
    BY <1>7, <1>8
  <2>2. <<1 .. m, 1 .. n>> \in StrictSubsetOrdering(I)
    BY <1>5, <1>7, <2>1 DEF StrictSubsetOrdering
  <2>3. QED
    BY <1>6, <1>7, <2>1, <2>2
<1>9. \A m \in S : n <= m
  BY <1>7, <1>8
<1>10. QED
  BY <1>7, <1>9 DEF Min

(* The newest event of some kinds is an event of the log, of such a kind.  *)
LEMMA LatestIn ==
    ASSUME NEW l \in Seq(Pushed), NEW kinds
    PROVE  Latest(kinds, l) = <<>> \/ \E e \in Pushed : e.kind \in kinds /\ Latest(kinds, l) = <<e>>
<1> DEFINE at == {n \in DOMAIN l : l[n].kind \in kinds}
<1>1. CASE at = {}
  BY <1>1 DEF Latest
<1>2. CASE at # {}
  <2>1. at \subseteq Nat
    OBVIOUS
  <2>2. Min(at) \in DOMAIN l /\ l[Min(at)].kind \in kinds
    BY <1>2, <2>1, Least
  <2>3. l[Min(at)] \in Pushed
    BY <2>2
  <2>4. Latest(kinds, l) = <<l[Min(at)]>>
    BY <1>2 DEF Latest
  <2>5. QED
    BY <2>2, <2>3, <2>4
<1>3. QED
  BY <1>1, <1>2

LEMMA PushedKinds ==
    /\ \A e \in Pushed : e.kind = "summary" => e.data \in Pnls
    /\ \A e \in Pushed : e.kind = "fill" => e.data \in {"executed", "failed"}
  BY DEF Pushed

LEMMA RequestFacts ==
    ASSUME NEW c \in Requests
    PROVE  \/ c[1] = "summary" /\ c[2] \in Pnls
           \/ c[1] = "market" /\ c[2] \in Breakers
           \/ c[1] = "trades"
<1>1. ASSUME NEW p \in Pnls, c = <<"summary", p>> PROVE c[1] = "summary" /\ c[2] \in Pnls
  BY <1>1
<1>2. ASSUME NEW b \in Breakers, c = <<"market", b>> PROVE c[1] = "market" /\ c[2] \in Breakers
  BY <1>2
<1>3. ASSUME c = <<"trades", "">> PROVE c[1] = "trades"
  BY <1>3
<1>4. (\E p \in Pnls : c = <<"summary", p>>) \/ (\E b \in Breakers : c = <<"market", b>>)
      \/ c = <<"trades", "">>
  BY Zenon DEF Requests
<1>5. QED
  BY <1>1, <1>2, <1>3, <1>4

(* The next request of a refresh is one, or there is none.                 *)
LEMMA AfterType ==
    ASSUME desk \in DeskState
    PROVE  /\ Ask("summary") \in Requests
           /\ \A request : request \in {"summary", "market", "trades"} =>
                 After(request) \in {<<>>} \cup Requests
<1>1. desk.pnl \in Pnls /\ desk.breaker \in Breakers
  BY DEF DeskState
<1>2. /\ Ask("summary") = <<"summary", desk.pnl>>
      /\ Ask("market") = <<"market", desk.breaker>>
      /\ Ask("trades") = <<"trades", "">>
  BY DEF Ask
<1>3. {Ask("summary"), Ask("market"), Ask("trades")} \subseteq Requests
  BY <1>1, <1>2, Zenon DEF Requests
<1>4. After("summary") = Ask("market") /\ After("market") = Ask("trades") /\ After("trades") = <<>>
  BY DEF After
<1>5. QED
  BY <1>3, <1>4

LEMMA NewestSummary ==
    ASSUME NEW l \in Seq(Pushed)
    PROVE  Newest("summary", l) = <<>> \/ \E p \in Pnls : Newest("summary", l) = <<p>>
<1>1. CASE Latest({"summary"}, l) = <<>>
  BY <1>1 DEF Newest
<1>2. ASSUME NEW e \in Pushed, e.kind = "summary", Latest({"summary"}, l) = <<e>>
      PROVE  \E p \in Pnls : Newest("summary", l) = <<p>>
  <2>1. Newest("summary", l) = <<e.data>>
    BY <1>2 DEF Newest
  <2>2. QED
    BY <1>2, <2>1, PushedKinds
<1>3. QED
  BY <1>1, <1>2, LatestIn

LEMMA LoggedType ==
    ASSUME FeedOK, NEW ev \in Pushed
    PROVE  Logged(ev) \in Seq(Pushed) /\ Len(Logged(ev)) <= FeedCap
<1>1. FeedCap \in Nat /\ events \in Seq(Pushed) /\ Len(events) <= FeedCap
  BY FeedAssumption DEF FeedAssumption, FeedOK, FeedTypeOK
<1>2. PICK s : s = <<ev>> \o events
  OBVIOUS
<1>3. s \in Seq(Pushed) /\ Len(s) = Len(events) + 1
  BY <1>1, <1>2
<1>4. PICK n \in Nat : /\ n = IF Len(events) < FeedCap THEN Len(events) + 1 ELSE FeedCap
                       /\ n <= Len(s) /\ n <= FeedCap
  BY <1>1, <1>3
<1>5. Logged(ev) = SubSeq(s, 1, n)
  BY <1>2, <1>4 DEF Logged
<1>6. SubSeq(s, 1, n) \in Seq(Pushed) /\ Len(SubSeq(s, 1, n)) = n
  BY <1>3, <1>4
<1>7. QED
  BY <1>4, <1>5, <1>6

(* A new point of the curve.                                               *)
LEMMA PlotPoints ==
    ASSUME NEW pnl \in Pnls, equity \in Seq(Points), Len(equity) <= EquityCap
    PROVE  /\ Plot(pnl) \in Seq(Points)
           /\ Len(Plot(pnl)) = IF Len(equity) < EquityCap THEN Len(equity) + 1 ELSE EquityCap
           /\ Plot(pnl)[Len(Plot(pnl))] = [i |-> Len(equity), equity |-> pnl]
           /\ \A n \in 1 .. Len(Plot(pnl)) - 1 :
                 Plot(pnl)[n] = equity[IF Len(equity) < EquityCap THEN n ELSE n + 1]
<1>1. EquityCap \in Nat \ {0}
  BY WebAssumption DEF WebAssumption
<1>2. PICK k \in Nat : k = Len(equity) /\ k <= EquityCap
  BY LenProperties
<1>3. PICK e : e = Append(equity, [i |-> Len(equity), equity |-> pnl])
  OBVIOUS
<1>4. [i |-> Len(equity), equity |-> pnl] \in Points
  BY <1>2 DEF Points
<1>5. /\ e \in Seq(Points) /\ Len(e) = k + 1
      /\ e[k + 1] = [i |-> Len(equity), equity |-> pnl]
      /\ \A n \in 1 .. k : e[n] = equity[n]
  BY <1>2, <1>3, <1>4
<1>6. Plot(pnl) = SubSeq(e, IF Len(e) > EquityCap THEN 2 ELSE 1, Len(e))
  BY <1>3 DEF Plot
<1>7. CASE k < EquityCap
  <2>1. Plot(pnl) = SubSeq(e, 1, k + 1)
    BY <1>1, <1>2, <1>5, <1>6, <1>7
  <2>2. /\ SubSeq(e, 1, k + 1) \in Seq(Points) /\ Len(SubSeq(e, 1, k + 1)) = k + 1
        /\ \A n \in 1 .. k + 1 : SubSeq(e, 1, k + 1)[n] = e[n]
    BY <1>2, <1>5
  <2>3. QED
    BY <1>1, <1>2, <1>5, <1>7, <2>1, <2>2
<1>8. CASE k = EquityCap
  <2>1. Plot(pnl) = SubSeq(e, 2, k + 1)
    BY <1>1, <1>2, <1>5, <1>6, <1>8
  <2>2. /\ SubSeq(e, 2, k + 1) \in Seq(Points) /\ Len(SubSeq(e, 2, k + 1)) = k
        /\ \A n \in 1 .. k : SubSeq(e, 2, k + 1)[n] = e[n + 1]
    BY <1>2, <1>5
  <2>3. QED
    BY <1>1, <1>2, <1>5, <1>8, <2>1, <2>2
<1>9. QED
  BY <1>1, <1>2, <1>7, <1>8

-----------------------------------------------------------------------------
(* What the steps of the app come down to.                                 *)
Pushes == \E ev \in Pushed : /\ Push(ev) /\ desk' \in DeskState

LinkStep == /\ \E m \in 1 .. Mounts : Socket(m) \/ Reconnect(m)
            /\ UNCHANGED <<appVars, apiVars, pageVars, consoleVars, tabVars>>

PageStep == /\ \/ route = "desk" /\ RefreshDue
               \/ \E r \in Refreshes : RefreshAnswered(r) \/ RefreshFailed(r)
            /\ UNCHANGED <<appVars, tabVars>>

ConsoleStep == ((route = "desk" /\ ask) \/ askAnswered \/ askFailed) /\ UNCHANGED <<appVars, tabVars>>

TabStep == /\ \/ LoadDue(route) \/ Loaded(route) \/ LoadFailed(route)
              \/ route = "simulate" /\ runBacktest
           /\ UNCHANGED <<appVars, apiVars, deskPage>>

LEMMA NextShape ==
    ASSUME WebInv, [Next]_vars
    PROVE  \/ OpenDesk \/ \E tab \in Tabs : LeaveDesk(tab) \/ OpenTab(tab)
           \/ Pushes \/ LinkStep \/ PageStep \/ ConsoleStep \/ TabStep
           \/ UNCHANGED vars
<1>1. desk \in DeskState
  BY DEF WebInv, PageOK
<1>2. /\ UIEvent("circuit_breaker", "TRIPPED") \in Pushed
      /\ UIEvent("circuit_breaker", "COOLDOWN") \in Pushed
      /\ \A s \in {"executed", "failed"} : UIEvent("fill", s) \in Pushed
      /\ \A p \in Pnls : UIEvent("summary", p) \in Pushed
      /\ \A k \in {"proposal", "approved", "rejected", "snapshot"} : UIEvent(k, "") \in Pushed
  BY DEF UIEvent, Pushed
<1>3. CASE Trip \/ Recover
  <2>1. desk' \in DeskState
    BY <1>1, <1>3 DEF Trip, Recover, DeskState, Breakers
  <2>2. QED
    BY <1>2, <1>3, <2>1 DEF Trip, Recover, Pushes
<1>4. CASE FillTold \/ PipelineStep
  BY <1>1, <1>2, <1>4 DEF FillTold, PipelineStep, Pushes
<1>5. CASE Booked
  <2>1. PICK p \in Pnls : desk' = [desk EXCEPT !.pnl = p] /\ Push(UIEvent("summary", p))
    BY <1>5 DEF Booked
  <2>2. desk' \in DeskState
    BY <1>1, <2>1 DEF DeskState
  <2>3. QED
    BY <1>2, <2>1, <2>2 DEF Pushes
<1>6. CASE \E m \in 1 .. Mounts : SocketStep(m) \/ ReconnectDue(m)
  BY <1>6 DEF SocketStep, ReconnectDue, LinkStep
<1>7. CASE PageRefreshDue \/ \E r \in Refreshes : PageRefreshed(r)
  BY <1>7 DEF PageRefreshDue, PageRefreshed, PageStep
<1>8. CASE ConsoleAsked \/ ConsoleTold
  BY <1>8 DEF ConsoleAsked, ConsoleTold, ConsoleStep
<1>9. CASE TabLoadDue \/ TabLoaded \/ BacktestRun
  BY <1>9 DEF TabLoadDue, TabLoaded, BacktestRun, TabStep
<1>10. QED
  BY <1>3, <1>4, <1>5, <1>6, <1>7, <1>8, <1>9 DEF Next

(* What they do to the feed.                                               *)
FeedStep == \/ route # "desk" /\ FeedMount /\ route' = "desk"
            \/ route = "desk" /\ FeedUnmount /\ route' # "desk"
            \/ /\ route' = route
               /\ \/ UNCHANGED feedVars
                  \/ \E ev \in Pushed : onmessage(ev)
                  \/ \E m \in 1 .. Mounts : Socket(m) \/ Reconnect(m)
            \/ route # "desk" /\ route' # "desk" /\ UNCHANGED feedVars

LEMMA FeedShape ==
    ASSUME WebInv, [Next]_vars
    PROVE  FeedStep
<1>1. CASE OpenDesk
  BY <1>1 DEF OpenDesk, Click, FeedStep
<1>2. ASSUME NEW tab \in Tabs, LeaveDesk(tab) \/ OpenTab(tab) PROVE FeedStep
  <2>1. tab # "desk"
    BY DEF Tabs
  <2>2. QED
    BY <1>2, <2>1 DEF LeaveDesk, OpenTab, Click, deskPage, FeedStep
<1>3. CASE Pushes
  <2>1. PICK ev \in Pushed : /\ IF connected THEN LiveEvent(ev) ELSE UNCHANGED deskPage
                             /\ route' = route
    BY <1>3 DEF Pushes, Push, appVars
  <2>2. onmessage(ev) \/ UNCHANGED feedVars
    BY <2>1 DEF LiveEvent, deskPage
  <2>3. QED
    BY <2>1, <2>2 DEF FeedStep
<1>4. CASE LinkStep
  BY <1>4 DEF LinkStep, appVars, FeedStep
<1>5. CASE PageStep \/ ConsoleStep \/ TabStep \/ UNCHANGED vars
  <2>1. UNCHANGED feedVars
    BY <1>5
    DEF PageStep, RefreshDue, RefreshAnswered, RefreshFailed, ConsoleStep, ask, askAnswered,
        askFailed, TabStep, deskPage, vars
  <2>2. route' = route
    BY <1>5 DEF PageStep, ConsoleStep, TabStep, appVars, vars
  <2>3. QED
    BY <2>1, <2>2 DEF FeedStep
<1>6. QED
  BY <1>1, <1>2, <1>3, <1>4, <1>5, NextShape

(* What they do to the figures.                                            *)
FigureStep == \/ UNCHANGED <<summary, equity>>
              \/ summary' = <<>> /\ equity' = <<>>
              \/ \E pnl \in Pnls : setSummary(pnl)

LEMMA FigureShape ==
    ASSUME WebInv, [Next]_vars
    PROVE  FigureStep
<1>1. FeedOK /\ PageOK
  BY DEF WebInv
<1>2. CASE OpenDesk
  BY <1>2 DEF OpenDesk, FigureStep
<1>3. ASSUME NEW tab \in Tabs, LeaveDesk(tab) \/ OpenTab(tab) PROVE FigureStep
  BY <1>3 DEF LeaveDesk, OpenTab, PageUnmount, deskPage, pageVars, FigureStep
<1>4. CASE Pushes
  <2>1. PICK ev \in Pushed : IF connected THEN LiveEvent(ev) ELSE UNCHANGED deskPage
    BY <1>4 DEF Pushes, Push
  <2>2. CASE LiveEvent(ev)
    <3>1. PICK sum : sum = Newest("summary", Logged(ev))
      OBVIOUS
    <3>2. IF sum # <<>> THEN setSummary(sum[1]) ELSE UNCHANGED <<summary, equity>>
      BY <2>2, <3>1 DEF LiveEvent
    <3>3. sum = <<>> \/ \E p \in Pnls : sum = <<p>>
      BY <1>1, <3>1, LoggedType, NewestSummary
    <3>4. QED
      BY <3>2, <3>3 DEF FigureStep
  <2>3. QED
    BY <2>1, <2>2 DEF deskPage, pageVars, FigureStep
<1>5. CASE PageStep
  <2>1. CASE RefreshDue
    BY <2>1 DEF RefreshDue, FigureStep
  <2>2. ASSUME NEW r \in Refreshes, RefreshAnswered(r) PROVE FigureStep
    <3>1. /\ chains[r] \in Requests /\ desk.pnl \in Pnls
      BY <1>1, <2>2 DEF RefreshAnswered, PageOK, DeskState
    <3>2. chains[r][1] = "summary" => chains[r][2] \in Pnls
      BY <3>1, RequestFacts
    <3>3. QED
      BY <2>2, <3>1, <3>2 DEF RefreshAnswered, FigureStep
  <2>3. ASSUME NEW r \in Refreshes, RefreshFailed(r) PROVE FigureStep
    BY <2>3 DEF RefreshFailed, FigureStep
  <2>4. QED
    BY <1>5, <2>1, <2>2, <2>3 DEF PageStep
<1>6. CASE LinkStep \/ ConsoleStep \/ TabStep \/ UNCHANGED vars
  BY <1>6 DEF LinkStep, ConsoleStep, ask, askAnswered, askFailed, TabStep, deskPage, vars,
              pageVars, FigureStep
<1>7. QED
  BY <1>2, <1>3, <1>4, <1>5, <1>6, NextShape

-----------------------------------------------------------------------------
(* The types.                                                              *)
Links == {"none", "connecting", "open", "waiting", "closing", "closed"}

LEMMA FeedNext ==
    ASSUME WebInv, FeedStep
    PROVE  FeedOK' /\ Shown' /\ (route' # "desk" => events' = <<>>)
<1>1. /\ mount \in 0 .. Mounts /\ Mounts \in Nat /\ FeedCap \in Nat
      /\ events \in Seq(Pushed) /\ Len(events) <= FeedCap
      /\ stop \in [1 .. Mounts -> BOOLEAN] /\ link \in [1 .. Mounts -> Links]
      /\ late \in [1 .. Mounts -> Nat]
      /\ \A m \in 1 .. Mounts : /\ (link[m] = "none") <=> (m > mount)
                                /\ m < mount => stop[m]
                                /\ m > mount => ~stop[m]
      /\ Shown /\ Blank
  <2>1. Mounts \in Nat /\ FeedCap \in Nat
    BY FeedAssumption DEF FeedAssumption
  <2>2. FeedTypeOK /\ events \in Seq(Pushed) /\ Shown /\ Blank
    BY DEF WebInv, FeedOK
  <2>3. /\ mount \in 0 .. Mounts /\ Len(events) <= FeedCap
        /\ stop \in [1 .. Mounts -> BOOLEAN] /\ link \in [1 .. Mounts -> Links]
        /\ late \in [1 .. Mounts -> Nat]
    BY <2>2, Zenon DEF FeedTypeOK, Links
  <2>4. ASSUME NEW m \in 1 .. Mounts
        PROVE  /\ (link[m] = "none") <=> (m > mount)
               /\ m < mount => stop[m]
               /\ m > mount => ~stop[m]
    <3>1. (link[m] = "none") <=> (m > mount)
      BY <2>2 DEF FeedTypeOK
    <3>2. (m < mount => stop[m]) /\ (m > mount => ~stop[m])
      BY <2>2 DEF FeedTypeOK
    <3>3. QED
      BY <3>1, <3>2
  <2>5. QED
    BY <2>1, <2>2, <2>3, <2>4
<1>2. ASSUME mount' \in 0 .. Mounts, events' \in Seq(Pushed), Len(events') <= FeedCap,
             stop' \in [1 .. Mounts -> BOOLEAN], link' \in [1 .. Mounts -> Links],
             late' \in [1 .. Mounts -> Nat],
             \A m \in 1 .. Mounts : /\ (link'[m] = "none") <=> (m > mount')
                                    /\ m < mount' => stop'[m]
                                    /\ m > mount' => ~stop'[m]
      PROVE  FeedOK'
  BY <1>2 DEF FeedOK, FeedTypeOK, Links
<1>3. CASE route # "desk" /\ FeedMount /\ route' = "desk"
  <2>1. PICK n \in 1 .. Mounts : n = mount + 1
    BY <1>1, <1>3 DEF FeedMount
  <2>2. /\ mount' = n /\ link' = [link EXCEPT ![n] = "connecting"] /\ events' = <<>>
        /\ UNCHANGED <<stop, late>>
    BY <1>3, <2>1 DEF FeedMount, connect
  <2>3. \A m \in 1 .. Mounts : m < n => stop[m]
    BY <1>1, <1>3, <2>1 DEF Shown
  <2>4. link' \in [1 .. Mounts -> Links] /\ link'[n] = "connecting"
        /\ \A m \in 1 .. Mounts : m # n => link'[m] = link[m]
    BY <1>1, <2>2 DEF Links
  <2>5. events' \in Seq(Pushed) /\ Len(events') = 0
    BY <2>2
  <2>6. \A m \in 1 .. Mounts : /\ (link'[m] = "none") <=> (m > n)
                               /\ m > n => ~stop[m]
    BY <1>1, <2>1, <2>4
  <2>7. ~stop[n]
    BY <1>1, <2>1
  <2>8. FeedOK'
    BY <1>1, <1>2, <2>2, <2>3, <2>4, <2>5, <2>6
  <2>9. QED
    BY <1>3, <2>1, <2>2, <2>7, <2>8 DEF Shown
<1>4. CASE route = "desk" /\ FeedUnmount /\ route' # "desk"
  <2>1. mount \in 1 .. Mounts /\ link[mount] # "none"
    BY <1>1, <1>4 DEF Shown
  <2>2. /\ mount' = mount /\ late' = late /\ events' = <<>>
        /\ stop' = [stop EXCEPT ![mount] = TRUE]
        /\ link' = [link EXCEPT ![mount] = IF @ = "waiting" THEN @ ELSE "closing"]
    BY <1>4 DEF FeedUnmount
  <2>3. /\ stop' \in [1 .. Mounts -> BOOLEAN] /\ stop'[mount]
        /\ \A m \in 1 .. Mounts : m # mount => stop'[m] = stop[m]
    BY <1>1, <2>1, <2>2
  <2>4. /\ link' \in [1 .. Mounts -> Links] /\ link'[mount] # "none"
        /\ \A m \in 1 .. Mounts : m # mount => link'[m] = link[m]
    BY <1>1, <2>1, <2>2 DEF Links
  <2>5. events' \in Seq(Pushed) /\ Len(events') = 0
    BY <2>2
  <2>6. FeedOK'
    BY <1>1, <1>2, <2>1, <2>2, <2>3, <2>4, <2>5
  <2>7. QED
    BY <1>4, <2>1, <2>2, <2>3, <2>6 DEF Shown
<1>5. CASE route' = route /\ \E m \in 1 .. Mounts : Socket(m) \/ Reconnect(m)
  <2>1. PICK m \in 1 .. Mounts : Socket(m) \/ Reconnect(m)
    BY <1>5
  <2>2. /\ UNCHANGED <<mount, stop, events>> /\ late' \in [1 .. Mounts -> Nat]
        /\ link[m] # "none"
    <3>1. CASE Socket(m)
      BY <1>1, <3>1 DEF Socket, onopen, onclose
    <3>2. CASE Reconnect(m)
      <4>1. late[m] + 1 \in Nat /\ late[m] \in Nat
        BY <1>1
      <4>2. late' = [late EXCEPT ![m] = IF stop[m] THEN late[m] + 1 ELSE late[m]]
        BY <3>2 DEF Reconnect
      <4>3. QED
        BY <1>1, <3>2, <4>1, <4>2 DEF Reconnect
    <3>3. QED
      BY <2>1, <3>1, <3>2
  <2>3. \E l \in Links \ {"none"} : link' = [link EXCEPT ![m] = l]
    BY <2>1 DEF Socket, onopen, onclose, Reconnect, connect, Links
  <2>4. /\ link' \in [1 .. Mounts -> Links] /\ link'[m] # "none"
        /\ \A n \in 1 .. Mounts : n # m => link'[n] = link[n]
    BY <1>1, <2>3
  <2>5. FeedOK'
    BY <1>1, <1>2, <2>2, <2>4
  <2>6. QED
    BY <1>1, <1>5, <2>2, <2>5 DEF Shown, Blank
<1>6. ASSUME route' = route, NEW ev \in Pushed, onmessage(ev)
      PROVE  FeedOK' /\ Shown' /\ (route' # "desk" => events' = <<>>)
  <2>1. events' = Logged(ev) /\ UNCHANGED <<mount, stop, link, late>>
    BY <1>6 DEF onmessage
  <2>2. events' \in Seq(Pushed) /\ Len(events') <= FeedCap
    BY <2>1, LoggedType DEF WebInv
  <2>3. route = "desk"
    BY <1>1, <1>6 DEF onmessage, connected, Shown
  <2>4. QED
    BY <1>1, <1>2, <1>6, <2>1, <2>2, <2>3 DEF Shown
<1>7. CASE UNCHANGED feedVars /\ (route' = route \/ (route # "desk" /\ route' # "desk"))
  BY <1>1, <1>2, <1>7 DEF feedVars, Shown, Blank
<1>8. QED
  BY <1>3, <1>4, <1>5, <1>6, <1>7 DEF FeedStep

LEMMA SummaryNext ==
    ASSUME PageOK, FigureStep
    PROVE  /\ summary' \in {<<>>} \cup {<<p>> : p \in Pnls}
           /\ equity' \in Seq(Points) /\ Len(equity') <= EquityCap
<1>0. EquityCap \in Nat \ {0}
  BY WebAssumption DEF WebAssumption
<1>1. ASSUME NEW pnl \in Pnls, setSummary(pnl)
      PROVE  /\ summary' \in {<<>>} \cup {<<p>> : p \in Pnls}
             /\ equity' \in Seq(Points) /\ Len(equity') <= EquityCap
  <2>1. /\ equity \in Seq(Points) /\ Len(equity) <= EquityCap
        /\ summary' = <<pnl>> /\ (equity' = equity \/ equity' = Plot(pnl))
    BY <1>1 DEF setSummary, PageOK
  <2>2. Len(equity) \in Nat
    BY <2>1, LenProperties
  <2>3. Plot(pnl) \in Seq(Points)
    BY <2>1, PlotPoints, Zenon
  <2>4. Len(Plot(pnl)) = IF Len(equity) < EquityCap THEN Len(equity) + 1 ELSE EquityCap
    BY <2>1, PlotPoints, Zenon
  <2>5. QED
    BY <1>0, <2>1, <2>2, <2>3, <2>4
<1>2. <<>> \in Seq(Points) /\ Len(<<>>) <= EquityCap
  BY <1>0
<1>3. QED
  BY <1>1, <1>2 DEF FigureStep, PageOK

LEMMA RefreshType ==
    ASSUME PageOK, NEW r \in Refreshes, refresh(r)
    PROVE  chains' \in [Refreshes -> {<<>>} \cup Requests]
  BY AfterType DEF PageOK, refresh

LEMMA PageNext ==
    ASSUME WebInv, [Next]_vars
    PROVE  PageOK'
<1>1. /\ PageOK /\ desk \in DeskState /\ trades \in {0, 1}
      /\ market \in {<<>>} \cup {<<m>> : m \in [breaker : Breakers, regime : Regimes]}
      /\ chains \in [Refreshes -> {<<>>} \cup Requests]
  BY DEF WebInv, PageOK
<1>2. /\ summary' \in {<<>>} \cup {<<p>> : p \in Pnls}
      /\ equity' \in Seq(Points) /\ Len(equity') <= EquityCap
  BY <1>1, FigureShape, SummaryNext
<1>3. ASSUME desk' \in DeskState, trades' \in {0, 1},
             market' \in {<<>>} \cup {<<m>> : m \in [breaker : Breakers, regime : Regimes]},
             chains' \in [Refreshes -> {<<>>} \cup Requests]
      PROVE  PageOK'
  BY <1>2, <1>3 DEF PageOK
<1>4. CASE OpenDesk
  <2>1. UNCHANGED <<desk, trades, market>> /\ chains' = [chains EXCEPT ![1] = Ask("summary")]
    BY <1>4 DEF OpenDesk, Click, apiVars
  <2>2. chains' \in [Refreshes -> {<<>>} \cup Requests]
    BY <1>1, <2>1, AfterType
  <2>3. QED
    BY <1>1, <1>3, <2>1, <2>2
<1>5. ASSUME NEW tab \in Tabs, LeaveDesk(tab) \/ OpenTab(tab) PROVE PageOK'
  <2>1. \/ PageUnmount /\ UNCHANGED desk
        \/ UNCHANGED <<desk, trades, market, chains>>
    BY <1>5 DEF LeaveDesk, OpenTab, Click, apiVars, deskPage, pageVars
  <2>2. QED
    BY <1>1, <1>3, <2>1 DEF PageUnmount
<1>6. CASE Pushes
  <2>1. PICK ev \in Pushed : /\ IF connected THEN LiveEvent(ev) ELSE UNCHANGED deskPage
                             /\ desk' \in DeskState
    BY <1>6 DEF Pushes, Push
  <2>2. /\ UNCHANGED <<trades, market>>
        /\ UNCHANGED chains \/ \E r \in Refreshes : refresh(r)
    BY <2>1 DEF LiveEvent, deskPage, pageVars
  <2>3. QED
    BY <1>1, <1>3, <2>1, <2>2, RefreshType
<1>7. CASE PageStep
  <2>1. CASE RefreshDue
    BY <1>1, <1>3, <2>1, RefreshType DEF RefreshDue, apiVars
  <2>2. ASSUME NEW r \in Refreshes, RefreshAnswered(r) PROVE PageOK'
    <3>1. chains[r] \in Requests /\ desk' = desk
      BY <1>1, <2>2 DEF RefreshAnswered, apiVars
    <3>2. /\ chains[r][1] \in {"summary", "market", "trades"}
          /\ chains[r][1] = "market" => chains[r][2] \in Breakers
      BY <3>1, RequestFacts
    <3>3. chains' = [chains EXCEPT ![r] = After(chains[r][1])]
      BY <2>2 DEF RefreshAnswered
    <3>4. chains' \in [Refreshes -> {<<>>} \cup Requests]
      <4>1. After(chains[r][1]) \in {<<>>} \cup Requests
        BY <1>1, <3>2, AfterType
      <4>2. QED
        BY <1>1, <3>3, <4>1
    <3>5. market' \in {<<>>} \cup {<<m>> : m \in [breaker : Breakers, regime : Regimes]}
      <4>1. CASE market' = market
        BY <1>1, <4>1
      <4>2. CASE market' # market
        <5>1. PICK b \in {chains[r][2], desk.breaker}, g \in Regimes :
                 chains[r][1] = "market" /\ market' = <<[breaker |-> b, regime |-> g]>>
          BY <2>2, <4>2 DEF RefreshAnswered
        <5>2. [breaker |-> b, regime |-> g] \in [breaker : Breakers, regime : Regimes]
          BY <1>1, <3>2, <5>1 DEF DeskState
        <5>3. QED
          BY <5>1, <5>2
      <4>3. QED
        BY <4>1, <4>2
    <3>6. trades' \in {0, 1}
      BY <1>1, <2>2 DEF RefreshAnswered
    <3>7. QED
      BY <1>1, <1>3, <3>1, <3>4, <3>5, <3>6
  <2>3. ASSUME NEW r \in Refreshes, RefreshFailed(r) PROVE PageOK'
    BY <1>1, <1>3, <2>3 DEF RefreshFailed, apiVars
  <2>4. QED
    BY <1>7, <2>1, <2>2, <2>3 DEF PageStep
<1>8. CASE LinkStep \/ ConsoleStep \/ TabStep \/ UNCHANGED vars
  <2>1. UNCHANGED <<desk, trades, market, chains>>
    BY <1>8 DEF LinkStep, ConsoleStep, ask, askAnswered, askFailed, TabStep, deskPage, vars,
                pageVars, apiVars
  <2>2. QED
    BY <1>1, <1>3, <2>1
<1>9. QED
  BY <1>4, <1>5, <1>6, <1>7, <1>8, NextShape

(* What the steps do to the console.                                       *)
ConsoleMove == \/ UNCHANGED consoleVars
               \/ asking' = 0 /\ busy' = FALSE /\ log' = <<>>
               \/ /\ asking > 0 /\ asking' = asking - 1 /\ busy' = FALSE
                  /\ log' \in Seq(Lines) /\ Len(log') <= MaxLog + LogCap
               \/ /\ route = "desk" /\ asking < MaxAsks /\ asking' = asking + 1
                  /\ busy' = TRUE /\ UNCHANGED log

LEMMA ConsoleShape ==
    ASSUME WebInv, [Next]_vars
    PROVE  ConsoleMove
<1>1. /\ log \in Seq(Lines) /\ Len(log) <= MaxLog + LogCap
      /\ MaxLog \in Nat /\ LogCap \in Nat
  BY WebAssumption DEF WebAssumption, WebInv, ConsoleOK
<1>2. CASE OpenDesk \/ Pushes \/ LinkStep \/ PageStep \/ TabStep \/ UNCHANGED vars
  <2>1. CASE Pushes
    BY <2>1 DEF Pushes, Push, LiveEvent, deskPage, ConsoleMove
  <2>2. CASE PageStep
    BY <2>2 DEF PageStep, RefreshDue, RefreshAnswered, RefreshFailed, ConsoleMove
  <2>3. QED
    BY <1>2, <2>1, <2>2 DEF OpenDesk, LinkStep, TabStep, deskPage, vars, ConsoleMove
<1>3. ASSUME NEW tab \in Tabs, LeaveDesk(tab) \/ OpenTab(tab) PROVE ConsoleMove
  BY <1>3 DEF LeaveDesk, OpenTab, PageUnmount, deskPage, ConsoleMove
<1>4. CASE ConsoleStep
  <2>1. ASSUME NEW x \in Lines
        PROVE  /\ <<x>> \o log \in Seq(Lines) /\ Len(<<x>> \o log) = Len(log) + 1
               /\ Len(log) \in Nat
    BY <1>1
  <2>2. CASE askAnswered
    <3>1. PICK s : s = <<"answer">> \o log
      OBVIOUS
    <3>2. s \in Seq(Lines) /\ Len(s) = Len(log) + 1 /\ Len(log) \in Nat
      BY <2>1, <3>1 DEF Lines
    <3>3. PICK n \in Nat : /\ n = IF Len(log) < LogCap THEN Len(log) + 1 ELSE LogCap
                           /\ n <= Len(s) /\ n <= LogCap
      BY <1>1, <3>2
    <3>4. log' = SubSeq(s, 1, n)
      BY <2>2, <3>1, <3>3 DEF askAnswered
    <3>5. SubSeq(s, 1, n) \in Seq(Lines) /\ Len(SubSeq(s, 1, n)) = n
      BY <3>2, <3>3
    <3>6. log' \in Seq(Lines) /\ Len(log') <= MaxLog + LogCap
      BY <1>1, <3>3, <3>4, <3>5
    <3>7. QED
      BY <2>2, <3>6 DEF askAnswered, ConsoleMove
  <2>3. CASE askFailed
    <3>1. log' = <<"API unreachable.">> \o log /\ Len(log) < MaxLog
      BY <2>3 DEF askFailed
    <3>2. "API unreachable." \in Lines
      BY DEF Lines
    <3>3. log' \in Seq(Lines) /\ Len(log') = Len(log) + 1 /\ Len(log) \in Nat
      BY <2>1, <3>1, <3>2
    <3>4. Len(log') <= MaxLog + LogCap
      <4>1. PICK k \in Nat : k = Len(log)
        BY <3>3
      <4>2. Len(log') = k + 1 /\ k < MaxLog
        BY <3>1, <3>3, <4>1
      <4>3. k + 1 <= MaxLog + LogCap
        BY <1>1, <4>1, <4>2
      <4>4. QED
        BY <4>2, <4>3
    <3>5. QED
      BY <2>3, <3>3, <3>4 DEF askFailed, ConsoleMove
  <2>4. QED
    BY <1>4, <2>2, <2>3 DEF ConsoleStep, ask, ConsoleMove
<1>5. QED
  BY <1>2, <1>3, <1>4, NextShape

LEMMA ConsoleNext ==
    ASSUME WebInv, [Next]_vars
    PROVE  ConsoleOK'
<1>1. /\ asking \in 0 .. MaxAsks /\ busy \in BOOLEAN
      /\ log \in Seq(Lines) /\ Len(log) <= MaxLog + LogCap
      /\ MaxAsks \in Nat /\ MaxLog \in Nat /\ LogCap \in Nat
  BY WebAssumption DEF WebAssumption, WebInv, ConsoleOK
<1>2. <<>> \in Seq(Lines) /\ Len(<<>>) <= MaxLog + LogCap /\ 0 \in 0 .. MaxAsks
  BY <1>1
<1>3. /\ asking' \in 0 .. MaxAsks /\ busy' \in BOOLEAN
      /\ log' \in Seq(Lines) /\ Len(log') <= MaxLog + LogCap
  <2>1. CASE UNCHANGED consoleVars
    BY <1>1, <2>1 DEF consoleVars
  <2>2. CASE asking' = 0 /\ busy' = FALSE /\ log' = <<>>
    BY <1>2, <2>2, Zenon
  <2>3. CASE /\ asking > 0 /\ asking' = asking - 1 /\ busy' = FALSE
             /\ log' \in Seq(Lines) /\ Len(log') <= MaxLog + LogCap
    <3>1. asking - 1 \in 0 .. MaxAsks
      BY <1>1, <2>3
    <3>2. QED
      BY <2>3, <3>1, Zenon
  <2>4. CASE asking < MaxAsks /\ asking' = asking + 1 /\ busy' = TRUE /\ UNCHANGED log
    BY <1>1, <2>4
  <2>5. QED
    BY <2>1, <2>2, <2>3, <2>4, ConsoleShape DEF ConsoleMove
<1>4. QED
  BY <1>3 DEF ConsoleOK

(* What a page that is not mounted has.                                    *)
LEMMA NoDataShape ==
    /\ NoData = [t \in Tabs |-> NoData[t]]
    /\ NoData.strategies = <<>> /\ NoData.simulate = "none"
<1>1. NoData = [t \in Tabs |-> NoData[t]]
  BY DEF NoData, Tabs
<1>2. NoData.strategies = <<>> /\ NoData.simulate = "none"
  BY DEF NoData
<1>3. QED
  BY <1>1, <1>2

-----------------------------------------------------------------------------
(* What the steps do to the pages besides the desk.                        *)
TabMove == \/ TabsLeft /\ route' = "desk"
           \/ \E tab \in Tabs : TabEntered(tab) /\ route' = tab
           \/ /\ route' = route
              /\ \/ UNCHANGED tabVars
                 \/ LoadDue(route)
                 \/ route \in Tabs /\ (Loaded(route) \/ LoadFailed(route))
                 \/ route = "simulate" /\ runBacktest

LEMMA TabShape ==
    ASSUME WebInv, [Next]_vars
    PROVE  TabMove
<1>1. route \notin Tabs => inflight = 0
  BY DEF WebInv, TabsOK
<1>2. CASE OpenDesk
  BY <1>2 DEF OpenDesk, Click, TabMove
<1>3. ASSUME NEW tab \in Tabs, LeaveDesk(tab) \/ OpenTab(tab) PROVE TabMove
  BY <1>3 DEF LeaveDesk, OpenTab, Click, TabMove
<1>4. CASE TabStep
  <2>1. Loaded(route) \/ LoadFailed(route) => inflight > 0
    BY DEF Loaded, LoadFailed
  <2>2. Loaded(route) \/ LoadFailed(route) => route \in Tabs
    BY <1>1, <2>1
  <2>3. QED
    BY <1>4, <2>2 DEF TabStep, appVars, TabMove
<1>5. CASE Pushes \/ LinkStep \/ PageStep \/ ConsoleStep \/ UNCHANGED vars
  <2>1. UNCHANGED <<route, tabVars>>
    BY <1>5 DEF Pushes, Push, LinkStep, PageStep, ConsoleStep, appVars, vars
  <2>2. QED
    BY <2>1 DEF TabMove
<1>6. QED
  BY <1>2, <1>3, <1>4, <1>5, NextShape

(* A page with some data in place of what it had.                          *)
LEMMA TabData ==
    ASSUME NEW tab \in Tabs, NEW old, old = [t \in Tabs |-> old[t]],
           \A t \in Tabs \ {tab} : old[t] = NoData[t],
           NEW d \in Answer(tab) \cup {NoData[tab]},
           NEW new, new = [old EXCEPT ![tab] = d]
    PROVE  /\ new = [t \in Tabs |-> new[t]] /\ new[tab] = d
           /\ \A t \in Tabs : new[t] \in Answer(t) \cup {NoData[t]}
           /\ \A t \in Tabs \ {tab} : new[t] = NoData[t]
<1>1. /\ new = [t \in Tabs |-> new[t]] /\ new[tab] = d
      /\ \A t \in Tabs \ {tab} : new[t] = old[t]
  OBVIOUS
<1>2. \A t \in Tabs \ {tab} : new[t] = NoData[t]
  BY <1>1
<1>3. \A t \in Tabs : new[t] \in Answer(t) \cup {NoData[t]}
  BY <1>1, <1>2
<1>4. QED
  BY <1>1, <1>2, <1>3

LEMMA TabsNext ==
    ASSUME TabsOK, AnsweredInv, TabMove
    PROVE  TabsOK' /\ AnsweredInv'
<1>1. /\ MaxLoads \in Nat \ {0} /\ loading \in BOOLEAN /\ inflight \in 0 .. MaxLoads
      /\ answered \in BOOLEAN /\ data = [t \in Tabs |-> data[t]]
      /\ route \notin Tabs => inflight = 0 /\ ~answered
  BY WebAssumption DEF WebAssumption, TabsOK, TabsTypeOK
<1>2. /\ \A t \in Tabs : data[t] \in Answer(t) \cup {NoData[t]}
      /\ \A t \in Tabs \ {route} : data[t] = NoData[t]
  BY DEF TabsOK, TabsTypeOK
<1>3. ASSUME loading' \in BOOLEAN, inflight' \in 0 .. MaxLoads, answered' \in BOOLEAN,
             data' = [t \in Tabs |-> data'[t]],
             \A t \in Tabs : data'[t] \in Answer(t) \cup {NoData[t]},
             \A t \in Tabs \ {route'} : data'[t] = NoData[t],
             route' \notin Tabs => inflight' = 0 /\ ~answered'
      PROVE  TabsOK'
  BY <1>3 DEF TabsOK, TabsTypeOK
<1>4. ASSUME loading' \in BOOLEAN, inflight' \in 0 .. 1, ~answered', data' = NoData,
             route' \notin Tabs => inflight' = 0
      PROVE  TabsOK' /\ AnsweredInv'
  <2>1. inflight' \in 0 .. MaxLoads
    BY <1>1, <1>4
  <2>2. answered' = FALSE
    BY <1>4
  <2>3. data' = [t \in Tabs |-> data'[t]]
    BY <1>4, NoDataShape
  <2>4. QED
    BY <1>3, <1>4, <2>1, <2>2, <2>3 DEF AnsweredInv
<1>5. CASE TabsLeft /\ route' = "desk"
  <2>1. loading' \in BOOLEAN /\ inflight' = 0 /\ ~answered' /\ data' = NoData
    BY <1>5 DEF TabsLeft
  <2>2. QED
    BY <1>4, <2>1
<1>6. ASSUME NEW tab \in Tabs, TabEntered(tab), route' = tab
      PROVE  TabsOK' /\ AnsweredInv'
  BY <1>4, <1>6 DEF TabEntered
<1>7. CASE route' = route /\ UNCHANGED tabVars
  BY <1>7 DEF tabVars, TabsOK, TabsTypeOK, AnsweredInv
<1>8. CASE route' = route /\ LoadDue(route)
  BY <1>1, <1>2, <1>3, <1>8 DEF LoadDue, AnsweredInv, Polled, Tabs
<1>9. CASE route' = route /\ route \in Tabs /\ Loaded(route)
  <2>1. inflight' \in 0 .. MaxLoads /\ loading' = FALSE /\ answered' = TRUE
    BY <1>1, <1>9 DEF Loaded
  <2>2. PICK d \in Answer(route) : data' = [data EXCEPT ![route] = d]
    BY <1>9 DEF Loaded
  <2>3. /\ data' = [t \in Tabs |-> data'[t]] /\ data'[route] = d
        /\ \A t \in Tabs : data'[t] \in Answer(t) \cup {NoData[t]}
        /\ \A t \in Tabs \ {route} : data'[t] = NoData[t]
    BY <1>1, <1>2, <1>9, <2>2, TabData
  <2>4. TabsOK'
    BY <1>3, <1>9, <2>1, <2>3
  <2>5. /\ route = "strategies" => d # <<>>
        /\ route = "simulate" => d # "none"
    BY <2>2 DEF Answer
  <2>6. QED
    BY <1>9, <2>3, <2>4, <2>5 DEF AnsweredInv
<1>10. CASE route' = route /\ route \in Tabs /\ LoadFailed(route)
  <2>1. inflight' \in 0 .. MaxLoads /\ loading' = FALSE /\ answered' = answered
    BY <1>1, <1>10 DEF LoadFailed
  <2>2. CASE route = "simulate"
    <3>1. data' = [data EXCEPT !["simulate"] = "error"] /\ "error" \in Answer("simulate")
      BY <1>10, <2>2 DEF LoadFailed, Answer
    <3>2. /\ data' = [t \in Tabs |-> data'[t]] /\ data'["simulate"] = "error"
          /\ \A t \in Tabs : data'[t] \in Answer(t) \cup {NoData[t]}
          /\ \A t \in Tabs \ {"simulate"} : data'[t] = NoData[t]
      BY <1>1, <1>2, <1>10, <2>2, <3>1, TabData
    <3>3. QED
      BY <1>1, <1>3, <1>10, <2>1, <2>2, <3>2 DEF AnsweredInv
  <2>3. CASE route # "simulate"
    <3>1. data' = data
      BY <1>10, <2>3 DEF LoadFailed
    <3>2. QED
      BY <1>1, <1>2, <1>3, <1>10, <2>1, <2>3, <3>1 DEF AnsweredInv
  <2>4. QED
    BY <2>2, <2>3
<1>11. CASE route' = route /\ route = "simulate" /\ runBacktest
  <2>1. loading' = TRUE /\ inflight' = 1 /\ data' = data /\ answered' = answered
    BY <1>11 DEF runBacktest
  <2>2. 1 \in 0 .. MaxLoads /\ "simulate" \in Tabs
    BY <1>1 DEF Tabs
  <2>3. TabsOK'
    BY <1>1, <1>2, <1>3, <1>11, <2>1, <2>2
  <2>4. QED
    BY <1>11, <2>1, <2>3 DEF AnsweredInv
<1>12. QED
  BY <1>5, <1>6, <1>7, <1>8, <1>9, <1>10, <1>11 DEF TabMove

-----------------------------------------------------------------------------
(* The invariant.                                                          *)
LEMMA AppNext ==
    ASSUME WebInv, [Next]_vars
    PROVE  AppOK' /\ Blank'
<1>1. /\ route \in Routes \cup {"none"} /\ scene \in Scenes /\ clicks \in 0 .. scene.clicks
      /\ scene.clicks \in Nat /\ Blank
  BY WebAssumption DEF WebAssumption, WebInv, AppOK
<1>2. ASSUME UNCHANGED appVars PROVE AppOK'
  <2>1. route' = route /\ scene' = scene /\ clicks' = clicks
    BY <1>2 DEF appVars
  <2>2. QED
    BY <1>1, <2>1 DEF AppOK
<1>3. ASSUME NEW to \in Routes, Click(to) PROVE AppOK'
  BY <1>1, <1>3 DEF Click, AppOK
<1>4. route' # "desk" => events' = <<>>
  BY FeedShape, FeedNext
<1>5. CASE OpenDesk
  BY <1>3, <1>5 DEF OpenDesk, Click, Routes, Blank
<1>6. ASSUME NEW tab \in Tabs, LeaveDesk(tab) \/ OpenTab(tab) PROVE AppOK' /\ Blank'
  <2>1. AppOK' /\ route' = tab
    BY <1>3, <1>6 DEF LeaveDesk, OpenTab, Click, Routes
  <2>2. CASE LeaveDesk(tab)
    <3>1. /\ summary' = <<>> /\ log' = <<>> /\ asking' = 0
          /\ chains' = [r \in Refreshes |-> <<>>]
      BY <2>2 DEF LeaveDesk, PageUnmount
    <3>2. QED
      BY <1>4, <2>1, <3>1 DEF Blank
  <2>3. CASE OpenTab(tab)
    <3>1. route # "desk" /\ UNCHANGED <<summary, log, asking, chains>>
      BY <2>3 DEF OpenTab, deskPage, pageVars, consoleVars
    <3>2. QED
      BY <1>1, <1>4, <2>1, <3>1 DEF Blank
  <2>4. QED
    BY <1>6, <2>2, <2>3
<1>7. CASE Pushes
  <2>1. PICK ev \in Pushed : /\ IF connected THEN LiveEvent(ev) ELSE UNCHANGED deskPage
                             /\ UNCHANGED appVars
    BY <1>7 DEF Pushes, Push
  <2>2. connected => route = "desk"
    BY DEF connected, WebInv, Shown
  <2>3. AppOK' /\ route' = route
    BY <1>2, <2>1 DEF appVars
  <2>4. CASE route = "desk"
    BY <2>3, <2>4 DEF Blank
  <2>5. CASE route # "desk"
    BY <1>1, <2>1, <2>2, <2>3, <2>5 DEF deskPage, pageVars, consoleVars, feedVars, Blank
  <2>6. QED
    BY <2>4, <2>5
<1>8. CASE LinkStep \/ PageStep \/ ConsoleStep \/ TabStep \/ UNCHANGED vars
  <2>1. UNCHANGED appVars
    BY <1>8 DEF LinkStep, PageStep, ConsoleStep, TabStep, vars, appVars
  <2>2. CASE route = "desk"
    BY <1>2, <2>1, <2>2 DEF appVars, Blank
  <2>3. CASE route # "desk"
    <3>1. UNCHANGED <<summary, log, asking, chains>>
      <4>1. CASE PageStep
        BY <1>1, <2>3, <4>1 DEF PageStep, RefreshAnswered, RefreshFailed, Blank
      <4>2. CASE ConsoleStep
        BY <1>1, <2>3, <4>2 DEF ConsoleStep, ask, askAnswered, askFailed, Blank
      <4>3. CASE LinkStep \/ TabStep \/ UNCHANGED vars
        BY <4>3 DEF LinkStep, TabStep, vars, deskPage, pageVars, consoleVars
      <4>4. QED
        BY <1>8, <4>1, <4>2, <4>3
    <3>2. QED
      BY <1>1, <1>2, <1>4, <2>1, <2>3, <3>1 DEF appVars, Blank
  <2>4. QED
    BY <2>2, <2>3
<1>9. QED
  BY <1>5, <1>6, <1>7, <1>8, NextShape

LEMMA WebInit ==
    ASSUME Init
    PROVE  WebInv /\ LeakInv /\ CurveInv /\ AnsweredInv
<1>1. /\ Mounts \in Nat /\ FeedCap \in Nat /\ EquityCap \in Nat \ {0} /\ MaxLoads \in Nat
      /\ MaxAsks \in Nat /\ MaxLog \in Nat /\ LogCap \in Nat /\ "0" \in Pnls
  BY FeedAssumption, WebAssumption DEF FeedAssumption, WebAssumption
<1>2. FeedOK
  <2>1. events \in Seq(Pushed) /\ Len(events) = 0
    BY DEF Init, FeedInit
  <2>2. QED
    BY <1>1, <2>1 DEF Init, FeedInit, FeedOK, FeedTypeOK
<1>3. PageOK
  <2>1. equity \in Seq(Points) /\ Len(equity) = 0
    BY DEF Init, PageBlank
  <2>2. desk \in DeskState
    BY <1>1 DEF Init, DeskState, Breakers
  <2>3. QED
    BY <1>1, <2>1, <2>2 DEF Init, PageBlank, PageOK
<1>4. ConsoleOK
  <2>1. log \in Seq(Lines) /\ Len(log) = 0
    BY DEF Init, PageBlank
  <2>2. asking \in 0 .. MaxAsks /\ busy \in BOOLEAN
    <3>1. asking = 0 /\ busy = FALSE
      BY DEF Init, PageBlank
    <3>2. 0 \in 0 .. MaxAsks
      BY <1>1
    <3>3. QED
      BY <3>1, <3>2, Zenon
  <2>3. Len(log) <= MaxLog + LogCap
    BY <1>1, <2>1
  <2>4. QED
    BY <2>1, <2>2, <2>3 DEF ConsoleOK
<1>5. TabsOK
  <2>1. loading = FALSE /\ inflight = 0 /\ data = NoData /\ answered = FALSE
    BY DEF Init, TabsBlank
  <2>2. inflight \in 0 .. MaxLoads
    BY <1>1, <2>1
  <2>3. data = [t \in Tabs |-> data[t]]
    BY <2>1, NoDataShape
  <2>4. QED
    BY <2>1, <2>2, <2>3 DEF TabsOK, TabsTypeOK
<1>6. AppOK
  BY WebAssumption DEF WebAssumption, Init, AppOK
<1>7. Shown /\ Blank
  BY <1>1 DEF Init, FeedInit, PageBlank, Shown, Blank
<1>8. LeakInv /\ AnsweredInv
  BY <1>1 DEF Init, FeedInit, TabsBlank, LeakInv, AnsweredInv
<1>9. CurveInv
  <2>1. Len(equity) = 0
    BY DEF Init, PageBlank
  <2>2. QED
    BY <2>1 DEF CurveInv
<1>10. QED
  BY <1>2, <1>3, <1>4, <1>5, <1>6, <1>7, <1>8, <1>9 DEF WebInv

LEMMA WebNext ==
    ASSUME WebInv, AnsweredInv, [Next]_vars
    PROVE  WebInv' /\ AnsweredInv'
<1>1. FeedOK' /\ Shown'
  BY FeedShape, FeedNext
<1>2. TabsOK' /\ AnsweredInv'
  BY TabShape, TabsNext DEF WebInv
<1>3. QED
  BY <1>1, <1>2, PageNext, ConsoleNext, AppNext DEF WebInv

(* The invariant of the app, of each of its parts.                         *)
LEMMA WebInvariant == Spec => [](WebInv /\ AnsweredInv)
<1>1. Init => WebInv /\ AnsweredInv
  BY WebInit
<1>2. WebInv /\ AnsweredInv /\ [Next]_vars => (WebInv /\ AnsweredInv)'
  BY WebNext
<1>3. QED
  BY <1>1, <1>2, PTL DEF Spec

(* Every variable of the web app has its type: the desk is shown exactly   *)
(* while its feed runs, and a page that was left keeps no figure, event or *)
(* line (page.tsx, ws.ts, NlConsole.tsx, the pages of app/).               *)
THEOREM WebTypes == Spec => []WebTypeOK
<1>1. ASSUME WebInv PROVE WebTypeOK
  <2>1. FeedOK /\ PageOK /\ ConsoleOK /\ TabsOK /\ AppOK /\ Shown /\ Blank
    BY <1>1 DEF WebInv
  <2>2. RegimeBadge(regime) \in {RegimeLabels[r] : r \in DOMAIN RegimeLabels}
    <3>1. "unknown" \in DOMAIN RegimeLabels
      BY DEF RegimeLabels
    <3>2. QED
      BY <3>1, Zenon DEF RegimeBadge
  <2>3. TradeLog \in {"No trades yet", "rows"}
    BY DEF TradeLog
  <2>4. FeedTypeOK /\ events \in Seq(Pushed)
    BY <2>1 DEF FeedOK
  <2>5. /\ desk \in [pnl : Pnls, breaker : Breakers]
        /\ summary \in {<<>>} \cup {<<p>> : p \in Pnls}
        /\ market \in {<<>>} \cup {<<m>> : m \in [breaker : Breakers, regime : Regimes]}
        /\ trades \in {0, 1} /\ equity \in Seq([i : Nat, equity : Pnls])
        /\ chains \in [Refreshes -> {<<>>} \cup Requests]
    BY <2>1, Zenon DEF PageOK, DeskState, Points
  <2>6. /\ asking \in 0 .. MaxAsks /\ busy \in BOOLEAN
        /\ log \in Seq({"answer", "API unreachable."}) /\ Len(log) <= MaxLog + LogCap
    BY <2>1, Zenon DEF ConsoleOK, Lines
  <2>7. DashboardTypeOK
    BY <2>2, <2>3, <2>4, <2>5, <2>6, Zenon DEF DashboardTypeOK
  <2>8. QED
    BY <2>1, <2>7, Zenon DEF TabsOK, AppOK, Shown, Blank, WebTypeOK
<1>2. QED
  BY <1>1, WebInvariant, PTL

(* ws.ts:17, 26: the cleanup of a page does not cancel a reconnect that is *)
(* due.  The handlers look at stop, the timer does not: of a page that was *)
(* left at most one more socket is ever opened, however often the app      *)
(* comes and goes.                                                         *)
THEOREM OneLeak == Spec => []AtMostOneLeak
<1>1. ASSUME Init PROVE LeakInv
  BY <1>1, WebInit
<1>2. ASSUME WebInv, LeakInv, [Next]_vars PROVE LeakInv'
  <2>1. /\ mount \in 0 .. Mounts /\ Mounts \in Nat /\ late \in [1 .. Mounts -> Nat]
        /\ stop \in [1 .. Mounts -> BOOLEAN] /\ link \in [1 .. Mounts -> Links]
    BY <1>2, FeedAssumption DEF FeedAssumption, WebInv, FeedOK, FeedTypeOK, Links
  <2>2. \A m \in 1 .. Mounts : /\ late[m] \in Nat /\ late[m] <= 1
                               /\ ~stop[m] \/ link[m] = "waiting" => late[m] = 0
    BY <1>2, <2>1 DEF LeakInv
  <2>3. FeedStep
    BY <1>2, FeedShape
  <2>4. CASE FeedMount
    BY <2>1, <2>2, <2>4 DEF FeedMount, connect, LeakInv
  <2>5. CASE FeedUnmount
    BY <2>1, <2>2, <2>5 DEF FeedUnmount, LeakInv
  <2>6. ASSUME NEW ev \in Pushed, onmessage(ev) PROVE LeakInv'
    BY <2>2, <2>6 DEF onmessage, LeakInv
  <2>7. ASSUME NEW m \in 1 .. Mounts, Socket(m) PROVE LeakInv'
    BY <2>1, <2>2, <2>7 DEF Socket, onopen, onclose, LeakInv
  <2>8. ASSUME NEW m \in 1 .. Mounts, Reconnect(m) PROVE LeakInv'
    BY <2>1, <2>2, <2>8 DEF Reconnect, connect, LeakInv
  <2>9. CASE UNCHANGED feedVars
    BY <2>2, <2>9 DEF feedVars, LeakInv
  <2>10. QED
    BY <2>3, <2>4, <2>5, <2>6, <2>7, <2>8, <2>9 DEF FeedStep
<1>3. LeakInv => AtMostOneLeak
  BY DEF LeakInv, AtMostOneLeak
<1>4. QED
  BY <1>1, <1>2, <1>3, WebInvariant, PTL DEF Spec

(* NlConsole.tsx:9-18: the button is disabled when a question is sent and  *)
(* enabled by the end of any: it is never disabled with none under way,    *)
(* also after the page was left and opened again.                          *)
THEOREM ButtonReleased == Spec => []BusyMeansAsking
<1>1. ASSUME Init PROVE BusyMeansAsking
  BY <1>1 DEF Init, PageBlank, BusyMeansAsking
<1>2. ASSUME WebInv, BusyMeansAsking, [Next]_vars PROVE BusyMeansAsking'
  <2>1. asking \in Nat
    BY <1>2, WebAssumption DEF WebAssumption, WebInv, ConsoleOK
  <2>2. ConsoleMove
    BY <1>2, ConsoleShape
  <2>3. CASE UNCHANGED consoleVars
    BY <1>2, <2>3 DEF consoleVars, BusyMeansAsking
  <2>4. CASE busy' = FALSE
    BY <2>4 DEF BusyMeansAsking
  <2>5. CASE asking' = asking + 1
    <3>1. asking' > 0
      BY <2>1, <2>5
    <3>2. QED
      BY <3>1 DEF BusyMeansAsking
  <2>6. QED
    BY <2>2, <2>3, <2>4, <2>5 DEF ConsoleMove
<1>3. QED
  BY <1>1, <1>2, WebInvariant, PTL DEF Spec

(* strategies/page.tsx:12-14, 26-28: an error of a poll leaves what the    *)
(* page has, and so a page that was answered once never says that the API  *)
(* is not there, nor the backtest that it was never run.                   *)
THEOREM ToldOnce == Spec => []UnreachableTold
<1>1. ASSUME WebInv, AnsweredInv PROVE UnreachableTold
  <2>1. SUFFICES ASSUME answered PROVE View(route) \notin {"API unreachable", "Click Run"}
    BY DEF UnreachableTold
  <2>2. route \in Tabs /\ \A t \in Tabs : data[t] \in Answer(t) \cup {NoData[t]}
    BY <1>1, <2>1 DEF WebInv, TabsOK, TabsTypeOK
  <2>3. CASE route = "trades"
    BY <2>3 DEF View, TradesView
  <2>4. CASE route = "strategies"
    BY <1>1, <2>1, <2>4 DEF AnsweredInv, View, StrategiesView
  <2>5. CASE route = "agents"
    BY <2>5 DEF View, AgentsView
  <2>6. CASE route = "simulate"
    <3>1. data.simulate \in Answer("simulate") \cup {NoData.simulate}
      BY <2>2 DEF Tabs
    <3>2. data.simulate \in {"error", "zero", "curve"}
      BY <1>1, <2>1, <2>6, <3>1, NoDataShape DEF AnsweredInv, Answer
    <3>3. View(route) = data.simulate
      BY <2>6, <3>2 DEF View, SimulateView
    <3>4. QED
      BY <3>2, <3>3
  <2>7. QED
    BY <2>2, <2>3, <2>4, <2>5, <2>6 DEF Tabs
<1>2. QED
  BY <1>1, WebInvariant, PTL

(* page.tsx:41-43: however the pushes and the answers of overlapping       *)
(* refreshes come in, the curve ends at the figure shown, has a point for  *)
(* each change of it, and its indices rise by one until the curve is full. *)
THEOREM CurveDrawn == Spec => []EquityCurve
<1>1. ASSUME Init PROVE EquityCurve /\ CurveInv
  <2>1. equity = <<>> /\ summary = <<>> /\ Len(equity) = 0 /\ EquityCap \in Nat
    BY <1>1, WebAssumption DEF WebAssumption, Init, PageBlank
  <2>2. QED
    BY <2>1 DEF EquityCurve, CurveInv
<1>2. ASSUME WebInv, EquityCurve, CurveInv, [Next]_vars PROVE EquityCurve' /\ CurveInv'
  <2>1. CASE UNCHANGED <<summary, equity>>
    BY <1>2, <2>1 DEF EquityCurve, CurveInv
  <2>2. CASE summary' = <<>> /\ equity' = <<>>
    <3>1. Len(equity') = 0 /\ EquityCap \in Nat
      BY <2>2, WebAssumption DEF WebAssumption
    <3>2. QED
      BY <2>2, <3>1 DEF EquityCurve, CurveInv
  <2>3. ASSUME NEW pnl \in Pnls, setSummary(pnl) PROVE EquityCurve' /\ CurveInv'
    <3>1. CASE summary = <<pnl>>
      <4>1. UNCHANGED <<summary, equity>>
        BY <2>3, <3>1 DEF setSummary
      <4>2. QED
        BY <2>1, <4>1
    <3>2. CASE summary # <<pnl>>
      <4>1. summary' = <<pnl>> /\ equity' = Plot(pnl)
        BY <2>3, <3>2 DEF setSummary
      <4>2. /\ equity \in Seq(Points) /\ EquityCap \in Nat \ {0}
            /\ summary \in {<<>>} \cup {<<p>> : p \in Pnls}
        BY <1>2, WebAssumption DEF WebAssumption, WebInv, PageOK
      <4>3. PICK k \in Nat : k = Len(equity) /\ k <= EquityCap
        BY <4>2, LenProperties, <1>2 DEF EquityCurve
      <4>4. PICK f \in Nat : f = (IF k < EquityCap THEN k + 1 ELSE EquityCap) /\ f > 0
        BY <4>2, <4>3
      <4>5. /\ equity' \in Seq(Points) /\ Len(equity') = f
            /\ equity'[f] = [i |-> k, equity |-> pnl]
            /\ \A n \in 1 .. f - 1 : equity'[n] = equity[IF k < EquityCap THEN n ELSE n + 1]
        <5>1. Len(equity) <= EquityCap
          BY <4>3
        <5>2. /\ equity' \in Seq(Points)
              /\ Len(equity') = IF k < EquityCap THEN k + 1 ELSE EquityCap
              /\ equity'[Len(equity')] = [i |-> k, equity |-> pnl]
              /\ \A n \in 1 .. Len(equity') - 1 :
                    equity'[n] = equity[IF k < EquityCap THEN n ELSE n + 1]
          BY <4>1, <4>2, <4>3, <5>1, PlotPoints, Zenon
        <5>3. Len(equity') = f
          BY <4>4, <5>2
        <5>4. QED
          BY <5>2, <5>3, Zenon
      <4>6. k > 0 => equity[k].equity # pnl
        <5>1. k > 0 => equity # <<>>
          BY <4>3
        <5>2. k > 0 => equity[k].equity = summary[1] /\ summary # <<>>
          BY <1>2, <4>3, <5>1 DEF EquityCurve
        <5>3. summary # <<>> => summary[1] # pnl
          BY <3>2, <4>2
        <5>4. QED
          BY <5>2, <5>3
      <4>7. \A n \in 1 .. k - 1 :
               /\ equity[n].equity # equity[n + 1].equity
               /\ equity[n + 1].i = equity[n].i + 1 \/ equity[n + 1].i = EquityCap
        BY <1>2, <4>3 DEF EquityCurve
      <4>8. k \in 1 .. EquityCap - 1 => equity[k].i = k - 1
        BY <1>2, <4>3 DEF CurveInv
      <4>9. ASSUME NEW n \in 1 .. f - 1
            PROVE  /\ equity'[n].equity # equity'[n + 1].equity
                   /\ equity'[n + 1].i = equity'[n].i + 1 \/ equity'[n + 1].i = EquityCap
        <5> DEFINE at(m) == IF k < EquityCap THEN m ELSE m + 1
        <5>1. equity'[n] = equity[at(n)] /\ at(n) \in 1 .. k
          BY <4>2, <4>3, <4>4, <4>5
        <5>2. CASE n < f - 1
          <6>1. equity'[n + 1] = equity[at(n) + 1] /\ at(n) \in 1 .. k - 1
            BY <4>2, <4>3, <4>4, <4>5, <5>2
          <6>2. QED
            BY <4>7, <5>1, <6>1
        <5>3. CASE n = f - 1
          <6>1. equity'[n + 1].i = k /\ equity'[n + 1].equity = pnl /\ at(n) = k /\ k > 0
            BY <4>2, <4>3, <4>4, <4>5, <5>3
          <6>2. k = EquityCap \/ equity[k].i + 1 = k
            BY <4>2, <4>3, <4>8, <6>1
          <6>3. QED
            BY <4>6, <5>1, <6>1, <6>2
        <5>4. QED
          BY <4>4, <5>2, <5>3
      <4>10. EquityCurve'
        <5>1. equity' # <<>> /\ Len(equity') <= EquityCap
          BY <4>2, <4>3, <4>4, <4>5
        <5>2. equity'[Len(equity')].equity = summary'[1] /\ summary' # <<>>
          BY <4>1, <4>5
        <5>3. QED
          BY <4>5, <4>9, <5>1, <5>2 DEF EquityCurve
      <4>11. CurveInv'
        BY <4>2, <4>3, <4>4, <4>5 DEF CurveInv
      <4>12. QED
        BY <4>10, <4>11
    <3>3. QED
      BY <3>1, <3>2
  <2>4. QED
    BY <1>2, <2>1, <2>2, <2>3, FigureShape DEF FigureStep
<1>3. QED
  BY <1>1, <1>2, WebInvariant, PTL DEF Spec
=============================================================================
