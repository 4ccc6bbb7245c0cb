--------------------------- MODULE TimelineProofs ---------------------------
(***************************************************************************)
(* Proof about the decision graph of the agents page, for timelines of any *)
(* length: what the folds over events, rows and trades of Pages compute,   *)
(* prefix by prefix, and that the page draws one node for each event that  *)
(* names a trade and one edge for each pair of neighbours.                 *)
(***************************************************************************)
EXTENDS WebProofs

-----------------------------------------------------------------------------
(* Folds.  FoldLeft takes the greatest index off a set of indices; what it *)
(* gives on 1 .. k is the state after the first k elements.                *)
LEMMA Upwards ==
    ASSUME NEW N \in Nat, NEW S, 0 \in S, \A k \in 1 .. N : k - 1 \in S => k \in S
    PROVE  \A k \in 0 .. N : k \in S
<1> DEFINE missed == {k \in 0 .. N : k \notin S}
<1>1. CASE missed # {}
  <2>1. Min(missed) \in missed /\ \A m \in missed : Min(missed) <= m
    BY <1>1, Least
  <2>2. PICK k : k = Min(missed)
    OBVIOUS
  <2>3. k \in 1 .. N /\ k \notin S
    BY <2>1, <2>2
  <2>4. k - 1 \in S
    <3>1. k - 1 \in 0 .. N /\ ~(k <= k - 1)
      BY <2>3
    <3>2. QED
      BY <2>1, <2>2, <3>1
  <2>5. QED
    BY <2>3, <2>4
<1>2. QED
  BY <1>1

LEMMA Greatest ==
    ASSUME NEW n \in Nat, NEW s \in SUBSET (1 .. n), s # {}
    PROVE  Max(s) \in s /\ \A m \in s : m <= Max(s)
<1> DEFINE U == {m \in 0 .. n : \A x \in s : x <= m}
<1>1. n \in U
  OBVIOUS
<1>2. PICK u : u = Min(U) /\ u \in U /\ \A m \in U : u <= m
  BY <1>1, Least
<1>3. u \in s
  <2>1. SUFFICES ASSUME u \notin s PROVE FALSE
    OBVIOUS
  <2>2. \A x \in s : x \in Nat /\ x >= 1 /\ x <= u /\ x # u
    BY <1>2, <2>1
  <2>3. u - 1 \in 0 .. n
    <3>1. PICK x \in s : x \in Nat /\ x >= 1 /\ x <= u
      BY <2>2
    <3>2. u \in Nat /\ u <= n /\ u >= 1
      BY <1>2, <3>1
    <3>3. QED
      BY <3>2
  <2>4. u - 1 \in U
    BY <1>2, <2>2, <2>3
  <2>5. QED
    BY <1>2, <2>3, <2>4
<1>4. \A m \in s : u >= m
  BY <1>2
<1>5. \A x \in s : x \in Nat
  OBVIOUS
<1>6. Max(s) \in s /\ \A m \in s : Max(s) >= m
  BY <1>3, <1>4 DEF Max
<1>7. QED
  BY <1>5, <1>6

LEMMA Intervals ==
    ASSUME NEW k \in Nat \ {0}
    PROVE  1 .. k # {} /\ Max(1 .. k) = k /\ (1 .. k) \ {k} = 1 .. (k - 1)
<1>2. k \in 1 .. k /\ 1 .. k \in SUBSET (1 .. k)
  OBVIOUS
<1>1. Max(1 .. k) \in 1 .. k /\ \A m \in 1 .. k : m <= Max(1 .. k)
  BY <1>2, Greatest
<1>3. Max(1 .. k) = k
  BY <1>1, <1>2
<1>4. (1 .. k) \ {k} = 1 .. (k - 1)
  OBVIOUS
<1>5. QED
  BY <1>2, <1>3, <1>4

(* The function by which a fold is defined exists.                         *)
FoldOf(f, n, b, F) == \A s \in SUBSET (1 .. n) :
                         f[s] = IF s = {} THEN b ELSE F[Max(s)][f[s \ {Max(s)}]]

LEMMA FoldExists ==
    ASSUME NEW N \in Nat, NEW Acc, NEW b \in Acc, NEW F \in [1 .. N -> [Acc -> Acc]]
    PROVE  \E f \in [SUBSET (1 .. N) -> Acc] : FoldOf(f, N, b, F)
<1> DEFINE Good(n, f) == \A s \in SUBSET (1 .. n) :
                            f[s] = IF s = {} THEN b ELSE F[Max(s)][f[s \ {Max(s)}]]
           S == {n \in 0 .. N : \E f \in [SUBSET (1 .. n) -> Acc] : Good(n, f)}
<1>1. 0 \in S
  <2>1. 1 .. 0 = {}
    OBVIOUS
  <2> DEFINE g == [s \in SUBSET (1 .. 0) |-> b]
  <2>2. g \in [SUBSET (1 .. 0) -> Acc]
    OBVIOUS
  <2>3. Good(0, g)
    BY <2>1
  <2> HIDE DEF g, Good
  <2>4. \E f \in [SUBSET (1 .. 0) -> Acc] : Good(0, f)
    BY <2>2, <2>3, Zenon
  <2>5. 0 \in 0 .. N
    OBVIOUS
  <2>6. QED
    BY <2>4, <2>5, Zenon
<1>2. ASSUME NEW n \in 1 .. N, n - 1 \in S PROVE n \in S
  <2>1. PICK f \in [SUBSET (1 .. (n - 1)) -> Acc] : Good(n - 1, f)
    <3> HIDE DEF Good
    <3>1. QED
      BY <1>2
  <2> DEFINE g == [s \in SUBSET (1 .. n) |-> IF n \in s THEN F[n][f[s \ {n}]] ELSE f[s]]
  <2>2. \A s \in SUBSET (1 .. n) : n \notin s => s \in SUBSET (1 .. (n - 1))
    OBVIOUS
  <2>3. \A s \in SUBSET (1 .. n) : s \ {n} \in SUBSET (1 .. (n - 1))
    OBVIOUS
  <2>4. g \in [SUBSET (1 .. n) -> Acc]
    <3>1. ASSUME NEW s \in SUBSET (1 .. n)
          PROVE  (IF n \in s THEN F[n][f[s \ {n}]] ELSE f[s]) \in Acc
      <4>1. CASE n \in s
        <5>1. f[s \ {n}] \in Acc /\ F[n] \in [Acc -> Acc]
          BY <2>1, <2>3
        <5>2. QED
          BY <4>1, <5>1
      <4>2. CASE n \notin s
        BY <2>1, <2>2, <4>2
      <4>3. QED
        BY <4>1, <4>2
    <3>2. QED
      BY <3>1
  <2>5. ASSUME NEW s \in SUBSET (1 .. n)
        PROVE  g[s] = IF s = {} THEN b ELSE F[Max(s)][g[s \ {Max(s)}]]
    <3>1. CASE n \in s
      <4>1. Max(s) = n
        <5>1. n \in Nat /\ s # {}
          BY <3>1
        <5>2. Max(s) \in s /\ \A m \in s : m <= Max(s)
          BY <5>1, Greatest
        <5>3. PICK m : m = Max(s)
          OBVIOUS
        <5>4. m \in 1 .. n /\ n <= m
          BY <3>1, <5>2, <5>3
        <5>5. QED
          BY <5>3, <5>4
      <4>2. g[s \ {n}] = f[s \ {n}]
        BY <2>3
      <4>3. QED
        BY <3>1, <4>1, <4>2
    <3>2. CASE n \notin s
      <4>1. s \in SUBSET (1 .. (n - 1)) /\ g[s] = f[s]
        BY <2>2, <3>2
      <4>2. CASE s = {}
        BY <2>1, <4>1, <4>2
      <4>3. CASE s # {}
        <5>1. s \ {Max(s)} \in SUBSET (1 .. n) /\ n \notin s \ {Max(s)}
          BY <3>2
        <5>2. g[s \ {Max(s)}] = f[s \ {Max(s)}]
          BY <5>1
        <5>3. QED
          BY <2>1, <4>1, <4>3, <5>2
      <4>4. QED
        BY <4>2, <4>3
    <3>3. QED
      BY <3>1, <3>2
  <2> HIDE DEF g
  <2>6. Good(n, g)
    BY <2>5
  <2> HIDE DEF Good
  <2>7. QED
    BY <2>4, <2>6
<1>3. \A k \in 0 .. N : k \in S
  <2> HIDE DEF S
  <2>1. QED
    BY <1>1, <1>2, Upwards
<1>4. PICK f \in [SUBSET (1 .. N) -> Acc] : Good(N, f)
  <2> HIDE DEF Good
  <2>1. N \in 0 .. N /\ N \in S
    <3> HIDE DEF S
    <3>1. N \in 0 .. N
      OBVIOUS
    <3>2. QED
      BY <1>3, <3>1
  <2>2. QED
    BY <2>1
<1>5. QED
  BY <1>4 DEF FoldOf

-----------------------------------------------------------------------------
(* The events of a trade, in their order.                                  *)
Event == [type : STRING, trade_id : STRING, id : STRING, tradeId : STRING]

RowWith(row, ev, t) == IF tid(ev) = t THEN Append(row, ev) ELSE row

LEMMA ByTradeFold ==
    ASSUME NEW tl \in Seq(Event), NEW t
    PROVE  \E h : /\ h[0] = <<>>
                  /\ \A k \in 1 .. Len(tl) : h[k] = RowWith(h[k - 1], tl[k], t)
                  /\ byTrade(tl, t) = h[Len(tl)]
<1> DEFINE N == Len(tl)
           rows[s \in SUBSET DOMAIN tl] ==
              IF s = {} THEN <<>>
              ELSE IF tid(tl[Max(s)]) = t THEN Append(rows[s \ {Max(s)}], tl[Max(s)])
                   ELSE rows[s \ {Max(s)}]
           F == [i \in 1 .. N |-> [row \in Seq(Event) |-> RowWith(row, tl[i], t)]]
           h == [k \in 0 .. N |-> rows[1 .. k]]
<1>1. N \in Nat /\ DOMAIN tl = 1 .. N /\ \A i \in 1 .. N : tl[i] \in Event
  OBVIOUS
<1>2. byTrade(tl, t) = rows[DOMAIN tl]
  BY DEF byTrade, FoldLeft, MapThenFoldSet
<1>3. F \in [1 .. N -> [Seq(Event) -> Seq(Event)]]
  <2>1. ASSUME NEW i \in 1 .. N, NEW row \in Seq(Event) PROVE RowWith(row, tl[i], t) \in Seq(Event)
    BY <1>1 DEF RowWith
  <2>2. QED
    BY <2>1
<1>4. PICK f \in [SUBSET (1 .. N) -> Seq(Event)] : FoldOf(f, N, <<>>, F)
  <2>1. <<>> \in Seq(Event)
    OBVIOUS
  <2> HIDE DEF F, N
  <2>2. QED
    BY <1>1, <1>3, <2>1, FoldExists, Zenon
<1>5. f = [s \in SUBSET DOMAIN tl |->
             IF s = {} THEN <<>>
             ELSE IF tid(tl[Max(s)]) = t THEN Append(f[s \ {Max(s)}], tl[Max(s)])
                  ELSE f[s \ {Max(s)}]]
  <2>1. ASSUME NEW s \in SUBSET (1 .. N), s # {}
        PROVE  f[s] = IF tid(tl[Max(s)]) = t THEN Append(f[s \ {Max(s)}], tl[Max(s)])
                      ELSE f[s \ {Max(s)}]
    <3>1. Max(s) \in 1 .. N
      BY <1>1, <2>1, Greatest
    <3>2. s \ {Max(s)} \in SUBSET (1 .. N)
      OBVIOUS
    <3>3. f[s \ {Max(s)}] \in Seq(Event)
      BY <3>2
    <3>4. f[s] = F[Max(s)][f[s \ {Max(s)}]]
      BY <1>4, <2>1 DEF FoldOf
    <3>5. QED
      BY <3>1, <3>3, <3>4 DEF RowWith
  <2>2. f[{}] = <<>>
    BY <1>4 DEF FoldOf
  <2>3. QED
    BY <1>1, <2>1, <2>2
<1>6. rows = [s \in SUBSET DOMAIN tl |->
                IF s = {} THEN <<>>
                ELSE IF tid(tl[Max(s)]) = t THEN Append(rows[s \ {Max(s)}], tl[Max(s)])
                     ELSE rows[s \ {Max(s)}]]
  BY <1>5
<1> HIDE DEF rows
<1>7. h[0] = <<>>
  <2>1. 1 .. 0 = {} /\ {} \in SUBSET DOMAIN tl
    OBVIOUS
  <2>2. rows[{}] = <<>>
    BY <1>6, <2>1
  <2>3. h[0] = rows[1 .. 0]
    BY <1>1
  <2>4. QED
    BY <2>1, <2>2, <2>3
<1>8. ASSUME NEW k \in 1 .. N PROVE h[k] = RowWith(h[k - 1], tl[k], t)
  <2>1. 1 .. k # {} /\ Max(1 .. k) = k /\ (1 .. k) \ {k} = 1 .. (k - 1)
    BY <1>1, Intervals
  <2>2. 1 .. k \in SUBSET DOMAIN tl
    BY <1>1
  <2>3. rows[1 .. k] = RowWith(rows[1 .. (k - 1)], tl[k], t)
    BY <1>6, <2>1, <2>2 DEF RowWith
  <2>4. h[k] = rows[1 .. k] /\ h[k - 1] = rows[1 .. (k - 1)]
    BY <1>1
  <2>5. QED
    BY <2>3, <2>4
<1>9. byTrade(tl, t) = h[N]
  BY <1>1, <1>2
<1> HIDE DEF h
<1>10. QED
  BY <1>7, <1>8, <1>9

(* Of(tl, t, n) are the first events of a trade, so Seen is the place of   *)
(* event n in the row of its trade.                                        *)
Of(tl, t, k) == {n \in 1 .. k : tid(tl[n]) = t}
Seen(tl, t, k) == Cardinality(Of(tl, t, k))

IsRow(row, tl, t, k) ==
    /\ row \in Seq(Event) /\ Len(row) = Seen(tl, t, k)
    /\ \A n \in Of(tl, t, k) : /\ Seen(tl, t, n) \in 1 .. Len(row)
                               /\ row[Seen(tl, t, n)] = tl[n]
    /\ \A j \in 1 .. Len(row) : \E n \in Of(tl, t, k) : Seen(tl, t, n) = j

LEMMA SeenCounts ==
    ASSUME NEW tl, NEW t
    PROVE  /\ Of(tl, t, 0) = {} /\ Seen(tl, t, 0) = 0
           /\ \A k \in Nat : IsFiniteSet(Of(tl, t, k)) /\ Seen(tl, t, k) \in Nat
<1>1. Of(tl, t, 0) = {}
  BY DEF Of
<1>2. ASSUME NEW k \in Nat PROVE IsFiniteSet(Of(tl, t, k)) /\ Seen(tl, t, k) \in Nat
  <2>1. 1 \in Int /\ k \in Int
    OBVIOUS
  <2>2. IsFiniteSet(1 .. k)
    BY <2>1, FS_Interval, Zenon
  <2>3. Of(tl, t, k) \in SUBSET (1 .. k)
    BY DEF Of
  <2>4. QED
    BY <2>2, <2>3, FS_Subset, FS_CardinalityType DEF Seen
<1>3. Seen(tl, t, 0) = 0
  BY <1>1, FS_EmptySet DEF Seen
<1>4. QED
  BY <1>1, <1>2, <1>3

LEMMA SeenNext ==
    ASSUME NEW tl, NEW t, NEW k \in Nat \ {0}
    PROVE  /\ tid(tl[k]) = t => /\ Of(tl, t, k) = Of(tl, t, k - 1) \cup {k}
                               /\ Seen(tl, t, k) = Seen(tl, t, k - 1) + 1
           /\ tid(tl[k]) # t => /\ Of(tl, t, k) = Of(tl, t, k - 1)
                               /\ Seen(tl, t, k) = Seen(tl, t, k - 1)
<1>1. /\ tid(tl[k]) = t => Of(tl, t, k) = Of(tl, t, k - 1) \cup {k}
      /\ tid(tl[k]) # t => Of(tl, t, k) = Of(tl, t, k - 1)
      /\ k \notin Of(tl, t, k - 1)
  <2>1. 1 .. k = (1 .. (k - 1)) \cup {k} /\ k \notin 1 .. (k - 1)
    OBVIOUS
  <2>2. QED
    BY <2>1 DEF Of
<1>2. k - 1 \in Nat
  OBVIOUS
<1>3. IsFiniteSet(Of(tl, t, k - 1))
  BY <1>2, SeenCounts
<1>4. Cardinality(Of(tl, t, k - 1) \cup {k}) = Cardinality(Of(tl, t, k - 1)) + 1
  BY <1>1, <1>3, FS_AddElement
<1>5. QED
  BY <1>1, <1>4 DEF Seen

LEMMA RowGrows ==
    ASSUME NEW tl \in Seq(Event), NEW t, NEW k \in 1 .. Len(tl),
           NEW row, IsRow(row, tl, t, k - 1)
    PROVE  IsRow(RowWith(row, tl[k], t), tl, t, k)
<1>1. k \in Nat \ {0} /\ k - 1 \in Nat /\ tl[k] \in Event
  OBVIOUS
<1>2. CASE tid(tl[k]) # t
  <2>1. RowWith(row, tl[k], t) = row
    BY <1>2 DEF RowWith
  <2>2. Of(tl, t, k) = Of(tl, t, k - 1) /\ Seen(tl, t, k) = Seen(tl, t, k - 1)
    BY <1>1, <1>2, SeenNext
  <2>3. QED
    BY <2>1, <2>2 DEF IsRow
<1>3. CASE tid(tl[k]) = t
  <2>1. PICK new : new = RowWith(row, tl[k], t)
    OBVIOUS
  <2>2. PICK s \in Nat : s = Seen(tl, t, k - 1)
    BY <1>1, SeenCounts
  <2>3. /\ row \in Seq(Event) /\ Len(row) = s
        /\ \A n \in Of(tl, t, k - 1) : /\ Seen(tl, t, n) \in 1 .. s
                                       /\ row[Seen(tl, t, n)] = tl[n]
        /\ \A j \in 1 .. s : \E n \in Of(tl, t, k - 1) : Seen(tl, t, n) = j
    BY <2>2 DEF IsRow
  <2>4. /\ new \in Seq(Event) /\ Len(new) = s + 1 /\ new[s + 1] = tl[k]
        /\ \A j \in 1 .. s : new[j] = row[j]
    BY <1>1, <1>3, <2>1, <2>3 DEF RowWith
  <2>5. Of(tl, t, k) = Of(tl, t, k - 1) \cup {k} /\ Seen(tl, t, k) = s + 1
    BY <1>1, <1>3, <2>2, SeenNext
  <2>6. ASSUME NEW n \in Of(tl, t, k)
        PROVE  Seen(tl, t, n) \in 1 .. s + 1 /\ new[Seen(tl, t, n)] = tl[n]
    <3>1. CASE n = k
      BY <2>4, <2>5, <3>1
    <3>2. CASE n \in Of(tl, t, k - 1)
      BY <2>3, <2>4, <3>2
    <3>3. QED
      BY <2>5, <3>1, <3>2
  <2>7. ASSUME NEW j \in 1 .. s + 1 PROVE \E n \in Of(tl, t, k) : Seen(tl, t, n) = j
    <3>1. CASE j = s + 1
      BY <2>5, <3>1
    <3>2. CASE j # s + 1
      <4>1. j \in 1 .. s
        BY <3>2
      <4>2. QED
        BY <2>3, <2>5, <4>1
    <3>3. QED
      BY <3>1, <3>2
  <2>8. IsRow(new, tl, t, k)
    BY <2>4, <2>5, <2>6, <2>7 DEF IsRow
  <2>9. QED
    BY <2>1, <2>8
<1>4. QED
  BY <1>2, <1>3

(* byTrade has the events of a trade in the order of the timeline.         *)
LEMMA RowOfTrade ==
    ASSUME NEW tl \in Seq(Event), NEW t
    PROVE  IsRow(byTrade(tl, t), tl, t, Len(tl))
<1>1. PICK h : /\ h[0] = <<>>
               /\ \A k \in 1 .. Len(tl) : h[k] = RowWith(h[k - 1], tl[k], t)
               /\ byTrade(tl, t) = h[Len(tl)]
  BY ByTradeFold
<1>2. PICK N \in Nat : N = Len(tl)
  OBVIOUS
<1> DEFINE S == {k \in 0 .. N : IsRow(h[k], tl, t, k)}
<1>3. 0 \in S
  <2>1. Of(tl, t, 0) = {} /\ Seen(tl, t, 0) = 0
    BY SeenCounts
  <2>2. <<>> \in Seq(Event) /\ Len(<<>>) = 0
    OBVIOUS
  <2>3. IsRow(<<>>, tl, t, 0)
    BY <2>1, <2>2 DEF IsRow
  <2>4. QED
    BY <1>1, <2>3
<1>4. ASSUME NEW k \in 1 .. N, k - 1 \in S PROVE k \in S
  <2>1. IsRow(RowWith(h[k - 1], tl[k], t), tl, t, k)
    BY <1>2, <1>4, RowGrows
  <2>2. QED
    BY <1>1, <1>2, <2>1
<1> HIDE DEF S
<1>5. \A k \in 0 .. N : k \in S
  BY <1>3, <1>4, Upwards
<1>6. N \in 0 .. N
  OBVIOUS
<1>7. QED
  BY <1>1, <1>2, <1>5, <1>6 DEF S

-----------------------------------------------------------------------------
(* The row of a trade in the graph.                                        *)
Ids == STRING \X Nat
Colors == {"signal", "info", "pos", "neg", "#86efac", "line"}
Nodes == [id : Ids, color : Colors]
Edges == [source : Ids, target : Ids]
Graphs == [nodes : Seq(Nodes), edges : Seq(Edges), prev : {<<>>} \cup Ids]

Linked(h, t, row, j) ==
    [nodes |-> Append(h.nodes, [id |-> <<t, j>>, color |-> colorFor(row[j].type)]),
     edges |-> IF h.prev = <<>> THEN h.edges
               ELSE Append(h.edges, [source |-> h.prev, target |-> <<t, j>>]),
     prev |-> <<t, j>>]

LEMMA ColorType == ASSUME NEW type PROVE colorFor(type) \in Colors
  BY DEF colorFor, Colors

LEMMA LinkedType ==
    ASSUME NEW g \in Graphs, NEW t \in STRING, NEW row, NEW j \in Nat
    PROVE  Linked(g, t, row, j) \in Graphs
<1>1. <<t, j>> \in Ids
  BY DEF Ids
<1>2. colorFor(row[j].type) \in Colors
  BY ColorType
<1>3. [id |-> <<t, j>>, color |-> colorFor(row[j].type)] \in Nodes
  BY <1>1, <1>2 DEF Nodes
<1>4. Append(g.nodes, [id |-> <<t, j>>, color |-> colorFor(row[j].type)]) \in Seq(Nodes)
  BY <1>3 DEF Graphs
<1>5. g.prev # <<>> => Append(g.edges, [source |-> g.prev, target |-> <<t, j>>]) \in Seq(Edges)
  <2>1. g.prev # <<>> => [source |-> g.prev, target |-> <<t, j>>] \in Edges
    BY <1>1 DEF Graphs, Edges
  <2>2. QED
    BY <2>1 DEF Graphs
<1>6. QED
  BY <1>1, <1>4, <1>5 DEF Linked, Graphs

LEMMA RowFold ==
    ASSUME NEW g \in Graphs, NEW t \in STRING, NEW row \in Seq(Event)
    PROVE  \E h : /\ h[0] = [g EXCEPT !.prev = <<>>]
                  /\ \A j \in 1 .. Len(row) : h[j] = Linked(h[j - 1], t, row, j)
                  /\ Row(g, t, row) = h[Len(row)]
<1> DEFINE N == Len(row)
           at == [j \in DOMAIN row |-> j]
           base == [g EXCEPT !.prev = <<>>]
           drawn[s \in SUBSET DOMAIN at] ==
              IF s = {} THEN base
              ELSE [nodes |-> Append(drawn[s \ {Max(s)}].nodes,
                                     [id |-> <<t, at[Max(s)]>>,
                                      color |-> colorFor(row[at[Max(s)]].type)]),
                    edges |-> IF drawn[s \ {Max(s)}].prev = <<>>
                              THEN drawn[s \ {Max(s)}].edges
                              ELSE Append(drawn[s \ {Max(s)}].edges,
                                          [source |-> drawn[s \ {Max(s)}].prev,
                                           target |-> <<t, at[Max(s)]>>]),
                    prev |-> <<t, at[Max(s)]>>]
           F == [i \in 1 .. N |-> [h \in Graphs |-> Linked(h, t, row, i)]]
           h == [k \in 0 .. N |-> drawn[1 .. k]]
<1>1. N \in Nat /\ DOMAIN row = 1 .. N /\ DOMAIN at = 1 .. N /\ \A i \in 1 .. N : at[i] = i
  OBVIOUS
<1>2. Row(g, t, row) = drawn[DOMAIN at]
  BY DEF Row, FoldLeft, MapThenFoldSet
<1>3. F \in [1 .. N -> [Graphs -> Graphs]]
  <2>1. ASSUME NEW i \in 1 .. N, NEW d \in Graphs PROVE Linked(d, t, row, i) \in Graphs
    <3>1. i \in Nat
      OBVIOUS
    <3>2. QED
      BY <3>1, LinkedType, Zenon
  <2>2. QED
    BY <2>1
<1>4. PICK f \in [SUBSET (1 .. N) -> Graphs] : FoldOf(f, N, base, F)
  <2>1. base \in Graphs
    BY DEF Graphs
  <2> HIDE DEF F, N, base
  <2>2. QED
    BY <1>1, <1>3, <2>1, FoldExists, Zenon
<1>5. f = [s \in SUBSET (1 .. N) |->
             IF s = {} THEN base ELSE Linked(f[s \ {Max(s)}], t, row, at[Max(s)])]
  <2>1. ASSUME NEW s \in SUBSET (1 .. N), s # {}
        PROVE  f[s] = Linked(f[s \ {Max(s)}], t, row, at[Max(s)])
    <3>1. Max(s) \in 1 .. N /\ at[Max(s)] = Max(s)
      BY <1>1, <2>1, Greatest
    <3>2. s \ {Max(s)} \in SUBSET (1 .. N)
      OBVIOUS
    <3>3. f[s \ {Max(s)}] \in Graphs
      BY <3>2
    <3>4. f[s] = F[Max(s)][f[s \ {Max(s)}]]
      BY <1>4, <2>1 DEF FoldOf
    <3>5. QED
      BY <3>1, <3>3, <3>4
  <2>2. f[{}] = base
    BY <1>4 DEF FoldOf
  <2>3. QED
    BY <2>1, <2>2
<1>6. drawn = [s \in SUBSET (1 .. N) |->
                 IF s = {} THEN base ELSE Linked(drawn[s \ {Max(s)}], t, row, at[Max(s)])]
  <2>1. f = [s \in SUBSET DOMAIN at |->
               IF s = {} THEN base
               ELSE [nodes |-> Append(f[s \ {Max(s)}].nodes,
                                      [id |-> <<t, at[Max(s)]>>,
                                       color |-> colorFor(row[at[Max(s)]].type)]),
                     edges |-> IF f[s \ {Max(s)}].prev = <<>>
                               THEN f[s \ {Max(s)}].edges
                               ELSE Append(f[s \ {Max(s)}].edges,
                                           [source |-> f[s \ {Max(s)}].prev,
                                            target |-> <<t, at[Max(s)]>>]),
                     prev |-> <<t, at[Max(s)]>>]]
    BY <1>1, <1>5, Zenon DEF Linked
  <2> HIDE DEF at, base, N
  <2>2. drawn = [s \in SUBSET DOMAIN at |->
                   IF s = {} THEN base
                   ELSE [nodes |-> Append(drawn[s \ {Max(s)}].nodes,
                                          [id |-> <<t, at[Max(s)]>>,
                                           color |-> colorFor(row[at[Max(s)]].type)]),
                         edges |-> IF drawn[s \ {Max(s)}].prev = <<>>
                                   THEN drawn[s \ {Max(s)}].edges
                                   ELSE Append(drawn[s \ {Max(s)}].edges,
                                               [source |-> drawn[s \ {Max(s)}].prev,
                                                target |-> <<t, at[Max(s)]>>]),
                         prev |-> <<t, at[Max(s)]>>]]
    BY <2>1, Zenon
  <2>3. QED
    BY <1>1, <2>2, Zenon DEF Linked
<1> HIDE DEF drawn
<1>7. h[0] = base
  <2>1. 1 .. 0 = {} /\ {} \in SUBSET (1 .. N)
    OBVIOUS
  <2>2. drawn[{}] = base
    BY <1>6, <2>1
  <2>3. h[0] = drawn[1 .. 0]
    BY <1>1
  <2>4. QED
    BY <2>1, <2>2, <2>3
<1>8. ASSUME NEW k \in 1 .. N PROVE h[k] = Linked(h[k - 1], t, row, k)
  <2>1. 1 .. k # {} /\ Max(1 .. k) = k /\ (1 .. k) \ {k} = 1 .. (k - 1)
    BY <1>1, Intervals
  <2>2. 1 .. k \in SUBSET (1 .. N) /\ at[k] = k
    BY <1>1
  <2>3. drawn[1 .. k] = Linked(drawn[1 .. (k - 1)], t, row, k)
    BY <1>6, <2>1, <2>2
  <2>4. h[k] = drawn[1 .. k] /\ h[k - 1] = drawn[1 .. (k - 1)]
    BY <1>1
  <2>5. QED
    BY <2>3, <2>4
<1>9. Row(g, t, row) = h[N]
  BY <1>1, <1>2
<1> HIDE DEF h
<1>10. QED
  BY <1>7, <1>8, <1>9

LEMMA AppendSet ==
    ASSUME NEW S, NEW s \in Seq(S), NEW x \in S
    PROVE  /\ Len(Append(s, x)) = Len(s) + 1 /\ Len(s) \in Nat
           /\ ToSet(Append(s, x)) = ToSet(s) \cup {x}
<1>1. /\ Len(s) \in Nat /\ DOMAIN s = 1 .. Len(s) /\ DOMAIN Append(s, x) = 1 .. (Len(s) + 1)
      /\ Len(Append(s, x)) = Len(s) + 1
      /\ \A i \in 1 .. Len(s) : Append(s, x)[i] = s[i]
      /\ Append(s, x)[Len(s) + 1] = x
  OBVIOUS
<1>2. PICK r : r = Append(s, x)
  OBVIOUS
<1>3. PICK n \in Nat : n = Len(s)
  BY <1>1
<1>4. \A i \in 1 .. (n + 1) : i \in 1 .. n \/ i = n + 1
  OBVIOUS
<1>5. {r[i] : i \in 1 .. (n + 1)} = {s[i] : i \in 1 .. n} \cup {x}
  BY <1>1, <1>2, <1>3, <1>4
<1>6. QED
  BY <1>1, <1>2, <1>3, <1>5 DEF ToSet

NodeAt(t, row, i) == [id |-> <<t, i>>, color |-> colorFor(row[i].type)]
EdgeAt(t, i) == [source |-> <<t, i>>, target |-> <<t, i + 1>>]

(* What is drawn after the first j events of a row.                        *)
Drawn(d, g, t, row, j) ==
    /\ d \in Graphs /\ Len(d.nodes) = Len(g.nodes) + j
    /\ ToSet(d.nodes) = ToSet(g.nodes) \cup {NodeAt(t, row, i) : i \in 1 .. j}
    /\ ToSet(d.edges) = ToSet(g.edges) \cup {EdgeAt(t, i) : i \in 1 .. (j - 1)}
    /\ d.prev = IF j = 0 THEN <<>> ELSE <<t, j>>

LEMMA LinkedDrawn ==
    ASSUME NEW g \in Graphs, NEW t \in STRING, NEW row, NEW j \in Nat \ {0},
           NEW d, Drawn(d, g, t, row, j - 1)
    PROVE  Drawn(Linked(d, t, row, j), g, t, row, j)
<1>1. PICK e : e = Linked(d, t, row, j)
  OBVIOUS
<1>2. d \in Graphs /\ e \in Graphs /\ <<t, j>> \in Ids
  BY <1>1, LinkedType DEF Drawn, Ids
<1>3. d.nodes \in Seq(Nodes) /\ d.edges \in Seq(Edges) /\ g.nodes \in Seq(Nodes)
  BY <1>2 DEF Graphs
<1>4. /\ e.nodes = Append(d.nodes, NodeAt(t, row, j))
      /\ e.edges = IF d.prev = <<>> THEN d.edges
                   ELSE Append(d.edges, [source |-> d.prev, target |-> <<t, j>>])
      /\ e.prev = <<t, j>>
  BY <1>1 DEF Linked, NodeAt
<1>5. NodeAt(t, row, j) \in Nodes
  BY <1>2, ColorType DEF NodeAt, Nodes
<1>6. Len(e.nodes) = Len(g.nodes) + j
  <2>1. Len(e.nodes) = Len(d.nodes) + 1 /\ Len(g.nodes) \in Nat
    BY <1>3, <1>4, <1>5, AppendSet
  <2>2. QED
    BY <2>1 DEF Drawn
<1>7. ToSet(e.nodes) = ToSet(g.nodes) \cup {NodeAt(t, row, i) : i \in 1 .. j}
  <2>1. ToSet(e.nodes) = ToSet(d.nodes) \cup {NodeAt(t, row, j)}
    BY <1>3, <1>4, <1>5, AppendSet
  <2>2. \A i \in Nat : i \in 1 .. j <=> i \in 1 .. (j - 1) \/ i = j
    OBVIOUS
  <2>3. {NodeAt(t, row, i) : i \in 1 .. j}
           = {NodeAt(t, row, i) : i \in 1 .. (j - 1)} \cup {NodeAt(t, row, j)}
    BY <2>2
  <2>4. QED
    BY <2>1, <2>3 DEF Drawn
<1>8. ToSet(e.edges) = ToSet(g.edges) \cup {EdgeAt(t, i) : i \in 1 .. (j - 1)}
  <2>1. CASE j = 1
    <3>1. d.prev = <<>> /\ ToSet(d.edges) = ToSet(g.edges) \cup {EdgeAt(t, i) : i \in 1 .. (0 - 1)}
      BY <2>1 DEF Drawn
    <3>2. 1 .. (0 - 1) = {} /\ 1 .. (j - 1) = {}
      BY <2>1
    <3>3. QED
      BY <1>4, <3>1, <3>2
  <2>2. CASE j # 1
    <3>1. j - 1 \in Nat \ {0} /\ (j - 1) + 1 = j
      BY <2>2
    <3>2. d.prev = <<t, j - 1>>
      BY <3>1 DEF Drawn
    <3>3. <<t, j - 1>> # <<>> /\ <<t, j - 1>> \in Ids
      BY <3>1 DEF Ids
    <3>4. e.edges = Append(d.edges, EdgeAt(t, j - 1))
      BY <1>4, <3>1, <3>2, <3>3 DEF EdgeAt
    <3>5. EdgeAt(t, j - 1) \in Edges
      BY <1>2, <3>1, <3>3 DEF EdgeAt, Edges
    <3>6. ToSet(e.edges) = ToSet(d.edges) \cup {EdgeAt(t, j - 1)}
      BY <1>3, <3>4, <3>5, AppendSet
    <3>7. \A i \in Nat : i \in 1 .. (j - 1) <=> i \in 1 .. ((j - 1) - 1) \/ i = j - 1
      BY <3>1
    <3>8. {EdgeAt(t, i) : i \in 1 .. (j - 1)}
             = {EdgeAt(t, i) : i \in 1 .. ((j - 1) - 1)} \cup {EdgeAt(t, j - 1)}
      BY <3>7
    <3>9. QED
      BY <3>6, <3>8 DEF Drawn
  <2>3. QED
    BY <2>1, <2>2
<1>9. Drawn(e, g, t, row, j)
  BY <1>2, <1>4, <1>6, <1>7, <1>8 DEF Drawn
<1>10. QED
  BY <1>1, <1>9

LEMMA RowDrawn ==
    ASSUME NEW g \in Graphs, NEW t \in STRING, NEW row \in Seq(Event)
    PROVE  Drawn(Row(g, t, row), g, t, row, Len(row))
<1>1. PICK h : /\ h[0] = [g EXCEPT !.prev = <<>>]
               /\ \A j \in 1 .. Len(row) : h[j] = Linked(h[j - 1], t, row, j)
               /\ Row(g, t, row) = h[Len(row)]
  BY RowFold
<1>2. PICK N \in Nat : N = Len(row)
  OBVIOUS
<1> DEFINE S == {j \in 0 .. N : Drawn(h[j], g, t, row, j)}
<1>3. 0 \in S
  <2>1. PICK d : d = [g EXCEPT !.prev = <<>>]
    OBVIOUS
  <2>2. d \in Graphs /\ d.nodes = g.nodes /\ d.edges = g.edges /\ d.prev = <<>>
    BY <2>1 DEF Graphs
  <2>3. 1 .. 0 = {} /\ 1 .. (0 - 1) = {} /\ Len(g.nodes) + 0 = Len(g.nodes)
    BY DEF Graphs
  <2>4. Drawn(d, g, t, row, 0)
    BY <2>2, <2>3 DEF Drawn
  <2>5. QED
    BY <1>1, <2>1, <2>4
<1>4. ASSUME NEW j \in 1 .. N, j - 1 \in S PROVE j \in S
  <2>1. j \in Nat \ {0}
    OBVIOUS
  <2>2. Drawn(Linked(h[j - 1], t, row, j), g, t, row, j)
    BY <1>4, <2>1, LinkedDrawn
  <2>3. QED
    BY <1>1, <1>2, <2>2
<1> HIDE DEF S
<1>5. \A j \in 0 .. N : j \in S
  BY <1>3, <1>4, Upwards
<1>6. N \in 0 .. N
  OBVIOUS
<1>7. QED
  BY <1>1, <1>2, <1>5, <1>6 DEF S

-----------------------------------------------------------------------------
(* The graph: trades are drawn one after the other, each once.             *)
LEMMA ListedOnce ==
    ASSUME NEW S, IsFiniteSet(S)
    PROVE  /\ Cardinality(S) \in Nat
           /\ SetToSeq(S) \in [1 .. Cardinality(S) -> S]
           /\ \A i, j \in 1 .. Cardinality(S) : SetToSeq(S)[i] = SetToSeq(S)[j] => i = j
           /\ \A x \in S : \E i \in 1 .. Cardinality(S) : SetToSeq(S)[i] = x
<1>1. PICK n \in Nat : n = Cardinality(S)
  BY FS_CardinalityType
<1>2. ExistsBijection(1 .. n, S)
  BY <1>1, FS_CardinalityType
<1>3. \E f \in [1 .. n -> S] : IsInjective(f)
  BY <1>2 DEF ExistsBijection, Bijection, Injection
<1>4. PICK q : q = SetToSeq(S)
  OBVIOUS
<1>5. q \in [1 .. n -> S] /\ IsInjective(q)
  BY <1>1, <1>3, <1>4 DEF SetToSeq
<1>6. Cardinality(1 .. n) = n /\ IsFiniteSet(1 .. n)
  BY FS_Interval
<1>7. q \in Injection(1 .. n, S)
  BY <1>5 DEF Injection
<1>8. q \in Surjection(1 .. n, S)
  BY <1>1, <1>6, <1>7, FS_Injection
<1>9. QED
  BY <1>1, <1>4, <1>5, <1>8 DEF IsInjective, Surjection

PlaceOf(tl, n) == <<tid(tl[n]), Seen(tl, tid(tl[n]), n)>>
NodeOf(tl, n) == [id |-> PlaceOf(tl, n), color |-> colorFor(tl[n].type)]
Neighbours(tl, n, k) == /\ tid(tl[n]) = tid(tl[k])
                        /\ Seen(tl, tid(tl[k]), k) = Seen(tl, tid(tl[n]), n) + 1
EdgeOf(tl, n, k) == [source |-> PlaceOf(tl, n), target |-> PlaceOf(tl, k)]

(* The row of a trade has a node for each of its events, and its edges.    *)
RowShown(row, tl, t, mine) ==
    /\ {NodeAt(t, row, j) : j \in 1 .. Len(row)} = {NodeOf(tl, n) : n \in mine}
    /\ \A e : e \in {EdgeAt(t, j) : j \in 1 .. (Len(row) - 1)}
                <=> \E n, k \in mine : Neighbours(tl, n, k) /\ e = EdgeOf(tl, n, k)

LEMMA RowEvents ==
    ASSUME NEW tl \in Seq(Event), NEW t, NEW row, IsRow(row, tl, t, Len(tl))
    PROVE  RowShown(row, tl, t, Of(tl, t, Len(tl)))
<1>0. PICK mine : mine = Of(tl, t, Len(tl))
  OBVIOUS
<1>1. PICK L \in Nat : L = Len(row)
  BY DEF IsRow
<1>2. /\ \A n \in mine : Seen(tl, t, n) \in 1 .. L /\ row[Seen(tl, t, n)] = tl[n]
      /\ \A j \in 1 .. L : \E n \in mine : Seen(tl, t, n) = j
      /\ \A n \in mine : tid(tl[n]) = t
  BY <1>0, <1>1 DEF IsRow, Of
<1>3. \A n \in mine : PlaceOf(tl, n) = <<t, Seen(tl, t, n)>>
  BY <1>2 DEF PlaceOf
<1>4. \A n \in mine : NodeOf(tl, n) = NodeAt(t, row, Seen(tl, t, n))
  BY <1>2, <1>3 DEF NodeOf, NodeAt
<1>5. {NodeAt(t, row, j) : j \in 1 .. L} = {NodeOf(tl, n) : n \in mine}
  <2>1. ASSUME NEW j \in 1 .. L PROVE \E n \in mine : NodeAt(t, row, j) = NodeOf(tl, n)
    BY <1>2, <1>4
  <2>2. ASSUME NEW n \in mine PROVE \E j \in 1 .. L : NodeOf(tl, n) = NodeAt(t, row, j)
    BY <1>2, <1>4
  <2>3. QED
    BY <2>1, <2>2
<1>6. ASSUME NEW j \in 1 .. (L - 1)
      PROVE  \E n, k \in mine : Neighbours(tl, n, k) /\ EdgeAt(t, j) = EdgeOf(tl, n, k)
  <2>1. j \in 1 .. L /\ j + 1 \in 1 .. L
    OBVIOUS
  <2>2. PICK n \in mine, k \in mine : Seen(tl, t, n) = j /\ Seen(tl, t, k) = j + 1
    BY <1>2, <2>1
  <2>3. Neighbours(tl, n, k)
    BY <1>2, <2>2 DEF Neighbours
  <2>4. EdgeAt(t, j) = EdgeOf(tl, n, k)
    BY <1>3, <2>2 DEF EdgeAt, EdgeOf
  <2>5. QED
    BY <2>3, <2>4
<1>7. ASSUME NEW n \in mine, NEW k \in mine, Neighbours(tl, n, k)
      PROVE  \E j \in 1 .. (L - 1) : EdgeOf(tl, n, k) = EdgeAt(t, j)
  <2>1. PICK j : j = Seen(tl, t, n)
    OBVIOUS
  <2>2. j \in 1 .. L /\ Seen(tl, t, k) = j + 1 /\ j + 1 \in 1 .. L
    BY <1>2, <1>7, <2>1 DEF Neighbours
  <2>3. j \in 1 .. (L - 1)
    BY <2>2
  <2>4. EdgeOf(tl, n, k) = EdgeAt(t, j)
    BY <1>3, <2>1, <2>2 DEF EdgeOf, EdgeAt
  <2>5. QED
    BY <2>3, <2>4
<1>8. \A e : e \in {EdgeAt(t, j) : j \in 1 .. (L - 1)}
              => \E n, k \in mine : Neighbours(tl, n, k) /\ e = EdgeOf(tl, n, k)
  BY <1>6
<1>9. \A e : (\E n, k \in mine : Neighbours(tl, n, k) /\ e = EdgeOf(tl, n, k))
              => e \in {EdgeAt(t, j) : j \in 1 .. (L - 1)}
  BY <1>7
<1>10. RowShown(row, tl, t, mine)
  BY <1>1, <1>5, <1>8, <1>9 DEF RowShown
<1>11. QED
  BY <1>0, <1>10

(* What is drawn of a timeline when some of its events are: one node for   *)
(* each, and an edge for any two that are neighbours.                      *)
Draws(g, tl, some) ==
    /\ g \in Graphs /\ Len(g.nodes) = Cardinality(some)
    /\ ToSet(g.nodes) = {NodeOf(tl, n) : n \in some}
    /\ \A e : e \in ToSet(g.edges)
                <=> \E n, k \in some : Neighbours(tl, n, k) /\ e = EdgeOf(tl, n, k)

LEMMA TradeDrawn ==
    ASSUME NEW tl \in Seq(Event), NEW t \in STRING, NEW some, IsFiniteSet(some),
           \A n \in some : tid(tl[n]) # t,
           NEW g, Draws(g, tl, some)
    PROVE  Draws(Row(g, t, byTrade(tl, t)), tl, some \cup Of(tl, t, Len(tl)))
<1>1. PICK row : row = byTrade(tl, t) /\ IsRow(row, tl, t, Len(tl))
  BY RowOfTrade
<1>2. PICK mine : mine = Of(tl, t, Len(tl))
  OBVIOUS
<1>3. PICK d : d = Row(g, t, row) /\ Drawn(d, g, t, row, Len(row))
  BY <1>1, RowDrawn DEF Draws, IsRow
<1>4. /\ {NodeAt(t, row, j) : j \in 1 .. Len(row)} = {NodeOf(tl, n) : n \in mine}
      /\ \A e : e \in {EdgeAt(t, j) : j \in 1 .. (Len(row) - 1)}
                  <=> \E n, k \in mine : Neighbours(tl, n, k) /\ e = EdgeOf(tl, n, k)
  <2>1. RowShown(row, tl, t, Of(tl, t, Len(tl)))
    BY <1>1, RowEvents
  <2>2. QED
    BY <1>2, <2>1 DEF RowShown
<1>5. Len(d.nodes) = Cardinality(some \cup mine)
  <2>1. IsFiniteSet(mine) /\ Cardinality(mine) = Len(row)
    <3>1. Len(tl) \in Nat
      OBVIOUS
    <3>2. IsFiniteSet(Of(tl, t, Len(tl)))
      BY <3>1, SeenCounts
    <3>3. QED
      BY <1>1, <1>2, <3>2 DEF IsRow, Seen
  <2>2. some \cap mine = {}
    BY <1>2 DEF Of
  <2>3. Cardinality(some \cup mine)
           = Cardinality(some) + Cardinality(mine) - Cardinality(some \cap mine)
    BY <2>1, FS_Union
  <2>4. Cardinality(some \cap mine) = 0 /\ Cardinality(some) \in Nat /\ Cardinality(mine) \in Nat
    BY <2>1, <2>2, FS_EmptySet, FS_CardinalityType
  <2>5. Len(d.nodes) = Cardinality(some) + Len(row)
    BY <1>3 DEF Drawn, Draws
  <2>6. QED
    BY <2>1, <2>3, <2>4, <2>5
<1>6. ToSet(d.nodes) = {NodeOf(tl, n) : n \in some \cup mine}
  BY <1>3, <1>4 DEF Drawn, Draws
<1>7. ASSUME NEW n \in some \cup mine, NEW k \in some \cup mine, Neighbours(tl, n, k)
      PROVE  (n \in some /\ k \in some) \/ (n \in mine /\ k \in mine)
  <2>1. \A m \in mine : tid(tl[m]) = t
    BY <1>2 DEF Of
  <2>2. QED
    BY <1>7, <2>1 DEF Neighbours
<1>8. \A e : e \in ToSet(d.edges)
               <=> \E n, k \in some \cup mine : Neighbours(tl, n, k) /\ e = EdgeOf(tl, n, k)
  <2>1. \A e : e \in ToSet(d.edges)
                 <=> \/ e \in ToSet(g.edges)
                     \/ e \in {EdgeAt(t, j) : j \in 1 .. (Len(row) - 1)}
    BY <1>3 DEF Drawn
  <2>2. \A e : e \in ToSet(g.edges)
                 <=> \E n, k \in some : Neighbours(tl, n, k) /\ e = EdgeOf(tl, n, k)
    BY DEF Draws
  <2>3. QED
    BY <1>4, <1>7, <2>1, <2>2
<1>9. Draws(d, tl, some \cup mine)
  BY <1>3, <1>5, <1>6, <1>8 DEF Draws, Drawn
<1>10. QED
  BY <1>1, <1>2, <1>3, <1>9

-----------------------------------------------------------------------------
(* The graph, trade by trade.                                              *)
LEMMA NamedFinite ==
    ASSUME NEW tl \in Seq(Event)
    PROVE  /\ IsFiniteSet(Named(tl)) /\ Named(tl) \in SUBSET (1 .. Len(tl))
           /\ IsFiniteSet(TradesOf(tl)) /\ TradesOf(tl) \subseteq STRING
<1>1. Len(tl) \in Nat /\ DOMAIN tl = 1 .. Len(tl)
  OBVIOUS
<1>2. Named(tl) \in SUBSET (1 .. Len(tl))
  BY <1>1 DEF Named
<1>3. IsFiniteSet(1 .. Len(tl))
  <2>1. 1 \in Int /\ Len(tl) \in Int
    BY <1>1
  <2>2. QED
    BY <2>1, FS_Interval, Zenon
<1>4. IsFiniteSet(Named(tl))
  BY <1>2, <1>3, FS_Subset
<1>5. IsFiniteSet(TradesOf(tl))
  <2> DEFINE f == [n \in Named(tl) |-> tid(tl[n])]
  <2>1. f \in [Named(tl) -> TradesOf(tl)]
    BY DEF TradesOf
  <2>2. \A t \in TradesOf(tl) : \E n \in Named(tl) : f[n] = t
    BY DEF TradesOf
  <2> HIDE DEF f
  <2>3. f \in Surjection(Named(tl), TradesOf(tl))
    BY <2>1, <2>2 DEF Surjection
  <2>4. QED
    BY <1>4, <2>3, FS_Surjection
<1>6. TradesOf(tl) \subseteq STRING
  <2>1. ASSUME NEW n \in Named(tl) PROVE tid(tl[n]) \in STRING
    <3>1. tl[n] \in Event
      BY <1>2
    <3>2. QED
      BY <3>1 DEF tid, Event
  <2>2. QED
    BY <2>1 DEF TradesOf
<1>7. QED
  BY <1>2, <1>4, <1>5, <1>6

LEMMA RowType ==
    ASSUME NEW tl \in Seq(Event), NEW g \in Graphs, NEW t \in STRING
    PROVE  Row(g, t, byTrade(tl, t)) \in Graphs
<1>1. byTrade(tl, t) \in Seq(Event)
  BY RowOfTrade DEF IsRow
<1>2. QED
  BY <1>1, RowDrawn DEF Drawn

LEMMA GraphFold ==
    ASSUME NEW tl \in Seq(Event), NEW M \in Nat, NEW ts \in [1 .. M -> STRING],
           ts = SetToSeq(TradesOf(tl))
    PROVE  \E h : /\ h[0] = NoGraph
                  /\ \A i \in 1 .. M : h[i] = Row(h[i - 1], ts[i], byTrade(tl, ts[i]))
                  /\ DecisionGraph(tl) = h[M]
<1> DEFINE drawn[s \in SUBSET DOMAIN ts] ==
              IF s = {} THEN NoGraph
              ELSE Row(drawn[s \ {Max(s)}], ts[Max(s)], byTrade(tl, ts[Max(s)]))
           F == [i \in 1 .. M |-> [g \in Graphs |-> Row(g, ts[i], byTrade(tl, ts[i]))]]
           h == [i \in 0 .. M |-> drawn[1 .. i]]
<1>1. DOMAIN ts = 1 .. M /\ \A i \in 1 .. M : ts[i] \in STRING
  OBVIOUS
<1>2. DecisionGraph(tl) = drawn[DOMAIN ts]
  BY DEF DecisionGraph, FoldLeft, MapThenFoldSet
<1>3. F \in [1 .. M -> [Graphs -> Graphs]]
  <2>1. ASSUME NEW i \in 1 .. M, NEW g \in Graphs
        PROVE  Row(g, ts[i], byTrade(tl, ts[i])) \in Graphs
    BY <1>1, RowType
  <2>2. QED
    BY <2>1
<1>4. PICK f \in [SUBSET (1 .. M) -> Graphs] : FoldOf(f, M, NoGraph, F)
  <2>1. NoGraph \in Graphs
    BY DEF NoGraph, Graphs
  <2> HIDE DEF F
  <2>2. QED
    BY <1>3, <2>1, FoldExists, Zenon
<1>5. f = [s \in SUBSET DOMAIN ts |->
             IF s = {} THEN NoGraph
             ELSE Row(f[s \ {Max(s)}], ts[Max(s)], byTrade(tl, ts[Max(s)]))]
  <2>1. ASSUME NEW s \in SUBSET (1 .. M), s # {}
        PROVE  f[s] = Row(f[s \ {Max(s)}], ts[Max(s)], byTrade(tl, ts[Max(s)]))
    <3>1. Max(s) \in 1 .. M
      BY <2>1, Greatest
    <3>2. s \ {Max(s)} \in SUBSET (1 .. M)
      OBVIOUS
    <3>3. f[s \ {Max(s)}] \in Graphs
      BY <3>2
    <3>4. f[s] = F[Max(s)][f[s \ {Max(s)}]]
      BY <1>4, <2>1 DEF FoldOf
    <3>5. QED
      BY <3>1, <3>3, <3>4
  <2>2. f[{}] = NoGraph
    BY <1>4 DEF FoldOf
  <2>3. QED
    BY <1>1, <2>1, <2>2
<1>6. drawn = [s \in SUBSET DOMAIN ts |->
                 IF s = {} THEN NoGraph
                 ELSE Row(drawn[s \ {Max(s)}], ts[Max(s)], byTrade(tl, ts[Max(s)]))]
  BY <1>5, Zenon
<1> HIDE DEF drawn
<1>7. h[0] = NoGraph
  <2>1. 1 .. 0 = {} /\ {} \in SUBSET DOMAIN ts
    OBVIOUS
  <2>2. drawn[{}] = NoGraph
    BY <1>6, <2>1
  <2>3. h[0] = drawn[1 .. 0]
    OBVIOUS
  <2>4. QED
    BY <2>1, <2>2, <2>3
<1>8. ASSUME NEW i \in 1 .. M PROVE h[i] = Row(h[i - 1], ts[i], byTrade(tl, ts[i]))
  <2>1. 1 .. i # {} /\ Max(1 .. i) = i /\ (1 .. i) \ {i} = 1 .. (i - 1)
    <3>1. i \in Nat \ {0}
      OBVIOUS
    <3>2. QED
      BY <3>1, Intervals
  <2>2. 1 .. i \in SUBSET DOMAIN ts
    BY <1>1
  <2>3. drawn[1 .. i] = Row(drawn[1 .. (i - 1)], ts[i], byTrade(tl, ts[i]))
    BY <1>6, <2>1, <2>2
  <2>4. h[i] = drawn[1 .. i] /\ h[i - 1] = drawn[1 .. (i - 1)]
    OBVIOUS
  <2>5. QED
    BY <2>3, <2>4
<1>9. DecisionGraph(tl) = h[M]
  BY <1>1, <1>2
<1> HIDE DEF h
<1>10. QED
  BY <1>7, <1>8, <1>9

(* All trades drawn: every event that names one has its node.              *)
LEMMA AllDrawn ==
    ASSUME NEW tl \in Seq(Event)
    PROVE  Draws(DecisionGraph(tl), tl, Named(tl))
<1>1. PICK ts : ts = SetToSeq(TradesOf(tl))
  OBVIOUS
<1>2. PICK M \in Nat : M = Cardinality(TradesOf(tl))
  BY NamedFinite, FS_CardinalityType
<1>3. /\ ts \in [1 .. M -> TradesOf(tl)]
      /\ \A i, j \in 1 .. M : ts[i] = ts[j] => i = j
      /\ \A t \in TradesOf(tl) : \E i \in 1 .. M : ts[i] = t
  <2>1. IsFiniteSet(TradesOf(tl))
    BY NamedFinite
  <2>2. QED
    BY <1>1, <1>2, <2>1, ListedOnce
<1>4. ts \in [1 .. M -> STRING]
  BY <1>3, NamedFinite
<1>5. PICK h : /\ h[0] = NoGraph
               /\ \A i \in 1 .. M : h[i] = Row(h[i - 1], ts[i], byTrade(tl, ts[i]))
               /\ DecisionGraph(tl) = h[M]
  BY <1>1, <1>4, GraphFold
<1> DEFINE some(i) == {n \in Named(tl) : \E k \in 1 .. i : ts[k] = tid(tl[n])}
           S == {i \in 0 .. M : Draws(h[i], tl, some(i))}
<1>6. 0 \in S
  <2>1. some(0) = {}
    OBVIOUS
  <2>2. NoGraph \in Graphs /\ Len(NoGraph.nodes) = 0
        /\ ToSet(NoGraph.nodes) = {} /\ ToSet(NoGraph.edges) = {}
    BY DEF NoGraph, Graphs, ToSet
  <2>3. Draws(NoGraph, tl, {})
    BY <2>2, FS_EmptySet DEF Draws
  <2> HIDE DEF some
  <2>4. Draws(h[0], tl, some(0))
    BY <1>5, <2>1, <2>3
  <2>5. 0 \in 0 .. M
    OBVIOUS
  <2>6. QED
    BY <2>4, <2>5
<1>7. ASSUME NEW i \in 1 .. M, i - 1 \in S PROVE i \in S
  <2>1. Draws(h[i - 1], tl, some(i - 1))
    BY <1>7
  <2>2. ts[i] \in STRING /\ ts[i] \in TradesOf(tl)
    BY <1>3, <1>4
  <2>3. \A n \in some(i - 1) : tid(tl[n]) # ts[i]
    BY <1>3
  <2>4. IsFiniteSet(some(i - 1))
    BY NamedFinite, FS_Subset
  <2>5. some(i) = some(i - 1) \cup Of(tl, ts[i], Len(tl))
    <3>1. Of(tl, ts[i], Len(tl)) = {n \in Named(tl) : tid(tl[n]) = ts[i]}
      <4>1. PICK n \in Named(tl) : ts[i] = tid(tl[n])
        BY <2>2 DEF TradesOf
      <4>2. ts[i] # "" /\ DOMAIN tl = 1 .. Len(tl)
        <5>1. tid(tl[n]) # ""
          BY DEF Named
        <5>2. ts[i] # ""
          BY <4>1, <5>1, Zenon
        <5>3. DOMAIN tl = 1 .. Len(tl)
          OBVIOUS
        <5>4. QED
          BY <5>2, <5>3
      <4>3. QED
        BY <4>2 DEF Of, Named
    <3>2. \A k \in Nat : k \in 1 .. i <=> k \in 1 .. (i - 1) \/ k = i
      OBVIOUS
    <3>3. QED
      BY <3>1, <3>2
  <2> HIDE DEF some
  <2>6. Draws(Row(h[i - 1], ts[i], byTrade(tl, ts[i])), tl,
              some(i - 1) \cup Of(tl, ts[i], Len(tl)))
    BY <2>1, <2>2, <2>3, <2>4, TradeDrawn
  <2>7. h[i] = Row(h[i - 1], ts[i], byTrade(tl, ts[i]))
    BY <1>5
  <2>8. Draws(h[i], tl, some(i))
    BY <2>5, <2>6, <2>7
  <2>9. i \in 0 .. M
    OBVIOUS
  <2>10. QED
    BY <2>8, <2>9
<1>8. \A i \in 0 .. M : i \in S
  <2> HIDE DEF S
  <2>1. QED
    BY <1>6, <1>7, Upwards
<1>9. some(M) = Named(tl)
  BY <1>3 DEF TradesOf
<1>10. M \in 0 .. M
  OBVIOUS
<1>11. QED
  BY <1>5, <1>8, <1>9, <1>10

-----------------------------------------------------------------------------
(* What Draws says is what TimelineGraph says.                             *)
LEMMA RankSeen ==
    ASSUME NEW tl \in Seq(Event), NEW n \in Named(tl)
    PROVE  Rank(tl, n) = Seen(tl, tid(tl[n]), n) /\ NodeId(tl, n) = PlaceOf(tl, n)
<1>1. DOMAIN tl = 1 .. Len(tl) /\ Len(tl) \in Nat
  OBVIOUS
<1>2. n \in DOMAIN tl /\ tid(tl[n]) # ""
  BY DEF Named
<1>3. PICK t : t = tid(tl[n])
  OBVIOUS
<1>4. \A k : k \in Named(tl) /\ k <= n /\ tid(tl[k]) = t <=> k \in 1 .. n /\ tid(tl[k]) = t
  <2>1. PICK L \in Nat : DOMAIN tl = 1 .. L
    BY <1>1
  <2> n \in 1 .. L
    BY <1>2, <2>1
  <2>2. ASSUME NEW k \in Named(tl), k <= n PROVE k \in 1 .. n
    <3>1. k \in DOMAIN tl
      BY DEF Named
    <3>2. k \in 1 .. L
      BY <2>1, <3>1
    <3>3. QED
      BY <2>2, <3>2
  <2>3. ASSUME NEW k \in 1 .. n, tid(tl[k]) = t PROVE k \in Named(tl) /\ k <= n
    <3>1. k \in 1 .. L /\ k <= n
      OBVIOUS
    <3>2. tid(tl[k]) # ""
      BY <1>2, <1>3, <2>3, Zenon
    <3>3. QED
      BY <2>1, <3>1, <3>2 DEF Named
  <2>4. QED
    BY <2>2, <2>3
<1>5. {k \in Named(tl) : k <= n /\ tid(tl[k]) = tid(tl[n])} = Of(tl, tid(tl[n]), n)
  BY <1>3, <1>4 DEF Of
<1>6. QED
  BY <1>5 DEF Rank, Seen, NodeId, PlaceOf

LEMMA SeenRises ==
    ASSUME NEW tl, NEW t, NEW n \in Nat, NEW k \in Nat, k <= n
    PROVE  Seen(tl, t, k) <= Seen(tl, t, n)
<1>1. Of(tl, t, k) \in SUBSET Of(tl, t, n)
  BY DEF Of
<1>2. IsFiniteSet(Of(tl, t, n))
  BY SeenCounts
<1>3. QED
  BY <1>1, <1>2, FS_Subset DEF Seen

LEMMA FollowsNext ==
    ASSUME NEW tl \in Seq(Event), NEW n \in Named(tl), NEW k \in Named(tl)
    PROVE  Follows(tl, n, k) <=> Neighbours(tl, n, k)
<1>1. Rank(tl, n) = Seen(tl, tid(tl[n]), n) /\ Rank(tl, k) = Seen(tl, tid(tl[k]), k)
  BY RankSeen
<1>2. n \in Nat /\ k \in Nat
  BY NamedFinite
<1>3. ASSUME Neighbours(tl, n, k) PROVE n < k
  <2>1. PICK t : t = tid(tl[n]) /\ t = tid(tl[k])
    BY <1>3 DEF Neighbours
  <2>2. Seen(tl, t, k) = Seen(tl, t, n) + 1
    BY <1>3, <2>1 DEF Neighbours
  <2>3. Seen(tl, t, n) \in Nat
    BY <1>2, SeenCounts
  <2>4. k <= n => Seen(tl, t, k) <= Seen(tl, t, n)
    BY <1>2, SeenRises
  <2>5. QED
    BY <1>2, <2>2, <2>3, <2>4
<1>4. QED
  BY <1>1, <1>3 DEF Follows, Neighbours

LEMMA GraphOf ==
    ASSUME NEW tl \in Seq(Event), NEW g, g = DecisionGraph(tl)
    PROVE  /\ Len(g.nodes) = Cardinality(Named(tl))
           /\ ToSet(g.nodes) = {[id |-> NodeId(tl, n), color |-> colorFor(tl[n].type)] :
                                   n \in Named(tl)}
           /\ ToSet(g.edges) = {[source |-> NodeId(tl, x[1]), target |-> NodeId(tl, x[2])] :
                                   x \in {y \in Named(tl) \X Named(tl) : Follows(tl, y[1], y[2])}}
<1>1. PICK at : at = Named(tl)
  OBVIOUS
<1>2. Draws(g, tl, at)
  BY <1>1, AllDrawn
<1>3. \A n \in at : NodeId(tl, n) = PlaceOf(tl, n)
  BY <1>1, RankSeen
<1>4. ToSet(g.nodes) = {[id |-> NodeId(tl, n), color |-> colorFor(tl[n].type)] : n \in at}
  BY <1>2, <1>3 DEF Draws, NodeOf
<1>5. ASSUME NEW n \in at, NEW k \in at
      PROVE  /\ Follows(tl, n, k) <=> Neighbours(tl, n, k)
             /\ EdgeOf(tl, n, k) = [source |-> NodeId(tl, n), target |-> NodeId(tl, k)]
  BY <1>1, <1>3, FollowsNext DEF EdgeOf
<1> DEFINE pairs == {y \in at \X at : Follows(tl, y[1], y[2])}
           edge(x) == [source |-> NodeId(tl, x[1]), target |-> NodeId(tl, x[2])]
<1>6. ASSUME NEW e \in ToSet(g.edges) PROVE \E x \in pairs : e = edge(x)
  <2>1. PICK n \in at, k \in at : Neighbours(tl, n, k) /\ e = EdgeOf(tl, n, k)
    BY <1>2, <1>6 DEF Draws
  <2>2. PICK x : x = <<n, k>>
    OBVIOUS
  <2>3. x \in pairs /\ e = edge(x)
    BY <1>5, <2>1, <2>2
  <2>4. QED
    BY <2>3
<1>7. ASSUME NEW x \in pairs PROVE edge(x) \in ToSet(g.edges)
  <2>1. PICK n \in at, k \in at : x[1] = n /\ x[2] = k /\ Follows(tl, n, k)
    OBVIOUS
  <2>2. Neighbours(tl, n, k) /\ edge(x) = EdgeOf(tl, n, k)
    BY <1>5, <2>1
  <2>3. QED
    BY <1>2, <2>2 DEF Draws
<1>8. ToSet(g.edges) = {edge(x) : x \in pairs}
  <2> HIDE DEF pairs, edge
  <2>1. QED
    BY <1>6, <1>7
<1>9. Len(g.nodes) = Cardinality(at)
  BY <1>2 DEF Draws
<1>10. QED
  BY <1>1, <1>4, <1>8, <1>9

(* agents/page.tsx:52-90: whatever timeline the API answers, however long  *)
(* and however its trades are interleaved, the graph that is shown has one *)
(* node for each event that names a trade, in its colour, and an edge from *)
(* each to the next of the same trade and no other: grouping by trade and  *)
(* linking row by row neither loses, repeats nor crosses anything.         *)
THEOREM GraphDrawn == Spec => []TimelineGraph
<1>1. ASSUME WebInv PROVE TimelineGraph
  <2>1. data.agents \in Timelines \cup {NoData.agents}
    <3>1. \A t \in Tabs : data[t] \in Answer(t) \cup {NoData[t]}
      BY <1>1 DEF WebInv, TabsOK, TabsTypeOK
    <3>2. "agents" \in Tabs
      BY DEF Tabs
    <3>3. data["agents"] \in Answer("agents") \cup {NoData["agents"]}
      BY <3>1, <3>2
    <3>4. QED
      BY <3>3 DEF Answer
  <2>2. NoData.agents = <<>> /\ <<>> \in Seq(Event)
    BY DEF NoData
  <2>3. data.agents \in Seq(Event)
    BY <2>1, <2>2, WebAssumption DEF Event
  <2>4. QED
    BY <2>3, GraphOf DEF TimelineGraph
<1>2. QED
  BY <1>1, WebInvariant, PTL
=============================================================================
