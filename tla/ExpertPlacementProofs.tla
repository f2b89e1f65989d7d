------------------------ MODULE ExpertPlacementProofs ------------------------
(* What ExpertPlacement guarantees for any number of ranks, layers, slots and *)
(* experts, and whatever the load balancer asks for.                          *)
EXTENDS ExpertPlacement, DataFacts

(* A map of a layer that serves: every expert is somewhere, and no rank holds *)
(* one twice.                                                                 *)
LayerMaps == [Positions -> Experts \cup {None}]

HoldsOnce(m) ==
    \A p, q \in Positions : p[1] = q[1] /\ m[p] = m[q] /\ m[p] # None => p = q

Good(m) == HoldsOnce(m) /\ \A e \in Experts : \E p \in Positions : m[p] = e

----------------------------------------------------------------------------
(* The optimizer *)

LEMMA Constants ==
    /\ NumRanks \in Nat \ {0} /\ NumLayers \in Nat \ {0}
    /\ NumSlots \in Nat \ {0} /\ NumExperts \in Nat \ {0}
    /\ Start \in Placements /\ Targets \subseteq Placements
    /\ IsFiniteSet(Slots) /\ Cardinality(Slots) = NumSlots /\ IsFiniteSet(Experts)
    /\ Slots \subseteq Nat /\ Experts \subseteq Nat /\ None \notin Experts
    /\ Ranks # {}
<1>1. /\ NumRanks \in Nat \ {0} /\ NumLayers \in Nat \ {0}
      /\ NumSlots \in Nat \ {0} /\ NumExperts \in Nat \ {0}
  BY ExpertPlacementAssumption
<1>2. /\ IsFiniteSet(Slots) /\ Cardinality(Slots) = NumSlots /\ IsFiniteSet(Experts)
  BY <1>1, FS_Interval DEF Slots, Experts
<1>3. Slots \subseteq Nat /\ Experts \subseteq Nat /\ None \notin Experts /\ Ranks # {}
  BY <1>1 DEF Slots, Experts, None, Ranks
<1> QED BY <1>1, <1>2, <1>3, ExpertPlacementAssumption

(* A rank rearranged holds what it is to hold, each expert once: there are as *)
(* many slots left as there are experts that come.                            *)
LEMMA RearrangedRight ==
    ASSUME NEW cur \in [Slots -> Experts \cup {None}],
           \A s, t \in Slots : cur[s] = cur[t] /\ cur[s] # None => s = t,
           NEW want \in SUBSET Experts, Cardinality(want) <= NumSlots,
           NEW g, g = Rearranged(cur, want)
    PROVE  /\ g \in [Slots -> want \cup {None}]
           /\ \A e \in want : \E s \in Slots : g[s] = e
           /\ \A s, t \in Slots : g[s] = g[t] /\ g[s] # None => s = t
<1> DEFINE has == {cur[s] : s \in Slots}
           new == want \ has
           free == {t \in Slots : cur[t] \notin want}
           rank(e) == Cardinality({d \in new : d <= e})
           left(s) == Cardinality({t \in free : t <= s})
           next(s) == {e \in new : rank(e) = left(s)}
<1>1. /\ new \in SUBSET Nat /\ free \in SUBSET Nat /\ new \subseteq Experts
      /\ IsFiniteSet(new) /\ IsFiniteSet(free)
  BY Constants, FS_Subset
<1>2. Cardinality(new) <= Cardinality(free)
  <2> DEFINE kept == want \cap has
             stay == Slots \ free
             f == [t \in stay |-> cur[t]]
  <2>1. f \in Bijection(stay, kept)
    <3>1. f \in [stay -> kept]
      OBVIOUS
    <3>2. \A s, t \in stay : f[s] = f[t] => s = t
      BY Constants
    <3>3. \A e \in kept : \E s \in stay : f[s] = e
      OBVIOUS
    <3> QED BY <3>1, <3>2, <3>3 DEF Bijection, Injection, Surjection, IsInjective
  <2>2. IsFiniteSet(stay) /\ IsFiniteSet(want)
    BY Constants, FS_Subset
  <2>3. Cardinality(kept) = Cardinality(stay)
    BY <2>1, <2>2, FS_Bijection DEF ExistsBijection
  <2>4. Cardinality(free) = NumSlots - Cardinality(stay)
    <3>1. free = Slots \ stay /\ Slots \cap stay = stay
      OBVIOUS
    <3> HIDE DEF free, stay
    <3> QED BY <3>1, Constants, FS_Difference
  <2>5. Cardinality(new) = Cardinality(want) - Cardinality(kept)
    BY <2>2, FS_Difference
  <2>6. Cardinality(want) \in Nat /\ Cardinality(stay) \in Nat
    BY <2>2, FS_CardinalityType
  <2> HIDE DEF stay, kept, new, free
  <2> QED BY <2>3, <2>4, <2>5, <2>6, Constants
<1>3. \A s \in Slots : {t \in Slots : t <= s /\ cur[t] \notin want} = {t \in free : t <= s}
  OBVIOUS
<1>4. g = [s \in Slots |-> IF cur[s] \in want THEN cur[s] ELSE Max({None} \cup next(s))]
  BY <1>3, Zenon DEF Rearranged
<1>10. /\ \A e \in new : rank(e) \in 1..Cardinality(new)
       /\ \A e, d \in new : rank(e) = rank(d) => e = d
  <2> HIDE DEF new
  <2> QED BY <1>1, RanksOfNumbers
<1>11. /\ \A s, t \in free : left(s) = left(t) => s = t
       /\ \A k \in 1..Cardinality(free) : \E s \in free : left(s) = k
  <2> HIDE DEF free
  <2> QED BY <1>1, RanksOfNumbers
<1>5. ASSUME NEW s \in free
      PROVE  /\ g[s] \in next(s) \cup {None}
             /\ \A e \in new : rank(e) = left(s) => g[s] = e
  <2>1. s \in Slots /\ g[s] = Max({None} \cup next(s))
    BY <1>4
  <2>2. {None} \cup next(s) \in SUBSET Nat /\ IsFiniteSet({None} \cup next(s))
    <3>1. IsFiniteSet(next(s)) /\ next(s) \subseteq Nat
      BY <1>1, FS_Subset
    <3>2. None \in Nat
      BY DEF None
    <3>3. {None} \cup next(s) = next(s) \cup {None}
      OBVIOUS
    <3> HIDE DEF next
    <3> QED BY <3>1, <3>2, <3>3, FS_AddElement
  <2>3. g[s] \in {None} \cup next(s) /\ \A x \in {None} \cup next(s) : x <= g[s]
    <3> HIDE DEF next
    <3>1. {None} \cup next(s) # {}
      OBVIOUS
    <3> QED BY <2>1, <2>2, <3>1, FiniteMax
  <2>4. ASSUME NEW e \in new, rank(e) = left(s)
        PROVE  g[s] = e
    <3>1. e \in next(s) /\ e \in Nat /\ e # 0
      BY <1>1, <2>4, Constants DEF None
    <3>2. g[s] # None
      BY <2>3, <3>1 DEF None
    <3>3. g[s] \in new /\ rank(g[s]) = rank(e)
      BY <2>3, <2>4, <3>2
    <3> QED BY <1>10, <3>3
  <2> QED BY <2>3, <2>4
<1>6. \A s \in Slots : s \notin free => g[s] = cur[s] /\ g[s] \in want
  BY <1>4
<1>7. g \in [Slots -> want \cup {None}]
  <2>1. \A s \in Slots : g[s] \in want \cup {None}
    BY <1>5, <1>6
  <2> QED BY <1>4, <2>1
<1>8. ASSUME NEW e \in want
      PROVE  \E s \in Slots : g[s] = e
  <2>1. CASE e \in has
    BY <1>6, <2>1
  <2>2. CASE e \notin has
    <3>1. e \in new
      BY <2>2
    <3>2. rank(e) \in 1..Cardinality(new)
      BY <1>10, <3>1
    <3>3. rank(e) \in 1..Cardinality(free)
      BY <1>1, <1>2, <3>2, FS_CardinalityType
    <3>4. PICK s \in free : left(s) = rank(e)
      BY <1>11, <3>3
    <3>5. g[s] = e
      BY <1>5, <3>1, <3>4
    <3> QED BY <3>5
  <2> QED BY <2>1, <2>2
<1>9. ASSUME NEW s \in Slots, NEW t \in Slots, g[s] = g[t], g[s] # None
      PROVE  s = t
  <2>1. CASE s \in free /\ t \in free
    <3>1. g[s] \in next(s) /\ g[t] \in next(t)
      BY <1>5, <1>9, <2>1
    <3>2. left(s) = left(t)
      BY <1>9, <3>1
    <3> QED BY <1>11, <2>1, <3>2
  <2>2. CASE s \notin free /\ t \notin free
    BY <1>6, <1>9, <2>2
  <2>3. ASSUME NEW u \in free, NEW v \in Slots \ free, g[u] = g[v], g[u] # None
        PROVE  FALSE
    <3>1. g[u] \in new
      BY <1>5, <2>3
    <3>2. g[v] \in has
      BY <1>6
    <3> QED BY <2>3, <3>1, <3>2
  <2> QED BY <1>9, <2>1, <2>2, <2>3
<1> QED BY <1>7, <1>8, <1>9

(* What the ranks are to hold of a layer, one set for each.                   *)
Wants == {w \in [Ranks -> SUBSET Experts] :
            /\ UNION {w[r] : r \in Ranks} = Experts
            /\ \A r \in Ranks : Cardinality(w[r]) <= NumSlots}

LEMMA GoalRight ==
    ASSUME NEW cur \in LayerMaps, HoldsOnce(cur), NEW want \in Wants,
           NEW m, m = Goal(cur, want)
    PROVE  m \in LayerMaps /\ Good(m)
<1> DEFINE held(r) == [s \in Slots |-> cur[<<r, s>>]]
           g(r) == Rearranged(held(r), want[r])
<1>1. \A p \in Positions : p[1] \in Ranks /\ p[2] \in Slots /\ p = <<p[1], p[2]>>
  BY DEF Positions
<1>2. \A r \in Ranks, s \in Slots : <<r, s>> \in Positions
  BY DEF Positions
<1>3. ASSUME NEW r \in Ranks
      PROVE  /\ g(r) \in [Slots -> want[r] \cup {None}]
             /\ \A e \in want[r] : \E s \in Slots : g(r)[s] = e
             /\ \A s, t \in Slots : g(r)[s] = g(r)[t] /\ g(r)[s] # None => s = t
  <2>1. held(r) \in [Slots -> Experts \cup {None}]
    BY <1>2 DEF LayerMaps
  <2>2. ASSUME NEW s \in Slots, NEW t \in Slots,
               held(r)[s] = held(r)[t], held(r)[s] # None
        PROVE  s = t
    <3>1. <<r, s>> \in Positions /\ <<r, t>> \in Positions
      BY <1>2
    <3>2. cur[<<r, s>>] = cur[<<r, t>>] /\ cur[<<r, s>>] # None
      BY <2>2
    <3>3. <<r, s>>[1] = <<r, t>>[1]
      OBVIOUS
    <3>4. <<r, s>> = <<r, t>>
      BY ONLY <3>1, <3>2, <3>3, HoldsOnce(cur) DEF HoldsOnce
    <3> QED BY <3>4
  <2>3. want[r] \in SUBSET Experts /\ Cardinality(want[r]) <= NumSlots
    BY DEF Wants
  <2>4. PICK h : h = g(r)
    OBVIOUS
  <2> HIDE DEF held
  <2> QED BY <2>1, <2>2, <2>3, RearrangedRight
<1>4. m = [p \in Positions |-> g(p[1])[p[2]]]
  BY DEF Goal
<1> HIDE DEF g
<1>5. \A p \in Positions : m[p] = g(p[1])[p[2]]
  BY <1>4
<1>6. m \in LayerMaps
  <2>1. \A p \in Positions : g(p[1])[p[2]] \in Experts \cup {None}
    BY <1>1, <1>3 DEF Wants
  <2> QED BY <1>4, <2>1 DEF LayerMaps
<1>7. HoldsOnce(m)
  <2> SUFFICES ASSUME NEW p \in Positions, NEW q \in Positions,
                      p[1] = q[1], m[p] = m[q], m[p] # None
               PROVE  p = q
    BY DEF HoldsOnce
  <2>1. p[2] = q[2]
    BY <1>1, <1>3, <1>5
  <2> QED BY <1>1, <2>1
<1>8. ASSUME NEW e \in Experts
      PROVE  \E p \in Positions : m[p] = e
  <2>1. PICK r \in Ranks : e \in want[r]
    BY DEF Wants
  <2>2. PICK s \in Slots : g(r)[s] = e
    BY <1>3, <2>1
  <2>3. <<r, s>> \in Positions /\ m[<<r, s>>] = e
    BY <1>2, <1>5, <2>2
  <2> QED BY <2>3
<1> QED BY <1>6, <1>7, <1>8 DEF Good

(* The source of an addition holds the expert.                                *)
LEMMA SourceHolds ==
    ASSUME NEW cur \in LayerMaps, NEW e, NEW used \in [Ranks -> Nat],
           \E p \in Positions : cur[p] = e
    PROVE  Source(cur, e, used) \in Positions /\ cur[Source(cur, e, used)] = e
<1> DEFINE holders == {p \in Positions : cur[p] = e}
           counts == {used[p[1]] : p \in holders}
<1>1. \A p \in Positions : p[1] \in Ranks /\ p[1] \in Nat
  BY DEF Positions, Ranks
<1>2. counts \in SUBSET Nat /\ counts # {}
  BY <1>1
<1>3. PICK m \in counts : \A x \in counts : m <= x
  <2> HIDE DEF counts
  <2> QED BY <1>2, LeastNumber
<1> DEFINE least == {p \in holders : used[p[1]] = m}
           ranks == {p[1] : p \in least}
<1>4. ranks \in SUBSET Nat /\ ranks # {}
  BY <1>1
<1>5. PICK r \in ranks : \A x \in ranks : r <= x
  <2> HIDE DEF ranks
  <2> QED BY <1>4, LeastNumber
<1>6. PICK q \in least : q[1] = r
  OBVIOUS
<1> DEFINE Best(p) == /\ cur[p] = e
                      /\ \A o \in Positions : cur[o] = e =>
                            \/ used[p[1]] < used[o[1]]
                            \/ used[p[1]] = used[o[1]] /\ p[1] <= o[1]
<1>7. q \in Positions /\ Best(q)
  <2>1. q \in Positions /\ cur[q] = e /\ used[q[1]] = m
    OBVIOUS
  <2>2. ASSUME NEW o \in Positions, cur[o] = e
        PROVE  \/ used[q[1]] < used[o[1]]
               \/ used[q[1]] = used[o[1]] /\ q[1] <= o[1]
    <3>1. m <= used[o[1]] /\ used[o[1]] \in Nat /\ m \in Nat
      BY <1>1, <1>2, <1>3, <2>2
    <3>2. CASE used[o[1]] = m
      <4>1. o[1] \in ranks
        BY <2>2, <3>2
      <4> QED BY <1>5, <1>6, <2>1, <3>2, <4>1
    <3>3. CASE used[o[1]] # m
      BY <2>1, <3>1, <3>3
    <3> QED BY <3>2, <3>3
  <2> QED BY <2>1, <2>2
<1>8. Source(cur, e, used) = CHOOSE p \in Positions : Best(p)
  BY DEF Source
<1> HIDE DEF Best
<1>9. Source(cur, e, used) \in Positions /\ Best(Source(cur, e, used))
  BY <1>7, <1>8
<1> QED BY <1>9 DEF Best

(* The instruction i takes position p of layer l to what is to be there.      *)
Takes(i, l, cur, p, e) ==
    /\ i \in Instructions /\ i.layer = l /\ i.to = p /\ i.expert = e
    /\ e # None => i.from \in Positions /\ cur[i.from] = e

Plans == [plan : SUBSET Instructions, used : [Ranks -> Nat]]

(* A turn plans one instruction, if there is something to change.             *)
LEMMA AddTurn ==
    ASSUME NEW l \in Layers, NEW cur \in LayerMaps,
           \A e \in Experts : \E p \in Positions : cur[p] = e,
           NEW p \in Positions, NEW e \in Experts \cup {None}, NEW acc \in Plans
    PROVE  /\ Add(acc, l, cur, p, e) \in Plans
           /\ e = cur[p] => Add(acc, l, cur, p, e) = acc
           /\ e # cur[p] => \E i : /\ Takes(i, l, cur, p, e)
                                   /\ Add(acc, l, cur, p, e).plan = acc.plan \cup {i}
<1> DEFINE from == IF e = None THEN NoSource ELSE Source(cur, e, acc.used)
           i == [layer |-> l, to |-> p, expert |-> e, from |-> from]
<1>1. acc.plan \in SUBSET Instructions /\ acc.used \in [Ranks -> Nat]
  BY DEF Plans
<1>2. e # None => from \in Positions /\ cur[from] = e
  BY <1>1, SourceHolds
<1>3. from \in Positions \cup {NoSource}
  BY <1>2
<1> HIDE DEF from
<1>4. i \in Instructions
  BY <1>3 DEF Instructions
<1>5. Takes(i, l, cur, p, e)
  BY <1>2, <1>4 DEF Takes
<1>6. p[1] \in Ranks /\ (e # None => from[1] \in Ranks)
  BY <1>2 DEF Positions
<1>7. CASE e = cur[p]
  BY <1>7 DEF Add
<1>8. CASE e # cur[p] /\ e = None
  <2>1. Add(acc, l, cur, p, e) = [acc EXCEPT !.plan = @ \cup {i}]
    BY <1>8 DEF Add, from
  <2>2. Add(acc, l, cur, p, e) = [plan |-> acc.plan \cup {i}, used |-> acc.used]
    BY <2>1 DEF Plans
  <2>3. Add(acc, l, cur, p, e) \in Plans /\ Add(acc, l, cur, p, e).plan = acc.plan \cup {i}
    BY <1>1, <1>4, <2>2 DEF Plans
  <2> QED BY <1>5, <1>8, <2>3
<1>9. CASE e # cur[p] /\ e # None
  <2> DEFINE used1 == [acc.used EXCEPT ![p[1]] = @ + 1]
             used2 == [used1 EXCEPT ![from[1]] = @ + 1]
  <2>1. used2 = [acc.used EXCEPT ![p[1]] = @ + 1, ![from[1]] = @ + 1]
    OBVIOUS
  <2>2. Add(acc, l, cur, p, e) = [plan |-> acc.plan \cup {i}, used |-> used2]
    BY <1>9, <2>1 DEF Add, from
  <2>3. used1 \in [Ranks -> Nat] /\ used2 \in [Ranks -> Nat]
    BY <1>1, <1>6, <1>9
  <2> HIDE DEF used2, i
  <2>4. Add(acc, l, cur, p, e) \in Plans /\ Add(acc, l, cur, p, e).plan = acc.plan \cup {i}
    BY <1>1, <1>4, <2>2, <2>3 DEF Plans
  <2> QED BY <1>5, <1>9, <2>4
<1> QED BY <1>7, <1>8, <1>9

(* Slotwise lists every position once.                                        *)
LEMMA EachPositionOnce ==
    /\ NumRanks * NumSlots \in Nat
    /\ \A k \in 1..(NumRanks * NumSlots) : Slotwise[k] \in Positions
    /\ \A k, m \in 1..(NumRanks * NumSlots) : Slotwise[k] = Slotwise[m] => k = m
    /\ \A p \in Positions : \E k \in 1..(NumRanks * NumSlots) : Slotwise[k] = p
<1> DEFINE R == NumRanks
           S == NumSlots
           n == R * S
<1>1. R \in Nat \ {0} /\ S \in Nat \ {0} /\ n \in Nat
  BY Constants
<1>2. \A a \in Nat : /\ a % R \in 0..(R - 1) /\ a \div R \in Nat
                     /\ a = R * (a \div R) + (a % R)
  BY <1>1
<1>3. ASSUME NEW a \in Nat, NEW q \in Nat, NEW m \in 0..(R - 1), a = R * q + m
      PROVE  a \div R = q /\ a % R = m
  BY <1>1, <1>3
<1>4. \A a \in Nat : a < n => a \div R < S
  BY <1>1, <1>2
<1>5. \A k \in 1..n : Slotwise[k] = <<((k - 1) % R) + 1, ((k - 1) \div R) + 1>>
  BY DEF Slotwise
<1>6. \A k \in 1..n : k - 1 \in Nat /\ k - 1 < n
  BY <1>1
<1>7. \A k \in 1..n : Slotwise[k] \in Positions
  <2> TAKE k \in 1..n
  <2>1. /\ ((k - 1) % R) \in 0..(R - 1)
        /\ ((k - 1) \div R) \in Nat /\ ((k - 1) \div R) < S
    BY <1>2, <1>4, <1>6
  <2>2. ((k - 1) % R) + 1 \in 1..R /\ ((k - 1) \div R) + 1 \in 1..S
    BY <1>1, <2>1
  <2>3. Positions = (1..R) \X (1..S)
    BY DEF Positions, Ranks, Slots
  <2>4. Slotwise[k] = <<((k - 1) % R) + 1, ((k - 1) \div R) + 1>>
    BY <1>5
  <2>5. \A x \in 1..R, y \in 1..S : <<x, y>> \in Positions
    BY <2>3
  <2> QED BY ONLY <2>2, <2>4, <2>5
<1>8. ASSUME NEW k \in 1..n, NEW m \in 1..n, Slotwise[k] = Slotwise[m]
      PROVE  k = m
  <2>1. /\ ((k - 1) % R) + 1 = ((m - 1) % R) + 1
        /\ ((k - 1) \div R) + 1 = ((m - 1) \div R) + 1
    BY <1>5, <1>8
  <2>2. ((k - 1) % R) = ((m - 1) % R) /\ ((k - 1) \div R) = ((m - 1) \div R)
    BY <1>2, <1>6, <2>1
  <2>3. /\ k - 1 = R * ((k - 1) \div R) + ((k - 1) % R)
        /\ m - 1 = R * ((m - 1) \div R) + ((m - 1) % R)
    BY <1>2, <1>6
  <2>4. k - 1 = m - 1
    BY <2>2, <2>3
  <2> QED BY <2>4
<1>9. ASSUME NEW p \in Positions
      PROVE  \E k \in 1..n : Slotwise[k] = p
  <2>1. p[1] \in 1..R /\ p[2] \in 1..S /\ p = <<p[1], p[2]>>
    BY DEF Positions, Ranks, Slots
  <2> DEFINE a == R * (p[2] - 1) + (p[1] - 1)
  <2>2. a \in Nat /\ p[2] - 1 \in Nat /\ p[1] - 1 \in 0..(R - 1)
    BY <1>1, <2>1
  <2>3. a \div R = p[2] - 1 /\ a % R = p[1] - 1
    <3> HIDE DEF R
    <3> QED BY <1>3, <2>2
  <2>4. a < n
    BY <1>1, <2>1
  <2>5. a + 1 \in 1..n /\ (a + 1) - 1 = a
    BY <1>1, <2>2, <2>4
  <2>6. Slotwise[a + 1] = <<p[1], p[2]>>
    <3> HIDE DEF a
    <3> QED BY <1>5, <2>1, <2>3, <2>5
  <2> QED BY <2>1, <2>5, <2>6
<1> QED BY <1>1, <1>7, <1>8, <1>9

(* The instructions planned for a layer are one for each position that is to  *)
(* change.                                                                    *)
PlanFor(P, l, cur, goal) ==
    /\ \A i \in P : /\ Takes(i, l, cur, i.to, goal[i.to])
                    /\ i.to \in Positions /\ goal[i.to] # cur[i.to]
    /\ \A p \in Positions : goal[p] # cur[p] => \E i \in P : i.to = p
    /\ \A i, j \in P : i.to = j.to => i = j

LEMMA LayerInstructionsRight ==
    ASSUME NEW l \in Layers, NEW cur \in LayerMaps,
           \A e \in Experts : \E p \in Positions : cur[p] = e,
           NEW want, Goal(cur, want) \in LayerMaps
    PROVE  PlanFor(LayerInstructions(l, cur, want), l, cur, Goal(cur, want))
<1> DEFINE goal == Goal(cur, want)
           n == NumRanks * NumSlots
           none == [plan |-> {}, used |-> [r \in Ranks |-> 0]]
           Turn(acc, k) == CHOOSE x \in {Add(a, l, cur, Slotwise[k], goal[Slotwise[k]]) :
                                           a \in {acc}} : TRUE
           F == [a \in Plans \X (1..n) |-> Turn(a[1], a[2])]
           Step(g, s) == IF s = {} THEN none ELSE Turn(g[s \ {Max(s)}], Max(s))
           Loops(g) == g = [s \in SUBSET (DOMAIN Slotwise) |-> Step(g, s)]
           h == CHOOSE g : Loops(g)
<1>1. n \in Nat /\ none \in Plans
  BY EachPositionOnce DEF Plans
<1>2. \A k \in 1..n : Slotwise[k] \in Positions /\ goal[Slotwise[k]] \in Experts \cup {None}
  BY EachPositionOnce DEF LayerMaps
<1>3. \A acc \in Plans, k \in 1..n : Turn(acc, k) \in Plans
  <2> TAKE acc \in Plans, k \in 1..n
  <2>1. Add(acc, l, cur, Slotwise[k], goal[Slotwise[k]]) \in Plans
    <3> HIDE DEF goal
    <3> QED BY <1>2, AddTurn
  <2> HIDE DEF goal
  <2> QED BY <2>1
<1>10. DOMAIN Slotwise = 1..n
  BY DEF Slotwise
<1>4. F \in [Plans \X (1..n) -> Plans]
  <2> HIDE DEF Turn
  <2> QED BY <1>3
<1>5. /\ \A k \in 1..n : Max(1..k) = k /\ (1..k) \ {k} = 1..(k - 1)
      /\ \A s \in SUBSET (1..n) : s # {} => Max(s) \in 1..n
      /\ \E g \in [SUBSET (1..n) -> Plans] : IsLoop(g, n, none, F)
  <2> HIDE DEF n, F, none
  <2> QED BY <1>1, <1>4, LoopExists
<1>6. \E g : Loops(g)
  <2>1. PICK g \in [SUBSET (1..n) -> Plans] : IsLoop(g, n, none, F)
    BY <1>5
  <2>2. ASSUME NEW s \in SUBSET (1..n), s # {}
        PROVE  F[<<g[s \ {Max(s)}], Max(s)>>] = Turn(g[s \ {Max(s)}], Max(s))
    <3>1. Max(s) \in 1..n
      BY <1>5, <2>2
    <3>2. g[s \ {Max(s)}] \in Plans
      OBVIOUS
    <3> HIDE DEF Turn
    <3> QED BY <3>1, <3>2
  <2>3. \A s \in SUBSET (1..n) :
          (IF s = {} THEN none ELSE F[<<g[s \ {Max(s)}], Max(s)>>]) = Step(g, s)
    BY <2>2
  <2> HIDE DEF Step, F, n, none
  <2>4. g = [s \in SUBSET (1..n) |-> Step(g, s)]
    BY <2>1, <2>3 DEF IsLoop
  <2> QED BY <1>10, <2>4
<1>7. Loops(h)
  <2> HIDE DEF Loops
  <2> QED BY <1>6
<1>8. LayerInstructions(l, cur, want) = h[1..n].plan
  <2>1. LayerInstructions(l, cur, want) = h[DOMAIN Slotwise].plan
    BY DEF LayerInstructions, FoldLeft, MapThenFoldSet
  <2> HIDE DEF h
  <2> QED BY <1>10, <2>1
<1> HIDE DEF h
<1>9. h[1..0] = none /\ \A k \in 1..n : h[1..k] = Turn(h[1..(k - 1)], k)
  <2>1. h = [s \in SUBSET (1..n) |-> Step(h, s)]
    BY <1>7, <1>10
  <2>2. 1..0 = {} /\ \A k \in 1..n : 1..k # {} /\ 1..k \in SUBSET (1..n)
    <3> HIDE DEF n
    <3> QED BY <1>1
  <2>3. h[{}] = Step(h, {})
    <3> HIDE DEF Step
    <3> QED BY <2>1
  <2>4. \A k \in 1..n : h[1..k] = Step(h, 1..k)
    <3> HIDE DEF Step
    <3> QED BY <2>1, <2>2
  <2> HIDE DEF Turn, n, none
  <2> QED BY <1>5, <2>2, <2>3, <2>4
<1>11. \A acc \in Plans, k \in 1..n :
          /\ goal[Slotwise[k]] = cur[Slotwise[k]] => Turn(acc, k) = acc
          /\ goal[Slotwise[k]] # cur[Slotwise[k]] =>
                \E i : /\ Takes(i, l, cur, Slotwise[k], goal[Slotwise[k]])
                       /\ Turn(acc, k).plan = acc.plan \cup {i}
  <2> TAKE acc \in Plans, k \in 1..n
  <2>1. Turn(acc, k) = Add(acc, l, cur, Slotwise[k], goal[Slotwise[k]])
    <3> HIDE DEF goal
    <3> QED OBVIOUS
  <2> HIDE DEF goal, Turn
  <2> QED BY <1>2, <2>1, AddTurn
<1> DEFINE changes(p) == goal[p] # cur[p]
           Upto(k) ==
             /\ h[1..k] \in Plans
             /\ \A i \in h[1..k].plan :
                   /\ Takes(i, l, cur, i.to, goal[i.to]) /\ changes(i.to)
                   /\ \E m \in 1..k : i.to = Slotwise[m]
             /\ \A m \in 1..k : changes(Slotwise[m]) => \E i \in h[1..k].plan : i.to = Slotwise[m]
             /\ \A i, j \in h[1..k].plan : i.to = j.to => i = j
<1> HIDE DEF goal, Turn, n
<1>12. Upto(0)
  <2>1. h[1..0] = none /\ none.plan = {}
    BY <1>9
  <2>2. \A m \in 1..0 : FALSE
    OBVIOUS
  <2> HIDE DEF none
  <2> QED BY <1>1, <2>1, <2>2
<1>13. ASSUME NEW k \in Nat, k < n, Upto(k)
       PROVE  Upto(k + 1)
  <2> DEFINE a == h[1..k]
             p == Slotwise[k + 1]
  <2>1. k + 1 \in 1..n /\ (k + 1) - 1 = k
    BY <1>1, <1>13
  <2>2. h[1..(k + 1)] = Turn(a, k + 1)
    BY <1>9, <2>1
  <2>3. PICK b : b = h[1..(k + 1)]
    OBVIOUS
  <2>4. b \in Plans
    BY <1>3, <1>13, <2>1, <2>2, <2>3
  <2>5. \A m : m \in 1..(k + 1) <=> m \in 1..k \/ m = k + 1
    BY <1>13
  <2>6. \A m \in 1..k : Slotwise[m] # p
    <3> TAKE m \in 1..k
    <3>1. m \in 1..n /\ m # k + 1
      BY <1>1, <1>13
    <3> QED BY <2>1, <3>1, EachPositionOnce DEF n
  <2>7. \A i \in a.plan : i.to # p
    BY <1>13, <2>6
  <2>8. CASE ~changes(p)
    <3>1. b = a
      BY <1>11, <1>13, <2>1, <2>2, <2>3, <2>8
    <3> HIDE DEF changes
    <3> QED BY <1>13, <2>3, <2>5, <2>8, <3>1
  <2>9. CASE changes(p)
    <3>1. PICK i : Takes(i, l, cur, p, goal[p]) /\ b.plan = a.plan \cup {i}
      BY <1>11, <1>13, <2>1, <2>2, <2>3, <2>9
    <3>2. i.to = p
      BY <3>1 DEF Takes
    <3> HIDE DEF changes, p, a
    <3>3. \A j \in b.plan : /\ Takes(j, l, cur, j.to, goal[j.to]) /\ changes(j.to)
                            /\ \E m \in 1..(k + 1) : j.to = Slotwise[m]
      <4> TAKE j \in b.plan
      <4>1. CASE j = i
        <5>1. k + 1 \in 1..(k + 1)
          BY <2>5
        <5> QED BY <2>9, <3>1, <3>2, <4>1, <5>1 DEF p
      <4>2. CASE j \in a.plan
        BY <1>13, <2>5, <4>2 DEF a
      <4> QED BY <3>1, <4>1, <4>2
    <3>4. \A m \in 1..(k + 1) : changes(Slotwise[m]) => \E j \in b.plan : j.to = Slotwise[m]
      <4> TAKE m \in 1..(k + 1)
      <4>1. CASE m = k + 1
        BY <3>1, <3>2, <4>1 DEF p
      <4>2. CASE m \in 1..k
        BY <1>13, <3>1, <4>2 DEF a
      <4> QED BY <2>5, <4>1, <4>2
    <3>5. \A j, m \in b.plan : j.to = m.to => j = m
      BY <1>13, <2>7, <3>1, <3>2 DEF a
    <3> QED BY <2>3, <2>4, <3>3, <3>4, <3>5
  <2> QED BY <2>8, <2>9
<1>14. Upto(n)
  <2> DEFINE T == {k \in Nat : Upto(k)}
  <2> HIDE DEF Upto
  <2>1. 0 \in T /\ \A k \in T : k < n => k + 1 \in T
    BY <1>12, <1>13
  <2>2. T \in SUBSET Nat
    OBVIOUS
  <2> HIDE DEF T
  <2>3. n \in T
    BY <1>1, <2>1, <2>2, CountedInduction
  <2> QED BY <2>3 DEF T
<1>15. \A p \in Positions : \E k \in 1..n : Slotwise[k] = p
  BY EachPositionOnce DEF n
<1>16. \A k \in 1..n : Slotwise[k] \in Positions
  BY EachPositionOnce DEF n
<1>17. PlanFor(h[1..n].plan, l, cur, goal)
  BY <1>14, <1>15, <1>16 DEF PlanFor
<1> QED BY <1>8, <1>17 DEF goal

(* What is taken for the next round fits into the buffers of every rank.      *)
LEMMA NextLayersFit == NextLayers \subseteq Layers /\ Fits(NextLayers)
<1> DEFINE V == {L \in SUBSET Layers : Fits(L)}
           n == NumLayers
           Merge(L, l) == IF Fits(L \cup {l}) THEN L \cup {l} ELSE L
           order == [l \in Layers |-> l]
           F == [a \in V \X (1..n) |-> Merge(a[1], a[2])]
           Step(g, s) == IF s = {} THEN {} ELSE Merge(g[s \ {Max(s)}], order[Max(s)])
           Loops(g) == g = [s \in SUBSET (DOMAIN order) |-> Step(g, s)]
           h == CHOOSE g : Loops(g)
<1>1. {} \in V
  <2>1. \A r \in Ranks : {i \in todo : i.layer \in {} /\ i.to[1] = r} = {}
    OBVIOUS
  <2> QED BY <2>1, FS_EmptySet, Constants DEF Fits
<1>2. n \in Nat /\ Layers = 1..n /\ DOMAIN order = 1..n
  BY Constants DEF Layers
<1>3. \A L \in V, l \in 1..n : Merge(L, l) \in V
  BY <1>2
<1>4. F \in [V \X (1..n) -> V]
  <2> HIDE DEF V, Merge
  <2> QED BY <1>3
<1>5. /\ \A k \in 1..n : Max(1..k) = k /\ (1..k) \ {k} = 1..(k - 1)
      /\ \A s \in SUBSET (1..n) : s # {} => Max(s) \in 1..n
      /\ \E g \in [SUBSET (1..n) -> V] : IsLoop(g, n, {}, F)
  <2> HIDE DEF n, F, V
  <2> QED BY <1>1, <1>2, <1>4, LoopExists
<1>6. PICK g \in [SUBSET (1..n) -> V] : IsLoop(g, n, {}, F)
  BY <1>5
<1>7. Loops(g)
  <2>1. ASSUME NEW s \in SUBSET (1..n), s # {}
        PROVE  F[<<g[s \ {Max(s)}], Max(s)>>] = Merge(g[s \ {Max(s)}], order[Max(s)])
    <3>1. Max(s) \in 1..n /\ order[Max(s)] = Max(s)
      BY <1>2, <1>5, <2>1
    <3>2. g[s \ {Max(s)}] \in V
      BY <1>6
    <3> HIDE DEF Merge, V
    <3> QED BY <3>1, <3>2
  <2>2. \A s \in SUBSET (1..n) :
          (IF s = {} THEN {} ELSE F[<<g[s \ {Max(s)}], Max(s)>>]) = Step(g, s)
    BY <2>1
  <2> HIDE DEF Step, F, V, n, order
  <2>3. g = [s \in SUBSET (1..n) |-> Step(g, s)]
    BY <1>6, <2>2 DEF IsLoop
  <2> QED BY <1>2, <2>3
<1>8. Loops(h)
  <2> HIDE DEF Loops
  <2> QED BY <1>7
<1>9. NextLayers = h[1..n]
  <2>1. NextLayers = h[DOMAIN order]
    BY DEF NextLayers, FoldLeft, MapThenFoldSet
  <2> HIDE DEF h
  <2> QED BY <1>2, <2>1
<1> HIDE DEF h
<1>10. h[1..0] = {} /\ \A k \in 1..n : h[1..k] = Merge(h[1..(k - 1)], k)
  <2>1. h = [s \in SUBSET (1..n) |-> Step(h, s)]
    BY <1>2, <1>8
  <2>2. 1..0 = {} /\ \A k \in 1..n : 1..k # {} /\ 1..k \in SUBSET (1..n) /\ order[k] = k
    <3>1. \A k \in 1..n : order[k] = k
      BY <1>2
    <3> HIDE DEF n, order
    <3> QED BY <1>2, <3>1
  <2>3. h[{}] = Step(h, {})
    <3> HIDE DEF Step
    <3> QED BY <2>1
  <2>4. \A k \in 1..n : h[1..k] = Step(h, 1..k)
    <3> HIDE DEF Step
    <3> QED BY <2>1, <2>2
  <2>5. ASSUME NEW k \in 1..n
        PROVE  h[1..k] = Merge(h[1..(k - 1)], k)
    <3>1. (1..k) \ {Max(1..k)} = 1..(k - 1) /\ order[Max(1..k)] = k
      <4> HIDE DEF n, order
      <4> QED BY <1>5, <2>2
    <3>2. h[1..k] = Merge(h[(1..k) \ {Max(1..k)}], order[Max(1..k)])
      <4> HIDE DEF Merge, n, order
      <4> QED BY <2>2, <2>4
    <3> HIDE DEF Merge, n, order
    <3> QED BY <3>1, <3>2
  <2> HIDE DEF Merge, n
  <2> QED BY <2>2, <2>3, <2>5
<1>11. h[1..n] \in V
  <2> DEFINE T == {k \in Nat : k <= n => h[1..k] \in V}
  <2>1. 0 \in T
    BY <1>1, <1>10
  <2>2. \A k \in T : k < n => k + 1 \in T
    <3> TAKE k \in T
    <3> SUFFICES ASSUME k < n PROVE h[1..(k + 1)] \in V
      OBVIOUS
    <3>1. k + 1 \in 1..n /\ (k + 1) - 1 = k /\ h[1..k] \in V
      BY <1>2
    <3>2. h[1..(k + 1)] = Merge(h[1..k], k + 1)
      <4> HIDE DEF Merge, V
      <4> QED BY <1>10, <3>1
    <3> HIDE DEF Merge, V
    <3> QED BY <1>3, <3>1, <3>2
  <2>3. T \in SUBSET Nat
    OBVIOUS
  <2>4. n \in T
    <3> HIDE DEF T, n
    <3> QED BY <1>2, <2>1, <2>2, <2>3, CountedInduction
  <2> HIDE DEF n
  <2> QED BY <1>2, <2>4
<1> QED BY <1>9, <1>11

(* Instructions are finitely many.                                            *)
LEMMA FinitelyManyInstructions ==
    /\ IsFiniteSet(Instructions) /\ IsFiniteSet(Layers \X Positions)
<1>1. /\ IsFiniteSet(Layers) /\ IsFiniteSet(Ranks) /\ IsFiniteSet(Slots)
      /\ IsFiniteSet(Experts)
  BY Constants, FS_Interval DEF Layers, Ranks
<1>2. IsFiniteSet(Positions)
  BY <1>1, FS_Product DEF Positions
<1>3. IsFiniteSet(Positions \cup {NoSource}) /\ IsFiniteSet(Experts \cup {None})
  BY <1>1, <1>2, FS_AddElement
<1>4. IsFiniteSet(Layers \X Positions)
  BY <1>1, <1>2, FS_Product
<1> DEFINE A == Layers \X Positions
           B == (Experts \cup {None}) \X (Positions \cup {NoSource})
           f == [i \in Instructions |-> <<<<i.layer, i.to>>, <<i.expert, i.from>>>>]
<1>5. IsFiniteSet(B)
  BY <1>3, FS_Product
<1>6. IsFiniteSet(A \X B)
  <2> HIDE DEF A, B
  <2> QED BY <1>4, <1>5, FS_Product DEF A
<1>7. f \in Injection(Instructions, A \X B)
  <2>1. f \in [Instructions -> A \X B]
    BY DEF Instructions
  <2>2. \A i, j \in Instructions : f[i] = f[j] => i = j
    BY DEF Instructions
  <2> HIDE DEF f
  <2> QED BY <2>1, <2>2 DEF Injection, IsInjective
<1>8. IsFiniteSet(Instructions)
  <2> HIDE DEF f, A, B
  <2> QED BY <1>6, <1>7, FS_Injection
<1> QED BY <1>4, <1>8

----------------------------------------------------------------------------
(* The invariant *)

(* The parts of TypeOK but the bound on the buffers, which follows from Room, *)
(* and where the main threads are; an addition has a source.                  *)
Typing ==
    /\ pos \in [Ranks -> PlacementMaps] /\ route \in [Ranks -> PlacementMaps]
    /\ hbm \in PlacementMaps
    /\ updated \in [Ranks -> SUBSET Layers]
    /\ buf \in [Ranks -> SUBSET [layer : Layers, to : Positions, weights : Experts]]
    /\ \A r \in Ranks : \A b \in buf[r] : b.to[1] = r
    /\ ready \in [Ranks -> BOOLEAN] /\ turn \in [Ranks -> BOOLEAN]
    /\ pc \in [Ranks -> {"collect", "shake", "map", "move", "wait"}]
    /\ todo \subseteq Instructions /\ round \subseteq Instructions
    /\ batch \subseteq Instructions
    /\ \A i \in todo \cup round \cup batch : i.expert # None => i.from \in Positions

SamePlace(i, j) == i.layer = j.layer /\ i.to = j.to

(* No position is changed twice in a plan, or received twice in a round.      *)
OneEach ==
    /\ \A i, j \in todo : SamePlace(i, j) => i = j
    /\ \A i, j \in round \cup batch : SamePlace(i, j) => i = j
    /\ round \cap batch = {}
    /\ \A r \in Ranks : \A b, c \in buf[r] : SamePlace(b, c) => b = c

(* The worker of r has not done its part of the batch.                        *)
Busy(r) == pc[r] \in {"map", "move"}

(* Rounds are of whole layers.                                                *)
WholeLayers ==
    \A i \in todo :
       /\ \A j \in round : j.layer # i.layer
       /\ \A r \in Ranks : /\ \A b \in buf[r] : b.layer # i.layer
                           /\ Busy(r) => \A j \in batch : j.layer # i.layer

(* What is buffered has been received: not yet for the round's other          *)
(* instructions.                                                              *)
Received ==
    \A r \in Ranks : \A b \in buf[r] : \A i \in round \cup batch :
       SamePlace(b, i) => i \in batch /\ ~Busy(r)

(* The ends of an exchange are done with it together.                         *)
BothEnds ==
    \A i \in batch : i.expert # None => (Busy(i.to[1]) <=> Busy(i.from[1]))

(* A rank that moves weights has the batch in its map.                        *)
Moved == \A r \in Ranks : pc[r] = "move" => \A i \in batch : pos[r][i.layer][i.to] = i.expert

Phases ==
    \A r \in Ranks : /\ ready[r] => pc[r] = "wait"
                     /\ pc[r] \in {"wait", "collect"} => round = {}

(* A rank has a buffer for what it has received and will receive in the round. *)
Places(r) ==
    {<<b.layer, b.to>> : b \in buf[r]} \cup
    {<<i.layer, i.to>> : i \in {j \in round \cup batch : j.to[1] = r}}

Room == \A r \in Ranks : Cardinality(Places(r)) <= NumSlots

(* The map of a rank with the batch under way in it: the ranks have the same. *)
Ahead(r) == IF pc[r] = "map" THEN Applied(pos[r], batch) ELSE pos[r]

SameMap == \A r, q \in Ranks : Ahead(r) = Ahead(q)

(* The maps serve that the ranks route by, that the round and the plan lead   *)
(* to.                                                                        *)
Serve ==
    \A r \in Ranks, l \in Layers :
       /\ Good(route[r][l]) /\ Good(Applied(Ahead(r), round)[l])
       /\ (\E i \in todo : i.layer = l) => Good(Applied(Ahead(r), todo)[l])

(* The source of an addition that is to come holds the expert's weights.      *)
Sources ==
    \A i \in todo \cup round \cup batch :
       i.expert # None /\ (i \in todo \cup round \/ Busy(i.from[1]))
          => hbm[i.layer][i.from] = i.expert

(* A rank holds what its map says, or has it in a buffer, or receives it now. *)
Coming(l, p) ==
    pc[p[1]] = "move" /\ \E i \in batch : i.layer = l /\ i.to = p /\ i.expert # None

MapHeld ==
    \A l \in Layers, p \in Positions :
       pos[p[1]][l][p] # None /\ ~Coming(l, p) =>
          LET here == {b \in buf[p[1]] : b.layer = l /\ b.to = p}
          IN  /\ \A b \in here : b.weights = pos[p[1]][l][p]
              /\ here = {} => hbm[l][p] = pos[p[1]][l][p]

(* A rank routes by its map, but for the layers it has marked, and holds what *)
(* it routes to itself.                                                       *)
RoutesHeld ==
    \A r \in Ranks, l \in Layers :
       /\ l \notin updated[r] => route[r][l] = pos[r][l]
       /\ \A p \in Positions : p[1] = r /\ route[r][l][p] # None => hbm[l][p] = route[r][l][p]

(* The rank r has installed all there is; so have all that have the same      *)
(* turn.                                                                      *)
Done(r) == round = {} /\ ~ready[r] /\ pc[r] \in {"wait", "shake", "collect"}

Turns ==
    \A r, q \in Ranks : /\ turn[r] = turn[q] <=> (Done(r) <=> Done(q))
                        /\ ~Done(r) /\ ~Done(q) => route[r] = route[q]

Installed == \A r \in Ranks : Done(r) => updated[r] = {} /\ buf[r] = {}

IInv ==
    /\ Typing /\ OneEach /\ WholeLayers /\ Received /\ BothEnds /\ Moved /\ Phases
    /\ Room /\ SameMap /\ Serve /\ Sources /\ MapHeld /\ RoutesHeld /\ Turns /\ Installed
    /\ OncePerRank(batch)

----------------------------------------------------------------------------
(* Maps *)

Unique(B) == \A i, j \in B : SamePlace(i, j) => i = j

LEMMA SameMaps ==
    ASSUME NEW m \in PlacementMaps, NEW k \in PlacementMaps,
           \A l \in Layers, p \in Positions : m[l][p] = k[l][p]
    PROVE  m = k
<1>1. ASSUME NEW l \in Layers
      PROVE  m[l] = k[l]
  <2>1. m[l] \in [Positions -> Experts \cup {None}] /\ k[l] \in [Positions -> Experts \cup {None}]
    BY DEF PlacementMaps
  <2> QED BY <2>1
<1> QED BY <1>1 DEF PlacementMaps

LEMMA AppliedMap ==
    ASSUME NEW m \in PlacementMaps, NEW B \in SUBSET Instructions, Unique(B)
    PROVE  /\ Applied(m, B) \in PlacementMaps
           /\ \A i \in B : Applied(m, B)[i.layer][i.to] = i.expert
           /\ \A l \in Layers, p \in Positions :
                 (\A i \in B : ~(i.layer = l /\ i.to = p)) => Applied(m, B)[l][p] = m[l][p]
<1> DEFINE On(l, p) == {i \in B : i.layer = l /\ i.to = p}
           At(l, p) == IF \E i \in B : i.layer = l /\ i.to = p
                       THEN (CHOOSE i \in B : i.layer = l /\ i.to = p).expert
                       ELSE m[l][p]
<1>1. \A l \in Layers, p \in Positions : Applied(m, B)[l][p] = At(l, p)
  BY DEF Applied
<1>2. \A i \in B : i.layer \in Layers /\ i.to \in Positions /\ i.expert \in Experts \cup {None}
  BY DEF Instructions
<1>3. ASSUME NEW i \in B
      PROVE  At(i.layer, i.to) = i.expert
  <2>1. \A j \in B : j.layer = i.layer /\ j.to = i.to => j = i
    BY DEF Unique, SamePlace
  <2>2. (CHOOSE j \in B : j.layer = i.layer /\ j.to = i.to) = i
    BY <2>1
  <2> QED BY <2>2
<1>4. \A l \in Layers, p \in Positions : (\A i \in B : ~(i.layer = l /\ i.to = p)) => At(l, p) = m[l][p]
  OBVIOUS
<1>5. \A l \in Layers, p \in Positions : At(l, p) \in Experts \cup {None}
  <2> TAKE l \in Layers, p \in Positions
  <2>1. CASE \E i \in B : i.layer = l /\ i.to = p
    <3>1. PICK i \in B : i.layer = l /\ i.to = p
      BY <2>1
    <3> HIDE DEF At
    <3> QED BY <1>2, <1>3, <3>1
  <2>2. CASE ~\E i \in B : i.layer = l /\ i.to = p
    <3>1. m[l][p] \in Experts \cup {None}
      BY DEF PlacementMaps
    <3> QED BY <2>2, <3>1
  <2> QED BY <2>1, <2>2
<1>6. Applied(m, B) = [l \in Layers |-> [p \in Positions |-> At(l, p)]]
  BY DEF Applied
<1> HIDE DEF At
<1>7. Applied(m, B) \in PlacementMaps
  BY <1>5, <1>6 DEF PlacementMaps
<1> QED BY <1>1, <1>2, <1>3, <1>4, <1>7

(* Only the instructions of a layer matter to its map.                        *)
LEMMA AppliedLayer ==
    ASSUME NEW l \in Layers,
           NEW m \in PlacementMaps, NEW B \in SUBSET Instructions, Unique(B),
           NEW k \in PlacementMaps, NEW D \in SUBSET Instructions, Unique(D),
           m[l] = k[l], \A i : i.layer = l => (i \in B <=> i \in D)
    PROVE  Applied(m, B)[l] = Applied(k, D)[l]
<1>1. ASSUME NEW p \in Positions
      PROVE  Applied(m, B)[l][p] = Applied(k, D)[l][p]
  <2>1. CASE \E i \in B : i.layer = l /\ i.to = p
    <3>1. PICK i \in B : i.layer = l /\ i.to = p
      BY <2>1
    <3>2. Applied(m, B)[l][p] = i.expert
      BY <3>1, AppliedMap
    <3>3. Applied(k, D)[l][p] = i.expert
      BY <3>1, AppliedMap
    <3> QED BY <3>2, <3>3
  <2>2. CASE \A i \in B : ~(i.layer = l /\ i.to = p)
    <3>1. \A i \in D : ~(i.layer = l /\ i.to = p)
      BY <2>2
    <3>2. Applied(m, B)[l][p] = m[l][p]
      BY <2>2, AppliedMap
    <3>3. Applied(k, D)[l][p] = k[l][p]
      BY <3>1, AppliedMap
    <3> QED BY <3>2, <3>3
  <2> QED BY <2>1, <2>2
<1>3. Applied(m, B) \in PlacementMaps /\ Applied(k, D) \in PlacementMaps
  BY AppliedMap
<1>2. /\ Applied(m, B)[l] \in [Positions -> Experts \cup {None}]
      /\ Applied(k, D)[l] \in [Positions -> Experts \cup {None}]
  BY <1>3 DEF PlacementMaps
<1> QED BY <1>1, <1>2

LEMMA AppliedNone ==
    ASSUME NEW m \in PlacementMaps
    PROVE  Applied(m, {}) = m
<1>1. Unique({}) /\ {} \in SUBSET Instructions
  BY DEF Unique
<1>2. Applied(m, {}) \in PlacementMaps
  BY <1>1, AppliedMap
<1>3. \A l \in Layers, p \in Positions : Applied(m, {})[l][p] = m[l][p]
  BY <1>1, AppliedMap
<1> QED BY <1>2, <1>3, SameMaps

(* Instructions may be applied in two parts.                                  *)
LEMMA AppliedParts ==
    ASSUME NEW m \in PlacementMaps, NEW D \in SUBSET Instructions, Unique(D),
           NEW B \in SUBSET D
    PROVE  Applied(Applied(m, B), D \ B) = Applied(m, D)
<1>1. Unique(B) /\ Unique(D \ B) /\ B \in SUBSET Instructions /\ D \ B \in SUBSET Instructions
  BY DEF Unique
<1>2. PICK k : k = Applied(m, B)
  OBVIOUS
<1>3. k \in PlacementMaps
  BY <1>1, <1>2, AppliedMap
<1>4. Applied(k, D \ B) \in PlacementMaps /\ Applied(m, D) \in PlacementMaps
  BY <1>1, <1>3, AppliedMap
<1>5. ASSUME NEW l \in Layers, NEW p \in Positions
      PROVE  Applied(k, D \ B)[l][p] = Applied(m, D)[l][p]
  <2>1. CASE \E i \in D \ B : i.layer = l /\ i.to = p
    <3>1. PICK i \in D \ B : i.layer = l /\ i.to = p
      BY <2>1
    <3>2. Applied(k, D \ B)[l][p] = i.expert
      BY <1>1, <1>3, <3>1, AppliedMap
    <3>3. Applied(m, D)[l][p] = i.expert
      BY <3>1, AppliedMap
    <3> QED BY <3>2, <3>3
  <2>2. CASE \A i \in D \ B : ~(i.layer = l /\ i.to = p)
    <3>1. Applied(k, D \ B)[l][p] = k[l][p]
      BY <1>1, <1>3, <2>2, AppliedMap
    <3>2. CASE \E i \in B : i.layer = l /\ i.to = p
      <4>1. PICK i \in B : i.layer = l /\ i.to = p
        BY <3>2
      <4>2. k[l][p] = i.expert
        BY <1>1, <1>2, <4>1, AppliedMap
      <4>3. Applied(m, D)[l][p] = i.expert
        BY <4>1, AppliedMap
      <4> QED BY <3>1, <4>2, <4>3
    <3>3. CASE \A i \in B : ~(i.layer = l /\ i.to = p)
      <4>1. k[l][p] = m[l][p]
        BY <1>1, <1>2, <3>3, AppliedMap
      <4>2. \A i \in D : ~(i.layer = l /\ i.to = p)
        BY <2>2, <3>3
      <4>3. Applied(m, D)[l][p] = m[l][p]
        BY <4>2, AppliedMap
      <4> QED BY <3>1, <4>1, <4>3
    <3> QED BY <3>2, <3>3
  <2> QED BY <2>1, <2>2
<1> QED BY <1>2, <1>4, <1>5, SameMaps

----------------------------------------------------------------------------
(* The invariant holds at first.                                              *)
LEMMA IInvInit == Init => IInv
<1> SUFFICES ASSUME Init PROVE IInv
  OBVIOUS
<1> DEFINE empty == [p \in Positions |-> None]
<1>1. empty \in LayerMaps /\ HoldsOnce(empty)
  BY DEF LayerMaps, HoldsOnce
<1>2. \A l \in Layers : Start[l] \in Wants
  BY Constants DEF Placements, Wants
<1>3. \A l \in Layers : Goal(empty, Start[l]) \in LayerMaps /\ Good(Goal(empty, Start[l]))
  <2> HIDE DEF empty
  <2> QED BY <1>1, <1>2, GoalRight
<1> DEFINE start == [l \in Layers |-> Goal(empty, Start[l])]
<1>4. pos = [r \in Ranks |-> start] /\ route = pos
  BY DEF Init
<1>5. start \in PlacementMaps /\ \A l \in Layers : Good(start[l])
  BY <1>3 DEF PlacementMaps, LayerMaps
<1>6. hbm = start
  <2>1. hbm = pos[CHOOSE r \in Ranks : TRUE] /\ (CHOOSE r \in Ranks : TRUE) \in Ranks
    BY Constants DEF Init
  <2> HIDE DEF start
  <2> QED BY <1>4, <2>1
<1> HIDE DEF start
<1>7. \A r \in Ranks : pos[r] = start /\ route[r] = start
  BY <1>4
<1>8. Typing
  BY <1>4, <1>5, <1>6 DEF Typing, Init
<1>9. Room
  <2>1. \A r \in Ranks : Places(r) = {}
    BY DEF Places, Init
  <2> QED BY <2>1, FS_EmptySet, Constants DEF Room
<1>10. \A r \in Ranks : Ahead(r) = start
  BY <1>7 DEF Ahead, Init
<1>11. Serve
  <2>1. Applied(start, round) = start
    BY <1>5, AppliedNone DEF Init
  <2>2. todo = {}
    BY DEF Init
  <2> QED BY <1>5, <1>7, <1>10, <2>1, <2>2 DEF Serve
<1>12. OneEach /\ WholeLayers /\ Received /\ BothEnds /\ Moved /\ Phases /\ Sources
  BY DEF Init, OneEach, WholeLayers, Received, BothEnds, Moved, Phases, Sources
<1>13. SameMap
  BY <1>10 DEF SameMap
<1>14. MapHeld
  <2>1. \A p \in Positions : p[1] \in Ranks /\ buf[p[1]] = {}
    BY DEF Positions, Init
  <2> QED BY <1>6, <1>7, <2>1 DEF MapHeld
<1>15. RoutesHeld
  BY <1>6, <1>7 DEF RoutesHeld
<1>16. Turns /\ Installed
  BY DEF Turns, Installed, Done, Init
<1>17. OncePerRank(batch)
  BY DEF OncePerRank, Init
<1> QED BY <1>8, <1>9, <1>11, <1>12, <1>13, <1>14, <1>15, <1>16, <1>17 DEF IInv

----------------------------------------------------------------------------
(* Every step keeps the invariant. *)

(* What the invariant says of the sets of instructions and of the maps.       *)
LEMMA IInvSets ==
    ASSUME IInv
    PROVE  /\ todo \in SUBSET Instructions /\ Unique(todo)
           /\ round \cup batch \in SUBSET Instructions /\ Unique(round \cup batch)
           /\ round \in SUBSET Instructions /\ Unique(round)
           /\ batch \in SUBSET Instructions /\ Unique(batch)
           /\ \A i \in todo \cup round \cup batch :
                 /\ i.layer \in Layers /\ i.to \in Positions /\ i.to[1] \in Ranks
                 /\ i.expert \in Experts \cup {None}
                 /\ i.expert # None => i.from \in Positions /\ i.from[1] \in Ranks
           /\ \A r \in Ranks : pos[r] \in PlacementMaps /\ Ahead(r) \in PlacementMaps
           /\ \A r \in Ranks : \A b \in buf[r] :
                 /\ b.layer \in Layers /\ b.to \in Positions /\ b.to[1] = r
                 /\ b.weights \in Experts
<1>1. /\ todo \in SUBSET Instructions /\ Unique(todo)
      /\ round \cup batch \in SUBSET Instructions /\ Unique(round \cup batch)
      /\ round \in SUBSET Instructions /\ Unique(round)
      /\ batch \in SUBSET Instructions /\ Unique(batch)
  BY DEF IInv, Typing, OneEach, Unique
<1>2. \A i \in Instructions : /\ i.layer \in Layers /\ i.to \in Positions
                              /\ i.expert \in Experts \cup {None}
  BY DEF Instructions
<1>3. \A p \in Positions : p[1] \in Ranks
  BY DEF Positions
<1>4. \A i \in todo \cup round \cup batch : i.expert # None => i.from \in Positions
  BY DEF IInv, Typing
<1>5. \A i \in todo \cup round \cup batch :
                 /\ i.layer \in Layers /\ i.to \in Positions /\ i.to[1] \in Ranks
                 /\ i.expert \in Experts \cup {None}
                 /\ i.expert # None => i.from \in Positions /\ i.from[1] \in Ranks
  BY <1>1, <1>2, <1>3, <1>4
<1>6. \A r \in Ranks : pos[r] \in PlacementMaps
  BY DEF IInv, Typing
<1>7. \A r \in Ranks : Ahead(r) \in PlacementMaps
  BY <1>1, <1>6, AppliedMap DEF Ahead
<1>8. \A r \in Ranks : \A b \in buf[r] :
                 /\ b.layer \in Layers /\ b.to \in Positions /\ b.to[1] = r
                 /\ b.weights \in Experts
  BY DEF IInv, Typing
<1> QED BY <1>1, <1>5, <1>6, <1>7, <1>8

(* Between two plans, and two rounds, all ranks have installed all there is.  *)
LEMMA AllDone ==
    ASSUME IInv, \A r \in Ranks : Done(r)
    PROVE  /\ \A r \in Ranks : pc[r] \notin {"map", "move"} /\ buf[r] = {} /\ updated[r] = {}
           /\ \A r, q \in Ranks : pos[r] = pos[q] /\ Ahead(r) = pos[q] /\ route[r] = pos[q]
           /\ \A r \in Ranks, l \in Layers : Good(pos[r][l])
           /\ \A r \in Ranks, l \in Layers, p \in Positions :
                 pos[r][l][p] # None => hbm[l][p] = pos[r][l][p]
<1>1. \A r \in Ranks : pc[r] \notin {"map", "move"} /\ buf[r] = {} /\ updated[r] = {} /\ round = {}
  BY DEF IInv, Installed, Done
<1>2. \A r \in Ranks : Ahead(r) = pos[r]
  BY <1>1 DEF Ahead
<1>3. \A r, q \in Ranks : pos[r] = pos[q]
  BY <1>2 DEF IInv, SameMap
<1>4. \A r \in Ranks : route[r] = pos[r]
  <2> TAKE r \in Ranks
  <2>1. \A l \in Layers : route[r][l] = pos[r][l]
    BY <1>1 DEF IInv, RoutesHeld
  <2>2. route[r] \in PlacementMaps /\ pos[r] \in PlacementMaps
    BY DEF IInv, Typing
  <2> QED BY <2>1, <2>2, SameMaps
<1>5. \A r \in Ranks, l \in Layers : Good(pos[r][l])
  BY <1>4 DEF IInv, Serve
<1>6. \A r \in Ranks, l \in Layers, p \in Positions :
                 pos[r][l][p] # None => hbm[l][p] = pos[r][l][p]
  <2> SUFFICES ASSUME NEW r \in Ranks, NEW l \in Layers, NEW p \in Positions,
                      pos[r][l][p] # None
               PROVE  hbm[l][p] = pos[r][l][p]
    OBVIOUS
  <2>1. p[1] \in Ranks
    BY DEF Positions
  <2>2. ~Coming(l, p) /\ pos[p[1]] = pos[r] /\ buf[p[1]] = {}
    BY <1>1, <1>3, <2>1 DEF Coming
  <2> QED BY <2>2 DEF IInv, MapHeld
<1> QED BY <1>1, <1>2, <1>3, <1>4, <1>5, <1>6

(* A plan takes the maps of all layers to their goals, from sources that hold *)
(* what they send.                                                            *)
LEMMA PlanRight ==
    ASSUME NEW m \in PlacementMaps, \A l \in Layers : Good(m[l]),
           NEW want \in Targets, NEW P,
           P = UNION {LayerInstructions(l, m[l], want[l]) : l \in Layers}
    PROVE  /\ P \in SUBSET Instructions /\ Unique(P)
           /\ \A i \in P : i.expert # None =>
                 i.from \in Positions /\ m[i.layer][i.from] = i.expert
           /\ \A l \in Layers : Good(Applied(m, P)[l])
<1> DEFINE goal(l) == Goal(m[l], want[l])
           L(l) == LayerInstructions(l, m[l], want[l])
<1>1. \A l \in Layers : m[l] \in LayerMaps /\ want[l] \in Wants
  BY Constants DEF PlacementMaps, LayerMaps, Placements, Wants
<1>2. \A l \in Layers : goal(l) \in LayerMaps /\ Good(goal(l))
  BY <1>1, GoalRight DEF Good
<1>3. \A l \in Layers : PlanFor(L(l), l, m[l], goal(l))
  BY <1>1, <1>2, LayerInstructionsRight DEF Good
<1> HIDE DEF goal, L
<1>4. P = UNION {L(l) : l \in Layers}
  BY DEF L
<1>5. \A l \in Layers : \A i \in L(l) :
          /\ i \in Instructions /\ i.layer = l /\ i.to \in Positions
          /\ i.expert = goal(l)[i.to]
          /\ i.expert # None => i.from \in Positions /\ m[l][i.from] = i.expert
  BY <1>3 DEF PlanFor, Takes
<1>6. \A i \in P : /\ i.layer \in Layers /\ i \in L(i.layer) /\ i \in Instructions
                   /\ i.expert = goal(i.layer)[i.to]
                   /\ i.expert # None => i.from \in Positions /\ m[i.layer][i.from] = i.expert
  BY <1>4, <1>5
<1>7. P \in SUBSET Instructions /\ Unique(P)
  <2>1. \A i, j \in P : SamePlace(i, j) => i = j
    BY <1>3, <1>6 DEF PlanFor, SamePlace
  <2> QED BY <1>6, <2>1 DEF Unique
<1>8. ASSUME NEW l \in Layers
      PROVE  Good(Applied(m, P)[l])
  <2>1. ASSUME NEW p \in Positions
        PROVE  Applied(m, P)[l][p] = goal(l)[p]
    <3>1. CASE \E i \in P : i.layer = l /\ i.to = p
      <4>1. PICK i \in P : i.layer = l /\ i.to = p
        BY <3>1
      <4>2. Applied(m, P)[i.layer][i.to] = i.expert
        BY <1>7, AppliedMap
      <4> QED BY <1>6, <4>1, <4>2
    <3>2. CASE \A i \in P : ~(i.layer = l /\ i.to = p)
      <4>1. Applied(m, P)[l][p] = m[l][p]
        BY <1>7, <3>2, AppliedMap
      <4>2. \A i \in L(l) : i.to # p
        BY <1>4, <1>5, <3>2
      <4>3. goal(l)[p] = m[l][p]
        BY <1>3, <4>2 DEF PlanFor
      <4> QED BY <4>1, <4>3
    <3> QED BY <3>1, <3>2
  <2>2. Applied(m, P) \in PlacementMaps
    BY <1>7, AppliedMap
  <2>3. Applied(m, P)[l] = goal(l)
    <3>1. /\ Applied(m, P)[l] \in [Positions -> Experts \cup {None}]
          /\ goal(l) \in [Positions -> Experts \cup {None}]
      BY <1>2, <2>2 DEF PlacementMaps, LayerMaps
    <3> QED BY <2>1, <3>1
  <2> QED BY <1>2, <2>3
<1> QED BY <1>6, <1>7, <1>8

LEMMA OptimizeKeeps == ASSUME IInv, Optimize PROVE IInv'
<1>1. PICK want \in Targets, r \in Ranks :
         todo' = UNION {LayerInstructions(l, pos[r][l], want[l]) : l \in Layers}
  BY DEF Optimize
<1>2. /\ \A q \in Ranks : pc[q] = "collect" /\ pc'[q] = "shake"
      /\ pc' = [q \in Ranks |-> "shake"]
      /\ UNCHANGED <<pos, hbm, route, turn, updated, buf, ready, round, batch>>
  BY DEF Optimize, maps
<1>3. round = {} /\ \A q \in Ranks : Done(q) /\ ~ready[q]
  BY <1>2, Constants DEF IInv, Phases, Done
<1>4. /\ \A q \in Ranks : buf[q] = {} /\ Ahead(q) = pos[q]
      /\ \A q \in Ranks : pos[q] = pos[r]
      /\ \A l \in Layers : Good(pos[r][l])
      /\ \A l \in Layers, p \in Positions : pos[r][l][p] # None => hbm[l][p] = pos[r][l][p]
  BY <1>3, AllDone
<1>5. pos[r] \in PlacementMaps
  BY DEF IInv, Typing
<1>6. /\ todo' \in SUBSET Instructions /\ Unique(todo')
      /\ \A i \in todo' : i.expert # None =>
            i.from \in Positions /\ pos[r][i.layer][i.from] = i.expert
      /\ \A l \in Layers : Good(Applied(pos[r], todo')[l])
  <2>1. PICK m : m = pos[r]
    OBVIOUS
  <2>2. PICK P : P = todo'
    OBVIOUS
  <2>3. m \in PlacementMaps /\ \A l \in Layers : Good(m[l])
    BY <1>4, <1>5, <2>1
  <2>4. P = UNION {LayerInstructions(l, m[l], want[l]) : l \in Layers}
    BY <1>1, <2>1, <2>2
  <2>5. /\ P \in SUBSET Instructions /\ Unique(P)
        /\ \A i \in P : i.expert # None =>
              i.from \in Positions /\ m[i.layer][i.from] = i.expert
        /\ \A l \in Layers : Good(Applied(m, P)[l])
    BY <2>3, <2>4, PlanRight
  <2> QED BY <2>1, <2>2, <2>5
<1>7. \A q \in Ranks : Ahead(q)' = pos[r] /\ Ahead(q) = pos[r] /\ ~Busy(q) /\ ~Busy(q)'
  BY <1>2, <1>4 DEF Ahead, Busy
<1>8. Typing'
  BY <1>2, <1>6 DEF IInv, Typing
<1>9. OneEach'
  BY <1>2, <1>6 DEF IInv, OneEach, Unique
<1>10. WholeLayers'
  BY <1>2, <1>3, <1>4, <1>7 DEF WholeLayers
<1>11. Received' /\ MapHeld'
  <2>1. Received'
    BY <1>2, <1>4 DEF Received
  <2>2. MapHeld'
    <3>1. \A p \in Positions : p[1] \in Ranks
      BY DEF Positions
    <3> QED BY <1>2, <1>4, <3>1 DEF MapHeld
  <2> QED BY <2>1, <2>2
<1>12. BothEnds' /\ Moved'
  <2>1. BothEnds'
    BY <1>2, <1>7, IInvSets DEF BothEnds
  <2>2. Moved'
    BY <1>2 DEF Moved
  <2> QED BY <2>1, <2>2
<1>13. Phases'
  BY <1>2, <1>3 DEF Phases
<1>14. Room'
  BY <1>2 DEF IInv, Room, Places
<1>15. SameMap'
  BY <1>7 DEF SameMap
<1>16. Serve'
  BY <1>2, <1>6, <1>7 DEF IInv, Serve
<1>17. Sources'
  <2> SUFFICES ASSUME NEW i \in todo' \cup round' \cup batch', i.expert # None,
                      i \in todo' \cup round' \/ Busy(i.from[1])'
               PROVE  hbm'[i.layer][i.from] = i.expert
    BY DEF Sources
  <2>1. i \notin todo' => i \in batch /\ ~Busy(i.from[1])'
    BY <1>2, <1>3, <1>7, IInvSets
  <2>2. i \in todo'
    BY <1>2, <1>3, <2>1
  <2> QED BY <1>2, <1>4, <1>6, <2>2 DEF Instructions
<1>18. RoutesHeld'
  BY <1>2 DEF IInv, RoutesHeld
<1>19. Turns' /\ Installed'
  <2>1. \A q \in Ranks : Done(q)'
    BY <1>2, <1>3 DEF Done
  <2>2. Turns'
    BY <1>2, <1>3, <2>1 DEF IInv, Turns
  <2>3. Installed'
    BY <1>2, <1>3 DEF IInv, Installed
  <2> QED BY <2>2, <2>3
<1>20. OncePerRank(batch)'
  BY <1>2 DEF IInv, OncePerRank, Ends
<1> QED BY <1>8, <1>9, <1>10, <1>11, <1>12, <1>13, <1>14, <1>15, <1>16, <1>17, <1>18,
           <1>19, <1>20 DEF IInv

(* What a rank has to receive in a round that begins fits into its buffers.   *)
LEMMA PlacesFit ==
    ASSUME IInv, NEW r \in Ranks
    PROVE  Cardinality({<<i.layer, i.to>> : i \in {j \in NextRound : j.to[1] = r}}) <= NumSlots
<1> DEFINE X == {i \in todo : i.layer \in NextLayers /\ i.to[1] = r}
           Y == {<<i.layer, i.to>> : i \in X}
           f == [i \in X |-> <<i.layer, i.to>>]
<1>1. IsFiniteSet(X) /\ Cardinality(X) <= NumSlots
  BY IInvSets, FinitelyManyInstructions, FS_Subset, NextLayersFit DEF Fits
<1>2. f \in Surjection(X, Y)
  BY DEF Surjection
<1>3. IsFiniteSet(Y) /\ Cardinality(Y) <= Cardinality(X)
  <2> HIDE DEF f, X, Y
  <2> QED BY <1>1, <1>2, FS_Surjection
<1>4. Cardinality(X) \in Nat /\ Cardinality(Y) \in Nat
  BY <1>1, <1>3, FS_CardinalityType
<1>5. {i \in NextRound : i.to[1] = r} = X
  BY DEF NextRound
<1>6. {<<i.layer, i.to>> : i \in {j \in NextRound : j.to[1] = r}} = Y
  <2> HIDE DEF X
  <2> QED BY <1>5, Zenon
<1>7. Cardinality(Y) <= NumSlots
  <2> HIDE DEF X, Y
  <2> QED BY <1>1, <1>3, <1>4, Constants
<1> HIDE DEF Y
<1> QED BY <1>6, <1>7

LEMMA FinitelyManyPlaces ==
    ASSUME IInv, NEW r \in Ranks
    PROVE  IsFiniteSet(Places(r)) /\ Places(r) \subseteq Layers \X Positions
<1>1. Places(r) \subseteq Layers \X Positions
  BY IInvSets DEF Places
<1> QED BY <1>1, FinitelyManyInstructions, FS_Subset

LEMMA HandshakeKeeps == ASSUME IInv, Handshake PROVE IInv'
<1> DEFINE open == IF round = {} THEN NextRound ELSE round
<1>1. PICK B \in SUBSET open : OncePerRank(B) /\ batch' = B /\ round' = open \ B
  BY DEF Handshake
<1>2. /\ \A r \in Ranks : pc[r] = "shake" /\ pc'[r] = "map"
      /\ pc' = [r \in Ranks |-> "map"]
      /\ todo' = todo \ open
      /\ UNCHANGED <<pos, hbm, route, turn, updated, buf, ready>>
  BY DEF Handshake, maps
<1>3. \A r \in Ranks : ~ready[r] /\ ~Busy(r) /\ Busy(r)' /\ ~Done(r)'
  BY <1>2 DEF IInv, Phases, Busy, Done
<1>4. IF round = {} THEN \A r \in Ranks : Done(r) ELSE \A r \in Ranks : ~Done(r)
  BY <1>2, <1>3 DEF Done
<1>5. round = {} => /\ \A r \in Ranks : buf[r] = {} /\ updated[r] = {}
                    /\ \A r, q \in Ranks : route[r] = route[q]
                    /\ \A r \in Ranks, l \in Layers : Good(pos[r][l])
  BY <1>4, AllDone
<1>6. open \subseteq todo \cup round /\ open \in SUBSET Instructions /\ Unique(open)
  <2>1. NextRound \subseteq todo
    BY DEF NextRound
  <2> QED BY <2>1, IInvSets DEF Unique
<1>7. round' \cup batch' = open /\ round' \cap batch' = {}
  BY <1>1
<1>8. \A i \in todo', j \in open : i.layer # j.layer
  <2>1. CASE round = {}
    BY <1>2, <2>1 DEF NextRound
  <2>2. CASE round # {}
    BY <1>2, <2>2 DEF IInv, WholeLayers
  <2> QED BY <2>1, <2>2
<1>9. \A r \in Ranks : \A b \in buf[r] : /\ \A i \in todo' : b.layer # i.layer
                                         /\ \A i \in open : ~SamePlace(b, i)
  <2>1. CASE round = {}
    BY <1>5, <2>1
  <2>2. CASE round # {}
    BY <1>2, <2>2 DEF IInv, WholeLayers, Received, OneEach
  <2> QED BY <2>1, <2>2
<1> HIDE DEF open
<1>10. Typing'
  <2>1. todo' \subseteq Instructions /\ round' \subseteq Instructions /\ batch' \subseteq Instructions
    BY <1>2, <1>6, <1>7 DEF IInv, Typing
  <2>2. \A i \in todo' \cup round' \cup batch' : i \in todo \cup round
    BY <1>2, <1>6, <1>7
  <2>3. \A i \in todo' \cup round' \cup batch' : i.expert # None => i.from \in Positions
    BY <2>2 DEF IInv, Typing
  <2>4. pc' \in [Ranks -> {"collect", "shake", "map", "move", "wait"}]
    BY <1>2
  <2> QED BY <1>2, <2>1, <2>3, <2>4 DEF IInv, Typing
<1>11. OneEach'
  <2>1. \A i, j \in todo' : SamePlace(i, j) => i = j
    BY <1>2 DEF IInv, OneEach
  <2>2. \A i, j \in round' \cup batch' : SamePlace(i, j) => i = j
    BY <1>6, <1>7 DEF Unique
  <2>3. \A r \in Ranks : \A b, c \in buf'[r] : SamePlace(b, c) => b = c
    BY <1>2 DEF IInv, OneEach
  <2> QED BY <1>7, <2>1, <2>2, <2>3 DEF OneEach, SamePlace
<1>12. WholeLayers'
  <2>1. \A i \in todo' : \A j \in round' \cup batch' : j.layer # i.layer
    BY <1>7, <1>8
  <2> QED BY <1>2, <1>9, <2>1 DEF WholeLayers
<1>13. Received'
  <2>1. \A r \in Ranks : \A b \in buf'[r] : \A i \in round' \cup batch' : ~SamePlace(b, i)
    BY <1>2, <1>7, <1>9
  <2> QED BY <2>1 DEF Received, SamePlace
<1>14. BothEnds'
  <2>1. \A i \in batch' : i.expert # None => i.to[1] \in Ranks /\ i.from[1] \in Ranks
    BY <1>1, <1>6, IInvSets
  <2> QED BY <1>3, <2>1 DEF BothEnds
<1>15. Moved' /\ Phases' /\ Installed'
  <2>1. Moved'
    BY <1>2 DEF Moved
  <2>2. Phases'
    BY <1>2, <1>3 DEF Phases
  <2>3. Installed'
    BY <1>3 DEF Installed
  <2> QED BY <2>1, <2>2, <2>3
<1>16. Room'
  <2> SUFFICES ASSUME NEW r \in Ranks PROVE Cardinality(Places(r)') <= NumSlots
    BY DEF Room
  <2> DEFINE Of(I) == {<<i.layer, i.to>> : i \in {j \in I : j.to[1] = r}}
  <2>1. Places(r)' = {<<b.layer, b.to>> : b \in buf[r]} \cup Of(open)
    BY <1>2, <1>7 DEF Places
  <2>2. CASE round = {}
    <3>1. Places(r)' = Of(NextRound)
      BY <1>5, <2>1, <2>2 DEF open
    <3> QED BY <3>1, PlacesFit
  <2>3. CASE round # {}
    <3>1. open = round
      BY <2>3 DEF open
    <3>2. Places(r)' \subseteq Places(r)
      BY <2>1, <3>1 DEF Places
    <3>3. IsFiniteSet(Places(r)) /\ Cardinality(Places(r)) <= NumSlots
      BY FinitelyManyPlaces DEF IInv, Room
    <3>4. Cardinality(Places(r)') <= Cardinality(Places(r))
      BY <3>2, <3>3, FS_Subset
    <3>5. Cardinality(Places(r)') \in Nat /\ Cardinality(Places(r)) \in Nat
      BY <3>2, <3>3, FS_Subset, FS_CardinalityType
    <3> QED BY <3>3, <3>4, <3>5, Constants
  <2> QED BY <2>2, <2>3
<1>17. \A r \in Ranks : Ahead(r) = pos[r] /\ Ahead(r)' = Applied(pos[r], B)
  BY <1>1, <1>2 DEF Ahead
<1>18. SameMap'
  BY <1>17 DEF IInv, SameMap
<1>19. ASSUME NEW r \in Ranks, NEW l \in Layers
       PROVE  Good(Applied(Ahead(r)', round')[l])
  <2>1. pos[r] \in PlacementMaps
    BY DEF IInv, Typing
  <2>2. Applied(Ahead(r)', round') = Applied(pos[r], open)
    BY <1>1, <1>6, <1>17, <2>1, AppliedParts
  <2>3. CASE round # {}
    <3>1. open = round
      BY <2>3 DEF open
    <3> QED BY <1>17, <2>2, <3>1 DEF IInv, Serve
  <2>4. CASE round = {} /\ \E i \in open : i.layer = l
    <3>1. open = {i \in todo : i.layer \in NextLayers}
      BY <2>4 DEF open, NextRound
    <3>2. l \in NextLayers /\ \E i \in todo : i.layer = l
      BY <2>4, <3>1
    <3>3. \A i : i.layer = l => (i \in open <=> i \in todo)
      BY <3>1, <3>2
    <3>4. Applied(pos[r], open)[l] = Applied(pos[r], todo)[l]
      BY <1>6, <2>1, <3>3, IInvSets, AppliedLayer
    <3>5. Good(Applied(pos[r], todo)[l])
      BY <1>17, <3>2 DEF IInv, Serve
    <3> QED BY <2>2, <3>4, <3>5
  <2>5. CASE round = {} /\ \A i \in open : i.layer # l
    <3>1. {} \in SUBSET Instructions /\ Unique({})
      BY DEF Unique
    <3>2. \A i : i.layer = l => (i \in open <=> i \in {})
      BY <2>5
    <3>3. Applied(pos[r], open)[l] = Applied(pos[r], {})[l]
      BY <1>6, <2>1, <3>1, <3>2, AppliedLayer
    <3>4. Good(pos[r][l])
      BY <1>5, <2>5
    <3> QED BY <2>1, <2>2, <3>3, <3>4, AppliedNone
  <2> QED BY <2>3, <2>4, <2>5
<1>20. ASSUME NEW r \in Ranks, NEW l \in Layers, NEW i \in todo', i.layer = l
       PROVE  Good(Applied(Ahead(r)', todo')[l])
  <2>1. pos[r] \in PlacementMaps /\ B \in SUBSET Instructions /\ Unique(B)
    BY <1>6 DEF IInv, Typing, Unique
  <2>2. Applied(pos[r], B) \in PlacementMaps
    BY <2>1, AppliedMap
  <2>3. {} \in SUBSET Instructions /\ Unique({})
    BY DEF Unique
  <2>4. Applied(pos[r], B)[l] = Applied(pos[r], {})[l]
    <3>1. \A j : j.layer = l => (j \in B <=> j \in {})
      BY <1>8, <1>20
    <3> QED BY <2>1, <2>3, <3>1, AppliedLayer
  <2>5. Applied(pos[r], B)[l] = pos[r][l]
    BY <2>1, <2>4, AppliedNone
  <2>6. todo' \in SUBSET Instructions /\ Unique(todo')
    BY <1>2, IInvSets DEF Unique
  <2>7. \A j : j.layer = l => (j \in todo' <=> j \in todo)
    BY <1>2, <1>8, <1>20
  <2>8. Applied(Ahead(r)', todo')[l] = Applied(pos[r], todo)[l]
    <3>1. PICK m : m = Applied(pos[r], B)
      OBVIOUS
    <3>2. PICK T : T = todo'
      OBVIOUS
    <3>3. Applied(m, T)[l] = Applied(pos[r], todo)[l]
      BY <2>1, <2>2, <2>5, <2>6, <2>7, <3>1, <3>2, IInvSets, AppliedLayer
    <3> QED BY <1>17, <3>1, <3>2, <3>3
  <2>9. Good(Applied(pos[r], todo)[l])
    <3>1. i \in todo /\ i.layer = l
      BY <1>2, <1>20
    <3> QED BY <1>17, <3>1 DEF IInv, Serve
  <2> QED BY <2>8, <2>9
<1>21. Serve'
  <2>1. \A r \in Ranks, l \in Layers : Good(route[r][l])
    BY DEF IInv, Serve
  <2> QED BY <1>2, <1>19, <1>20, <2>1 DEF Serve
<1>22. Sources'
  <2>1. \A i \in todo' \cup round' \cup batch' : i \in todo \cup round
    BY <1>2, <1>6, <1>7
  <2> QED BY <1>2, <2>1 DEF IInv, Sources
<1>23. MapHeld' /\ RoutesHeld'
  <2>1. \A p \in Positions : p[1] \in Ranks
    BY DEF Positions
  <2>2. \A l \in Layers, p \in Positions : ~Coming(l, p)
    BY <1>2, <2>1 DEF Coming
  <2>3. MapHeld'
    BY <1>2, <2>2 DEF IInv, MapHeld
  <2>4. RoutesHeld'
    BY <1>2 DEF IInv, RoutesHeld
  <2> QED BY <2>3, <2>4
<1>24. Turns'
  <2>1. \A r, q \in Ranks : turn[r] = turn[q] /\ route[r] = route[q]
    BY <1>4, <1>5 DEF IInv, Turns
  <2> QED BY <1>2, <1>3, <2>1 DEF Turns
<1>25. OncePerRank(batch)'
  BY <1>1 DEF OncePerRank, Ends
<1> QED BY <1>10, <1>11, <1>12, <1>13, <1>14, <1>15, <1>16, <1>18, <1>21, <1>22, <1>23,
           <1>24, <1>25 DEF IInv

(* A rank that is to receive weights has a buffer left: the places buffered   *)
(* and the one to come are different places of Places(r).                     *)
LEMMA BufferLeft ==
    ASSUME IInv, NEW r \in Ranks, NEW x \in Places(r),
           \A b \in buf[r] : <<b.layer, b.to>> # x
    PROVE  IsFiniteSet(buf[r]) /\ Cardinality(buf[r]) < NumSlots
<1> DEFINE Y == {<<b.layer, b.to>> : b \in buf[r]}
           f == [b \in buf[r] |-> <<b.layer, b.to>>]
<1>1. f \in Bijection(buf[r], Y)
  <2>1. \A b, c \in buf[r] : f[b] = f[c] => b = c
    BY DEF IInv, OneEach, SamePlace
  <2> QED BY <2>1 DEF Bijection, Injection, Surjection, IsInjective
<1>2. IsFiniteSet(Places(r)) /\ Y \cup {x} \in SUBSET Places(r) /\ x \notin Y
  BY FinitelyManyPlaces DEF Places
<1>3. IsFiniteSet(Y) /\ Cardinality(Y \cup {x}) = Cardinality(Y) + 1
  <2> HIDE DEF Y
  <2>1. IsFiniteSet(Y)
    BY <1>2, FS_Subset
  <2> QED BY <1>2, <2>1, FS_AddElement
<1>4. IsFiniteSet(buf[r]) /\ Cardinality(buf[r]) = Cardinality(Y)
  <2> HIDE DEF Y, f
  <2>1. f \in Injection(buf[r], Y)
    BY <1>1 DEF Bijection
  <2>2. IsFiniteSet(buf[r])
    BY <1>3, <2>1, FS_Injection
  <2> QED BY <1>1, <2>2, FS_Bijection DEF ExistsBijection
<1>5. Cardinality(Y \cup {x}) <= Cardinality(Places(r)) /\ Cardinality(Places(r)) <= NumSlots
  <2> HIDE DEF Y
  <2> QED BY <1>2, FS_Subset DEF IInv, Room
<1>6. Cardinality(Y) \in Nat /\ Cardinality(Places(r)) \in Nat
  <2> HIDE DEF Y
  <2> QED BY <1>2, <1>3, FS_CardinalityType
<1> HIDE DEF Y
<1> QED BY <1>3, <1>4, <1>5, <1>6, Constants

(* What a rank does with a batch: it changes its map, and then moves weights  *)
(* if it has any to move.                                                     *)
LEMMA HandleBatchDoes ==
    ASSUME IInv, NEW r \in Ranks, HandleBatch(r)
    PROVE  /\ pc[r] = "map" /\ ~ready[r]
           /\ pos' = [pos EXCEPT ![r] = Applied(pos[r], batch)]
           /\ updated' = [updated EXCEPT ![r] = updated[r] \cup {i.layer : i \in batch}]
           /\ \A q \in Ranks : q # r => pc'[q] = pc[q] /\ ready'[q] = ready[q]
           /\ Moves(r) # {} => pc'[r] = "move" /\ ready'[r] = ready[r]
           /\ Moves(r) = {} /\ round = {} => pc'[r] = "wait" /\ ready'[r]
           /\ Moves(r) = {} /\ round # {} => pc'[r] = "shake" /\ ~ready'[r]
           /\ pc' \in [Ranks -> {"collect", "shake", "map", "move", "wait"}]
           /\ ready' \in [Ranks -> BOOLEAN]
           /\ UNCHANGED <<hbm, route, turn, buf, todo, round, batch>>
<1>1. /\ pc[r] = "map"
      /\ pos' = [pos EXCEPT ![r] = Applied(pos[r], batch)]
      /\ updated' = [updated EXCEPT ![r] = updated[r] \cup {i.layer : i \in batch}]
      /\ UNCHANGED <<hbm, route, turn, buf, todo, round, batch>>
  BY DEF HandleBatch, Map, maps, plan
<1>2. ~ready[r]
  BY <1>1 DEF IInv, Phases
<1>3. pc \in [Ranks -> {"collect", "shake", "map", "move", "wait"}] /\ ready \in [Ranks -> BOOLEAN]
  BY DEF IInv, Typing
<1>4. CASE Moves(r) = {}
  <2>1. /\ pc' = [q \in Ranks |-> IF q \notin {r} THEN pc[q]
                                  ELSE IF round = {} THEN "wait" ELSE "shake"]
        /\ ready' = [q \in Ranks |-> ready[q] \/ (q \in {r} /\ round = {})]
    BY <1>4 DEF HandleBatch, Map, PartDone
  <2>2. pc' \in [Ranks -> {"collect", "shake", "map", "move", "wait"}] /\ ready' \in [Ranks -> BOOLEAN]
    BY <1>3, <2>1
  <2>3. \A q \in Ranks : q # r => pc'[q] = pc[q] /\ ready'[q] = ready[q]
    BY <1>3, <2>1
  <2>4. /\ round = {} => pc'[r] = "wait" /\ ready'[r]
        /\ round # {} => pc'[r] = "shake" /\ ~ready'[r]
    BY <1>2, <1>3, <2>1
  <2> QED BY <1>1, <1>2, <1>4, <2>2, <2>3, <2>4
<1>5. CASE Moves(r) # {}
  <2>1. /\ pc' = [pc EXCEPT ![r] =
                        IF (\E i \in Moves(r) : i.to[1] = r) /\ Cardinality(buf[r]) >= NumSlots
                        THEN "collect" ELSE "move"]
        /\ ready' = ready
    BY <1>5 DEF HandleBatch, Map
  <2>2. ~((\E i \in Moves(r) : i.to[1] = r) /\ Cardinality(buf[r]) >= NumSlots)
    <3> SUFFICES ASSUME NEW i \in Moves(r), i.to[1] = r
                 PROVE  ~(Cardinality(buf[r]) >= NumSlots)
      OBVIOUS
    <3>1. i \in batch
      BY DEF Moves
    <3>2. <<i.layer, i.to>> \in Places(r)
      BY <3>1 DEF Places
    <3>3. \A b \in buf[r] : <<b.layer, b.to>> # <<i.layer, i.to>>
      BY <1>1, <3>1 DEF IInv, Received, SamePlace, Busy
    <3>4. IsFiniteSet(buf[r]) /\ Cardinality(buf[r]) < NumSlots
      <4>1. PICK x : x = <<i.layer, i.to>>
        OBVIOUS
      <4> QED BY <3>2, <3>3, <4>1, BufferLeft
    <3>5. Cardinality(buf[r]) \in Nat
      BY <3>4, FS_CardinalityType
    <3> QED BY <3>4, <3>5, Constants
  <2>3. pc' = [pc EXCEPT ![r] = "move"]
    BY <2>1, <2>2
  <2> QED BY <1>1, <1>2, <1>3, <1>5, <2>1, <2>3
<1> QED BY <1>4, <1>5

LEMMA HandleBatchKeeps == ASSUME IInv, NEW r \in Ranks, HandleBatch(r) PROVE IInv'
<1>1. /\ pc[r] = "map" /\ ~ready[r]
      /\ pos' = [pos EXCEPT ![r] = Applied(pos[r], batch)]
      /\ updated' = [updated EXCEPT ![r] = updated[r] \cup {i.layer : i \in batch}]
      /\ \A q \in Ranks : q # r => pc'[q] = pc[q] /\ ready'[q] = ready[q]
      /\ Moves(r) # {} => pc'[r] = "move" /\ ready'[r] = ready[r]
      /\ Moves(r) = {} /\ round = {} => pc'[r] = "wait" /\ ready'[r]
      /\ Moves(r) = {} /\ round # {} => pc'[r] = "shake" /\ ~ready'[r]
      /\ pc' \in [Ranks -> {"collect", "shake", "map", "move", "wait"}]
      /\ ready' \in [Ranks -> BOOLEAN]
      /\ UNCHANGED <<hbm, route, turn, buf, todo, round, batch>>
  BY HandleBatchDoes
<1>2. pos \in [Ranks -> PlacementMaps] /\ updated \in [Ranks -> SUBSET Layers]
  BY DEF IInv, Typing
<1>3. /\ pos'[r] = Applied(pos[r], batch) /\ pos'[r] \in PlacementMaps
      /\ updated'[r] = updated[r] \cup {i.layer : i \in batch}
      /\ \A q \in Ranks : q # r => pos'[q] = pos[q] /\ updated'[q] = updated[q]
  BY <1>1, <1>2, IInvSets, AppliedMap
<1>4. /\ \A q \in Ranks : Busy(q)' => Busy(q)
      /\ \A q \in Ranks : q # r => (Busy(q)' <=> Busy(q))
      /\ Moves(r) # {} => Busy(r)' /\ Busy(r)
  BY <1>1 DEF Busy
<1>5. /\ ~Done(r) /\ ~Done(r)'
      /\ \A q \in Ranks : q # r => (Done(q)' <=> Done(q))
  BY <1>1 DEF Done
<1>6. \A q \in Ranks : Ahead(q)' = Ahead(q)
  <2>1. Ahead(r)' = Ahead(r)
    BY <1>1, <1>3 DEF Ahead
  <2>2. \A q \in Ranks : q # r => Ahead(q)' = Ahead(q)
    BY <1>1, <1>3 DEF Ahead
  <2> QED BY <2>1, <2>2
<1>7. Typing'
  <2>1. pos' \in [Ranks -> PlacementMaps]
    BY <1>1, <1>2, <1>3
  <2>2. updated' \in [Ranks -> SUBSET Layers]
    <3>1. {i.layer : i \in batch} \subseteq Layers
      BY IInvSets
    <3> QED BY <1>1, <1>2, <3>1
  <2> QED BY <1>1, <2>1, <2>2 DEF IInv, Typing
<1>8. OneEach' /\ Room'
  BY <1>1 DEF IInv, OneEach, Room, Places, SamePlace
<1>9. WholeLayers'
  BY <1>1, <1>4 DEF IInv, WholeLayers
<1>10. Received'
  BY <1>1, <1>4 DEF IInv, Received, SamePlace
<1>11. BothEnds'
  <2> SUFFICES ASSUME NEW i \in batch, i.expert # None
               PROVE  Busy(i.to[1])' <=> Busy(i.from[1])'
    BY <1>1 DEF BothEnds
  <2>1. Busy(i.to[1]) <=> Busy(i.from[1])
    BY DEF IInv, BothEnds
  <2>2. i.to[1] \in Ranks /\ i.from[1] \in Ranks
    BY IInvSets
  <2>3. i.to[1] = r \/ i.from[1] = r => i \in Moves(r)
    BY DEF Moves, Ends
  <2> QED BY <1>4, <2>1, <2>2, <2>3
<1>21. /\ \A i \in batch : pos'[r][i.layer][i.to] = i.expert
       /\ \A l \in Layers, p \in Positions :
             (\A i \in batch : ~(i.layer = l /\ i.to = p)) => pos'[r][l][p] = pos[r][l][p]
  <2>1. PICK m : m = pos[r]
    OBVIOUS
  <2>2. m \in PlacementMaps
    BY <1>2, <2>1
  <2>3. /\ \A i \in batch : Applied(m, batch)[i.layer][i.to] = i.expert
        /\ \A l \in Layers, p \in Positions :
             (\A i \in batch : ~(i.layer = l /\ i.to = p)) => Applied(m, batch)[l][p] = m[l][p]
    BY <2>2, IInvSets, AppliedMap
  <2> QED BY <1>3, <2>1, <2>3
<1>12. Moved'
  BY <1>1, <1>3, <1>21 DEF IInv, Moved
<1>13. Phases'
  BY <1>1 DEF IInv, Phases
<1>14. SameMap' /\ Serve'
  BY <1>1, <1>6 DEF IInv, SameMap, Serve
<1>15. Sources'
  <2> SUFFICES ASSUME NEW i \in todo \cup round \cup batch, i.expert # None,
                      i \in todo \cup round \/ Busy(i.from[1])'
               PROVE  hbm[i.layer][i.from] = i.expert
    BY <1>1 DEF Sources
  <2>1. i.from[1] \in Ranks
    BY IInvSets
  <2> QED BY <1>4, <2>1 DEF IInv, Sources
<1>16. MapHeld'
  <2> SUFFICES ASSUME NEW l \in Layers, NEW p \in Positions,
                      pos'[p[1]][l][p] # None, ~Coming(l, p)',
                      NEW here, here = {b \in buf[p[1]] : b.layer = l /\ b.to = p}
               PROVE  /\ \A b \in here : b.weights = pos'[p[1]][l][p]
                      /\ here = {} => hbm[l][p] = pos'[p[1]][l][p]
    BY <1>1 DEF MapHeld
  <2>1. p[1] \in Ranks
    BY DEF Positions
  <2>2. ~Coming(l, p) /\ pos'[p[1]][l][p] = pos[p[1]][l][p]
    <3>1. CASE p[1] # r
      BY <1>1, <1>3, <2>1, <3>1 DEF Coming
    <3>2. CASE p[1] = r
      <4>1. ASSUME NEW i \in batch, i.layer = l, i.to = p
            PROVE  FALSE
        <5>1. pos'[r][l][p] = i.expert
          BY <1>21, <4>1
        <5>2. i \in Moves(r)
          BY <3>2, <4>1, <5>1 DEF Moves, Ends
        <5> QED BY <1>1, <3>2, <4>1, <5>1, <5>2 DEF Coming
      <4>2. pos'[r][l][p] = pos[r][l][p]
        BY <1>21, <4>1
      <4> QED BY <1>1, <3>2, <4>2 DEF Coming
    <3> QED BY <3>1, <3>2
  <2> QED BY <2>2 DEF IInv, MapHeld
<1>17. RoutesHeld'
  <2>1. ASSUME NEW q \in Ranks, NEW l \in Layers, l \notin updated'[q]
        PROVE  route[q][l] = pos'[q][l]
    <3>1. route[q][l] = pos[q][l]
      BY <1>3, <2>1 DEF IInv, RoutesHeld
    <3>2. CASE q # r
      BY <1>3, <3>1, <3>2
    <3>3. CASE q = r
      <4>1. \A i : i.layer = l => (i \in batch <=> i \in {})
        BY <1>3, <2>1, <3>3
      <4>2. {} \in SUBSET Instructions /\ Unique({})
        BY DEF Unique
      <4>3. pos[r] \in PlacementMaps
        BY <1>2
      <4>4. Applied(pos[r], batch)[l] = Applied(pos[r], {})[l]
        BY <4>1, <4>2, <4>3, IInvSets, AppliedLayer
      <4>5. pos'[r][l] = pos[r][l]
        BY <1>3, <4>3, <4>4, AppliedNone
      <4> QED BY <3>1, <3>3, <4>5
    <3> QED BY <3>2, <3>3
  <2> QED BY <1>1, <2>1 DEF IInv, RoutesHeld
<1>18. Turns'
  BY <1>1, <1>5 DEF IInv, Turns
<1>19. Installed'
  BY <1>1, <1>3, <1>5 DEF IInv, Installed
<1>20. OncePerRank(batch)'
  BY <1>1 DEF IInv, OncePerRank, Ends
<1> QED BY <1>7, <1>8, <1>9, <1>10, <1>11, <1>12, <1>13, <1>14, <1>15, <1>16, <1>17, <1>18,
           <1>19, <1>20 DEF IInv

(* What an exchange does: the target has buffered the weights, and both ends  *)
(* are done with the batch.                                                   *)
LEMMA BatchSendDoes ==
    ASSUME IInv, NEW i \in batch, BatchSend(i), NEW b,
           b = [layer |-> i.layer, to |-> i.to, weights |-> hbm[i.layer][i.from]]
    PROVE  /\ i.expert # None /\ i.to[1] \in Ranks /\ i.from[1] \in Ranks
           /\ Ends(i) = {i.to[1], i.from[1]}
           /\ \A q \in Ends(i) : pc[q] = "move" /\ ~ready[q]
           /\ b.layer = i.layer /\ b.to = i.to /\ b.weights = i.expert /\ b.weights \in Experts
           /\ b \in [layer : Layers, to : Positions, weights : Experts]
           /\ buf' = [buf EXCEPT ![i.to[1]] = buf[i.to[1]] \cup {b}]
           /\ \A q \in Ranks \ Ends(i) : pc'[q] = pc[q] /\ ready'[q] = ready[q]
           /\ \A q \in Ends(i) : /\ round = {} => pc'[q] = "wait" /\ ready'[q]
                                 /\ round # {} => pc'[q] = "shake" /\ ~ready'[q]
           /\ pc' \in [Ranks -> {"collect", "shake", "map", "move", "wait"}]
           /\ ready' \in [Ranks -> BOOLEAN]
           /\ UNCHANGED <<pos, hbm, route, turn, updated, todo, round, batch>>
<1>1. /\ i.expert # None /\ \A r \in Ends(i) : pc[r] = "move"
      /\ buf' = [buf EXCEPT ![i.to[1]] = buf[i.to[1]] \cup {b}]
      /\ UNCHANGED <<pos, hbm, route, turn, updated, todo, round, batch>>
  BY DEF BatchSend, maps, plan
<1>2. i.to[1] \in Ranks /\ i.from[1] \in Ranks /\ i.layer \in Layers /\ i.to \in Positions
  BY <1>1, IInvSets
<1>3. Ends(i) = {i.to[1], i.from[1]}
  BY <1>1 DEF Ends
<1>4. hbm[i.layer][i.from] = i.expert /\ i.expert \in Experts
  <2>1. Busy(i.from[1])
    BY <1>1, <1>3 DEF Busy
  <2> QED BY <1>1, <2>1, IInvSets DEF IInv, Sources
<1>5. pc \in [Ranks -> {"collect", "shake", "map", "move", "wait"}] /\ ready \in [Ranks -> BOOLEAN]
  BY DEF IInv, Typing
<1>6. \A q \in Ends(i) : q \in Ranks /\ ~ready[q]
  BY <1>1, <1>2, <1>3 DEF IInv, Phases
<1>7. /\ pc' = [q \in Ranks |-> IF q \notin Ends(i) THEN pc[q]
                                ELSE IF round = {} THEN "wait" ELSE "shake"]
      /\ ready' = [q \in Ranks |-> ready[q] \/ (q \in Ends(i) /\ round = {})]
  BY DEF BatchSend, PartDone
<1>8. pc' \in [Ranks -> {"collect", "shake", "map", "move", "wait"}] /\ ready' \in [Ranks -> BOOLEAN]
  BY <1>5, <1>7
<1>9. \A q \in Ranks \ Ends(i) : pc'[q] = pc[q] /\ ready'[q] = ready[q]
  BY <1>5, <1>7
<1>10. \A q \in Ends(i) : /\ round = {} => pc'[q] = "wait" /\ ready'[q]
                          /\ round # {} => pc'[q] = "shake" /\ ~ready'[q]
  BY <1>5, <1>6, <1>7
<1> QED BY <1>1, <1>2, <1>3, <1>4, <1>6, <1>8, <1>9, <1>10

LEMMA BatchSendKeeps == ASSUME IInv, NEW i \in batch, BatchSend(i) PROVE IInv'
<1>1. PICK b : b = [layer |-> i.layer, to |-> i.to, weights |-> hbm[i.layer][i.from]]
  OBVIOUS
<1>2. /\ i.expert # None /\ i.to[1] \in Ranks /\ i.from[1] \in Ranks
      /\ Ends(i) = {i.to[1], i.from[1]}
      /\ \A q \in Ends(i) : pc[q] = "move" /\ ~ready[q]
      /\ b.layer = i.layer /\ b.to = i.to /\ b.weights = i.expert /\ b.weights \in Experts
      /\ b \in [layer : Layers, to : Positions, weights : Experts]
      /\ buf' = [buf EXCEPT ![i.to[1]] = buf[i.to[1]] \cup {b}]
      /\ \A q \in Ranks \ Ends(i) : pc'[q] = pc[q] /\ ready'[q] = ready[q]
      /\ \A q \in Ends(i) : /\ round = {} => pc'[q] = "wait" /\ ready'[q]
                            /\ round # {} => pc'[q] = "shake" /\ ~ready'[q]
      /\ pc' \in [Ranks -> {"collect", "shake", "map", "move", "wait"}]
      /\ ready' \in [Ranks -> BOOLEAN]
      /\ UNCHANGED <<pos, hbm, route, turn, updated, todo, round, batch>>
  BY <1>1, BatchSendDoes
<1> DEFINE a == i.to[1]
<1>3. buf \in [Ranks -> SUBSET [layer : Layers, to : Positions, weights : Experts]]
  BY DEF IInv, Typing
<1>4. /\ buf'[a] = buf[a] \cup {b}
      /\ \A q \in Ranks : q # a => buf'[q] = buf[q]
  BY <1>2, <1>3
<1>5. /\ \A q \in Ranks : Busy(q)' => Busy(q) /\ q \notin Ends(i)
      /\ \A q \in Ranks \ Ends(i) : Busy(q)' <=> Busy(q)
      /\ \A q \in Ends(i) : Busy(q)
  BY <1>2 DEF Busy
<1>6. /\ \A q \in Ends(i) : ~Done(q) /\ ~Done(q)'
      /\ \A q \in Ranks \ Ends(i) : Done(q)' <=> Done(q)
  BY <1>2 DEF Done
<1>7. \A q \in Ranks : Ahead(q)' = Ahead(q)
  <2>1. \A q \in Ends(i) : pc[q] # "map" /\ pc'[q] # "map"
    BY <1>2
  <2>2. \A q \in Ranks : pc'[q] = "map" <=> pc[q] = "map"
    BY <1>2, <2>1
  <2> QED BY <1>2, <2>2 DEF Ahead
<1>8. \A c \in buf[a] : \A j \in round \cup batch : SamePlace(c, j) => j # i
  BY <1>2, <1>5 DEF IInv, Received
<1>9. \A j \in batch : j # i /\ j.expert # None => Ends(i) \cap Ends(j) = {}
  BY <1>2 DEF IInv, OncePerRank
<1>10. Typing'
  <2>1. buf' \in [Ranks -> SUBSET [layer : Layers, to : Positions, weights : Experts]]
    BY <1>2, <1>3
  <2>2. \A q \in Ranks : \A c \in buf'[q] : c.to[1] = q
    BY <1>2, <1>4 DEF IInv, Typing
  <2> QED BY <1>2, <2>1, <2>2 DEF IInv, Typing
<1>11. OneEach'
  <2>1. \A c \in buf[a] : ~SamePlace(c, b)
    BY <1>2, <1>8 DEF SamePlace
  <2>2. \A q \in Ranks : \A c, d \in buf'[q] : SamePlace(c, d) => c = d
    BY <1>4, <2>1 DEF IInv, OneEach, SamePlace
  <2> QED BY <1>2, <2>2 DEF IInv, OneEach, SamePlace
<1>12. WholeLayers'
  <2>1. \A j \in todo : b.layer # j.layer
    BY <1>2, <1>5 DEF IInv, WholeLayers
  <2>2. \A j \in todo : \A q \in Ranks : \A c \in buf'[q] : c.layer # j.layer
    BY <1>4, <2>1 DEF IInv, WholeLayers
  <2> QED BY <1>2, <1>5, <2>2 DEF IInv, WholeLayers
<1>13. Received'
  <2>1. \A j \in round \cup batch : SamePlace(b, j) => j = i
    BY <1>2 DEF IInv, OneEach, SamePlace
  <2>2. ASSUME NEW q \in Ranks, NEW c \in buf'[q], NEW j \in round \cup batch, SamePlace(c, j)
        PROVE  j \in batch /\ ~Busy(q)'
    <3>1. CASE c \in buf[q]
      BY <1>5, <2>2, <3>1 DEF IInv, Received
    <3>2. CASE c \notin buf[q]
      <4>1. q = a /\ c = b
        BY <1>4, <2>2, <3>2
      <4> QED BY <1>2, <1>5, <2>1, <2>2, <4>1
    <3> QED BY <3>1, <3>2
  <2> QED BY <1>2, <2>2 DEF Received, SamePlace
<1>14. BothEnds'
  <2> SUFFICES ASSUME NEW j \in batch, j.expert # None
               PROVE  Busy(j.to[1])' <=> Busy(j.from[1])'
    BY <1>2 DEF BothEnds
  <2>1. Busy(j.to[1]) <=> Busy(j.from[1])
    BY DEF IInv, BothEnds
  <2>2. j.to[1] \in Ranks /\ j.from[1] \in Ranks /\ Ends(j) = {j.to[1], j.from[1]}
    BY IInvSets DEF Ends
  <2>3. CASE j = i
    BY <1>2, <1>5, <2>3
  <2>4. CASE j # i
    BY <1>5, <1>9, <2>1, <2>2, <2>4
  <2> QED BY <2>3, <2>4
<1>15. Moved'
  <2>1. \A q \in Ranks : pc'[q] = "move" => pc[q] = "move"
    BY <1>2
  <2> QED BY <1>2, <2>1 DEF IInv, Moved
<1>16. Phases'
  BY <1>2 DEF IInv, Phases
<1>17. Room'
  <2>1. ASSUME NEW q \in Ranks
        PROVE  Places(q)' = Places(q)
    <3>1. CASE q # a
      BY <1>2, <1>4, <3>1 DEF Places
    <3>2. CASE q = a
      <4>1. <<b.layer, b.to>> \in {<<j.layer, j.to>> : j \in {j \in round \cup batch : j.to[1] = a}}
        BY <1>2
      <4>2. {<<c.layer, c.to>> : c \in buf'[a]} =
              {<<c.layer, c.to>> : c \in buf[a]} \cup {<<b.layer, b.to>>}
        BY <1>4
      <4> QED BY <1>2, <3>2, <4>1, <4>2 DEF Places
    <3> QED BY <3>1, <3>2
  <2> QED BY <2>1 DEF IInv, Room
<1>18. SameMap' /\ Serve'
  BY <1>2, <1>7 DEF IInv, SameMap, Serve
<1>19. Sources'
  <2> SUFFICES ASSUME NEW j \in todo \cup round \cup batch, j.expert # None,
                      j \in todo \cup round \/ Busy(j.from[1])'
               PROVE  hbm[j.layer][j.from] = j.expert
    BY <1>2 DEF Sources
  <2>1. j.from[1] \in Ranks
    BY IInvSets
  <2> QED BY <1>5, <2>1 DEF IInv, Sources
<1>20. MapHeld'
  <2> SUFFICES ASSUME NEW l \in Layers, NEW p \in Positions,
                      pos'[p[1]][l][p] # None, ~Coming(l, p)'
               PROVE  LET here == {c \in buf'[p[1]] : c.layer = l /\ c.to = p}
                      IN  /\ \A c \in here : c.weights = pos'[p[1]][l][p]
                          /\ here = {} => hbm'[l][p] = pos'[p[1]][l][p]
    BY DEF MapHeld
  <2> DEFINE here == {c \in buf'[p[1]] : c.layer = l /\ c.to = p}
  <2>1. p[1] \in Ranks
    BY DEF Positions
  <2> DEFINE old == {c \in buf[p[1]] : c.layer = l /\ c.to = p}
  <2>2. CASE l = i.layer /\ p = i.to
    <3>1. pos[a][l][p] = i.expert
      BY <1>2, <2>2 DEF IInv, Moved
    <3>2. \A c \in buf[a] : ~(c.layer = l /\ c.to = p)
      BY <1>8, <2>2 DEF SamePlace
    <3>3. here = {b}
      BY <1>2, <1>4, <2>2, <3>2
    <3> QED BY <1>2, <2>2, <3>1, <3>3
  <2>3. CASE ~(l = i.layer /\ p = i.to)
    <3>1. here = old
      BY <1>2, <1>4, <2>1, <2>3
    <3>2. ~Coming(l, p)
      <4>1. SUFFICES ASSUME NEW j \in batch, j.layer = l, j.to = p, j.expert # None,
                            pc[p[1]] = "move"
                     PROVE  FALSE
        BY DEF Coming
      <4>2. p[1] \in Ends(i)
        BY <1>2, <2>1, <4>1 DEF Coming
      <4>3. p[1] \in Ends(j) /\ j # i
        BY <2>3, <4>1 DEF Ends
      <4> QED BY <1>9, <4>1, <4>2, <4>3
    <3>3. /\ \A c \in old : c.weights = pos[p[1]][l][p]
          /\ old = {} => hbm[l][p] = pos[p[1]][l][p]
      BY <1>2, <3>2 DEF IInv, MapHeld
    <3> QED BY <1>2, <3>1, <3>3
  <2> QED BY <2>2, <2>3
<1>21. RoutesHeld'
  BY <1>2 DEF IInv, RoutesHeld
<1>22. Turns'
  BY <1>2, <1>6 DEF IInv, Turns
<1>23. Installed'
  <2>1. a \in Ends(i)
    BY <1>2
  <2> QED BY <1>2, <1>4, <1>6, <2>1 DEF IInv, Installed
<1>24. OncePerRank(batch)'
  BY <1>2 DEF IInv, OncePerRank, Ends
<1> QED BY <1>10, <1>11, <1>12, <1>13, <1>14, <1>15, <1>16, <1>17, <1>18, <1>19, <1>20,
           <1>21, <1>22, <1>23, <1>24 DEF IInv

LEMMA ResumeKeeps == ASSUME IInv, NEW r \in Ranks, Resume(r) PROVE IInv'
<1>1. /\ pc[r] = "wait" /\ ~ready[r]
      /\ pc' = [pc EXCEPT ![r] = IF todo = {} THEN "collect" ELSE "shake"]
      /\ UNCHANGED <<pos, hbm, route, turn, updated, buf, ready, todo, round, batch>>
  BY DEF Resume, maps, plan
<1>2. /\ pc'[r] \in {"collect", "shake"} /\ \A q \in Ranks : q # r => pc'[q] = pc[q]
      /\ pc' \in [Ranks -> {"collect", "shake", "map", "move", "wait"}]
  BY <1>1 DEF IInv, Typing
<1>3. \A q \in Ranks : /\ Busy(q)' <=> Busy(q)
                       /\ pc'[q] = "move" <=> pc[q] = "move"
                       /\ pc'[q] = "map" <=> pc[q] = "map"
                       /\ Done(q)' <=> Done(q)
  BY <1>1, <1>2 DEF Busy, Done
<1>4. \A q \in Ranks : Ahead(q)' = Ahead(q)
  BY <1>1, <1>3 DEF Ahead
<1>5. \A i \in batch : i.expert # None => i.to[1] \in Ranks /\ i.from[1] \in Ranks
  BY IInvSets
<1>6. \A i \in todo \cup round : i.expert # None => i.from[1] \in Ranks
  BY IInvSets
<1>7. \A p \in Positions : p[1] \in Ranks
  BY DEF Positions
<1>8. Typing' /\ OneEach' /\ Room'
  BY <1>1, <1>2 DEF IInv, Typing, OneEach, SamePlace, Room, Places
<1>9. WholeLayers' /\ Received' /\ BothEnds'
  BY <1>1, <1>3, <1>5 DEF IInv, WholeLayers, Received, BothEnds, SamePlace
<1>10. Moved' /\ Phases'
  BY <1>1, <1>2, <1>3 DEF IInv, Moved, Phases
<1>11. SameMap' /\ Serve'
  BY <1>1, <1>4 DEF IInv, SameMap, Serve
<1>12. Sources'
  BY <1>1, <1>3, <1>5, <1>6 DEF IInv, Sources
<1>13. MapHeld'
  <2>1. \A l \in Layers, p \in Positions : Coming(l, p)' <=> Coming(l, p)
    BY <1>1, <1>3, <1>7 DEF Coming
  <2> QED BY <1>1, <2>1 DEF IInv, MapHeld
<1>14. RoutesHeld'
  BY <1>1 DEF IInv, RoutesHeld
<1>15. Turns' /\ Installed'
  BY <1>1, <1>3 DEF IInv, Turns, Installed
<1>16. OncePerRank(batch)'
  BY <1>1 DEF IInv, OncePerRank, Ends
<1> QED BY <1>8, <1>9, <1>10, <1>11, <1>12, <1>13, <1>14, <1>15, <1>16 DEF IInv

(* What the main thread installs: the weights in its buffers, and its map.    *)
LEMMA InstallDoes ==
    ASSUME IInv, NEW r \in Ranks, ready[r], DoPlacementOptimizer(r)
    PROVE  /\ pc[r] = "wait" /\ round = {}
           /\ hbm' \in PlacementMaps
           /\ \A l \in Layers, p \in Positions :
                 (\A b \in buf[r] : ~(b.layer = l /\ b.to = p)) => hbm'[l][p] = hbm[l][p]
           /\ \A l \in Layers, p \in Positions : p[1] # r => hbm'[l][p] = hbm[l][p]
           /\ \A l \in Layers, p \in Positions :
                 p[1] = r /\ pos[r][l][p] # None => hbm'[l][p] = pos[r][l][p]
           /\ route' = [route EXCEPT ![r] = pos[r]]
           /\ updated' = [updated EXCEPT ![r] = {}]
           /\ buf' = [buf EXCEPT ![r] = {}]
           /\ ready' = [ready EXCEPT ![r] = FALSE]
           /\ turn' = [turn EXCEPT ![r] = ~turn[r]]
<1>1. pc[r] = "wait" /\ round = {}
  BY DEF IInv, Phases
<1> DEFINE On(l, p) == \E b \in buf[r] : b.layer = l /\ b.to = p
           Get(l, p) == (CHOOSE b \in buf[r] : b.layer = l /\ b.to = p).weights
<1>2. hbm' = [l \in Layers |-> [p \in Positions |-> IF On(l, p) THEN Get(l, p) ELSE hbm[l][p]]]
  BY DEF DoPlacementOptimizer
<1>3. ASSUME NEW b \in buf[r]
      PROVE  Get(b.layer, b.to) = b.weights
  <2>1. \A c \in buf[r] : c.layer = b.layer /\ c.to = b.to => c = b
    BY DEF IInv, OneEach, SamePlace
  <2>2. (CHOOSE c \in buf[r] : c.layer = b.layer /\ c.to = b.to) = b
    BY <2>1
  <2> QED BY <2>2
<1> HIDE DEF Get
<1>4. \A l \in Layers, p \in Positions : hbm'[l][p] = IF On(l, p) THEN Get(l, p) ELSE hbm[l][p]
  BY <1>2
<1>5. hbm \in PlacementMaps
  BY DEF IInv, Typing
<1>6. hbm' \in PlacementMaps
  <2>1. ASSUME NEW l \in Layers, NEW p \in Positions
        PROVE  (IF On(l, p) THEN Get(l, p) ELSE hbm[l][p]) \in Experts \cup {None}
    <3>1. CASE On(l, p)
      <4>1. PICK b \in buf[r] : b.layer = l /\ b.to = p
        BY <3>1
      <4> QED BY <1>3, <3>1, <4>1, IInvSets
    <3>2. CASE ~On(l, p)
      BY <1>5, <3>2 DEF PlacementMaps
    <3> QED BY <3>1, <3>2
  <2> HIDE DEF On
  <2> QED BY <1>2, <2>1 DEF PlacementMaps
<1>7. \A l \in Layers, p \in Positions :
         (\A b \in buf[r] : ~(b.layer = l /\ b.to = p)) => hbm'[l][p] = hbm[l][p]
  BY <1>4
<1>8. \A l \in Layers, p \in Positions : p[1] # r => hbm'[l][p] = hbm[l][p]
  BY <1>7, IInvSets
<1>9. ASSUME NEW l \in Layers, NEW p \in Positions, p[1] = r, pos[r][l][p] # None
      PROVE  hbm'[l][p] = pos[r][l][p]
  <2>1. ~Coming(l, p)
    BY <1>1, <1>9 DEF Coming
  <2>2. /\ \A b \in buf[r] : b.layer = l /\ b.to = p => b.weights = pos[r][l][p]
        /\ (\A b \in buf[r] : ~(b.layer = l /\ b.to = p)) => hbm[l][p] = pos[r][l][p]
    BY <1>9, <2>1 DEF IInv, MapHeld
  <2>3. CASE On(l, p)
    <3>1. PICK b \in buf[r] : b.layer = l /\ b.to = p
      BY <2>3
    <3> QED BY <1>3, <1>4, <2>2, <2>3, <3>1
  <2>4. CASE ~On(l, p)
    BY <1>4, <2>2, <2>4
  <2> QED BY <2>3, <2>4
<1>10. route' = [route EXCEPT ![r] = pos[r]]
  <2>1. route' = [route EXCEPT ![r] = [l \in Layers |-> IF l \in updated[r] THEN pos[r][l]
                                                        ELSE route[r][l]]]
    BY DEF DoPlacementOptimizer
  <2>2. \A l \in Layers : (IF l \in updated[r] THEN pos[r][l] ELSE route[r][l]) = pos[r][l]
    BY DEF IInv, RoutesHeld
  <2>3. pos[r] = [l \in Layers |-> pos[r][l]]
    BY DEF IInv, Typing, PlacementMaps
  <2> QED BY <2>1, <2>2, <2>3
<1> QED BY <1>1, <1>6, <1>7, <1>8, <1>9, <1>10 DEF DoPlacementOptimizer

LEMMA InstallKeeps ==
    ASSUME IInv, NEW r \in Ranks, ready[r], DoPlacementOptimizer(r), UNCHANGED <<pos, pc, plan>>
    PROVE  IInv'
<1>1. /\ pc[r] = "wait" /\ round = {}
      /\ hbm' \in PlacementMaps
      /\ \A l \in Layers, p \in Positions :
            (\A b \in buf[r] : ~(b.layer = l /\ b.to = p)) => hbm'[l][p] = hbm[l][p]
      /\ \A l \in Layers, p \in Positions : p[1] # r => hbm'[l][p] = hbm[l][p]
      /\ \A l \in Layers, p \in Positions :
            p[1] = r /\ pos[r][l][p] # None => hbm'[l][p] = pos[r][l][p]
      /\ route' = [route EXCEPT ![r] = pos[r]]
      /\ updated' = [updated EXCEPT ![r] = {}]
      /\ buf' = [buf EXCEPT ![r] = {}]
      /\ ready' = [ready EXCEPT ![r] = FALSE]
      /\ turn' = [turn EXCEPT ![r] = ~turn[r]]
  BY InstallDoes
<1>2. UNCHANGED <<pos, pc, todo, round, batch>>
  BY DEF plan
<1>3. /\ pos \in [Ranks -> PlacementMaps] /\ route \in [Ranks -> PlacementMaps]
      /\ updated \in [Ranks -> SUBSET Layers]
      /\ buf \in [Ranks -> SUBSET [layer : Layers, to : Positions, weights : Experts]]
      /\ ready \in [Ranks -> BOOLEAN] /\ turn \in [Ranks -> BOOLEAN]
  BY DEF IInv, Typing
<1>4. /\ route'[r] = pos[r] /\ updated'[r] = {} /\ buf'[r] = {} /\ ~ready'[r]
      /\ turn'[r] = ~turn[r]
      /\ \A q \in Ranks : q # r => /\ route'[q] = route[q] /\ updated'[q] = updated[q]
                                   /\ buf'[q] = buf[q] /\ ready'[q] = ready[q]
                                   /\ turn'[q] = turn[q]
  BY <1>1, <1>3
<1>5. \A q \in Ranks : buf'[q] \subseteq buf[q]
  BY <1>4
<1>6. /\ ~Done(r) /\ Done(r)' /\ \A q \in Ranks : q # r => (Done(q)' <=> Done(q))
  BY <1>1, <1>2, <1>4 DEF Done
<1>7. \A q \in Ranks : (Busy(q)' <=> Busy(q)) /\ Ahead(q)' = Ahead(q)
  BY <1>2 DEF Busy, Ahead
<1>8. Typing'
  <2>1. /\ route' \in [Ranks -> PlacementMaps] /\ updated' \in [Ranks -> SUBSET Layers]
        /\ buf' \in [Ranks -> SUBSET [layer : Layers, to : Positions, weights : Experts]]
        /\ ready' \in [Ranks -> BOOLEAN] /\ turn' \in [Ranks -> BOOLEAN]
    BY <1>1, <1>3
  <2> QED BY <1>1, <1>2, <1>5, <2>1 DEF IInv, Typing
<1>9. OneEach' /\ Received'
  BY <1>2, <1>5, <1>7 DEF IInv, OneEach, Received, SamePlace
<1>10. WholeLayers'
  BY <1>2, <1>5, <1>7 DEF IInv, WholeLayers
<1>11. BothEnds' /\ Moved' /\ SameMap'
  BY <1>2, <1>7, IInvSets DEF IInv, BothEnds, Moved, SameMap
<1>12. Phases'
  BY <1>2, <1>4 DEF IInv, Phases
<1>13. Room'
  <2> SUFFICES ASSUME NEW q \in Ranks PROVE Cardinality(Places(q)') <= NumSlots
    BY DEF Room
  <2>1. Places(q)' \subseteq Places(q)
    BY <1>2, <1>5 DEF Places
  <2>2. IsFiniteSet(Places(q)) /\ Cardinality(Places(q)) <= NumSlots
    BY FinitelyManyPlaces DEF IInv, Room
  <2>3. Cardinality(Places(q)') <= Cardinality(Places(q)) /\ IsFiniteSet(Places(q)')
    BY <2>1, <2>2, FS_Subset
  <2>4. Cardinality(Places(q)') \in Nat /\ Cardinality(Places(q)) \in Nat
    BY <2>2, <2>3, FS_CardinalityType
  <2> QED BY <2>2, <2>3, <2>4, Constants
<1>14. Serve'
  <2>1. \A l \in Layers : Good(pos[r][l])
    <3>1. Ahead(r) = pos[r]
      BY <1>1 DEF Ahead
    <3>2. Applied(pos[r], round) = pos[r]
      BY <1>1, <1>3, AppliedNone
    <3> QED BY <3>1, <3>2 DEF IInv, Serve
  <2> QED BY <1>2, <1>4, <1>7, <2>1 DEF IInv, Serve
<1>15. Sources'
  <2> SUFFICES ASSUME NEW i \in todo \cup round \cup batch, i.expert # None,
                      i \in todo \cup round \/ Busy(i.from[1])'
               PROVE  hbm'[i.layer][i.from] = i.expert
    BY <1>2 DEF Sources
  <2>1. i.layer \in Layers /\ i.from \in Positions /\ i.from[1] \in Ranks
    BY IInvSets
  <2>2. hbm[i.layer][i.from] = i.expert
    BY <1>7, <2>1 DEF IInv, Sources
  <2>3. CASE i \in todo
    <3>1. \A b \in buf[r] : b.layer # i.layer
      BY <2>3 DEF IInv, WholeLayers
    <3> QED BY <1>1, <2>1, <2>2, <3>1
  <2>4. CASE Busy(i.from[1])'
    <3>1. i.from[1] # r
      BY <1>1, <1>2, <2>4 DEF Busy
    <3> QED BY <1>1, <2>1, <2>2, <3>1
  <2> QED BY <1>1, <2>3, <2>4
<1>16. MapHeld'
  <2> SUFFICES ASSUME NEW l \in Layers, NEW p \in Positions,
                      pos'[p[1]][l][p] # None, ~Coming(l, p)'
               PROVE  LET here == {c \in buf'[p[1]] : c.layer = l /\ c.to = p}
                      IN  /\ \A c \in here : c.weights = pos'[p[1]][l][p]
                          /\ here = {} => hbm'[l][p] = pos'[p[1]][l][p]
    BY DEF MapHeld
  <2>1. p[1] \in Ranks
    BY DEF Positions
  <2>2. CASE p[1] = r
    BY <1>1, <1>2, <1>4, <2>2
  <2>3. CASE p[1] # r
    <3>1. ~Coming(l, p)
      BY <1>2 DEF Coming
    <3>2. /\ \A b \in buf[p[1]] : b.layer = l /\ b.to = p => b.weights = pos[p[1]][l][p]
          /\ (\A b \in buf[p[1]] : ~(b.layer = l /\ b.to = p)) => hbm[l][p] = pos[p[1]][l][p]
      BY <1>2, <3>1 DEF IInv, MapHeld
    <3> QED BY <1>1, <1>2, <1>4, <2>1, <2>3, <3>2
  <2> QED BY <2>2, <2>3
<1>17. RoutesHeld'
  <2>1. ASSUME NEW q \in Ranks, NEW l \in Layers
        PROVE  /\ l \notin updated'[q] => route'[q][l] = pos'[q][l]
               /\ \A p \in Positions : p[1] = q /\ route'[q][l][p] # None
                                          => hbm'[l][p] = route'[q][l][p]
    <3>1. CASE q = r
      BY <1>1, <1>2, <1>4, <3>1
    <3>2. CASE q # r
      <4>1. /\ l \notin updated[q] => route[q][l] = pos[q][l]
            /\ \A p \in Positions : p[1] = q /\ route[q][l][p] # None
                                       => hbm[l][p] = route[q][l][p]
        BY DEF IInv, RoutesHeld
      <4> QED BY <1>1, <1>2, <1>4, <3>2, <4>1
    <3> QED BY <3>1, <3>2
  <2> QED BY <2>1 DEF RoutesHeld
<1>18. Turns'
  BY <1>3, <1>4, <1>6 DEF IInv, Turns
<1>19. Installed'
  BY <1>4, <1>6 DEF IInv, Installed
<1>20. OncePerRank(batch)'
  BY <1>2 DEF IInv, OncePerRank, Ends
<1> QED BY <1>8, <1>9, <1>10, <1>11, <1>12, <1>13, <1>14, <1>15, <1>16, <1>17, <1>18,
           <1>19, <1>20 DEF IInv

(* Where the main threads are does not matter to the invariant.               *)
LEMMA OthersKeep ==
    ASSUME IInv, UNCHANGED <<pos, maps, updated, buf, ready, pc, plan>> PROVE IInv'
<1>1. UNCHANGED <<pos, hbm, route, turn, updated, buf, ready, pc, todo, round, batch>>
  BY DEF maps, plan
<1>2. Typing' /\ OneEach' /\ WholeLayers' /\ Received'
  BY <1>1 DEF IInv, Typing, OneEach, WholeLayers, Received, SamePlace, Busy
<1>3. BothEnds' /\ Moved' /\ Phases' /\ Room'
  BY <1>1 DEF IInv, BothEnds, Moved, Phases, Room, Places, Busy
<1>4. \A r \in Ranks : Ahead(r)' = Ahead(r) /\ (Done(r)' <=> Done(r)) /\ (Busy(r)' <=> Busy(r))
  BY <1>1 DEF Ahead, Done, Busy
<1>5. SameMap' /\ Serve'
  BY <1>1, <1>4 DEF IInv, SameMap, Serve
<1>6. Sources' /\ RoutesHeld'
  BY <1>1 DEF IInv, Sources, RoutesHeld, Busy
<1>7. MapHeld'
  BY <1>1 DEF IInv, MapHeld, Coming
<1>8. Turns' /\ Installed'
  BY <1>1, <1>4 DEF IInv, Turns, Installed
<1>9. OncePerRank(batch)'
  BY <1>1 DEF IInv, OncePerRank, Ends
<1> QED BY <1>2, <1>3, <1>5, <1>6, <1>7, <1>8, <1>9 DEF IInv

LEMMA PlaceExpertsKeeps ==
    ASSUME IInv, NEW r \in Ranks, PlaceExperts(r), UNCHANGED <<pos, pc, plan>> PROVE IInv'
<1>1. CASE ready[r]
  BY <1>1, InstallKeeps DEF PlaceExperts
<1>2. CASE ~ready[r]
  BY <1>2, OthersKeep DEF PlaceExperts
<1> QED BY <1>1, <1>2

LEMMA IInvNext == IInv /\ [Next]_vars => IInv'
<1> SUFFICES ASSUME IInv, [Next]_vars PROVE IInv'
  OBVIOUS
<1>1. CASE Optimize
  BY <1>1, OptimizeKeeps
<1>2. CASE Handshake
  BY <1>2, HandshakeKeeps
<1>3. CASE Forward
  BY <1>3, OthersKeep DEF Forward
<1>4. ASSUME NEW r \in Ranks, HandleBatch(r)
      PROVE  IInv'
  BY <1>4, HandleBatchKeeps
<1>5. ASSUME NEW r \in Ranks, Resume(r)
      PROVE  IInv'
  BY <1>5, ResumeKeeps
<1>6. ASSUME NEW r \in Ranks, StartBatch(r)
      PROVE  IInv'
  BY <1>6, PlaceExpertsKeeps DEF StartBatch
<1>7. ASSUME NEW r \in Ranks, StartDummy(r)
      PROVE  IInv'
  BY <1>7, OthersKeep DEF StartDummy
<1>8. ASSUME NEW r \in Ranks, EndDummyBatch(r)
      PROVE  IInv'
  BY <1>8, PlaceExpertsKeeps DEF EndDummyBatch
<1>9. ASSUME NEW r \in Ranks, EndEmptyStep(r)
      PROVE  IInv'
  BY <1>9, OthersKeep DEF EndEmptyStep
<1>10. ASSUME NEW i \in batch, BatchSend(i)
       PROVE  IInv'
  BY <1>10, BatchSendKeeps
<1>11. CASE UNCHANGED vars
  BY <1>11, OthersKeep DEF vars
<1> QED
  BY <1>1, <1>2, <1>3, <1>4, <1>5, <1>6, <1>7, <1>8, <1>9, <1>10, <1>11 DEF Next

----------------------------------------------------------------------------
(* Theorems *)

(* The invariant holds in every state.                                        *)
THEOREM InvariantHolds == Spec => []IInv
<1> QED BY IInvInit, IInvNext, PTL DEF Spec

(* Tokens are computed by their experts, at every point of a plan, as long as *)
(* no rank has installed a round that another has not: every rank routes      *)
(* every expert's tokens somewhere, and only to positions whose weights are   *)
(* the expert's.                                                              *)
THEOREM TokensReachTheirExperts == Spec => []TokensReachExperts
<1>1. IInv => TokensReachExperts
  <2> SUFFICES ASSUME IInv, \A r, q \in Ranks : turn[r] = turn[q],
                      NEW r \in Ranks, NEW l \in Layers, NEW e \in Experts
               PROVE  /\ {p \in Positions : route[r][l][p] = e} # {}
                      /\ \A p \in Positions : route[r][l][p] = e => hbm[l][p] = e
    BY DEF TokensReachExperts, RoutesRight
  <2>1. \A q \in Ranks : route[r] = route[q]
    <3>1. \A q \in Ranks : Done(r) <=> Done(q)
      BY DEF IInv, Turns
    <3>2. CASE Done(r)
      BY <3>1, <3>2, AllDone
    <3>3. CASE ~Done(r)
      BY <3>1, <3>3 DEF IInv, Turns
    <3> QED BY <3>2, <3>3
  <2>2. \A p \in Positions : p[1] \in Ranks
    BY DEF Positions
  <2>3. e # None
    BY Constants
  <2>4. \A p \in Positions : route[r][l][p] = e => hbm[l][p] = e
    BY <2>1, <2>2, <2>3 DEF IInv, RoutesHeld
  <2>5. {p \in Positions : route[r][l][p] = e} # {}
    BY DEF IInv, Serve, Good
  <2> QED BY <2>4, <2>5
<1> QED BY <1>1, InvariantHolds, PTL

(* Between two rounds the ranks have one map, which is what they route by,    *)
(* and hold what it says, so that the sources the next round names are there. *)
THEOREM WeightsAreWhereTheMapSays == Spec => []WeightsFollowMap
<1>1. IInv => WeightsFollowMap
  <2> SUFFICES ASSUME IInv, round = {}, \A r \in Ranks : pc[r] \in {"collect", "shake"},
                      NEW r \in Ranks, NEW q \in Ranks
               PROVE  /\ pos[r] = pos[q] /\ route[r] = pos[r]
                      /\ \A l \in Layers, p \in Positions :
                            pos[r][l][p] # None => hbm[l][p] = pos[r][l][p]
    BY DEF WeightsFollowMap
  <2>1. \A k \in Ranks : Done(k)
    BY DEF IInv, Phases, Done
  <2> QED BY <2>1, AllDone
<1> QED BY <1>1, InvariantHolds, PTL

(* A rank that has weights to move has a buffer for what it receives, so that *)
(* no worker leaves a plan that the others are still at.                      *)
THEOREM BuffersSuffice ==
    Spec => [][\A r \in Ranks : HandleBatch(r) /\ Moves(r) # {} => pc'[r] = "move"]_vars
<1>1. IInv => [\A r \in Ranks : HandleBatch(r) /\ Moves(r) # {} => pc'[r] = "move"]_vars
  BY HandleBatchDoes
<1> QED BY <1>1, InvariantHolds, PTL

(* Type correctness: among others, no rank has more weights in its buffers    *)
(* than it has buffers.                                                       *)
THEOREM TypeCorrect == Spec => []TypeOK
<1> DEFINE MainOK == main \in [Ranks -> {"between", "batch", "dummy", "after"}]
<1>1. Init => MainOK
  BY DEF Init
<1>2. MainOK /\ [Next]_vars => MainOK'
  BY DEF Next, vars, Optimize, Handshake, Forward, HandleBatch, Map, Resume, StartBatch,
         StartDummy, EndDummyBatch, EndEmptyStep, BatchSend
<1>3. ASSUME IInv, MainOK
      PROVE  TypeOK
  <2>1. \A r \in Ranks : buf[r] \subseteq [layer : Layers, to : {r} \X Slots, weights : Experts]
    <3> SUFFICES ASSUME NEW r \in Ranks, NEW b \in buf[r]
                 PROVE  b \in [layer : Layers, to : {r} \X Slots, weights : Experts]
      OBVIOUS
    <3>1. b \in [layer : Layers, to : Positions, weights : Experts] /\ b.to[1] = r
      BY <1>3 DEF IInv, Typing
    <3>2. b.to \in {r} \X Slots
      BY <3>1 DEF Positions
    <3> QED BY <3>1, <3>2
  <2>2. ASSUME NEW r \in Ranks
        PROVE  Cardinality(buf[r]) <= NumSlots
    <3> DEFINE f == [b \in buf[r] |-> <<b.layer, b.to>>]
    <3>1. f \in Injection(buf[r], Places(r))
      <4>1. \A b, c \in buf[r] : f[b] = f[c] => b = c
        BY <1>3 DEF IInv, OneEach, SamePlace
      <4>2. f \in [buf[r] -> Places(r)]
        BY DEF Places
      <4> QED BY <4>1, <4>2 DEF Injection, IsInjective
    <3>2. IsFiniteSet(Places(r)) /\ Cardinality(Places(r)) <= NumSlots
      BY <1>3, FinitelyManyPlaces DEF IInv, Room
    <3>3. IsFiniteSet(buf[r]) /\ Cardinality(buf[r]) <= Cardinality(Places(r))
      <4> HIDE DEF f
      <4> QED BY <3>1, <3>2, FS_Injection
    <3>4. Cardinality(buf[r]) \in Nat /\ Cardinality(Places(r)) \in Nat
      BY <3>2, <3>3, FS_CardinalityType
    <3> QED BY <3>2, <3>3, <3>4, Constants
  <2> QED BY <1>3, <2>1, <2>2 DEF TypeOK, IInv, Typing
<1> HIDE DEF MainOK
<1>4. IInv /\ MainOK => TypeOK
  BY <1>3
<1> QED BY <1>1, <1>2, <1>4, InvariantHolds, PTL DEF Spec
=============================================================================
