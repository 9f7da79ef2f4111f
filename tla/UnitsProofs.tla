---------------------------- MODULE UnitsProofs -----------------------------
(***************************************************************************)
(* The sequential parts of the simulator, for all their constants: the     *)
(* dispatch queue never panics and serves wrapping virtual times in their  *)
(* order, the layers of the control loop own their cores, and no pointer   *)
(* outlives its cgroup.                                                    *)
(***************************************************************************)
EXTENDS Dsq, LayeredControl, Cgroups,
        FiniteSetTheorems, SequenceTheorems, WellFoundedInduction, TLAPS

(* Division with a remainder, which is what \div and % are ...             *)
LEMMA ModLaw ==
    ASSUME NEW n \in Int, NEW m \in Int, m > 0
    PROVE  n \div m \in Int /\ n % m \in 0 .. m - 1 /\ n = (n \div m) * m + (n % m)
<1>1. n \div m \in Int
  OBVIOUS
<1>2. n % m \in 0 .. m - 1
  OBVIOUS
<1>3. n = (n \div m) * m + (n % m)
  OBVIOUS
<1> QED
  BY <1>1, <1>2, <1>3

(* ... and there is only one.                                              *)
LEMMA ModUnique ==
    ASSUME NEW m \in Int, m > 0, NEW q \in Int, NEW r \in 0 .. m - 1
    PROVE  (q * m + r) % m = r /\ (q * m + r) \div m = q
<1> DEFINE n == q * m + r
<1>0. q * m \in Int /\ n \in Int
  OBVIOUS
<1>1. PICK s \in Int, t \in 0 .. m - 1 : s = n \div m /\ t = n % m /\ n = s * m + t
  BY <1>0, ModLaw
<1>2. q * m - s * m = t - r
  BY <1>1
<1>3. ~(q >= s + 1)
  <2>1. q >= s + 1 => q * m >= s * m + m
    OBVIOUS
  <2> QED
    BY <2>1, <1>2, <1>1
<1>4. ~(s >= q + 1)
  <2>1. s >= q + 1 => s * m >= q * m + m
    OBVIOUS
  <2> QED
    BY <2>1, <1>2, <1>1
<1>5. q = s
  BY <1>3, <1>4
<1>6. q * m - s * m = 0
  BY <1>5
<1>7. t = r
  BY <1>6, <1>2
<1> QED
  BY <1>5, <1>7, <1>1

(* A set of numbers with a member has a smallest one.                      *)
LEMMA Smallest ==
    ASSUME NEW T \in SUBSET Nat, T # {}
    PROVE  \E m \in T : \A n \in T : m <= n
<1> DEFINE R == OpToRel(<, Nat)
<1>1. IsWellFoundedOn(R, Nat)
  BY NatLessThanWellFounded
<1> HIDE DEF R
<1>2. PICK m \in T : \A n \in T : ~(<<n, m>> \in R)
  BY <1>1, WFMin
<1>3. ASSUME NEW n \in T PROVE m <= n
  <2>1. <<n, m>> \in R <=> n < m
    BY DEF R, OpToRel
  <2>2. ~(n < m)
    BY <2>1, <1>2
  <2> QED
    BY <2>2
<1> QED
  BY <1>3

(* h runs from b through the steps F.                                      *)
Iterates(h, N, b, F) == h[0] = b /\ \A n \in 1 .. N : h[n] = F[n][h[n - 1]]

(* Primitive recursion defines a function ...                              *)
LEMMA Recursion ==
    ASSUME NEW N \in Nat, NEW S, NEW b \in S, NEW F \in [1 .. N -> [S -> S]]
    PROVE  \E h \in [0 .. N -> S] : Iterates(h, N, b, F)
<1> DEFINE Defined(m) == \E h \in [0 .. m -> S] : Iterates(h, m, b, F)
           T == {m \in 0 .. N : ~Defined(m)}
<1>0. N \in 0 .. N
  OBVIOUS
<1> HIDE DEF Defined
<1>1. SUFFICES ASSUME T # {} PROVE FALSE
  BY <1>0 DEF Defined
<1>2. PICK m \in T : \A n \in T : m <= n
  <2>1. T \in SUBSET Nat
    OBVIOUS
  <2> HIDE DEF T
  <2> QED
    BY <1>1, <2>1, Smallest
<1>3. m # 0
  <2>1. [n \in 0 .. 0 |-> b] \in [0 .. 0 -> S]
    OBVIOUS
  <2> DEFINE h == [n \in 0 .. 0 |-> b]
  <2>3. h[0] = b /\ 1 .. 0 = {}
    OBVIOUS
  <2> HIDE DEF h
  <2>2. Defined(0)
    BY <2>1, <2>3 DEF Defined, Iterates, h
  <2> QED
    BY <2>2, <1>2
<1>4. m - 1 \in 0 .. N /\ m - 1 \notin T /\ m \in 1 .. N
  BY <1>2, <1>3
<1>5. PICK h \in [0 .. m - 1 -> S] :
        h[0] = b /\ \A n \in 1 .. m - 1 : h[n] = F[n][h[n - 1]]
  BY <1>4 DEF Defined, Iterates
<1> DEFINE g == [n \in 0 .. m |-> IF n = m THEN F[m][h[m - 1]] ELSE h[n]]
<1>6. F[m][h[m - 1]] \in S
  BY <1>4, <1>5
<1>7. g \in [0 .. m -> S]
  BY <1>4, <1>5, <1>6
<1>8. g[0] = b
  BY <1>3, <1>4, <1>5
<1>9. ASSUME NEW n \in 1 .. m PROVE g[n] = F[n][g[n - 1]]
  BY <1>4, <1>5
<1>10. Defined(m)
  BY <1>7, <1>8, <1>9 DEF Defined, Iterates
<1> QED
  BY <1>2, <1>10

(* ... and what its start has and its step keeps, all its values have.     *)
LEMMA Closed ==
    ASSUME NEW N \in Nat, NEW S, NEW h, h[0] \in S,
           \A n \in 1 .. N : h[n - 1] \in S => h[n] \in S
    PROVE  \A n \in 0 .. N : h[n] \in S
<1> DEFINE T == {n \in 0 .. N : h[n] \notin S}
<1>1. SUFFICES ASSUME T # {} PROVE FALSE
  OBVIOUS
<1>2. PICK m \in T : \A n \in T : m <= n
  <2>1. T \in SUBSET Nat
    OBVIOUS
  <2> HIDE DEF T
  <2> QED
    BY <1>1, <2>1, Smallest
<1>3. m \in 1 .. N /\ m - 1 \in 0 .. N /\ m - 1 \notin T
  BY <1>2
<1> QED
  BY <1>2, <1>3

(* The elements of sequences put together.                                 *)
LEMMA Concatenated ==
    ASSUME NEW S, NEW f \in Seq(S), NEW g \in Seq(S)
    PROVE  /\ f \o g \in Seq(S) /\ Len(f \o g) = Len(f) + Len(g)
           /\ \A k \in 1 .. Len(f) : (f \o g)[k] = f[k]
           /\ \A k \in Len(f) + 1 .. Len(f) + Len(g) : (f \o g)[k] = g[k - Len(f)]
<1>1. f \o g \in Seq(S) /\ Len(f \o g) = Len(f) + Len(g)
  OBVIOUS
<1>2. \A k \in 1 .. Len(f) : (f \o g)[k] = f[k]
  OBVIOUS
<1>3. \A k \in Len(f) + 1 .. Len(f) + Len(g) : (f \o g)[k] = g[k - Len(f)]
  OBVIOUS
<1> QED
  BY <1>1, <1>2, <1>3

(* The elements of a sequence without the one at j ...                     *)
LEMMA Removed ==
    ASSUME NEW S, NEW s \in Seq(S), NEW j \in 1 .. Len(s)
    PROVE  /\ RemoveAt(s, j) \in Seq(S)
           /\ Len(RemoveAt(s, j)) = Len(s) - 1
           /\ \A k \in 1 .. Len(s) - 1 : RemoveAt(s, j)[k] = IF k < j THEN s[k] ELSE s[k + 1]
<1> DEFINE f == SubSeq(s, 1, j - 1)
           g == SubSeq(s, j + 1, Len(s))
<1>1. f \in Seq(S) /\ Len(f) = j - 1 /\ \A k \in 1 .. j - 1 : f[k] = s[k]
  OBVIOUS
<1>2. g \in Seq(S) /\ Len(g) = Len(s) - j /\ \A k \in 1 .. Len(s) - j : g[k] = s[k + j]
  OBVIOUS
<1>3. RemoveAt(s, j) = f \o g
  BY DEF RemoveAt
<1> HIDE DEF f, g
<1>4. f \o g \in Seq(S) /\ Len(f \o g) = Len(s) - 1
  BY <1>1, <1>2, Concatenated
<1>6. ASSUME NEW k \in 1 .. j - 1 PROVE (f \o g)[k] = s[k]
  <2>1. (f \o g)[k] = f[k]
    BY <1>1, <1>2, Concatenated
  <2> QED
    BY <1>1, <2>1
<1>5. ASSUME NEW k \in j .. Len(s) - 1 PROVE (f \o g)[k] = s[k + 1]
  <2>1. (f \o g)[k] = g[k - Len(f)]
    BY <1>1, <1>2, Concatenated
  <2>2. k - Len(f) \in 1 .. Len(s) - j /\ k - Len(f) + j = k + 1
    BY <1>1
  <2> QED
    BY <1>2, <2>1, <2>2
<1> QED
  BY <1>3, <1>4, <1>5, <1>6

(* ... and of one with e put at j.                                         *)
LEMMA Inserted ==
    ASSUME NEW S, NEW s \in Seq(S), NEW j \in 1 .. Len(s) + 1, NEW e \in S
    PROVE  /\ InsertAt(s, j, e) \in Seq(S)
           /\ Len(InsertAt(s, j, e)) = Len(s) + 1
           /\ \A k \in 1 .. Len(s) + 1 :
                InsertAt(s, j, e)[k] = IF k < j THEN s[k] ELSE IF k = j THEN e ELSE s[k - 1]
<1> DEFINE f == SubSeq(s, 1, j - 1)
           g == SubSeq(s, j, Len(s))
<1>1. f \in Seq(S) /\ Len(f) = j - 1 /\ \A k \in 1 .. j - 1 : f[k] = s[k]
  OBVIOUS
<1>2. g \in Seq(S) /\ Len(g) = Len(s) + 1 - j /\ \A k \in 1 .. Len(s) + 1 - j : g[k] = s[k + j - 1]
  OBVIOUS
<1>4. InsertAt(s, j, e) = (f \o <<e>>) \o g
  BY DEF InsertAt
<1> HIDE DEF f, g
<1> DEFINE h == f \o <<e>>
<1>3. h \in Seq(S) /\ Len(h) = j /\ \A k \in 1 .. j : h[k] = IF k < j THEN s[k] ELSE e
  BY <1>1
<1> HIDE DEF h
<1>5. /\ h \o g \in Seq(S) /\ Len(h \o g) = Len(s) + 1
      /\ \A k \in 1 .. j : (h \o g)[k] = IF k < j THEN s[k] ELSE e
  BY <1>3, <1>2, Concatenated
<1>6. ASSUME NEW k \in j + 1 .. Len(s) + 1 PROVE (h \o g)[k] = s[k - 1]
  <2>1. (h \o g)[k] = g[k - Len(h)]
    BY <1>2, <1>3, Concatenated
  <2>2. k - Len(h) \in 1 .. Len(s) + 1 - j /\ k - Len(h) + j - 1 = k - 1
    BY <1>3
  <2> QED
    BY <1>2, <2>1, <2>2
<1> QED
  BY <1>4, <1>5, <1>6 DEF h

-----------------------------------------------------------------------------
(* The dispatch queue                                                      *)

(* Wrapped virtual times that lie within the window compare as the virtual *)
(* times that do not wrap (Vtime::cmp): this is all the queue asks of a    *)
(* comparison that is not transitive.                                      *)
LEMMA WrapOrder ==
    ASSUME DsqAssumption, NEW v \in Nat, NEW w \in Nat, v - w \in -Window .. Window
    PROVE  /\ Greater(Wrap(v), Wrap(w)) <=> v > w
           /\ Wrap(v) = Wrap(w) <=> v = w
<1> DEFINE m == 2 * Half
<1>1. m \in Int /\ m > 0 /\ Window \in Nat /\ Window < Half /\ Half \in Nat
  BY DEF DsqAssumption
<1>2. \A n \in Int : Wrap(n) = n % m
  BY DEF Wrap
<1> HIDE DEF m
<1>3. PICK q \in Int, r \in 0 .. m - 1 : v = q * m + r /\ r = Wrap(v)
  <2>1. Wrap(v) = v % m
    BY <1>2
  <2>2. v \div m \in Int /\ v % m \in 0 .. m - 1 /\ v = (v \div m) * m + (v % m)
    BY <1>1, ModLaw
  <2> QED
    BY <2>1, <2>2
<1>4. PICK p \in Int, s \in 0 .. m - 1 : w = p * m + s /\ s = Wrap(w)
  <2>1. Wrap(w) = w % m
    BY <1>2
  <2>2. w \div m \in Int /\ w % m \in 0 .. m - 1 /\ w = (w \div m) * m + (w % m)
    BY <1>1, ModLaw
  <2> QED
    BY <2>1, <2>2
<1>5. Wrap(0) = 0
  <2>1. 0 \in 0 .. m - 1 /\ 0 * m + 0 = 0
    BY <1>1
  <2> QED
    BY <2>1, <1>1, <1>2, ModUnique
<1>6. CASE v >= w
  <2>1. r - s = (p - q) * m + (v - w)
    BY <1>1, <1>3, <1>4
  <2>2. v - w \in 0 .. m - 1
    BY <1>1, <1>6 DEF m
  <2>3. Wrap(r - s) = v - w
    BY <2>1, <2>2, <1>1, <1>2, ModUnique
  <2>4. r = s => Wrap(r - s) = 0
    BY <1>1, <1>5
  <2> QED
    BY <2>3, <2>4, <1>1, <1>3, <1>4 DEF Greater
<1>7. CASE v < w
  <2>1. r - s = (p - q - 1) * m + (v - w + m)
    BY <1>1, <1>3, <1>4
  <2>2. v - w + m \in Half + 1 .. m - 1
    BY <1>1, <1>7 DEF m
  <2>3. Wrap(r - s) = v - w + m
    BY <2>1, <2>2, <1>1, <1>2, ModUnique
  <2>4. r = s => Wrap(r - s) = 0
    BY <1>1, <1>5
  <2> QED
    BY <2>2, <2>3, <2>4, <1>1, <1>3, <1>4 DEF Greater
<1> QED
  BY <1>6, <1>7

-----------------------------------------------------------------------------
(* Entries of the tree, and waiting tasks with the virtual time they were  *)
(* given.                                                                  *)
Entries == [vtime : 0 .. 2 * Half - 1, order : 0 .. MaxInserts, task : Task, given : Nat]

Waiters == [task : Task, vtime : Nat]

(* The order of the tree as it ought to be: of the virtual times that do   *)
(* not wrap, and of arrival.                                               *)
Follows(d, e) ==
    \/ d.given < e.given
    \/ d.given = e.given /\ d.order < e.order

(* A tree in order: its entries are apart by a window at most, are of      *)
(* different tasks, hold the wrapped virtual time they were given, and     *)
(* came before the next insertion.                                         *)
InOrder(tree, next) ==
    \A i, j \in DOMAIN tree :
        /\ i < j => Follows(tree[i], tree[j])
        /\ tree[i].given - tree[j].given \in -Window .. Window
        /\ tree[i].task = tree[j].task => i = j
        /\ tree[i].vtime = Wrap(tree[i].given)
        /\ tree[i].order < next

(* A list has the tasks of a tree, in the order of arrival.                *)
Is(w, e) == w = [task |-> e.task, vtime |-> e.given]

Lists(list, tree) ==
    /\ \A i \in DOMAIN list : \E k \in DOMAIN tree : Is(list[i], tree[k])
    /\ \A k \in DOMAIN tree : \E i \in DOMAIN list : Is(list[i], tree[k])
    /\ \A i, j \in DOMAIN list : \A k, l \in DOMAIN tree :
         Is(list[i], tree[k]) /\ Is(list[j], tree[l]) /\ i < j => tree[k].order < tree[l].order

(* The same for a FIFO.                                                    *)
ListsFifo(list, fifo) ==
    /\ Len(list) = Len(fifo)
    /\ \A i \in DOMAIN fifo : list[i] = [task |-> fifo[i], vtime |-> 0]
    /\ \A i, j \in DOMAIN fifo : fifo[i] = fifo[j] => i = j

(* The inductive invariant.  The mode says which kind of entries there can *)
(* be, the tree is in order, and the history is that of the queue.         *)
OneKind ==
    /\ mode = "Fifo" => vtimeEntries = <<>>
    /\ mode = "Priq" => fifoEntries = <<>>

ArrivedIsQueue ==
    IF mode = "Fifo" THEN ListsFifo(arrived, fifoEntries) ELSE Lists(arrived, vtimeEntries)

DsqInv ==
    TypeOK /\ NoPanic /\ OneKind /\ InOrder(vtimeEntries, counter) /\ ArrivedIsQueue

(* A search for an entry of the tree stops at that entry, so that neither  *)
(* the unwrap of pop_first_matching nor the unchecked removal of           *)
(* remove_pid ever misses.                                                 *)
LEMMA SearchFinds ==
    ASSUME DsqAssumption, DsqInv, NEW i \in DOMAIN vtimeEntries
    PROVE  Found(i)
<1> DEFINE e(j) == vtimeEntries[j]
<1>1. /\ vtimeEntries \in Seq(Entries) /\ DOMAIN vtimeEntries = 1 .. Len(vtimeEntries)
      /\ Len(vtimeEntries) \in Nat
  BY DEF DsqInv, TypeOK, Entries
<1>2. ASSUME NEW j \in DOMAIN vtimeEntries
      PROVE  e(j).given \in Nat /\ e(j).order \in Nat /\ e(j).vtime = Wrap(e(j).given)
  <2>1. vtimeEntries[j] \in Entries
    BY <1>1
  <2> QED
    BY <2>1 DEF DsqInv, InOrder, Entries
<1>3. ASSUME NEW j \in 1 .. i - 1 PROVE KeyGreater(e(i), e(j))
  <2>1. j \in DOMAIN vtimeEntries /\ j < i
    BY <1>1
  <2>2. Follows(e(j), e(i)) /\ e(i).given - e(j).given \in -Window .. Window
    BY <2>1 DEF DsqInv, InOrder
  <2>3. /\ Greater(e(i).vtime, e(j).vtime) <=> e(i).given > e(j).given
        /\ e(i).vtime = e(j).vtime <=> e(i).given = e(j).given
    BY <2>1, <2>2, <1>2, WrapOrder
  <2> HIDE DEF e
  <2> QED
    BY <2>1, <2>2, <2>3, <1>2 DEF Follows, KeyGreater
<1>4. ~KeyGreater(e(i), e(i))
  <2>1. e(i).given - e(i).given \in -Window .. Window
    BY DEF DsqInv, InOrder
  <2>2. ~Greater(e(i).vtime, e(i).vtime)
    BY <2>1, <1>2, WrapOrder
  <2> QED
    BY <2>2, <1>2 DEF KeyGreater
<1> QED
  BY <1>1, <1>3, <1>4 DEF Found, SearchStops

(* Where the search for a new key stops, the key is in its place: smaller  *)
(* ones before it, larger ones behind.                                     *)
LEMMA Placed ==
    ASSUME DsqAssumption, DsqInv, NEW t \in Task, NEW v \in Nat, InWindow(v),
           NEW i \in 1 .. Len(vtimeEntries) + 1, SearchStops(Entry(t, v), i)
    PROVE  \A j \in DOMAIN vtimeEntries :
             IF j < i THEN Follows(vtimeEntries[j], Entry(t, v))
             ELSE Follows(Entry(t, v), vtimeEntries[j])
<1> DEFINE d(j) == vtimeEntries[j]
<1>0. PICK e : e = Entry(t, v)
  OBVIOUS
<1>1. /\ vtimeEntries \in Seq(Entries) /\ DOMAIN vtimeEntries = 1 .. Len(vtimeEntries)
      /\ Len(vtimeEntries) \in Nat /\ counter \in Nat
  BY DEF DsqInv, TypeOK, Entries
<1>2. ASSUME NEW j \in DOMAIN vtimeEntries
      PROVE  /\ d(j).given \in Nat /\ d(j).order \in Nat /\ d(j).vtime = Wrap(d(j).given)
             /\ d(j).order < counter /\ v - d(j).given \in -Window .. Window
  <2>1. vtimeEntries[j] \in Entries
    BY <1>1
  <2> QED
    BY <2>1 DEF DsqInv, InOrder, Entries, InWindow
<1>3. e.given = v /\ e.order = counter /\ e.vtime = Wrap(v)
  BY <1>0 DEF Entry
<1>4. ASSUME NEW j \in DOMAIN vtimeEntries
      PROVE  KeyGreater(e, d(j)) <=> Follows(d(j), e)
  <2>1. /\ Greater(e.vtime, d(j).vtime) <=> v > d(j).given
        /\ e.vtime = d(j).vtime <=> v = d(j).given
    BY <1>2, <1>3, WrapOrder
  <2> HIDE DEF d
  <2> QED
    BY <2>1, <1>1, <1>2, <1>3 DEF KeyGreater, Follows
<1>5. ASSUME NEW j \in DOMAIN vtimeEntries, j < i PROVE Follows(d(j), e)
  BY <1>0, <1>1, <1>4, <1>5 DEF SearchStops
<1>6. ASSUME NEW j \in DOMAIN vtimeEntries, j >= i PROVE Follows(e, d(j))
  <2>1. i \in DOMAIN vtimeEntries /\ ~KeyGreater(e, d(i))
    BY <1>0, <1>1, <1>6 DEF SearchStops
  <2>2. v < d(i).given
    BY <2>1, <1>1, <1>2, <1>3, <1>4 DEF Follows
  <2>3. j = i \/ Follows(d(i), d(j))
    BY <2>1, <1>1, <1>6 DEF DsqInv, InOrder
  <2> QED
    BY <2>1, <2>2, <2>3, <1>2, <1>3 DEF Follows
<1> QED
  BY <1>0, <1>1, <1>5, <1>6

(* new is tree with e put at position i, or with position i taken out.     *)
Puts(tree, i, e, new) ==
    \A k \in DOMAIN new :
        new[k] = IF k < i THEN tree[k] ELSE IF k = i THEN e ELSE tree[k - 1]

Takes(tree, i, new) ==
    \A k \in DOMAIN new : new[k] = IF k < i THEN tree[k] ELSE tree[k + 1]

(* A tree in order stays so when an entry is put in its place ...          *)
LEMMA OrderInserted ==
    ASSUME NEW n \in Nat, NEW tree \in [1 .. n -> Entries],
           NEW next \in Nat, InOrder(tree, next),
           NEW e \in Entries, e.order = next, e.vtime = Wrap(e.given), Window \in Nat,
           \A j \in DOMAIN tree :
               e.task # tree[j].task /\ e.given - tree[j].given \in -Window .. Window,
           NEW i \in 1 .. n + 1,
           \A j \in DOMAIN tree : IF j < i THEN Follows(tree[j], e) ELSE Follows(e, tree[j]),
           NEW new \in [1 .. n + 1 -> Entries], Puts(tree, i, e, new)
    PROVE  InOrder(new, next + 1)
<1>1. \A k \in 1 .. n + 1 : new[k] = IF k < i THEN tree[k] ELSE IF k = i THEN e ELSE tree[k - 1]
  BY DEF Puts
<1>2. DOMAIN new = 1 .. n + 1 /\ DOMAIN tree = 1 .. n
  OBVIOUS
<1>3. ASSUME NEW k \in DOMAIN tree
      PROVE  /\ tree[k].given \in Nat /\ tree[k].order \in Nat /\ tree[k].order < next
             /\ tree[k].vtime = Wrap(tree[k].given)
  <2>1. tree[k] \in Entries
    OBVIOUS
  <2>2. tree[k].given \in Nat /\ tree[k].order \in Nat
    BY <2>1 DEF Entries
  <2> QED
    BY <2>2 DEF InOrder
<1>4. e.given \in Nat
  BY DEF Entries
<1>5. ASSUME NEW x \in DOMAIN new
      PROVE  x = i \/ \E l \in DOMAIN tree : /\ new[x] = tree[l]
                                             /\ (x < i /\ l = x) \/ (x > i /\ l = x - 1)
  <2>1. CASE x < i
    <3>1. x \in DOMAIN tree /\ new[x] = tree[x]
      BY <1>1, <1>2, <2>1
    <3> QED
      BY <3>1, <2>1
  <2>2. CASE x > i
    <3>1. x - 1 \in DOMAIN tree /\ new[x] = tree[x - 1]
      BY <1>1, <1>2, <2>2
    <3> QED
      BY <3>1, <2>2
  <2> QED
    BY <2>1, <2>2, <1>2
<1>6. ASSUME NEW x \in DOMAIN new, NEW y \in DOMAIN new
      PROVE  /\ x < y => Follows(new[x], new[y])
             /\ new[x].given - new[y].given \in -Window .. Window
             /\ new[x].task = new[y].task => x = y
             /\ new[x].vtime = Wrap(new[x].given)
             /\ new[x].order < next + 1
  <2>0. new[i] = e
    BY <1>1, <1>2
  <2>1. CASE x = i /\ y = i
    BY <2>0, <2>1, <1>4
  <2>2. CASE x = i /\ y # i
    <3>1. PICK l \in DOMAIN tree : new[y] = tree[l] /\ (y > i => l >= i)
      BY <1>2, <1>5, <2>2
    <3>2. y > i => Follows(e, tree[l])
      BY <3>1, <1>2
    <3> QED
      BY <2>0, <2>2, <3>1, <3>2, <1>2, <1>3, <1>4
  <2>3. CASE x # i /\ y = i
    <3>1. PICK l \in DOMAIN tree : new[x] = tree[l] /\ (x < i => l < i)
      BY <1>2, <1>5, <2>3
    <3>2. x < i => Follows(tree[l], e)
      BY <3>1, <1>2
    <3>3. tree[l].vtime = Wrap(tree[l].given) /\ tree[l].task # e.task
      BY <1>3
    <3>4. e.given - tree[l].given \in -Window .. Window
      OBVIOUS
    <3>5. tree[l].given - e.given \in -Window .. Window
      BY <3>4, <1>3, <1>4
    <3>6. tree[l].order < next + 1
      BY <1>3
    <3> QED
      BY <2>0, <2>3, <3>1, <3>2, <3>3, <3>5, <3>6
  <2>4. CASE x # i /\ y # i
    <3>1. PICK l \in DOMAIN tree :
            new[x] = tree[l] /\ ((x < i /\ l = x) \/ (x > i /\ l = x - 1))
      BY <1>5, <2>4
    <3>2. PICK m \in DOMAIN tree :
            new[y] = tree[m] /\ ((y < i /\ m = y) \/ (y > i /\ m = y - 1))
      BY <1>5, <2>4
    <3>3. (x < y => l < m) /\ (l = m => x = y)
      BY <3>1, <3>2, <1>2
    <3>4. /\ l < m => Follows(tree[l], tree[m])
          /\ tree[l].given - tree[m].given \in -Window .. Window
          /\ tree[l].task = tree[m].task => l = m
          /\ tree[l].vtime = Wrap(tree[l].given)
      BY DEF InOrder
    <3>5. tree[l].order < next + 1
      BY <1>3
    <3> QED
      BY <3>1, <3>2, <3>3, <3>4, <3>5
  <2> QED
    BY <2>1, <2>2, <2>3, <2>4
<1> QED
  BY <1>1, <1>6 DEF InOrder

(* ... and a list of its entries stays one when the entry is added at its  *)
(* end.                                                                    *)
LEMMA ListsInserted ==
    ASSUME NEW n \in Nat, NEW tree \in [1 .. n -> Entries], NEW e \in Entries,
           NEW i \in 1 .. n + 1, NEW new \in [1 .. n + 1 -> Entries], Puts(tree, i, e, new),
           NEW m \in Nat, NEW list \in [1 .. m -> Waiters], Lists(list, tree),
           NEW more \in [1 .. m + 1 -> Waiters], Is(more[m + 1], e),
           \A j \in 1 .. m : more[j] = list[j],
           \A j \in DOMAIN tree : e.task # tree[j].task /\ tree[j].order < e.order
    PROVE  Lists(more, new)
<1>1. \A k \in 1 .. n + 1 : new[k] = IF k < i THEN tree[k] ELSE IF k = i THEN e ELSE tree[k - 1]
  BY DEF Puts
<1>2. DOMAIN new = 1 .. n + 1 /\ DOMAIN tree = 1 .. n
  OBVIOUS
<1>3. /\ DOMAIN more = 1 .. m + 1 /\ Is(more[m + 1], e)
      /\ \A j \in DOMAIN list : more[j] = list[j]
  OBVIOUS
<1>4. DOMAIN list = 1 .. m /\ m \in Nat
  OBVIOUS
<1>5. new[i] = e /\ i \in DOMAIN new
  BY <1>1, <1>2
<1>6. ASSUME NEW k \in DOMAIN tree PROVE \E x \in DOMAIN new : new[x] = tree[k]
  <2>1. CASE k < i
    BY <1>1, <1>2, <2>1
  <2>2. CASE k >= i
    <3>1. k + 1 \in DOMAIN new /\ k + 1 > i /\ k + 1 - 1 = k
      BY <1>2, <2>2
    <3>2. new[k + 1] = tree[k]
      BY <3>1, <1>1, <1>2
    <3> QED
      BY <3>1, <3>2
  <2> QED
    BY <2>1, <2>2, <1>2
<1>7. ASSUME NEW x \in DOMAIN new, x # i PROVE \E k \in DOMAIN tree : new[x] = tree[k]
  <2>1. CASE x < i
    <3>1. x \in DOMAIN tree /\ new[x] = tree[x]
      BY <1>1, <1>2, <2>1
    <3> QED
      BY <3>1
  <2>2. CASE x > i
    <3>1. x - 1 \in DOMAIN tree /\ new[x] = tree[x - 1]
      BY <1>1, <1>2, <2>2
    <3> QED
      BY <3>1
  <2> QED
    BY <2>1, <2>2, <1>2, <1>7
<1>8. ASSUME NEW a \in DOMAIN more PROVE \E k \in DOMAIN new : Is(more[a], new[k])
  <2>1. CASE a = m + 1
    BY <2>1, <1>3, <1>5
  <2>2. CASE a \in DOMAIN list
    <3>1. PICK k \in DOMAIN tree : Is(list[a], tree[k])
      BY <2>2 DEF Lists
    <3> QED
      BY <3>1, <2>2, <1>3, <1>6
  <2> QED
    BY <2>1, <2>2, <1>3, <1>4
<1>9. ASSUME NEW x \in DOMAIN new PROVE \E a \in DOMAIN more : Is(more[a], new[x])
  <2>1. CASE x = i
    BY <2>1, <1>3, <1>4, <1>5
  <2>2. CASE x # i
    <3>1. PICK k \in DOMAIN tree : new[x] = tree[k]
      BY <2>2, <1>7
    <3>2. PICK a \in DOMAIN list : Is(list[a], tree[k])
      BY DEF Lists
    <3> QED
      BY <3>1, <3>2, <1>3, <1>4
  <2> QED
    BY <2>1, <2>2
<1>10. ASSUME NEW a \in DOMAIN more, NEW b \in DOMAIN more, a < b,
              NEW x \in DOMAIN new, NEW y \in DOMAIN new,
              Is(more[a], new[x]), Is(more[b], new[y])
       PROVE  new[x].order < new[y].order
  <2>1. a \in DOMAIN list /\ more[a] = list[a]
    BY <1>3, <1>4, <1>10
  <2>2. PICK k \in DOMAIN tree : Is(list[a], tree[k])
    BY <2>1 DEF Lists
  <2>3. x # i
    BY <2>1, <2>2, <1>5, <1>10 DEF Is
  <2>4. PICK l \in DOMAIN tree : new[x] = tree[l]
    BY <2>3, <1>7
  <2>5. CASE y = i
    BY <2>4, <2>5, <1>5
  <2>6. CASE y # i
    <3>1. PICK j \in DOMAIN tree : new[y] = tree[j]
      BY <2>6, <1>7
    <3>2. more[b].task = tree[j].task
      BY <3>1, <1>10 DEF Is
    <3>3. b # m + 1
      BY <3>2, <1>3 DEF Is
    <3>4. b \in DOMAIN list /\ more[b] = list[b]
      BY <3>3, <1>3, <1>4
    <3>5. Is(list[a], tree[l]) /\ Is(list[b], tree[j])
      BY <2>1, <2>4, <3>1, <3>4, <1>10
    <3>6. tree[l].order < tree[j].order
      BY <2>1, <3>4, <3>5, <1>10 DEF Lists
    <3> QED
      BY <2>4, <3>1, <3>6
  <2> QED
    BY <2>5, <2>6
<1> QED
  BY <1>1, <1>3, <1>8, <1>9, <1>10 DEF Lists

(* A tree in order stays so without one of its entries ...                 *)
LEMMA OrderRemoved ==
    ASSUME NEW n \in Nat, NEW tree \in [1 .. n -> Entries], NEW next, InOrder(tree, next),
           NEW i \in 1 .. n, NEW new \in [1 .. n - 1 -> Entries], Takes(tree, i, new)
    PROVE  InOrder(new, next)
<1>1. \A k \in 1 .. n - 1 : new[k] = IF k < i THEN tree[k] ELSE tree[k + 1]
  BY DEF Takes
<1>2. DOMAIN new = 1 .. n - 1 /\ DOMAIN tree = 1 .. n
  OBVIOUS
<1>3. ASSUME NEW x \in DOMAIN new
      PROVE  \E l \in DOMAIN tree : /\ new[x] = tree[l]
                                    /\ (x < i /\ l = x) \/ (x >= i /\ l = x + 1)
  BY <1>1, <1>2
<1>4. ASSUME NEW x \in DOMAIN new, NEW y \in DOMAIN new
      PROVE  /\ x < y => Follows(new[x], new[y])
             /\ new[x].given - new[y].given \in -Window .. Window
             /\ new[x].task = new[y].task => x = y
             /\ new[x].vtime = Wrap(new[x].given)
             /\ new[x].order < next
  <2>1. PICK l \in DOMAIN tree : new[x] = tree[l] /\ ((x < i /\ l = x) \/ (x >= i /\ l = x + 1))
    BY <1>3
  <2>2. PICK m \in DOMAIN tree : new[y] = tree[m] /\ ((y < i /\ m = y) \/ (y >= i /\ m = y + 1))
    BY <1>3
  <2>3. (x < y => l < m) /\ (l = m => x = y)
    BY <2>1, <2>2, <1>2
  <2> QED
    BY <2>1, <2>2, <2>3 DEF InOrder
<1> QED
  BY <1>1, <1>4 DEF InOrder

(* ... and a list of its entries stays one when it loses the same.         *)
LEMMA ListsRemoved ==
    ASSUME NEW n \in Nat, NEW tree \in [1 .. n -> Entries], NEW next, InOrder(tree, next),
           NEW i \in 1 .. n, NEW new \in [1 .. n - 1 -> Entries], Takes(tree, i, new),
           NEW m \in Nat, NEW list \in [1 .. m -> Waiters], Lists(list, tree),
           NEW j \in 1 .. m, list[j].task = tree[i].task,
           NEW less \in [1 .. m - 1 -> Waiters], Takes(list, j, less)
    PROVE  Lists(less, new)
<1>1. \A k \in 1 .. n - 1 : new[k] = IF k < i THEN tree[k] ELSE tree[k + 1]
  BY DEF Takes
<1>2. \A k \in 1 .. m - 1 : less[k] = IF k < j THEN list[k] ELSE list[k + 1]
  BY DEF Takes
<1>3. /\ DOMAIN new = 1 .. n - 1 /\ DOMAIN tree = 1 .. n
      /\ DOMAIN less = 1 .. m - 1 /\ DOMAIN list = 1 .. m
  OBVIOUS
<1>4. ASSUME NEW x \in DOMAIN new
      PROVE  \E l \in DOMAIN tree \ {i} : new[x] = tree[l]
  BY <1>1, <1>3
<1>5. ASSUME NEW l \in DOMAIN tree, l # i PROVE \E x \in DOMAIN new : new[x] = tree[l]
  <2>1. CASE l < i
    BY <1>1, <1>3, <2>1
  <2>2. CASE l > i
    <3>1. l - 1 \in 1 .. n - 1 /\ ~(l - 1 < i) /\ l - 1 + 1 = l
      BY <1>3, <2>2
    <3> QED
      BY <3>1, <1>1, <1>3
  <2> QED
    BY <2>1, <2>2, <1>3, <1>5
<1>6. ASSUME NEW a \in DOMAIN less
      PROVE  \E c \in DOMAIN list \ {j} : less[a] = list[c] /\ ((a < j /\ c = a) \/ (a >= j /\ c = a + 1))
  <2>1. CASE a < j
    <3>1. a \in DOMAIN list /\ less[a] = list[a]
      BY <1>2, <1>3, <2>1
    <3> QED
      BY <3>1, <2>1, <1>3
  <2>2. CASE a >= j
    <3>1. a + 1 \in DOMAIN list /\ less[a] = list[a + 1]
      BY <1>2, <1>3, <2>2
    <3> QED
      BY <3>1, <2>2, <1>3
  <2> QED
    BY <2>1, <2>2, <1>3
<1>7. ASSUME NEW c \in DOMAIN list, c # j PROVE \E a \in DOMAIN less : less[a] = list[c]
  <2>1. CASE c < j
    BY <1>2, <1>3, <2>1
  <2>2. CASE c > j
    <3>1. c - 1 \in 1 .. m - 1 /\ ~(c - 1 < j) /\ c - 1 + 1 = c
      BY <1>3, <2>2
    <3> QED
      BY <3>1, <1>2, <1>3
  <2> QED
    BY <2>1, <2>2, <1>3, <1>7
<1>8. Is(list[j], tree[i])
  <2>1. PICK k \in DOMAIN tree : Is(list[j], tree[k])
    BY DEF Lists
  <2>2. tree[k].task = tree[i].task
    BY <2>1 DEF Is
  <2> QED
    BY <2>1, <2>2 DEF InOrder
<1>9. ASSUME NEW k \in DOMAIN tree PROVE tree[k].order \in Nat
  <2>1. tree[k] \in Entries
    OBVIOUS
  <2> QED
    BY <2>1 DEF Entries
<1>10. ASSUME NEW c \in DOMAIN list, Is(list[c], tree[i]) PROVE c = j
  <2>1. j \in DOMAIN list /\ i \in DOMAIN tree
    BY <1>3
  <2>2. c < j \/ j < c => tree[i].order < tree[i].order
    BY <2>1, <1>8, <1>10 DEF Lists
  <2> QED
    BY <2>1, <2>2, <1>3, <1>9
<1>11. ASSUME NEW a \in DOMAIN less PROVE \E k \in DOMAIN new : Is(less[a], new[k])
  <2>1. PICK c \in DOMAIN list \ {j} : less[a] = list[c]
    BY <1>6
  <2>2. PICK k \in DOMAIN tree : Is(list[c], tree[k])
    BY DEF Lists
  <2>3. k # i
    BY <2>1, <2>2, <1>10
  <2> QED
    BY <2>1, <2>2, <2>3, <1>5
<1>12. ASSUME NEW x \in DOMAIN new PROVE \E a \in DOMAIN less : Is(less[a], new[x])
  <2>1. PICK k \in DOMAIN tree \ {i} : new[x] = tree[k]
    BY <1>4
  <2>2. PICK c \in DOMAIN list : Is(list[c], tree[k])
    BY DEF Lists
  <2>3. c # j
    <3>1. tree[k].task # tree[i].task
      BY DEF InOrder
    <3> QED
      BY <3>1, <2>2 DEF Is
  <2> QED
    BY <2>1, <2>2, <2>3, <1>7
<1>13. ASSUME NEW a \in DOMAIN less, NEW b \in DOMAIN less, a < b,
              NEW x \in DOMAIN new, NEW y \in DOMAIN new,
              Is(less[a], new[x]), Is(less[b], new[y])
       PROVE  new[x].order < new[y].order
  <2>1. PICK c \in DOMAIN list : less[a] = list[c] /\ ((a < j /\ c = a) \/ (a >= j /\ c = a + 1))
    BY <1>6
  <2>2. PICK d \in DOMAIN list : less[b] = list[d] /\ ((b < j /\ d = b) \/ (b >= j /\ d = b + 1))
    BY <1>6
  <2>3. c < d
    BY <2>1, <2>2, <1>3, <1>13
  <2>4. PICK k \in DOMAIN tree, l \in DOMAIN tree : new[x] = tree[k] /\ new[y] = tree[l]
    BY <1>4
  <2> QED
    BY <2>1, <2>2, <2>3, <2>4, <1>13 DEF Lists
<1> QED
  BY <1>1, <1>2, <1>11, <1>12, <1>13 DEF Lists

-----------------------------------------------------------------------------

(* The types of the sequences, as functions.                               *)
LEMMA DsqTypes ==
    ASSUME DsqInv
    PROVE  /\ vtimeEntries \in Seq(Entries) /\ fifoEntries \in Seq(Task)
           /\ arrived \in Seq(Waiters) /\ counter \in 0 .. MaxInserts
           /\ Len(vtimeEntries) \in Nat /\ DOMAIN vtimeEntries = 1 .. Len(vtimeEntries)
           /\ Len(fifoEntries) \in Nat /\ DOMAIN fifoEntries = 1 .. Len(fifoEntries)
           /\ Len(arrived) \in Nat /\ DOMAIN arrived = 1 .. Len(arrived)
           /\ vtimeEntries \in [1 .. Len(vtimeEntries) -> Entries]
           /\ arrived \in [1 .. Len(arrived) -> Waiters]
<1>1. /\ vtimeEntries \in Seq(Entries) /\ fifoEntries \in Seq(Task)
      /\ arrived \in Seq(Waiters) /\ counter \in 0 .. MaxInserts
  BY DEF DsqInv, TypeOK, Entries, Waiters
<1> QED
  BY <1>1

(* The tasks of the history are those of the queue.                        *)
LEMMA ArrivedQueued ==
    ASSUME DsqInv, NEW i \in DOMAIN arrived
    PROVE  arrived[i].task \in Queued
<1>1. CASE mode = "Fifo"
  <2>1. ListsFifo(arrived, fifoEntries)
    BY <1>1 DEF DsqInv, ArrivedIsQueue
  <2>2. i \in DOMAIN fifoEntries
    BY <2>1, DsqTypes DEF ListsFifo
  <2>3. arrived[i] = [task |-> fifoEntries[i], vtime |-> 0]
    BY <2>1, <2>2 DEF ListsFifo
  <2>4. arrived[i].task = fifoEntries[i]
    BY <2>3
  <2> QED
    BY <2>2, <2>4 DEF Queued, ToSet
<1>2. CASE mode # "Fifo"
  <2>1. PICK k \in DOMAIN vtimeEntries : Is(arrived[i], vtimeEntries[k])
    BY <1>2 DEF DsqInv, ArrivedIsQueue, Lists
  <2> QED
    BY <2>1 DEF Is, Queued
<1> QED
  BY <1>1, <1>2

(* Only the empty list lists an empty tree.                                *)
LEMMA EmptyLists ==
    ASSUME NEW list \in Seq(Waiters), NEW tree, DOMAIN tree = {}
    PROVE  Lists(list, tree) <=> list = <<>>
<1>1. Len(list) \in Nat /\ DOMAIN list = 1 .. Len(list)
  OBVIOUS
<1>2. Lists(list, tree) <=> DOMAIN list = {}
  BY DEF Lists
<1>3. DOMAIN list = {} <=> Len(list) = 0
  <2>1. Len(list) # 0 => 1 \in DOMAIN list
    BY <1>1
  <2>2. Len(list) = 0 => DOMAIN list = {}
    BY <1>1
  <2> QED
    BY <2>1, <2>2
<1> QED
  BY <1>2, <1>3, EmptySeq

(* The invariant holds of the new queue.                                   *)
LEMMA DsqInitially ==
    ASSUME DsqAssumption, Init
    PROVE  DsqInv
<1>1. TypeOK
  <2>1. reply \in [cpu : Cpu \cup {None}, task : Task \cup {None}]
    BY DEF Init, NoReply
  <2>2. counter \in 0 .. MaxInserts
    BY DEF Init, DsqAssumption
  <2>3. /\ vtimeEntries \in Seq(Entries) /\ fifoEntries \in Seq(Task)
        /\ arrived \in Seq(Waiters)
    BY DEF Init
  <2>4. mode \in DsqMode /\ panicked \in BOOLEAN
    BY DEF Init, DsqMode
  <2>5. mode = "Empty" /\ vtimeEntries = <<>> /\ fifoEntries = <<>>
    BY DEF Init
  <2> QED
    BY <2>1, <2>2, <2>3, <2>4, <2>5 DEF TypeOK, Entries, Waiters
<1>2. DOMAIN vtimeEntries = {}
  BY DEF Init
<1>3. InOrder(vtimeEntries, counter)
  BY <1>2 DEF InOrder
<1>4. arrived \in Seq(Waiters) /\ arrived = <<>> /\ mode # "Fifo"
  BY DEF Init
<1>5. ArrivedIsQueue
  BY <1>2, <1>4, EmptyLists DEF ArrivedIsQueue
<1> QED
  BY <1>1, <1>3, <1>5 DEF Init, DsqInv, NoPanic, OneKind

(* insert_fifo keeps the invariant and adds its task to the history.       *)
LEMMA FifoInserted ==
    ASSUME DsqAssumption, DsqInv, NEW t \in Task, InsertFifo(t)
    PROVE  DsqInv' /\ arrived' = Append(arrived, [task |-> t, vtime |-> 0])
<1>1. mode # "Priq"
  BY DEF DsqInv, TypeOK, OneKind, InsertFifo
<1>2. /\ mode' = "Fifo" /\ fifoEntries' = Append(fifoEntries, t) /\ ~panicked' /\ ~panicked
      /\ arrived' = Append(arrived, [task |-> t, vtime |-> 0])
      /\ vtimeEntries' = <<>> /\ vtimeEntries = <<>> /\ counter' = counter /\ reply' = NoReply
      /\ t \notin Queued
  BY <1>1 DEF InsertFifo, Arrives, DsqInv, NoPanic
<1>3. ListsFifo(arrived, fifoEntries)
  <2>1. CASE mode = "Fifo"
    BY <2>1 DEF DsqInv, ArrivedIsQueue
  <2>2. CASE mode = "Empty"
    <3>1. fifoEntries = <<>> /\ Lists(arrived, vtimeEntries)
      BY <2>2 DEF DsqInv, ArrivedIsQueue, TypeOK
    <3>2. arrived = <<>>
      BY <3>1, <1>2, DsqTypes, EmptyLists
    <3> QED
      BY <3>1, <3>2 DEF ListsFifo
  <2> QED
    BY <1>1, <2>1, <2>2 DEF DsqInv, TypeOK, DsqMode
<1>4. PICK w \in Waiters : w = [task |-> t, vtime |-> 0]
  <2>1. [task |-> t, vtime |-> 0] \in Waiters
    BY DEF Waiters
  <2> QED
    BY <2>1
<1>5. /\ fifoEntries \in Seq(Task) /\ arrived \in Seq(Waiters) /\ Len(arrived) = Len(fifoEntries)
      /\ \A i \in DOMAIN fifoEntries : fifoEntries[i] # t
  BY <1>2, <1>3, DsqTypes DEF ListsFifo, Queued, ToSet
<1>6. /\ fifoEntries' \in Seq(Task) /\ Len(fifoEntries') = Len(fifoEntries) + 1
      /\ fifoEntries'[Len(fifoEntries) + 1] = t
      /\ \A i \in 1 .. Len(fifoEntries) : fifoEntries'[i] = fifoEntries[i]
  BY <1>2, <1>5
<1>7. /\ arrived' \in Seq(Waiters) /\ Len(arrived') = Len(arrived) + 1
      /\ arrived'[Len(arrived) + 1] = w
      /\ \A i \in 1 .. Len(arrived) : arrived'[i] = arrived[i]
  BY <1>2, <1>4, <1>5
<1>8. ListsFifo(arrived', fifoEntries')
  <2>1. /\ DOMAIN fifoEntries = 1 .. Len(fifoEntries) /\ Len(fifoEntries) \in Nat
        /\ DOMAIN fifoEntries' = 1 .. Len(fifoEntries) + 1
    BY <1>5, <1>6
  <2>2. ASSUME NEW i \in DOMAIN fifoEntries'
        PROVE  arrived'[i] = [task |-> fifoEntries'[i], vtime |-> 0]
    <3>1. CASE i \in DOMAIN fifoEntries
      BY <3>1, <2>1, <1>3, <1>5, <1>6, <1>7 DEF ListsFifo
    <3>2. CASE i = Len(fifoEntries) + 1
      BY <3>2, <1>4, <1>5, <1>6, <1>7
    <3> QED
      BY <2>1, <3>1, <3>2
  <2>3. ASSUME NEW i \in DOMAIN fifoEntries', NEW j \in DOMAIN fifoEntries',
               fifoEntries'[i] = fifoEntries'[j]
        PROVE  i = j
    <3>1. \A k \in DOMAIN fifoEntries' :
            k \in DOMAIN fifoEntries \/ k = Len(fifoEntries) + 1
      BY <2>1
    <3>2. CASE i \in DOMAIN fifoEntries /\ j \in DOMAIN fifoEntries
      BY <3>2, <2>1, <2>3, <1>3, <1>6 DEF ListsFifo
    <3> QED
      BY <3>1, <3>2, <2>1, <2>3, <1>5, <1>6
  <2> QED
    BY <2>2, <2>3, <1>5, <1>6, <1>7 DEF ListsFifo
<1>9. fifoEntries' # <<>>
  BY <1>5, <1>6
<1>10. TypeOK'
  <2>1. vtimeEntries' \in Seq(Entries) /\ counter' \in 0 .. MaxInserts
    BY <1>2, DsqTypes
  <2>2. reply' \in [cpu : Cpu \cup {None}, task : Task \cup {None}]
    BY <1>2 DEF NoReply
  <2>3. mode' \in DsqMode /\ panicked' \in BOOLEAN /\ mode' # "Empty"
    BY <1>2 DEF DsqMode, DsqInv, TypeOK, InsertFifo
  <2> QED
    BY <2>1, <2>2, <2>3, <1>6, <1>7, <1>9 DEF TypeOK, Entries, Waiters
<1>11. InOrder(vtimeEntries', counter')
  BY <1>2 DEF InOrder
<1> QED
  BY <1>2, <1>8, <1>10, <1>11 DEF DsqInv, NoPanic, OneKind, ArrivedIsQueue

(* insert_vtime keeps the invariant and adds its task to the history, with *)
(* the virtual time that does not wrap.                                    *)
LEMMA VtimeInserted ==
    ASSUME DsqAssumption, DsqInv, NEW t \in Task, NEW v \in Nat, InsertVtime(t, v)
    PROVE  DsqInv' /\ arrived' = Append(arrived, [task |-> t, vtime |-> v])
<1>1. mode # "Fifo"
  BY DEF DsqInv, TypeOK, OneKind, InsertVtime
<1>2. PICK e : e = Entry(t, v)
  OBVIOUS
<1>3. PICK i \in 1 .. Len(vtimeEntries) + 1 :
        /\ SearchStops(Entry(t, v), i)
        /\ vtimeEntries' = InsertAt(vtimeEntries, i, e)
  BY <1>1, <1>2 DEF InsertVtime
<1>4. /\ mode' = "Priq" /\ fifoEntries' = <<>> /\ ~panicked' /\ ~panicked
      /\ arrived' = Append(arrived, [task |-> t, vtime |-> v])
      /\ counter' = counter + 1 /\ reply' = NoReply /\ counter < MaxInserts
      /\ t \notin Queued /\ InWindow(v)
  BY <1>1 DEF InsertVtime, Arrives, DsqInv, NoPanic
<1>5. /\ e.task = t /\ e.given = v /\ e.order = counter /\ e.vtime = Wrap(v) /\ e \in Entries
  <2>1. MaxInserts \in Nat /\ 2 * Half \in Int /\ 2 * Half > 0
    BY DEF DsqAssumption
  <2>2. Wrap(v) \in 0 .. 2 * Half - 1
    BY <2>1, ModLaw DEF Wrap
  <2>3. counter \in 0 .. MaxInserts
    BY DsqTypes
  <2> QED
    BY <1>2, <2>2, <2>3 DEF Entry, Entries
<1>6. /\ vtimeEntries' \in Seq(Entries) /\ Len(vtimeEntries') = Len(vtimeEntries) + 1
      /\ \A k \in 1 .. Len(vtimeEntries) + 1 :
           vtimeEntries'[k] = IF k < i THEN vtimeEntries[k]
                              ELSE IF k = i THEN e ELSE vtimeEntries[k - 1]
  <2>1. vtimeEntries \in Seq(Entries) /\ e \in Entries
    BY <1>5, DsqTypes
  <2> DEFINE new == InsertAt(vtimeEntries, i, e)
  <2>2. /\ new \in Seq(Entries) /\ Len(new) = Len(vtimeEntries) + 1
        /\ \A k \in 1 .. Len(vtimeEntries) + 1 :
             new[k] = IF k < i THEN vtimeEntries[k] ELSE IF k = i THEN e ELSE vtimeEntries[k - 1]
    BY ONLY <2>1, i \in 1 .. Len(vtimeEntries) + 1, Inserted
  <2> QED
    BY <2>2, <1>3
<1>7. /\ vtimeEntries' \in [1 .. Len(vtimeEntries) + 1 -> Entries]
      /\ Puts(vtimeEntries, i, e, vtimeEntries')
  BY <1>6, DsqTypes DEF Puts
<1>8. \A j \in DOMAIN vtimeEntries :
        /\ e.task # vtimeEntries[j].task
        /\ e.given - vtimeEntries[j].given \in -Window .. Window
  BY <1>4, <1>5 DEF Queued, InWindow
<1>9. \A j \in DOMAIN vtimeEntries : IF j < i THEN Follows(vtimeEntries[j], e)
                                     ELSE Follows(e, vtimeEntries[j])
  BY <1>2, <1>3, <1>4, Placed
<1>10. InOrder(vtimeEntries, counter) /\ Lists(arrived, vtimeEntries)
  BY <1>1 DEF DsqInv, ArrivedIsQueue
<1>11. InOrder(vtimeEntries', counter + 1)
  <2>1. Window \in Nat /\ counter \in Nat /\ e.order = counter /\ e.vtime = Wrap(e.given)
    BY <1>5, DsqTypes DEF DsqAssumption
  <2> QED
    BY <2>1, <1>5, <1>7, <1>8, <1>9, <1>10, DsqTypes, OrderInserted
<1>12. PICK w : w = [task |-> t, vtime |-> v] /\ w \in Waiters /\ Is(w, e)
  BY <1>5 DEF Waiters, Is
<1>13. /\ arrived' \in Seq(Waiters) /\ arrived' \in [1 .. Len(arrived) + 1 -> Waiters]
       /\ arrived'[Len(arrived) + 1] = w
       /\ \A j \in 1 .. Len(arrived) : arrived'[j] = arrived[j]
  <2>1. arrived \in Seq(Waiters) /\ w \in Waiters /\ arrived' = Append(arrived, w)
    BY <1>4, <1>12, DsqTypes
  <2>2. /\ arrived' \in Seq(Waiters) /\ Len(arrived') = Len(arrived) + 1
        /\ arrived'[Len(arrived) + 1] = w
        /\ \A j \in 1 .. Len(arrived) : arrived'[j] = arrived[j]
    BY <2>1
  <2> QED
    BY <2>2
<1>14. Lists(arrived', vtimeEntries')
  <2>1. \A j \in DOMAIN vtimeEntries :
          e.task # vtimeEntries[j].task /\ vtimeEntries[j].order < e.order
    BY <1>5, <1>8, <1>10 DEF InOrder
  <2>2. Is(arrived'[Len(arrived) + 1], e)
    BY <1>12, <1>13
  <2> QED
    BY <2>1, <2>2, <1>5, <1>7, <1>10, <1>13, DsqTypes, ListsInserted
<1>15. vtimeEntries' # <<>>
  BY <1>6, DsqTypes
<1>16. TypeOK'
  <2>1. counter' \in 0 .. MaxInserts
    BY <1>4, DsqTypes
  <2>2. reply' \in [cpu : Cpu \cup {None}, task : Task \cup {None}]
    BY <1>4 DEF NoReply
  <2>3. /\ mode' \in DsqMode /\ panicked' \in BOOLEAN /\ mode' # "Empty"
        /\ fifoEntries' \in Seq(Task)
    BY <1>1, <1>4 DEF DsqMode, DsqInv, TypeOK, InsertVtime
  <2> QED
    BY <2>1, <2>2, <2>3, <1>6, <1>13, <1>15 DEF TypeOK, Entries, Waiters
<1> QED
  BY <1>4, <1>11, <1>14, <1>16 DEF DsqInv, NoPanic, OneKind, ArrivedIsQueue

(* The abstract queue removes and names what the queue does.               *)
LEMMA SameOperators ==
    ASSUME NEW s, NEW i
    PROVE  Queue!RemoveAt(s, i) = RemoveAt(s, i) /\ Queue!Last(s) = Last(s)
BY DEF Queue!RemoveAt, RemoveAt, Queue!Last, Last

(* Taking an entry out of the tree takes its task out of the history ...   *)
LEMMA EntryTaken ==
    ASSUME DsqAssumption, DsqInv, mode # "Fifo", NEW i \in DOMAIN vtimeEntries, TakeEntry(i)
    PROVE  /\ vtimeEntries' \in Seq(Entries) /\ arrived' \in Seq(Waiters)
           /\ InOrder(vtimeEntries', counter) /\ Lists(arrived', vtimeEntries')
           /\ \E j \in DOMAIN arrived :
                /\ Is(arrived[j], vtimeEntries[i])
                /\ arrived' = RemoveAt(arrived, j)
<1>1. vtimeEntries' = RemoveAt(vtimeEntries, i) /\ Departs(vtimeEntries[i].task)
  BY SearchFinds DEF TakeEntry
<1>2. PICK j \in DOMAIN arrived :
        arrived[j].task = vtimeEntries[i].task /\ arrived' = RemoveAt(arrived, j)
  BY <1>1 DEF Departs
<1>3. PICK n \in Nat, m \in Nat :
        /\ n = Len(vtimeEntries) /\ m = Len(arrived) /\ i \in 1 .. n /\ j \in 1 .. m
        /\ vtimeEntries \in [1 .. n -> Entries] /\ arrived \in [1 .. m -> Waiters]
  BY DsqTypes
<1>4. /\ vtimeEntries' \in Seq(Entries) /\ Len(vtimeEntries') = n - 1
      /\ \A k \in 1 .. n - 1 :
           vtimeEntries'[k] = IF k < i THEN vtimeEntries[k] ELSE vtimeEntries[k + 1]
  <2>1. vtimeEntries \in Seq(Entries) /\ i \in 1 .. Len(vtimeEntries)
    BY <1>3, DsqTypes
  <2> DEFINE new == RemoveAt(vtimeEntries, i)
  <2>2. /\ new \in Seq(Entries) /\ Len(new) = n - 1
        /\ \A k \in 1 .. n - 1 : new[k] = IF k < i THEN vtimeEntries[k] ELSE vtimeEntries[k + 1]
    BY <2>1, <1>3, Removed
  <2> QED
    BY <2>2, <1>1
<1>5. /\ arrived' \in Seq(Waiters) /\ Len(arrived') = m - 1
      /\ \A k \in 1 .. m - 1 : arrived'[k] = IF k < j THEN arrived[k] ELSE arrived[k + 1]
  <2>1. arrived \in Seq(Waiters) /\ j \in 1 .. Len(arrived)
    BY <1>3, DsqTypes
  <2> DEFINE new == RemoveAt(arrived, j)
  <2>2. /\ new \in Seq(Waiters) /\ Len(new) = m - 1
        /\ \A k \in 1 .. m - 1 : new[k] = IF k < j THEN arrived[k] ELSE arrived[k + 1]
    BY <2>1, <1>3, Removed
  <2> QED
    BY <2>2, <1>2
<1>6. /\ vtimeEntries' \in [1 .. n - 1 -> Entries] /\ Takes(vtimeEntries, i, vtimeEntries')
      /\ arrived' \in [1 .. m - 1 -> Waiters] /\ Takes(arrived, j, arrived')
  BY <1>4, <1>5 DEF Takes
<1>7. InOrder(vtimeEntries, counter) /\ Lists(arrived, vtimeEntries)
  BY DEF DsqInv, ArrivedIsQueue
<1>8. InOrder(vtimeEntries', counter)
  BY <1>3, <1>6, <1>7, OrderRemoved
<1>9. Lists(arrived', vtimeEntries')
  BY <1>2, <1>3, <1>6, <1>7, ListsRemoved
<1>10. Is(arrived[j], vtimeEntries[i])
  <2>1. PICK k \in DOMAIN vtimeEntries : Is(arrived[j], vtimeEntries[k])
    BY <1>7 DEF Lists
  <2>2. vtimeEntries[k].task = vtimeEntries[i].task
    BY <2>1, <1>2 DEF Is
  <2> QED
    BY <2>1, <2>2, <1>7 DEF InOrder
<1> QED
  BY <1>2, <1>4, <1>5, <1>8, <1>9, <1>10

(* ... and so does taking one out of the FIFO.                             *)
LEMMA FifoTaken ==
    ASSUME DsqAssumption, DsqInv, mode = "Fifo", NEW i \in DOMAIN fifoEntries,
           fifoEntries' = RemoveAt(fifoEntries, i), Departs(fifoEntries[i])
    PROVE  /\ fifoEntries' \in Seq(Task) /\ arrived' \in Seq(Waiters)
           /\ ListsFifo(arrived', fifoEntries') /\ i \in DOMAIN arrived
           /\ arrived[i].task = fifoEntries[i]
           /\ arrived' = RemoveAt(arrived, i)
<1>1. PICK n \in Nat :
        /\ n = Len(fifoEntries) /\ n = Len(arrived) /\ i \in 1 .. n
        /\ DOMAIN fifoEntries = 1 .. n /\ DOMAIN arrived = 1 .. n
        /\ \A k \in 1 .. n : arrived[k] = [task |-> fifoEntries[k], vtime |-> 0]
        /\ \A k, l \in 1 .. n : fifoEntries[k] = fifoEntries[l] => k = l
  BY DsqTypes DEF DsqInv, ArrivedIsQueue, ListsFifo
<1>2. ASSUME NEW k \in 1 .. n PROVE arrived[k].task = fifoEntries[k]
  <2>1. arrived[k] = [task |-> fifoEntries[k], vtime |-> 0]
    BY <1>1
  <2> QED
    BY <2>1
<1>3. arrived' = RemoveAt(arrived, i)
  <2>1. PICK j \in 1 .. n : arrived[j].task = fifoEntries[i] /\ arrived' = RemoveAt(arrived, j)
    BY <1>1 DEF Departs
  <2>2. j = i
    BY <2>1, <1>1, <1>2
  <2> QED
    BY <2>1, <2>2
<1>4. /\ fifoEntries' \in Seq(Task) /\ Len(fifoEntries') = n - 1
      /\ \A k \in 1 .. n - 1 :
           fifoEntries'[k] = IF k < i THEN fifoEntries[k] ELSE fifoEntries[k + 1]
  <2>1. fifoEntries \in Seq(Task) /\ i \in 1 .. Len(fifoEntries)
    BY <1>1, DsqTypes
  <2> DEFINE new == RemoveAt(fifoEntries, i)
  <2>2. /\ new \in Seq(Task) /\ Len(new) = Len(fifoEntries) - 1
        /\ \A k \in 1 .. Len(fifoEntries) - 1 :
             new[k] = IF k < i THEN fifoEntries[k] ELSE fifoEntries[k + 1]
    BY ONLY <2>1, Removed
  <2>3. Len(fifoEntries) = n
    BY <1>1
  <2> QED
    BY <2>2, <2>3
<1>5. /\ arrived' \in Seq(Waiters) /\ Len(arrived') = n - 1
      /\ \A k \in 1 .. n - 1 : arrived'[k] = IF k < i THEN arrived[k] ELSE arrived[k + 1]
  <2>1. arrived \in Seq(Waiters) /\ i \in 1 .. Len(arrived)
    BY <1>1, DsqTypes
  <2> DEFINE new == RemoveAt(arrived, i)
  <2>2. /\ new \in Seq(Waiters) /\ Len(new) = Len(arrived) - 1
        /\ \A k \in 1 .. Len(arrived) - 1 :
             new[k] = IF k < i THEN arrived[k] ELSE arrived[k + 1]
    BY ONLY <2>1, Removed
  <2>3. Len(arrived) = n
    BY <1>1
  <2> QED
    BY <2>2, <2>3, <1>3
<1>6. DOMAIN fifoEntries' = 1 .. n - 1
  BY <1>4
<1>7. ASSUME NEW k \in 1 .. n - 1
      PROVE  arrived'[k] = [task |-> fifoEntries'[k], vtime |-> 0]
  <2>1. k \in 1 .. n /\ k + 1 \in 1 .. n
    OBVIOUS
  <2>2. CASE k < i
    BY <2>1, <2>2, <1>1, <1>4, <1>5
  <2>3. CASE k >= i
    BY <2>1, <2>3, <1>1, <1>4, <1>5
  <2> QED
    BY <2>2, <2>3, <1>1
<1>8. ASSUME NEW k \in 1 .. n - 1, NEW l \in 1 .. n - 1, fifoEntries'[k] = fifoEntries'[l]
      PROVE  k = l
  <2> DEFINE old(a) == IF a < i THEN a ELSE a + 1
  <2>1. \A a \in 1 .. n - 1 : fifoEntries'[a] = fifoEntries[old(a)] /\ old(a) \in 1 .. n
    BY <1>1, <1>4
  <2>2. old(k) = old(l)
    BY <2>1, <1>1, <1>8
  <2> QED
    BY <2>2, <1>1
<1> QED
  BY <1>1, <1>2, <1>3, <1>4, <1>5, <1>6, <1>7, <1>8 DEF ListsFifo

(* The invariant after a task is gone and ResetMode has run.               *)
LEMMA TakenKeeps ==
    ASSUME DsqAssumption, DsqInv, ResetMode, counter' = counter, panicked' = FALSE,
           reply' \in [cpu : Cpu \cup {None}, task : Task \cup {None}],
           vtimeEntries' \in Seq(Entries), fifoEntries' \in Seq(Task), arrived' \in Seq(Waiters),
           mode = "Fifo" => vtimeEntries' = <<>> /\ ListsFifo(arrived', fifoEntries'),
           mode # "Fifo" => /\ fifoEntries' = <<>> /\ Lists(arrived', vtimeEntries')
                            /\ InOrder(vtimeEntries', counter),
           mode = "Empty" => vtimeEntries' = <<>>
    PROVE  DsqInv'
<1>1. mode \in DsqMode
  BY DEF DsqInv, TypeOK
<1>2. mode' \in DsqMode /\ (mode' = "Empty" <=> vtimeEntries' = <<>> /\ fifoEntries' = <<>>)
  BY <1>1 DEF ResetMode, DsqMode
<1>3. TypeOK'
  <2>1. counter' \in 0 .. MaxInserts
    BY DsqTypes
  <2>2. panicked' \in BOOLEAN
    OBVIOUS
  <2> QED
    BY <2>1, <2>2, <1>2 DEF TypeOK, Entries, Waiters
<1>4. InOrder(vtimeEntries', counter')
  <2>1. CASE mode = "Fifo"
    <3>1. DOMAIN vtimeEntries' = {}
      BY <2>1
    <3> QED
      BY <3>1 DEF InOrder
  <2>2. CASE mode # "Fifo"
    BY <2>2
  <2> QED
    BY <2>1, <2>2
<1>5. OneKind'
  BY <1>1 DEF OneKind, ResetMode, DsqMode
<1>6. ArrivedIsQueue'
  <2>1. CASE mode = "Fifo" /\ fifoEntries' = <<>>
    <3>1. vtimeEntries' = <<>> /\ mode' = "Empty" /\ Len(arrived') = 0
      BY <2>1 DEF ResetMode, ListsFifo
    <3>2. arrived' = <<>>
      BY <3>1, EmptySeq
    <3>3. DOMAIN vtimeEntries' = {}
      BY <3>1
    <3>4. Lists(arrived', vtimeEntries')
      BY <3>2, <3>3, EmptyLists
    <3> QED
      BY <3>1, <3>4 DEF ArrivedIsQueue
  <2>2. CASE mode = "Fifo" /\ fifoEntries' # <<>>
    BY <2>2 DEF ResetMode, ArrivedIsQueue
  <2>3. CASE mode # "Fifo"
    BY <2>3 DEF ResetMode, ArrivedIsQueue
  <2> QED
    BY <2>1, <2>2, <2>3
<1> QED
  BY <1>3, <1>4, <1>5, <1>6 DEF DsqInv, NoPanic

(* remove_pid keeps the invariant and is the abstract queue's removal.     *)
LEMMA RemovePidKeeps ==
    ASSUME DsqAssumption, DsqInv, NEW t \in Task, RemovePid(t)
    PROVE  DsqInv' /\ Queue!TakeOut(t)
<1>1. /\ ResetMode /\ counter' = counter /\ panicked' = FALSE /\ reply' = NoReply
      /\ reply' \in [cpu : Cpu \cup {None}, task : Task \cup {None}]
  BY DEF RemovePid, NoReply
<1>2. CASE mode = "Priq"
  <2>1. PICK i \in DOMAIN vtimeEntries : vtimeEntries[i].task = t /\ TakeEntry(i)
    BY <1>2 DEF RemovePid
  <2>2. fifoEntries' = <<>>
    BY <1>2 DEF RemovePid, DsqInv, OneKind
  <2>3. /\ vtimeEntries' \in Seq(Entries) /\ arrived' \in Seq(Waiters)
        /\ InOrder(vtimeEntries', counter) /\ Lists(arrived', vtimeEntries')
        /\ \E j \in DOMAIN arrived :
             Is(arrived[j], vtimeEntries[i]) /\ arrived' = RemoveAt(arrived, j)
    BY <2>1, <1>2, EntryTaken
  <2>4. fifoEntries' \in Seq(Task)
    BY <2>2
  <2>5. DsqInv'
    BY <1>1, <1>2, <2>2, <2>3, <2>4, TakenKeeps
  <2> QED
    <3>1. PICK j \in DOMAIN arrived :
            Is(arrived[j], vtimeEntries[i]) /\ arrived' = RemoveAt(arrived, j)
      BY <2>3
    <3>2. arrived[j].task = t
      BY <3>1, <2>1 DEF Is
    <3> QED
      BY <3>1, <3>2, <2>5, <1>1, SameOperators DEF Queue!TakeOut, Queue!NoReply, NoReply
<1>3. CASE mode = "Fifo"
  <2>1. PICK i \in DOMAIN fifoEntries :
          fifoEntries[i] = t /\ fifoEntries' = RemoveAt(fifoEntries, i) /\ Departs(t)
    BY <1>3 DEF RemovePid
  <2>2. vtimeEntries' = <<>>
    BY <1>3 DEF RemovePid, DsqInv, OneKind
  <2>3. /\ fifoEntries' \in Seq(Task) /\ arrived' \in Seq(Waiters)
        /\ ListsFifo(arrived', fifoEntries') /\ i \in DOMAIN arrived
        /\ arrived[i].task = t /\ arrived' = RemoveAt(arrived, i)
    BY <2>1, <1>3, FifoTaken
  <2>4. vtimeEntries' \in Seq(Entries)
    BY <2>2
  <2>5. DsqInv'
    BY <1>1, <1>3, <2>2, <2>3, <2>4, TakenKeeps
  <2> QED
    BY <2>3, <2>5, <1>1, SameOperators DEF Queue!TakeOut, Queue!NoReply, NoReply
<1> QED
  BY <1>2, <1>3 DEF RemovePid

(* The first entry of the tree that a CPU may run is, among those it may   *)
(* run, the one with the smallest virtual time, and of equal ones the      *)
(* first to arrive.                                                        *)
LEMMA FirstIsSmallest ==
    ASSUME DsqInv, mode # "Fifo", NEW c, NEW i \in DOMAIN vtimeEntries,
           FirstAllowed(PriqTasks, c, i), NEW j \in DOMAIN arrived, Is(arrived[j], vtimeEntries[i])
    PROVE  /\ c \in Allowed[arrived[j].task]
           /\ \A k \in DOMAIN arrived : c \in Allowed[arrived[k].task] => ~Queue!Before(k, j)
<1>1. Lists(arrived, vtimeEntries) /\ InOrder(vtimeEntries, counter)
  BY DEF DsqInv, ArrivedIsQueue
<1>2. DOMAIN PriqTasks = DOMAIN vtimeEntries
      /\ \A l \in DOMAIN vtimeEntries : PriqTasks[l] = vtimeEntries[l].task
  BY DEF PriqTasks
<1>3. arrived[j].task = vtimeEntries[i].task /\ arrived[j].vtime = vtimeEntries[i].given
  BY DEF Is
<1>4. c \in Allowed[arrived[j].task]
  BY <1>2, <1>3 DEF FirstAllowed
<1>5. ASSUME NEW l \in DOMAIN vtimeEntries
      PROVE  vtimeEntries[l].given \in Nat /\ vtimeEntries[l].order \in Nat
  <2>1. vtimeEntries[l] \in Entries
    BY DsqTypes
  <2> QED
    BY <2>1 DEF Entries
<1>6. ASSUME NEW k \in DOMAIN arrived, c \in Allowed[arrived[k].task], Queue!Before(k, j)
      PROVE  FALSE
  <2>1. PICK l \in DOMAIN vtimeEntries : Is(arrived[k], vtimeEntries[l])
    BY <1>1 DEF Lists
  <2>2. arrived[k].task = vtimeEntries[l].task /\ arrived[k].vtime = vtimeEntries[l].given
    BY <2>1 DEF Is
  <2>3. ~(l < i)
    <3>1. c \in Allowed[PriqTasks[l]]
      BY <2>2, <1>2, <1>6
    <3>2. l < i => l \in 1 .. i - 1
      BY DsqTypes
    <3> QED
      BY <3>1, <3>2 DEF FirstAllowed
  <2>4. l = i \/ Follows(vtimeEntries[i], vtimeEntries[l])
    BY <2>3, <1>1, DsqTypes DEF InOrder
  <2>5. /\ vtimeEntries[l].given = vtimeEntries[i].given /\ k < j
    BY <2>2, <2>4, <1>3, <1>5, <1>6 DEF Queue!Before, Follows
  <2>6. vtimeEntries[l].order < vtimeEntries[i].order
    BY <2>1, <2>5, <1>1 DEF Lists
  <2> QED
    BY <2>4, <2>5, <2>6, <1>5 DEF Follows
<1> QED
  BY <1>4, <1>6

(* pop_first_matching keeps the invariant, does not panic, and grabs what  *)
(* the abstract queue grabs.                                               *)
LEMMA PopKeeps ==
    ASSUME DsqAssumption, DsqInv, NEW c \in Cpu, PopFirstMatching(c)
    PROVE  DsqInv' /\ (Queue!Grab(c) \/ Queue!Miss(c))
<1>1. /\ ResetMode /\ counter' = counter
  BY DEF PopFirstMatching
<1>2. CASE /\ mode = "Priq"
           /\ \E i \in DOMAIN vtimeEntries :
                /\ FirstAllowed(PriqTasks, c, i)
                /\ panicked' = ~Found(i)
                /\ reply' = [cpu |-> c, task |-> PriqTasks[i]]
                /\ TakeEntry(i)
           /\ UNCHANGED fifoEntries
  <2>1. PICK i \in DOMAIN vtimeEntries :
          /\ FirstAllowed(PriqTasks, c, i) /\ panicked' = ~Found(i)
          /\ reply' = [cpu |-> c, task |-> PriqTasks[i]] /\ TakeEntry(i)
    BY <1>2
  <2>2. panicked' = FALSE
    BY <2>1, SearchFinds
  <2>3. /\ vtimeEntries' \in Seq(Entries) /\ arrived' \in Seq(Waiters)
        /\ InOrder(vtimeEntries', counter) /\ Lists(arrived', vtimeEntries')
        /\ \E j \in DOMAIN arrived :
             Is(arrived[j], vtimeEntries[i]) /\ arrived' = RemoveAt(arrived, j)
    BY <2>1, <1>2, EntryTaken
  <2>4. PICK j \in DOMAIN arrived :
          Is(arrived[j], vtimeEntries[i]) /\ arrived' = RemoveAt(arrived, j)
    BY <2>3
  <2>5. fifoEntries' = <<>> /\ fifoEntries' \in Seq(Task)
    BY <1>2, DsqTypes DEF DsqInv, OneKind
  <2>6. reply' = [cpu |-> c, task |-> arrived[j].task] /\ vtimeEntries[i].task \in Task
        /\ arrived[j].task = vtimeEntries[i].task
    <3>1. vtimeEntries[i] \in Entries
      BY DsqTypes
    <3> QED
      BY <3>1, <2>1, <2>4 DEF PriqTasks, Is, Entries
  <2>7. reply' \in [cpu : Cpu \cup {None}, task : Task \cup {None}]
    BY <2>6
  <2>8. DsqInv'
    BY <1>1, <1>2, <2>2, <2>3, <2>5, <2>7, TakenKeeps
  <2>9. Queue!Grab(c)
    BY <2>1, <2>4, <2>6, <1>2, FirstIsSmallest, SameOperators DEF Queue!Grab
  <2> QED
    BY <2>8, <2>9
<1>3. CASE /\ mode = "Fifo"
           /\ \E i \in DOMAIN fifoEntries :
                /\ FirstAllowed(fifoEntries, c, i)
                /\ fifoEntries' = RemoveAt(fifoEntries, i)
                /\ reply' = [cpu |-> c, task |-> fifoEntries[i]]
                /\ Departs(fifoEntries[i])
           /\ UNCHANGED <<vtimeEntries, panicked>>
  <2>1. PICK i \in DOMAIN fifoEntries :
          /\ FirstAllowed(fifoEntries, c, i) /\ fifoEntries' = RemoveAt(fifoEntries, i)
          /\ reply' = [cpu |-> c, task |-> fifoEntries[i]] /\ Departs(fifoEntries[i])
    BY <1>3
  <2>2. vtimeEntries' = <<>> /\ vtimeEntries' \in Seq(Entries) /\ panicked' = FALSE
    BY <1>3, DsqTypes DEF DsqInv, OneKind, NoPanic
  <2>3. /\ fifoEntries' \in Seq(Task) /\ arrived' \in Seq(Waiters)
        /\ ListsFifo(arrived', fifoEntries') /\ i \in DOMAIN arrived
        /\ arrived[i].task = fifoEntries[i] /\ arrived' = RemoveAt(arrived, i)
    BY <2>1, <1>3, FifoTaken
  <2>4. reply' \in [cpu : Cpu \cup {None}, task : Task \cup {None}]
    BY <2>1, DsqTypes
  <2>5. DsqInv'
    BY <1>1, <1>3, <2>2, <2>3, <2>4, TakenKeeps
  <2>6. ASSUME NEW k \in DOMAIN arrived, c \in Allowed[arrived[k].task] PROVE ~Queue!Before(k, i)
    <3>1. ListsFifo(arrived, fifoEntries)
      BY <1>3 DEF DsqInv, ArrivedIsQueue
    <3>2. DOMAIN arrived = DOMAIN fifoEntries /\ k \in Nat /\ i \in Nat /\ k >= 1
      BY <3>1, DsqTypes DEF ListsFifo
    <3>3. /\ arrived[k] = [task |-> fifoEntries[k], vtime |-> 0]
          /\ arrived[i] = [task |-> fifoEntries[i], vtime |-> 0]
      BY <3>1, <3>2 DEF ListsFifo
    <3>4. arrived[k].task = fifoEntries[k] /\ arrived[k].vtime = 0 /\ arrived[i].vtime = 0
      BY <3>3
    <3>5. ~(k < i)
      <4>1. c \in Allowed[fifoEntries[k]]
        BY <3>4, <2>6
      <4> QED
        BY <4>1, <3>2, <2>1 DEF FirstAllowed
    <3> QED
      BY <3>4, <3>5 DEF Queue!Before
  <2>7. Queue!Grab(c)
    BY <2>1, <2>3, <2>6, SameOperators DEF Queue!Grab, FirstAllowed
  <2> QED
    BY <2>5, <2>7
<1>4. CASE /\ \A t \in Queued : c \notin Allowed[t]
           /\ reply' = [cpu |-> c, task |-> None]
           /\ UNCHANGED <<vtimeEntries, fifoEntries, panicked, arrived>>
  <2>1. mode' = mode
    BY <1>1, <1>4 DEF ResetMode, DsqInv, TypeOK
  <2>2. reply' \in [cpu : Cpu \cup {None}, task : Task \cup {None}]
    BY <1>4
  <2>3. DsqInv'
    <3>1. TypeOK'
      BY <1>1, <1>4, <2>1, <2>2 DEF DsqInv, TypeOK
    <3> QED
      BY <3>1, <1>1, <1>4, <2>1
         DEF DsqInv, NoPanic, OneKind, InOrder, ArrivedIsQueue, Lists, ListsFifo
  <2>4. Queue!Miss(c)
    BY <1>4, ArrivedQueued DEF Queue!Miss
  <2> QED
    BY <2>3, <2>4
<1> QED
  BY <1>2, <1>3, <1>4 DEF PopFirstMatching

(* An insertion is the abstract queue's.                                   *)
LEMMA InsertedPuts ==
    ASSUME DsqInv, NEW t \in Task, t \notin Queued, NEW v \in Nat, reply' = NoReply,
           arrived' = Append(arrived, [task |-> t, vtime |-> v])
    PROVE  Queue!Put(t)
<1> DEFINE w == [task |-> t, vtime |-> v]
<1>1. ~Queue!Waits(t)
  BY ArrivedQueued DEF Queue!Waits
<1>2. w \in Waiters /\ arrived \in Seq(Waiters) /\ w.task = t
  BY DsqTypes DEF Waiters
<1> HIDE DEF w
<1>3. /\ Append(arrived, w) # <<>> /\ Len(Append(arrived, w)) = Len(arrived) + 1
      /\ Append(arrived, w)[Len(arrived) + 1] = w
  BY <1>2
<1>4. arrived' # <<>> /\ Last(arrived') = w /\ arrived' = Append(arrived, Last(arrived'))
  BY <1>3 DEF w, Last
<1> QED
  BY <1>1, <1>2, <1>4, SameOperators DEF Queue!Put, Queue!NoReply, NoReply

(* Every step keeps the invariant and is one of the abstract queue.        *)
LEMMA DsqStep ==
    ASSUME DsqAssumption, DsqInv, [Next]_vars
    PROVE  DsqInv' /\ [Queue!QueueNext]_<<arrived, reply>>
<1>1. ASSUME NEW t \in Task, InsertFifo(t) PROVE DsqInv' /\ Queue!Put(t)
  <2>1. t \notin Queued /\ reply' = NoReply /\ 0 \in Nat
    BY <1>1 DEF InsertFifo
  <2> QED
    BY <2>1, <1>1, FifoInserted, InsertedPuts
<1>2. ASSUME NEW t \in Task, NEW v \in 0 .. MaxVtime, InsertVtime(t, v)
      PROVE  DsqInv' /\ Queue!Put(t)
  <2>1. t \notin Queued /\ reply' = NoReply /\ v \in Nat
    BY <1>2 DEF InsertVtime
  <2> QED
    BY <2>1, <1>2, VtimeInserted, InsertedPuts
<1>3. ASSUME UNCHANGED vars PROVE DsqInv' /\ UNCHANGED <<arrived, reply>>
  <2>1. UNCHANGED <<mode, fifoEntries, vtimeEntries, counter, arrived, reply, panicked>>
    BY <1>3 DEF vars
  <2>2. TypeOK' /\ NoPanic'
    BY <2>1 DEF DsqInv, TypeOK, NoPanic
  <2>3. OneKind' /\ InOrder(vtimeEntries, counter)'
    BY <2>1 DEF DsqInv, OneKind, InOrder
  <2>4. ArrivedIsQueue'
    BY <2>1 DEF DsqInv, ArrivedIsQueue, Lists, ListsFifo
  <2> QED
    BY <2>1, <2>2, <2>3, <2>4 DEF DsqInv
<1> QED
  BY <1>1, <1>2, <1>3, RemovePidKeeps, PopKeeps DEF Next, Queue!QueueNext

(* A scheduler that keeps to one kind of queue and keeps the queued        *)
(* virtual times within less than half of their range meets no panic,      *)
(* whatever the width, the window and the masks.                           *)
THEOREM DsqNoPanic == Spec => [](TypeOK /\ NoPanic)
<1>1. Init => DsqInv
  BY DsqAssumption, DsqInitially
<1>2. DsqInv /\ [Next]_vars => DsqInv'
  BY DsqAssumption, DsqStep
<1>3. DsqInv => TypeOK /\ NoPanic
  BY DEF DsqInv
<1> QED
  BY <1>1, <1>2, <1>3, PTL DEF Spec

(* The queue holds the tasks of the history, each once and in one place,   *)
(* and in the tree they are in the order of the virtual times that do not  *)
(* wrap.                                                                   *)
THEOREM DsqHoldsArrived ==
    Spec => [](OneKind /\ InOrder(vtimeEntries, counter) /\ ArrivedIsQueue)
<1>1. Init => DsqInv
  BY DsqAssumption, DsqInitially
<1>2. DsqInv /\ [Next]_vars => DsqInv'
  BY DsqAssumption, DsqStep
<1>3. DsqInv => OneKind /\ InOrder(vtimeEntries, counter) /\ ArrivedIsQueue
  BY DEF DsqInv
<1> QED
  BY <1>1, <1>2, <1>3, PTL DEF Spec

(* Virtual times that wrap are served in the order of virtual times that   *)
(* do not, and equal ones in the order of arrival, by the CPUs allowed to. *)
THEOREM DsqImplementsQueue == Spec => ImplementsQueue
<1>1. Init => DsqInv /\ Queue!QueueInit
  BY DsqAssumption, DsqInitially DEF Init, Queue!QueueInit, Queue!NoReply, NoReply
<1>2. DsqInv /\ [Next]_vars => DsqInv' /\ [Queue!QueueNext]_<<arrived, reply>>
  BY DsqAssumption, DsqStep
<1> QED
  BY <1>1, <1>2, PTL DEF Spec, ImplementsQueue, Queue!QueueSpec, Queue!queueVars

-----------------------------------------------------------------------------
(* The CPUs of the layers                                                  *)

(* Each core has its first thread, so that no core's CPUs are empty, and a *)
(* set of cores can be read off its CPUs.                                  *)
LEMMA CoreHasCpus ==
    ASSUME LayeredAssumption, NEW k \in Core
    PROVE  \E c \in CpusOf(k) : c \in CpuId /\ c \div Threads = k
<1>1. /\ NrCpus \in Int /\ NrCpus > 0 /\ Threads \in Int /\ Threads > 0
  BY DEF LayeredAssumption
<1>2. PICK q \in Int, r \in 0 .. Threads - 1 :
        q = NrCpus \div Threads /\ NrCpus = q * Threads + r
  BY <1>1, ModLaw
<1>3. k \in Int /\ k >= 0 /\ q >= k + 1
  BY <1>2 DEF Core
<1>4. k * Threads \in Int /\ k * Threads >= 0
  BY <1>1, <1>3
<1>5. q * Threads >= k * Threads + Threads
  BY <1>1, <1>2, <1>3
<1>6. k * Threads \in CpuId
  BY <1>1, <1>2, <1>4, <1>5 DEF CpuId
<1>7. (k * Threads) \div Threads = k
  <2>1. 0 \in 0 .. Threads - 1 /\ k * Threads + 0 = k * Threads
    BY <1>1, <1>4
  <2>2. (k * Threads + 0) \div Threads = k
    BY <1>1, <1>3, <2>1, ModUnique
  <2> QED
    BY <2>1, <2>2
<1> QED
  BY <1>6, <1>7 DEF CpusOf

(* A set of cores can be read off its CPUs, and splits no core.            *)
LEMMA CoresOfCpus ==
    ASSUME LayeredAssumption, NEW cores \in SUBSET Core
    PROVE  /\ CpusOfCores(cores) \in SUBSET CpuId
           /\ \A c \in CpusOfCores(cores) : c \div Threads \in cores
           /\ Owned(CpusOfCores(cores)) = cores
           /\ ~Split(CpusOfCores(cores))
<1>1. CpusOfCores(cores) \in SUBSET CpuId
  BY DEF CpusOfCores, CpusOf
<1>2. \A c \in CpusOfCores(cores) : c \div Threads \in cores
  BY DEF CpusOfCores, CpusOf
<1>3. \A k \in cores : CpusOf(k) \subseteq CpusOfCores(cores)
  BY DEF CpusOfCores
<1>4. ASSUME NEW k \in Core, NEW c \in CpusOf(k), c \in CpusOfCores(cores) PROVE k \in cores
  BY <1>2, <1>4 DEF CpusOf
<1>5. Owned(CpusOfCores(cores)) = cores
  <2>1. ASSUME NEW k \in Core, CpusOf(k) \subseteq CpusOfCores(cores) PROVE k \in cores
    BY <2>1, <1>4, CoreHasCpus
  <2> QED
    BY <2>1, <1>3 DEF Owned
<1>6. ~Split(CpusOfCores(cores))
  BY <1>3, <1>4 DEF Split
<1> QED
  BY <1>1, <1>2, <1>5, <1>6

(* What is taken from a set in some order is in the set.                   *)
LEMMA FirstOf ==
    ASSUME NEW n, NEW order, NEW set
    PROVE  First(n, order, set) \subseteq set
BY DEF First

-----------------------------------------------------------------------------
(* The inductive invariant: the table stays, every CPU of a layer is on a  *)
(* core the layer is allowed (the static split is right about that much),  *)
(* and the masks that an iteration publishes are apart.                    *)
Tabled == specs \in Configs

Allowance == {split \in [Layer -> SUBSET CpuId] :
                \A l \in Layer : \A c \in split[l] : CoreAllowed(l, c \div Threads)}

LayersInv == Tabled /\ cpus \in Allowance /\ OwnCpus

(* A table numbers its layers, and each has a weight ...                   *)
LEMMA LayerNumbers ==
    ASSUME LayeredAssumption, Tabled
    PROVE  /\ specs \in Seq(LayerSpec) /\ Len(specs) \in Nat /\ Layer = 1 .. Len(specs)
           /\ \A l \in Layer : specs[l] \in LayerSpec /\ specs[l].weight \in Nat \ {0}
<1>1. specs \in Seq(LayerSpec)
  BY DEF LayeredAssumption, Tabled
<1>2. Len(specs) \in Nat /\ Layer = 1 .. Len(specs) /\ \A l \in Layer : specs[l] \in LayerSpec
  BY <1>1 DEF Layer
<1>3. \A l \in Layer : specs[l].weight \in Nat \ {0}
  BY <1>2 DEF LayerSpec
<1> QED
  BY <1>1, <1>2, <1>3

(* ... so that the division by the total of weights is defined.            *)
LEMMA PositiveWeight ==
    ASSUME LayeredAssumption, Tabled, Layer # {}
    PROVE  TotalWeight \in Nat \ {0}
<1> DEFINE N == Len(specs)
           Sum(h) == h = [n \in 0 .. N |-> IF n = 0 THEN 0 ELSE h[n - 1] + specs[n].weight]
           F == [n \in 1 .. N |-> [x \in Nat |-> x + specs[n].weight]]
<1>1. N \in Nat /\ N \in 1 .. N /\ \A n \in 1 .. N : specs[n].weight \in Nat \ {0}
  BY LayerNumbers
<1>2. F \in [1 .. N -> [Nat -> Nat]]
  BY <1>1
<1>3. PICK g \in [0 .. N -> Nat] : g[0] = 0 /\ \A n \in 1 .. N : g[n] = F[n][g[n - 1]]
  <2>1. 0 \in Nat /\ N \in Nat
    BY <1>1
  <2> HIDE DEF F, N
  <2>2. \E g \in [0 .. N -> Nat] : Iterates(g, N, 0, F)
    BY ONLY <2>1, <1>2, Recursion
  <2> QED
    BY <2>2 DEF Iterates
<1>4. ASSUME NEW n \in 1 .. N PROVE g[n] = g[n - 1] + specs[n].weight
  <2>1. g[n - 1] \in Nat
    BY <1>1, <1>3
  <2>2. F[n][g[n - 1]] = g[n - 1] + specs[n].weight
    BY <2>1
  <2> QED
    BY <2>2, <1>3
<1>5. Sum(g)
  BY <1>1, <1>3, <1>4
<1> DEFINE sum == CHOOSE h : Sum(h)
<1>6. Sum(sum)
  <2> HIDE DEF Sum
  <2> QED
    BY <1>5
<1>7. TotalWeight = sum[N]
  BY DEF TotalWeight
<1> HIDE DEF sum
<1>8. sum[0] = 0 /\ \A n \in 1 .. N : sum[n] = sum[n - 1] + specs[n].weight
  <2>1. 0 \in 0 .. N /\ \A n \in 1 .. N : n \in 0 .. N /\ n # 0
    BY <1>1
  <2> HIDE DEF N
  <2> QED
    BY <1>6, <2>1
<1>9. \A n \in 0 .. N : sum[n] \in Nat
  <2>1. ASSUME NEW n \in 1 .. N, sum[n - 1] \in Nat PROVE sum[n] \in Nat
    <3>1. sum[n] = sum[n - 1] + specs[n].weight /\ specs[n].weight \in Nat
      BY <1>1, <1>8
    <3> QED
      BY <2>1, <3>1
  <2>2. sum[0] \in Nat /\ N \in Nat
    BY <1>1, <1>8
  <2> HIDE DEF N
  <2> QED
    BY ONLY <2>1, <2>2, Closed
<1>10. sum[N - 1] \in Nat /\ sum[N] = sum[N - 1] + specs[N].weight
  BY <1>1, <1>8, <1>9
<1> QED
  BY <1>1, <1>7, <1>10

-----------------------------------------------------------------------------
(* What the static split builds.                                           *)
Splits == [assigned : Int, cpus : Allowance]

(* A share of the static split has only CPUs its layer is allowed ...      *)
LEMMA TakeShareKeeps ==
    ASSUME LayeredAssumption, Tabled, NEW l \in Layer, NEW split \in Splits
    PROVE  TakeShare(split, l) \in Splits
<1>1. TotalWeight \in Int /\ TotalWeight > 0 /\ NrCpus \in Int /\ specs[l].weight \in Int
  BY PositiveWeight, LayerNumbers DEF LayeredAssumption
<1>2. split.assigned \in Int /\ split.cpus \in Allowance
  BY DEF Splits
<1>3. Share(l, split.assigned) \in Int
  <2>1. NrCpus * specs[l].weight \in Int
    BY <1>1
  <2>2. (NrCpus * specs[l].weight) \div TotalWeight \in Int
    BY <1>1, <2>1, ModLaw
  <2> QED
    BY <1>1, <1>2, <2>2 DEF Share, AtLeast
<1> DEFINE mine == First(Share(l, split.assigned), Rotation(split.assigned),
                         Candidates(l, split.cpus))
<1>4. mine \subseteq Candidates(l, split.cpus)
  BY FirstOf
<1>5. mine \in SUBSET CpuId /\ \A c \in mine : CoreAllowed(l, c \div Threads)
  BY <1>4 DEF Candidates
<1>6. TakeShare(split, l) = [assigned |-> split.assigned + Share(l, split.assigned),
                             cpus |-> [split.cpus EXCEPT ![l] = mine]]
  BY DEF TakeShare
<1> HIDE DEF mine
<1>7. [split.cpus EXCEPT ![l] = mine] \in Allowance
  BY <1>2, <1>5 DEF Allowance
<1> QED
  BY <1>2, <1>3, <1>6, <1>7 DEF Splits

(* ... and so have all shares, laid out one after the other ...            *)
LEMMA SharesAllowed ==
    ASSUME LayeredAssumption, Tabled
    PROVE  Shares \in Allowance
<1> DEFINE N == Len(specs)
           Split1(h) == h = [n \in 0 .. N |-> IF n = 0 THEN NoShares ELSE TakeShare(h[n - 1], n)]
           F == [n \in 1 .. N |-> [x \in Splits |-> TakeShare(x, n)]]
<1>1. N \in Nat /\ Layer = 1 .. N
  BY LayerNumbers
<1>2. NoShares \in Splits
  BY DEF NoShares, Splits, Allowance
<1>3. \A n \in 1 .. N, x \in Splits : TakeShare(x, n) \in Splits
  BY <1>1, TakeShareKeeps
<1>4. F \in [1 .. N -> [Splits -> Splits]]
  BY <1>3
<1>5. PICK g \in [0 .. N -> Splits] : Iterates(g, N, NoShares, F)
  <2> HIDE DEF F, N
  <2> QED
    BY ONLY <1>1, <1>2, <1>4, Recursion
<1>6. ASSUME NEW n \in 1 .. N PROVE g[n] = TakeShare(g[n - 1], n)
  <2>1. g[n - 1] \in Splits
    BY <1>1, <1>5
  <2>2. F[n][g[n - 1]] = TakeShare(g[n - 1], n)
    BY <2>1
  <2> QED
    BY <2>2, <1>5 DEF Iterates
<1>7. Split1(g)
  BY <1>1, <1>5, <1>6 DEF Iterates
<1> DEFINE split == CHOOSE h : Split1(h)
<1>8. Split1(split)
  <2> HIDE DEF Split1
  <2> QED
    BY <1>7
<1>9. Shares = split[N].cpus
  BY DEF Shares
<1> HIDE DEF split
<1>10. split[0] = NoShares /\ \A n \in 1 .. N : split[n] = TakeShare(split[n - 1], n)
  <2>1. 0 \in 0 .. N /\ \A n \in 1 .. N : n \in 0 .. N /\ n # 0
    BY <1>1
  <2> HIDE DEF N
  <2> QED
    BY <1>8, <2>1
<1>11. \A n \in 0 .. N : split[n] \in Splits
  <2>1. \A n \in 1 .. N : split[n - 1] \in Splits => split[n] \in Splits
    BY <1>3, <1>10
  <2>2. split[0] \in Splits
    BY <1>2, <1>10
  <2> HIDE DEF N
  <2> QED
    BY ONLY <1>1, <2>1, <2>2, Closed
<1>12. split[N] \in Splits
  BY <1>1, <1>11
<1> QED
  BY <1>9, <1>12 DEF Splits

(* ... and the split with what is left (layered_auto_allocate_cpus).       *)
LEMMA AutoAllocatedAllowed ==
    ASSUME LayeredAssumption, Tabled
    PROVE  AutoAllocated \in Allowance
<1> DEFINE spare(l) == {c \in CpuId \ UNION Range(Shares) : CoreAllowed(l, c \div Threads)}
<1>1. Shares \in Allowance
  BY SharesAllowed
<1>2. AutoAllocated = [l \in Layer |-> Shares[l] \cup IF specs[l].open THEN spare(l) ELSE {}]
  BY DEF AutoAllocated
<1>3. \A l \in Layer : spare(l) \in SUBSET CpuId /\ \A c \in spare(l) : CoreAllowed(l, c \div Threads)
  OBVIOUS
<1> HIDE DEF spare
<1> QED
  BY <1>1, <1>2, <1>3 DEF Allowance

-----------------------------------------------------------------------------
(* The cores of the confined layers while they shrink and grow.            *)
Holding == {held \in [Layer -> SUBSET Core] :
              /\ \A l \in Layer : specs[l].open => held[l] = {}
              /\ \A l \in Layer : \A k \in held[l] : CoreAllowed(l, k)
              /\ \A l, m \in Layer : l # m => held[l] \cap held[m] = {}}

(* A layer owns only cores it is allowed.                                  *)
LEMMA OwnedAllowed ==
    ASSUME LayeredAssumption, cpus \in Allowance, NEW l \in Layer, NEW k \in Owned(cpus[l])
    PROVE  k \in Core /\ CoreAllowed(l, k)
<1>1. k \in Core /\ CpusOf(k) \subseteq cpus[l]
  BY DEF Owned
<1>2. PICK c \in CpusOf(k) : c \div Threads = k
  BY <1>1, CoreHasCpus
<1> QED
  BY <1>1, <1>2 DEF Allowance

(* What the layers keep when they shrink ...                               *)
LEMMA ShrunkHolds ==
    ASSUME LayeredAssumption, cpus \in Allowance, ~Overlapping, NEW goal
    PROVE  Shrunk(goal) \in Holding
<1>1. \A l \in Layer : Shrunk(goal)[l] = IF specs[l].open THEN {} ELSE Owned(cpus[l]) \ Freed(goal, l)
  BY DEF Shrunk
<1>2. \A l \in Layer : Shrunk(goal)[l] \subseteq Owned(cpus[l])
  BY <1>1
<1>3. Shrunk(goal) \in [Layer -> SUBSET Core]
  BY <1>2, OwnedAllowed DEF Shrunk
<1>4. \A l \in Layer : \A k \in Shrunk(goal)[l] : CoreAllowed(l, k)
  BY <1>2, OwnedAllowed
<1>5. ASSUME NEW l \in Layer, NEW m \in Layer, l # m
      PROVE  Shrunk(goal)[l] \cap Shrunk(goal)[m] = {}
  <2>1. CASE specs[l].open \/ specs[m].open
    BY <1>1, <2>1
  <2>2. CASE l \in Confined /\ m \in Confined
    <3>1. Owned(cpus[l]) \cap Owned(cpus[m]) = {}
      BY <1>5, <2>2 DEF Overlapping
    <3> QED
      BY <1>2, <3>1
  <2> QED
    BY <2>1, <2>2 DEF Confined
<1> QED
  BY <1>1, <1>3, <1>4, <1>5 DEF Holding

(* ... when one of them grows ...                                          *)
LEMMA GrowHolds ==
    ASSUME NEW goal, NEW l \in Confined, NEW held \in Holding
    PROVE  Grow(goal, held, l) \in Holding
<1> DEFINE new == UNION {First(Missing(goal, l, n, held), CoreOrder(l, n), Growable(l, held)) :
                           n \in Node}
<1>1. new \subseteq Growable(l, held)
  BY FirstOf
<1>2. Grow(goal, held, l) = [held EXCEPT ![l] = @ \cup new]
  BY DEF Grow
<1> HIDE DEF new
<1>3. l \in Layer /\ ~specs[l].open /\ held \in [Layer -> SUBSET Core]
  BY DEF Confined, Holding
<1>4. /\ new \subseteq Core /\ \A k \in new : CoreAllowed(l, k)
      /\ \A m \in Layer : new \cap held[m] = {}
  BY <1>1, <1>3 DEF Growable, Range
<1> QED
  BY <1>2, <1>3, <1>4 DEF Holding

(* ... and when all have grown, in the order of their targets.             *)
LEMMA GrownHolds ==
    ASSUME LayeredAssumption, Tabled, cpus \in Allowance, ~Overlapping, NEW goal,
           NEW order \in Ascending(goal)
    PROVE  Grown(goal, order) \in Holding
<1> DEFINE N == Len(order)
           Held(h) == h = [n \in 0 .. N |->
                             IF n = 0 THEN Shrunk(goal) ELSE Grow(goal, h[n - 1], order[n])]
           F == [n \in 1 .. N |-> [x \in Holding |-> Grow(goal, x, order[n])]]
<1>1. N \in Nat /\ \A n \in 1 .. N : order[n] \in Confined
  <2>1. order \in [1 .. Cardinality(Confined) -> Confined]
    BY DEF Ascending, SetToSeqs
  <2>2. Cardinality(Confined) \in Nat
    <3>1. IsFiniteSet(Layer)
      <4>1. Layer = 1 .. Len(specs) /\ Len(specs) \in Int /\ 1 \in Int
        BY LayerNumbers
      <4>2. IsFiniteSet(1 .. Len(specs))
        BY <4>1, FS_Interval
      <4> QED
        BY <4>1, <4>2
    <3>2. Confined \subseteq Layer
      BY DEF Confined
    <3> QED
      BY <3>1, <3>2, FS_Subset, FS_CardinalityType
  <2>3. N = Cardinality(Confined)
    BY <2>1, <2>2
  <2> QED
    BY <2>1, <2>2, <2>3
<1>2. Shrunk(goal) \in Holding
  BY ShrunkHolds
<1>3. \A n \in 1 .. N, x \in Holding : Grow(goal, x, order[n]) \in Holding
  BY <1>1, GrowHolds
<1>4. F \in [1 .. N -> [Holding -> Holding]]
  BY <1>3
<1>5. PICK g \in [0 .. N -> Holding] : Iterates(g, N, Shrunk(goal), F)
  <2> HIDE DEF F, N
  <2> QED
    BY ONLY <1>1, <1>2, <1>4, Recursion
<1>6. ASSUME NEW n \in 1 .. N PROVE g[n] = Grow(goal, g[n - 1], order[n])
  <2>1. g[n - 1] \in Holding
    BY <1>1, <1>5
  <2>2. F[n][g[n - 1]] = Grow(goal, g[n - 1], order[n])
    BY <2>1
  <2> QED
    BY <2>2, <1>5 DEF Iterates
<1>7. Held(g)
  BY <1>1, <1>5, <1>6 DEF Iterates
<1> DEFINE held == CHOOSE h : Held(h)
<1>8. Held(held)
  <2> HIDE DEF Held
  <2> QED
    BY <1>7
<1>9. Grown(goal, order) = held[N]
  BY DEF Grown
<1> HIDE DEF held
<1>10. /\ held[0] = Shrunk(goal)
       /\ \A n \in 1 .. N : held[n] = Grow(goal, held[n - 1], order[n])
  <2>1. 0 \in 0 .. N /\ \A n \in 1 .. N : n \in 0 .. N /\ n # 0
    BY <1>1
  <2> HIDE DEF N
  <2> QED
    BY <1>8, <2>1
<1>11. \A n \in 0 .. N : held[n] \in Holding
  <2>1. \A n \in 1 .. N : held[n - 1] \in Holding => held[n] \in Holding
    BY <1>3, <1>10
  <2>2. held[0] \in Holding
    BY <1>2, <1>10
  <2> HIDE DEF N
  <2> QED
    BY ONLY <1>1, <2>1, <2>2, Closed
<1> QED
  BY <1>1, <1>9, <1>11

(* The masks of layers that hold cores of their own keep them apart.       *)
LEMMA MasksOwn ==
    ASSUME LayeredAssumption, NEW grown \in Holding
    PROVE  /\ Masks(grown) \in Allowance
           /\ \A l \in Layer : /\ Masks(grown)[l] = CpusOfCores(Owned(Masks(grown)[l]))
                               /\ \A k \in Owned(Masks(grown)[l]) : CoreAllowed(l, k)
           /\ \A l \in Confined, m \in Layer : l # m => Masks(grown)[l] \cap Masks(grown)[m] = {}
<1> DEFINE spare(l) == {k \in Core \ UNION Range(grown) : CoreAllowed(l, k)}
           cores(l) == IF specs[l].open THEN spare(l) ELSE grown[l]
<1>1. \A l \in Layer : Masks(grown)[l] = CpusOfCores(cores(l))
  BY DEF Masks
<1>2. ASSUME NEW l \in Layer
      PROVE  cores(l) \in SUBSET Core /\ \A k \in cores(l) : CoreAllowed(l, k)
  BY DEF Holding
<1>3. ASSUME NEW l \in Confined, NEW m \in Layer, l # m PROVE cores(l) \cap cores(m) = {}
  <2>1. l \in Layer /\ ~specs[l].open /\ grown[l] \subseteq UNION Range(grown)
    BY DEF Confined, Holding, Range
  <2> QED
    BY <2>1, <1>3 DEF Holding
<1> HIDE DEF cores
<1>4. ASSUME NEW l \in Layer
      PROVE  /\ Masks(grown)[l] \in SUBSET CpuId /\ Owned(Masks(grown)[l]) = cores(l)
             /\ \A c \in Masks(grown)[l] : c \div Threads \in cores(l)
  BY <1>1, <1>2, CoresOfCpus
<1>5. Masks(grown) \in Allowance
  <2>1. Masks(grown) \in [Layer -> SUBSET CpuId]
    BY <1>4 DEF Masks
  <2> QED
    BY <2>1, <1>2, <1>4 DEF Allowance
<1>6. ASSUME NEW l \in Layer
      PROVE  /\ Masks(grown)[l] = CpusOfCores(Owned(Masks(grown)[l]))
             /\ \A k \in Owned(Masks(grown)[l]) : CoreAllowed(l, k)
  BY <1>1, <1>2, <1>4
<1>7. ASSUME NEW l \in Confined, NEW m \in Layer, l # m
      PROVE  Masks(grown)[l] \cap Masks(grown)[m] = {}
  <2>1. l \in Layer
    BY DEF Confined
  <2> QED
    BY <2>1, <1>3, <1>4, <1>7
<1> QED
  BY <1>5, <1>6, <1>7

-----------------------------------------------------------------------------

(* The invariant holds of the static split, which promises little: it may  *)
(* split a core between layers, or give it to two.                         *)
LEMMA LayersInitially ==
    ASSUME LayeredAssumption, LayersInit
    PROVE  LayersInv
<1>1. Tabled
  BY DEF LayersInit, Tabled
<1>2. cpus \in Allowance
  BY <1>1, AutoAllocatedAllowed DEF LayersInit
<1> QED
  BY <1>1, <1>2 DEF LayersInit, LayersInv, OwnCpus

(* A change of the load keeps the invariant ...                            *)
LEMMA ChangeKeeps ==
    ASSUME LayersInv, specs' = specs, cpus' = cpus, stage' = stage
    PROVE  LayersInv'
<1>1. Layer' = Layer /\ Confined' = Confined
  BY DEF Layer, Confined
<1>2. \A l \in Layer : \A k : CoreAllowed(l, k)' <=> CoreAllowed(l, k)
  BY DEF CoreAllowed, Restricted
<1>3. Allowance' = Allowance
  BY <1>1, <1>2 DEF Allowance
<1>4. OwnCpus'
  BY <1>1, <1>2 DEF LayersInv, OwnCpus
<1> QED
  BY <1>3, <1>4 DEF LayersInv, Tabled

(* ... and so does a failed assertion of the loop ...                      *)
LEMMA FailKeeps ==
    ASSUME NEW what, LayersInv, Fail(what), what # "controlled"
    PROVE  LayersInv'
<1>1. specs' = specs /\ cpus' = cpus /\ stage' # "controlled"
  BY DEF Fail
<1>2. Layer' = Layer
  BY <1>1 DEF Layer
<1>3. \A l \in Layer : \A k : CoreAllowed(l, k)' <=> CoreAllowed(l, k)
  BY <1>1 DEF CoreAllowed, Restricted
<1>4. Allowance' = Allowance
  BY <1>2, <1>3 DEF Allowance
<1>5. OwnCpus'
  BY <1>1 DEF OwnCpus
<1> QED
  BY <1>1, <1>4, <1>5 DEF LayersInv, Tabled

(* ... and the masks it publishes make it hold ...                         *)
LEMMA UpdateKeeps ==
    ASSUME LayeredAssumption, LayersInv, NEW pinned, NEW grown \in Holding,
           Update(pinned, Masks(grown))
    PROVE  LayersInv'
<1>1. specs' = specs /\ cpus' = Masks(grown)
  BY DEF Update
<1>2. Layer' = Layer /\ Confined' = Confined
  BY <1>1 DEF Layer, Confined
<1>3. \A l \in Layer : \A k : CoreAllowed(l, k)' <=> CoreAllowed(l, k)
  BY <1>1 DEF CoreAllowed, Restricted
<1>4. Allowance' = Allowance
  BY <1>2, <1>3 DEF Allowance
<1>5. cpus' \in Allowance'
  BY <1>1, <1>4, MasksOwn
<1>6. ASSUME NEW l \in Layer
      PROVE  /\ cpus'[l] = CpusOfCores(Owned(cpus'[l]))
             /\ \A k \in Owned(cpus'[l]) : CoreAllowed(l, k)'
  BY <1>1, <1>3, MasksOwn
<1>7. ASSUME NEW l \in Confined, NEW m \in Layer, l # m PROVE cpus'[l] \cap cpus'[m] = {}
  BY <1>1, <1>7, MasksOwn
<1>8. OwnCpus'
  BY <1>2, <1>6, <1>7 DEF OwnCpus
<1> QED
  BY <1>1, <1>5, <1>8 DEF LayersInv, Tabled

(* ... so that an iteration of the loop keeps it.                          *)
LEMMA ControlKeeps ==
    ASSUME LayeredAssumption, LayersInv, Control
    PROVE  LayersInv'
<1>1. CASE \E what \in {"split SMT core", "overlapping", "exceeds"} : Fail(what)
  BY <1>1, FailKeeps
<1>2. CASE ~\E what \in {"split SMT core", "overlapping", "exceeds"} : Fail(what)
  <2>1. ~Overlapping
    BY <1>2 DEF Control
  <2>5. ~Fail("split SMT core") /\ ~Fail("overlapping") /\ ~Fail("exceeds")
    BY <1>2
  <2>2. PICK demands, goal : \E order \in Ascending(goal) :
          Update([l \in Layer |-> [n \in Node |-> AtMost(demands[l].pinned[n], goal[l][n])]],
                 Masks(Grown(goal, order)))
    BY ONLY <2>5, Control DEF Control
  <2>3. PICK order \in Ascending(goal) :
          Update([l \in Layer |-> [n \in Node |-> AtMost(demands[l].pinned[n], goal[l][n])]],
                 Masks(Grown(goal, order)))
    BY <2>2
  <2>4. Grown(goal, order) \in Holding
    BY <2>1, GrownHolds DEF LayersInv
  <2> QED
    BY <2>3, <2>4, UpdateKeeps
<1> QED
  BY <1>1, <1>2

(* Every step keeps the invariant.                                         *)
LEMMA LayersStep ==
    ASSUME LayeredAssumption, LayersInv, [LayersNext]_layerVars
    PROVE  LayersInv'
<1>1. CASE Control
  BY <1>1, ControlKeeps
<1>2. CASE Change
  BY <1>2, ChangeKeeps DEF Change
<1>3. CASE UNCHANGED layerVars
  BY <1>3, ChangeKeeps DEF layerVars
<1> QED
  BY <1>1, <1>2, <1>3 DEF LayersNext

(* After every iteration of the loop the confined layers have whole cores  *)
(* of their own and no layer a core it is not allowed, on any machine, for *)
(* any table of layers, from any static split, whatever the allocator      *)
(* says.                                                                   *)
THEOREM LayersOwnCpus == LayersSpec => []OwnCpus
<1>1. LayersInit => LayersInv
  BY LayersInitially, LayeredAssumption
<1>2. LayersInv /\ [LayersNext]_layerVars => LayersInv'
  BY LayersStep, LayeredAssumption
<1>3. LayersInv => OwnCpus
  BY DEF LayersInv
<1> QED
  BY <1>1, <1>2, <1>3, PTL DEF LayersSpec

(* Layers that own their cores trip neither assertion of the loop: no core *)
(* is split, and none is in two of them.                                   *)
LEMMA OwnNeither ==
    ASSUME LayeredAssumption, OwnCpus, stage = "controlled"
    PROVE  (\A l \in Layer : ~Split(cpus[l])) /\ ~Overlapping
<1>1. ASSUME NEW l \in Layer PROVE ~Split(cpus[l])
  <2>1. cpus[l] = CpusOfCores(Owned(cpus[l])) /\ Owned(cpus[l]) \in SUBSET Core
    BY DEF OwnCpus, Owned
  <2> QED
    BY <2>1, CoresOfCpus
<1>2. ASSUME NEW l \in Confined, NEW m \in Confined, l # m,
             NEW k \in Owned(cpus[l]) \cap Owned(cpus[m])
      PROVE  FALSE
  <2>1. k \in Core /\ CpusOf(k) \subseteq cpus[l] /\ CpusOf(k) \subseteq cpus[m]
    BY <1>2 DEF Owned
  <2>2. cpus[l] \cap cpus[m] = {}
    BY <1>2 DEF OwnCpus, Confined
  <2> QED
    BY <2>1, <2>2, CoreHasCpus
<1> QED
  BY <1>1, <1>2 DEF Overlapping

(* The loop does not trip over its own masks: after an iteration no core   *)
(* is split or in two layers, and of its three assertions only the one     *)
(* about the allocator's targets is left to fail.                          *)
OnlyExceeds == [][stage = "controlled" => stage' \in {"controlled", "exceeds"}]_layerVars

(* From any table, whatever the loads and the allocator.                   *)
THEOREM ControlledMasks == LayersSpec => OnlyExceeds
<1> DEFINE Step == stage = "controlled" => stage' \in {"controlled", "exceeds"}
<1>1. ASSUME OwnCpus, [LayersNext]_layerVars PROVE [Step]_layerVars
  <2>1. CASE Control
    <3>1. SUFFICES ASSUME stage = "controlled" PROVE stage' \in {"controlled", "exceeds"}
      OBVIOUS
    <3>2. (\A l \in Layer : ~Split(cpus[l])) /\ ~Overlapping
      BY <1>1, <3>1, OwnNeither, LayeredAssumption
    <3> QED
      BY <2>1, <3>2 DEF Control, Fail, Update
  <2>2. CASE Change
    BY <2>2 DEF Change
  <2> QED
    BY <1>1, <2>1, <2>2 DEF LayersNext
<1>2. OwnCpus /\ [LayersNext]_layerVars => [Step]_layerVars
  BY <1>1
<1> HIDE DEF Step
<1>3. LayersSpec => [][Step]_layerVars
  BY <1>2, LayersOwnCpus, PTL DEF LayersSpec
<1> QED
  BY <1>3 DEF Step, OnlyExceeds

-----------------------------------------------------------------------------
(* The cgroups                                                             *)

CgroupsType ==
    /\ registry \in SUBSET Id
    /\ above \in [Id -> SUBSET Id]
    /\ names \in [Name -> Id \cup {Nowhere}]
    /\ nextId \in Nat
    /\ member \in [Member -> Id]
    /\ life \in {"running", "closing", "done"}
    /\ Root \in registry /\ above[Root] = {}

(* A name stands for one cgroup of the registry, the ids of which are all  *)
(* below the next one.                                                     *)
NamesLive ==
    /\ \A x \in Name : life # "done" /\ names[x] # Nowhere => names[x] \in registry \ {Root}
    /\ \A x, y \in Name : names[x] = names[y] /\ names[x] # Nowhere => x = y
    /\ \A g \in registry : g < nextId

(* The scheduler knows every cgroup of a run that goes on, and the list of *)
(* one that ends misses none that it knows.                                *)
ListComplete ==
    /\ life = "running" => registry \subseteq known
    /\ life = "closing" => known \subseteq left
    /\ life # "running" => walked = {}

CgroupsInv == CgroupsType /\ NamesLive /\ ListComplete /\ NoDangling

(* The invariant holds when the run starts ...                             *)
LEMMA CgroupsInvInit == CgroupsAssumption /\ CgroupsInit => CgroupsInv
<1> SUFFICES ASSUME CgroupsAssumption, CgroupsInit PROVE CgroupsInv
  OBVIOUS
<1>1. PICK last \in Id \cap Root .. MaxCgroups :
          /\ registry = Root .. last
          /\ nextId = last + 1
          /\ names \in [Name -> {Nowhere} \cup (registry \ {Root})]
          /\ \A x, y \in Name : names[x] = names[y] /\ x # y => names[x] = Nowhere
  BY DEF CgroupsInit
<1>2. Root \in registry /\ registry \in SUBSET Id /\ last \in Nat
  BY <1>1 DEF Id, Root, CgroupsAssumption
<1>3. \A g \in Id : above[g] \in SUBSET registry /\ above[Root] = {}
  BY <1>2 DEF CgroupsInit, Id, Root
<1>4. CgroupsType
  BY <1>1, <1>2, <1>3 DEF CgroupsInit, CgroupsType
<1>5. NamesLive
  BY <1>1, <1>2 DEF NamesLive, CgroupsInit, Root
<1>6. ListComplete
  BY DEF CgroupsInit, ListComplete
<1>7. NoDangling
  BY <1>2, <1>3 DEF CgroupsInit, NoDangling
<1>. QED
  BY <1>4, <1>5, <1>6, <1>7 DEF CgroupsInv

(* ... and every event keeps it.                                           *)
LEMMA CgroupsInvStep ==
    ASSUME CgroupsAssumption, ~Interleaves, CgroupsInv, [CgroupsNext]_cgVars
    PROVE  CgroupsInv'
<1> USE DEF CgroupsInv, CgroupsType, NamesLive, ListComplete, NoDangling, treeVars
<1>1. CASE Exhausted
  BY <1>1 DEF Exhausted, Close
<1>2. CASE Finish
  BY <1>2 DEF Finish, Close
<1>3. ASSUME NEW x \in Name, NEW p \in {Root} \cup {names[y] : y \in Named}, Create(x, p)
      PROVE  CgroupsInv'
  <2>1. p \in registry /\ nextId \in Id /\ nextId \notin registry /\ nextId # Root
    BY <1>3 DEF Create, Named, Id, Root
  <2>2. above' \in [Id -> SUBSET Id] /\ above'[nextId] = above[p] \cup {p}
            /\ \A g \in registry : above'[g] = above[g]
    BY <1>3, <2>1 DEF Create
  <2>3. CgroupsType'
    BY <1>3, <2>1, <2>2 DEF Create, Close, GoesOn
  <2>4. \A g \in registry' : above'[g] \subseteq registry'
    BY <1>3, <2>1, <2>2 DEF Create
  <2>5. NamesLive'
    BY <1>3, <2>1 DEF Create, Close, GoesOn, Id, Root, Nowhere
  <2>6. ListComplete' /\ NoDangling'
    <3>1. CASE Told(nextId) /\ GoesOn
      BY <1>3, <2>1, <2>2, <2>4, <3>1 DEF Create, Told, GoesOn
    <3>2. CASE Close /\ UNCHANGED <<entries, known>>
      BY <1>3, <2>1, <2>2, <2>4, <3>2 DEF Create, Close
    <3>. QED
      BY <1>3, <3>1, <3>2 DEF Create
  <2>. QED
    BY <2>3, <2>5, <2>6
<1>4. ASSUME NEW x \in Name, Destroy(x) PROVE CgroupsInv'
  <2>1. names[x] \in registry \ {Root}
    BY <1>4 DEF Destroy, Named
  <2>2. /\ registry' = registry \ {names[x]}
        /\ known' = known \ {names[x]}
        /\ \A h \in registry : names[x] \notin above[h]
        /\ \A t \in Member : member[t] # names[x]
    BY <1>4 DEF Destroy, Removable, Exited
  <2>3. CgroupsType'
    BY <1>4, <2>1, <2>2 DEF Destroy, GoesOn
  <2>4. NamesLive'
    BY <1>4, <2>1, <2>2 DEF Destroy, GoesOn
  <2>5. ListComplete' /\ NoDangling'
    BY <1>4, <2>1, <2>2 DEF Destroy, GoesOn
  <2>. QED
    BY <2>3, <2>4, <2>5
<1>5. ASSUME NEW x \in Name, ChangeCpuset(x) PROVE CgroupsInv'
  <2>1. names[x] \in registry \ {Root}
    BY <1>5 DEF ChangeCpuset, Named
  <2>2. known' = known
    <3>1. names[x] \in known
      BY <1>5, <2>1 DEF ChangeCpuset
    <3>2. known' = known \cup {names[x]} \/ known' = known
      BY <1>5 DEF ChangeCpuset, Told
    <3>. QED
      BY <3>1, <3>2
  <2>3. /\ UNCHANGED <<registry, above, names, nextId, member, life, left>>
        /\ walked' = {}
    BY <1>5 DEF ChangeCpuset, GoesOn
  <2>. QED
    BY <2>2, <2>3
<1>6. ASSUME NEW t \in Member, NEW x \in Name, Migrate(t, x) PROVE CgroupsInv'
  BY <1>6 DEF Migrate, Named, GoesOn
<1>7. CASE Walk
  BY <1>7 DEF Walk, GoesOn, Reached
<1>8. CASE ExitLast
  BY <1>8 DEF ExitLast, LastInPreorder, Exited
<1>9. CASE Drop
  BY <1>9 DEF Drop
<1>10. CASE UNCHANGED cgVars
  BY <1>10 DEF cgVars
<1>. QED
  BY <1>1, <1>2, <1>3, <1>4, <1>5, <1>6, <1>7, <1>8, <1>9, <1>10 DEF CgroupsNext

(* No pointer outlives its cgroup: neither in the ancestors of another,    *)
(* nor in a task, nor in the lists a timer walks, nor with the scheduler.  *)
THEOREM NothingDangles ==
    ASSUME CgroupsAssumption, ~Interleaves
    PROVE  CgroupsSpec => []NoDangling
<1>1. CgroupsInit => CgroupsInv
  BY CgroupsInvInit
<1>2. CgroupsInv /\ [CgroupsNext]_cgVars => CgroupsInv'
  BY CgroupsInvStep
<1>3. CgroupsInv => NoDangling
  BY DEF CgroupsInv
<1>. QED
  BY <1>1, <1>2, <1>3, PTL DEF CgroupsSpec

=============================================================================
