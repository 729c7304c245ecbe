--------------------------- MODULE ModelCacheProofs ---------------------------
(* Theorems about ModelCache, for any lists of models, any number of requests  *)
(* and accounts, and any capacity.                                             *)
EXTENDS ModelCache, SequenceTheorems, NaturalsInduction, WellFoundedInduction, TLAPS

-------------------------------------------------------------------------------
(* From configurations to routes *)

LEMMA LeastNumber ==
    ASSUME NEW S \in SUBSET Nat, S # {}
    PROVE  \E i \in S : \A j \in S : i <= j
<1>1. PICK i \in S : \A j \in S : <<j, i>> \notin OpToRel(<, Nat)
  BY NatLessThanWellFounded, WFMin
<1>2. \A j \in S : ~(j < i)
  BY <1>1 DEF OpToRel
<1> QED
  BY <1>2

\* Among configurations there is a first one.
LEMMA FirstIs ==
    ASSUME NEW es, es # {}, \A e \in es : e.function \in Nat /\ e.place \in Nat
    PROVE  First(es) \in es
<1> DEFINE fns == {e.function : e \in es}
<1>1. PICK n \in fns : \A m \in fns : n <= m
  <2>1. fns \in SUBSET Nat /\ fns # {}
    OBVIOUS
  <2> HIDE DEF fns
  <2> QED
    BY <2>1, LeastNumber
<1> DEFINE places == {e.place : e \in {d \in es : d.function = n}}
<1>2. PICK p \in places : \A q \in places : p <= q
  <2>1. places \in SUBSET Nat /\ places # {}
    OBVIOUS
  <2> HIDE DEF places
  <2> QED
    BY <2>1, LeastNumber
<1>3. PICK e \in es : e.function = n /\ e.place = p
  OBVIOUS
<1>4. \A d \in es : e.function < d.function \/ (e.function = d.function /\ e.place <= d.place)
  <2> SUFFICES ASSUME NEW d \in es, ~(e.function < d.function)
               PROVE  e.function = d.function /\ e.place <= d.place
    OBVIOUS
  <2>1. n <= d.function
    BY <1>1
  <2>2. d.function = n
    BY <1>3, <2>1
  <2>3. d.place \in places
    BY <2>2
  <2> QED
    BY <1>2, <1>3, <2>2, <2>3
<1> QED
  BY <1>4 DEF First

Entry == [function : 1..Functions, place : Nat, config : Config]

LEMMA EntriesType ==
    ASSUME NEW by \in Identities, NEW fns \in SUBSET (1..Functions)
    PROVE  /\ Entries(by, fns) \subseteq Entry
           /\ \A e \in Entries(by, fns) : MaxName(e.config.name) \in STRING
<1>1. ASSUME NEW fn \in fns, NEW k \in Available(by, fn)
      PROVE  /\ [function |-> fn, place |-> k, config |-> Catalog[by][fn][k]] \in Entry
             /\ MaxName(Catalog[by][fn][k].name) \in STRING
  <2>1. Catalog[by][fn] \in Seq(Config) /\ k \in DOMAIN Catalog[by][fn]
    BY CatalogAssumption DEF Available
  <2>2. Catalog[by][fn][k] \in Config /\ k \in Nat
    BY <2>1, ElementOfSeq, LenProperties
  <2> QED
    BY <2>1, <2>2, CatalogAssumption DEF Entry
<1> QED
  BY <1>1 DEF Entries

LEMMA NamesType ==
    ASSUME NEW by \in Identities, NEW fns \in SUBSET (1..Functions)
    PROVE  Names(by, fns) \subseteq STRING
<1>1. Ids(Entries(by, fns)) \subseteq STRING
  BY EntriesType DEF Ids, Entry, Config
<1>2. \A id \in Variants(Entries(by, fns)) : MaxName(id) \in STRING
  BY EntriesType DEF Variants, Ids
<1> QED
  BY <1>1, <1>2 DEF Names

\* Of some configurations there is a first one, and it is one of them.
LEMMA FirstOfEntries ==
    ASSUME NEW es \in SUBSET Entry, es # {}
    PROVE  First(es) \in es /\ First(es) \in Entry
BY FirstIs DEF Entry

LEMMA WindowsType ==
    ASSUME NEW group \in SUBSET Entry, NEW e \in group
    PROVE  /\ MaxWindow(e, group) \in Nat /\ DevWindow(e, group) \in Nat
           /\ DevWindow(e, group) >= e.config.devWindow
<1> DEFINE tellMax == {d \in group : d.config.maxWindow > 0}
           tellDev == {d \in group : d.config.devWindow > 0}
<1>1. \A d \in Entry : d.config.maxWindow \in Nat /\ d.config.devWindow \in Nat
  BY DEF Entry, Config
<1>2. MaxWindow(e, group) \in Nat
  <2>1. CASE e.config.maxWindow > 0 \/ tellMax = {}
    BY <1>1, <2>1 DEF MaxWindow
  <2>2. CASE ~(e.config.maxWindow > 0 \/ tellMax = {})
    <3>1. First(tellMax) \in Entry
      BY <2>2, FirstOfEntries
    <3> QED
      BY <1>1, <2>2, <3>1 DEF MaxWindow
  <2> QED
    BY <2>1, <2>2
<1>3. DevWindow(e, group) \in Nat /\ DevWindow(e, group) >= e.config.devWindow
  <2>1. CASE e.config.devWindow > 0 \/ tellDev = {}
    BY <1>1, <2>1 DEF DevWindow
  <2>2. CASE ~(e.config.devWindow > 0 \/ tellDev = {})
    <3>1. First(tellDev) \in Entry
      BY <2>2, FirstOfEntries
    <3> QED
      BY <1>1, <2>2, <3>1 DEF DevWindow
  <2> QED
    BY <2>1, <2>2
<1> QED
  BY <1>2, <1>3

\* The route of a model under its own name.
LEMMA PlainIs ==
    ASSUME NEW by \in Identities, NEW fns \in SUBSET (1..Functions),
           NEW id \in Ids(Entries(by, fns))
    PROVE  LET to == Plain(by, Entries(by, fns), id) IN
           /\ to \in RouteRecord /\ to.by = by /\ to.base = id /\ to.window = 0
           /\ \E e \in Entries(by, fns) : e.function = to.function /\ e.config.name = id
<1> DEFINE es == Entries(by, fns)
           group == Group(es, id)
           dev == {e \in group : e.config.dev # Absent}
           chosen == First(IF dev = {} THEN group ELSE dev)
           to == Plain(by, es, id)
<1>1. es \subseteq Entry /\ group \subseteq es /\ group # {} /\ dev \subseteq group
  BY EntriesType DEF Ids, Group
<1>2. chosen \in group /\ chosen \in Entry
  <2> HIDE DEF es, group, dev
  <2> QED
    BY <1>1, FirstOfEntries
<1>3. to = [by |-> by, base |-> id, function |-> chosen.function,
            most |-> IF chosen.config.dev = Absent THEN 0 ELSE chosen.config.dev, window |-> 0]
  BY DEF Plain
<1>4. chosen.function \in 1..Functions /\ chosen.config.dev \in Detail
      /\ chosen.config.name = id /\ id \in STRING /\ chosen \in es
  BY <1>1, <1>2 DEF Entry, Config, Group
<1> HIDE DEF chosen, es, group
<1>5. to \in RouteRecord
  BY <1>3, <1>4, CacheAssumption DEF RouteRecord, Detail
<1> QED
  BY <1>3, <1>4, <1>5 DEF es

\* The route of its larger variant.
LEMMA LargeIs ==
    ASSUME NEW by \in Identities, NEW fns \in SUBSET (1..Functions),
           NEW id \in Variants(Entries(by, fns))
    PROVE  LET to == Large(by, Entries(by, fns), id) IN
           /\ to \in RouteRecord /\ to.by = by /\ to.base = id /\ to.window > 0
           /\ \E e \in Entries(by, fns) :
                /\ e.function = to.function /\ e.config.name = id
                /\ e.config.max = to.most /\ to.window > e.config.devWindow
<1> DEFINE es == Entries(by, fns)
           group == Group(es, id)
           e == First(Larger(group))
           to == Large(by, es, id)
<1>1. es \subseteq Entry /\ group \subseteq es /\ Larger(group) # {} /\ id \in Ids(es)
  BY EntriesType DEF Variants, HasMax, Group
<1>2. Larger(group) \subseteq group
  BY DEF Larger
<1>3. e \in Larger(group) /\ e \in Entry
  <2> HIDE DEF es, group
  <2> QED
    BY <1>1, <1>2, FirstOfEntries
<1>4. to = [by |-> by, base |-> id, function |-> e.function, most |-> e.config.max,
            window |-> MaxWindow(e, group)]
  BY DEF Large
<1>5. /\ e \in group /\ e \in es /\ e.config.name = id /\ e.config.max # Absent
      /\ MaxWindow(e, group) > DevWindow(e, group)
  BY <1>1, <1>2, <1>3 DEF Larger, Group
<1>6. /\ MaxWindow(e, group) \in Nat /\ DevWindow(e, group) \in Nat
      /\ DevWindow(e, group) >= e.config.devWindow
  <2> HIDE DEF es, group, e
  <2> QED
    BY <1>1, <1>5, WindowsType
<1>7. /\ e.function \in 1..Functions /\ e.config.max \in Nat /\ id \in STRING
      /\ e.config.devWindow \in Nat
  BY <1>3, <1>5 DEF Entry, Config, Detail
<1> HIDE DEF e, es, group
<1>8. to \in RouteRecord
  BY <1>4, <1>6, <1>7, CacheAssumption DEF RouteRecord
<1>9. to.window > 0 /\ to.window > e.config.devWindow
  BY <1>4, <1>5, <1>6, <1>7
<1> QED
  BY <1>4, <1>5, <1>8, <1>9 DEF es

\* What NamesReach says of one entry.
Reaches(by, fns, n) ==
    LET es == Entries(by, fns)
        to == Route(by, fns, n) IN
    /\ n \in Ids(es) => to.base = n /\ to.window = 0
    /\ n \notin Ids(es) => MaxName(to.base) = n /\ to.window > 0
    /\ \E e \in es :
        /\ e.function = to.function /\ e.config.name = to.base
        /\ to.window > 0 => e.config.max = to.most /\ to.window > e.config.devWindow

LEMMA RouteIs ==
    ASSUME NEW by \in Identities, NEW fns \in SUBSET (1..Functions), NEW n \in Names(by, fns)
    PROVE  /\ Route(by, fns, n) \in RouteRecord /\ Route(by, fns, n).by = by
           /\ Reaches(by, fns, n)
<1> DEFINE es == Entries(by, fns)
           of == {id \in Variants(es) : MaxName(id) = n}
<1>1. CASE of = {}
  <2>1. n \in Ids(es)
    BY <1>1 DEF Names
  <2>2. Route(by, fns, n) = Plain(by, es, n)
    BY <1>1 DEF Route
  <2> QED
    BY <2>1, <2>2, PlainIs DEF Reaches
<1>2. CASE of # {}
  <2> DEFINE id == CHOOSE i \in of : TRUE
  <2>1. id \in Variants(es) /\ MaxName(id) = n
    BY <1>2
  <2>2. n \notin Ids(es)
    BY <2>1 DEF Variants, HasMax
  <2>3. Route(by, fns, n) = Large(by, es, id)
    BY <1>2 DEF Route
  <2> HIDE DEF id
  <2> QED
    BY <2>1, <2>2, <2>3, LargeIs DEF Reaches
<1> QED
  BY <1>1, <1>2
-------------------------------------------------------------------------------
(* The cache *)

CacheEntry == [key : Identities, by : Identities, found : SUBSET (1..Functions)]

\* An entry is the list of the account whose key it has, and names a model.
Own(e) == e.key = e.by /\ Names(e.by, e.found) # {}

KeysDiffer(c) == \A j, k \in DOMAIN c : c[j].key = c[k].key => j = k

\* Entries as the cache may have them.
Sound(c) ==
    /\ c \in Seq(CacheEntry) /\ Len(c) <= Capacity
    /\ KeysDiffer(c) /\ \A k \in DOMAIN c : Own(c[k])

\* d has entries of c and no entry twice.
Picks(d, c) ==
    \E f \in [1..Len(d) -> 1..Len(c)] :
        /\ \A j, k \in 1..Len(d) : f[j] = f[k] => j = k
        /\ \A k \in 1..Len(d) : d[k] = c[f[k]]

LEMMA PickedSound ==
    ASSUME NEW c, NEW d, Sound(c), d \in Seq(CacheEntry), Len(d) <= Len(c), Picks(d, c)
    PROVE  Sound(d)
<1>1. /\ Len(c) \in Nat /\ DOMAIN c = 1..Len(c) /\ Len(d) \in Nat /\ DOMAIN d = 1..Len(d)
      /\ Capacity \in Nat
  BY LenProperties, CacheAssumption DEF Sound
<1>2. PICK f \in [1..Len(d) -> 1..Len(c)] :
        /\ \A j, k \in 1..Len(d) : f[j] = f[k] => j = k
        /\ \A k \in 1..Len(d) : d[k] = c[f[k]]
  BY DEF Picks
<1>3. KeysDiffer(d)
  BY <1>1, <1>2 DEF Sound, KeysDiffer
<1>4. \A k \in DOMAIN d : Own(d[k])
  BY <1>1, <1>2 DEF Sound
<1> QED
  BY <1>1, <1>3, <1>4 DEF Sound

\* What is left from some place on.
LEMMA RestSound ==
    ASSUME NEW c, Sound(c), NEW a \in 0..Len(c)
    PROVE  Sound(SubSeq(c, a + 1, Len(c))) /\ Len(SubSeq(c, a + 1, Len(c))) = Len(c) - a
<1> DEFINE d == SubSeq(c, a + 1, Len(c))
           f == [k \in 1..Len(d) |-> k + a]
<1>1. Len(c) \in Nat /\ DOMAIN c = 1..Len(c) /\ \A i \in 1..Len(c) : c[i] \in CacheEntry
  BY LenProperties, ElementOfSeq DEF Sound
<1>2. /\ d \in Seq(CacheEntry) /\ Len(d) = Len(c) - a
      /\ \A i \in 1..Len(c) - a : d[i] = c[i + a]
  <2>1. a + 1 \in Int /\ Len(c) \in Int /\ \A i \in a + 1..Len(c) : c[i] \in CacheEntry
    BY <1>1
  <2>2. /\ d \in Seq(CacheEntry)
        /\ Len(d) = IF a + 1 <= Len(c) THEN Len(c) - (a + 1) + 1 ELSE 0
        /\ \A i \in 1..Len(c) - (a + 1) + 1 : d[i] = c[a + 1 + i - 1]
    BY <2>1, SubSeqProperties
  <2> HIDE DEF d
  <2>3. Len(d) = Len(c) - a
    <3>1. Len(c) \in Nat
      BY <1>1
    <3>2. Len(d) = IF a + 1 <= Len(c) THEN Len(c) - (a + 1) + 1 ELSE 0
      BY <2>2
    <3> HIDE DEF f
    <3> QED
      BY <3>1, <3>2
  <2>4. ASSUME NEW i \in 1..Len(c) - a
        PROVE  d[i] = c[i + a]
    <3>1. i \in 1..Len(c) - (a + 1) + 1 /\ a + 1 + i - 1 = i + a
      BY <1>1
    <3> QED
      BY <2>2, <3>1
  <2> QED
    BY <2>2, <2>3, <2>4
<1> HIDE DEF d
<1>3. f \in [1..Len(d) -> 1..Len(c)]
  BY <1>1, <1>2
<1>4. Picks(d, c)
  <2>1. \A j, k \in 1..Len(d) : f[j] = f[k] => j = k
    BY <1>1, <1>2
  <2>2. \A k \in 1..Len(d) : d[k] = c[f[k]]
    BY <1>1, <1>2
  <2> HIDE DEF f
  <2> QED
    BY <1>3, <2>1, <2>2 DEF Picks
<1>5. Len(d) <= Len(c)
  BY <1>1, <1>2
<1> QED
  BY <1>2, <1>4, <1>5, PickedSound DEF d

\* Without one entry.
LEMMA RemovedSound ==
    ASSUME NEW c, Sound(c), NEW i \in DOMAIN c
    PROVE  /\ Sound(RemoveAt(c, i)) /\ Len(RemoveAt(c, i)) = Len(c) - 1
           /\ \A k \in DOMAIN RemoveAt(c, i) : \E j \in DOMAIN c : j # i /\ RemoveAt(c, i)[k] = c[j]
<1> DEFINE n == Len(c)
           s == SubSeq(c, 1, i - 1)
           t == SubSeq(c, i + 1, n)
           d == RemoveAt(c, i)
           f == [k \in 1..n - 1 |-> IF k < i THEN k ELSE k + 1]
<1>1. n \in Nat /\ DOMAIN c = 1..n /\ i \in 1..n /\ \A j \in 1..n : c[j] \in CacheEntry
  BY LenProperties, ElementOfSeq DEF Sound
<1>2. /\ s \in Seq(CacheEntry) /\ Len(s) = i - 1 /\ \A k \in 1..i - 1 : s[k] = c[k]
  <2>1. 1 \in Int /\ i - 1 \in Int /\ \A j \in 1..i - 1 : c[j] \in CacheEntry
    BY <1>1
  <2>2. /\ s \in Seq(CacheEntry)
        /\ Len(s) = IF 1 <= i - 1 THEN i - 1 - 1 + 1 ELSE 0
        /\ \A k \in 1..i - 1 - 1 + 1 : s[k] = c[1 + k - 1]
    BY <2>1, SubSeqProperties
  <2> QED
    BY <1>1, <2>2
<1>3. /\ t \in Seq(CacheEntry) /\ Len(t) = n - i /\ \A k \in 1..n - i : t[k] = c[k + i]
  <2>1. i + 1 \in Int /\ n \in Int /\ \A j \in i + 1..n : c[j] \in CacheEntry
    BY <1>1
  <2>2. /\ t \in Seq(CacheEntry)
        /\ Len(t) = IF i + 1 <= n THEN n - (i + 1) + 1 ELSE 0
        /\ \A k \in 1..n - (i + 1) + 1 : t[k] = c[i + 1 + k - 1]
    BY SMTT(30), <2>1, SubSeqProperties
  <2> QED
    BY <1>1, <2>2
<1>4. /\ d \in Seq(CacheEntry) /\ Len(d) = n - 1
      /\ \A k \in 1..n - 1 : d[k] = IF k <= i - 1 THEN s[k] ELSE t[k - (i - 1)]
  <2>1. d = s \o t
    BY DEF RemoveAt
  <2>2. /\ s \o t \in Seq(CacheEntry) /\ Len(s \o t) = Len(s) + Len(t)
        /\ \A k \in 1..Len(s) + Len(t) : (s \o t)[k] = IF k <= Len(s) THEN s[k] ELSE t[k - Len(s)]
    <3> HIDE DEF s, t
    <3> QED
      BY <1>2, <1>3, ConcatProperties
  <2> HIDE DEF s, t, d
  <2> QED
    BY SMTT(30), <1>1, <1>2, <1>3, <2>1, <2>2
<1> HIDE DEF s, t, d
<1>5. \A k \in 1..n - 1 : f[k] \in 1..n /\ f[k] # i /\ d[k] = c[f[k]]
  <2>1. ASSUME NEW k \in 1..n - 1, k < i
        PROVE  f[k] \in 1..n /\ f[k] # i /\ d[k] = c[f[k]]
    BY <1>1, <1>2, <1>4, <2>1
  <2>2. ASSUME NEW k \in 1..n - 1, ~(k < i)
        PROVE  f[k] \in 1..n /\ f[k] # i /\ d[k] = c[f[k]]
    <3>1. k - (i - 1) \in 1..n - i /\ k - (i - 1) + i = k + 1 /\ ~(k <= i - 1)
      BY <1>1, <2>2
    <3>2. d[k] = c[k + 1]
      BY <1>3, <1>4, <3>1
    <3> QED
      BY <1>1, <2>2, <3>2
  <2> QED
    BY <2>1, <2>2
<1>6. Picks(d, c)
  <2>1. f \in [1..Len(d) -> 1..Len(c)]
    BY <1>1, <1>4, <1>5
  <2>2. \A j, k \in 1..Len(d) : f[j] = f[k] => j = k
    BY <1>1, <1>4
  <2> HIDE DEF f
  <2> QED
    BY <1>4, <1>5, <2>1, <2>2 DEF Picks
<1>7. Sound(d)
  BY <1>1, <1>4, <1>6, PickedSound
<1>8. DOMAIN d = 1..n - 1
  BY <1>4, LenProperties
<1> HIDE DEF f
<1> QED
  BY <1>1, <1>4, <1>5, <1>7, <1>8 DEF d

\* Storing keeps the entries of other keys apart and stays within the limit.
LEMMA StoredSound ==
    ASSUME NEW c, Sound(c), NEW key, NEW e \in CacheEntry, e.key = key, Own(e)
    PROVE  Sound(Append(Room(c, key), e))
<1> DEFINE d == Room(c, key)
<1>1. Len(c) \in Nat /\ DOMAIN c = 1..Len(c) /\ Capacity \in Nat \ {0}
  BY LenProperties, CacheAssumption DEF Sound
<1>2. Sound(d) /\ Len(d) < Capacity /\ \A k \in DOMAIN d : d[k].key # key
  <2>1. CASE \E k \in DOMAIN c : c[k].key = key
    <3> DEFINE i == CHOOSE k \in DOMAIN c : c[k].key = key
    <3>1. i \in DOMAIN c /\ c[i].key = key
      BY <2>1
    <3>2. d = RemoveAt(c, i)
      BY <2>1 DEF Room
    <3> HIDE DEF i, d
    <3>3. \A j \in DOMAIN c : j # i => c[j].key # key
      BY <3>1 DEF Sound, KeysDiffer
    <3>4. /\ Sound(d) /\ Len(d) = Len(c) - 1
          /\ \A k \in DOMAIN d : \E j \in DOMAIN c : j # i /\ d[k] = c[j]
      BY <3>1, <3>2, RemovedSound
    <3>5. Len(d) < Capacity
      BY <1>1, <3>4 DEF Sound
    <3> QED
      BY <3>3, <3>4, <3>5
  <2>2. CASE (\A k \in DOMAIN c : c[k].key # key) /\ Len(c) >= Capacity
    <3>1. d = Tail(c) /\ Tail(c) = SubSeq(c, 1 + 1, Len(c)) /\ c \in Seq(CacheEntry)
      BY <1>1, <2>2, TailIsSubSeq DEF Room, Sound
    <3>2. 1 \in 0..Len(c)
      BY <1>1, <2>2
    <3>3. Sound(d) /\ Len(d) = Len(c) - 1
      BY <3>1, <3>2, RestSound
    <3>4. c # <<>>
      BY <1>1, <2>2
    <3>5. \A k \in 1..Len(d) : d[k] = c[k + 1] /\ k + 1 \in DOMAIN c
      BY <1>1, <3>1, <3>3, <3>4, HeadTailProperties
    <3>6. DOMAIN d = 1..Len(d)
      BY <3>3, LenProperties DEF Sound
    <3>7. Len(d) < Capacity
      BY <1>1, <3>3 DEF Sound
    <3> HIDE DEF d
    <3> QED
      BY <2>2, <3>3, <3>5, <3>6, <3>7
  <2>3. CASE (\A k \in DOMAIN c : c[k].key # key) /\ ~(Len(c) >= Capacity)
    BY <1>1, <2>3 DEF Room
  <2> QED
    BY <2>1, <2>2, <2>3
<1> HIDE DEF d
<1>3. Len(d) \in Nat /\ DOMAIN d = 1..Len(d) /\ d \in Seq(CacheEntry)
  BY <1>2, LenProperties DEF Sound
<1> DEFINE a == Append(d, e)
<1>4. /\ a \in Seq(CacheEntry) /\ Len(a) = Len(d) + 1 /\ DOMAIN a = 1..Len(d) + 1
      /\ \A k \in DOMAIN d : a[k] = d[k]
      /\ a[Len(d) + 1] = e
  BY <1>3, AppendProperties, LenProperties
<1>5. \A k \in DOMAIN a : k \in DOMAIN d \/ (k = Len(d) + 1 /\ k \notin DOMAIN d)
  BY <1>3, <1>4
<1> HIDE DEF a
<1>6. KeysDiffer(a)
  BY <1>2, <1>4, <1>5 DEF KeysDiffer, Sound
<1>7. \A k \in DOMAIN a : Own(a[k])
  BY <1>2, <1>4, <1>5 DEF Sound
<1>8. Len(a) <= Capacity
  BY <1>1, <1>2, <1>3, <1>4
<1> QED
  BY <1>4, <1>6, <1>7, <1>8 DEF Sound, a, d
-------------------------------------------------------------------------------
(* The inductive invariant *)

\* Places at which a request has read a snapshot and is at work.
Working == {"look", "batch", "single", "store", "check", "reread", "start"}

RequestInv ==
    \A r \in Requests :
        /\ req[r].pc \in Working => req[r].ident \in Identities
        /\ req[r].pc \in {"batch", "single"} => req[r].next \in 1..Functions
        /\ req[r].route.by \in {"none", req[r].ident}
        /\ req[r].listed \in {"none", req[r].ident}

IInv == TypeOK /\ Sound(cache) /\ RequestInv

\* What a step may make of one request.
Allowed(q) ==
    /\ q \in Request
    /\ q.pc \in Working => q.ident \in Identities
    /\ q.pc \in {"batch", "single"} => q.next \in 1..Functions
    /\ q.route.by \in {"none", q.ident}
    /\ q.listed \in {"none", q.ident}

LEMMA AllAllowed ==
    ASSUME IInv, NEW r \in Requests
    PROVE  Allowed(req[r])
BY DEF IInv, TypeOK, RequestInv, Allowed

\* A step of one request.
LEMMA RequestStep ==
    ASSUME IInv, NEW r \in Requests, NEW q, Allowed(q), req' = [req EXCEPT ![r] = q],
           file' = file, aged' \in 0..Len(cache'), Sound(cache')
    PROVE  IInv'
<1>1. req' \in [Requests -> Request] /\ \A s \in Requests : req'[s] = IF s = r THEN q ELSE req[s]
  BY DEF IInv, TypeOK, Allowed
<1>2. \A s \in Requests : Allowed(req'[s])
  BY <1>1, AllAllowed
<1>3. RequestInv'
  BY <1>2 DEF RequestInv, Allowed
<1>4. TypeOK'
  BY <1>1 DEF IInv, TypeOK, Sound, CacheEntry
<1> QED
  BY <1>3, <1>4 DEF IInv

LEMMA CacheFacts ==
    ASSUME IInv
    PROVE  /\ cache \in Seq(CacheEntry) /\ aged \in 0..Len(cache) /\ Sound(cache)
           /\ Len(cache) \in Nat /\ DOMAIN cache = 1..Len(cache)
           /\ \A k \in DOMAIN cache : cache[k] \in CacheEntry /\ Own(cache[k])
BY LenProperties, ElementOfSeq DEF IInv, TypeOK, Sound

LEMMA PrunedSound ==
    ASSUME IInv
    PROVE  Sound(Pruned) /\ Len(Pruned) \in Nat
BY CacheFacts, RestSound, LenProperties DEF Pruned, Sound

LEMMA Bounds == 0 \in 0..Functions /\ 1 \in 1..Functions + 1 /\ 1 \in 1..Functions
BY CacheAssumption

LEMMA NoRouteType == NoRoute \in RouteRecord /\ NoRoute.by = "none"
BY Bounds DEF NoRoute, RouteRecord

LEMMA BlankAllowed ==
    /\ Allowed(Blank)
    /\ \A k \in {"none", "login", "unknown", "other"}, b \in BOOLEAN :
         Allowed([Blank EXCEPT !.pc = "done", !.error = k, !.started = b])
<1>1. Blank \in Request
  BY NoRouteType, Bounds DEF Blank, Request, Places, Stages
<1>2. Blank.route = NoRoute /\ Blank.listed = "none" /\ Blank.pc = "new"
  BY DEF Blank
<1>3. Allowed(Blank)
  BY <1>1, <1>2, NoRouteType DEF Allowed, Working
<1>4. ASSUME NEW k \in {"none", "login", "unknown", "other"}, NEW b \in BOOLEAN
      PROVE  Allowed([Blank EXCEPT !.pc = "done", !.error = k, !.started = b])
  <2> DEFINE q == [Blank EXCEPT !.pc = "done", !.error = k, !.started = b]
  <2>1. q \in Request /\ q.pc = "done" /\ q.route = NoRoute /\ q.listed = "none"
    BY <1>1, <1>2 DEF Request, Places
  <2> QED
    BY <2>1, NoRouteType DEF Allowed, Working
<1> QED
  BY <1>3, <1>4

LEMMA InitInv == Init => IInv
<1> SUFFICES ASSUME Init PROVE IInv
  OBVIOUS
<1>1. cache = <<>> /\ Len(cache) = 0 /\ cache \in Seq(CacheEntry) /\ DOMAIN cache = {}
  BY EmptySeq DEF Init
<1>2. Sound(cache)
  BY <1>1, CacheAssumption DEF Sound, KeysDiffer
<1>3. TypeOK
  <2>1. aged \in 0..Len(cache) /\ file \in Identities
    BY <1>1 DEF Init
  <2>2. req \in [Requests -> Request]
    BY BlankAllowed DEF Init, Allowed
  <2> QED
    BY <1>1, <2>1, <2>2 DEF TypeOK, CacheEntry
<1>4. RequestInv
  BY BlankAllowed DEF Init, RequestInv, Allowed
<1> QED
  BY <1>2, <1>3, <1>4 DEF IInv

LEMMA FailInv ==
    ASSUME IInv, NEW r \in Requests, NEW kind \in {"login", "unknown", "other"}, Fail(r, kind),
           UNCHANGED <<file, cache, aged>>
    PROVE  IInv'
<1> DEFINE q == [Blank EXCEPT !.pc = "done", !.error = kind, !.started = req[r].started]
<1>1. req[r].started \in BOOLEAN
  BY DEF IInv, TypeOK, Request
<1>2. Allowed(q) /\ req' = [req EXCEPT ![r] = q]
  BY <1>1, BlankAllowed DEF Fail
<1> HIDE DEF q
<1> QED
  BY <1>2, CacheFacts, RequestStep

\* The entries of a key are of the account that has it.
LEMMA CachedOwn ==
    ASSUME IInv, NEW key, NEW k \in Cached(key)
    PROVE  /\ k \in DOMAIN cache /\ cache[k].by = key /\ key \in Identities
           /\ cache[k].found \in SUBSET (1..Functions)
           /\ Names(cache[k].by, cache[k].found) # {}
BY CacheFacts DEF Cached, Own, CacheEntry

LEMMA ResolveAllowed ==
    ASSUME IInv, NEW r \in Requests, NEW k \in Knowing(r), Resolve(r, k),
           UNCHANGED <<file, cache, aged>>
    PROVE  IInv'
<1> DEFINE to == Route(cache[k].by, cache[k].found, req[r].model)
           q == [req[r] EXCEPT !.route = to,
                               !.pc = IF req[r].stage = "late" THEN "sent" ELSE "start"]
<1>1. /\ k \in Cached(req[r].ident) /\ req[r].model \in Names(cache[k].by, cache[k].found)
  BY DEF Knowing
<1>2. cache[k].by = req[r].ident /\ req[r].ident \in Identities
      /\ cache[k].found \in SUBSET (1..Functions)
  BY <1>1, CachedOwn
<1>3. to \in RouteRecord /\ to.by = req[r].ident
  BY <1>1, <1>2, RouteIs
<1>4. Allowed(req[r])
  BY AllAllowed
<1> HIDE DEF to
<1>5. q \in Request /\ q.route = to /\ q.ident = req[r].ident /\ q.listed = req[r].listed
      /\ q.pc \in {"sent", "start"}
  <2> DEFINE pc == IF req[r].stage = "late" THEN "sent" ELSE "start"
  <2>1. req[r] \in Request /\ pc \in Places /\ pc \in {"sent", "start"}
    BY <1>4 DEF Allowed, Places
  <2>2. q = [req[r] EXCEPT !.route = to, !.pc = pc]
    OBVIOUS
  <2> HIDE DEF pc, q
  <2> QED
    BY <1>3, <2>1, <2>2 DEF Request
<1>6. Allowed(q)
  BY <1>2, <1>3, <1>4, <1>5 DEF Allowed
<1>7. req' = [req EXCEPT ![r] = q]
  BY DEF Resolve, to, IInv, TypeOK
<1> HIDE DEF q
<1> QED
  BY <1>6, <1>7, CacheFacts, RequestStep

\* modelNames returns the list of the request's own account.
LEMMA ReturnInv ==
    ASSUME IInv, NEW r \in Requests, NEW fns \in SUBSET (1..Functions),
           req[r].ident \in Identities, Names(req[r].ident, fns) # {},
           Return(r, req[r].ident, fns), file' = file, aged' = 0, Sound(cache')
    PROVE  IInv'
<1>1. Allowed(req[r])
  BY AllAllowed
<1>2. 0 \in 0..Len(cache')
  BY LenProperties DEF Sound
<1> SUFFICES \E q : Allowed(q) /\ req' = [req EXCEPT ![r] = q]
  BY <1>2, RequestStep
<1>3. CASE req[r].stage = "list"
  <2> DEFINE q == [req[r] EXCEPT !.listed = req[r].ident, !.pc = "done"]
  <2>1. q \in Request /\ q.pc = "done" /\ q.listed = q.ident /\ q.route = req[r].route
        /\ q.ident = req[r].ident
    BY <1>1 DEF Allowed, Request, Places
  <2>2. Allowed(q)
    BY <1>1, <2>1 DEF Allowed, Working
  <2>3. req' = [req EXCEPT ![r] = q]
    BY <1>3 DEF Return, IInv, TypeOK
  <2> QED
    BY <2>2, <2>3
<1>4. CASE req[r].stage = "auto"
  <2> DEFINE m == CHOOSE n \in Names(req[r].ident, fns) : TRUE
             q == [req[r] EXCEPT !.model = m, !.stage = "early", !.pc = "check"]
  <2>1. m \in STRING
    BY NamesType
  <2>2. req' = [req EXCEPT ![r] = q]
    BY <1>4 DEF Return, IInv, TypeOK
  <2> HIDE DEF m
  <2>3. q \in Request /\ q.pc = "check" /\ q.listed = req[r].listed /\ q.route = req[r].route
        /\ q.ident = req[r].ident
    BY <1>1, <2>1 DEF Allowed, Request, Places, Stages
  <2>4. Allowed(q)
    BY <1>1, <2>3 DEF Allowed
  <2> QED
    BY <2>2, <2>4
<1>5. CASE req[r].stage \notin {"list", "auto"}
  <2> DEFINE q == [req[r] EXCEPT !.found = {}, !.next = 1, !.pc = "reread"]
  <2>1. q \in Request /\ q.pc = "reread" /\ q.listed = req[r].listed /\ q.route = req[r].route
        /\ q.ident = req[r].ident
    BY <1>1, Bounds DEF Allowed, Request, Places
  <2>2. Allowed(q)
    BY <1>1, <2>1 DEF Allowed
  <2>3. req' = [req EXCEPT ![r] = q]
    BY <1>5 DEF Return, IInv, TypeOK
  <2> QED
    BY <2>2, <2>3
<1> QED
  BY <1>3, <1>4, <1>5
-------------------------------------------------------------------------------
(* The steps *)

LEMMA ArriveInv ==
    ASSUME IInv, NEW r \in Requests, Arrive(r)
    PROVE  IInv'
<1>1. UNCHANGED <<file, cache, aged>> /\ file \in Identities \cup {"none"}
  BY DEF Arrive, IInv, TypeOK
<1> SUFFICES \E q : Allowed(q) /\ req' = [req EXCEPT ![r] = q]
  BY <1>1, CacheFacts, RequestStep
<1>2. CASE file = "none"
  <2> DEFINE q == [Blank EXCEPT !.pc = "done", !.error = "login"]
  <2>1. Blank \in Request /\ Blank.route = NoRoute /\ Blank.listed = "none"
    BY BlankAllowed DEF Allowed, Blank
  <2>2. Allowed(q)
    BY <2>1, NoRouteType DEF Allowed, Request, Places, Working
  <2>3. req' = [req EXCEPT ![r] = q]
    BY <1>2 DEF Arrive
  <2> QED
    BY <2>2, <2>3
<1>3. CASE file # "none"
  <2> DEFINE News == {[stage |-> s, pc |-> "look", model |-> "auto"] : s \in {"list", "auto"}}
                     \cup {[stage |-> "early", pc |-> "check", model |-> m] : m \in Models}
  <2>1. PICK new \in News :
          req' = [req EXCEPT ![r] = [Blank EXCEPT !.stage = new.stage, !.pc = new.pc,
                                                  !.model = new.model, !.ident = file]]
    BY <1>3 DEF Arrive
  <2>2. new.stage \in Stages /\ new.pc \in {"look", "check"} /\ new.model \in STRING \cup {"auto"}
    BY CacheAssumption DEF Stages
  <2> DEFINE q == [Blank EXCEPT !.stage = new.stage, !.pc = new.pc,
                                !.model = new.model, !.ident = file]
  <2> HIDE DEF News
  <2>3. Blank \in Request /\ Blank.route = NoRoute /\ Blank.listed = "none"
    BY BlankAllowed DEF Allowed, Blank
  <2>4. q \in Request /\ q.pc \in {"look", "check"} /\ q.ident = file
        /\ q.route = NoRoute /\ q.listed = "none"
    BY <1>1, <2>2, <2>3 DEF Request, Places
  <2>5. Allowed(q)
    BY <1>1, <1>3, <2>4, NoRouteType DEF Allowed
  <2> QED
    BY <2>1, <2>5
<1> QED
  BY <1>2, <1>3

\* A step that changes only where a request is and what it has found.
LEMMA MoveInv ==
    ASSUME IInv, NEW r \in Requests, req[r].pc \in Working,
           NEW pc \in Places, NEW found \in SUBSET (1..Functions), NEW next \in 1..Functions + 1,
           pc \in {"batch", "single"} => next \in 1..Functions,
           req' = [req EXCEPT ![r].pc = pc, ![r].found = found, ![r].next = next],
           file' = file, aged' \in 0..Len(cache'), Sound(cache')
    PROVE  IInv'
<1> DEFINE q == [req[r] EXCEPT !.pc = pc, !.found = found, !.next = next]
<1>1. Allowed(req[r])
  BY AllAllowed
<1>2. q \in Request /\ q.pc = pc /\ q.next = next /\ q.ident = req[r].ident
      /\ q.route = req[r].route /\ q.listed = req[r].listed
  BY <1>1 DEF Allowed, Request
<1>3. Allowed(q)
  BY <1>1, <1>2 DEF Allowed
<1>4. req' = [req EXCEPT ![r] = q]
  BY DEF IInv, TypeOK
<1> HIDE DEF q
<1> QED
  BY <1>3, <1>4, RequestStep

LEMMA CheckInv ==
    ASSUME IInv, NEW r \in Requests, Check(r)
    PROVE  IInv'
<1>1. UNCHANGED <<file, cache, aged>>
  BY DEF Check
<1>2. CASE \E k \in Knowing(r) : k > aged
  <2>1. PICK k \in Knowing(r) : Resolve(r, k)
    BY <1>2 DEF Check
  <2> QED
    BY <1>1, <2>1, ResolveAllowed
<1>3. CASE ~\E k \in Knowing(r) : k > aged
  <2>1. Allowed(req[r]) /\ req[r] \in Request /\ req[r].pc = "check"
    BY AllAllowed DEF Allowed, Check, At
  <2>2. req' = [req EXCEPT ![r].pc = "look"]
    BY <1>3 DEF Check
  <2>3. [req[r] EXCEPT !.pc = "look"] =
          [req[r] EXCEPT !.pc = "look", !.found = req[r].found, !.next = req[r].next]
    BY <2>1 DEF Request
  <2>4. req \in [Requests -> Request]
    BY DEF IInv, TypeOK
  <2>5. req' = [req EXCEPT ![r].pc = "look", ![r].found = req[r].found, ![r].next = req[r].next]
    BY <2>2, <2>3, <2>4
  <2>6. req[r].found \in SUBSET (1..Functions) /\ req[r].next \in 1..Functions + 1
    BY <2>1 DEF Request
  <2> QED
    BY <1>1, <2>1, <2>5, <2>6, CacheFacts, MoveInv DEF Places, Working
<1> QED
  BY <1>2, <1>3

LEMMA LookInv ==
    ASSUME IInv, NEW r \in Requests, Look(r)
    PROVE  IInv'
<1>1. /\ file' = file /\ cache' = Pruned /\ aged' = 0 /\ Sound(cache') /\ 0 \in 0..Len(cache')
      /\ req[r].pc = "look"
  BY PrunedSound DEF Look, At
<1>2. CASE Fresh(req[r].ident) # {}
  <2>1. PICK k \in Fresh(req[r].ident) : Return(r, cache[k].by, cache[k].found)
    BY <1>2 DEF Look
  <2>2. k \in Cached(req[r].ident)
    BY DEF Fresh
  <2>3. /\ cache[k].by = req[r].ident /\ req[r].ident \in Identities
        /\ cache[k].found \in SUBSET (1..Functions)
        /\ Names(cache[k].by, cache[k].found) # {}
    BY <2>2, CachedOwn
  <2> QED
    BY <1>1, <2>1, <2>3, ReturnInv
<1>3. CASE Fresh(req[r].ident) = {}
  <2>1. req' = [req EXCEPT ![r].pc = "batch", ![r].found = {}, ![r].next = 1]
    BY <1>3 DEF Look
  <2> QED
    BY <1>1, <2>1, Bounds, MoveInv DEF Places, Working
<1> QED
  BY <1>2, <1>3

LEMMA BatchInv ==
    ASSUME IInv, NEW r \in Requests, Batch(r)
    PROVE  IInv'
<1>1. /\ UNCHANGED <<file, cache, aged>> /\ req[r].pc = "batch" /\ req[r] \in Request
      /\ req[r].next \in 1..Functions /\ req[r].next \in 1..Functions + 1
      /\ req[r].found \in SUBSET (1..Functions)
  BY AllAllowed DEF Batch, At, Allowed, Request
<1>2. CASE Fail(r, "login")
  BY <1>1, <1>2, FailInv
<1>3. CASE req' = [req EXCEPT ![r].pc = "single"]
  <2>1. req' = [req EXCEPT ![r].pc = "single", ![r].found = req[r].found, ![r].next = req[r].next]
    BY <1>1, <1>3 DEF IInv, TypeOK, Request
  <2> QED
    BY <1>1, <2>1, CacheFacts, MoveInv DEF Places, Working
<1>4. ASSUME NEW fns \in SUBSET (1..Functions),
             req' = [req EXCEPT ![r].found = fns, ![r].pc = "store"]
      PROVE  IInv'
  <2>1. req' = [req EXCEPT ![r].pc = "store", ![r].found = fns, ![r].next = req[r].next]
    BY <1>1, <1>4 DEF IInv, TypeOK, Request
  <2> QED
    BY <1>1, <2>1, CacheFacts, MoveInv DEF Places, Working
<1> QED
  BY <1>2, <1>3, <1>4 DEF Batch

LEMMA SingleInv ==
    ASSUME IInv, NEW r \in Requests, Single(r)
    PROVE  IInv'
<1>1. /\ UNCHANGED <<file, cache, aged>> /\ req[r].pc = "single" /\ req[r] \in Request
      /\ req[r].next \in 1..Functions /\ req[r].found \in SUBSET (1..Functions)
  BY AllAllowed DEF Single, At, Allowed, Request
<1> DEFINE n == req[r].next
<1>2. CASE Fail(r, "login")
  BY <1>1, <1>2, FailInv
<1>3. ASSUME NEW more \in {{}, {n}},
             req' = [req EXCEPT ![r].found = @ \cup more, ![r].next = n + 1,
                                ![r].pc = IF n = Functions THEN "store" ELSE @]
      PROVE  IInv'
  <2> DEFINE pc == IF n = Functions THEN "store" ELSE "single"
             found == req[r].found \cup more
  <2>1. req' = [req EXCEPT ![r].pc = pc, ![r].found = found, ![r].next = n + 1]
    BY <1>1, <1>3 DEF IInv, TypeOK, Request
  <2>2. n + 1 \in 1..Functions + 1 /\ (pc = "single" => n + 1 \in 1..Functions)
        /\ found \in SUBSET (1..Functions) /\ pc \in {"store", "single"}
    BY <1>1, CacheAssumption
  <2> HIDE DEF pc, found, n
  <2> QED
    BY <1>1, <2>1, <2>2, CacheFacts, MoveInv DEF Places, Working
<1> QED
  BY <1>2, <1>3 DEF Single

LEMMA StoreInv ==
    ASSUME IInv, NEW r \in Requests, Store(r)
    PROVE  IInv'
<1> DEFINE by == req[r].ident
           fns == req[r].found
<1>1. file' = file /\ by \in Identities /\ fns \in SUBSET (1..Functions)
  BY AllAllowed DEF Store, At, Allowed, Request, Working
<1>2. CASE Names(by, fns) = {}
  BY <1>1, <1>2, FailInv DEF Store
<1>3. CASE Names(by, fns) # {}
  <2>1. Return(r, by, fns) /\ cache' = Stored(by, by, fns) /\ aged' = 0
    BY <1>3 DEF Store, StoreKey
  <2> DEFINE e == [key |-> by, by |-> by, found |-> fns]
  <2>2. e \in CacheEntry /\ e.key = by /\ Own(e)
    BY <1>1, <1>3 DEF CacheEntry, Own
  <2>3. cache' = Append(Room(Pruned, by), e)
    BY <2>1 DEF Stored
  <2> HIDE DEF e
  <2>4. Sound(cache')
    BY <2>2, <2>3, PrunedSound, StoredSound
  <2> QED
    BY <1>1, <1>3, <2>1, <2>4, ReturnInv
<1> QED
  BY <1>2, <1>3

LEMMA RereadInv ==
    ASSUME IInv, NEW r \in Requests, Reread(r)
    PROVE  IInv'
<1>1. UNCHANGED <<file, cache, aged>>
  BY DEF Reread
<1>2. CASE Knowing(r) # {}
  BY <1>1, <1>2, ResolveAllowed DEF Reread
<1>3. CASE Knowing(r) = {}
  BY <1>1, <1>3, FailInv DEF Reread
<1> QED
  BY <1>2, <1>3

LEMMA StartInv ==
    ASSUME IInv, NEW r \in Requests, Start(r)
    PROVE  IInv'
<1> DEFINE q == [req[r] EXCEPT !.started = TRUE, !.stage = "late", !.pc = "check",
                               !.route = NoRoute]
<1>1. Allowed(req[r]) /\ req[r].pc = "start" /\ UNCHANGED <<file, cache, aged>>
  BY AllAllowed DEF Start, At
<1>2. q \in Request /\ q.pc = "check" /\ q.route = NoRoute /\ q.listed = req[r].listed
      /\ q.ident = req[r].ident
  BY <1>1, NoRouteType DEF Allowed, Request, Places, Stages
<1>3. Allowed(q)
  BY <1>1, <1>2, NoRouteType DEF Allowed, Working
<1>4. req' = [req EXCEPT ![r] = q]
  BY DEF Start, IInv, TypeOK
<1> HIDE DEF q
<1> QED
  BY <1>1, <1>3, <1>4, CacheFacts, RequestStep

LEMMA StepInv ==
    ASSUME IInv, [Next]_vars
    PROVE  IInv'
<1>1. CASE Ages
  <2>1. aged' \in 0..Len(cache') /\ UNCHANGED <<file, cache, req>>
    BY <1>1, CacheFacts DEF Ages
  <2> QED
    BY <2>1 DEF IInv, TypeOK, RequestInv, Sound
<1>2. CASE Rotate
  <2>1. file' \in Identities \cup {"none"} /\ UNCHANGED <<cache, aged, req>>
    BY <1>2 DEF Rotate
  <2> QED
    BY <2>1 DEF IInv, TypeOK, RequestInv
<1>3. CASE UNCHANGED vars
  BY <1>3 DEF vars, IInv, TypeOK, RequestInv
<1>4. ASSUME NEW r \in Requests, GivenUp(r)
      PROVE  IInv'
  BY <1>4, FailInv DEF GivenUp
<1> QED
  BY <1>1, <1>2, <1>3, <1>4, ArriveInv, CheckInv, LookInv, BatchInv, SingleInv, StoreInv,
     RereadInv, StartInv DEF Next

LEMMA Inductive == Spec => []IInv
BY InitInv, StepInv, PTL DEF Spec

-------------------------------------------------------------------------------
(* The theorems *)

\* Requests, cache and routes keep their types: in particular every cached list is of
\* the account whose key it has, and every number in a route is a natural one.
THEOREM TypeCorrect == Spec => []TypeOK
<1>1. IInv => TypeOK
  BY DEF IInv
<1> QED
  BY <1>1, Inductive, PTL

\* Whoever shares the cache and whatever becomes of the file, a request is shown, and
\* sent by, what upstream has listed for the credential it uses.
THEOREM RoutesOwn == Spec => []OwnRoutes
<1>1. IInv => OwnRoutes
  BY DEF IInv, RequestInv, OwnRoutes
<1> QED
  BY <1>1, Inductive, PTL

\* The cache stays within its capacity and has one list at most for a key, whoever
\* stores at the same time.
THEOREM CacheStaysBounded == Spec => []CacheBounded
<1>1. IInv => CacheBounded
  BY DEF IInv, Sound, KeysDiffer, CacheBounded
<1> QED
  BY <1>1, Inductive, PTL

\* Whatever configurations upstream lists, and however many functions answered: a name
\* reaches the model that has it, and the name of a larger variant the base with a
\* larger window, by a function that lists the base.
THEOREM NamesAlwaysReach == Spec => []NamesReach
<1>1. ASSUME IInv, NEW k \in DOMAIN cache, NEW n \in Names(cache[k].by, cache[k].found)
      PROVE  Reaches(cache[k].by, cache[k].found, n)
  BY <1>1, CacheFacts, RouteIs DEF CacheEntry
<1>2. IInv => NamesReach
  BY <1>1 DEF NamesReach, Reaches
<1> QED
  BY <1>2, Inductive, PTL

LEMMA TokensIs ==
    ASSUME NEW to \in RouteRecord, NEW given \in Nat
    PROVE  LET n == Tokens(given, to) IN
           /\ given > 0 => n \in 1..given
           /\ to.most > 0 /\ n > 0 => n <= to.most
           /\ to.window > 0 => PromptTokens(given, to) \in 0..to.window
<1>1. to.most \in Nat /\ to.window \in Nat
  BY DEF RouteRecord
<1> QED
  BY <1>1 DEF Tokens, PromptTokens, Least

\* Whatever the client asks for and the model allows: max_tokens is at least one and at
\* most what was asked for, within the model's limit, and together with the prompt's
\* budget within the window.
THEOREM BudgetAlwaysFits == Spec => []BudgetFits
<1>1. ASSUME IInv, NEW r \in Requests
      PROVE  req[r].route \in RouteRecord
  BY <1>1 DEF IInv, TypeOK, Request
<1>2. IInv => BudgetFits
  BY <1>1, TokensIs, CacheAssumption DEF BudgetFits
<1> QED
  BY <1>2, Inductive, PTL
===============================================================================
