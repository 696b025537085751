--------------------------- MODULE TeardownProofs ---------------------------
(***************************************************************************)
(* What holds of `down` and `destroy` for any file, any world and any      *)
(* flags, whatever the runtime refuses or will not say and whoever takes a *)
(* name meanwhile: they remove what is the project's, tell what they could *)
(* not, and leave what is another's.                                       *)
(***************************************************************************)
EXTENDS Teardown, FiniteSetTheorems, TLAPS

-----------------------------------------------------------------------------
(* Sequences of tasks.                                                     *)

LEMMA JoinedIs ==
  ASSUME NEW S, NEW a \in Seq(S), NEW b \in Seq(S)
  PROVE  a \o b \in Seq(S) /\ ToSet(a \o b) = ToSet(a) \cup ToSet(b)
<1>1. a \o b \in Seq(S) /\ Len(a \o b) = Len(a) + Len(b) /\ Len(a) \in Nat /\ Len(b) \in Nat
      /\ DOMAIN a = 1..Len(a) /\ DOMAIN b = 1..Len(b) /\ DOMAIN (a \o b) = 1..(Len(a) + Len(b))
  OBVIOUS
<1>2. \A i \in 1..Len(a) : (a \o b)[i] = a[i] /\ i \in DOMAIN (a \o b)
  BY <1>1
<1>3. \A i \in 1..Len(b) : (a \o b)[i + Len(a)] = b[i] /\ i + Len(a) \in DOMAIN (a \o b)
  BY <1>1
<1>4. \A i \in DOMAIN (a \o b) : (a \o b)[i] \in ToSet(a) \cup ToSet(b)
  <2> TAKE i \in DOMAIN (a \o b)
  <2>1. CASE i <= Len(a)
    BY <1>1, <1>2, <2>1 DEF ToSet
  <2>2. CASE i > Len(a)
    <3>1. i - Len(a) \in 1..Len(b) /\ (i - Len(a)) + Len(a) = i
      BY <1>1, <2>2
    <3> QED BY <1>1, <1>3, <3>1 DEF ToSet
  <2> QED BY <1>1, <2>1, <2>2
<1>5. ToSet(a) \cup ToSet(b) \subseteq ToSet(a \o b)
  BY <1>1, <1>2, <1>3 DEF ToSet
<1> QED BY <1>1, <1>4, <1>5 DEF ToSet

LEMMA BeheadedIs ==
  ASSUME NEW S, NEW a \in Seq(S), a # <<>>
  PROVE  /\ Tail(a) \in Seq(S) /\ Head(a) \in S
         /\ ToSet(a) = {Head(a)} \cup ToSet(Tail(a))
<1>1. /\ Tail(a) \in Seq(S) /\ Len(Tail(a)) = Len(a) - 1 /\ Len(a) \in Nat /\ Len(a) > 0
      /\ Head(a) = a[1] /\ DOMAIN a = 1..Len(a) /\ DOMAIN Tail(a) = 1..(Len(a) - 1)
      /\ \A i \in 1..(Len(a) - 1) : Tail(a)[i] = a[i + 1]
  OBVIOUS
<1>2. \A i \in DOMAIN a : a[i] \in {Head(a)} \cup ToSet(Tail(a))
  <2> TAKE i \in DOMAIN a
  <2>1. CASE i = 1
    BY <1>1, <2>1
  <2>2. CASE i # 1
    <3>1. i - 1 \in 1..(Len(a) - 1) /\ (i - 1) + 1 = i
      BY <1>1, <2>2
    <3>2. Tail(a)[i - 1] = a[(i - 1) + 1]
      BY <1>1, <3>1
    <3> QED BY <1>1, <3>1, <3>2 DEF ToSet
  <2> QED BY <2>1, <2>2
<1>3. {Head(a)} \cup ToSet(Tail(a)) \subseteq ToSet(a)
  BY <1>1 DEF ToSet
<1> QED BY <1>1, <1>2, <1>3 DEF ToSet

LEMMA InNameIs ==
  ASSUME NEW S, IsFiniteSet(S)
  PROVE  InName(S) \in Seq(S) /\ ToSet(InName(S)) = S
<1> DEFINE C == Cardinality(S)
<1>1. C \in Nat /\ ExistsBijection(1..C, S)
  BY FS_CardinalityType
<1>2. \E f \in [1..C -> S] : IsInjective(f)
  BY <1>1 DEF ExistsBijection, Bijection, Injection
<1>3. InName(S) \in [1..C -> S] /\ IsInjective(InName(S))
  BY <1>2 DEF InName, SetToSeq
<1>4. InName(S) \in Injection(1..C, S)
  BY <1>3 DEF Injection
<1>5. IsFiniteSet(1..C) /\ Cardinality(1..C) = C
  BY <1>1, FS_Interval
<1>6. InName(S) \in Surjection(1..C, S)
  BY <1>4, <1>5, FS_Injection
<1>7. ToSet(InName(S)) = S
  BY <1>3, <1>6 DEF Surjection, ToSet
<1> QED BY <1>1, <1>3, <1>7

LEMMA EachIs ==
  ASSUME NEW do, NEW kind, NEW N, NEW names \in Seq(N), NEW S,
         \A n \in N : Task(do, kind, n) \in S
  PROVE  /\ Each(do, kind, names) \in Seq(S)
         /\ ToSet(Each(do, kind, names)) = {Task(do, kind, n) : n \in ToSet(names)}
<1>1. DOMAIN names = 1..Len(names) /\ Len(names) \in Nat /\ \A i \in 1..Len(names) : names[i] \in N
  OBVIOUS
<1>2. Each(do, kind, names) \in [1..Len(names) -> S]
  BY <1>1 DEF Each
<1> QED BY <1>1, <1>2 DEF Each, ToSet

LEMMA ContainerTasksAre ==
  ASSUME NEW do, NEW order \in Seq(Services), NEW S,
         \A s \in Services : Task(do, "container", Name(s)) \in S /\ Task(do, "container", RunName(s)) \in S
  PROVE  /\ ContainerTasks(do, order) \in Seq(S)
         /\ ToSet(ContainerTasks(do, order)) =
              UNION {{Task(do, "container", Name(s)), Task(do, "container", RunName(s))} : s \in ToSet(order)}
<1> DEFINE T == ContainerTasks(do, order)
<1>1. Len(order) \in Nat /\ DOMAIN order = 1..Len(order) /\ \A k \in 1..Len(order) : order[k] \in Services
  OBVIOUS
<1>2. \A i \in 1..(2 * Len(order)) : (i + 1) \div 2 \in 1..Len(order)
  BY <1>1
<1>3. /\ DOMAIN T = 1..(2 * Len(order))
      /\ \A i \in 1..(2 * Len(order)) :
           T[i] = IF i % 2 = 1 THEN Task(do, "container", Name(order[(i + 1) \div 2]))
                               ELSE Task(do, "container", RunName(order[(i + 1) \div 2]))
  BY DEF ContainerTasks
<1>4. \A i \in 1..(2 * Len(order)) : T[i] \in S
  BY <1>1, <1>2, <1>3
<1>5. T \in Seq(S)
  <2>1. T \in [1..(2 * Len(order)) -> S]
    BY <1>4 DEF ContainerTasks
  <2>2. 2 * Len(order) \in Nat
    BY <1>1
  <2> QED BY <2>1, <2>2
<1>6. ToSet(T) \subseteq UNION {{Task(do, "container", Name(s)), Task(do, "container", RunName(s))} : s \in ToSet(order)}
  BY <1>1, <1>2, <1>3, SMTT(60) DEF ToSet
<1>7. ASSUME NEW k \in 1..Len(order)
      PROVE  Task(do, "container", Name(order[k])) \in ToSet(T) /\ Task(do, "container", RunName(order[k])) \in ToSet(T)
  <2>1. /\ 2 * k - 1 \in 1..(2 * Len(order)) /\ (2 * k - 1) % 2 = 1 /\ ((2 * k - 1) + 1) \div 2 = k
        /\ 2 * k \in 1..(2 * Len(order)) /\ (2 * k) % 2 # 1 /\ (2 * k + 1) \div 2 = k
    BY <1>1, <1>7
  <2> QED BY <1>3, <2>1 DEF ToSet
<1>8. UNION {{Task(do, "container", Name(s)), Task(do, "container", RunName(s))} : s \in ToSet(order)} \subseteq ToSet(T)
  BY <1>1, <1>7 DEF ToSet
<1> QED BY <1>5, <1>6, <1>8

LEMMA ReversedIs ==
  ASSUME NEW S, NEW a \in Seq(S)
  PROVE  Reverse(a) \in Seq(S) /\ ToSet(Reverse(a)) = ToSet(a)
<1>1. Len(a) \in Nat /\ DOMAIN a = 1..Len(a)
  OBVIOUS
<1>2. Reverse(a) \in [1..Len(a) -> S] /\ \A i \in 1..Len(a) : Reverse(a)[i] = a[(Len(a) - i) + 1]
  BY <1>1 DEF Reverse
<1>3. \A i \in 1..Len(a) : (Len(a) - i) + 1 \in 1..Len(a) /\ (Len(a) - ((Len(a) - i) + 1)) + 1 = i
  BY <1>1
<1>4. \A i \in 1..Len(a) : Reverse(a)[(Len(a) - i) + 1] = a[i]
  BY <1>2, <1>3
<1>5. DOMAIN Reverse(a) = 1..Len(a)
  BY <1>2
<1>6. ASSUME NEW x \in ToSet(Reverse(a))
      PROVE  x \in ToSet(a)
  <2>1. PICK i \in 1..Len(a) : x = Reverse(a)[i]
    BY ONLY <1>5, <1>6 DEF ToSet
  <2>2. x = a[(Len(a) - i) + 1] /\ (Len(a) - i) + 1 \in DOMAIN a
    BY ONLY <2>1, <1>1, <1>2, <1>3
  <2> QED BY ONLY <2>2 DEF ToSet
<1>7. ASSUME NEW x \in ToSet(a)
      PROVE  x \in ToSet(Reverse(a))
  <2>1. PICK i \in 1..Len(a) : x = a[i]
    BY ONLY <1>1, <1>7 DEF ToSet
  <2>2. x = Reverse(a)[(Len(a) - i) + 1] /\ (Len(a) - i) + 1 \in DOMAIN Reverse(a)
    BY ONLY <2>1, <1>3, <1>4, <1>5
  <2> QED BY ONLY <2>2 DEF ToSet
<1> QED BY <1>1, <1>2, <1>6, <1>7

-----------------------------------------------------------------------------
(* What there is, and what a task may be about.                            *)

Paths == UNION {DOMAIN w.disk : w \in Worlds}

ThingSet == Things("container", Names) \cup Things("network", NetNames)
            \cup Things("volume", NamedVolumes) \cup Things("image", ImageNames)
            \cup Things("path", Paths)

TaskSet == {Task("ask", "container", n) : n \in Names}
           \cup [do : {"drop", "check", "plan"}, thing : ThingSet]
           \cup {Task("images", "service", s) : s \in Services}
           \cup {Task(d, "", None) : d \in {"begin", "orphans", "networks", "planOrphans",
                                             "planNetworks", "prompt"}}

\* A thing there may be, named by its kind.
OnShelf(x) ==
  \/ \E n \in Names : x = Thing("container", n)
  \/ \E n \in DOMAIN net : x = Thing("network", n)
  \/ \E v : x = Thing("volume", v)
  \/ \E i \in DOMAIN img : x = Thing("image", i)
  \/ \E p \in DOMAIN disk : x = Thing("path", p)

TdTypeOK ==
  /\ before \in Worlds
  /\ todo \in Seq(TaskSet) /\ shown \in Seq(ThingSet)
  /\ box \in [Names -> {"nobody", "ours", "other", "bare"}]
  /\ net \in [DOMAIN before.net -> {"none", "ours", "others"}]
  /\ DOMAIN img = DOMAIN before.img
  /\ \A i \in DOMAIN img : DOMAIN img[i] = {"there", "labels"} /\ img[i].there \in BOOLEAN
  /\ DOMAIN disk = Paths
  /\ hands \in Seq(Names)

\* What there is now, next to what there was: things go, and names change hands.
AsBefore ==
  /\ \A n \in Names : box[n] = before.box[n] \/ box[n] = "nobody"
                        \/ (n \in ToSet(hands) /\ box[n] = "other")
  /\ \A n \in DOMAIN net : net[n] = before.net[n] \/ net[n] = "none"
  /\ vol \subseteq before.vol
  /\ \A i \in DOMAIN img : /\ img[i].labels = before.img[i].labels
                           /\ img[i].there => before.img[i].there
  /\ \A p \in Paths : disk[p] = before.disk[p] \/ disk[p] = "none"

LEMMA GoneIs ==
  /\ \A n : Gone(Thing("container", n)) <=> box[n] = "nobody"
  /\ \A n : Gone(Thing("network", n)) <=> net[n] = "none"
  /\ \A v : Gone(Thing("volume", v)) <=> v \notin vol
  /\ \A i : Gone(Thing("image", i)) <=> ~img[i].there
  /\ \A p : Gone(Thing("path", p)) <=> disk[p] = "none"
BY DEF Gone, Thing

LEMMA GoneWillBe ==
  /\ \A n : Gone(Thing("container", n))' <=> box'[n] = "nobody"
  /\ \A n : Gone(Thing("network", n))' <=> net'[n] = "none"
  /\ \A v : Gone(Thing("volume", v))' <=> v \notin vol'
  /\ \A i : Gone(Thing("image", i))' <=> ~img'[i].there
  /\ \A p : Gone(Thing("path", p))' <=> disk'[p] = "none"
BY DEF Gone, Thing

LEMMA ThingsDiffer ==
  /\ \A k, l, x, y : Thing(k, x) = Thing(l, y) <=> k = l /\ x = y
  /\ \A k, x : Thing(k, x).kind = k /\ Thing(k, x).on = x
BY DEF Thing

LEMMA TaskIs ==
  \A d, k, x : Task(d, k, x).do = d /\ Task(d, k, x).thing = Thing(k, x)
BY DEF Task

LEMMA PathsAre == ASSUME NEW w \in Worlds PROVE DOMAIN w.disk = Paths
<1>1. \A v \in Worlds : DOMAIN w.disk = DOMAIN v.disk
  BY TeardownAssumption
<1> QED BY <1>1 DEF Paths

LEMMA ThingSetOnShelf ==
  ASSUME TdTypeOK, NEW x \in ThingSet
  PROVE  OnShelf(x)
<1>1. NetNames \subseteq DOMAIN net /\ ImageNames \subseteq DOMAIN img /\ Paths = DOMAIN disk
  BY TeardownAssumption DEF TdTypeOK
<1> QED BY <1>1 DEF ThingSet, Things, OnShelf

LEMMA SparedOnShelf == ASSUME TdTypeOK, NEW x \in Spared PROVE OnShelf(x)
BY DEF Spared, Things, OnShelf

\* A removal takes its thing, and nothing else.
LEMMA RemovedIs ==
  ASSUME TdTypeOK, NEW t, OnShelf(t), Removed(t), NEW x, OnShelf(x)
  PROVE  Gone(x)' <=> Gone(x) \/ x = t
<1>1. CASE \E n \in Names : t = Thing("container", n)
  <2>1. PICK n \in Names : t = Thing("container", n)
    BY <1>1
  <2>2. box' = [box EXCEPT ![n] = "nobody"] /\ net' = net /\ vol' = vol /\ img' = img /\ disk' = disk
    <3>1. t.kind = "container" /\ t.on = n
      BY <2>1, ThingsDiffer
    <3> QED BY <3>1 DEF Removed
  <2> QED BY <2>1, <2>2, ThingsDiffer, GoneIs, GoneWillBe DEF OnShelf, TdTypeOK
<1>2. CASE \E n \in DOMAIN net : t = Thing("network", n)
  <2>1. PICK n \in DOMAIN net : t = Thing("network", n)
    BY <1>2
  <2>2. net' = [net EXCEPT ![n] = "none"] /\ box' = box /\ vol' = vol /\ img' = img /\ disk' = disk
    <3>1. t.kind = "network" /\ t.on = n
      BY <2>1, ThingsDiffer
    <3> QED BY <3>1 DEF Removed
  <2> QED BY <2>1, <2>2, ThingsDiffer, GoneIs, GoneWillBe DEF OnShelf, TdTypeOK
<1>3. CASE \E v : t = Thing("volume", v)
  <2>1. PICK v : t = Thing("volume", v)
    BY <1>3
  <2>2. vol' = vol \ {v} /\ net' = net /\ box' = box /\ img' = img /\ disk' = disk
    <3>1. t.kind = "volume" /\ t.on = v
      BY <2>1, ThingsDiffer
    <3> QED BY <3>1 DEF Removed
  <2> QED BY <2>1, <2>2, ThingsDiffer, GoneIs, GoneWillBe DEF OnShelf, TdTypeOK
<1>4. CASE \E i \in DOMAIN img : t = Thing("image", i)
  <2>1. PICK i \in DOMAIN img : t = Thing("image", i)
    BY <1>4
  <2>2. img' = [img EXCEPT ![i].there = FALSE] /\ net' = net /\ box' = box /\ vol' = vol /\ disk' = disk
    <3>1. t.kind = "image" /\ t.on = i
      BY <2>1, ThingsDiffer
    <3> QED BY <3>1 DEF Removed
  <2>3. \A j \in DOMAIN img : img'[j].there <=> img[j].there /\ j # i
    BY <2>2 DEF TdTypeOK
  <2> QED BY <2>1, <2>2, <2>3, ThingsDiffer, GoneIs, GoneWillBe DEF OnShelf
<1>5. CASE \E p \in DOMAIN disk : t = Thing("path", p)
  <2>1. PICK p \in DOMAIN disk : t = Thing("path", p)
    BY <1>5
  <2>2. disk' = [disk EXCEPT ![p] = "none"] /\ net' = net /\ box' = box /\ vol' = vol /\ img' = img
    <3>1. t.kind = "path" /\ t.on = p
      BY <2>1, ThingsDiffer
    <3> QED BY <3>1 DEF Removed
  <2> QED BY <2>1, <2>2, ThingsDiffer, GoneIs, GoneWillBe DEF OnShelf, TdTypeOK
<1> QED BY <1>1, <1>2, <1>3, <1>4, <1>5 DEF OnShelf

-----------------------------------------------------------------------------
(* Containers come before what they hold.                                  *)

OfContainers(t) == t.do \in {"ask", "orphans"} \/ (t.do = "drop" /\ t.thing.kind = "container")
Ranked(s) == \A i, j \in DOMAIN s : i < j /\ OfContainers(s[j]) => OfContainers(s[i])

LEMMA RankedJoined ==
  ASSUME NEW S, NEW a \in Seq(S), NEW b \in Seq(S), Ranked(a), Ranked(b),
         (\A t \in ToSet(a) : OfContainers(t)) \/ (\A t \in ToSet(b) : ~OfContainers(t))
  PROVE  Ranked(a \o b)
<1> DEFINE c == a \o b
<1>1. /\ DOMAIN c = 1..(Len(a) + Len(b)) /\ Len(a) \in Nat /\ Len(b) \in Nat
      /\ DOMAIN a = 1..Len(a) /\ DOMAIN b = 1..Len(b)
      /\ \A i \in 1..Len(a) : c[i] = a[i]
      /\ \A i \in (Len(a) + 1)..(Len(a) + Len(b)) : i - Len(a) \in 1..Len(b) /\ c[i] = b[i - Len(a)]
  OBVIOUS
<1> HIDE DEF c
<1>2. \A i \in DOMAIN a : a[i] \in ToSet(a)
  BY DEF ToSet
<1>3. \A i \in DOMAIN b : b[i] \in ToSet(b)
  BY DEF ToSet
<1>4. ASSUME NEW i \in DOMAIN c, NEW j \in DOMAIN c, i < j, OfContainers(c[j])
      PROVE  OfContainers(c[i])
  <2>1. CASE j <= Len(a)
    <3>1. i \in DOMAIN a /\ j \in DOMAIN a /\ c[i] = a[i] /\ c[j] = a[j]
      BY <1>1, <1>4, <2>1
    <3> QED BY <1>4, <3>1 DEF Ranked
  <2>2. CASE j > Len(a)
    <3>1. j - Len(a) \in DOMAIN b /\ c[j] = b[j - Len(a)]
      BY <1>1, <2>2
    <3>2. \A t \in ToSet(a) : OfContainers(t)
      BY <1>3, <1>4, <3>1
    <3>3. CASE i <= Len(a)
      <4>1. i \in DOMAIN a /\ c[i] = a[i]
        BY <1>1, <3>3
      <4> QED BY <1>2, <3>2, <4>1
    <3>4. CASE i > Len(a)
      <4>1. i - Len(a) \in DOMAIN b /\ c[i] = b[i - Len(a)] /\ i - Len(a) < j - Len(a)
        BY <1>1, <1>4, <3>4
      <4> QED BY <1>4, <3>1, <4>1 DEF Ranked
    <3> QED BY <1>1, <3>3, <3>4
  <2> QED BY <1>1, <2>1, <2>2
<1> QED BY <1>4 DEF Ranked, c

LEMMA RankedTail ==
  ASSUME NEW S, NEW a \in Seq(S), a # <<>>, Ranked(a)
  PROVE  /\ Ranked(Tail(a))
         /\ ~OfContainers(Head(a)) => \A t \in ToSet(a) : ~OfContainers(t)
<1>1. /\ Len(Tail(a)) = Len(a) - 1 /\ Len(a) \in Nat /\ Len(a) > 0
      /\ Head(a) = a[1] /\ DOMAIN a = 1..Len(a) /\ DOMAIN Tail(a) = 1..(Len(a) - 1)
      /\ \A i \in 1..(Len(a) - 1) : Tail(a)[i] = a[i + 1]
  OBVIOUS
<1>2. ASSUME NEW i \in DOMAIN Tail(a), NEW j \in DOMAIN Tail(a), i < j, OfContainers(Tail(a)[j])
      PROVE  OfContainers(Tail(a)[i])
  <2>1. i + 1 \in DOMAIN a /\ j + 1 \in DOMAIN a /\ i + 1 < j + 1
        /\ Tail(a)[i] = a[i + 1] /\ Tail(a)[j] = a[j + 1]
    BY <1>1, <1>2
  <2> QED BY <1>2, <2>1 DEF Ranked
<1>3. ASSUME ~OfContainers(Head(a)), NEW j \in DOMAIN a PROVE ~OfContainers(a[j])
  <2>1. 1 \in DOMAIN a /\ (j = 1 \/ 1 < j)
    BY <1>1
  <2> QED BY <1>1, <1>3, <2>1 DEF Ranked
<1> QED BY <1>2, <1>3 DEF Ranked, ToSet

\* Tasks all of one kind are in order.
LEMMA RankedAlike ==
  ASSUME NEW a, (\A t \in ToSet(a) : OfContainers(t)) \/ (\A t \in ToSet(a) : ~OfContainers(t))
  PROVE  Ranked(a)
BY DEF Ranked, ToSet

-----------------------------------------------------------------------------
(* The lists of tasks the commands make.                                   *)

LEMMA FoundAreNames ==
  \A s \in Services : \A all, there, labels, unread : ImagesToRemove(s, all, there, labels, unread) \subseteq ImageNames
<1> TAKE s \in Services
<1> TAKE all, there, labels, unread
<1>1. \A r \in ImagesToRemove(s, all, there, labels, unread) :
        (r = ServiceImage(s) \/ r = FormerBuiltImage(s)) /\ r # None
  BY DEF ImagesToRemove
<1>2. {ServiceImage(s), FormerBuiltImage(s)} \ {None} \subseteq ImageNames
  BY DEF ImageNames
<1> QED BY <1>1, <1>2

LEMMA Finite ==
  /\ IsFiniteSet(NamedVolumes) /\ IsFiniteSet(ImageNames) /\ IsFiniteSet(Declared \ {DefaultNet})
  /\ \A nets, unread : IsFiniteSet(NamedNetworks(nets, unread))
  /\ \A boxes : IsFiniteSet(Orphans(boxes))
  /\ \A s \in Services : \A all, there, labels, unread : IsFiniteSet(ImagesToRemove(s, all, there, labels, unread))
<1>2. /\ Declared \ {DefaultNet} \subseteq NetNames
      /\ \A nets, unread : NamedNetworks(nets, unread) \subseteq NetNames
      /\ \A boxes : Orphans(boxes) \subseteq Names
  BY DEF NetNames, NamedNetworks, Orphans
<1> QED BY FoundAreNames, <1>2, TeardownAssumption, FS_Subset

\* The kinds of task a `down` and a plan are made of.
DownAsked ==
  {Task("ask", "container", n) : n \in Expected}
  \cup (IF command.orphans THEN {Task("orphans", "", None)} ELSE {})
  \cup {Task("networks", "", None)}
  \cup (IF command.volumes THEN {Task("drop", "volume", v) : v \in NamedVolumes} ELSE {})
  \cup (IF command.rmi = "no" THEN {} ELSE {Task("images", "service", s) : s \in Services})

LEMMA TasksInSet ==
  /\ \A n \in Names : Task("ask", "container", n) \in TaskSet
  /\ \A d \in {"drop", "check", "plan"}, x \in ThingSet : [do |-> d, thing |-> x] \in TaskSet
  /\ \A n \in Names : Thing("container", n) \in ThingSet
  /\ \A n \in NetNames : Thing("network", n) \in ThingSet
  /\ \A v \in NamedVolumes : Thing("volume", v) \in ThingSet
  /\ \A i \in ImageNames : Thing("image", i) \in ThingSet
  /\ \A p \in Paths : Thing("path", p) \in ThingSet
  /\ \A s \in Services : Task("images", "service", s) \in TaskSet
  /\ \A d \in {"begin", "orphans", "networks", "planOrphans", "planNetworks", "prompt"} :
       Task(d, "", None) \in TaskSet
  /\ \A d, k, x : Task(d, k, x) = [do |-> d, thing |-> Thing(k, x)]
BY DEF TaskSet, ThingSet, Things, Task

LEMMA ExpectedNames ==
  /\ Expected \subseteq Names
  /\ \A s \in Services : Name(s) \in Expected /\ RunName(s) \in Expected
  /\ \A n \in Expected : \E s \in Services : n = Name(s) \/ n = RunName(s)
BY DEF Expected, Names, Name, RunName

LEMMA OneTaskIs ==
  ASSUME NEW S, NEW t \in S
  PROVE  <<t>> \in Seq(S) /\ ToSet(<<t>>) = {t}
BY DEF ToSet

LEMMA TwoTasksAre ==
  ASSUME NEW S, NEW t \in S, NEW u \in S
  PROVE  <<t, u>> \in Seq(S) /\ ToSet(<<t, u>>) = {t, u}
<1>1. DOMAIN <<t, u>> = 1..2 /\ <<t, u>>[1] = t /\ <<t, u>>[2] = u /\ <<t, u>> \in Seq(S)
  OBVIOUS
<1>2. 1..2 = {1, 2}
  OBVIOUS
<1> QED BY <1>1, <1>2 DEF ToSet

LEMMA NoTaskIs == \A S : <<>> \in Seq(S) /\ ToSet(<<>>) = {}
BY DEF ToSet

LEMMA OrderIs == Order \in Seq(Services) /\ ToSet(Order) = Services
BY TeardownAssumption DEF Services

LEMMA DownTasksAre == DownTasks \in Seq(TaskSet) /\ ToSet(DownTasks) = DownAsked /\ Ranked(DownTasks)
<1> DEFINE A == ContainerTasks("ask", Reverse(Order))
           V == IF command.volumes THEN Each("drop", "volume", InName(NamedVolumes)) ELSE <<>>
           I == IF command.rmi = "no" THEN <<>> ELSE [i \in DOMAIN Order |-> Task("images", "service", Order[i])]
<1>1. A \in Seq(TaskSet) /\ ToSet(A) = {Task("ask", "container", n) : n \in Expected}
  <2>1. Reverse(Order) \in Seq(Services) /\ ToSet(Reverse(Order)) = Services
    BY OrderIs, ReversedIs
  <2>2. \A s \in Services : Task("ask", "container", Name(s)) \in TaskSet /\ Task("ask", "container", RunName(s)) \in TaskSet
    BY TasksInSet, ExpectedNames
  <2>3. A \in Seq(TaskSet) /\ ToSet(A) =
          UNION {{Task("ask", "container", Name(s)), Task("ask", "container", RunName(s))} : s \in Services}
    BY <2>1, <2>2, ContainerTasksAre
  <2>4. UNION {{Task("ask", "container", Name(s)), Task("ask", "container", RunName(s))} : s \in Services}
          = {Task("ask", "container", n) : n \in Expected}
    BY ExpectedNames
  <2> QED BY <2>3, <2>4
<1>2. OrphanTasks \in Seq(TaskSet)
      /\ ToSet(OrphanTasks) = IF command.orphans THEN {Task("orphans", "", None)} ELSE {}
  BY OneTaskIs, NoTaskIs, TasksInSet DEF OrphanTasks
<1>3. NetworkTasks \in Seq(TaskSet) /\ ToSet(NetworkTasks) = {Task("networks", "", None)}
  BY OneTaskIs, TasksInSet DEF NetworkTasks
<1>4. V \in Seq(TaskSet)
      /\ ToSet(V) = IF command.volumes THEN {Task("drop", "volume", v) : v \in NamedVolumes} ELSE {}
  <2>1. InName(NamedVolumes) \in Seq(NamedVolumes) /\ ToSet(InName(NamedVolumes)) = NamedVolumes
    BY Finite, InNameIs
  <2>2. \A v \in NamedVolumes : Task("drop", "volume", v) \in TaskSet
    BY TasksInSet
  <2>3. Each("drop", "volume", InName(NamedVolumes)) \in Seq(TaskSet)
        /\ ToSet(Each("drop", "volume", InName(NamedVolumes))) = {Task("drop", "volume", v) : v \in NamedVolumes}
    BY <2>1, <2>2, EachIs
  <2> QED BY <2>3, NoTaskIs
<1>5. I \in Seq(TaskSet)
      /\ ToSet(I) = IF command.rmi = "no" THEN {} ELSE {Task("images", "service", s) : s \in Services}
  <2>1. [i \in DOMAIN Order |-> Task("images", "service", Order[i])] = Each("images", "service", Order)
    BY DEF Each
  <2>2. \A s \in Services : Task("images", "service", s) \in TaskSet
    BY TasksInSet
  <2>3. Each("images", "service", Order) \in Seq(TaskSet)
        /\ ToSet(Each("images", "service", Order)) = {Task("images", "service", s) : s \in ToSet(Order)}
    BY <2>2, OrderIs, EachIs
  <2> QED BY <2>1, <2>3, NoTaskIs, OrderIs
<1> HIDE DEF A, V, I
<1>6. /\ \A t \in ToSet(A) \cup ToSet(OrphanTasks) : OfContainers(t)
      /\ \A t \in ToSet(NetworkTasks) \cup ToSet(V) \cup ToSet(I) : ~OfContainers(t)
  <2>1. /\ \A n : OfContainers(Task("ask", "container", n)) /\ OfContainers(Task("orphans", "", None))
        /\ ~OfContainers(Task("networks", "", None))
        /\ \A v : ~OfContainers(Task("drop", "volume", v))
        /\ \A s : ~OfContainers(Task("images", "service", s))
    BY DEF OfContainers, Task, Thing
  <2>2. \A t \in ToSet(A) : OfContainers(t)
    BY <1>1, <2>1
  <2>3. \A t \in ToSet(OrphanTasks) : OfContainers(t)
    BY <1>2, <2>1
  <2>4. \A t \in ToSet(NetworkTasks) : ~OfContainers(t)
    BY <1>3, <2>1
  <2>5. \A t \in ToSet(V) : ~OfContainers(t)
    BY <1>4, <2>1
  <2>6. \A t \in ToSet(I) : ~OfContainers(t)
    BY <1>5, <2>1
  <2> QED BY <2>2, <2>3, <2>4, <2>5, <2>6
<1> DEFINE B == A \o OrphanTasks
           C == B \o NetworkTasks
           D == V \o I
<1>7. DownTasks = C \o D
  BY DEF DownTasks, StoreTasks, A, V, I
<1>8. B \in Seq(TaskSet) /\ ToSet(B) = ToSet(A) \cup ToSet(OrphanTasks)
  <2>1. A \in Seq(TaskSet) /\ OrphanTasks \in Seq(TaskSet)
    BY <1>1, <1>2
  <2> QED BY ONLY <2>1, JoinedIs DEF B
<1> HIDE DEF B
<1>9. C \in Seq(TaskSet) /\ ToSet(C) = ToSet(B) \cup ToSet(NetworkTasks)
  <2>1. B \in Seq(TaskSet) /\ NetworkTasks \in Seq(TaskSet)
    BY <1>3, <1>8
  <2> QED BY ONLY <2>1, JoinedIs DEF C
<1> HIDE DEF C
<1>10. D \in Seq(TaskSet) /\ ToSet(D) = ToSet(V) \cup ToSet(I)
  <2>1. V \in Seq(TaskSet) /\ I \in Seq(TaskSet)
    BY <1>4, <1>5
  <2> QED BY ONLY <2>1, JoinedIs DEF D
<1> HIDE DEF D
<1>11. C \o D \in Seq(TaskSet) /\ ToSet(C \o D) = ToSet(C) \cup ToSet(D)
  BY <1>9, <1>10, JoinedIs
<1>12. Ranked(B) /\ Ranked(NetworkTasks) /\ Ranked(D)
  <2>1. (\A t \in ToSet(B) : OfContainers(t)) /\ (\A t \in ToSet(D) : ~OfContainers(t))
    BY <1>6, <1>8, <1>10
  <2> HIDE DEF B, D
  <2> QED BY <1>6, <2>1, RankedAlike
<1>13. Ranked(C)
  <2>1. \A t \in ToSet(NetworkTasks) : ~OfContainers(t)
    BY <1>6
  <2>2. B \in Seq(TaskSet) /\ NetworkTasks \in Seq(TaskSet)
    BY <1>3, <1>8
  <2> QED BY ONLY <1>12, <2>1, <2>2, RankedJoined DEF C
<1>14. Ranked(C \o D)
  <2>1. \A t \in ToSet(D) : ~OfContainers(t)
    BY <1>6, <1>10
  <2>2. C \in Seq(TaskSet) /\ D \in Seq(TaskSet)
    BY <1>9, <1>10
  <2> QED BY ONLY <1>12, <1>13, <2>1, <2>2, RankedJoined
<1>15. ToSet(C \o D) = DownAsked
  BY <1>1, <1>2, <1>3, <1>4, <1>5, <1>8, <1>9, <1>10, <1>11 DEF DownAsked
<1> QED BY <1>7, <1>11, <1>14, <1>15, <1>9, <1>10

PlanAsked ==
  {Task("plan", "container", n) : n \in Expected}
  \cup {Task(d, "", None) : d \in {"planOrphans", "planNetworks", "prompt"}}
  \cup {Task("plan", "volume", v) : v \in NamedVolumes}
  \cup {Task("plan", "image", i) : i \in ImageNames}
  \cup {Task("plan", "path", p) : p \in PathsToRemove(disk, command.keepLocal, command.keepOverlay)}

LEMMA PlanTasksAre ==
  ASSUME TdTypeOK
  PROVE  PlanTasks \in Seq(TaskSet) /\ ToSet(PlanTasks) \subseteq PlanAsked
<1> DEFINE P == PathsToRemove(disk, command.keepLocal, command.keepOverlay)
           A == ContainerTasks("plan", Order)
           B == <<Task("planOrphans", "", None), Task("planNetworks", "", None)>>
           V == Each("plan", "volume", InName(NamedVolumes))
           I == IF command.keepImages THEN <<>> ELSE Each("plan", "image", InName(ImageNames))
           D == Each("plan", "path", InName(P))
           E == <<Task("prompt", "", None)>>
<1>1. A \in Seq(TaskSet) /\ ToSet(A) \subseteq PlanAsked
  <2>1. \A s \in Services : Task("plan", "container", Name(s)) \in TaskSet /\ Task("plan", "container", RunName(s)) \in TaskSet
    BY TasksInSet, ExpectedNames
  <2>2. A \in Seq(TaskSet) /\ ToSet(A) =
          UNION {{Task("plan", "container", Name(s)), Task("plan", "container", RunName(s))} : s \in Services}
    BY <2>1, OrderIs, ContainerTasksAre
  <2> QED BY <2>2, ExpectedNames, ZenonT(60) DEF PlanAsked
<1>2. B \in Seq(TaskSet) /\ ToSet(B) \subseteq PlanAsked
  <2>1. /\ Task("planOrphans", "", None) \in TaskSet /\ Task("planOrphans", "", None) \in PlanAsked
        /\ Task("planNetworks", "", None) \in TaskSet /\ Task("planNetworks", "", None) \in PlanAsked
    BY TasksInSet DEF PlanAsked
  <2> DEFINE p == Task("planOrphans", "", None)
             q == Task("planNetworks", "", None)
  <2>2. p \in TaskSet /\ q \in TaskSet /\ p \in PlanAsked /\ q \in PlanAsked
    BY <2>1
  <2> HIDE DEF p, q
  <2>3. <<p, q>> \in Seq(TaskSet) /\ ToSet(<<p, q>>) = {p, q}
    BY ONLY <2>2, TwoTasksAre
  <2>4. B = <<p, q>>
    BY DEF p, q
  <2> QED BY <2>2, <2>3, <2>4
<1>3. V \in Seq(TaskSet) /\ ToSet(V) \subseteq PlanAsked
  <2>1. InName(NamedVolumes) \in Seq(NamedVolumes) /\ ToSet(InName(NamedVolumes)) = NamedVolumes
    BY Finite, InNameIs
  <2>2. \A v \in NamedVolumes : Task("plan", "volume", v) \in TaskSet
    BY TasksInSet
  <2>3. V \in Seq(TaskSet) /\ ToSet(V) = {Task("plan", "volume", v) : v \in NamedVolumes}
    BY <2>1, <2>2, EachIs
  <2> QED BY <2>3 DEF PlanAsked
<1>4. I \in Seq(TaskSet) /\ ToSet(I) \subseteq PlanAsked
  <2>1. InName(ImageNames) \in Seq(ImageNames) /\ ToSet(InName(ImageNames)) = ImageNames
    BY Finite, InNameIs
  <2>2. \A i \in ImageNames : Task("plan", "image", i) \in TaskSet
    BY TasksInSet
  <2>3. Each("plan", "image", InName(ImageNames)) \in Seq(TaskSet)
        /\ ToSet(Each("plan", "image", InName(ImageNames))) = {Task("plan", "image", i) : i \in ImageNames}
    BY <2>1, <2>2, EachIs
  <2>4. CASE command.keepImages
    BY <2>4, NoTaskIs
  <2>5. CASE ~command.keepImages
    BY <2>3, <2>5 DEF PlanAsked
  <2> QED BY <2>4, <2>5
<1>5. D \in Seq(TaskSet) /\ ToSet(D) \subseteq PlanAsked
  <2>1. IsFiniteSet(P) /\ P \subseteq Paths
    <3>1. DOMAIN disk = Paths /\ IsFiniteSet(Paths)
      BY PathsAre, TeardownAssumption DEF TdTypeOK
    <3>2. P \subseteq DOMAIN disk
      BY DEF PathsToRemove
    <3> QED BY <3>1, <3>2, FS_Subset
  <2>2. InName(P) \in Seq(P) /\ ToSet(InName(P)) = P
    BY <2>1, InNameIs
  <2>3. \A p \in P : Task("plan", "path", p) \in TaskSet
    BY <2>1, TasksInSet
  <2> HIDE DEF P
  <2>4. D \in Seq(TaskSet) /\ ToSet(D) = {Task("plan", "path", p) : p \in P}
    BY <2>2, <2>3, EachIs
  <2> QED BY <2>4 DEF PlanAsked, P
<1>6. E \in Seq(TaskSet) /\ ToSet(E) \subseteq PlanAsked
  <2>1. Task("prompt", "", None) \in TaskSet /\ Task("prompt", "", None) \in PlanAsked
    BY TasksInSet DEF PlanAsked
  <2> DEFINE p == Task("prompt", "", None)
  <2> HIDE DEF p
  <2>2. <<p>> \in Seq(TaskSet) /\ ToSet(<<p>>) = {p}
    BY <2>1, OneTaskIs DEF p
  <2> QED BY <2>1, <2>2 DEF p
<1>7. PlanTasks = ((((A \o B) \o V) \o I) \o D) \o E
  BY DEF PlanTasks
<1> HIDE DEF A, B, V, I, D, E
<1>8. ASSUME NEW x \in Seq(TaskSet), ToSet(x) \subseteq PlanAsked,
             NEW y \in Seq(TaskSet), ToSet(y) \subseteq PlanAsked
      PROVE  x \o y \in Seq(TaskSet) /\ ToSet(x \o y) \subseteq PlanAsked
  BY <1>8, JoinedIs
<1>9. (A \o B) \in Seq(TaskSet) /\ ToSet(A \o B) \subseteq PlanAsked
  BY <1>1, <1>2, <1>8
<1>10. ((A \o B) \o V) \in Seq(TaskSet) /\ ToSet((A \o B) \o V) \subseteq PlanAsked
  BY <1>9, <1>3, <1>8
<1>11. (((A \o B) \o V) \o I) \in Seq(TaskSet) /\ ToSet(((A \o B) \o V) \o I) \subseteq PlanAsked
  BY <1>10, <1>4, <1>8
<1>12. ((((A \o B) \o V) \o I) \o D) \in Seq(TaskSet) /\ ToSet((((A \o B) \o V) \o I) \o D) \subseteq PlanAsked
  BY <1>11, <1>5, <1>8
<1>13. (((((A \o B) \o V) \o I) \o D) \o E) \in Seq(TaskSet)
       /\ ToSet(((((A \o B) \o V) \o I) \o D) \o E) \subseteq PlanAsked
  BY <1>12, <1>6, <1>8
<1> QED BY <1>7, <1>13

-----------------------------------------------------------------------------
(* What each step does to the list.                                        *)

\* The first task goes and those in `put` come in its place.
TakesOn(put) ==
  /\ todo # <<>> /\ todo' \in Seq(TaskSet)
  /\ ToSet(todo') = put \cup ToSet(Tail(todo))
  /\ ToSet(todo) = {Head(todo)} \cup ToSet(Tail(todo)) /\ Head(todo) \in TaskSet
  /\ /\ Ranked(todo)
     /\ (\A t \in put : OfContainers(t)) \/ (\A t \in put \cup {Head(todo)} : ~OfContainers(t))
     => Ranked(todo')

LEMMA DoneIs ==
  ASSUME todo \in Seq(TaskSet), todo # <<>>, NEW more \in Seq(TaskSet), Done(more)
  PROVE  TakesOn(ToSet(more))
<1> DEFINE rest == Tail(todo)
<1>1. rest \in Seq(TaskSet) /\ Head(todo) \in TaskSet /\ ToSet(todo) = {Head(todo)} \cup ToSet(rest)
  BY BeheadedIs
<1>2. todo' = more \o rest
  BY DEF Done
<1>3. Ranked(todo) => Ranked(rest) /\ (~OfContainers(Head(todo)) => \A t \in ToSet(todo) : ~OfContainers(t))
  BY RankedTail
<1> HIDE DEF rest
<1>4. todo' \in Seq(TaskSet) /\ ToSet(todo') = ToSet(more) \cup ToSet(rest)
  BY <1>1, <1>2, JoinedIs
<1>5. ASSUME Ranked(todo), \A t \in ToSet(more) : ~OfContainers(t), ~OfContainers(Head(todo))
      PROVE  Ranked(todo')
  <2>1. \A t \in ToSet(rest) : ~OfContainers(t)
    BY <1>1, <1>3, <1>5
  <2>2. \A t \in ToSet(todo') : ~OfContainers(t)
    BY <1>4, <1>5, <2>1
  <2> QED BY <2>2, RankedAlike
<1>6. ASSUME Ranked(todo), \A t \in ToSet(more) : OfContainers(t)
      PROVE  Ranked(todo')
  <2>1. Ranked(more)
    BY <1>6, RankedAlike
  <2> QED BY <1>1, <1>2, <1>3, <1>6, <2>1, RankedJoined
<1> QED BY <1>1, <1>3, <1>4, <1>5, <1>6 DEF TakesOn, rest

\* A task, told by what it does.
LEMMA TasksByDo ==
  ASSUME NEW t \in TaskSet
  PROVE  /\ t.do = "ask" => \E n \in Names : t = Task("ask", "container", n)
         /\ t.do \in {"drop", "check", "plan"} => t.thing \in ThingSet
         /\ t.do = "images" => \E s \in Services : t = Task("images", "service", s)
         /\ t.do \notin {"ask", "drop", "check", "plan", "images"} =>
              /\ t.do \in {"begin", "orphans", "networks", "planOrphans", "planNetworks", "prompt"}
              /\ t = Task(t.do, "", None)
<1>1. CASE t \in {Task("ask", "container", n) : n \in Names}
  <2>1. PICK n \in Names : t = Task("ask", "container", n)
    BY <1>1
  <2>2. t.do = "ask"
    BY <2>1, TaskIs
  <2> QED BY <2>1, <2>2
<1>2. CASE t \in [do : {"drop", "check", "plan"}, thing : ThingSet]
  <2>1. t.do \in {"drop", "check", "plan"} /\ t.thing \in ThingSet
    BY <1>2
  <2> QED BY <2>1
<1>3. CASE t \in {Task("images", "service", s) : s \in Services}
  <2>1. PICK s \in Services : t = Task("images", "service", s)
    BY <1>3
  <2>2. t.do = "images"
    BY <2>1, TaskIs
  <2> QED BY <2>1, <2>2
<1>4. CASE t \in {Task(d, "", None) : d \in {"begin", "orphans", "networks", "planOrphans",
                                             "planNetworks", "prompt"}}
  <2>1. PICK d \in {"begin", "orphans", "networks", "planOrphans", "planNetworks", "prompt"} :
          t = Task(d, "", None)
    BY <1>4
  <2>2. t.do = d
    BY <2>1, TaskIs
  <2> QED BY <2>1, <2>2
<1> QED BY <1>1, <1>2, <1>3, <1>4 DEF TaskSet

LEMMA WiderSeq ==
  ASSUME NEW S, NEW T, S \subseteq T, NEW a \in Seq(S)
  PROVE  a \in Seq(T)
OBVIOUS

\* The lists the looks make.
LEMMA EachOf ==
  ASSUME NEW do \in {"drop", "plan"}, NEW kind, NEW S, IsFiniteSet(S),
         \A n \in S : Thing(kind, n) \in ThingSet
  PROVE  /\ Each(do, kind, InName(S)) \in Seq(TaskSet)
         /\ ToSet(Each(do, kind, InName(S))) = {Task(do, kind, n) : n \in S}
<1>1. InName(S) \in Seq(S) /\ ToSet(InName(S)) = S
  BY InNameIs
<1>2. \A n \in S : Task(do, kind, n) \in TaskSet
  BY TasksInSet
<1> QED BY <1>1, <1>2, EachIs

NetsOf(nets, unread) == {DefaultNet} \cup Declared \cup NamedNetworks(nets, unread)

LEMMA NetsAre ==
  ASSUME NEW nets, NEW unread
  PROVE  /\ ProjectNetworks(nets, unread) \in Seq(NetNames)
         /\ ToSet(ProjectNetworks(nets, unread)) = NetsOf(nets, unread)
<1> DEFINE D == InName(Declared \ {DefaultNet})
           N == InName(NamedNetworks(nets, unread))
           O == <<DefaultNet>>
<1>1. D \in Seq(NetNames) /\ ToSet(D) = Declared \ {DefaultNet}
  <2>1. D \in Seq(Declared \ {DefaultNet}) /\ ToSet(D) = Declared \ {DefaultNet}
    BY Finite, InNameIs
  <2>2. Declared \ {DefaultNet} \subseteq NetNames
    BY DEF NetNames
  <2> QED BY ONLY <2>1, <2>2, WiderSeq
<1>2. N \in Seq(NetNames) /\ ToSet(N) = NamedNetworks(nets, unread)
  <2>1. N \in Seq(NamedNetworks(nets, unread)) /\ ToSet(N) = NamedNetworks(nets, unread)
    BY Finite, InNameIs
  <2>2. NamedNetworks(nets, unread) \subseteq NetNames
    BY DEF NetNames, NamedNetworks
  <2> QED BY <2>1, <2>2
<1>3. O \in Seq(NetNames) /\ ToSet(O) = {DefaultNet}
  <2>1. DefaultNet \in NetNames
    BY DEF NetNames
  <2> QED BY <2>1, OneTaskIs
<1>4. ProjectNetworks(nets, unread) = (O \o D) \o N
  BY DEF ProjectNetworks
<1> HIDE DEF O, D, N
<1>5. (O \o D) \in Seq(NetNames) /\ ToSet(O \o D) = ToSet(O) \cup ToSet(D)
  BY <1>1, <1>3, JoinedIs
<1>6. ((O \o D) \o N) \in Seq(NetNames) /\ ToSet((O \o D) \o N) = ToSet(O \o D) \cup ToSet(N)
  <2>1. (O \o D) \in Seq(NetNames) /\ N \in Seq(NetNames)
    BY <1>2, <1>5
  <2> QED BY ONLY <2>1, JoinedIs, ZenonT(60)
<1> QED BY <1>1, <1>2, <1>3, <1>4, <1>5, <1>6 DEF NetsOf

LEMMA NetworkTasksAre ==
  ASSUME NEW do \in {"drop", "plan"}, NEW nets, NEW unread
  PROVE  /\ Each(do, "network", ProjectNetworks(nets, unread)) \in Seq(TaskSet)
         /\ ToSet(Each(do, "network", ProjectNetworks(nets, unread)))
              = {Task(do, "network", n) : n \in NetsOf(nets, unread)}
<1>1. \A n \in NetNames : Task(do, "network", n) \in TaskSet
  BY TasksInSet
<1> QED BY <1>1, NetsAre, EachIs

\* What a look at a service's images finds.
There == {i \in DOMAIN img : img[i].there}
Labels == [i \in DOMAIN img |-> img[i].labels]
FoundImages(s, unread) == ImagesToRemove(s, command.rmi = "all", There, Labels, unread)

\* The steps but the first, the prompt and Hand, each with the tasks it puts in.
LEMMA AsksPuts ==
  ASSUME TdTypeOK, Asks
  PROVE  /\ This.kind = "container" /\ This.on \in Names /\ Head(todo).do = "ask"
         /\ This = Thing("container", This.on)
         /\ \/ /\ MayTake(box[This.on]) /\ TakesOn({Task("drop", "container", This.on)})
               /\ said' = said
            \/ /\ ~MayTake(box[This.on]) /\ TakesOn({}) /\ said' = said
            \/ TakesOn({}) /\ said' = said \cup {This}
<1>1. todo \in Seq(TaskSet) /\ todo # <<>> /\ Head(todo) \in TaskSet /\ Head(todo).do = "ask"
  BY BeheadedIs DEF TdTypeOK, Asks, Pending
<1>2. PICK n \in Names : Head(todo) = Task("ask", "container", n)
  BY <1>1, TasksByDo
<1>3. This = Thing("container", n) /\ This.kind = "container" /\ This.on = n
  BY <1>2, TaskIs, ThingsDiffer DEF This
<1>4. ASSUME Done(<<>>) PROVE TakesOn({})
  BY <1>1, <1>4, DoneIs, NoTaskIs
<1>5. ASSUME Done(<<Task("drop", "container", n)>>) PROVE TakesOn({Task("drop", "container", n)})
  <2> DEFINE t == Task("drop", "container", n)
  <2>1. t \in TaskSet
    BY TasksInSet
  <2> HIDE DEF t
  <2>2. <<t>> \in Seq(TaskSet) /\ ToSet(<<t>>) = {t}
    BY <2>1, OneTaskIs
  <2>3. Done(<<t>>) => TakesOn(ToSet(<<t>>))
    BY <1>1, <2>2, DoneIs
  <2> QED BY <1>5, <2>2, <2>3 DEF t
<1>6. \/ MayTake(box[n]) /\ Done(<<Task("drop", "container", n)>>) /\ said' = said
      \/ ~MayTake(box[n]) /\ Done(<<>>) /\ said' = said
      \/ Done(<<>>) /\ said' = said \cup {This}
  BY <1>3 DEF Asks
<1> QED BY <1>1, <1>3, <1>4, <1>5, <1>6

LEMMA OrphansPut ==
  ASSUME TdTypeOK, ListsOrphans
  PROVE  /\ Head(todo) = Task("orphans", "", None)
         /\ \/ TakesOn({Task("drop", "container", n) : n \in Orphans(box)}) /\ deaf' = deaf
            \/ TakesOn({}) /\ deaf' = deaf \cup {Thing("container", n) : n \in Names \ Expected}
<1>1. todo \in Seq(TaskSet) /\ todo # <<>> /\ Head(todo) \in TaskSet /\ Head(todo).do = "orphans"
  BY BeheadedIs DEF TdTypeOK, ListsOrphans, Pending
<1>2. Head(todo) = Task("orphans", "", None)
  BY <1>1, TasksByDo
<1>3. ASSUME Done(<<>>) PROVE TakesOn({})
  BY <1>1, <1>3, DoneIs, NoTaskIs
<1>4. ASSUME Done(Each("drop", "container", InName(Orphans(box))))
      PROVE  TakesOn({Task("drop", "container", n) : n \in Orphans(box)})
  <2>1. IsFiniteSet(Orphans(box)) /\ \A n \in Orphans(box) : Thing("container", n) \in ThingSet
    BY Finite, TasksInSet DEF Orphans
  <2>2. /\ Each("drop", "container", InName(Orphans(box))) \in Seq(TaskSet)
        /\ ToSet(Each("drop", "container", InName(Orphans(box)))) = {Task("drop", "container", n) : n \in Orphans(box)}
    BY <2>1, EachOf
  <2>3. TakesOn(ToSet(Each("drop", "container", InName(Orphans(box)))))
    BY <1>1, <1>4, <2>2, DoneIs
  <2> QED BY <2>2, <2>3
<1> QED BY <1>2, <1>3, <1>4 DEF ListsOrphans

LEMMA NetworksPut ==
  ASSUME TdTypeOK, NEW do \in {"drop", "plan"}, NEW unread, todo # <<>>,
         Done(Each(do, "network", ProjectNetworks(net, unread)))
  PROVE  TakesOn({Task(do, "network", n) : n \in NetsOf(net, unread)})
<1>1. TakesOn(ToSet(Each(do, "network", ProjectNetworks(net, unread))))
  BY NetworkTasksAre, DoneIs DEF TdTypeOK
<1> QED BY <1>1, NetworkTasksAre

LEMMA ImagesPut ==
  ASSUME TdTypeOK, LooksAtImages
  PROVE  \E s \in Services, unread \in SUBSET ({ServiceImage(This.on), FormerBuiltImage(This.on)} \cap There) :
           /\ Head(todo) = Task("images", "service", s) /\ This.on = s
           /\ deaf' = deaf \cup {Thing("image", i) : i \in unread}
           /\ TakesOn({Task("drop", "image", i) : i \in FoundImages(s, unread)})
<1>1. todo \in Seq(TaskSet) /\ todo # <<>> /\ Head(todo) \in TaskSet /\ Head(todo).do = "images"
  BY BeheadedIs DEF TdTypeOK, LooksAtImages, Pending
<1>2. PICK s \in Services : Head(todo) = Task("images", "service", s)
  BY <1>1, TasksByDo
<1>3. This.on = s
  BY <1>2, TaskIs, ThingsDiffer DEF This
<1>4. PICK unread \in SUBSET ({ServiceImage(This.on), FormerBuiltImage(This.on)} \cap There) :
        /\ deaf' = deaf \cup {Thing("image", i) : i \in unread}
        /\ Done(Each("drop", "image", InName(FoundImages(This.on, unread))))
  BY DEF LooksAtImages, FoundImages, There, Labels
<1>5. IsFiniteSet(FoundImages(s, unread)) /\ \A i \in FoundImages(s, unread) : Thing("image", i) \in ThingSet
  BY FoundAreNames, Finite, TasksInSet DEF FoundImages
<1>6. /\ Each("drop", "image", InName(FoundImages(s, unread))) \in Seq(TaskSet)
      /\ ToSet(Each("drop", "image", InName(FoundImages(s, unread)))) = {Task("drop", "image", i) : i \in FoundImages(s, unread)}
  BY <1>5, EachOf
<1>7. TakesOn(ToSet(Each("drop", "image", InName(FoundImages(s, unread)))))
  BY <1>1, <1>3, <1>4, <1>6, DoneIs
<1> QED BY <1>2, <1>3, <1>4, <1>6, <1>7

LEMMA NextTask ==
  ASSUME TdTypeOK, todo # <<>>, Done(<<>>)
  PROVE  TakesOn({})
BY DoneIs, NoTaskIs DEF TdTypeOK

LEMMA ShownTasksAre ==
  ASSUME TdTypeOK, NEW d \in {"drop", "check"}
  PROVE  /\ [i \in DOMAIN shown |-> [do |-> d, thing |-> shown[i]]] \in Seq(TaskSet)
         /\ ToSet([i \in DOMAIN shown |-> [do |-> d, thing |-> shown[i]]])
              = {[do |-> d, thing |-> shown[i]] : i \in DOMAIN shown}
<1>1. Len(shown) \in Nat /\ DOMAIN shown = 1..Len(shown) /\ \A i \in 1..Len(shown) : shown[i] \in ThingSet
  BY DEF TdTypeOK
<1>2. \A i \in 1..Len(shown) : [do |-> d, thing |-> shown[i]] \in TaskSet
  BY <1>1, TasksInSet
<1>3. [i \in DOMAIN shown |-> [do |-> d, thing |-> shown[i]]] \in [1..Len(shown) -> TaskSet]
  BY <1>1, <1>2
<1> QED BY <1>1, <1>3 DEF ToSet

LEMMA PromptMakes ==
  ASSUME TdTypeOK, Prompts
  PROVE  /\ todo' \in Seq(TaskSet) /\ Head(todo) \in ToSet(todo) /\ Head(todo).do = "prompt"
         /\ \/ ToSet(todo') = {} /\ todo' = <<>> /\ agreed' = agreed
            \/ /\ agreed' = TRUE
               /\ ToSet(todo') = {[do |-> "drop", thing |-> shown[i]] : i \in DOMAIN shown}
                                 \cup {[do |-> "check", thing |-> shown[i]] : i \in DOMAIN shown}
<1>1. Head(todo) \in ToSet(todo) /\ Head(todo).do = "prompt"
  BY BeheadedIs DEF TdTypeOK, Prompts, Pending
<1>2. CASE todo' = <<>> /\ UNCHANGED agreed
  BY <1>1, <1>2, NoTaskIs
<1> DEFINE D == [i \in DOMAIN shown |-> [do |-> "drop", thing |-> shown[i]]]
           C == [i \in DOMAIN shown |-> [do |-> "check", thing |-> shown[i]]]
<1>3. CASE agreed' = TRUE /\ todo' = D \o C
  <2>1. /\ D \in Seq(TaskSet) /\ ToSet(D) = {[do |-> "drop", thing |-> shown[i]] : i \in DOMAIN shown}
        /\ C \in Seq(TaskSet) /\ ToSet(C) = {[do |-> "check", thing |-> shown[i]] : i \in DOMAIN shown}
    BY ShownTasksAre
  <2> HIDE DEF D, C
  <2>2. D \o C \in Seq(TaskSet) /\ ToSet(D \o C) = ToSet(D) \cup ToSet(C)
    BY <2>1, JoinedIs
  <2> QED BY <1>1, <1>3, <2>1, <2>2
<1> QED BY <1>2, <1>3 DEF Prompts

-----------------------------------------------------------------------------
(* Types, and what there is beside what there was.                         *)

\* What nobody but Hand and a removal touches.
WorldTyped ==
  /\ before \in Worlds
  /\ box \in [Names -> {"nobody", "ours", "other", "bare"}]
  /\ net \in [DOMAIN before.net -> {"none", "ours", "others"}]
  /\ DOMAIN img = DOMAIN before.img
  /\ \A i \in DOMAIN img : DOMAIN img[i] = {"there", "labels"} /\ img[i].there \in BOOLEAN
  /\ DOMAIN disk = Paths
  /\ hands \in Seq(Names)

LEMMA TypesAre == TdTypeOK <=> WorldTyped /\ todo \in Seq(TaskSet) /\ shown \in Seq(ThingSet)
BY DEF TdTypeOK, WorldTyped

LEMMA TypesWillBe ==
  TdTypeOK' <=> WorldTyped' /\ todo' \in Seq(TaskSet) /\ shown' \in Seq(ThingSet)
BY DEF TdTypeOK, WorldTyped

LEMMA WorldStays == WorldTyped /\ AsBefore /\ UNCHANGED <<tdWorld, before, hands>> => WorldTyped' /\ AsBefore'
BY ZenonT(60) DEF WorldTyped, AsBefore, tdWorld

LEMMA WorldInit ==
  ASSUME TeardownInit
  PROVE  WorldTyped /\ AsBefore
<1>1. PICK w \in Worlds : /\ box = w.box /\ net = w.net /\ vol = w.vol /\ img = w.img /\ disk = w.disk
                          /\ before = w
  BY DEF TeardownInit
<1>2. /\ w.box \in [Names -> {"nobody", "ours", "other", "bare"}]
      /\ w.net \in [DOMAIN w.net -> {"none", "ours", "others"}]
      /\ \A i \in DOMAIN w.img : DOMAIN w.img[i] = {"there", "labels"} /\ w.img[i].there \in BOOLEAN
      /\ DOMAIN w.disk = Paths
  BY TeardownAssumption, PathsAre
<1>3. hands \in Seq(Names)
  BY NoTaskIs DEF TeardownInit
<1> QED BY <1>1, <1>2, <1>3 DEF WorldTyped, AsBefore

LEMMA WorldRemoved ==
  ASSUME WorldTyped, AsBefore, NEW x, OnShelf(x), Removed(x), UNCHANGED <<before, hands>>
  PROVE  WorldTyped' /\ AsBefore'
<1>0. /\ x.kind = "container" => x.on \in Names
      /\ x.kind = "network" => x.on \in DOMAIN net
      /\ x.kind = "image" => x.on \in DOMAIN img
      /\ x.kind = "path" => x.on \in DOMAIN disk
  BY ThingsDiffer DEF OnShelf
<1>1. box' = box \/ \E n \in Names : box' = [box EXCEPT ![n] = "nobody"]
  BY <1>0 DEF Removed
<1>2. net' = net \/ \E n \in DOMAIN net : net' = [net EXCEPT ![n] = "none"]
  BY <1>0 DEF Removed
<1>3. vol' \subseteq vol
  BY DEF Removed
<1>4. img' = img \/ \E i \in DOMAIN img : img' = [img EXCEPT ![i].there = FALSE]
  BY <1>0 DEF Removed
<1>5. disk' = disk \/ \E p \in DOMAIN disk : disk' = [disk EXCEPT ![p] = "none"]
  BY <1>0 DEF Removed
<1>6. box' \in [Names -> {"nobody", "ours", "other", "bare"}]
      /\ \A n \in Names : box'[n] = box[n] \/ box'[n] = "nobody"
  BY <1>1 DEF WorldTyped
<1>7. net' \in [DOMAIN before.net -> {"none", "ours", "others"}]
      /\ \A n \in DOMAIN net : net'[n] = net[n] \/ net'[n] = "none"
  BY <1>2 DEF WorldTyped
<1>8. DOMAIN img' = DOMAIN img
      /\ \A i \in DOMAIN img : /\ DOMAIN img'[i] = {"there", "labels"} /\ img'[i].there \in BOOLEAN
                               /\ img'[i].labels = img[i].labels /\ (img'[i].there => img[i].there)
  <2>1. CASE img' = img
    BY <2>1 DEF WorldTyped
  <2>2. ASSUME NEW i \in DOMAIN img, img' = [img EXCEPT ![i].there = FALSE] PROVE <1>8
    BY <2>2 DEF WorldTyped
  <2> QED BY <1>4, <2>1, <2>2
<1>9. DOMAIN disk' = DOMAIN disk /\ \A p \in DOMAIN disk : disk'[p] = disk[p] \/ disk'[p] = "none"
  BY <1>5
<1>10. WorldTyped'
  BY <1>6, <1>7, <1>8, <1>9 DEF WorldTyped
<1>11. AsBefore'
  <2>1. DOMAIN net' = DOMAIN net
    BY <1>7 DEF WorldTyped
  <2> QED BY <1>3, <1>6, <1>7, <1>8, <1>9, <2>1 DEF AsBefore, WorldTyped
<1> QED BY <1>10, <1>11

LEMMA WorldHand ==
  ASSUME WorldTyped, AsBefore, Hand
  PROVE  WorldTyped' /\ AsBefore' /\ ToSet(hands) \subseteq ToSet(hands')
<1>1. PICK n \in Names, owner \in {"nobody", "other"} :
        box' = [box EXCEPT ![n] = owner] /\ hands' = Append(hands, n)
  BY DEF Hand
<1>2. hands' \in Seq(Names) /\ ToSet(hands') = ToSet(hands) \cup {n}
  <2> DEFINE one == <<n>>
  <2>1. hands \in Seq(Names) /\ one \in Seq(Names) /\ ToSet(one) = {n}
    BY OneTaskIs DEF WorldTyped
  <2>2. hands' = hands \o one
    BY <1>1, <2>1
  <2> HIDE DEF one
  <2> QED BY <2>1, <2>2, JoinedIs
<1>3. box' \in [Names -> {"nobody", "ours", "other", "bare"}]
      /\ \A m \in Names : box'[m] = IF m = n THEN owner ELSE box[m]
  BY <1>1 DEF WorldTyped
<1>4. WorldTyped'
  BY <1>2, <1>3 DEF WorldTyped, Hand
<1>5. AsBefore'
  BY <1>2, <1>3 DEF AsBefore, Hand
<1> QED BY <1>2, <1>4, <1>5

\* What a deletion is of.
LEMMA DropsOne ==
  ASSUME TdTypeOK, Drops
  PROVE  /\ Head(todo) \in ToSet(todo) /\ Head(todo).do = "drop" /\ Head(todo).thing = This
         /\ This \in ThingSet /\ OnShelf(This) /\ TakesOn({})
<1>1. todo # <<>> /\ Head(todo).do = "drop" /\ Done(<<>>)
  BY DEF Drops, Pending
<1>2. Head(todo) \in TaskSet /\ Head(todo) \in ToSet(todo)
  BY <1>1, BeheadedIs DEF TdTypeOK
<1>3. This \in ThingSet /\ Head(todo).thing = This
  BY <1>1, <1>2, TasksByDo DEF This
<1> QED BY <1>1, <1>2, <1>3, ThingSetOnShelf, NextTask

LEMMA PlansOne ==
  ASSUME TdTypeOK, Plans
  PROVE  /\ Head(todo) \in ToSet(todo) /\ Head(todo).do = "plan" /\ Head(todo).thing = This
         /\ This \in ThingSet /\ TakesOn({})
         /\ \/ shown' = shown
            \/ /\ shown' = Append(shown, This)
               /\ This.kind = "container" => box[This.on] = "ours"
<1>1. todo # <<>> /\ Head(todo).do = "plan" /\ Done(<<>>)
  BY DEF Plans, Pending
<1>2. Head(todo) \in TaskSet /\ Head(todo) \in ToSet(todo)
  BY <1>1, BeheadedIs DEF TdTypeOK
<1>3. This \in ThingSet /\ Head(todo).thing = This
  BY <1>1, <1>2, TasksByDo DEF This
<1>4. \/ shown' = shown
      \/ /\ shown' = Append(shown, This)
         /\ This.kind = "container" => box[This.on] = "ours"
  BY DEF Plans
<1> QED BY <1>1, <1>2, <1>3, <1>4, NextTask

LEMMA OrphansPlanned ==
  ASSUME TdTypeOK, PlansOrphans
  PROVE  /\ TakesOn({}) /\ Head(todo).do = "planOrphans"
         /\ shown' \in Seq(ThingSet)
         /\ ToSet(shown') \subseteq ToSet(shown) \cup {Thing("container", n) : n \in Orphans(box)}
<1> DEFINE more == [i \in DOMAIN InName(Orphans(box)) |-> Thing("container", InName(Orphans(box))[i])]
<1>1. TakesOn({}) /\ Head(todo).do = "planOrphans"
  BY NextTask DEF PlansOrphans, Pending
<1>2. more \in Seq(ThingSet) /\ ToSet(more) = {Thing("container", n) : n \in Orphans(box)}
  <2>1. IsFiniteSet(Orphans(box)) /\ \A n \in Orphans(box) : Thing("container", n) \in ThingSet
    BY Finite, TasksInSet DEF Orphans
  <2> DEFINE q == InName(Orphans(box))
  <2>2. q \in Seq(Orphans(box)) /\ ToSet(q) = Orphans(box)
    BY <2>1, InNameIs
  <2> HIDE DEF q
  <2>3. DOMAIN q = 1..Len(q) /\ Len(q) \in Nat /\ \A i \in 1..Len(q) : q[i] \in Orphans(box)
    BY <2>2
  <2>4. [i \in DOMAIN q |-> Thing("container", q[i])] \in [1..Len(q) -> ThingSet]
    BY <2>1, <2>3
  <2>5. /\ [i \in DOMAIN q |-> Thing("container", q[i])] \in Seq(ThingSet)
        /\ ToSet([i \in DOMAIN q |-> Thing("container", q[i])]) = {Thing("container", n) : n \in ToSet(q)}
    BY <2>3, <2>4 DEF ToSet
  <2> QED BY <2>2, <2>5 DEF q
<1>3. shown' = shown \/ shown' = shown \o more
  BY DEF PlansOrphans
<1> HIDE DEF more
<1>4. shown \in Seq(ThingSet)
  BY DEF TdTypeOK
<1>5. shown \o more \in Seq(ThingSet) /\ ToSet(shown \o more) = ToSet(shown) \cup ToSet(more)
  BY <1>2, <1>4, JoinedIs
<1> QED BY <1>1, <1>2, <1>3, <1>4, <1>5

LEMMA ListsStay ==
  ASSUME TdTypeOK, NEW put, TakesOn(put), shown' = shown, WorldTyped'
  PROVE  TdTypeOK'
BY TypesWillBe DEF TakesOn, TdTypeOK

\* Types and the world, over any step.
LEMMA WorldStep ==
  ASSUME TdTypeOK, AsBefore, [TeardownNext]_tdVars
  PROVE  TdTypeOK' /\ AsBefore'
<1>0. WorldTyped
  BY TypesAre
<1>1. CASE Drops
  <2>1. WorldTyped' /\ AsBefore'
    BY <1>0, <1>1, DropsOne, WorldRemoved, WorldStays DEF Drops
  <2> QED BY <1>1, <2>1, DropsOne, ListsStay DEF Drops
<1>2. CASE Hand
  <2>1. WorldTyped' /\ AsBefore'
    BY <1>0, <1>2, WorldHand
  <2> QED BY <1>2, <2>1, TypesWillBe DEF Hand, TdTypeOK
<1>3. CASE Begins
  <2>1. WorldTyped' /\ AsBefore'
    BY <1>0, <1>3, WorldStays DEF Begins, tdSeen
  <2>2. todo' \in Seq(TaskSet)
    BY <1>3, DownTasksAre, PlanTasksAre DEF Begins
  <2> QED BY <1>3, <2>1, <2>2, TypesWillBe DEF Begins, TdTypeOK
<1>4. CASE Asks
  <2>1. WorldTyped' /\ AsBefore'
    BY <1>0, <1>4, WorldStays DEF Asks
  <2> QED BY <1>4, <2>1, AsksPuts, ListsStay DEF Asks
<1>5. CASE ListsOrphans
  <2>1. WorldTyped' /\ AsBefore'
    BY <1>0, <1>5, WorldStays DEF ListsOrphans
  <2> QED BY <1>5, <2>1, OrphansPut, ListsStay DEF ListsOrphans
<1>6. CASE ListsNetworks
  <2>1. WorldTyped' /\ AsBefore'
    BY <1>0, <1>6, WorldStays DEF ListsNetworks
  <2> QED BY <1>6, <2>1, NetworksPut, ListsStay DEF ListsNetworks, Pending
<1>7. CASE LooksAtImages
  <2>1. WorldTyped' /\ AsBefore'
    BY <1>0, <1>7, WorldStays DEF LooksAtImages
  <2> QED BY <1>7, <2>1, ImagesPut, ListsStay DEF LooksAtImages
<1>8. CASE Plans
  <2>1. WorldTyped' /\ AsBefore'
    BY <1>0, <1>8, WorldStays DEF Plans
  <2>2. shown' \in Seq(ThingSet)
    <3>1. shown \in Seq(ThingSet) /\ This \in ThingSet
      BY <1>8, PlansOne DEF TdTypeOK
    <3>2. Append(shown, This) \in Seq(ThingSet)
      BY <3>1
    <3> QED BY <1>8, <3>1, <3>2, PlansOne
  <2> QED BY <1>8, <2>1, <2>2, PlansOne, TypesWillBe DEF TakesOn
<1>9. CASE PlansOrphans
  <2>1. WorldTyped' /\ AsBefore'
    BY <1>0, <1>9, WorldStays DEF PlansOrphans
  <2> QED BY <1>9, <2>1, OrphansPlanned, TypesWillBe DEF TakesOn
<1>10. CASE PlansNetworks
  <2>1. WorldTyped' /\ AsBefore'
    BY <1>0, <1>10, WorldStays DEF PlansNetworks
  <2> QED BY <1>10, <2>1, NetworksPut, ListsStay DEF PlansNetworks, Pending
<1>11. CASE Prompts
  <2>1. WorldTyped' /\ AsBefore'
    BY <1>0, <1>11, WorldStays DEF Prompts, tdSeen
  <2> QED BY <1>11, <2>1, PromptMakes, TypesWillBe, Zenon DEF Prompts, TdTypeOK
<1>12. CASE Checks
  <2>1. WorldTyped' /\ AsBefore'
    BY <1>0, <1>12, WorldStays DEF Checks
  <2>2. TakesOn({})
    BY <1>12, NextTask DEF Checks, Pending
  <2> QED BY <1>12, <2>1, <2>2, ListsStay DEF Checks
<1>13. CASE UNCHANGED tdVars
  <2>1. WorldTyped' /\ AsBefore'
    BY <1>0, <1>13, WorldStays DEF tdVars, tdSeen
  <2> QED BY <1>13, <2>1, TypesWillBe DEF tdVars, TdTypeOK
<1> QED
  BY <1>1, <1>2, <1>3, <1>4, <1>5, <1>6, <1>7, <1>8, <1>9, <1>10, <1>11, <1>12, <1>13
     DEF TeardownNext

-----------------------------------------------------------------------------
(* What is history stays, and which tasks there are.                       *)

LEMMA HistoryStep ==
  ASSUME WorldTyped, AsBefore, [TeardownNext]_tdVars
  PROVE  /\ command' = command /\ before' = before /\ said \subseteq said'
         /\ stayed \subseteq stayed' /\ deaf \subseteq deaf' /\ ToSet(hands) \subseteq ToSet(hands')
         /\ agreed => agreed'
         /\ Hand \/ hands' = hands
<1>1. CASE Hand
  BY <1>1, WorldHand DEF Hand
<1>2. CASE Drops
  BY <1>2 DEF Drops
<1>3. CASE Prompts
  BY <1>3 DEF Prompts, tdSeen
<1>4. CASE Begins \/ ListsNetworks \/ PlansNetworks \/ LooksAtImages
  <2>1. CASE Begins
    BY <2>1 DEF Begins, tdSeen
  <2>2. CASE ListsNetworks \/ PlansNetworks
    BY <2>2 DEF ListsNetworks, PlansNetworks
  <2>3. CASE LooksAtImages
    BY <2>3 DEF LooksAtImages
  <2> QED BY <1>4, <2>1, <2>2, <2>3
<1>5. CASE Asks \/ ListsOrphans \/ Plans \/ PlansOrphans \/ Checks
  <2>1. CASE Asks \/ ListsOrphans
    BY <2>1 DEF Asks, ListsOrphans, Silent
  <2>2. CASE Plans \/ PlansOrphans
    BY <2>2 DEF Plans, PlansOrphans, Silent
  <2>3. CASE Checks
    BY <2>3 DEF Checks, Silent
  <2> QED BY <1>5, <2>1, <2>2, <2>3
<1>6. CASE UNCHANGED tdVars
  BY <1>6 DEF tdVars, tdSeen
<1> QED BY <1>1, <1>2, <1>3, <1>4, <1>5, <1>6 DEF TeardownNext

\* Nothing has been done yet.
Starting == todo = <<Task("begin", "", None)>>
DownDoes == {"ask", "orphans", "networks", "images", "drop"}
Kinds ==
  ~Starting =>
    /\ \A t \in ToSet(todo) : t.do # "begin"
    /\ command.verb = "down" => \A t \in ToSet(todo) : t.do \in DownDoes
    /\ agreed => \A t \in ToSet(todo) : t.do \in {"drop", "check"}

\* Until the command begins nothing has been said or shown.
Fresh == Starting => shown = <<>> /\ ~agreed

LEMMA NotStartingThen == ASSUME \A t \in ToSet(todo') : t.do # "begin" PROVE ~Starting'
<1> DEFINE b == Task("begin", "", None)
<1>1. b.do = "begin"
  BY TaskIs
<1>3. Starting' => todo' = <<b>>
  BY DEF Starting, Task, Thing, None
<1> HIDE DEF b
<1>2. b \in ToSet(<<b>>)
  BY OneTaskIs
<1> QED BY <1>1, <1>2, <1>3

LEMMA StartingBegins ==
  ASSUME Starting, [TeardownNext]_tdVars
  PROVE  Begins \/ UNCHANGED tdVars
<1> DEFINE b == Task("begin", "", None)
<1>1. todo = <<b>> /\ b.do = "begin"
  BY TaskIs DEF Starting
<1> HIDE DEF b
<1>2. todo # <<>> /\ Head(todo).do = "begin"
  BY <1>1
<1> QED BY <1>1, <1>2, Zenon
    DEF TeardownNext, Asks, ListsOrphans, ListsNetworks, LooksAtImages, Drops, Plans, PlansOrphans,
        PlansNetworks, Prompts, Checks, Hand, Pending

\* The tasks left over and those put in are of kinds the command has.
LEMMA KindsPut ==
  ASSUME TdTypeOK, Kinds, ~Starting, NEW put, TakesOn(put), command' = command, agreed' = agreed,
         \A t \in put : /\ t.do \in {"drop", "plan"}
                        /\ t.do = "plan" => command.verb # "down" /\ ~agreed
  PROVE  Kinds' /\ ~Starting'
<1>1. \A t \in ToSet(todo') : t \in put \/ t \in ToSet(todo)
  BY DEF TakesOn
<1>2. \A t \in ToSet(todo') : t.do # "begin"
  BY <1>1 DEF Kinds
<1>3. command.verb = "down" => \A t \in ToSet(todo') : t.do \in DownDoes
  BY <1>1 DEF Kinds, DownDoes
<1>4. agreed => \A t \in ToSet(todo') : t.do \in {"drop", "check"}
  BY <1>1 DEF Kinds
<1> QED BY <1>2, <1>3, <1>4, NotStartingThen DEF Kinds

LEMMA BeginsFirst == ASSUME TdTypeOK, Kinds, Begins PROVE Starting
<1>1. todo # <<>> /\ Head(todo).do = "begin" /\ Head(todo) \in ToSet(todo)
  BY BeheadedIs DEF Begins, Pending, TdTypeOK
<1> QED BY <1>1 DEF Kinds

LEMMA KindsStep ==
  ASSUME TdTypeOK, AsBefore, Kinds, Fresh, [TeardownNext]_tdVars
  PROVE  Kinds' /\ Fresh' /\ (~UNCHANGED tdVars => ~Starting')
<1>h. command' = command
  BY HistoryStep, TypesAre
<1>1. CASE Begins
  <2>1. Starting
    BY <1>1, BeginsFirst
  <2>2. ~agreed' /\ todo' = IF command.verb = "down" THEN DownTasks ELSE PlanTasks
    BY <1>1, <2>1 DEF Begins, Fresh
  <2>3. CASE command.verb = "down"
    <3>1. \A t \in ToSet(todo') : t.do \in DownDoes
      <4>1. \A t \in DownAsked :
              \/ \E n : t = Task("ask", "container", n)
              \/ t = Task("orphans", "", None) \/ t = Task("networks", "", None)
              \/ \E v : t = Task("drop", "volume", v)
              \/ \E s : t = Task("images", "service", s)
        BY DEF DownAsked
      <4>2. \A t \in DownAsked : t.do \in DownDoes
        <5>1. /\ \A n : Task("ask", "container", n).do \in DownDoes
              /\ Task("orphans", "", None).do \in DownDoes /\ Task("networks", "", None).do \in DownDoes
              /\ \A v : Task("drop", "volume", v).do \in DownDoes
              /\ \A s : Task("images", "service", s).do \in DownDoes
          BY DEF Task, DownDoes
        <5> QED BY <4>1, <5>1
      <4> QED BY <2>2, <2>3, <4>2, DownTasksAre
    <3>2. \A t \in ToSet(todo') : t.do # "begin"
      BY <3>1 DEF DownDoes
    <3> QED BY <1>h, <2>1, <2>2, <3>1, <3>2, NotStartingThen DEF Kinds, Fresh
  <2>4. CASE command.verb # "down"
    <3>1. \A t \in ToSet(todo') : t.do # "begin"
      <4>1. \A t \in PlanAsked :
              \/ \E k, n : t = Task("plan", k, n)
              \/ \E d \in {"planOrphans", "planNetworks", "prompt"} : t = Task(d, "", None)
        BY DEF PlanAsked
      <4>2. \A t \in PlanAsked : t.do # "begin"
        <5>1. /\ \A k, n : Task("plan", k, n).do # "begin"
              /\ \A d \in {"planOrphans", "planNetworks", "prompt"} : Task(d, "", None).do # "begin"
          BY DEF Task
        <5> QED BY <4>1, <5>1
      <4> QED BY <2>2, <2>4, <4>2, PlanTasksAre
    <3> QED BY <1>h, <2>1, <2>2, <2>4, <3>1, NotStartingThen DEF Kinds, Fresh
  <2> QED BY <2>3, <2>4
<1>2. CASE UNCHANGED tdVars
  BY <1>2 DEF tdVars, Kinds, Fresh, Starting
<1>3. CASE ~Starting /\ ~Begins /\ ~UNCHANGED tdVars
  <2>1. SUFFICES Kinds' /\ ~Starting'
    BY <1>3 DEF Fresh
  <2>2. CASE Asks
    <3>1. agreed' = agreed
      BY <2>2 DEF Asks
    <3> QED BY <1>3, <1>h, <2>2, <3>1, AsksPuts, KindsPut, TaskIs
  <2>3. CASE ListsOrphans
    <3>1. agreed' = agreed
      BY <2>3 DEF ListsOrphans
    <3>2. CASE TakesOn({Task("drop", "container", n) : n \in Orphans(box)})
      BY <1>3, <1>h, <3>1, <3>2, KindsPut, TaskIs
    <3>3. CASE TakesOn({})
      BY <1>3, <1>h, <3>1, <3>3, KindsPut
    <3> QED BY <2>3, <3>2, <3>3, OrphansPut
  <2>4. CASE ListsNetworks
    <3>1. agreed' = agreed /\ todo # <<>>
      BY <2>4 DEF ListsNetworks, Pending
    <3>2. PICK unread : TakesOn({Task("drop", "network", n) : n \in NetsOf(net, unread)})
      BY <2>4, <3>1, NetworksPut DEF ListsNetworks
    <3> QED BY <1>3, <1>h, <3>1, <3>2, KindsPut, TaskIs
  <2>5. CASE LooksAtImages
    <3>1. agreed' = agreed
      BY <2>5 DEF LooksAtImages
    <3>2. PICK s, unread : TakesOn({Task("drop", "image", i) : i \in FoundImages(s, unread)})
      BY <2>5, ImagesPut
    <3> QED BY <1>3, <1>h, <3>1, <3>2, KindsPut, TaskIs
  <2>6. CASE Drops
    <3>1. agreed' = agreed
      BY <2>6 DEF Drops
    <3> QED BY <1>3, <1>h, <2>6, <3>1, DropsOne, KindsPut
  <2>7. CASE Plans
    <3>1. agreed' = agreed
      BY <2>7 DEF Plans
    <3> QED BY <1>3, <1>h, <2>7, <3>1, PlansOne, KindsPut
  <2>8. CASE PlansOrphans
    <3>1. agreed' = agreed
      BY <2>8 DEF PlansOrphans
    <3> QED BY <1>3, <1>h, <2>8, <3>1, OrphansPlanned, KindsPut
  <2>9. CASE PlansNetworks
    <3>1. agreed' = agreed /\ todo # <<>> /\ Head(todo).do = "planNetworks"
      BY <2>9 DEF PlansNetworks, Pending
    <3>2. PICK unread : TakesOn({Task("plan", "network", n) : n \in NetsOf(net, unread)})
      BY <2>9, <3>1, NetworksPut DEF PlansNetworks
    <3>3. Head(todo) \in ToSet(todo)
      BY <3>2 DEF TakesOn
    <3>4. command.verb # "down" /\ ~agreed
      BY <1>3, <3>1, <3>3 DEF Kinds, DownDoes
    <3> QED BY <1>3, <1>h, <3>1, <3>2, <3>4, KindsPut, TaskIs
  <2>10. CASE Prompts
    <3>1. Head(todo) \in ToSet(todo) /\ Head(todo).do = "prompt"
      BY <2>10, PromptMakes
    <3>2. command.verb # "down" /\ ~agreed
      BY <1>3, <3>1 DEF Kinds, DownDoes
    <3>3. \A t \in ToSet(todo') : t.do \in {"drop", "check"}
      <4>1. CASE ToSet(todo') = {}
        BY <4>1
      <4>2. CASE ToSet(todo') = {[do |-> "drop", thing |-> shown[i]] : i \in DOMAIN shown}
                                 \cup {[do |-> "check", thing |-> shown[i]] : i \in DOMAIN shown}
        BY <4>2
      <4> QED BY <2>10, <4>1, <4>2, PromptMakes
    <3>4. \A t \in ToSet(todo') : t.do # "begin"
      BY <3>3
    <3> QED BY <1>h, <3>2, <3>3, <3>4, NotStartingThen DEF Kinds
  <2>11. CASE Checks
    <3>1. agreed' = agreed /\ TakesOn({})
      BY <2>11, NextTask DEF Checks, Pending
    <3> QED BY <1>3, <1>h, <2>11, <3>1, KindsPut
  <2>12. CASE Hand
    BY <1>3, <1>h, <2>12 DEF Hand, Kinds, Starting
  <2> QED
    BY <1>3, <2>2, <2>3, <2>4, <2>5, <2>6, <2>7, <2>8, <2>9, <2>10, <2>11, <2>12 DEF TeardownNext
<1> QED BY <1>1, <1>2, <1>3, StartingBegins

-----------------------------------------------------------------------------
(* What is another's is spared.                                            *)

\* It is not gone, nor is it on any list of what is to go.
Sparing ==
  /\ OthersAreSpared
  /\ \A t \in ToSet(todo) :
       t.do = "drop" \/ (t.do = "plan" /\ t.thing.kind # "container") => t.thing \notin Spared
  /\ \A x \in ToSet(shown) : x \notin Spared

LEMMA SparedIs ==
  /\ \A n : Thing("container", n) \in Spared <=>
       n \in Names /\ before.box[n] \in {"other", "bare"} /\ n \notin ToSet(hands)
  /\ \A n : Thing("network", n) \in Spared <=> n \in DOMAIN net /\ before.net[n] = "others"
  /\ \A v : Thing("volume", v) \in Spared <=> v \in ExternalVols \cap before.vol
  /\ \A p : Thing("path", p) \in Spared <=> p \in DOMAIN disk /\ before.disk[p] = "user"
  /\ \A i : Thing("image", i) \in Spared <=>
       /\ i \in DOMAIN img /\ before.img[i].there /\ command.verb = "down" /\ command.rmi # "all"
       /\ i \notin {BuiltName(s) : s \in Services}
       /\ before.img[i].labels.project # "ours" /\ before.img[i].labels.compose # "ours"
BY ThingsDiffer DEF Spared, Things

LEMMA SparedAre ==
  ASSUME NEW x \in Spared
  PROVE  \/ \E n \in Names : x = Thing("container", n)
         \/ \E n \in DOMAIN net : x = Thing("network", n)
         \/ \E v \in before.vol : x = Thing("volume", v)
         \/ \E p \in DOMAIN disk : x = Thing("path", p)
         \/ \E i \in DOMAIN img : x = Thing("image", i)
BY DEF Spared, Things

LEMMA SparedShrinks ==
  ASSUME command' = command, before' = before, ToSet(hands) \subseteq ToSet(hands'),
         DOMAIN net' = DOMAIN net, DOMAIN disk' = DOMAIN disk, DOMAIN img' = DOMAIN img
  PROVE  Spared' \subseteq Spared
BY Zenon DEF Spared, Things

LEMMA OursNotSpared ==
  ASSUME TdTypeOK, AsBefore, OthersAreSpared, NEW n \in Names, MayTake(box[n])
  PROVE  Thing("container", n) \notin Spared
BY GoneIs, SparedIs DEF AsBefore, OthersAreSpared, MayTake

LEMMA NetsNotSpared ==
  ASSUME TdTypeOK, AsBefore, NEW unread, NEW n \in NetsOf(net, unread)
  PROVE  Thing("network", n) \notin Spared
<1>1. \A m \in Declared \cup {DefaultNet} : before.net[m] # "others"
  BY TeardownAssumption DEF TdTypeOK
<1>2. CASE n \in Declared \cup {DefaultNet}
  BY <1>1, <1>2, SparedIs
<1>3. CASE n \in NamedNetworks(net, unread)
  BY <1>3, SparedIs DEF NamedNetworks, AsBefore
<1> QED BY <1>2, <1>3 DEF NetsOf

LEMMA ImagesNotSpared ==
  ASSUME TdTypeOK, AsBefore, NEW s \in Services, NEW unread, NEW i \in FoundImages(s, unread)
  PROVE  Thing("image", i) \notin Spared
<1> SUFFICES ASSUME Thing("image", i) \in Spared PROVE FALSE
  OBVIOUS
<1>1. /\ i \in DOMAIN img /\ command.rmi # "all" /\ i # BuiltName(s)
      /\ before.img[i].labels.project # "ours" /\ before.img[i].labels.compose # "ours"
  BY SparedIs, Zenon
<1>2. img[i].labels.project # "ours" /\ img[i].labels.compose # "ours"
  BY <1>1 DEF AsBefore
<1>3. i # None /\ (i = FormerBuiltImage(s) \/ i = BuiltName(s) \/ (i \in There /\ BuiltHere(Labels[i])))
  BY <1>1 DEF FoundImages, ImagesToRemove
<1>4. i # FormerBuiltImage(s)
  BY <1>1, <1>3 DEF FormerBuiltImage
<1>5. Labels[i] = img[i].labels
  BY <1>1 DEF Labels
<1> QED BY <1>1, <1>2, <1>3, <1>4, <1>5 DEF BuiltHere

LEMMA OwnNotSpared ==
  ASSUME TdTypeOK, AsBefore
  PROVE  /\ \A v \in NamedVolumes : Thing("volume", v) \notin Spared
         /\ command.verb # "down" => \A i : Thing("image", i) \notin Spared
         /\ \A p \in PathsToRemove(disk, command.keepLocal, command.keepOverlay) :
              Thing("path", p) \notin Spared
<1>1. \A v \in NamedVolumes : v \notin ExternalVols
  BY DEF NamedVolumes
<1>2. \A p \in PathsToRemove(disk, command.keepLocal, command.keepOverlay) : p \in Paths /\ disk[p] = "opossum"
  BY DEF PathsToRemove, TdTypeOK
<1>3. \A p \in Paths : disk[p] = "opossum" => before.disk[p] # "user"
  BY DEF AsBefore
<1> QED BY <1>1, <1>2, <1>3, SparedIs

\* A step that puts in nothing to be spared, and takes nothing that is.
LEMMA SparesPut ==
  ASSUME Sparing, NEW put, TakesOn(put), Spared' \subseteq Spared, OthersAreSpared',
         \A t \in put : t.do = "drop" \/ (t.do = "plan" /\ t.thing.kind # "container") => t.thing \notin Spared,
         \A x \in ToSet(shown') : x \notin Spared
  PROVE  Sparing'
<1>1. \A t \in ToSet(todo') : t \in put \/ t \in ToSet(todo)
  BY DEF TakesOn
<1>2. \A t \in ToSet(todo') :
        t.do = "drop" \/ (t.do = "plan" /\ t.thing.kind # "container") => t.thing \notin Spared
  BY <1>1 DEF Sparing
<1> QED BY <1>2 DEF Sparing

LEMMA StillSpared ==
  ASSUME OthersAreSpared, Spared' \subseteq Spared, UNCHANGED tdWorld
  PROVE  OthersAreSpared'
BY DEF OthersAreSpared, Gone, tdWorld

LEMMA SparingInit ==
  ASSUME TeardownInit, TdTypeOK, Fresh
  PROVE  Sparing
<1>1. before.box = box /\ before.net = net /\ before.vol = vol /\ before.img = img /\ before.disk = disk
  BY DEF TeardownInit
<1>2. OthersAreSpared
  <2>1. \A x \in Spared : ~Gone(x)
    BY <1>1, SparedAre, SparedIs, GoneIs
  <2> QED BY <2>1 DEF OthersAreSpared
<1>3. \A t \in ToSet(todo) : t.do = "begin"
  <2> DEFINE b == Task("begin", "", None)
  <2>1. todo = <<b>> /\ b.do = "begin"
    BY TaskIs DEF TeardownInit
  <2> HIDE DEF b
  <2> QED BY <2>1, OneTaskIs
<1>4. ToSet(shown) = {}
  BY NoTaskIs DEF TeardownInit
<1> QED BY <1>2, <1>3, <1>4 DEF Sparing

LEMMA RemovalSpares ==
  ASSUME TdTypeOK, Sparing, Drops, Spared' \subseteq Spared
  PROVE  OthersAreSpared'
<1>1. This \notin Spared /\ OnShelf(This)
  BY DropsOne DEF Sparing
<1>2. CASE UNCHANGED tdWorld
  BY <1>2, StillSpared DEF Sparing
<1>3. CASE Removed(This)
  <2> SUFFICES ASSUME NEW x \in Spared' PROVE ~Gone(x)'
    BY DEF OthersAreSpared
  <2>1. x \in Spared /\ x # This /\ OnShelf(x) /\ ~Gone(x)
    BY <1>1, SparedOnShelf DEF Sparing, OthersAreSpared
  <2> QED BY <1>1, <1>3, <2>1, RemovedIs
<1> QED BY <1>2, <1>3 DEF Drops

LEMMA HandSpares ==
  ASSUME TdTypeOK, AsBefore, Sparing, Hand, Spared' \subseteq Spared
  PROVE  Sparing'
<1>1. PICK n \in Names, owner \in {"nobody", "other"} :
        /\ box' = [box EXCEPT ![n] = owner] /\ hands' = Append(hands, n)
        /\ UNCHANGED <<net, vol, img, disk, todo, shown, before, command>>
  BY DEF Hand
<1>2. n \in ToSet(hands')
  <2>1. hands \in Seq(Names)
    BY DEF TdTypeOK
  <2>2. Len(hands) \in Nat /\ Len(hands') = Len(hands) + 1 /\ hands'[Len(hands) + 1] = n
        /\ DOMAIN hands' = 1..(Len(hands) + 1)
    BY <1>1, <2>1
  <2> QED BY <2>2 DEF ToSet
<1>3. OthersAreSpared'
  <2> SUFFICES ASSUME NEW x \in Spared' PROVE ~Gone(x)'
    BY DEF OthersAreSpared
  <2>1. x \in Spared /\ ~Gone(x)
    BY DEF Sparing, OthersAreSpared
  <2>2. x # Thing("container", n)
    BY <1>2, ThingsDiffer DEF Spared, Things
  <2>3. \A m \in Names : m # n => box'[m] = box[m]
    BY <1>1 DEF TdTypeOK
  <2> QED BY <1>1, <2>1, <2>2, <2>3, SparedAre, GoneIs, GoneWillBe
<1> QED BY <1>1, <1>3 DEF Sparing

LEMMA BeginSpares ==
  ASSUME TdTypeOK, AsBefore, Sparing, Kinds, Fresh, Begins, Spared' \subseteq Spared
  PROVE  Sparing'
<1>1. OthersAreSpared' /\ shown' = shown
  BY StillSpared DEF Begins, Sparing
<1>2. ASSUME NEW t \in ToSet(todo'), t.do = "drop" \/ (t.do = "plan" /\ t.thing.kind # "container")
      PROVE  t.thing \notin Spared
  <2>1. CASE command.verb = "down"
    <3>1. t \in DownAsked
      BY <2>1, DownTasksAre DEF Begins
    <3>2. \E v \in NamedVolumes : t = Task("drop", "volume", v)
      <4>1. \/ \E n : t = Task("ask", "container", n)
            \/ t = Task("orphans", "", None) \/ t = Task("networks", "", None)
            \/ \E v \in NamedVolumes : t = Task("drop", "volume", v)
            \/ \E s : t = Task("images", "service", s)
        BY <3>1 DEF DownAsked
      <4>2. /\ \A n : Task("ask", "container", n).do = "ask"
            /\ Task("orphans", "", None).do = "orphans" /\ Task("networks", "", None).do = "networks"
            /\ \A s : Task("images", "service", s).do = "images"
        BY DEF Task
      <4> QED BY <1>2, <4>1, <4>2
    <3> QED BY <3>2, TaskIs, OwnNotSpared
  <2>2. CASE command.verb # "down"
    <3>1. t \in PlanAsked
      BY <2>2, PlanTasksAre DEF Begins
    <3>2. \/ \E v \in NamedVolumes : t = Task("plan", "volume", v)
          \/ \E i \in ImageNames : t = Task("plan", "image", i)
          \/ \E p \in PathsToRemove(disk, command.keepLocal, command.keepOverlay) : t = Task("plan", "path", p)
      <4>1. \/ \E n : t = Task("plan", "container", n)
            \/ \E d \in {"planOrphans", "planNetworks", "prompt"} : t = Task(d, "", None)
            \/ <3>2
        BY <3>1 DEF PlanAsked
      <4>2. /\ \A n : Task("plan", "container", n).do = "plan" /\ Task("plan", "container", n).thing.kind = "container"
            /\ \A d \in {"planOrphans", "planNetworks", "prompt"} : Task(d, "", None).do = d
        BY DEF Task, Thing
      <4> QED BY <1>2, <4>1, <4>2
    <3> QED BY <2>2, <3>2, TaskIs, OwnNotSpared
  <2> QED BY <2>1, <2>2
<1>3. \A x \in ToSet(shown') : x \notin Spared
  BY <1>1 DEF Sparing
<1> QED BY <1>1, <1>2, <1>3 DEF Sparing

LEMMA SparingStep ==
  ASSUME TdTypeOK, AsBefore, Sparing, Kinds, Fresh, [TeardownNext]_tdVars
  PROVE  Sparing'
<1>0. Spared' \subseteq Spared
  <2>1. DOMAIN net' = DOMAIN net /\ DOMAIN disk' = DOMAIN disk /\ DOMAIN img' = DOMAIN img
        /\ before' = before
    <3>1. WorldTyped /\ WorldTyped' /\ before' = before
      BY WorldStep, HistoryStep, TypesAre, TypesWillBe
    <3> QED BY <3>1 DEF WorldTyped
  <2> QED BY <2>1, HistoryStep, TypesAre, SparedShrinks
<1>1. CASE Begins
  BY <1>0, <1>1, BeginSpares
<1>2. CASE Asks
  <2>1. OthersAreSpared' /\ shown' = shown
    BY <1>0, <1>2, StillSpared DEF Asks, Sparing
  <2>2. ASSUME MayTake(box[This.on]) PROVE Thing("container", This.on) \notin Spared
    BY <1>2, <2>2, AsksPuts, OursNotSpared DEF Sparing
  <2>3. CASE TakesOn({})
    BY <1>0, <2>1, <2>3, SparesPut DEF Sparing
  <2>4. CASE MayTake(box[This.on]) /\ TakesOn({Task("drop", "container", This.on)})
    <3>1. \A t \in {Task("drop", "container", This.on)} : t.thing \notin Spared
      BY <2>2, <2>4, TaskIs
    <3> QED BY <1>0, <2>1, <2>4, <3>1, SparesPut DEF Sparing
  <2> QED BY <1>2, <2>3, <2>4, AsksPuts
<1>3. CASE ListsOrphans
  <2>1. OthersAreSpared' /\ shown' = shown
    BY <1>0, <1>3, StillSpared DEF ListsOrphans, Sparing
  <2>2. \A n \in Orphans(box) : Thing("container", n) \notin Spared
    BY OursNotSpared DEF Sparing, Orphans, MayTake
  <2>3. CASE TakesOn({})
    BY <1>0, <2>1, <2>3, SparesPut DEF Sparing
  <2>4. CASE TakesOn({Task("drop", "container", n) : n \in Orphans(box)})
    <3>1. \A t \in {Task("drop", "container", n) : n \in Orphans(box)} : t.thing \notin Spared
      BY <2>2, TaskIs
    <3> QED BY <1>0, <2>1, <2>4, <3>1, SparesPut DEF Sparing
  <2> QED BY <1>3, <2>3, <2>4, OrphansPut
<1>4. CASE ListsNetworks \/ PlansNetworks
  <2>1. OthersAreSpared' /\ shown' = shown /\ todo # <<>>
    BY <1>0, <1>4, StillSpared DEF ListsNetworks, PlansNetworks, Pending, Sparing
  <2>2. ASSUME NEW unread, NEW do \in {"drop", "plan"}, Done(Each(do, "network", ProjectNetworks(net, unread)))
        PROVE  Sparing'
    <3>1. TakesOn({Task(do, "network", n) : n \in NetsOf(net, unread)})
      BY <2>1, <2>2, NetworksPut
    <3>2. \A t \in {Task(do, "network", n) : n \in NetsOf(net, unread)} : t.thing \notin Spared
      BY TaskIs, NetsNotSpared
    <3> QED BY <1>0, <2>1, <3>1, <3>2, SparesPut DEF Sparing
  <2>3. CASE ListsNetworks
    BY <2>2, <2>3 DEF ListsNetworks
  <2>4. CASE PlansNetworks
    BY <2>2, <2>4 DEF PlansNetworks
  <2> QED BY <1>4, <2>3, <2>4
<1>5. CASE LooksAtImages
  <2>1. OthersAreSpared' /\ shown' = shown
    BY <1>0, <1>5, StillSpared DEF LooksAtImages, Sparing
  <2>2. PICK s \in Services : \E unread : TakesOn({Task("drop", "image", i) : i \in FoundImages(s, unread)})
    BY <1>5, ImagesPut
  <2>3. PICK unread : TakesOn({Task("drop", "image", i) : i \in FoundImages(s, unread)})
    BY <2>2
  <2>4. \A t \in {Task("drop", "image", i) : i \in FoundImages(s, unread)} : t.thing \notin Spared
    BY TaskIs, ImagesNotSpared
  <2> QED BY <1>0, <2>1, <2>3, <2>4, SparesPut DEF Sparing
<1>6. CASE Drops
  <2>1. TakesOn({}) /\ shown' = shown
    BY <1>6, DropsOne DEF Drops
  <2>2. OthersAreSpared'
    BY <1>0, <1>6, RemovalSpares
  <2> QED BY <1>0, <2>1, <2>2, SparesPut DEF Sparing
<1>7. CASE Plans
  <2>1. OthersAreSpared' /\ TakesOn({})
    BY <1>0, <1>7, StillSpared, PlansOne DEF Plans, Sparing
  <2>2. This \notin Spared \/ shown' = shown
    <3>1. CASE This.kind = "container" /\ box[This.on] = "ours"
      <4>1. PICK n \in Names : This = Thing("container", n)
        BY <1>7, <3>1, PlansOne, ThingsDiffer DEF ThingSet, Things
      <4>2. box[n] = "ours"
        BY <3>1, <4>1, ThingsDiffer
      <4> QED BY <4>1, <4>2, OursNotSpared DEF Sparing, MayTake
    <3>2. CASE This.kind # "container"
      BY <1>7, <3>2, PlansOne DEF Sparing
    <3> QED BY <1>7, <3>1, <3>2, PlansOne
  <2>3. \A x \in ToSet(shown') : x \in ToSet(shown) \/ (x = This /\ shown' # shown)
    <3>1. CASE shown' = shown
      BY <3>1
    <3>2. CASE shown' = Append(shown, This)
      <4>1. shown \in Seq(ThingSet) /\ Len(shown) \in Nat
        BY DEF TdTypeOK
      <4>2. /\ DOMAIN shown' = 1..(Len(shown) + 1) /\ DOMAIN shown = 1..Len(shown)
            /\ shown'[Len(shown) + 1] = This /\ \A i \in 1..Len(shown) : shown'[i] = shown[i]
        BY <3>2, <4>1
      <4>3. Len(shown') # Len(shown)
        BY <3>2, <4>1
      <4>4. \A i \in DOMAIN shown' : shown'[i] \in ToSet(shown) \/ shown'[i] = This
        BY <4>1, <4>2 DEF ToSet
      <4> QED BY <4>3, <4>4 DEF ToSet
    <3> QED BY <1>7, <3>1, <3>2, PlansOne
  <2>4. \A x \in ToSet(shown') : x \notin Spared
    BY <2>2, <2>3 DEF Sparing
  <2> QED BY <1>0, <2>1, <2>4, SparesPut
<1>8. CASE PlansOrphans
  <2>1. OthersAreSpared' /\ TakesOn({})
    BY <1>0, <1>8, StillSpared, OrphansPlanned DEF PlansOrphans, Sparing
  <2>2. \A n \in Orphans(box) : Thing("container", n) \notin Spared
    BY OursNotSpared DEF Sparing, Orphans, MayTake
  <2>3. \A x \in ToSet(shown') : x \notin Spared
    BY <1>8, <2>2, OrphansPlanned DEF Sparing
  <2> QED BY <1>0, <2>1, <2>3, SparesPut
<1>9. CASE Prompts
  <2>1. OthersAreSpared' /\ shown' = shown
    BY <1>0, <1>9, StillSpared DEF Prompts, Sparing
  <2>2. \A t \in ToSet(todo') : t.do \in {"drop", "check"} /\ t.thing \in ToSet(shown)
    <3>1. CASE ToSet(todo') = {}
      BY <3>1
    <3>2. CASE ToSet(todo') = {[do |-> "drop", thing |-> shown[i]] : i \in DOMAIN shown}
                              \cup {[do |-> "check", thing |-> shown[i]] : i \in DOMAIN shown}
      BY <3>2 DEF ToSet
    <3> QED BY <1>9, <3>1, <3>2, PromptMakes
  <2> QED BY <1>0, <2>1, <2>2 DEF Sparing
<1>10. CASE Checks
  <2>1. OthersAreSpared' /\ shown' = shown
    BY <1>0, <1>10, StillSpared DEF Checks, Sparing
  <2>2. TakesOn({})
    BY <1>10, NextTask DEF Checks, Pending
  <2> QED BY <1>0, <2>1, <2>2, SparesPut DEF Sparing
<1>11. CASE Hand
  BY <1>0, <1>11, HandSpares
<1>12. CASE UNCHANGED tdVars
  <2>1. OthersAreSpared'
    BY <1>0, <1>12, StillSpared DEF tdVars, Sparing
  <2> QED BY <1>0, <1>12, <2>1 DEF tdVars, Sparing
<1> QED
  BY <1>1, <1>2, <1>3, <1>4, <1>5, <1>6, <1>7, <1>8, <1>9, <1>10, <1>11, <1>12 DEF TeardownNext

-----------------------------------------------------------------------------
(* A destroy tells the truth.                                              *)

\* What was shown is still to be looked at again, is gone or is excused; a path,
\* at which nobody looks again, is still to be deleted or gone, or it is what
\* stays for a supervisor that does.
Told(x) ==
  IF x.kind = "path" THEN \/ [do |-> "drop", thing |-> x] \in ToSet(todo) \/ Gone(x)
                          \/ KeptForIt(x)
  ELSE \/ [do |-> "check", thing |-> x] \in ToSet(todo)
       \/ Gone(x) \/ Touched(x) \/ (x.kind # "container" /\ x \in deaf)

Truth == agreed /\ said = {} => \A x \in ToSet(shown) : Told(x)

LEMMA AgreedSteps ==
  ASSUME TdTypeOK, Kinds, Fresh, agreed, [TeardownNext]_tdVars
  PROVE  Drops \/ Checks \/ Hand \/ UNCHANGED tdVars
<1>1. ~Starting
  BY DEF Fresh
<1>2. todo # <<>> => Head(todo).do \in {"drop", "check"}
  BY <1>1, BeheadedIs DEF Kinds, TdTypeOK
<1> QED BY <1>2, Zenon
    DEF TeardownNext, Begins, Asks, ListsOrphans, ListsNetworks, LooksAtImages, Plans, PlansOrphans,
        PlansNetworks, Prompts, Pending

LEMMA DropTells ==
  ASSUME TdTypeOK, AsBefore, Drops, said' = {}, NEW x \in ThingSet, Told(x)
  PROVE  Told(x)'
<1>1. /\ Head(todo).do = "drop" /\ Head(todo).thing = This /\ OnShelf(This) /\ OnShelf(x)
      /\ TakesOn({}) /\ deaf' = deaf /\ hands' = hands /\ (KeptForIt(x)' <=> KeptForIt(x))
  BY DropsOne, ThingSetOnShelf DEF Drops, KeptForIt
<1>2. Gone(x) => Gone(x)'
  <2>1. CASE UNCHANGED tdWorld
    BY <2>1 DEF Gone, tdWorld
  <2>2. CASE Removed(This)
    BY <1>1, <2>2, RemovedIs
  <2> QED BY <2>1, <2>2 DEF Drops
<1>3. \A t \in ToSet(todo) : t # Head(todo) => t \in ToSet(todo')
  BY <1>1 DEF TakesOn
<1>4. CASE x.kind # "path"
  <2>1. [do |-> "check", thing |-> x] # Head(todo)
    BY <1>1
  <2>2. Touched(x)' <=> Touched(x)
    BY <1>1 DEF Touched
  <2> QED BY <1>1, <1>2, <1>3, <1>4, <2>1, <2>2 DEF Told
<1>5. CASE x.kind = "path" /\ This # x
  <2>1. [do |-> "drop", thing |-> x] # Head(todo)
    BY <1>1, <1>5
  <2> QED BY <1>1, <1>2, <1>3, <1>5, <2>1 DEF Told
<1>6. CASE x.kind = "path" /\ This = x
  <2>1. ~Held(This)
    BY <1>6 DEF Held
  <2>2. KeptForIt(x) \/ Removed(This)
    BY <1>6, <2>1 DEF Drops
  <2>3. KeptForIt(x)' \/ Gone(x)'
    BY <1>1, <1>6, <2>2, RemovedIs
  <2> QED BY <1>6, <2>3 DEF Told
<1> QED BY <1>4, <1>5, <1>6

LEMMA CheckTells ==
  ASSUME TdTypeOK, Checks, said' = {}, NEW x \in ThingSet, Told(x)
  PROVE  Told(x)'
<1>1. /\ Head(todo).do = "check" /\ Head(todo).thing = This /\ Head(todo) \in TaskSet
      /\ TakesOn({}) /\ UNCHANGED tdWorld /\ hands' = hands /\ deaf \subseteq deaf'
  <2>1. todo # <<>> /\ Head(todo).do = "check" /\ Done(<<>>)
    BY DEF Checks, Pending
  <2>2. Head(todo) \in TaskSet
    BY <2>1, BeheadedIs DEF TdTypeOK
  <2> QED BY <2>1, <2>2, NextTask DEF Checks, This, Silent
<1>2. (Gone(x)' <=> Gone(x)) /\ (Touched(x)' <=> Touched(x)) /\ (KeptForIt(x)' <=> KeptForIt(x))
  BY <1>1 DEF Gone, tdWorld, Touched, KeptForIt, Checks
<1>3. \A t \in ToSet(todo) : t # Head(todo) => t \in ToSet(todo')
  BY <1>1 DEF TakesOn
<1>4. CASE x.kind = "path"
  <2>1. [do |-> "drop", thing |-> x] # Head(todo)
    BY <1>1
  <2> QED BY <1>2, <1>3, <1>4, <2>1 DEF Told
<1>5. CASE x.kind # "path" /\ This # x
  <2>1. [do |-> "check", thing |-> x] # Head(todo)
    BY <1>1, <1>5
  <2> QED BY <1>1, <1>2, <1>3, <1>5, <2>1 DEF Told
<1>6. CASE x.kind # "path" /\ This = x
  <2>1. Gone(x) \/ (x.kind # "container" /\ x \in deaf')
    BY <1>6 DEF Checks, Silent
  <2> QED BY <1>2, <1>6, <2>1 DEF Told
<1> QED BY <1>4, <1>5, <1>6

LEMMA HandTells ==
  ASSUME TdTypeOK, AsBefore, Hand, NEW x \in ThingSet, Told(x)
  PROVE  Told(x)'
<1>1. PICK n \in Names, owner \in {"nobody", "other"} :
        /\ box' = [box EXCEPT ![n] = owner] /\ hands' = Append(hands, n)
        /\ UNCHANGED <<net, vol, img, disk, todo, supervisorLeft, deaf>>
  BY DEF Hand
<1>2. n \in ToSet(hands') /\ ToSet(hands) \subseteq ToSet(hands')
  <2>1. hands \in Seq(Names)
    BY DEF TdTypeOK
  <2>2. Len(hands) \in Nat /\ Len(hands') = Len(hands) + 1 /\ hands'[Len(hands) + 1] = n
        /\ DOMAIN hands' = 1..(Len(hands) + 1)
    BY <1>1, <2>1
  <2> QED BY <2>2, WorldHand, TypesAre DEF ToSet
<1>3. \A m \in Names : m # n => box'[m] = box[m]
  BY <1>1 DEF TdTypeOK
<1>4. CASE \E m \in Names : x = Thing("container", m)
  <2>1. PICK m \in Names : x = Thing("container", m)
    BY <1>4
  <2>2. x.kind = "container" /\ x.on = m
    BY <2>1, ThingsDiffer
  <2>3. Touched(x) => Touched(x)'
    BY <1>2 DEF Touched
  <2>4. Gone(x) => Gone(x)' \/ Touched(x)'
    <3>1. CASE m = n
      BY <1>2, <2>2, <3>1 DEF Touched
    <3>2. CASE m # n
      BY <1>3, <2>1, <3>2, GoneIs, GoneWillBe
    <3> QED BY <3>1, <3>2
  <2> QED BY <1>1, <2>2, <2>3, <2>4 DEF Told
<1>5. CASE x.kind # "container"
  <2>1. Gone(x)' <=> Gone(x)
    BY <1>1, <1>5, GoneIs, GoneWillBe, ThingsDiffer DEF ThingSet, Things
  <2> QED BY <1>1, <1>5, <2>1 DEF Told, Touched, KeptForIt
<1> QED BY <1>4, <1>5, ThingsDiffer DEF ThingSet, Things

LEMMA TruthStep ==
  ASSUME TdTypeOK, AsBefore, Kinds, Fresh, Truth, [TeardownNext]_tdVars
  PROVE  Truth'
<1> SUFFICES ASSUME agreed', said' = {} PROVE \A x \in ToSet(shown') : Told(x)'
  BY DEF Truth
<1>h. said = {} /\ ToSet(shown) \subseteq ThingSet
  <2>1. said \subseteq said'
    BY HistoryStep, TypesAre
  <2>2. ToSet(shown) \subseteq ThingSet
    BY DEF TdTypeOK, ToSet
  <2> QED BY <2>1, <2>2
<1>1. CASE agreed
  <2>1. \A x \in ToSet(shown) : x \in ThingSet /\ Told(x)
    BY <1>1, <1>h DEF Truth
  <2>2. CASE Drops
    BY <2>1, <2>2, DropTells DEF Drops
  <2>3. CASE Checks
    BY <2>1, <2>3, CheckTells DEF Checks
  <2>4. CASE Hand
    BY <2>1, <2>4, HandTells DEF Hand
  <2>5. CASE UNCHANGED tdVars
    BY <2>1, <2>5 DEF tdVars, tdWorld, tdSeen, Told, Gone, Touched, KeptForIt
  <2> QED BY <1>1, <2>2, <2>3, <2>4, <2>5, AgreedSteps
<1>2. CASE ~agreed
  <2>1. Prompts
    BY <1>2, Zenon DEF TeardownNext, Begins, Asks, ListsOrphans, ListsNetworks, LooksAtImages, Drops, Plans,
                PlansOrphans, PlansNetworks, Checks, Hand, tdVars
  <2>2. shown' = shown /\ ToSet(todo') = {[do |-> "drop", thing |-> shown[i]] : i \in DOMAIN shown}
                                        \cup {[do |-> "check", thing |-> shown[i]] : i \in DOMAIN shown}
    BY <1>2, <2>1, PromptMakes DEF Prompts
  <2>3. \A x \in ToSet(shown) : /\ [do |-> "drop", thing |-> x] \in ToSet(todo')
                                /\ [do |-> "check", thing |-> x] \in ToSet(todo')
    BY <2>2 DEF ToSet
  <2> QED BY <2>2, <2>3 DEF Told
<1> QED BY <1>1, <1>2

\* The directory of a supervisor that is left: it was there when the supervisor
\* outlived its stop, and no deletion after that is of it.
LEMMA FindableStep ==
  ASSUME TdTypeOK, AsBefore, SupervisorStaysFindable, [TeardownNext]_tdVars
  PROVE  SupervisorStaysFindable'
<1>1. CASE Prompts
  <2>1. supervisorLeft' => supervisorLeft \/ ~Gone(SupervisorDir)
    BY <1>1 DEF Prompts, StopsSupervisor
  <2>2. Gone(SupervisorDir)' <=> Gone(SupervisorDir)
    BY <1>1 DEF Prompts, Gone, tdWorld
  <2> QED BY <2>1, <2>2 DEF SupervisorStaysFindable
<1>2. CASE Drops /\ Removed(This)
  <2>1. OnShelf(This) /\ supervisorLeft' = supervisorLeft
    BY <1>2, DropsOne DEF Drops
  <2>2. OnShelf(SupervisorDir)
    <3>1. <<"supervisor">> \in DOMAIN disk
      BY TeardownAssumption, PathsAre DEF TdTypeOK
    <3> QED BY <3>1 DEF OnShelf, SupervisorDir
  <2>3. supervisorLeft => ~Gone(SupervisorDir) /\ This # SupervisorDir
    <3>1. supervisorLeft /\ This = SupervisorDir => UNCHANGED tdWorld
      BY <1>2 DEF Drops, KeptForIt
    <3>2. This = SupervisorDir => Gone(SupervisorDir)'
      BY <1>2, <2>1, <2>2, RemovedIs
    <3>3. UNCHANGED tdWorld => (Gone(SupervisorDir)' <=> Gone(SupervisorDir))
      BY DEF Gone, tdWorld
    <3> QED BY <3>1, <3>2, <3>3 DEF SupervisorStaysFindable
  <2> QED BY <1>2, <2>1, <2>2, <2>3, RemovedIs DEF SupervisorStaysFindable
<1>3. CASE Hand
  BY <1>3, GoneIs, GoneWillBe DEF Hand, SupervisorStaysFindable, SupervisorDir
<1>4. CASE UNCHANGED <<tdWorld, supervisorLeft>>
  BY <1>4 DEF tdWorld, Gone, SupervisorStaysFindable
<1>5. Prompts \/ (Drops /\ Removed(This)) \/ Hand \/ UNCHANGED <<tdWorld, supervisorLeft>>
  BY Zenon DEF TeardownNext, Begins, Asks, ListsOrphans, ListsNetworks, LooksAtImages, Drops, Plans,
         PlansOrphans, PlansNetworks, Checks, tdVars
<1> QED BY <1>1, <1>2, <1>3, <1>4, <1>5

-----------------------------------------------------------------------------
(* A down has removed what it was asked to.                                *)

\* The images a service's look would have found before the command.
WasFound(s) ==
  ImagesToRemove(s, command.rmi = "all", {i \in DOMAIN img : before.img[i].there},
                 [i \in DOMAIN img |-> before.img[i].labels], {})

\* It is gone, or the command is excused.
Settled(x) ==
  \/ Gone(x) \/ Excused(x)
  \/ x.kind = "container" /\ box[x.on] # "ours"
  \/ /\ x.kind \in {"network", "volume"}
     /\ \E n \in Excuses : before.box[n] = "ours"

\* The task would see to the thing, if it is still there.
SeesTo(t, x) ==
  \/ t = [do |-> "drop", thing |-> x]
  \/ x.kind = "container" /\ t = Task("ask", "container", x.on)
  \/ x.kind = "container" /\ x.on \notin Expected /\ t = Task("orphans", "", None)
  \/ x.kind = "network" /\ t = Task("networks", "", None)
  \/ x.kind = "image" /\ \E s \in Services : x.on \in WasFound(s) /\ t = Task("images", "service", s)

Due(x) == \E t \in ToSet(todo) : SeesTo(t, x)

\* The containers come first, and all there was to remove is settled or due.
Clearing ==
  command.verb = "down" /\ ~Starting =>
    /\ Ranked(todo)
    /\ said = {} => \A x \in Meant : Settled(x) \/ Due(x)

LEMMA MeantAre ==
  ASSUME NEW x
  PROVE  x \in Meant <=>
           \/ \E n \in Names : /\ x = Thing("container", n) /\ before.box[n] = "ours"
                               /\ n \in Expected \/ command.orphans
           \/ \E n \in NetsOf(before.net, {}) : x = Thing("network", n)
           \/ command.volumes /\ \E v \in NamedVolumes : x = Thing("volume", v)
           \/ command.rmi # "no" /\ \E s \in Services : \E i \in WasFound(s) : x = Thing("image", i)
<1> DEFINE C == {n \in Names : before.box[n] = "ours" /\ (n \in Expected \/ command.orphans)}
           N == ToSet(ProjectNetworks(before.net, {}))
           V == IF command.volumes THEN NamedVolumes ELSE {}
           I == IF command.rmi = "no" THEN {} ELSE UNION {WasFound(s) : s \in Services}
<1>1. Meant = ((Things("container", C) \cup Things("network", N)) \cup Things("volume", V)) \cup Things("image", I)
  BY DEF Meant, WasFound
<1>2. N = NetsOf(before.net, {})
  BY NetsAre
<1>3. \A i : i \in I <=> command.rmi # "no" /\ \E s \in Services : i \in WasFound(s)
  OBVIOUS
<1>4. \A v : v \in V <=> command.volumes /\ v \in NamedVolumes
  OBVIOUS
<1>5. \A n : n \in C <=> n \in Names /\ before.box[n] = "ours" /\ (n \in Expected \/ command.orphans)
  OBVIOUS
<1> HIDE DEF C, N, V, I
<1>6. x \in Meant <=> \/ \E n \in C : x = Thing("container", n)
                      \/ \E n \in N : x = Thing("network", n)
                      \/ \E v \in V : x = Thing("volume", v)
                      \/ \E i \in I : x = Thing("image", i)
  BY <1>1 DEF Things
<1> QED BY <1>2, <1>3, <1>4, <1>5, <1>6

LEMMA MeantThings ==
  ASSUME NEW x \in Meant
  PROVE  x \in ThingSet
<1>1. NetsOf(before.net, {}) \subseteq NetNames
  BY DEF NetsOf, NetNames, NamedNetworks
<1>2. \A s \in Services : WasFound(s) \subseteq ImageNames
  BY FoundAreNames DEF WasFound
<1> QED BY <1>1, <1>2, MeantAre, TasksInSet

\* What is meant is told by the command and by what it found.
LEMMA MeantStays ==
  ASSUME command' = command, before' = before, DOMAIN img' = DOMAIN img
  PROVE  /\ Meant' = Meant
         /\ \A s : WasFound(s)' = WasFound(s)
         /\ \A t, x : SeesTo(t, x)' <=> SeesTo(t, x)
<1>1. \A s : WasFound(s)' = WasFound(s)
  BY DEF WasFound
<1>2. Meant' = Meant
  BY DEF Meant
<1>3. \A t, x : SeesTo(t, x)' <=> SeesTo(t, x)
  BY <1>1 DEF SeesTo
<1> QED BY <1>1, <1>2, <1>3

\* Nothing comes back but a name in another's hands.
LEMMA NothingComesBack ==
  ASSUME TdTypeOK, AsBefore, [TeardownNext]_tdVars
  PROVE  /\ \A n \in Names : box[n] # "ours" => box'[n] # "ours"
         /\ \A x \in ThingSet : x.kind # "container" /\ Gone(x) => Gone(x)'
<1>1. CASE Hand
  <2>1. PICK n \in Names, owner \in {"nobody", "other"} :
          box' = [box EXCEPT ![n] = owner] /\ UNCHANGED <<net, vol, img, disk>>
    BY <1>1 DEF Hand
  <2>2. \A m \in Names : box'[m] = IF m = n THEN owner ELSE box[m]
    BY <2>1 DEF TdTypeOK
  <2>3. \A x \in ThingSet : x.kind # "container" /\ Gone(x) => Gone(x)'
    BY <2>1, GoneIs, GoneWillBe, ThingsDiffer DEF ThingSet, Things
  <2> QED BY <2>2, <2>3
<1>2. CASE Drops /\ Removed(This)
  <2>1. OnShelf(This) /\ This \in ThingSet
    BY <1>2, DropsOne
  <2>2. \A x \in ThingSet : Gone(x) => Gone(x)'
    BY <1>2, <2>1, RemovedIs, ThingSetOnShelf
  <2>3. box' = box \/ \E n \in Names : box' = [box EXCEPT ![n] = "nobody"]
    <3>1. This.kind = "container" => This.on \in Names
      BY <2>1, ThingsDiffer DEF OnShelf
    <3> QED BY <1>2, <3>1 DEF Removed
  <2>4. \A n \in Names : box[n] # "ours" => box'[n] # "ours"
    BY <2>3 DEF TdTypeOK
  <2> QED BY <2>2, <2>4
<1>3. CASE UNCHANGED tdWorld
  BY <1>3 DEF tdWorld, Gone
<1>4. Hand \/ (Drops /\ Removed(This)) \/ UNCHANGED tdWorld
  BY Zenon DEF TeardownNext, Begins, Asks, ListsOrphans, ListsNetworks, LooksAtImages, Drops, Plans,
         PlansOrphans, PlansNetworks, Prompts, Checks, tdVars
<1> QED BY <1>1, <1>2, <1>3, <1>4

LEMMA ExcusesGrow ==
  ASSUME WorldTyped, AsBefore, [TeardownNext]_tdVars
  PROVE  Excuses \subseteq Excuses' /\ \A x : Excused(x) => Excused(x)'
<1>1. command' = command /\ stayed \subseteq stayed' /\ deaf \subseteq deaf' /\ ToSet(hands) \subseteq ToSet(hands')
  BY HistoryStep
<1>2. \A x : Excused(x) => Excused(x)'
  BY <1>1 DEF Excused, Touched
<1> QED BY <1>1, <1>2 DEF Excuses

LEMMA SettledStays ==
  ASSUME TdTypeOK, AsBefore, [TeardownNext]_tdVars, NEW x \in ThingSet, Settled(x)
  PROVE  Settled(x)'
<1>0. before' = before
  BY HistoryStep, TypesAre
<1>1. CASE Excused(x)
  BY <1>1, ExcusesGrow, TypesAre DEF Settled
<1>2. CASE x.kind = "container" /\ (Gone(x) \/ box[x.on] # "ours")
  <2>1. PICK n \in Names : x = Thing("container", n)
    BY <1>2, ThingsDiffer DEF ThingSet, Things
  <2>2. x.on = n /\ box[n] # "ours"
    BY <1>2, <2>1, ThingsDiffer, GoneIs
  <2>3. box'[n] # "ours"
    BY <2>2, NothingComesBack
  <2> QED BY <1>2, <2>2, <2>3 DEF Settled
<1>3. CASE x.kind # "container" /\ Gone(x)
  BY <1>3, NothingComesBack DEF Settled
<1>4. CASE x.kind \in {"network", "volume"} /\ \E n \in Excuses : before.box[n] = "ours"
  BY <1>0, <1>4, ExcusesGrow, TypesAre DEF Settled
<1> QED BY <1>1, <1>2, <1>3, <1>4 DEF Settled

\* A task that goes has seen to its thing, or left another that will.
LEMMA ClearsOn ==
  ASSUME TdTypeOK, AsBefore, [TeardownNext]_tdVars, NEW put, TakesOn(put),
         \A x \in Meant : Settled(x) \/ Due(x),
         \A x \in Meant : SeesTo(Head(todo), x) => Settled(x)' \/ \E t \in put : SeesTo(t, x)
  PROVE  \A x \in Meant' : Settled(x)' \/ Due(x)'
<1>1. Meant' = Meant /\ \A t, x : SeesTo(t, x)' <=> SeesTo(t, x)
  <2>1. command' = command /\ before' = before
    BY HistoryStep, TypesAre
  <2>2. DOMAIN img' = DOMAIN img
    BY <2>1, WorldStep, TypesAre, TypesWillBe DEF WorldTyped
  <2> QED BY <2>1, <2>2, MeantStays
<1> SUFFICES ASSUME NEW x \in Meant, ~Settled(x)' PROVE Due(x)'
  BY <1>1
<1>2. ~Settled(x)
  BY SettledStays, MeantThings
<1>3. PICK t \in ToSet(todo) : SeesTo(t, x)
  BY <1>2 DEF Due
<1>4. \E u \in ToSet(todo') : SeesTo(u, x)
  <2>1. CASE t = Head(todo)
    BY <1>3, <2>1 DEF TakesOn
  <2>2. CASE t # Head(todo)
    BY <1>3, <2>2 DEF TakesOn
  <2> QED BY <2>1, <2>2
<1> QED BY <1>1, <1>4 DEF Due

\* What a task sees to, by the task.
LEMMA SeenTo ==
  ASSUME NEW x \in Meant
  PROVE  /\ \A n : SeesTo(Task("ask", "container", n), x) => x = Thing("container", n)
         /\ \A k, n : SeesTo(Task("drop", k, n), x) <=> x = Thing(k, n)
         /\ \A y : SeesTo([do |-> "drop", thing |-> y], x) => x = y
         /\ SeesTo(Task("orphans", "", None), x) =>
              \E n \in Names \ Expected : x = Thing("container", n)
         /\ SeesTo(Task("networks", "", None), x) => \E n \in NetsOf(before.net, {}) : x = Thing("network", n)
         /\ \A s : SeesTo(Task("images", "service", s), x) => \E i \in WasFound(s) : x = Thing("image", i)
<1>1. x \in ThingSet
  BY MeantThings
<1>2. /\ x.kind = "container" => \E n \in Names : x = Thing("container", n) /\ x.on = n
      /\ x.kind = "network" => \E n \in NetsOf(before.net, {}) : x = Thing("network", n)
      /\ x.kind = "image" => x = Thing("image", x.on)
  BY MeantAre, ThingsDiffer
<1>3. ASSUME NEW t, SeesTo(t, x)
      PROVE  \/ t.do = "drop" /\ t.thing = x
             \/ t.do = "ask" /\ x.kind = "container" /\ t.thing = Thing("container", x.on)
             \/ t.do = "orphans" /\ x.kind = "container" /\ x.on \notin Expected
             \/ t.do = "networks" /\ x.kind = "network"
             \/ /\ t.do = "images" /\ x.kind = "image"
                /\ \E s \in Services : x.on \in WasFound(s) /\ t.thing = Thing("service", s)
  <2>1. CASE t = [do |-> "drop", thing |-> x]
    BY <2>1
  <2>2. CASE x.kind = "container" /\ t = Task("ask", "container", x.on)
    BY <2>2, TaskIs
  <2>3. CASE x.kind = "container" /\ x.on \notin Expected /\ t = Task("orphans", "", None)
    BY <2>3, TaskIs
  <2>4. CASE x.kind = "network" /\ t = Task("networks", "", None)
    BY <2>4, TaskIs
  <2>5. CASE x.kind = "image" /\ \E s \in Services : x.on \in WasFound(s) /\ t = Task("images", "service", s)
    BY <2>5, TaskIs
  <2> QED BY <1>3, <2>1, <2>2, <2>3, <2>4, <2>5 DEF SeesTo
<1>4. ASSUME NEW n, SeesTo(Task("ask", "container", n), x) PROVE x = Thing("container", n)
  <2> DEFINE t == Task("ask", "container", n)
  <2>1. t.do = "ask" /\ t.thing = Thing("container", n)
    BY TaskIs
  <2> HIDE DEF t
  <2>2. x.kind = "container" /\ t.thing = Thing("container", x.on)
    BY <1>3, <1>4, <2>1 DEF t
  <2> QED BY <1>2, <2>1, <2>2
<1>5. ASSUME NEW k, NEW n PROVE SeesTo(Task("drop", k, n), x) <=> x = Thing(k, n)
  <2> DEFINE t == Task("drop", k, n)
  <2>1. t.do = "drop" /\ t.thing = Thing(k, n) /\ t = [do |-> "drop", thing |-> Thing(k, n)]
    BY TaskIs DEF Task
  <2>2. x = Thing(k, n) => SeesTo(t, x)
    BY <2>1 DEF SeesTo
  <2> HIDE DEF t
  <2>3. SeesTo(t, x) => t.thing = x
    BY <1>3, <2>1
  <2> QED BY <2>1, <2>2, <2>3 DEF t
<1>6. ASSUME NEW y, SeesTo([do |-> "drop", thing |-> y], x) PROVE x = y
  <2> DEFINE t == [do |-> "drop", thing |-> y]
  <2>1. t.do = "drop" /\ t.thing = y
    OBVIOUS
  <2> HIDE DEF t
  <2>2. SeesTo(t, x) => t.thing = x
    BY <1>3, <2>1
  <2> QED BY <1>6, <2>1, <2>2 DEF t
<1>7. ASSUME SeesTo(Task("orphans", "", None), x) PROVE \E n \in Names \ Expected : x = Thing("container", n)
  <2> DEFINE t == Task("orphans", "", None)
  <2>1. t.do = "orphans"
    BY TaskIs
  <2> HIDE DEF t
  <2>2. x.kind = "container" /\ x.on \notin Expected
    BY <1>3, <1>7, <2>1 DEF t
  <2> QED BY <1>2, <2>2
<1>8. ASSUME SeesTo(Task("networks", "", None), x) PROVE \E n \in NetsOf(before.net, {}) : x = Thing("network", n)
  <2> DEFINE t == Task("networks", "", None)
  <2>1. t.do = "networks"
    BY TaskIs
  <2> HIDE DEF t
  <2>2. x.kind = "network"
    BY <1>3, <1>8, <2>1 DEF t
  <2> QED BY <1>2, <2>2
<1>9. ASSUME NEW s, SeesTo(Task("images", "service", s), x) PROVE \E i \in WasFound(s) : x = Thing("image", i)
  <2> DEFINE t == Task("images", "service", s)
  <2>1. t.do = "images" /\ t.thing = Thing("service", s)
    BY TaskIs
  <2> HIDE DEF t
  <2>2. PICK r \in Services : x.kind = "image" /\ x.on \in WasFound(r) /\ t.thing = Thing("service", r)
    BY <1>3, <1>9, <2>1 DEF t
  <2>3. r = s
    BY <2>1, <2>2, ThingsDiffer
  <2> QED BY <1>2, <2>2, <2>3
<1> QED BY <1>4, <1>5, <1>6, <1>7, <1>8, <1>9

LEMMA BeginClears ==
  ASSUME TdTypeOK, AsBefore, Kinds, Begins, command.verb = "down"
  PROVE  Ranked(todo') /\ \A x \in Meant' : Due(x)'
<1>1. todo' = DownTasks /\ command' = command /\ before' = before /\ img' = img
  BY DEF Begins, tdWorld, tdSeen
<1>2. Ranked(todo') /\ ToSet(todo') = DownAsked
  BY <1>1, DownTasksAre
<1>3. Meant' = Meant /\ \A t, x : SeesTo(t, x)' <=> SeesTo(t, x)
  BY <1>1, MeantStays
<1>4. ASSUME NEW x \in Meant PROVE \E t \in DownAsked : SeesTo(t, x)
  <2>1. CASE \E n \in Names : x = Thing("container", n) /\ (n \in Expected \/ command.orphans)
    <3>1. PICK n \in Names : x = Thing("container", n) /\ (n \in Expected \/ command.orphans)
      BY <2>1
    <3>2. x.kind = "container" /\ x.on = n
      BY <3>1, ThingsDiffer
    <3>3. CASE n \in Expected
      BY <3>2, <3>3 DEF SeesTo, DownAsked
    <3>4. CASE n \notin Expected
      BY <3>1, <3>2, <3>4 DEF SeesTo, DownAsked
    <3> QED BY <3>3, <3>4
  <2>2. CASE \E n : x = Thing("network", n)
    <3>1. x.kind = "network"
      BY <2>2, ThingsDiffer
    <3> QED BY <3>1 DEF SeesTo, DownAsked
  <2>3. CASE command.volumes /\ \E v \in NamedVolumes : x = Thing("volume", v)
    <3>1. PICK v \in NamedVolumes : x = Thing("volume", v)
      BY <2>3
    <3>2. Task("drop", "volume", v) \in DownAsked
      BY <2>3 DEF DownAsked
    <3> QED BY <3>1, <3>2, SeenTo
  <2>4. CASE command.rmi # "no" /\ \E s \in Services : \E i \in WasFound(s) : x = Thing("image", i)
    <3>1. PICK s \in Services : \E i \in WasFound(s) : x = Thing("image", i)
      BY <2>4
    <3>2. x.kind = "image" /\ x.on \in WasFound(s)
      BY <3>1, ThingsDiffer
    <3>3. Task("images", "service", s) \in DownAsked
      BY <2>4 DEF DownAsked
    <3> QED BY <3>2, <3>3 DEF SeesTo
  <2> QED BY <2>1, <2>2, <2>3, <2>4, MeantAre
<1> QED BY <1>2, <1>3, <1>4 DEF Due

\* The steps: the hypotheses of ClearsOn, one by one.
LEMMA AsksClears ==
  ASSUME TdTypeOK, AsBefore, Asks, said' = {}
  PROVE  \E put : /\ TakesOn(put) /\ \A t \in put : OfContainers(t)
                  /\ \A x \in Meant : SeesTo(Head(todo), x) => Settled(x)' \/ \E t \in put : SeesTo(t, x)
<1>1. PICK n \in Names : /\ Head(todo) = Task("ask", "container", n) /\ This = Thing("container", n) /\ This.on = n
  <2>1. todo # <<>> /\ Head(todo) \in TaskSet /\ Head(todo).do = "ask"
    BY BeheadedIs DEF TdTypeOK, Asks, Pending
  <2>2. PICK n \in Names : Head(todo) = Task("ask", "container", n)
    BY <2>1, TasksByDo
  <2> QED BY <2>2, TaskIs, ThingsDiffer DEF This
<1>2. ASSUME NEW x \in Meant, SeesTo(Head(todo), x) PROVE x = Thing("container", n)
  <2>1. SeesTo(Task("ask", "container", n), x)
    BY <1>1, <1>2
  <2> QED BY <2>1, SeenTo
<1>3. CASE MayTake(box[n]) /\ TakesOn({Task("drop", "container", n)})
  <2>1. \A x \in Meant : SeesTo(Head(todo), x) => SeesTo(Task("drop", "container", n), x)
    BY <1>2, SeenTo
  <2>2. \A t \in {Task("drop", "container", n)} : OfContainers(t)
    BY TaskIs, ThingsDiffer DEF OfContainers
  <2> QED BY <1>3, <2>1, <2>2
<1>4. CASE ~MayTake(box[n]) /\ TakesOn({})
  <2>1. box'[n] # "ours"
    BY <1>4 DEF Asks, MayTake, tdWorld
  <2>2. Thing("container", n).kind = "container" /\ Thing("container", n).on = n
    BY ThingsDiffer
  <2>3. Settled(Thing("container", n))'
    BY <2>1, <2>2 DEF Settled, Thing
  <2>4. \A x \in Meant : SeesTo(Head(todo), x) => Settled(x)'
    BY <1>2, <2>3
  <2> QED BY <1>4, <2>4
<1>5. (MayTake(box[n]) /\ TakesOn({Task("drop", "container", n)})) \/ (~MayTake(box[n]) /\ TakesOn({}))
  BY <1>1, AsksPuts
<1> QED BY <1>3, <1>4, <1>5

LEMMA OrphansClears ==
  ASSUME TdTypeOK, AsBefore, ListsOrphans
  PROVE  \E put : /\ TakesOn(put) /\ \A t \in put : OfContainers(t)
                  /\ \A x \in Meant : SeesTo(Head(todo), x) => Settled(x)' \/ \E t \in put : SeesTo(t, x)
<1>1. \A x \in Meant : SeesTo(Head(todo), x) => \E n \in Names \ Expected : x = Thing("container", n)
  BY OrphansPut, SeenTo
<1>2. CASE TakesOn({Task("drop", "container", n) : n \in Orphans(box)})
  <2> DEFINE put == {Task("drop", "container", n) : n \in Orphans(box)}
  <2>1. \A t \in put : OfContainers(t)
    BY TaskIs, ThingsDiffer DEF OfContainers
  <2>2. ASSUME NEW x \in Meant, SeesTo(Head(todo), x) PROVE Settled(x)' \/ \E t \in put : SeesTo(t, x)
    <3>1. PICK n \in Names \ Expected : x = Thing("container", n)
      BY <1>1, <2>2
    <3>2. CASE box[n] = "ours"
      <4>1. Task("drop", "container", n) \in put
        BY <3>2 DEF Orphans
      <4> QED BY <3>1, <4>1, SeenTo
    <3>3. CASE box[n] # "ours"
      <4>1. x.kind = "container" /\ x.on = n /\ box' = box
        BY <3>1, ThingsDiffer DEF ListsOrphans, tdWorld
      <4> QED BY <3>3, <4>1 DEF Settled
    <3> QED BY <3>2, <3>3
  <2> QED BY <1>2, <2>1, <2>2
<1>3. CASE TakesOn({}) /\ deaf' = deaf \cup {Thing("container", n) : n \in Names \ Expected}
  <2>1. \A x \in Meant : SeesTo(Head(todo), x) => Settled(x)'
    BY <1>1, <1>3 DEF Settled, Excused
  <2> QED BY <1>3, <2>1
<1> QED BY <1>2, <1>3, OrphansPut

LEMMA NetworksClears ==
  ASSUME TdTypeOK, AsBefore, ListsNetworks
  PROVE  \E put : /\ TakesOn(put) /\ \A t \in put : ~OfContainers(t)
                  /\ \A x \in Meant : SeesTo(Head(todo), x) => Settled(x)' \/ \E t \in put : SeesTo(t, x)
<1>0. Head(todo) = Task("networks", "", None) /\ todo # <<>>
  <2>1. todo # <<>> /\ Head(todo) \in TaskSet /\ Head(todo).do = "networks"
    BY BeheadedIs DEF TdTypeOK, ListsNetworks, Pending
  <2> QED BY <2>1, TasksByDo
<1>1. PICK unread \in SUBSET NetworkOwnNames :
        /\ deaf' = deaf \cup {Thing("network", n) : n \in unread}
        /\ Done(Each("drop", "network", ProjectNetworks(net, unread)))
  BY DEF ListsNetworks
<1> DEFINE put == {Task("drop", "network", n) : n \in NetsOf(net, unread)}
<1>2. TakesOn(put)
  BY <1>0, <1>1, NetworksPut
<1>3. \A t \in put : ~OfContainers(t)
  BY TaskIs, ThingsDiffer DEF OfContainers
<1>4. ASSUME NEW x \in Meant, SeesTo(Head(todo), x) PROVE Settled(x)' \/ \E t \in put : SeesTo(t, x)
  <2>1. PICK n \in NetsOf(before.net, {}) : x = Thing("network", n)
    BY <1>0, <1>4, SeenTo
  <2>2. CASE n \in NetsOf(net, unread)
    <3>1. Task("drop", "network", n) \in put
      BY <2>2
    <3> QED BY <2>1, <3>1, SeenTo
  <2>3. CASE n \notin NetsOf(net, unread)
    <3>1. n \in NetworkOwnNames /\ before.net[n] = "ours" /\ (n \in unread \/ net[n] # "ours")
      BY <2>3 DEF NetsOf, NamedNetworks
    <3>2. CASE n \in unread
      BY <1>1, <2>1, <3>2 DEF Settled, Excused
    <3>3. CASE net[n] # "ours"
      <4>1. n \in DOMAIN net
        BY <3>1, TeardownAssumption DEF TdTypeOK, NetNames
      <4>2. net'[n] = "none"
        BY <3>1, <3>3, <4>1 DEF AsBefore, ListsNetworks, tdWorld
      <4> QED BY <2>1, <4>2, GoneWillBe DEF Settled
    <3> QED BY <3>1, <3>2, <3>3
  <2> QED BY <2>2, <2>3
<1> QED BY <1>2, <1>3, <1>4

LEMMA ImagesClears ==
  ASSUME TdTypeOK, AsBefore, LooksAtImages
  PROVE  \E put : /\ TakesOn(put) /\ \A t \in put : ~OfContainers(t)
                  /\ \A x \in Meant : SeesTo(Head(todo), x) => Settled(x)' \/ \E t \in put : SeesTo(t, x)
<1>1. PICK s \in Services, unread \in SUBSET ({ServiceImage(This.on), FormerBuiltImage(This.on)} \cap There) :
        /\ Head(todo) = Task("images", "service", s)
        /\ deaf' = deaf \cup {Thing("image", i) : i \in unread}
        /\ TakesOn({Task("drop", "image", i) : i \in FoundImages(s, unread)})
  BY ImagesPut
<1> DEFINE put == {Task("drop", "image", i) : i \in FoundImages(s, unread)}
<1>2. \A t \in put : ~OfContainers(t)
  BY TaskIs, ThingsDiffer DEF OfContainers
<1>3. ASSUME NEW x \in Meant, SeesTo(Head(todo), x) PROVE Settled(x)' \/ \E t \in put : SeesTo(t, x)
  <2>0. SeesTo(Task("images", "service", s), x)
    BY <1>1, <1>3
  <2>1. PICK i \in WasFound(s) : x = Thing("image", i)
    BY <2>0, SeenTo
  <2>2. i \in DOMAIN img
    BY FoundAreNames, TeardownAssumption DEF WasFound, TdTypeOK
  <2>3. CASE i \in FoundImages(s, unread)
    <3>1. Task("drop", "image", i) \in put
      BY <2>3
    <3> QED BY <2>1, <3>1, SeenTo
  <2>4. CASE i \in unread
    BY <1>1, <2>1, <2>4 DEF Settled, Excused
  <2>5. CASE ~img[i].there
    <3>1. ~img'[i].there
      BY <2>5 DEF LooksAtImages, tdWorld
    <3> QED BY <2>1, <3>1, GoneWillBe DEF Settled
  <2>6. CASE i \notin unread /\ img[i].there
    <3>1. i \in There \ unread /\ i # None /\ Labels[i] = before.img[i].labels
      BY <2>1, <2>2, <2>6 DEF There, Labels, AsBefore, WasFound, ImagesToRemove
    <3>2. \/ i = FormerBuiltImage(s)
          \/ /\ i = ServiceImage(s)
             /\ \/ command.rmi = "all"
                \/ ImageOf[s].build /\ (i = BuiltName(s) \/ BuiltHere(before.img[i].labels))
      BY <2>1, <2>2 DEF WasFound, ImagesToRemove
    <3>3. i \in FoundImages(s, unread)
      BY <3>1, <3>2 DEF FoundImages, ImagesToRemove
    <3> QED BY <2>3, <3>3
  <2> QED BY <2>4, <2>5, <2>6
<1> QED BY <1>1, <1>2, <1>3

\* What holds a network or a volume after the containers' tasks is one the
\* command was not asked to remove, or could not.
LEMMA HolderExcused ==
  ASSUME TdTypeOK, AsBefore, \A t \in ToSet(todo) : ~OfContainers(t),
         \A x \in Meant : Settled(x) \/ Due(x), NEW b \in Names, box[b] = "ours"
  PROVE  b \in Excuses /\ before.box[b] = "ours"
<1>1. before.box[b] = "ours"
  BY DEF AsBefore
<1>2. CASE b \in Expected \/ command.orphans
  <2> DEFINE y == Thing("container", b)
  <2>1. y \in Meant
    BY <1>1, <1>2, MeantAre
  <2>2. y.kind = "container" /\ y.on = b
    BY ThingsDiffer
  <2>3. ~Due(y)
    <3>1. \A t : SeesTo(t, y) => OfContainers(t)
      <4>1. OfContainers([do |-> "drop", thing |-> y])
        BY <2>2 DEF OfContainers
      <4>2. \A n : OfContainers(Task("ask", "container", n))
        BY TaskIs DEF OfContainers
      <4>3. OfContainers(Task("orphans", "", None))
        BY TaskIs, ZenonT(60) DEF OfContainers
      <4> QED BY <2>2, <4>1, <4>2, <4>3 DEF SeesTo
    <3> QED BY <3>1 DEF Due
  <2>4. Excused(y)
    BY <2>1, <2>2, <2>3, GoneIs DEF Settled
  <2> QED BY <1>1, <2>4 DEF Excuses
<1>3. CASE ~(b \in Expected \/ command.orphans)
  BY <1>1, <1>3 DEF Excuses
<1> QED BY <1>2, <1>3

LEMMA DropClears ==
  ASSUME TdTypeOK, AsBefore, Drops, Ranked(todo), \A x \in Meant : Settled(x) \/ Due(x)
  PROVE  \E put : /\ TakesOn(put) /\ \A t \in put : OfContainers(t)
                  /\ \A x \in Meant : SeesTo(Head(todo), x) => Settled(x)' \/ \E t \in put : SeesTo(t, x)
<1>1. TakesOn({}) /\ Head(todo).do = "drop" /\ Head(todo).thing = This /\ OnShelf(This)
      /\ Head(todo) \in TaskSet /\ todo \in Seq(TaskSet) /\ todo # <<>>
  BY DropsOne DEF TakesOn, TdTypeOK
<1>2. ASSUME NEW x \in Meant, SeesTo(Head(todo), x) PROVE x = This
  <2>1. \/ Head(todo) = [do |-> "drop", thing |-> x]
        \/ \E d, k, n : d # "drop" /\ Head(todo) = Task(d, k, n)
    BY <1>2 DEF SeesTo
  <2> QED BY <1>1, <2>1, TaskIs
<1>3. CASE Removed(This)
  BY <1>1, <1>2, <1>3, RemovedIs DEF Settled
<1>4. CASE stayed' = {This}
  BY <1>1, <1>2, <1>4 DEF Settled, Excused
<1>5. CASE Held(This) /\ UNCHANGED tdWorld
  <2>1. This.kind \in {"network", "volume"} /\ \E b \in Names : box[b] = "ours"
    BY <1>5 DEF Held, HeldNet, HeldVol
  <2>2. \A t \in ToSet(todo) : ~OfContainers(t)
    <3>1. ~OfContainers(Head(todo))
      BY <1>1, <2>1 DEF OfContainers
    <3> QED BY <1>1, <3>1, RankedTail
  <2>3. \E b \in Excuses : before.box[b] = "ours"
    BY <2>1, <2>2, HolderExcused
  <2>4. Excuses \subseteq Excuses' /\ before' = before
    BY ExcusesGrow, TypesAre DEF TeardownNext, Drops
  <2>5. ASSUME NEW x \in Meant, SeesTo(Head(todo), x) PROVE Settled(x)'
    <3>1. x.kind \in {"network", "volume"}
      BY <1>2, <2>1, <2>5
    <3> QED BY <2>3, <2>4, <3>1 DEF Settled
  <2> QED BY <1>1, <2>5
<1>6. CASE KeptForIt(This)
  <2>1. \A x \in Meant : x # This
    BY <1>6, ThingsDiffer DEF KeptForIt, SupervisorDir, Meant, Things
  <2> QED BY <1>1, <1>2, <2>1
<1> QED BY <1>3, <1>4, <1>5, <1>6 DEF Drops

\* One step of a down that has begun, by the tasks it puts in.
LEMMA ClearingOn ==
  ASSUME TdTypeOK, AsBefore, Clearing, command.verb = "down", ~Starting, [TeardownNext]_tdVars, NEW put,
         TakesOn(put),
         (\A t \in put : OfContainers(t)) \/ (\A t \in put \cup {Head(todo)} : ~OfContainers(t)),
         said' = {} => \A x \in Meant : SeesTo(Head(todo), x) => Settled(x)' \/ \E t \in put : SeesTo(t, x)
  PROVE  Ranked(todo') /\ (said' = {} => \A x \in Meant' : Settled(x)' \/ Due(x)')
<1>1. Ranked(todo')
  BY DEF TakesOn, Clearing
<1>2. ASSUME said' = {} PROVE \A x \in Meant' : Settled(x)' \/ Due(x)'
  <2>1. said = {}
    BY <1>2, HistoryStep, TypesAre
  <2>2. \A x \in Meant : Settled(x) \/ Due(x)
    BY <2>1 DEF Clearing
  <2>3. \A x \in Meant : SeesTo(Head(todo), x) => Settled(x)' \/ \E t \in put : SeesTo(t, x)
    BY <1>2
  <2> QED BY <2>2, <2>3, ClearsOn
<1> QED BY <1>1, <1>2

LEMMA ClearingStep ==
  ASSUME TdTypeOK, AsBefore, Kinds, Fresh, Clearing, [TeardownNext]_tdVars
  PROVE  Clearing'
<1>h. command' = command
  BY HistoryStep, TypesAre
<1> SUFFICES ASSUME command.verb = "down", ~Starting'
             PROVE  Ranked(todo') /\ (said' = {} => \A x \in Meant' : Settled(x)' \/ Due(x)')
  BY <1>h DEF Clearing
<1>1. CASE Begins
  BY <1>1, BeginClears
<1>2. CASE UNCHANGED tdVars
  <2>1. UNCHANGED <<command, todo, said, before, img>>
    BY <1>2 DEF tdVars, tdWorld, tdSeen
  <2>2. ~Starting
    BY <2>1 DEF Starting, Task, Thing, None
  <2>3. Ranked(todo')
    BY <2>1, <2>2 DEF Clearing
  <2>4. ASSUME said' = {}, NEW x \in Meant' PROVE Settled(x)' \/ Due(x)'
    <3>1. x \in Meant /\ (\A t : SeesTo(t, x)' <=> SeesTo(t, x))
      BY <2>1, <2>4, MeantStays
    <3>2. Settled(x) \/ Due(x)
      BY <2>1, <2>2, <2>4, <3>1 DEF Clearing
    <3>3. Due(x) => Due(x)'
      BY <2>1, <3>1 DEF Due
    <3>4. Settled(x) => Settled(x)'
      BY <3>1, MeantThings, SettledStays
    <3> QED BY <3>2, <3>3, <3>4
  <2> QED BY <2>3, <2>4
<1>3. CASE ~Begins /\ ~UNCHANGED tdVars
  <2>0. ~Starting
    BY <1>3, StartingBegins
  <2>1. CASE Asks
    <3>1. CASE said' = {}
      BY <2>0, <2>1, <3>1, AsksClears, ClearingOn
    <3>2. CASE said' # {}
      <4>1. TakesOn({}) \/ TakesOn({Task("drop", "container", This.on)})
        BY <2>1, AsksPuts
      <4>2. \A t \in {Task("drop", "container", This.on)} : OfContainers(t)
        BY TaskIs, ThingsDiffer DEF OfContainers
      <4> QED BY <2>0, <3>2, <4>1, <4>2, ClearingOn
    <3> QED BY <3>1, <3>2
  <2>2. CASE ListsOrphans
    BY <2>0, <2>2, OrphansClears, ClearingOn
  <2>3. CASE ListsNetworks
    <3>1. ~OfContainers(Head(todo))
      BY <2>3 DEF ListsNetworks, Pending, OfContainers
    <3> QED BY <2>0, <2>3, <3>1, NetworksClears, ClearingOn
  <2>4. CASE LooksAtImages
    <3>1. ~OfContainers(Head(todo))
      BY <2>4 DEF LooksAtImages, Pending, OfContainers
    <3> QED BY <2>0, <2>4, <3>1, ImagesClears, ClearingOn
  <2>5. CASE Drops
    <3>1. CASE said = {}
      <4>1. \E put : /\ TakesOn(put) /\ \A t \in put : OfContainers(t)
                     /\ \A x \in Meant : SeesTo(Head(todo), x) => Settled(x)' \/ \E t \in put : SeesTo(t, x)
        BY <2>0, <2>5, <3>1, DropClears DEF Clearing
      <4> QED BY <2>0, <4>1, ClearingOn
    <3>2. CASE said # {}
      <4>1. said' # {}
        BY <3>2, HistoryStep, TypesAre
      <4> QED BY <2>0, <2>5, <4>1, DropsOne, ClearingOn
    <3> QED BY <3>1, <3>2
  <2>6. CASE Hand
    <3>1. UNCHANGED <<command, todo, said, before, img>>
      BY <2>6 DEF Hand
    <3>2. Ranked(todo')
      BY <2>0, <3>1 DEF Clearing
    <3>3. ASSUME said' = {}, NEW x \in Meant' PROVE Settled(x)' \/ Due(x)'
      <4>1. x \in Meant /\ (\A t : SeesTo(t, x)' <=> SeesTo(t, x))
        BY <3>1, <3>3, MeantStays
      <4>2. Settled(x) \/ Due(x)
        BY <2>0, <3>1, <3>3, <4>1 DEF Clearing
      <4>3. Due(x) => Due(x)'
        BY <3>1, <4>1 DEF Due
      <4>4. Settled(x) => Settled(x)'
        BY <4>1, MeantThings, SettledStays
      <4> QED BY <4>2, <4>3, <4>4
    <3> QED BY <3>2, <3>3
  <2>7. Asks \/ ListsOrphans \/ ListsNetworks \/ LooksAtImages \/ Drops \/ Hand
    <3>1. todo # <<>> => Head(todo).do \in DownDoes
      BY <2>0, BeheadedIs DEF Kinds, TdTypeOK
    <3> QED BY <1>3, <3>1 DEF TeardownNext, Plans, PlansOrphans, PlansNetworks, Prompts, Checks, Pending, DownDoes
  <2> QED BY <2>1, <2>2, <2>3, <2>4, <2>5, <2>6, <2>7
<1> QED BY <1>1, <1>2, <1>3

-----------------------------------------------------------------------------
(* The theorem.                                                            *)

TakingDown ==
  TdTypeOK /\ AsBefore /\ Kinds /\ Fresh /\ Sparing /\ Truth /\ Clearing /\ SupervisorStaysFindable

LEMMA TakingDownStarts == ASSUME TeardownInit PROVE TakingDown
<1> DEFINE b == Task("begin", "", None)
<1>1. Starting /\ shown = <<>> /\ ~agreed
  BY DEF TeardownInit, Starting
<1>2. b \in TaskSet
  BY TasksInSet
<1>3. todo = <<b>>
  BY <1>1 DEF Starting
<1> HIDE DEF b
<1>4. todo \in Seq(TaskSet) /\ shown \in Seq(ThingSet)
  BY <1>1, <1>2, <1>3, OneTaskIs, NoTaskIs
<1>5. TdTypeOK /\ AsBefore
  BY <1>4, WorldInit, TypesAre
<1>6. Kinds /\ Fresh /\ Truth /\ Clearing /\ SupervisorStaysFindable
  BY <1>1 DEF Kinds, Fresh, Truth, Clearing, SupervisorStaysFindable, TeardownInit
<1> QED BY <1>5, <1>6, SparingInit DEF TakingDown

LEMMA TakingDownGoesOn == ASSUME TakingDown, [TeardownNext]_tdVars PROVE TakingDown'
BY WorldStep, KindsStep, SparingStep, TruthStep, ClearingStep, FindableStep DEF TakingDown

LEMMA TakenDown == ASSUME TakingDown PROVE TakesItsOwn
<1>1. todo = <<>> => ~Starting /\ ToSet(todo) = {}
  <2> DEFINE b == Task("begin", "", None)
  <2>1. Starting => todo = <<b>>
    BY DEF Starting
  <2> HIDE DEF b
  <2> QED BY <2>1, NoTaskIs
<1>2. DownClears
  <2> SUFFICES ASSUME Ended("down"), said = {}, NEW x \in Meant PROVE Settled(x)
    BY DEF DownClears, Settled
  <2>1. todo = <<>> /\ command.verb = "down"
    BY DEF Ended
  <2> QED BY <1>1, <2>1 DEF TakingDown, Clearing, Due
<1>3. DestroyTellsTheTruth
  <2> SUFFICES ASSUME Ended("destroy"), agreed, said = {}, NEW i \in DOMAIN shown
               PROVE  \/ Gone(shown[i]) \/ Touched(shown[i])
                      \/ shown[i].kind # "container" /\ shown[i] \in deaf
                      \/ shown[i] = SupervisorDir /\ supervisorLeft
    BY DEF DestroyTellsTheTruth
  <2>1. ToSet(todo) = {} /\ shown[i] \in ToSet(shown)
    BY <1>1 DEF Ended, ToSet
  <2> QED BY <2>1 DEF TakingDown, Truth, Told, KeptForIt
<1> QED BY <1>2, <1>3 DEF TakingDown, Sparing, TakesItsOwn, TakeDownClears

\* Down, DestroyPlanFor and Destroy: a `down` that reports nothing has removed all
\* it was asked to, but for what the runtime kept or would not talk about and what
\* such a thing holds; a destroy without an error has removed every line of the
\* plan it showed, but for a network, volume or image nobody answered about and the
\* directory of a supervisor that is left, which is there as long as that is; and
\* neither has removed anything of another's.
THEOREM TakedownsTakeTheirOwn == TeardownSpec => []TakesItsOwn
<1>1. TeardownInit => TakingDown
  BY TakingDownStarts
<1>2. TakingDown /\ [TeardownNext]_tdVars => TakingDown'
  BY TakingDownGoesOn
<1>3. TakingDown => TakesItsOwn
  BY TakenDown
<1> QED BY <1>1, <1>2, <1>3, PTL DEF TeardownSpec
=============================================================================
