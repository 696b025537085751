---------------------------- MODULE AnswersProofs ----------------------------
(***************************************************************************)
(* What six of the algorithms that read a project answer, for every input: *)
(* `up` makes of the networks of any file what it declares, and refuses    *)
(* nothing else; an entry of `ports:` is published alike in its short form *)
(* and its long one, or refused in both; every command walks the           *)
(* dependencies in order, and is refused for a cause; the commands that    *)
(* only guess at a project's name know it by the name it is loaded under;  *)
(* a container runs the words docker would run, in the groups the file     *)
(* adds; and a service has the mounts it writes or borrows, in whatever    *)
(* order the file is read.                                                 *)
(***************************************************************************)
EXTENDS ProjectAnswers, PortForms, RunFlags, SharedMounts, StartupOrder, FiniteSetTheorems, WellFoundedInduction, TLAPS

-----------------------------------------------------------------------------
(* Networks.                                                               *)

\* A set of numbers that is not empty has a least one.
LEMMA LeastOf ==
  ASSUME NEW T \in SUBSET Nat, T # {}
  PROVE  \E x \in T : \A y \in T : x <= y
<1> DEFINE R == OpToRel(<, Nat)
<1>1. IsWellFoundedOn(R, Nat)
  BY NatLessThanWellFounded
<1>2. \A x, y \in Nat : y < x => <<y, x>> \in R
  BY DEF OpToRel
<1> HIDE DEF R
<1>3. PICK x \in T : \A y \in T : ~(<<y, x>> \in R)
  BY <1>1, WFMin, Zenon
<1>4. \A y \in T : ~(y < x)
  BY <1>2, <1>3
<1> QED
  BY <1>4

\* A name that is joined is joined first somewhere.
LEMMA FirstOfAName ==
  ASSUME NEW p, IsProject(p), NEW names \in Seq(DOMAIN p.services), NEW j \in OwnJoins(p, names)
  PROVE  \E f \in FirstJoins(p, names) : JoinedAt(p, names, f).name = JoinedAt(p, names, j).name
<1> DEFINE Same(k) == JoinedAt(p, names, k).name = JoinedAt(p, names, j).name
           S == {k \in OwnJoins(p, names) : Same(k)}
<1>1. \A k \in OwnJoins(p, names) : k[1] \in Nat /\ k[2] \in Nat /\ k = <<k[1], k[2]>>
  <2>1. \A n \in DOMAIN p.services : DOMAIN KeysOf(p.services[n]) \subseteq Nat
    BY DEF IsProject, KeysOf
  <2>2. \A i \in DOMAIN names : i \in Nat /\ names[i] \in DOMAIN p.services
    OBVIOUS
  <2> QED BY <2>1, <2>2 DEF OwnJoins, JoinsOf
<1> DEFINE A == {k[1] : k \in S}
<1>2. j \in S
  OBVIOUS
<1>3. S \subseteq OwnJoins(p, names) /\ \A k \in S : Same(k)
  OBVIOUS
<1>4. \A k \in OwnJoins(p, names) : Same(k) => k \in S
  OBVIOUS
<1> HIDE DEF S, Same
<1>5. A \in SUBSET Nat /\ A # {}
  BY <1>1, <1>2, <1>3
<1>6. PICK a \in A : \A x \in A : a <= x
  BY <1>5, LeastOf
<1> DEFINE B == {k[2] : k \in {l \in S : l[1] = a}}
<1>7. B \in SUBSET Nat /\ B # {}
  BY <1>1, <1>3, <1>6
<1>8. PICK b \in B : \A x \in B : b <= x
  BY <1>7, LeastOf
<1>9. PICK f \in S : f[1] = a /\ f[2] = b
  BY <1>8
<1>10. \A k \in S : ~Sooner(k, f)
  <2> TAKE k \in S
  <2>1. k[1] \in Nat /\ k[2] \in Nat /\ a \in Nat /\ b \in Nat
    BY <1>1, <1>3, <1>5, <1>7
  <2>2. a <= k[1]
    BY <1>6
  <2>3. k[1] = a => b <= k[2]
    BY <1>8
  <2> HIDE DEF A, B
  <2> QED BY <1>9, <2>1, <2>2, <2>3 DEF Sooner
<1>11. f \in FirstJoins(p, names)
  <2> SUFFICES ASSUME NEW k \in OwnJoins(p, names), Sooner(k, f), JoinedAt(p, names, k).name = JoinedAt(p, names, f).name
               PROVE  FALSE
    BY <1>3, <1>9 DEF FirstJoins
  <2>1. Same(k)
    BY <1>3, <1>9 DEF Same
  <2> QED BY <1>4, <1>10, <2>1
<1> QED BY <1>3, <1>9, <1>11 DEF Same

\* What names are taken of the project's own, by whose keys.
LEMMA ManagedKeys ==
  ASSUME NEW p, IsProject(p), NEW names \in Seq(DOMAIN p.services)
  PROVE  /\ \A j \in OwnJoins(p, names) :
              /\ JoinedAt(p, names, j).key \in Managed(p, ToSet(names))
              /\ JoinedAt(p, names, j) = ResolveNetwork(p, JoinedAt(p, names, j).key)
         /\ \A k \in Managed(p, ToSet(names)) : \E j \in OwnJoins(p, names) : JoinedAt(p, names, j) = ResolveNetwork(p, k)
<1>1. ToSet(names) = {names[i] : i \in DOMAIN names}
  BY DEF ToSet
<1>2. \A n \in DOMAIN p.services : ToSet(KeysOf(p.services[n])) = {KeysOf(p.services[n])[i] : i \in DOMAIN KeysOf(p.services[n])}
  BY DEF ToSet
<1>3. \A k : ResolveNetwork(p, k).key = k /\ (ResolveNetwork(p, k).external <=> DeclOf(p, k).external)
  BY DEF ResolveNetwork
<1>4. ASSUME NEW j \in OwnJoins(p, names)
      PROVE  /\ JoinedAt(p, names, j).key \in Managed(p, ToSet(names))
             /\ JoinedAt(p, names, j) = ResolveNetwork(p, JoinedAt(p, names, j).key)
  <2>1. PICK i \in DOMAIN names : j \in {i} \X DOMAIN KeysOf(p.services[names[i]])
    BY DEF OwnJoins, JoinsOf
  <2>2. j[1] = i /\ j[2] \in DOMAIN KeysOf(p.services[names[i]])
    BY <2>1
  <2> DEFINE k == KeysOf(p.services[names[i]])[j[2]]
  <2>3. JoinedAt(p, names, j) = ResolveNetwork(p, k) /\ ~ResolveNetwork(p, k).external
    BY <2>2, Zenon DEF JoinedAt, OwnJoins
  <2>4. k \in ToSet(KeysOf(p.services[names[i]])) /\ names[i] \in ToSet(names)
    BY <1>1, <2>2 DEF ToSet
  <2> HIDE DEF k
  <2>5. k \in Managed(p, ToSet(names))
    BY <1>3, <2>3, <2>4 DEF Managed
  <2> QED BY <1>3, <2>3, <2>5
<1>5. ASSUME NEW k \in Managed(p, ToSet(names))
      PROVE  \E j \in OwnJoins(p, names) : JoinedAt(p, names, j) = ResolveNetwork(p, k)
  <2>1. PICK n \in ToSet(names) : k \in ToSet(KeysOf(p.services[n]))
    BY DEF Managed
  <2>2. PICK i \in DOMAIN names : names[i] = n
    BY <1>1
  <2>3. PICK l \in DOMAIN KeysOf(p.services[names[i]]) : KeysOf(p.services[names[i]])[l] = k
    BY <2>1, <2>2 DEF ToSet
  <2> DEFINE j == <<i, l>>
  <2>4. j \in JoinsOf(p, names)
    BY <2>3 DEF JoinsOf
  <2>5. JoinedAt(p, names, j) = ResolveNetwork(p, k)
    BY <2>3 DEF JoinedAt
  <2>6. ~ResolveNetwork(p, k).external
    BY <1>3 DEF Managed
  <2> QED BY <2>4, <2>5, <2>6 DEF OwnJoins
<1> QED BY <1>4, <1>5

\* Two keys of one name are kept apart by the file exactly where the check refuses them.
LEMMA RefusedForAClash ==
  ASSUME NEW p, IsProject(p)
  PROVE  CheckNetworkKeys(p) <=>
           ~\E k, l \in Managed(p, DOMAIN p.services) :
              ResolveNetwork(p, k).name = ResolveNetwork(p, l).name /\ KeepsApart(p, k, l)
<1> DEFINE all == Managed(p, DOMAIN p.services)
           NamedBy(k) == ResolveNetwork(p, k).name
           Own == OwnJoins(p, p.names)
           At(j) == JoinedAt(p, p.names, j)
<1>1. p.names \in Seq(DOMAIN p.services) /\ ToSet(p.names) = DOMAIN p.services
  BY DEF IsProject, ToSet
<1>2. \A j \in Own : At(j).key \in all /\ At(j) = ResolveNetwork(p, At(j).key)
  BY <1>1, ManagedKeys
<1>3. \A k \in all : \E j \in Own : At(j) = ResolveNetwork(p, k)
  BY <1>1, ManagedKeys
<1>4. \A k : ResolveNetwork(p, k).key = k
  BY DEF ResolveNetwork
<1>5. \A k \in all : ~DeclOf(p, k).external
  BY DEF Managed
<1>6. \A k, l \in all : KeepsApart(p, k, l) <=> k # l /\ ~OneNetwork(p, k, l)
  BY <1>5 DEF KeepsApart, OneNetwork, IsNamed
<1>7. \A k, l : OneNetwork(p, k, l) => OneNetwork(p, l, k)
  BY DEF OneNetwork, SameNetworkDecl
<1>8. \A k, l, m : OneNetwork(p, k, l) /\ OneNetwork(p, l, m) => OneNetwork(p, k, m)
  BY DEF OneNetwork, SameNetworkDecl
<1>9. \A j \in Own : \E f \in FirstJoins(p, p.names) : At(f).name = At(j).name
  BY <1>1, FirstOfAName
<1>10. FirstJoins(p, p.names) \subseteq Own
  BY DEF FirstJoins
<1>11. CheckNetworkKeys(p) <=>
         \A f \in FirstJoins(p, p.names), j \in Own : At(f).name = At(j).name => At(f).key = At(j).key \/ OneNetwork(p, At(f).key, At(j).key)
  BY DEF CheckNetworkKeys
<1> HIDE DEF Own, At, all
<1>12. ASSUME CheckNetworkKeys(p), NEW k \in all, NEW l \in all, NamedBy(k) = NamedBy(l), KeepsApart(p, k, l)
       PROVE  FALSE
  <2>1. PICK i \in Own : At(i) = ResolveNetwork(p, k)
    BY <1>3
  <2>2. PICK j \in Own : At(j) = ResolveNetwork(p, l)
    BY <1>3
  <2>3. PICK f \in FirstJoins(p, p.names) : At(f).name = At(i).name
    BY <1>9
  <2>4. At(f).name = At(i).name /\ At(f).name = At(j).name /\ At(i).key = k /\ At(j).key = l
    BY <1>4, <1>12, <2>1, <2>2, <2>3
  <2>5. At(f).key = k \/ OneNetwork(p, At(f).key, k)
    BY <1>11, <1>12, <2>4
  <2>6. At(f).key = l \/ OneNetwork(p, At(f).key, l)
    BY <1>11, <1>12, <2>4
  <2>7. k # l /\ ~OneNetwork(p, k, l)
    BY <1>6, <1>12
  <2> QED BY <1>7, <1>8, <2>5, <2>6, <2>7
<1>13. ASSUME NEW f \in FirstJoins(p, p.names), NEW j \in Own, At(f).name = At(j).name, At(f).key # At(j).key, ~OneNetwork(p, At(f).key, At(j).key)
       PROVE  \E k, l \in all : NamedBy(k) = NamedBy(l) /\ KeepsApart(p, k, l)
  <2>1. At(f).key \in all /\ At(j).key \in all /\ NamedBy(At(f).key) = At(f).name /\ NamedBy(At(j).key) = At(j).name
    BY <1>2, <1>10
  <2> QED BY <1>6, <1>13, <2>1
<1> QED BY <1>11, <1>12, <1>13 DEF all

\* What `up` goes on with is what the file declares, and it refuses nothing else.
THEOREM NetworksAlwaysAsDeclared ==
  ASSUME NEW p, IsProject(p), NEW order \in Seq(DOMAIN p.services), NEW there
  PROVE  NetworksAreAsDeclaredOf(p, order, there)
<1> DEFINE a == UpNetworks(p, order, there)
           used == Managed(p, ToSet(order))
           all == Managed(p, DOMAIN p.services)
           NamedBy(k) == ResolveNetwork(p, k).name
           clash == \E k, l \in all : NamedBy(k) = NamedBy(l) /\ KeepsApart(p, k, l)
           managed == ManagedNetworks(p, order)
           missing == {rn \in managed : rn.name \notin DOMAIN there}
           unlike == \E k \in used : NamedBy(k) \in DOMAIN there /\ ~Fits(DeclOf(p, k), there[NamedBy(k)])
<1>1. CheckNetworkKeys(p) <=> ~clash
  BY RefusedForAClash
<1>2. used \subseteq all
  <2>1. ToSet(order) \subseteq DOMAIN p.services
    BY DEF ToSet
  <2> QED BY <2>1 DEF Managed
<1>3. \A k : LET rn == ResolveNetwork(p, k) IN rn.key = k /\ rn.internal = DeclOf(p, k).internal /\ rn.subnet = DeclOf(p, k).subnet
  BY DEF ResolveNetwork
<1>4. \A rn \in managed : \E k \in used : rn = ResolveNetwork(p, k)
  <2> TAKE rn \in managed
  <2>1. PICK j \in FirstJoins(p, order) : rn = JoinedAt(p, order, j)
    BY DEF ManagedNetworks
  <2>2. j \in OwnJoins(p, order)
    BY DEF FirstJoins
  <2> QED BY <2>1, <2>2, ManagedKeys
<1>5. \A k \in used : \E rn \in managed : rn.name = NamedBy(k)
  <2> TAKE k \in used
  <2>1. PICK j \in OwnJoins(p, order) : JoinedAt(p, order, j) = ResolveNetwork(p, k)
    BY ManagedKeys
  <2>2. PICK f \in FirstJoins(p, order) : JoinedAt(p, order, f).name = JoinedAt(p, order, j).name
    BY FirstOfAName
  <2> QED BY <2>1, <2>2 DEF ManagedNetworks
<1>6. ASSUME NEW k \in used, NEW rn, rn = ResolveNetwork(p, k), rn.name \in DOMAIN there
      PROVE  IsAnother(rn, there) <=> ~Fits(DeclOf(p, k), there[rn.name])
  BY <1>3, <1>6 DEF IsAnother, Fits
<1>7. ASSUME NEW k \in all, NEW l \in all, NamedBy(k) = NamedBy(l), ~clash
      PROVE  DeclOf(p, k).internal = DeclOf(p, l).internal /\ DeclOf(p, k).subnet = DeclOf(p, l).subnet
  BY <1>7 DEF KeepsApart, SameNetworkDecl
<1> DEFINE grown == [n \in DOMAIN there \cup {rn.name : rn \in missing} |->
                        IF n \in DOMAIN there THEN there[n] ELSE Made(CHOOSE rn \in missing : rn.name = n)]
           another == \E rn \in managed : IsAnother(rn, there)
<1>8. /\ ~CheckNetworkKeys(p) => a = Refused("keys")
      /\ CheckNetworkKeys(p) /\ another => a = Refused("another")
      /\ CheckNetworkKeys(p) /\ ~another => a = [there |-> grown]
  BY DEF UpNetworks
<1>9. \A w : IsRefused(Refused(w))
  BY DEF IsRefused, Refused
<1>10. ~IsRefused([there |-> grown]) /\ [there |-> grown].there = grown
  BY DEF IsRefused
<1>11. another => unlike
  BY <1>4, <1>6 DEF IsAnother
<1>12. ASSUME ~clash, ~another, NEW k \in used
       PROVE  NamedBy(k) \in DOMAIN grown /\ Fits(DeclOf(p, k), grown[NamedBy(k)])
  <2>1. PICK rn \in managed : rn.name = NamedBy(k)
    BY <1>5
  <2>2. PICK l \in used : rn = ResolveNetwork(p, l)
    BY <1>4
  <2>3. DeclOf(p, k).internal = DeclOf(p, l).internal /\ DeclOf(p, k).subnet = DeclOf(p, l).subnet
    BY <1>2, <1>7, <1>12, <2>1, <2>2
  <2>4. CASE NamedBy(k) \in DOMAIN there
    <3>1. ~IsAnother(rn, there)
      BY <1>12
    <3>2. Fits(DeclOf(p, l), there[rn.name])
      BY <1>6, <2>1, <2>2, <2>4, <3>1
    <3> QED BY <2>1, <2>3, <2>4, <3>2 DEF Fits
  <2>5. CASE NamedBy(k) \notin DOMAIN there
    <3>1. rn \in missing
      BY <2>1, <2>5
    <3> DEFINE made == CHOOSE m \in missing : m.name = NamedBy(k)
    <3>2. made \in missing /\ made.name = NamedBy(k)
      BY <2>1, <3>1
    <3>3. PICK m \in used : made = ResolveNetwork(p, m)
      BY <1>4, <3>2
    <3> HIDE DEF made
    <3>4. made.internal = DeclOf(p, k).internal /\ made.subnet = DeclOf(p, k).subnet
      BY <1>2, <1>3, <1>7, <1>12, <3>2, <3>3
    <3>5. NamedBy(k) \in DOMAIN grown /\ grown[NamedBy(k)] = Made(made)
      <4>1. NamedBy(k) \in DOMAIN there \cup {r.name : r \in missing}
        BY <2>1, <3>1, Zenon
      <4>2. \A n \in DOMAIN there \cup {r.name : r \in missing} :
              /\ n \in DOMAIN grown
              /\ grown[n] = IF n \in DOMAIN there THEN there[n] ELSE Made(CHOOSE r \in missing : r.name = n)
        BY Zenon
      <4> QED BY <2>5, <4>1, <4>2, Zenon DEF made
    <3>6. /\ grown[NamedBy(k)].internal = made.internal
          /\ made.subnet # NoName => grown[NamedBy(k)].subnet = made.subnet
      <4>1. grown[NamedBy(k)] = Made(made)
        BY <3>5
      <4> QED BY ONLY <4>1 DEF Made
    <3> QED BY <3>4, <3>5, <3>6, Zenon DEF Fits
  <2> QED BY <2>4, <2>5
<1>13. \A n \in DOMAIN there : grown[n] = there[n]
  OBVIOUS
<1> HIDE DEF a, clash, unlike, another, grown
<1>14. CASE ~CheckNetworkKeys(p) \/ another
  BY <1>1, <1>8, <1>9, <1>11, <1>14 DEF NetworksAreAsDeclaredOf, a, clash, unlike
<1>15. CASE CheckNetworkKeys(p) /\ ~another
  <2>1. ~IsRefused(a) /\ a.there = grown
    BY <1>8, <1>10, <1>15
  <2> QED BY <1>1, <1>12, <1>13, <1>15, <2>1 DEF NetworksAreAsDeclaredOf, a, clash
<1> QED BY <1>14, <1>15

-----------------------------------------------------------------------------
(* Ports.                                                                  *)

\* A port as a file may write it: digits or not, with a tag where it is written bare.  A
\* whole float is no digits; one that is not whole is a word of no tag.
WrittenPorts ==
  {p \in [is : {"absent", "empty", "bare", "word", "number", "range"}, low : Int, high : Int,
          lowZeros : Nat, highZeros : Nat, plus : BOOLEAN, tag : {"none", "int", "float"}, yaml : Int] :
     /\ p.is = "number" => p.low = p.high
     /\ p.tag # "none" => p.is \in {"number", "word"}
     /\ p.tag = "float" => p.is = "word"}
Quoted == {p \in WrittenPorts : p.tag = "none"}
\* An entry as a file may write it, in its short form and its long one; an empty `host_ip`
\* is refused before, of the whole file.
WrittenShort ==
  {e \in [form : {"short"}, item : {"text", "int", "nothing"}, addr : STRING, host : Quoted, container : WrittenPorts, proto : STRING] :
     e.container.tag = IF e.item = "int" THEN "int" ELSE "none"}
WrittenLong ==
  [form : {"long"}, target : WrittenPorts, published : WrittenPorts, hostIP : {"none", "v4", "v6", "[v6]", "a host"}, protocol : STRING]

\* A port that is left out, and one written as nothing.
LEMMA AbsentIs ==
  LET p == [Absent EXCEPT !.is = "empty"] IN
    /\ Absent \in WrittenPorts /\ Absent.is = "absent"
    /\ p \in WrittenPorts /\ p.is = "empty"
<1>1. /\ Absent \in WrittenPorts /\ Absent.is = "absent" /\ Absent.tag = "none"
  BY DEF Absent, WrittenPorts
<1> QED BY <1>1 DEF WrittenPorts

\* A number, whatever it is, written as its digits.
LEMMA NumbersAre ==
  \A n \in Int : LET p == PortNumber(n) IN
    /\ p \in WrittenPorts /\ p.is = "number" /\ p.low = n /\ p.high = n /\ ~p.plus /\ p.tag = "none"
<1> TAKE n \in Int
<1>1. Absent \in WrittenPorts /\ ~Absent.plus /\ Absent.tag = "none"
  BY DEF Absent, WrittenPorts
<1> QED BY <1>1 DEF PortNumber, WrittenPorts

\* A number bare in the short form is read as its text is.
LEMMA ShortAlike ==
  ASSUME NEW e \in WrittenShort, e.item = "int"
  PROVE  ReadPort(e) = ReadShort(ShortOf(e))
<1>1. e.container.tag = "int" /\ e.form = "short"
  BY DEF WrittenShort
<1>2. LET s == ShortOf(e) IN s.item = "text" /\ s.addr = e.addr /\ s.host = e.host /\ s.proto = e.proto /\ s.container = MeantPort(e.container)
  BY <1>1 DEF ShortOf, WrittenShort
<1>3. AsWritten(e.container) = MeantPort(e.container)
  BY <1>1 DEF AsWritten, MeantPort
<1> QED BY <1>1, <1>2, <1>3 DEF ReadPort, ReadShort

\* What a spec has to be for checkPortSpec to take it.
LEMMA FaultOfASpec ==
  ASSUME NEW s
  PROVE  PortSpecFault(s) = "none" <=>
           /\ s.proto \in Protocols /\ ~NothingThere(s.container) /\ InRange(s.container, 1)
           /\ NothingThere(s.host) \/ InRange(s.host, 0)
           /\ ~(Width(s.container) > 0 /\ ~NothingThere(s.host) /\ Width(s.host) # Width(s.container))
           /\ s.addr \in Addresses
<1> DEFINE P == s.proto \in Protocols
           N == NothingThere(s.container)
           C == InRange(s.container, 1)
           A == NothingThere(s.host)
           H == InRange(s.host, 0)
           L == Width(s.container) > 0 /\ ~A /\ Width(s.host) # Width(s.container)
           D == s.addr \in Addresses
<1>1. PortSpecFault(s) =
        CASE ~P -> "protocol" [] P /\ N -> "no container port"
          [] OTHER -> CASE ~C -> "container port" [] C /\ ~A /\ ~H -> "host port"
                        [] OTHER -> IF L THEN "lengths" ELSE IF ~D THEN "address" ELSE "none"
  BY DEF PortSpecFault
<1> HIDE DEF P, N, C, A, H, L, D
<1>2. PortSpecFault(s) = "none" <=> P /\ ~N /\ C /\ (A \/ H) /\ ~L /\ D
  BY <1>1
<1> QED BY <1>2 DEF P, N, C, A, H, L, D

\* The same of a long entry, by its keys, before it is assembled.
LEMMA FaultOfALongEntry ==
  ASSUME NEW e, NEW target \in WrittenPorts, NEW pub
  PROVE  LongPortFault(e, target, pub) = "none" <=>
           /\ e.target.is # "bare" /\ e.published.is # "bare" /\ ~NothingThere(target)
           /\ InRange(target, 1) /\ ~(Width(target) > 0) /\ (NothingThere(pub) \/ InRange(pub, 0))
           /\ e.hostIP \in {"none", "v4", "v6", "[v6]"} /\ e.protocol \in Protocols
<1> DEFINE B == e.target.is = "bare"
           F == e.published.is = "bare"
           N == NothingThere(target)
           C == InRange(target, 1)
           W == Width(target) > 0
           Z == Width(target) = 0
           A == NothingThere(pub)
           H == InRange(pub, 0)
           D == e.hostIP \in {"none", "v4", "v6", "[v6]"}
           P == e.protocol \in Protocols
<1>1. LongPortFault(e, target, pub) =
        CASE B \/ F -> "bare key" [] ~B /\ ~F /\ N -> "no target"
          [] OTHER -> CASE ~C \/ W -> "target" [] C /\ Z /\ ~A /\ ~H -> "published"
                        [] OTHER -> IF ~D THEN "host_ip" ELSE IF ~P THEN "protocol" ELSE "none"
  BY DEF LongPortFault
<1>2. C => (Z <=> ~W)
  BY DEF InRange, Width, WrittenPorts
<1> HIDE DEF B, F, N, C, W, Z, A, H, D, P
<1> QED BY <1>1, <1>2 DEF B, F, N, C, W, Z, A, H, D, P

\* A long entry is refused where its short form is, and else is published as it is.
LEMMA LongAlike ==
  ASSUME NEW e \in WrittenLong, HasAShortForm(e)
  PROVE  PublishedAlike(ReadPort(e), ReadShort(ShortOf(e)))
<1> DEFINE target == TargetOf(e.target)
           pub == AsWritten(e.published)
           c == MeantPort(e.target)
           h == IF e.published.is = "absent" THEN IF e.hostIP = "none" THEN Absent ELSE [Absent EXCEPT !.is = "empty"]
                ELSE MeantPort(e.published)
           long == LongSpec(e, target, pub)
           short == [addr |-> e.hostIP, host |-> h, proto |-> e.protocol, container |-> c]
<1>1. /\ e.form = "long" /\ e.target \in WrittenPorts /\ e.published \in WrittenPorts
      /\ e.hostIP \in {"none", "v4", "v6", "a host"} /\ e.protocol # "TCP" /\ e.published.tag # "float"
      /\ e.target.is \notin {"bare", "range"} /\ e.published.is # "bare"
  BY DEF WrittenLong, HasAShortForm
<1>2. ReadPort(e) = LongUnless(LongPortFault(e, target, pub), long)
  BY <1>1 DEF ReadPort, ReadLong, ReadLongPort
<1>3. ReadShort(ShortOf(e)) = ShortSpec(short)
  BY <1>1 DEF ReadShort, ShortOf
<1>4. /\ c \in WrittenPorts /\ c.is \notin {"bare", "range"}
      /\ target \in WrittenPorts /\ target.is \notin {"bare", "range"}
      /\ NothingThere(target) <=> NothingThere(c)
      /\ InRange(target, 1) <=> InRange(c, 1)
      /\ InRange(c, 1) => target = c
  <2>1. CASE e.target.tag = "none"
    BY <1>1, <2>1 DEF TargetOf, AsWritten, MeantPort
  <2>2. CASE e.target.tag = "int"
    BY <1>1, <2>2, NumbersAre DEF TargetOf, AsWritten, MeantPort, WrittenPorts
  <2>3. CASE e.target.tag = "float" /\ e.target.yaml > 0
    BY <1>1, <2>3, NumbersAre DEF TargetOf, AsWritten, MeantPort, WrittenPorts
  <2>4. CASE e.target.tag = "float" /\ ~(e.target.yaml > 0)
    <3>1. target = e.target /\ target.is = "word" /\ c = PortNumber(e.target.yaml) /\ e.target.yaml \in Int
      BY <1>1, <2>4 DEF TargetOf, AsWritten, MeantPort, WrittenPorts
    <3>2. c \in WrittenPorts /\ c.is = "number" /\ c.low = e.target.yaml
      BY <3>1, NumbersAre
    <3> HIDE DEF target, c
    <3>3. ~InRange(target, 1) /\ ~InRange(c, 1) /\ ~NothingThere(target) /\ ~NothingThere(c)
      BY <2>4, <3>1, <3>2 DEF InRange, NothingThere
    <3> QED BY <1>1, <3>1, <3>2, <3>3
  <2> QED BY <1>1, <2>1, <2>2, <2>3, <2>4 DEF WrittenPorts
<1>5. /\ h \in WrittenPorts /\ pub \in WrittenPorts
      /\ NothingThere(pub) <=> NothingThere(h)
      /\ ~NothingThere(h) => pub = h
  <2>1. CASE e.published.tag = "none"
    <3>1. pub = e.published
      BY <2>1 DEF AsWritten
    <3>2. CASE e.published.is = "absent"
      <4>1. h \in {Absent, [Absent EXCEPT !.is = "empty"]}
        BY <3>2
      <4> HIDE DEF h, pub
      <4> QED BY <1>1, <3>1, <3>2, <4>1, AbsentIs DEF NothingThere
    <3>3. CASE e.published.is # "absent"
      <4>1. h = e.published
        BY <2>1, <3>3 DEF MeantPort
      <4> HIDE DEF h, pub
      <4> QED BY <1>1, <3>1, <4>1
    <3> QED BY <3>2, <3>3
  <2>2. CASE e.published.tag = "int"
    BY <1>1, <2>2, NumbersAre DEF AsWritten, MeantPort, NothingThere, WrittenPorts
  <2> QED BY <1>1, <2>1, <2>2 DEF WrittenPorts
<1> HIDE DEF target, pub, c, h
<1>6. InRange(c, 1) => c.is = "number" /\ c.low = c.high /\ Width(c) = 0
  BY <1>4 DEF InRange, Width, WrittenPorts
<1>7. short.addr = e.hostIP /\ short.host = h /\ short.container = c /\ short.proto = e.protocol
  OBVIOUS
<1>8. /\ long.addr = (IF e.hostIP = "v6" THEN "[v6]" ELSE e.hostIP)
      /\ long.host = (IF NothingThere(pub) THEN Absent ELSE WithoutPlus(pub))
      /\ long.container = WithoutPlus(target) /\ long.proto = e.protocol
  BY <1>1 DEF LongSpec
<1> DEFINE good == /\ e.protocol \in Protocols /\ InRange(c, 1) /\ (NothingThere(h) \/ InRange(h, 0))
                   /\ e.hostIP # "a host"
<1>9. \A p \in WrittenPorts : \A least : /\ NothingThere(WithoutPlus(p)) <=> NothingThere(p)
                                         /\ InRange(WithoutPlus(p), least) <=> InRange(p, least)
                                         /\ Width(WithoutPlus(p)) = Width(p)
                                         /\ WithoutPlus(p).low = p.low /\ WithoutPlus(p).high = p.high
  BY DEF WithoutPlus, NothingThere, InRange, Width, WrittenPorts
<1>10. NothingThere(Absent)
  BY DEF NothingThere, Absent
<1>11. PortSpecFault(short) = "none" <=> good
  <2>1. NothingThere(c) => ~InRange(c, 1)
    BY DEF NothingThere, InRange
  <2>2. PortSpecFault(short) = "none" <=>
           /\ e.protocol \in Protocols /\ ~NothingThere(c) /\ InRange(c, 1) /\ (NothingThere(h) \/ InRange(h, 0))
           /\ ~(Width(c) > 0 /\ ~NothingThere(h) /\ Width(h) # Width(c)) /\ e.hostIP \in Addresses
    BY FaultOfASpec, <1>7
  <2>3. e.hostIP \in Addresses <=> e.hostIP # "a host"
    BY <1>1 DEF Addresses
  <2>4. InRange(c, 1) => ~(Width(c) > 0)
    BY <1>6
  <2> QED BY <2>1, <2>2, <2>3, <2>4
<1>12. LongPortFault(e, target, pub) = "none" <=> good
  <2>1. LongPortFault(e, target, pub) = "none" <=>
           /\ e.target.is # "bare" /\ e.published.is # "bare" /\ ~NothingThere(target)
           /\ InRange(target, 1) /\ ~(Width(target) > 0) /\ (NothingThere(pub) \/ InRange(pub, 0))
           /\ e.hostIP \in {"none", "v4", "v6", "[v6]"} /\ e.protocol \in Protocols
    BY <1>4, FaultOfALongEntry
  <2>2. e.hostIP \in {"none", "v4", "v6", "[v6]"} <=> e.hostIP # "a host"
    BY <1>1
  <2>3. InRange(target, 1) => ~(Width(target) > 0)
    BY <1>4, <1>6
  <2>4. InRange(target, 1) => ~NothingThere(target)
    BY DEF NothingThere, InRange
  <2> QED BY <1>1, <1>4, <1>5, <2>1, <2>2, <2>3, <2>4
<1>13. good => PortSpecFault(long) = "none"
  <2> SUFFICES ASSUME good PROVE PortSpecFault(long) = "none"
    OBVIOUS
  <2>1. InRange(long.container, 1) /\ ~NothingThere(long.container) /\ ~(Width(long.container) > 0)
    <3>1. InRange(c, 1) /\ target = c /\ c \in WrittenPorts
      BY <1>4 DEF good
    <3>2. long.container = WithoutPlus(c)
      BY <1>8, <3>1
    <3>3. ~NothingThere(c) /\ Width(c) = 0
      BY <1>6, <3>1 DEF NothingThere, InRange
    <3> HIDE DEF long, good
    <3> QED BY <1>9, <3>1, <3>2, <3>3
  <2>2. NothingThere(long.host) \/ InRange(long.host, 0)
    BY <1>5, <1>8, <1>9, <1>10, ZenonT(60)
  <2>3. long.addr \in Addresses /\ long.proto \in Protocols
    BY <1>1, <1>8 DEF Addresses
  <2> QED BY <2>1, <2>2, <2>3, FaultOfASpec
<1> DEFINE given == NormalizePortSpec(short)
<1>14. ASSUME good PROVE Publication(long) = Publication(given)
  <2> DEFINE any(x) == NothingThere(x) \/ (x.low = 0 /\ x.high = 0)
  <2>1. \A x \in WrittenPorts : LET o == OnePort(WithoutPlus(x)) IN
          (NothingThere(o) <=> NothingThere(x)) /\ o.low = x.low /\ o.high = x.high
    <3> TAKE x \in WrittenPorts
    <3> DEFINE w == WithoutPlus(x)
    <3>1. w \in [is : {"absent", "empty", "bare", "word", "number", "range"}, low : Int, high : Int,
                 lowZeros : Nat, highZeros : Nat, plus : BOOLEAN, tag : {"none", "int", "float"}, yaml : Int] /\ w.is = x.is /\ w.low = x.low /\ w.high = x.high
      BY DEF WithoutPlus, WrittenPorts
    <3> HIDE DEF w
    <3> QED BY <3>1 DEF OnePort, NothingThere, w
  <2>2. /\ given.addr = (IF e.hostIP = "empty" THEN "none" ELSE Bracketed(e.hostIP))
        /\ given.host = OnePort(WithoutPlus(h)) /\ given.container = OnePort(WithoutPlus(c))
        /\ given.proto = (IF e.protocol = "empty" THEN "none" ELSE Lower(e.protocol))
    BY <1>7 DEF NormalizePortSpec
  <2> HIDE DEF given, long, short
  <2>3. long.addr = given.addr
    BY <1>1, <1>8, <2>2 DEF Bracketed
  <2>4. /\ NothingThere(long.host) <=> NothingThere(h)
        /\ ~NothingThere(h) => long.host.low = h.low /\ long.host.high = h.high
    BY <1>5, <1>8, <1>9, <1>10
  <2>5. /\ NothingThere(given.host) <=> NothingThere(h)
        /\ ~NothingThere(h) => given.host.low = h.low /\ given.host.high = h.high
    BY <1>5, <2>1, <2>2
  <2>6. any(long.host) <=> any(given.host)
    BY <2>4, <2>5
  <2>7. ~any(long.host) => long.host.low = given.host.low /\ long.host.high = given.host.high
    BY <2>4, <2>5
  <2>8. long.container.low = given.container.low /\ long.container.high = given.container.high
    <3>1. target = c /\ c \in WrittenPorts
      BY <1>4, <1>14
    <3> HIDE DEF good
    <3>2. long.container = WithoutPlus(c)
      BY <1>8, <3>1
    <3> QED BY <1>9, <2>1, <2>2, <3>1, <3>2
  <2>9. long.proto \in {"none", "empty"} <=> given.proto \in {"none", "empty"}
    BY <1>1, <1>8, <2>2 DEF Lower
  <2>10. long.proto \notin {"none", "empty"} => given.proto = long.proto
    BY <1>1, <1>8, <2>2 DEF Lower
  <2> QED BY <2>3, <2>6, <2>7, <2>8, <2>9, <2>10, Zenon DEF Publication
<1>15. \A w : IsRefused(Refused(w))
  BY DEF IsRefused, Refused
<1>16. \A s : ~IsRefused([spec |-> s]) /\ [spec |-> s].spec = s
  BY DEF IsRefused
<1>17. ShortSpec(short) = IF ~good THEN Refused(PortSpecFault(short)) ELSE [spec |-> given]
  BY <1>11 DEF ShortSpec, SpecUnless
<1>18. ~good => IsRefused(LongUnless(LongPortFault(e, target, pub), long))
  BY <1>12, <1>15 DEF LongUnless
<1>19. good => LongUnless(LongPortFault(e, target, pub), long) = [spec |-> long]
  BY <1>12, <1>13 DEF LongUnless, SpecUnless
<1> HIDE DEF good, given, long, short
<1> QED BY <1>2, <1>3, <1>14, <1>15, <1>16, <1>17, <1>18, <1>19 DEF PublishedAlike

\* An entry is published alike, or refused alike, in both its forms, and as a number or as
\* its text, whatever ports, address and protocol it has (ReadShort, ReadLong).
THEOREM OnePortAlwaysInTwoForms ==
  ASSUME NEW e \in WrittenShort \cup WrittenLong
  PROVE  OnePortInTwoFormsOf(e)
<1>1. CASE e \in WrittenShort
  <2>1. e.form = "short"
    BY <1>1 DEF WrittenShort
  <2>2. e.item = "int" => ReadPort(e) = ReadShort(ShortOf(e))
    BY <1>1, ShortAlike
  <2> QED BY <2>1, <2>2 DEF OnePortInTwoFormsOf, PublishedAlike
<1>2. CASE e \in WrittenLong
  BY <1>2, LongAlike DEF OnePortInTwoFormsOf
<1> QED BY <1>1, <1>2

-----------------------------------------------------------------------------
(* The order services are walked in.                                       *)

\* What is come to is among those it is looked for in, holds what it is looked for from, and is
\* closed under dependencies.
LEMMA ReachedIsClosed ==
  ASSUME NEW p, NEW among, NEW from
  PROVE  /\ ReachedFrom(p, among, from) \subseteq among
         /\ from \cap among \subseteq ReachedFrom(p, among, from)
         /\ \A n \in ReachedFrom(p, among, from) : DepNames(p, n) \cap among \subseteq ReachedFrom(p, among, from)
<1>1. from \cap among \subseteq ReachedFrom(p, among, from)
  BY Zenon DEF ReachedFrom
<1>2. ASSUME NEW n \in ReachedFrom(p, among, from), NEW d \in DepNames(p, n) \cap among
      PROVE  d \in ReachedFrom(p, among, from)
  <2> SUFFICES ASSUME NEW S \in SUBSET among, from \cap among \subseteq S, ClosedIn(p, among, S)
               PROVE  d \in S
    BY Zenon DEF ReachedFrom
  <2>1. n \in S
    BY Zenon DEF ReachedFrom
  <2> QED BY <2>1, <1>2, Zenon DEF ClosedIn
<1> QED BY <1>1, <1>2, Zenon DEF ReachedFrom

\* ... and is in every set that is so.
LEMMA ReachedIsLeast ==
  ASSUME NEW p, NEW among, NEW from, NEW S, from \cap among \subseteq S,
         \A n \in S \cap among : DepNames(p, n) \cap among \subseteq S
  PROVE  ReachedFrom(p, among, from) \subseteq S
<1> DEFINE T == S \cap among
<1>1. T \in SUBSET among /\ from \cap among \subseteq T /\ ClosedIn(p, among, T)
  BY Zenon DEF ClosedIn
<1>2. ReachedFrom(p, among, from) \subseteq T
  BY <1>1, Zenon DEF ReachedFrom
<1> QED BY <1>2

\* With more dependencies, among more services, no less is come to.
LEMMA ReachedGrows ==
  ASSUME NEW p, NEW q, NEW R, NEW S, NEW from, NEW more, R \subseteq S, from \cap R \subseteq more,
         \A n \in R : DepNames(p, n) \cap R \subseteq DepNames(q, n)
  PROVE  ReachedFrom(p, R, from) \subseteq ReachedFrom(q, S, more)
<1> DEFINE T == ReachedFrom(q, S, more)
<1>1. /\ more \cap S \subseteq T
      /\ \A n \in T : DepNames(q, n) \cap S \subseteq T
  BY ReachedIsClosed, Zenon
<1> HIDE DEF T
<1>2. from \cap R \subseteq T
  BY <1>1, Zenon
<1>3. \A n \in T \cap R : DepNames(p, n) \cap R \subseteq T
  BY <1>1, Zenon
<1>4. ReachedFrom(p, R, from) \subseteq T
  BY <1>2, <1>3, ReachedIsLeast, Zenon
<1> QED BY <1>4 DEF T

\* What a service depends on is below it, with what is below that.
LEMMA BelowGoesDown ==
  ASSUME NEW p, NEW R, NEW n
  PROVE  /\ Below(p, R, n) \subseteq R
         /\ DepNames(p, n) \cap R \subseteq Below(p, R, n)
         /\ \A m \in Below(p, R, n) : DepNames(p, m) \cap R \subseteq Below(p, R, n)
         /\ \A m \in Below(p, R, n) : Below(p, R, m) \subseteq Below(p, R, n)
<1>1. /\ Below(p, R, n) \subseteq R
      /\ DepNames(p, n) \cap R \subseteq Below(p, R, n)
      /\ \A m \in Below(p, R, n) : DepNames(p, m) \cap R \subseteq Below(p, R, n)
  BY ReachedIsClosed, Zenon DEF Below
<1>2. ASSUME NEW m \in Below(p, R, n) PROVE Below(p, R, m) \subseteq Below(p, R, n)
  <2> DEFINE S == Below(p, R, n)
  <2>1. DepNames(p, m) \cap R \subseteq S /\ \A l \in S \cap R : DepNames(p, l) \cap R \subseteq S
    BY <1>1, Zenon
  <2> HIDE DEF S
  <2>2. ReachedFrom(p, R, DepNames(p, m)) \subseteq S
    BY <2>1, ReachedIsLeast, Zenon
  <2> QED BY <2>2 DEF S, Below
<1> QED BY <1>1, <1>2

\* A cycle among some services is one among more of them, with more dependencies.
LEMMA CycleStays ==
  ASSUME NEW p, NEW q, NEW R, NEW S, R \subseteq S,
         \A n \in R : DepNames(p, n) \cap R \subseteq DepNames(q, n), HasCycle(p, R)
  PROVE  HasCycle(q, S)
<1>1. PICK n \in R : n \in Below(p, R, n)
  BY DEF HasCycle
<1>2. DepNames(p, n) \cap R \subseteq DepNames(q, n)
  OBVIOUS
<1>3. Below(p, R, n) \subseteq Below(q, S, n)
  BY <1>2, ReachedGrows, Zenon DEF Below
<1> QED BY <1>1, <1>3 DEF HasCycle

\* An order of all the services read, each after all it depends on, leaves no cycle among them.
LEMMA OrderLeavesNoCycle ==
  ASSUME NEW p, NEW R, NEW order, DOMAIN order \in SUBSET Nat, IsInjective(order), ToSet(order) = R,
         \A i \in DOMAIN order : \A d \in DepNames(p, order[i]) \cap R : \E j \in DOMAIN order : order[j] = d /\ j < i
  PROVE  ~HasCycle(p, R)
<1> SUFFICES ASSUME NEW n \in R, n \in Below(p, R, n) PROVE FALSE
  BY DEF HasCycle
<1>1. PICK i \in DOMAIN order : order[i] = n
  BY DEF ToSet
<1> DEFINE C == {order[j] : j \in {k \in DOMAIN order : k < i}}
<1>2. DepNames(p, n) \cap R \subseteq C
  BY <1>1
<1>3. ASSUME NEW m \in C, NEW d \in DepNames(p, m) \cap R PROVE d \in C
  <2>1. PICK k \in DOMAIN order : k < i /\ order[k] = m
    OBVIOUS
  <2>2. PICK j \in DOMAIN order : order[j] = d /\ j < k
    BY <2>1
  <2>3. j < i
    BY <2>1, <2>2
  <2> QED BY <2>2, <2>3
<1>4. n \notin C
  <2> SUFFICES ASSUME NEW k \in DOMAIN order, k < i, order[k] = n PROVE FALSE
    OBVIOUS
  <2>1. k = i
    BY <1>1 DEF IsInjective
  <2> QED BY <2>1
<1> HIDE DEF C
<1>5. Below(p, R, n) \subseteq C
  BY <1>2, <1>3, ReachedIsLeast, Zenon DEF Below
<1> QED BY <1>4, <1>5

\* Of some names there is a first.
LEMMA FirstIsOneOfThem ==
  ASSUME NEW S, S \subseteq ToSet(Alphabet), S # {}
  PROVE  FirstNamed(S) \in S
<1> DEFINE T == {i \in DOMAIN Alphabet : Alphabet[i] \in S}
<1>1. T \in SUBSET Nat
  <2>1. DOMAIN Alphabet \subseteq Nat
    BY OrderQuestionsAssumption
  <2> QED BY <2>1
<1>2. T # {}
  BY DEF ToSet
<1>3. PICK i \in T : \A j \in T : i <= j
  BY <1>1, <1>2, LeastOf, Zenon
<1>4. \E j \in DOMAIN Alphabet : Alphabet[j] \in S /\ \A l \in DOMAIN Alphabet : Alphabet[l] \in S => j <= l
  BY <1>3
<1> QED BY <1>4, Zenon DEF FirstNamed

\* What a command reads: a part of what is defined; what it names is read, and what is read
\* without a name.
LEMMA ReadIsDefined ==
  ASSUME NEW k \in OrderQuestions
  PROVE  /\ k.by \in {"up", "start", "stop"}
         /\ Defined(k.project) \subseteq ToSet(Alphabet) /\ k.named \subseteq Defined(k.project)
         /\ Active(k) \subseteq Defined(k.project) /\ k.named \subseteq Active(k)
         /\ Unnamed(k) \subseteq Active(k)
         /\ Unnamed(k) = {n \in Defined(k.project) : Enabled(k.project, n, {})}
         /\ k.named = {} => Active(k) = Unnamed(k)
<1> DEFINE p == k.project
<1>1. /\ k.by \in {"up", "start", "stop"}
      /\ Defined(k.project) \subseteq ToSet(Alphabet) /\ k.named \subseteq Defined(k.project)
  BY OrderQuestionsAssumption, Zenon
<1>2. \A a : CarriedFrom(p, a) \subseteq Defined(p)
  <2> TAKE a
  <2> DEFINE Sharing == {d \in Defined(p) : p.profiles[d] \cap p.profiles[a] # {}}
  <2>1. ReachedFrom(p, Sharing, DepNames(p, a)) \subseteq Sharing
    <3> HIDE DEF Sharing, p
    <3> QED BY ReachedIsClosed, Zenon
  <2>2. CarriedFrom(p, a) = ReachedFrom(p, Sharing, DepNames(p, a))
    BY DEF CarriedFrom
  <2>3. Sharing \subseteq Defined(p)
    OBVIOUS
  <2> QED BY <2>1, <2>2, <2>3
<1>3. Active(k) \subseteq Defined(p)
  BY <1>2, Zenon DEF Active, ActiveServices
<1>4. k.named \subseteq Active(k)
  BY <1>1, Zenon DEF Active, ActiveServices, Enabled
<1>5. Unnamed(k) = {n \in Defined(p) : Enabled(p, n, {})}
  BY Zenon DEF Unnamed, ActiveServices
<1>6. \A n : Enabled(p, n, {}) => Enabled(p, n, k.named)
  BY Zenon DEF Enabled
<1>7. Unnamed(k) \subseteq Active(k)
  BY <1>5, <1>6, Zenon DEF Active, ActiveServices
<1> QED BY <1>1, <1>3, <1>4, <1>5, <1>7, Zenon DEF Active, Unnamed

\* Of the project that `up` reads, the services and their profiles are those of the file; a dependency is kept
\* that is required, or on what is read, or on what is not there by a service read without a name.
LEMMA WhatUpKeeps ==
  ASSUME NEW p, NEW active, NEW q, q = DropOptionalGatedDeps(p, active)
  PROVE  /\ Defined(q) = Defined(p)
         /\ \A n \in Defined(p) : Enabled(q, n, {}) <=> Enabled(p, n, {})
         /\ ActiveServices(q, {}) = ActiveServices(p, {})
         /\ \A n \in Defined(p) : q.deps[n] \subseteq p.deps[n]
         /\ \A n \in Defined(p) : \A d \in p.deps[n] :
              (~d.optional \/ (d.to \in Defined(p) /\ d.to \in active) \/ (d.to \notin Defined(p) /\ Enabled(p, n, {})))
              => d \in q.deps[n]
<1>1. /\ q.deps = [n \in Defined(p) |->
           {d \in p.deps[n] : ~(d.optional /\ IF d.to \in Defined(p) THEN d.to \notin active ELSE ~Enabled(p, n, {}))}]
      /\ q.profiles = p.profiles /\ q.on = p.on
  BY DEF DropOptionalGatedDeps
<1>2. Defined(q) = Defined(p)
  BY <1>1, Zenon DEF Defined
<1>3. \A n : Enabled(q, n, {}) <=> Enabled(p, n, {})
  BY <1>1, Zenon DEF Enabled
<1>4. ActiveServices(q, {}) = ActiveServices(p, {})
  BY <1>2, <1>3, Zenon DEF ActiveServices
<1>5. \A n \in Defined(p) : q.deps[n] \subseteq p.deps[n]
  BY <1>1, Zenon
<1>6. ASSUME NEW n \in Defined(p), NEW d \in p.deps[n],
             ~d.optional \/ (d.to \in Defined(p) /\ d.to \in active) \/ (d.to \notin Defined(p) /\ Enabled(p, n, {}))
      PROVE  d \in q.deps[n]
  <2>1. q.deps[n] = {e \in p.deps[n] : ~(e.optional /\ IF e.to \in Defined(p) THEN e.to \notin active ELSE ~Enabled(p, n, {}))}
    BY <1>1, Zenon
  <2>2. ~(d.optional /\ IF d.to \in Defined(p) THEN d.to \notin active ELSE ~Enabled(p, n, {}))
    BY <1>6, Zenon
  <2> QED BY <2>1, <2>2, Zenon
<1> QED BY <1>2, <1>3, <1>4, <1>5, <1>6, Zenon

\* The project as `up` reads it.
LEMMA UpReads ==
  ASSUME NEW k \in OrderQuestions, NEW q, q = DropOptionalGatedDeps(k.project, Active(k))
  PROVE  /\ Defined(q) = Defined(k.project)
         /\ UpRefuses(k) <=> (UnknownDep(q, Active(k)) \/ GatedDep(q, Active(k)) \/ HasCycle(q, Active(k)))
         /\ k.by = "up" => ProjectRead(k) = q
         /\ k.by # "up" => ProjectRead(k) = k.project
         /\ Defined(ProjectRead(k)) = Defined(k.project)
<1>1. Defined(q) = Defined(k.project)
  BY WhatUpKeeps, Zenon
<1> QED BY <1>1, Zenon DEF UpRefuses, ProjectRead

\* A cycle among what is read without a name, of either project, has `up` refuse.
LEMMA CycleIsCause ==
  ASSUME NEW k \in OrderQuestions, HasCycle(ProjectRead(k), Unnamed(k)) \/ (k.by = "up" /\ HasCycle(ProjectRead(k), Active(k)))
  PROVE  UpRefuses(k)
<1> DEFINE p == k.project
<1>q. PICK q : q = DropOptionalGatedDeps(p, Active(k))
  OBVIOUS
<1>1. /\ UpRefuses(k) <=> (UnknownDep(q, Active(k)) \/ GatedDep(q, Active(k)) \/ HasCycle(q, Active(k)))
      /\ k.by = "up" => ProjectRead(k) = q
      /\ k.by # "up" => ProjectRead(k) = p
  BY <1>q, UpReads, Zenon
<1>k. /\ Defined(q) = Defined(p)
      /\ \A n \in Defined(p) : Enabled(q, n, {}) <=> Enabled(p, n, {})
      /\ ActiveServices(q, {}) = ActiveServices(p, {})
      /\ \A n \in Defined(p) : \A d \in p.deps[n] :
           (~d.optional \/ (d.to \in Defined(p) /\ d.to \in Active(k)) \/ (d.to \notin Defined(p) /\ Enabled(p, n, {})))
           => d \in q.deps[n]
  BY <1>q, WhatUpKeeps, SMT
<1>2. /\ \A n \in Defined(p) : \A d \in p.deps[n] : d.to \in Defined(p) /\ d.to \in Active(k) => d \in q.deps[n]
      /\ Defined(q) = Defined(p)
  BY <1>k, Zenon
<1>3. Unnamed(k) \subseteq Active(k) /\ Active(k) \subseteq Defined(p)
  BY ReadIsDefined, Zenon
<1>4. \A n \in Unnamed(k) : DepNames(p, n) \cap Unnamed(k) \subseteq DepNames(q, n)
  BY <1>2, <1>3, Zenon DEF DepNames
<1>5. \A n \in Unnamed(k) : DepNames(q, n) \cap Unnamed(k) \subseteq DepNames(q, n)
  OBVIOUS
<1> HIDE DEF p
<1>6. HasCycle(p, Unnamed(k)) => HasCycle(q, Active(k))
  BY <1>3, <1>4, CycleStays, Zenon
<1>7. HasCycle(q, Unnamed(k)) => HasCycle(q, Active(k))
  BY <1>3, <1>5, CycleStays, Zenon
<1> QED BY <1>1, <1>6, <1>7, Zenon

\* A dependency of what is read without a name that is not there has `up` refuse.
LEMMA UnknownIsCause ==
  ASSUME NEW k \in OrderQuestions, UnknownDep(ProjectRead(k), Unnamed(k))
  PROVE  UpRefuses(k)
<1> DEFINE p == k.project
<1>q. PICK q : q = DropOptionalGatedDeps(p, Active(k))
  OBVIOUS
<1>1. /\ UpRefuses(k) <=> (UnknownDep(q, Active(k)) \/ GatedDep(q, Active(k)) \/ HasCycle(q, Active(k)))
      /\ k.by = "up" => ProjectRead(k) = q
      /\ k.by # "up" => ProjectRead(k) = p
  BY <1>q, UpReads, Zenon
<1>k. /\ Defined(q) = Defined(p)
      /\ \A n \in Defined(p) : Enabled(q, n, {}) <=> Enabled(p, n, {})
      /\ ActiveServices(q, {}) = ActiveServices(p, {})
      /\ \A n \in Defined(p) : \A d \in p.deps[n] :
           (~d.optional \/ (d.to \in Defined(p) /\ d.to \in Active(k)) \/ (d.to \notin Defined(p) /\ Enabled(p, n, {})))
           => d \in q.deps[n]
  BY <1>q, WhatUpKeeps, SMT
<1>2. /\ \A n \in Defined(p) : \A d \in p.deps[n] : d.to \notin Defined(p) /\ Enabled(p, n, {}) => d \in q.deps[n]
      /\ Defined(q) = Defined(p)
  BY <1>k, Zenon
<1>3. Unnamed(k) \subseteq Active(k) /\ \A n \in Unnamed(k) : n \in Defined(p) /\ Enabled(p, n, {})
  BY ReadIsDefined, Zenon
<1>4. UnknownDep(p, Unnamed(k)) => UnknownDep(q, Active(k))
  BY <1>2, <1>3, Zenon DEF UnknownDep, DepNames
<1>5. UnknownDep(q, Unnamed(k)) => UnknownDep(q, Active(k))
  BY <1>3, Zenon DEF UnknownDep
<1> QED BY <1>1, <1>4, <1>5, Zenon

\* So does what is refused over the services that are named.
LEMMA NamedFaultIsCause ==
  ASSUME NEW k \in OrderQuestions, NEW f \in NamedFaults(k)
  PROVE  UpRefuses(k)
<1> DEFINE p == k.project
<1>q. PICK q : q = DropOptionalGatedDeps(p, Active(k))
  OBVIOUS
<1>1. UpRefuses(k) <=> (UnknownDep(q, Active(k)) \/ GatedDep(q, Active(k)) \/ HasCycle(q, Active(k)))
  BY <1>q, UpReads, Zenon
<1>k. /\ Defined(q) = Defined(p)
      /\ \A n \in Defined(p) : Enabled(q, n, {}) <=> Enabled(p, n, {})
      /\ ActiveServices(q, {}) = ActiveServices(p, {})
      /\ \A n \in Defined(p) : \A d \in p.deps[n] :
           (~d.optional \/ (d.to \in Defined(p) /\ d.to \in Active(k)) \/ (d.to \notin Defined(p) /\ Enabled(p, n, {})))
           => d \in q.deps[n]
  BY <1>q, WhatUpKeeps, SMT
<1>2. /\ \A n \in Defined(p) : Enabled(q, n, {}) <=> Enabled(p, n, {})
      /\ ActiveServices(q, {}) = ActiveServices(p, {})
      /\ \A n \in Defined(p) : \A d \in p.deps[n] : ~d.optional \/ (d.to \notin Defined(p) /\ Enabled(p, n, {})) => d \in q.deps[n]
      /\ Defined(q) = Defined(p)
  BY <1>k, Zenon
<1>3. /\ Unnamed(k) \subseteq Active(k) /\ Active(k) \subseteq Defined(p)
      /\ \A n \in Defined(p) : Enabled(p, n, {}) => n \in Unnamed(k)
  BY ReadIsDefined, Zenon
<1>4. FollowedFrom(k) \subseteq Active(k)
  BY ReachedIsClosed, Zenon DEF FollowedFrom
<1>5. \E n : \/ n \in FollowedFrom(k) /\ f \in FaultsOf(p, n, Active(k))
             \/ n \in Defined(p) /\ Enabled(p, n, {}) /\ f \in FaultsOf(p, n, Unnamed(k))
  BY Zenon DEF NamedFaults
<1>6. CASE \E n : n \in FollowedFrom(k) /\ f \in FaultsOf(p, n, Active(k))
  <2>1. PICK n : n \in FollowedFrom(k) /\ f \in FaultsOf(p, n, Active(k))
    BY <1>6
  <2>2. n \in Active(k) /\ n \in Defined(p)
    BY <1>3, <1>4, <2>1, Zenon
  <2>3. PICK d \in p.deps[n] : IF d.to \in Defined(p) THEN ~d.optional /\ d.to \notin Active(k) ELSE ~d.optional \/ Enabled(p, n, {})
    BY <2>1, Zenon DEF FaultsOf
  <2>4. d \in q.deps[n]
    BY <1>2, <2>2, <2>3, Zenon
  <2>5. CASE d.to \in Defined(p)
    <3>1. GatedDep(q, Active(k))
      BY <1>2, <2>2, <2>3, <2>4, <2>5, Zenon DEF GatedDep
    <3> QED BY <1>1, <3>1
  <2>6. CASE d.to \notin Defined(p)
    <3>1. UnknownDep(q, Active(k))
      BY <1>2, <2>2, <2>4, <2>6, Zenon DEF UnknownDep, DepNames
    <3> QED BY <1>1, <3>1
  <2> QED BY <2>5, <2>6
<1>7. CASE \E n : n \in Defined(p) /\ Enabled(p, n, {}) /\ f \in FaultsOf(p, n, Unnamed(k))
  <2>1. PICK n : n \in Defined(p) /\ Enabled(p, n, {}) /\ f \in FaultsOf(p, n, Unnamed(k))
    BY <1>7
  <2>2. n \in Active(k) /\ Enabled(q, n, {})
    BY <1>2, <1>3, <2>1, Zenon
  <2>3. PICK d \in p.deps[n] : IF d.to \in Defined(p) THEN ~d.optional /\ d.to \notin Unnamed(k) ELSE ~d.optional \/ Enabled(p, n, {})
    BY <2>1, Zenon DEF FaultsOf
  <2>4. d \in q.deps[n]
    BY <1>2, <2>1, <2>3, Zenon
  <2>5. CASE d.to \in Defined(p)
    <3>1. GatedDep(q, Active(k))
      BY <1>2, <2>2, <2>3, <2>4, <2>5, Zenon DEF GatedDep, Unnamed
    <3> QED BY <1>1, <3>1
  <2>6. CASE d.to \notin Defined(p)
    <3>1. UnknownDep(q, Active(k))
      BY <1>2, <2>2, <2>4, <2>6, Zenon DEF UnknownDep, DepNames
    <3> QED BY <1>1, <3>1
  <2> QED BY <2>5, <2>6
<1> QED BY <1>5, <1>6, <1>7, Zenon

\* A walk of some services: those it is in, each below the ones before it, and those it has placed, each
\* after what it depends on; in an order that does not go back, but where it would be a cycle.
WalkOf(p, R, back, stack, order) ==
  /\ stack \in Seq(R) /\ order \in Seq(R)
  /\ IsInjective(stack) /\ IsInjective(order) /\ ToSet(stack) \cap ToSet(order) = {}
  /\ \A i, j \in DOMAIN stack : i < j => stack[j] \in Below(p, R, stack[i])
  /\ \A i \in DOMAIN order : \A d \in DepNames(p, order[i]) \cap R :
       (\E j \in DOMAIN order : order[j] = d /\ j < i) \/ (~back /\ order[i] \in Below(p, R, d))
\* What it goes on to: back, in a cycle check.
AheadOf(p, R, back, stack, order) ==
  IF stack = <<>> THEN R \ ToSet(order)
  ELSE ((DepNames(p, Last(stack)) \cap R) \ ToSet(order)) \ (IF back THEN {} ELSE ToSet(stack))

\* The last of a sequence, and what is before it.
LEMMA LastAndFront ==
  ASSUME NEW R, NEW s \in Seq(R), s # <<>>
  PROVE  /\ Len(s) \in Nat \ {0} /\ DOMAIN s = 1..Len(s) /\ Len(s) \in DOMAIN s
         /\ Last(s) = s[Len(s)] /\ Last(s) \in R
         /\ Front(s) \in Seq(R) /\ Len(Front(s)) = Len(s) - 1
         /\ DOMAIN Front(s) = 1..(Len(s) - 1)
         /\ \A i \in 1..(Len(s) - 1) : Front(s)[i] = s[i]
<1>1. Len(s) \in Nat \ {0} /\ DOMAIN s = 1..Len(s) /\ Len(s) \in DOMAIN s
  OBVIOUS
<1>2. Last(s) = s[Len(s)]
  BY DEF Last
<1>3. Last(s) \in R
  BY <1>1, <1>2
<1>4. Front(s) \in Seq(R) /\ Len(Front(s)) = Len(s) - 1
  BY <1>1 DEF Front
<1>5. DOMAIN Front(s) = 1..(Len(s) - 1)
  BY <1>4
<1>6. \A i \in 1..(Len(s) - 1) : Front(s)[i] = s[i]
  BY <1>1 DEF Front
<1> QED BY <1>1, <1>2, <1>3, <1>4, <1>5, <1>6

\* One more at the end of a sequence.
LEMMA OneMore ==
  ASSUME NEW R, NEW s \in Seq(R), NEW n \in R
  PROVE  /\ Len(s) \in Nat /\ DOMAIN s = 1..Len(s)
         /\ Append(s, n) \in Seq(R) /\ DOMAIN Append(s, n) = 1..(Len(s) + 1)
         /\ \A i \in 1..Len(s) : Append(s, n)[i] = s[i]
         /\ Append(s, n)[Len(s) + 1] = n
         /\ ToSet(Append(s, n)) = ToSet(s) \cup {n}
         /\ IsInjective(s) /\ n \notin ToSet(s) => IsInjective(Append(s, n))
<1>1. Len(s) \in Nat /\ DOMAIN s = 1..Len(s)
  OBVIOUS
<1> DEFINE t == Append(s, n)
<1>2. t \in Seq(R) /\ Len(t) = Len(s) + 1
  OBVIOUS
<1>3. /\ DOMAIN t = 1..(Len(s) + 1)
      /\ \A i \in 1..Len(s) : t[i] = s[i]
      /\ t[Len(s) + 1] = n
  OBVIOUS
<1> HIDE DEF t
<1>4. \A i \in DOMAIN t : i \in DOMAIN s \/ i = Len(s) + 1
  BY <1>1, <1>3
<1>5. ToSet(t) = ToSet(s) \cup {n}
  <2>1. ToSet(t) \subseteq ToSet(s) \cup {n}
    BY <1>1, <1>3, <1>4 DEF ToSet
  <2>2. ToSet(s) \subseteq ToSet(t)
    <3>1. \A i \in DOMAIN s : i \in DOMAIN t /\ t[i] = s[i]
      BY <1>1, <1>3
    <3> QED BY <3>1 DEF ToSet
  <2>3. n \in ToSet(t)
    <3>1. Len(s) + 1 \in DOMAIN t
      BY <1>1, <1>3
    <3> QED BY <3>1, <1>3 DEF ToSet
  <2> QED BY <2>1, <2>2, <2>3
<1>6. ASSUME IsInjective(s), n \notin ToSet(s) PROVE IsInjective(t)
  <2> SUFFICES ASSUME NEW i \in DOMAIN t, NEW j \in DOMAIN t, t[i] = t[j] PROVE i = j
    BY DEF IsInjective
  <2>1. \A l \in DOMAIN s : s[l] # n
    BY <1>6 DEF ToSet
  <2>2. \A l, m \in DOMAIN s : s[l] = s[m] => l = m
    BY <1>6 DEF IsInjective
  <2> QED BY <1>1, <1>3, <1>4, <2>1, <2>2
<1> QED BY <1>1, <1>2, <1>3, <1>5, <1>6 DEF t

\* A walk that visits a service it has not met goes on as one.
LEMMA WalkVisits ==
  ASSUME NEW p, NEW R, NEW back \in BOOLEAN, NEW stack, NEW order, WalkOf(p, R, back, stack, order),
         NEW n \in AheadOf(p, R, back, stack, order), n \notin ToSet(stack)
  PROVE  WalkOf(p, R, back, Append(stack, n), order)
<1> DEFINE t == Append(stack, n)
<1>1. /\ stack \in Seq(R) /\ order \in Seq(R)
      /\ IsInjective(stack) /\ IsInjective(order) /\ ToSet(stack) \cap ToSet(order) = {}
      /\ \A i, j \in DOMAIN stack : i < j => stack[j] \in Below(p, R, stack[i])
  BY DEF WalkOf
<1>2. n \in R /\ n \notin ToSet(order) /\ (stack # <<>> => n \in DepNames(p, Last(stack)))
  BY DEF AheadOf
<1>3. /\ t \in Seq(R) /\ DOMAIN t = 1..(Len(stack) + 1)
      /\ \A i \in 1..Len(stack) : t[i] = stack[i]
      /\ t[Len(stack) + 1] = n
      /\ ToSet(t) = ToSet(stack) \cup {n}
      /\ IsInjective(t)
      /\ Len(stack) \in Nat /\ DOMAIN stack = 1..Len(stack)
  BY <1>1, <1>2, OneMore
<1> HIDE DEF t
<1>4. ToSet(t) \cap ToSet(order) = {}
  BY <1>1, <1>2, <1>3
<1>5. ASSUME NEW i \in DOMAIN t, NEW j \in DOMAIN t, i < j PROVE t[j] \in Below(p, R, t[i])
  <2>1. i \in 1..Len(stack) /\ t[i] = stack[i] /\ i \in DOMAIN stack
    BY <1>3, <1>5
  <2>2. CASE j \in 1..Len(stack)
    BY <1>1, <1>3, <1>5, <2>1, <2>2
  <2>3. CASE j = Len(stack) + 1
    <3>1. stack # <<>>
      BY <1>1, <2>1
    <3>2. Last(stack) = stack[Len(stack)] /\ Len(stack) \in DOMAIN stack /\ n \in DepNames(p, Last(stack)) \cap R
      BY <1>1, <1>2, <3>1, LastAndFront, Zenon
    <3>3. CASE i = Len(stack)
      <4>1. n \in Below(p, R, stack[i])
        BY <3>2, <3>3, BelowGoesDown
      <4> QED BY <4>1, <2>1, <2>3, <1>3
    <3>4. CASE i < Len(stack)
      <4>1. Last(stack) \in Below(p, R, stack[i])
        BY <3>2, <3>4, <2>1, <1>1
      <4>2. n \in Below(p, R, stack[i])
        BY <4>1, <3>2, BelowGoesDown
      <4> QED BY <4>2, <2>1, <2>3, <1>3
    <3> QED BY <3>3, <3>4, <2>1
  <2> QED BY <2>2, <2>3, <1>3
<1>6. /\ \A i \in DOMAIN order : \A d \in DepNames(p, order[i]) \cap R :
           (\E j \in DOMAIN order : order[j] = d /\ j < i) \/ (~back /\ order[i] \in Below(p, R, d))
  BY DEF WalkOf
<1> QED BY <1>1, <1>3, <1>4, <1>5, <1>6 DEF WalkOf, t

\* A service it is in already closes a cycle, which a cycle check goes back on.
LEMMA WalkFindsCycle ==
  ASSUME NEW p, NEW R, NEW back \in BOOLEAN, NEW stack, NEW order, WalkOf(p, R, back, stack, order),
         NEW n \in AheadOf(p, R, back, stack, order), n \in ToSet(stack)
  PROVE  back /\ HasCycle(p, R)
<1>1. /\ stack \in Seq(R) /\ \A i, j \in DOMAIN stack : i < j => stack[j] \in Below(p, R, stack[i])
  BY DEF WalkOf
<1>2. stack # <<>>
  BY DEF ToSet
<1>3. back /\ n \in DepNames(p, Last(stack)) \cap R
  BY <1>2 DEF AheadOf
<1>4. PICK i \in DOMAIN stack : stack[i] = n
  BY DEF ToSet
<1>5. /\ Last(stack) = stack[Len(stack)] /\ Len(stack) \in DOMAIN stack
      /\ DOMAIN stack = 1..Len(stack)
  BY <1>1, <1>2, LastAndFront, Zenon
<1>6. n \in Below(p, R, n)
  <2>1. CASE i = Len(stack)
    BY <1>3, <1>4, <1>5, <2>1, BelowGoesDown
  <2>2. CASE i < Len(stack)
    <3>1. Last(stack) \in Below(p, R, n)
      BY <1>1, <1>4, <1>5, <2>2
    <3> QED BY <1>3, <3>1, BelowGoesDown
  <2> QED BY <1>4, <1>5, <2>1, <2>2
<1> QED BY <1>3, <1>6 DEF HasCycle

\* A service is placed after all it depends on, but what it is walked from and is below it.
LEMMA WalkPlaces ==
  ASSUME NEW p, NEW R, NEW back \in BOOLEAN, NEW stack, NEW order, WalkOf(p, R, back, stack, order),
         AheadOf(p, R, back, stack, order) = {}, stack # <<>>
  PROVE  WalkOf(p, R, back, Front(stack), Append(order, Last(stack)))
<1>1. /\ stack \in Seq(R) /\ order \in Seq(R)
      /\ IsInjective(stack) /\ IsInjective(order) /\ ToSet(stack) \cap ToSet(order) = {}
      /\ \A i, j \in DOMAIN stack : i < j => stack[j] \in Below(p, R, stack[i])
      /\ \A i \in DOMAIN order : \A d \in DepNames(p, order[i]) \cap R :
           (\E j \in DOMAIN order : order[j] = d /\ j < i) \/ (~back /\ order[i] \in Below(p, R, d))
  BY DEF WalkOf
<1>2. PICK n : n = Last(stack)
  OBVIOUS
<1>3. PICK s : s = Front(stack)
  OBVIOUS
<1>4. /\ Len(stack) \in Nat \ {0} /\ DOMAIN stack = 1..Len(stack) /\ Len(stack) \in DOMAIN stack
      /\ n = stack[Len(stack)] /\ n \in R
      /\ s \in Seq(R) /\ DOMAIN s = 1..(Len(stack) - 1)
      /\ \A i \in 1..(Len(stack) - 1) : s[i] = stack[i]
  BY <1>1, <1>2, <1>3, LastAndFront, ZenonT(60)
<1>5. n \in ToSet(stack) /\ n \notin ToSet(order)
  BY <1>1, <1>4 DEF ToSet
<1>6. PICK t : t = Append(order, n)
  OBVIOUS
<1>7. /\ t \in Seq(R) /\ Len(order) \in Nat /\ DOMAIN order = 1..Len(order)
      /\ DOMAIN t = 1..(Len(order) + 1)
      /\ \A i \in 1..Len(order) : t[i] = order[i]
      /\ t[Len(order) + 1] = n
      /\ ToSet(t) = ToSet(order) \cup {n}
      /\ IsInjective(t)
  BY <1>1, <1>4, <1>5, <1>6, OneMore
<1>8. \A i \in DOMAIN s : i \in DOMAIN stack /\ s[i] = stack[i] /\ i # Len(stack)
  BY <1>4
<1>9. IsInjective(s) /\ n \notin ToSet(s) /\ ToSet(s) \subseteq ToSet(stack)
  <2>1. \A i, j \in DOMAIN stack : stack[i] = stack[j] => i = j
    BY <1>1, Zenon DEF IsInjective
  <2> QED BY <2>1, <1>4, <1>8, ZenonT(60) DEF IsInjective, ToSet
<1>10. ToSet(s) \cap ToSet(t) = {}
  BY <1>1, <1>7, <1>9
<1>11. \A i, j \in DOMAIN s : i < j => s[j] \in Below(p, R, s[i])
  BY <1>1, <1>8
<1>12. ASSUME NEW i \in DOMAIN t, NEW d \in DepNames(p, t[i]) \cap R
       PROVE  (\E j \in DOMAIN t : t[j] = d /\ j < i) \/ (~back /\ t[i] \in Below(p, R, d))
  <2>0. \A j \in DOMAIN order : j \in DOMAIN t /\ t[j] = order[j] /\ j < Len(order) + 1
    BY <1>7
  <2>1. CASE i \in DOMAIN order
    <3>1. (\E j \in DOMAIN order : order[j] = d /\ j < i) \/ (~back /\ order[i] \in Below(p, R, d))
      BY <1>1, <1>12, <2>0, <2>1, Zenon
    <3> QED BY <3>1, <2>0, <2>1, Zenon
  <2>2. CASE i = Len(order) + 1
    <3>1. t[i] = n /\ d \in DepNames(p, n) \cap R
      BY <1>7, <1>12, <2>2, Zenon
    <3>2. d \in ToSet(order) \/ (~back /\ d \in ToSet(stack))
      BY <1>2, <3>1 DEF AheadOf
    <3>3. CASE d \in ToSet(order)
      <4>1. PICK j \in DOMAIN order : order[j] = d
        BY <3>3 DEF ToSet
      <4> QED BY <4>1, <2>0, <2>2, Zenon
    <3>4. CASE ~back /\ d \in ToSet(stack)
      <4>1. PICK j \in DOMAIN stack : stack[j] = d
        BY <3>4 DEF ToSet
      <4>2. CASE j = Len(stack)
        <5>1. d = n
          BY <1>4, <4>1, <4>2
        <5> QED BY <5>1, <3>1, <3>4, BelowGoesDown, Zenon
      <4>3. CASE j < Len(stack)
        BY <1>1, <1>4, <4>1, <4>3, <3>1, <3>4
      <4> QED BY <1>4, <4>1, <4>2, <4>3
    <3> QED BY <3>2, <3>3, <3>4
  <2> QED BY <1>7, <2>1, <2>2
<1> QED BY <1>2, <1>3, <1>4, <1>6, <1>7, <1>9, <1>10, <1>11, <1>12 DEF WalkOf

\* A walk that has nothing ahead and is in no service has placed them all, and a cycle check found no cycle.
LEMMA WalkEnds ==
  ASSUME NEW p, NEW R, NEW back \in BOOLEAN, NEW stack, NEW order, WalkOf(p, R, back, stack, order),
         AheadOf(p, R, back, stack, order) = {}, stack = <<>>
  PROVE  /\ ToSet(order) = R
         /\ back => ~HasCycle(p, R)
<1>1. order \in Seq(R) /\ IsInjective(order)
  BY DEF WalkOf
<1>2. ToSet(order) = R
  BY <1>1 DEF AheadOf, ToSet
<1>3. ASSUME back PROVE ~HasCycle(p, R)
  <2>1. \A i \in DOMAIN order : \A d \in DepNames(p, order[i]) \cap R : \E j \in DOMAIN order : order[j] = d /\ j < i
    BY <1>3 DEF WalkOf
  <2>2. DOMAIN order \in SUBSET Nat
    BY <1>1
  <2> QED BY <1>1, <1>2, <2>1, <2>2, OrderLeavesNoCycle, Zenon
<1> QED BY <1>2, <1>3

\* The walks each command makes: only the last places services, over all that is defined.
LEMMA StagesAre ==
  ASSUME NEW k \in OrderQuestions
  PROVE  /\ Len(StagesOf(k)) \in 1..3 /\ DOMAIN StagesOf(k) = 1..Len(StagesOf(k))
         /\ Last(StagesOf(k)) = StagesOf(k)[Len(StagesOf(k))]
         /\ \A m \in 1..Len(StagesOf(k)) :
              /\ StagesOf(k)[m] \in {"loads", "named", "reads", "places", "tolerates"}
              /\ Places(StagesOf(k)[m]) => m = Len(StagesOf(k))
         /\ k.by = "up" => /\ Len(StagesOf(k)) = 3 /\ StagesOf(k)[1] = "loads"
                           /\ StagesOf(k)[2] = "reads" /\ StagesOf(k)[3] = "places"
         /\ k.by # "up" => \A m \in 1..Len(StagesOf(k)) : StagesOf(k)[m] # "loads"
         /\ (k.by = "stop" /\ k.named = {}) => Len(StagesOf(k)) = 1 /\ StagesOf(k)[1] = "tolerates"
<1>0. k.by \in {"up", "start", "stop"}
  BY ReadIsDefined, Zenon
<1>s. PICK s : s = StagesOf(k)
  OBVIOUS
<1> DEFINE Good ==
      /\ Len(s) \in 1..3 /\ DOMAIN s = 1..Len(s)
      /\ Last(s) = s[Len(s)]
      /\ \A m \in 1..Len(s) :
           /\ s[m] \in {"loads", "named", "reads", "places", "tolerates"}
           /\ Places(s[m]) => m = Len(s)
      /\ k.by = "up" => Len(s) = 3 /\ s[1] = "loads" /\ s[2] = "reads" /\ s[3] = "places"
      /\ k.by # "up" => \A m \in 1..Len(s) : s[m] # "loads"
      /\ (k.by = "stop" /\ k.named = {}) => Len(s) = 1 /\ s[1] = "tolerates"
<1>1. ASSUME k.by = "up" PROVE Good
  <2>1. s = <<"loads", "reads", "places">>
    BY <1>s, <1>1 DEF StagesOf
  <2>2. Len(s) = 3 /\ s[1] = "loads" /\ s[2] = "reads" /\ s[3] = "places" /\ DOMAIN s = 1..3
    BY <2>1
  <2>3. \A m \in 1..3 : m = 1 \/ m = 2 \/ m = 3
    OBVIOUS
  <2>4. Last(s) = s[Len(s)]
    BY DEF Last
  <2> QED BY ONLY <1>1, <2>2, <2>3, <2>4 DEF Places
<1>2. ASSUME k.by = "start" /\ k.named = {} PROVE Good
  <2>1. s = <<"reads", "places">>
    BY <1>s, <1>2 DEF StagesOf
  <2>2. Len(s) = 2 /\ s[1] = "reads" /\ s[2] = "places" /\ DOMAIN s = 1..2
    BY <2>1
  <2>3. \A m \in 1..2 : m = 1 \/ m = 2
    OBVIOUS
  <2>4. Last(s) = s[Len(s)]
    BY DEF Last
  <2> QED BY ONLY <1>2, <2>2, <2>3, <2>4 DEF Places
<1>3. ASSUME k.by = "start" /\ k.named # {} PROVE Good
  <2>1. s = <<"named", "reads", "places">>
    BY <1>s, <1>3 DEF StagesOf
  <2>2. Len(s) = 3 /\ s[1] = "named" /\ s[2] = "reads" /\ s[3] = "places" /\ DOMAIN s = 1..3
    BY <2>1
  <2>3. \A m \in 1..3 : m = 1 \/ m = 2 \/ m = 3
    OBVIOUS
  <2>4. Last(s) = s[Len(s)]
    BY DEF Last
  <2> QED BY ONLY <1>3, <2>2, <2>3, <2>4 DEF Places
<1>4. ASSUME k.by = "stop" /\ k.named = {} PROVE Good
  <2>1. s = <<"tolerates">>
    BY <1>s, <1>4 DEF StagesOf
  <2>2. Len(s) = 1 /\ s[1] = "tolerates" /\ DOMAIN s = 1..1
    BY <2>1
  <2>3. \A m \in 1..1 : m = 1
    OBVIOUS
  <2>4. Last(s) = s[Len(s)]
    BY DEF Last
  <2> QED BY ONLY <1>4, <2>2, <2>3, <2>4 DEF Places
<1>5. ASSUME k.by = "stop" /\ k.named # {} PROVE Good
  <2>1. s = <<"named">>
    BY <1>s, <1>5 DEF StagesOf
  <2>2. Len(s) = 1 /\ s[1] = "named" /\ DOMAIN s = 1..1
    BY <2>1
  <2>3. \A m \in 1..1 : m = 1
    OBVIOUS
  <2>4. Last(s) = s[Len(s)]
    BY DEF Last
  <2> QED BY ONLY <1>5, <2>2, <2>3, <2>4 DEF Places
<1>6. Good
  BY <1>0, <1>1, <1>2, <1>3, <1>4, <1>5
<1> QED BY <1>s, <1>6

\* What is asked before a walk, and what a cycle check finds, is cause for `up` to refuse.
LEMMA FaultIsCause ==
  ASSUME NEW k \in OrderQuestions, NEW m \in 1..Len(StagesOf(k)), NEW f \in StageFaults(k, StagesOf(k)[m])
  PROVE  /\ UpRefuses(k)
         /\ k.by = "stop" /\ k.named = {} => UnknownDep(k.project, Unnamed(k))
<1> DEFINE st == StagesOf(k)[m]
           p == ProjectRead(k)
<1>1. /\ st \in {"loads", "named", "reads", "places", "tolerates"}
      /\ k.by # "up" => st # "loads"
      /\ (k.by = "stop" /\ k.named = {}) => st = "tolerates"
  <2>1. /\ st \in {"loads", "named", "reads", "places", "tolerates"}
        /\ k.by # "up" => st # "loads"
    BY StagesAre, Zenon
  <2>2. k.by = "stop" /\ k.named = {} => m \in 1..1 /\ StagesOf(k)[1] = "tolerates"
    BY StagesAre, Zenon
  <2> QED BY <2>1, <2>2
<1>2. CASE st = "loads"
  <2>1. f \in LoadFaults(p, Active(k))
    BY <1>2 DEF StageFaults
  <2>2. UnknownDep(p, Active(k)) \/ GatedDep(p, Active(k))
    BY <2>1, Zenon DEF LoadFaults
  <2>3. UpRefuses(k) <=> (UnknownDep(p, Active(k)) \/ GatedDep(p, Active(k)) \/ HasCycle(p, Active(k)))
    BY <1>1, <1>2, UpReads
  <2> QED BY <2>2, <2>3, <1>1, <1>2
<1>3. CASE st = "named"
  <2>1. f \in NamedFaults(k)
    BY <1>3 DEF StageFaults
  <2> QED BY <2>1, <1>1, <1>3, NamedFaultIsCause
<1>4. CASE st \in {"reads", "tolerates"}
  <2>1. UnknownDep(p, Unnamed(k))
    BY <1>4 DEF StageFaults
  <2>2. UpRefuses(k)
    BY <2>1, UnknownIsCause
  <2>3. k.by = "stop" => p = k.project
    BY DEF ProjectRead
  <2> QED BY <2>1, <2>2, <2>3
<1>5. CASE st = "places"
  BY <1>5 DEF StageFaults
<1> QED BY <1>1, <1>2, <1>3, <1>4, <1>5

\* So is a cycle that a check finds.
LEMMA CycleInWalkIsCause ==
  ASSUME NEW k \in OrderQuestions, NEW m \in 1..Len(StagesOf(k)), ~Places(StagesOf(k)[m]),
         HasCycle(ProjectRead(k), ReadIn(k, StagesOf(k)[m]))
  PROVE  /\ UpRefuses(k)
         /\ ~(k.by = "stop" /\ k.named = {})
<1> DEFINE st == StagesOf(k)[m]
<1>1. /\ st \in {"loads", "named", "reads", "places", "tolerates"}
      /\ k.by # "up" => st # "loads"
      /\ (k.by = "stop" /\ k.named = {}) => st = "tolerates"
  <2>1. /\ st \in {"loads", "named", "reads", "places", "tolerates"}
        /\ k.by # "up" => st # "loads"
    BY StagesAre, Zenon
  <2>2. k.by = "stop" /\ k.named = {} => m \in 1..1 /\ StagesOf(k)[1] = "tolerates"
    BY StagesAre, Zenon
  <2> QED BY <2>1, <2>2
<1>2. st \in {"loads", "named", "reads"}
  BY <1>1 DEF Places
<1>3. ReadIn(k, st) = IF st = "loads" THEN Active(k) ELSE Unnamed(k)
  BY <1>2 DEF ReadIn
<1> QED BY <1>1, <1>2, <1>3, CycleIsCause

\* A refusal is told from an order, and from no reply.
LEMMA RepliesDiffer ==
  /\ \A f : IsRefused(Refused(f)) /\ Refused(f) # NoReply
  /\ \A o, t : ~IsRefused([order |-> o, taken |-> t]) /\ [order |-> o, taken |-> t] # NoReply
<1>1. \A f : DOMAIN Refused(f) = {"refused"}
  BY DEF Refused
<1>2. DOMAIN NoReply = {"waits"}
  BY DEF NoReply
<1>3. \A o, t : DOMAIN [order |-> o, taken |-> t] = {"order", "taken"}
  OBVIOUS
<1>4. {"refused"} # {"waits"} /\ {"order", "taken"} # {"waits"} /\ {"order", "taken"} # {"refused"}
  OBVIOUS
<1> QED BY <1>1, <1>2, <1>3, <1>4, Zenon DEF IsRefused

\* A refusal with a cause is fair.
LEMMA RefusalIsFair ==
  ASSUME NEW k \in OrderQuestions, NEW f, UpRefuses(k),
         (k.by = "stop" /\ k.named = {}) => UnknownDep(k.project, Unnamed(k))
  PROVE  /\ UpRefusedForCauseOf(k, Refused(f)) /\ UpStartsInOrderOf(k, Refused(f))
         /\ OrderHoldsOf(k, Refused(f)) /\ OthersFollowUpOf(k, Refused(f))
<1>1. IsRefused(Refused(f))
  BY RepliesDiffer, Zenon
<1> QED BY <1>1, Zenon DEF UpRefusedForCauseOf, UpStartsInOrderOf, OrderHoldsOf, OthersFollowUpOf

\* The walks there are, by name.
Stages == {"loads", "named", "reads", "places", "tolerates"}
\* A walk that a command is on: what was asked before it and before the others is no fault, and those that
\* are over found no cycle.
Walking(k, w) ==
  /\ w \in [nth : Nat, stage : Stages, stack : Seq(ToSet(Alphabet)), order : Seq(ToSet(Alphabet))]
  /\ w.nth \in 1..Len(StagesOf(k)) /\ w.stage = StagesOf(k)[w.nth]
  /\ WalkOf(ProjectRead(k), ReadIn(k, w.stage), ~Places(w.stage), w.stack, w.order)
  /\ \A m \in 1..w.nth : StageFaults(k, StagesOf(k)[m]) = {}
  /\ \A m \in 1..(w.nth - 1) : ~HasCycle(ProjectRead(k), ReadIn(k, StagesOf(k)[m]))

\* The inductive invariant: until it is told, a command has not begun or is on one of its walks.
OrderInv ==
  /\ reading \in OrderQuestions
  /\ reply = NoReply => walk = NoWalk \/ Walking(reading, walk)
  /\ WalksAreInOrder

\* What a walk goes on to, by its stage.
LEMMA AheadIsAhead ==
  ASSUME NEW k, NEW w
  PROVE  AheadIn(k, w) = AheadOf(ProjectRead(k), ReadIn(k, w.stage), ~Places(w.stage), w.stack, w.order)
<1>1. Places(w.stage) \in BOOLEAN
  BY DEF Places
<1> QED BY <1>1 DEF AheadIn, AheadOf

\* What a walk reads is defined, all of it where services are placed.
LEMMA ReadInIsDefined ==
  ASSUME NEW k \in OrderQuestions, NEW stage \in {"loads", "named", "reads", "places", "tolerates"}
  PROVE  /\ ReadIn(k, stage) \subseteq Defined(k.project)
         /\ ReadIn(k, stage) \subseteq ToSet(Alphabet)
         /\ Places(stage) => ReadIn(k, stage) = Defined(k.project)
<1>1. Active(k) \subseteq Defined(k.project) /\ Unnamed(k) \subseteq Active(k) /\ Defined(k.project) \subseteq ToSet(Alphabet)
  BY ReadIsDefined, Zenon
<1>2. CASE stage = "loads"
  BY <1>1, <1>2 DEF ReadIn, Places
<1>3. CASE stage \in {"named", "reads"}
  BY <1>1, <1>3 DEF ReadIn, Places
<1>4. CASE Places(stage)
  BY <1>1, <1>4 DEF ReadIn, Places
<1> QED BY <1>2, <1>3, <1>4 DEF Places

\* Of what `up` reads, all that a service depends on is read, if nothing of it is refused.
LEMMA ActiveIsWhole ==
  ASSUME NEW q, NEW active, active \subseteq Defined(q), ~UnknownDep(q, active), ~GatedDep(q, active)
  PROVE  \A n \in active : DepNames(q, n) \subseteq active
<1> SUFFICES ASSUME NEW n \in active, NEW d \in DepNames(q, n) PROVE d \in active
  OBVIOUS
<1>1. d \in Defined(q)
  BY Zenon DEF UnknownDep
<1>2. PICK e \in q.deps[n] : d = e.to
  BY Zenon DEF DepNames
<1> QED BY <1>1, <1>2, Zenon DEF GatedDep

\* A set that holds all its members depend on has below them only members, come to among themselves.
LEMMA BelowStaysWithin ==
  ASSUME NEW q, NEW R, NEW S, S \subseteq R, \A n \in S : DepNames(q, n) \subseteq S, NEW d \in S
  PROVE  Below(q, R, d) \subseteq Below(q, S, d)
<1> DEFINE B == Below(q, S, d)
<1>1. /\ B \subseteq S
      /\ DepNames(q, d) \cap S \subseteq B
      /\ \A m \in B : DepNames(q, m) \cap S \subseteq B
  BY BelowGoesDown, Zenon
<1> HIDE DEF B
<1>2. DepNames(q, d) \cap R \subseteq B /\ \A m \in B \cap R : DepNames(q, m) \cap R \subseteq B
  BY <1>1, Zenon
<1>3. ReachedFrom(q, R, DepNames(q, d)) \subseteq B
  BY <1>2, ReachedIsLeast, Zenon
<1> QED BY <1>3 DEF B, Below

\* What `up` takes is read, and holds what it depends on and what was named.
LEMMA TakenIsWhole ==
  ASSUME NEW k \in OrderQuestions, k.by = "up", ~UpRefuses(k)
  PROVE  /\ TakenBy(k) \subseteq Active(k) /\ k.named \subseteq TakenBy(k)
         /\ \A n \in TakenBy(k) : DepNames(ProjectRead(k), n) \subseteq TakenBy(k)
         /\ \A n \in Active(k) : DepNames(ProjectRead(k), n) \subseteq Active(k)
<1>q. PICK q : q = DropOptionalGatedDeps(k.project, Active(k))
  OBVIOUS
<1>1. /\ Defined(q) = Defined(k.project) /\ ProjectRead(k) = q
      /\ ~UnknownDep(q, Active(k)) /\ ~GatedDep(q, Active(k))
  BY <1>q, UpReads, Zenon
<1>2. /\ Active(k) \subseteq Defined(k.project) /\ k.named \subseteq Active(k) /\ k.named \subseteq Defined(k.project)
      /\ Unnamed(k) = {n \in Defined(k.project) : Enabled(k.project, n, {})}
      /\ k.named = {} => Active(k) = Unnamed(k)
  BY ReadIsDefined, Zenon
<1>3. \A n \in Active(k) : DepNames(q, n) \subseteq Active(k)
  BY <1>1, <1>2, ActiveIsWhole, Zenon
<1>4. CASE k.named = {}
  <2>1. TakenBy(k) = {n \in Defined(k.project) : Enabled(k.project, n, {})}
    BY <1>4 DEF TakenBy
  <2>2. TakenBy(k) = Active(k)
    BY <2>1, <1>2, <1>4
  <2> QED BY <2>2, <1>1, <1>2, <1>3
<1>5. CASE k.named # {}
  <2>1. TakenBy(k) = ReachedFrom(q, Defined(k.project), k.named)
    BY <1>1, <1>5 DEF TakenBy, Wanted
  <2>2. TakenBy(k) \subseteq Active(k)
    <3>1. k.named \cap Defined(k.project) \subseteq Active(k)
      BY <1>2
    <3>2. \A n \in Active(k) \cap Defined(k.project) : DepNames(q, n) \cap Defined(k.project) \subseteq Active(k)
      BY <1>3
    <3>3. ReachedFrom(q, Defined(k.project), k.named) \subseteq Active(k)
      BY <3>1, <3>2, ReachedIsLeast, Zenon
    <3> QED BY <2>1, <3>3
  <2>3. /\ k.named \cap Defined(k.project) \subseteq TakenBy(k)
        /\ \A n \in TakenBy(k) : DepNames(q, n) \cap Defined(k.project) \subseteq TakenBy(k)
    BY <2>1, ReachedIsClosed, ZenonT(60)
  <2> QED BY <2>2, <2>3, <1>1, <1>2, <1>3
<1> QED BY <1>4, <1>5

\* The order the last walk leaves, and what is taken of it, is as it should be.
LEMMA OrderIsFair ==
  ASSUME NEW k \in OrderQuestions, NEW w, Walking(k, w), w.nth = Len(StagesOf(k)), w.stack = <<>>, AheadIn(k, w) = {},
         NEW a, a = [order |-> w.order, taken |-> TakenBy(k)]
  PROVE  /\ UpRefusedForCauseOf(k, a) /\ UpStartsInOrderOf(k, a) /\ OrderHoldsOf(k, a) /\ OthersFollowUpOf(k, a)
<1> DEFINE R == ReadIn(k, w.stage)
<1>q. PICK q : q = ProjectRead(k)
  OBVIOUS
<1>1. ~IsRefused(a) /\ a.order = w.order /\ a.taken = TakenBy(k)
  BY RepliesDiffer
<1>2. /\ w.stage = StagesOf(k)[Len(StagesOf(k))]
      /\ WalkOf(q, R, ~Places(w.stage), w.stack, w.order)
      /\ \A m \in 1..Len(StagesOf(k)) : StageFaults(k, StagesOf(k)[m]) = {}
      /\ \A m \in 1..(Len(StagesOf(k)) - 1) : ~HasCycle(q, ReadIn(k, StagesOf(k)[m]))
  BY <1>q DEF Walking
<1>3. /\ Last(StagesOf(k)) = w.stage
      /\ k.by = "up" => Len(StagesOf(k)) = 3 /\ StagesOf(k)[1] = "loads" /\ w.stage = "places"
      /\ (k.by = "stop" /\ k.named = {}) => Len(StagesOf(k)) = 1 /\ StagesOf(k)[1] = "tolerates"
      /\ w.stage \in {"loads", "named", "reads", "places", "tolerates"}
  <2>1. Last(StagesOf(k)) = StagesOf(k)[Len(StagesOf(k))]
    BY StagesAre, Zenon
  <2>2. /\ k.by = "up" => Len(StagesOf(k)) = 3 /\ StagesOf(k)[1] = "loads" /\ StagesOf(k)[3] = "places"
        /\ (k.by = "stop" /\ k.named = {}) => Len(StagesOf(k)) = 1 /\ StagesOf(k)[1] = "tolerates"
    BY StagesAre, Zenon
  <2>3. Len(StagesOf(k)) \in 1..Len(StagesOf(k))
    BY StagesAre
  <2>4. StagesOf(k)[Len(StagesOf(k))] \in {"loads", "named", "reads", "places", "tolerates"}
    BY <2>3, StagesAre, Zenon
  <2> QED BY <1>2, <2>1, <2>2, <2>4
<1>4. ToSet(w.order) = R /\ IsInjective(w.order)
  <2>1. AheadOf(q, R, ~Places(w.stage), w.stack, w.order) = {}
    BY <1>q, AheadIsAhead
  <2>2. (~Places(w.stage)) \in BOOLEAN
    BY DEF Places
  <2> HIDE DEF R
  <2>3. ToSet(w.order) = R
    BY <1>2, <2>1, <2>2, WalkEnds, Zenon
  <2> QED BY <2>3, <1>2 DEF WalkOf
<1>5. ASSUME Places(w.stage)
      PROVE  /\ R = Defined(k.project)
             /\ \A n \in R : \A d \in DepNames(q, n) \cap R : InPlace(w.order, n, d) \/ n \in Below(q, R, d)
  <2>1. R = Defined(k.project)
    BY <1>3, <1>5, ReadInIsDefined
  <2> HIDE DEF R
  <2>2. ASSUME NEW n \in R, NEW d \in DepNames(q, n) \cap R PROVE InPlace(w.order, n, d) \/ n \in Below(q, R, d)
    <3>1. PICK i \in DOMAIN w.order : w.order[i] = n
      BY <1>4 DEF ToSet
    <3>2. (\E j \in DOMAIN w.order : w.order[j] = d /\ j < i) \/ n \in Below(q, R, d)
      BY <1>2, <3>1, Zenon DEF WalkOf
    <3> QED BY <3>1, <3>2, Zenon DEF InPlace
  <2> QED BY <2>1, <2>2
<1>6. k.by = "up" => ~UpRefuses(k)
  <2> SUFFICES ASSUME k.by = "up" PROVE ~UpRefuses(k)
    OBVIOUS
  <2>1. UpRefuses(k) <=> (UnknownDep(q, Active(k)) \/ GatedDep(q, Active(k)) \/ HasCycle(q, Active(k)))
    BY <1>q, UpReads
  <2>2. 1 \in 1..Len(StagesOf(k)) /\ 1 \in 1..(Len(StagesOf(k)) - 1)
    <3>1. Len(StagesOf(k)) = 3
      BY <1>3, Zenon
    <3> QED BY ONLY <3>1
  <2>3. StageFaults(k, "loads") = {} /\ ~HasCycle(q, ReadIn(k, "loads"))
    BY <1>2, <1>3, <2>2
  <2>4. LoadFaults(q, Active(k)) = {} /\ ReadIn(k, "loads") = Active(k)
    <3>1. StageFaults(k, "loads") = LoadFaults(q, Active(k))
      BY <1>q DEF StageFaults
    <3>2. ReadIn(k, "loads") = Active(k)
      BY DEF ReadIn, Places
    <3> QED BY <2>3, <3>1, <3>2
  <2>5. ~UnknownDep(q, Active(k)) /\ ~GatedDep(q, Active(k))
    <3>1. "gated" # "unknown"
      OBVIOUS
    <3>2. \A f \in {"unknown", "gated"} : ~(IF f = "unknown" THEN UnknownDep(q, Active(k)) ELSE GatedDep(q, Active(k)))
      BY <2>4, Zenon DEF LoadFaults
    <3> QED BY <3>1, <3>2, Zenon
  <2> QED BY <2>1, <2>3, <2>4, <2>5
<1>7. UpRefusedForCauseOf(k, a) /\ OthersFollowUpOf(k, a)
  BY <1>1, <1>6 DEF UpRefusedForCauseOf, OthersFollowUpOf
<1>8. OrderHoldsOf(k, a)
  <2>1. Places(w.stage) => /\ ToSet(w.order) = Defined(k.project)
                           /\ \A n \in Defined(k.project) : \A d \in DepNames(q, n) \cap Defined(k.project) :
                                n \notin Below(q, Defined(k.project), d) => InPlace(w.order, n, d)
    BY <1>4, <1>5
  <2>2. k.by = "stop" /\ k.named = {} => ~UnknownDep(k.project, Unnamed(k))
    <3> SUFFICES ASSUME k.by = "stop", k.named = {} PROVE ~UnknownDep(k.project, Unnamed(k))
      OBVIOUS
    <3>1. StageFaults(k, "tolerates") = {}
      <4>1. 1 \in 1..Len(StagesOf(k))
        BY <1>3, SMTT(60)
      <4> QED BY <1>2, <1>3, <4>1
    <3>2. q = k.project
      BY <1>q DEF ProjectRead
    <3> QED BY <3>1, <3>2, <1>q DEF StageFaults
  <2> QED BY <1>1, <1>3, <1>4, <1>q, <2>1, <2>2, Zenon DEF OrderHoldsOf
<1>9. UpStartsInOrderOf(k, a)
  <2> SUFFICES ASSUME k.by = "up"
               PROVE  /\ k.named \subseteq TakenBy(k)
                      /\ \A n \in TakenBy(k) : \A d \in DepNames(q, n) : d \in TakenBy(k) /\ InPlace(w.order, n, d)
    BY <1>1, <1>4, <1>q, Zenon DEF UpStartsInOrderOf
  <2>1. Places(w.stage)
    BY <1>3 DEF Places
  <2>2. /\ R = Defined(k.project)
        /\ \A n \in R : \A d \in DepNames(q, n) \cap R : InPlace(w.order, n, d) \/ n \in Below(q, R, d)
    BY <1>5, <2>1
  <2>3. /\ TakenBy(k) \subseteq Active(k) /\ k.named \subseteq TakenBy(k)
        /\ \A n \in TakenBy(k) : DepNames(q, n) \subseteq TakenBy(k)
        /\ \A n \in Active(k) : DepNames(q, n) \subseteq Active(k)
    BY <1>6, <1>q, TakenIsWhole
  <2>4. Active(k) \subseteq R
    BY <2>2, ReadIsDefined
  <2>5. ~HasCycle(q, Active(k))
    BY <1>6, <1>q, UpReads
  <2> HIDE DEF R
  <2>6. ASSUME NEW n \in TakenBy(k), NEW d \in DepNames(q, n) PROVE InPlace(w.order, n, d)
    <3>1. n \in Active(k) /\ d \in Active(k) /\ n \in R /\ d \in R
      BY <2>3, <2>4
    <3>2. ASSUME n \in Below(q, R, d) PROVE FALSE
      <4>1. n \in Below(q, Active(k), d)
        BY <2>3, <2>4, <3>1, <3>2, BelowStaysWithin, Zenon
      <4>2. d \in Below(q, Active(k), d)
        BY <4>1, <3>1, BelowGoesDown, Zenon
      <4> QED BY <4>2, <2>5, <3>1, Zenon DEF HasCycle
    <3> QED BY <2>2, <3>1, <3>2
  <2> QED BY <2>3, <2>6
<1> QED BY <1>7, <1>8, <1>9

\* Going on from a walk that is over, or to the first, keeps the invariant: on to another walk, to a refusal
\* with a cause, or to the order.
LEMMA GoesOnWell ==
  ASSUME OrderInv, reply = NoReply, NEW n \in 1..(Len(StagesOf(reading)) + 1), GoesOn(n),
         n > 1 => walk.nth = n - 1 /\ Walking(reading, walk) /\ walk.stack = <<>> /\ AheadIn(reading, walk) = {}
  PROVE  OrderInv'
<1>1. reading' = reading /\ reading \in OrderQuestions
  BY DEF OrderInv, GoesOn
<1>k. PICK k : k = reading
  OBVIOUS
<1>2. Len(StagesOf(k)) \in 1..3 /\ \A m \in 1..Len(StagesOf(k)) :
         /\ StagesOf(k)[m] \in {"loads", "named", "reads", "places", "tolerates"}
         /\ Places(StagesOf(k)[m]) => m = Len(StagesOf(k))
  BY <1>1, <1>k, StagesAre, Zenon
<1>3. CASE n > Len(StagesOf(k))
  <2>1. n > 1 /\ n - 1 = Len(StagesOf(k))
    BY <1>2, <1>3, <1>k
  <2>2. reply' = [order |-> walk.order, taken |-> TakenBy(k)]
    BY <1>3, <1>k DEF GoesOn
  <2>3. reply' # NoReply
    BY <2>2, RepliesDiffer
  <2>w. PICK w : w = walk
    OBVIOUS
  <2>a. PICK a : a = reply'
    OBVIOUS
  <2>4. /\ Walking(k, w) /\ w.nth = Len(StagesOf(k)) /\ w.stack = <<>> /\ AheadIn(k, w) = {}
        /\ a = [order |-> w.order, taken |-> TakenBy(k)]
    BY <1>k, <2>w, <2>a, <2>1, <2>2
  <2>5. UpRefusedForCauseOf(k, a) /\ UpStartsInOrderOf(k, a) /\ OrderHoldsOf(k, a) /\ OthersFollowUpOf(k, a)
    BY <1>1, <1>k, <2>4, OrderIsFair, Zenon
  <2>6. WalksAreInOrder'
    BY <1>1, <1>k, <2>a, <2>5 DEF WalksAreInOrder
  <2> QED BY <1>1, <2>3, <2>6 DEF OrderInv
<1>4. CASE ~(n > Len(StagesOf(k)))
  <2>1. n \in 1..Len(StagesOf(k))
    BY <1>2, <1>4, <1>k
  <2>2. \/ \E f \in StageFaults(k, StagesOf(k)[n]) : reply' = Refused(f)
        \/ /\ StageFaults(k, StagesOf(k)[n]) = {} /\ reply' = reply
           /\ walk' = [nth |-> n, stage |-> StagesOf(k)[n], stack |-> <<>>, order |-> <<>>]
    BY <1>4, <1>k DEF GoesOn
  <2>3. CASE \E f \in StageFaults(k, StagesOf(k)[n]) : reply' = Refused(f)
    <3>1. PICK f \in StageFaults(k, StagesOf(k)[n]) : reply' = Refused(f)
      BY <2>3
    <3>2. UpRefuses(k) /\ (k.by = "stop" /\ k.named = {} => UnknownDep(k.project, Unnamed(k)))
      BY <1>1, <1>k, <2>1, FaultIsCause, Zenon
    <3>3. /\ UpRefusedForCauseOf(k, Refused(f)) /\ UpStartsInOrderOf(k, Refused(f))
          /\ OrderHoldsOf(k, Refused(f)) /\ OthersFollowUpOf(k, Refused(f))
      BY <1>1, <1>k, <3>2, RefusalIsFair, Zenon
    <3>4. reply' # NoReply
      BY <3>1, RepliesDiffer
    <3>5. WalksAreInOrder'
      BY <1>1, <1>k, <3>1, <3>3 DEF WalksAreInOrder
    <3> QED BY <1>1, <3>4, <3>5 DEF OrderInv
  <2>4. CASE /\ StageFaults(k, StagesOf(k)[n]) = {} /\ reply' = reply
             /\ walk' = [nth |-> n, stage |-> StagesOf(k)[n], stack |-> <<>>, order |-> <<>>]
    <3>w. PICK w : w = walk'
      OBVIOUS
    <3>1. w = [nth |-> n, stage |-> StagesOf(k)[n], stack |-> <<>>, order |-> <<>>]
      BY <2>4, <3>w
    <3>2. w \in [nth : Nat, stage : Stages, stack : Seq(ToSet(Alphabet)), order : Seq(ToSet(Alphabet))]
      <4>1. n \in Nat /\ StagesOf(k)[n] \in Stages
        <5>1. StagesOf(k)[n] \in {"loads", "named", "reads", "places", "tolerates"}
          BY <1>2, <2>1, Zenon
        <5>3. n \in Nat
          BY <1>2, <2>1
        <5> QED BY <5>1, <5>3 DEF Stages
      <4>2. <<>> \in Seq(ToSet(Alphabet))
        OBVIOUS
      <4> QED BY <3>1, <4>1, <4>2
    <3>3. w.nth = n /\ w.stage = StagesOf(k)[n] /\ w.stack = <<>> /\ w.order = <<>>
      BY <3>1
    <3>4. WalkOf(ProjectRead(k), ReadIn(k, w.stage), ~Places(w.stage), w.stack, w.order)
      <4>1. <<>> \in Seq(ReadIn(k, w.stage)) /\ DOMAIN <<>> = {}
        OBVIOUS
      <4> QED BY <3>3, <4>1 DEF WalkOf, IsInjective, ToSet
    <3>5. \A m \in 1..n : StageFaults(k, StagesOf(k)[m]) = {}
      <4>1. ASSUME n > 1 PROVE \A m \in 1..(n - 1) : StageFaults(k, StagesOf(k)[m]) = {}
        BY <1>k, <4>1 DEF Walking
      <4>2. \A m \in 1..n : m = n \/ (n > 1 /\ m \in 1..(n - 1))
        BY <2>1
      <4> QED BY <2>4, <4>1, <4>2
    <3>6. \A m \in 1..(n - 1) : ~HasCycle(ProjectRead(k), ReadIn(k, StagesOf(k)[m]))
      <4> SUFFICES ASSUME NEW m \in 1..(n - 1) PROVE ~HasCycle(ProjectRead(k), ReadIn(k, StagesOf(k)[m]))
        OBVIOUS
      <4>0. n > 1 /\ m \in Nat /\ (m = n - 1 \/ m \in 1..(n - 2))
        BY <2>1
      <4>v. PICK v : v = walk
        OBVIOUS
      <4>1. v.nth = n - 1 /\ Walking(k, v) /\ v.stack = <<>> /\ AheadIn(k, v) = {}
        BY <4>0, <4>v, <1>k
      <4>2. CASE m \in 1..(n - 2)
        <5>1. (n - 1) - 1 = n - 2
          BY <2>1
        <5> QED BY <4>1, <4>2, <5>1 DEF Walking
      <4>3. CASE m = n - 1
        <5>1. v.stage = StagesOf(k)[m] /\ WalkOf(ProjectRead(k), ReadIn(k, v.stage), ~Places(v.stage), v.stack, v.order)
          BY <4>1, <4>3 DEF Walking
        <5>2. ~Places(v.stage)
          BY <1>2, <2>1, <4>3, <5>1
        <5>3. AheadOf(ProjectRead(k), ReadIn(k, v.stage), ~Places(v.stage), v.stack, v.order) = {}
          BY <4>1, AheadIsAhead, Zenon
        <5>4. (~Places(v.stage)) \in BOOLEAN
          BY DEF Places
        <5> QED BY <4>1, <5>1, <5>2, <5>3, <5>4, WalkEnds, Zenon
      <4> QED BY <4>0, <4>2, <4>3
    <3>7. Walking(k, w)
      BY <2>1, <3>2, <3>3, <3>4, <3>5, <3>6 DEF Walking
    <3>8. reply' = NoReply
      BY <2>4
    <3>9. WalksAreInOrder'
      BY <3>8 DEF WalksAreInOrder
    <3> QED BY <1>1, <1>k, <3>w, <3>7, <3>9 DEF OrderInv
  <2> QED BY <2>2, <2>3, <2>4
<1> QED BY <1>3, <1>4

\* On a walk, a step of it leaves it a walk.
LEMMA StepsAlong ==
  ASSUME OrderInv, reply = NoReply, reply' = reply, reading' = reading, Walking(reading, walk),
         NEW stack, NEW order, walk' = [walk EXCEPT !.stack = stack, !.order = order],
         WalkOf(ProjectRead(reading), ReadIn(reading, walk.stage), ~Places(walk.stage), stack, order)
  PROVE  OrderInv'
<1>k. PICK k, w, u : k = reading /\ w = walk /\ u = walk'
  OBVIOUS
<1>1. k \in OrderQuestions /\ w.nth \in 1..Len(StagesOf(k)) /\ w.stage = StagesOf(k)[w.nth]
  BY <1>k DEF OrderInv, Walking
<1>2. w \in [nth : Nat, stage : Stages, stack : Seq(ToSet(Alphabet)), order : Seq(ToSet(Alphabet))]
  BY <1>k DEF Walking
<1>3. ReadIn(k, w.stage) \subseteq ToSet(Alphabet)
  <2>1. w.stage \in {"loads", "named", "reads", "places", "tolerates"}
    BY <1>1, StagesAre, Zenon
  <2>2. k \in OrderQuestions
    BY <1>1
  <2> QED BY ONLY <2>1, <2>2, ReadInIsDefined, Zenon
<1>4. stack \in Seq(ToSet(Alphabet)) /\ order \in Seq(ToSet(Alphabet))
  <2>1. stack \in Seq(ReadIn(k, w.stage)) /\ order \in Seq(ReadIn(k, w.stage))
    BY <1>k, Zenon DEF WalkOf
  <2> QED BY <1>3, <2>1
<1>5. u = [w EXCEPT !.stack = stack, !.order = order]
  BY <1>k
<1>6. u \in [nth : Nat, stage : Stages, stack : Seq(ToSet(Alphabet)), order : Seq(ToSet(Alphabet))]
  BY <1>2, <1>4, <1>5
<1>7. u.nth = w.nth /\ u.stage = w.stage /\ u.stack = stack /\ u.order = order
  BY <1>2, <1>5
<1>8. Walking(k, u)
  <2>1. Walking(k, w)
    BY <1>k
  <2>2. WalkOf(ProjectRead(k), ReadIn(k, u.stage), ~Places(u.stage), u.stack, u.order)
    BY <1>k, <1>7
  <2> QED BY <1>6, <1>7, <2>1, <2>2 DEF Walking
<1>9. WalksAreInOrder'
  BY DEF WalksAreInOrder
<1> QED BY <1>1, <1>k, <1>8, <1>9 DEF OrderInv

\* Every step of a command keeps the invariant.
LEMMA OrderStep ==
  ASSUME OrderInv, [OrderNext]_orderVars
  PROVE  OrderInv'
<1>0. reading \in OrderQuestions /\ Len(StagesOf(reading)) \in 1..3
  BY StagesAre, Zenon DEF OrderInv
<1>n. NoWalk.nth = 0
  BY DEF NoWalk
<1>1. CASE BeginsToRead
  <2>1. reply = NoReply /\ GoesOn(1)
    BY <1>1, Zenon DEF BeginsToRead
  <2>2. 1 \in 1..(Len(StagesOf(reading)) + 1)
    BY <1>0
  <2> QED BY <2>1, <2>2, GoesOnWell
<1>w. ASSUME walk.nth > 0, reply = NoReply
      PROVE  /\ Walking(reading, walk) /\ walk.nth \in 1..Len(StagesOf(reading)) /\ (~Places(walk.stage)) \in BOOLEAN
             /\ WalkOf(ProjectRead(reading), ReadIn(reading, walk.stage), ~Places(walk.stage), walk.stack, walk.order)
             /\ AheadIn(reading, walk) = AheadOf(ProjectRead(reading), ReadIn(reading, walk.stage), ~Places(walk.stage), walk.stack, walk.order)
             /\ walk = [walk EXCEPT !.stack = walk.stack, !.order = walk.order]
             /\ walk.stage = StagesOf(reading)[walk.nth]
             /\ walk \in [nth : Nat, stage : Stages, stack : Seq(ToSet(Alphabet)), order : Seq(ToSet(Alphabet))]
  <2>1. Walking(reading, walk)
    BY <1>n, <1>w DEF OrderInv
  <2>2. walk \in [nth : Nat, stage : Stages, stack : Seq(ToSet(Alphabet)), order : Seq(ToSet(Alphabet))]
    BY <2>1 DEF Walking
  <2>3. walk = [walk EXCEPT !.stack = walk.stack, !.order = walk.order]
    BY <2>2
  <2>4. (~Places(walk.stage)) \in BOOLEAN
    BY DEF Places
  <2> QED BY <2>1, <2>2, <2>3, <2>4, AheadIsAhead, Zenon DEF Walking
<1>2. CASE Visits
  <2>0. reply = NoReply /\ walk.nth > 0 /\ AheadIn(reading, walk) # {} /\ reading' = reading
    BY <1>2 DEF Visits
  <2>n. PICK n : n = FirstNamed(AheadIn(reading, walk))
    OBVIOUS
  <2>1. IF n \in ToSet(walk.stack) THEN reply' = Refused("cycle") /\ walk' = walk
        ELSE walk' = [walk EXCEPT !.stack = Append(walk.stack, n)] /\ reply' = reply
    BY <1>2, <2>n DEF Visits
  <2>2. n \in AheadIn(reading, walk)
    <3>1. AheadIn(reading, walk) \subseteq ReadIn(reading, walk.stage)
      BY DEF AheadIn
    <3>2. ReadIn(reading, walk.stage) \subseteq ToSet(Alphabet)
      <4>1. StagesOf(reading)[walk.nth] \in {"loads", "named", "reads", "places", "tolerates"}
        BY <1>0, <1>w, <2>0, StagesAre, Zenon
      <4>2. walk.stage \in {"loads", "named", "reads", "places", "tolerates"}
        BY <1>w, <2>0, <4>1
      <4> QED BY <1>0, <4>2, ReadInIsDefined, Zenon
    <3> QED BY <2>0, <2>n, <3>1, <3>2, FirstIsOneOfThem
  <2>3. CASE n \in ToSet(walk.stack)
    <3>1. ~Places(walk.stage) /\ HasCycle(ProjectRead(reading), ReadIn(reading, walk.stage))
      BY <1>w, <2>0, <2>2, <2>3, WalkFindsCycle, ZenonT(60)
    <3>2. UpRefuses(reading) /\ ~(reading.by = "stop" /\ reading.named = {})
      BY <1>0, <1>w, <2>0, <3>1, CycleInWalkIsCause, Zenon
    <3>f. PICK f : f = "cycle"
      OBVIOUS
    <3>3. /\ UpRefusedForCauseOf(reading, Refused(f)) /\ UpStartsInOrderOf(reading, Refused(f))
          /\ OrderHoldsOf(reading, Refused(f)) /\ OthersFollowUpOf(reading, Refused(f))
      BY <1>0, <3>2, RefusalIsFair, Zenon
    <3>4. reply' = Refused(f) /\ reply' # NoReply
      BY <2>1, <2>3, <3>f, RepliesDiffer
    <3>5. WalksAreInOrder'
      BY <2>0, <3>3, <3>4 DEF WalksAreInOrder
    <3> QED BY <1>0, <2>0, <3>4, <3>5 DEF OrderInv
  <2>4. CASE n \notin ToSet(walk.stack)
    <3>1. WalkOf(ProjectRead(reading), ReadIn(reading, walk.stage), ~Places(walk.stage), Append(walk.stack, n), walk.order)
      BY <1>w, <2>0, <2>2, <2>4, WalkVisits, Zenon
    <3>2. walk' = [walk EXCEPT !.stack = Append(walk.stack, n), !.order = walk.order] /\ reply' = reply
      BY <1>w, <2>0, <2>1, <2>4
    <3> QED BY <1>w, <2>0, <3>1, <3>2, StepsAlong
  <2> QED BY <2>3, <2>4
<1>3. CASE PlacesOne
  <2>0. /\ reply = NoReply /\ walk.nth > 0 /\ AheadIn(reading, walk) = {} /\ walk.stack # <<>>
        /\ reading' = reading /\ reply' = reply
        /\ walk' = [walk EXCEPT !.stack = Front(walk.stack), !.order = Append(walk.order, Last(walk.stack))]
    BY <1>3 DEF PlacesOne
  <2>1. WalkOf(ProjectRead(reading), ReadIn(reading, walk.stage), ~Places(walk.stage),
               Front(walk.stack), Append(walk.order, Last(walk.stack)))
    BY <1>w, <2>0, WalkPlaces, Zenon
  <2> QED BY <1>w, <2>0, <2>1, StepsAlong
<1>4. CASE EndsWalk
  <2>0. reply = NoReply /\ walk.nth > 0 /\ AheadIn(reading, walk) = {} /\ walk.stack = <<>> /\ GoesOn(walk.nth + 1)
    BY <1>4 DEF EndsWalk
  <2>1. walk.nth + 1 \in 1..(Len(StagesOf(reading)) + 1) /\ walk.nth = (walk.nth + 1) - 1
    BY <1>0, <1>w, <2>0
  <2> QED BY <1>w, <2>0, <2>1, GoesOnWell
<1>5. CASE UNCHANGED orderVars
  BY <1>5 DEF orderVars, OrderInv, WalksAreInOrder
<1> QED BY <1>1, <1>2, <1>3, <1>4, <1>5 DEF OrderNext

\* The order of every command is one it can act in, and it is refused for a cause: the invariant holds of
\* every project, whatever its dependencies, its profiles and the services that are named.
THEOREM WalksAlwaysInOrder == OrderSpec => []WalksAreInOrder
<1>1. OrderInit => OrderInv
  BY DEF OrderInit, OrderInv, WalksAreInOrder
<1>2. OrderInv /\ [OrderNext]_orderVars => OrderInv'
  BY OrderStep
<1>3. OrderInv => WalksAreInOrder
  BY DEF OrderInv
<1> QED BY <1>1, <1>2, <1>3, PTL DEF OrderSpec

-----------------------------------------------------------------------------
(* The project a command acts on.                                          *)

\* Of positions in a list some one is the latest.
LEMMA LatestIsLast ==
  ASSUME NEW n \in Nat, NEW S \in SUBSET (1..n), S # {}
  PROVE  Latest(S) \in S /\ \A j \in S : j <= Latest(S)
<1> DEFINE T == {n - i : i \in S}
<1>1. \A i \in S : i \in Nat /\ i <= n
  OBVIOUS
<1>2. \A i \in S : n - i \in Nat
  BY <1>1
<1>3. T \in SUBSET Nat /\ T # {}
  BY <1>2, Zenon
<1>4. PICK x \in T : \A y \in T : x <= y
  BY <1>3, LeastOf
<1>5. PICK i \in S : x = n - i
  OBVIOUS
<1>6. \A j \in S : j <= i
  <2> SUFFICES ASSUME NEW j \in S PROVE j <= i
    OBVIOUS
  <2>1. n - j \in T
    OBVIOUS
  <2>2. n - i <= n - j
    BY <1>4, <1>5, <2>1
  <2> QED BY <1>1, <2>2
<1> QED BY <1>6 DEF Latest

\* What stands for no name is told from what is one.
LEMMA NamesToldApart == NotSet # NoProject /\ NotSet # Broken /\ NoProject # Broken
  BY DEF NotSet, NoProject, Broken

\* The guess without the files reads what the load reads, unless what sets the name to nothing
\* hides the file's own place from the load.
LEMMA GuessReadsAsTheLoad ==
  ASSUME NEW run, ~HiddenByNothing(run), EnvProjectName(run, EnvPlaces(run)) # Broken
  PROVE  EnvGuess(run) = EnvProjectName(run, EnvPlaces(run))
<1> DEFINE One(v) == IF v = Broken THEN Broken ELSE IF run.shell # NotSet THEN run.shell
                     ELSE IF v = NotSet THEN NoProject ELSE v
<1>1. ASSUME NEW a PROVE EnvProjectName(run, <<a>>) = One(IF run.envFile # NotSet THEN run.envFile ELSE run.dotenv[a])
  <2> DEFINE v == IF run.envFile # NotSet THEN run.envFile ELSE run.dotenv[a]
             files == IF run.envFile # NotSet THEN <<run.envFile>> ELSE [i \in DOMAIN <<a>> |-> run.dotenv[<<a>>[i]]]
             given == {i \in DOMAIN files : files[i] # NotSet}
  <2>1. DOMAIN files = {1} /\ files[1] = v
    OBVIOUS
  <2>2. v = NotSet => given = {}
    BY <2>1
  <2>3. v # NotSet => given = {1} /\ (CHOOSE i \in given : \A j \in given : i <= j) = 1
    BY <2>1
  <2>4. EnvProjectName(run, <<a>>) =
          IF \E i \in DOMAIN files : files[i] = Broken THEN Broken
          ELSE IF run.shell # NotSet THEN run.shell
          ELSE IF given = {} THEN NoProject ELSE files[CHOOSE i \in given : \A j \in given : i <= j]
    BY Zenon DEF EnvProjectName
  <2> HIDE DEF v, files, given
  <2>5. (\E i \in DOMAIN files : files[i] = Broken) <=> v = Broken
    BY <2>1
  <2> QED BY <2>1, <2>2, <2>3, <2>4, <2>5 DEF v
<1>2. ASSUME NEW a, NEW b, run.envFile = NotSet
      PROVE  EnvProjectName(run, <<a, b>>) =
               IF run.dotenv[a] = Broken \/ run.dotenv[b] = Broken THEN Broken
               ELSE IF run.shell # NotSet THEN run.shell
               ELSE IF run.dotenv[a] # NotSet THEN run.dotenv[a]
               ELSE IF run.dotenv[b] = NotSet THEN NoProject ELSE run.dotenv[b]
  <2> DEFINE files == [i \in DOMAIN <<a, b>> |-> run.dotenv[<<a, b>>[i]]]
             given == {i \in DOMAIN files : files[i] # NotSet}
  <2>1. DOMAIN files = {1, 2} /\ files[1] = run.dotenv[a] /\ files[2] = run.dotenv[b]
    OBVIOUS
  <2>2. run.dotenv[a] = NotSet /\ run.dotenv[b] = NotSet => given = {}
    BY <2>1
  <2>3. run.dotenv[a] = NotSet /\ run.dotenv[b] # NotSet
          => given = {2} /\ (CHOOSE i \in given : \A j \in given : i <= j) = 2
    BY <2>1
  <2>4. run.dotenv[a] # NotSet => given # {} /\ (CHOOSE i \in given : \A j \in given : i <= j) = 1
    <3> SUFFICES ASSUME run.dotenv[a] # NotSet
                 PROVE  given # {} /\ (CHOOSE i \in given : \A j \in given : i <= j) = 1
      OBVIOUS
    <3>1. 1 \in given /\ \A j \in given : 1 <= j
      BY <2>1
    <3>2. \A i \in given : i = 1 \/ (i = 2 /\ ~(i <= 1))
      BY <2>1
    <3> QED BY <3>1, <3>2, Zenon
  <2>5. EnvProjectName(run, <<a, b>>) =
          IF \E i \in DOMAIN files : files[i] = Broken THEN Broken
          ELSE IF run.shell # NotSet THEN run.shell
          ELSE IF given = {} THEN NoProject ELSE files[CHOOSE i \in given : \A j \in given : i <= j]
    <3> DEFINE ReadFrom(read) ==
                 IF \E i \in DOMAIN read : read[i] = Broken THEN Broken
                 ELSE IF run.shell # NotSet THEN run.shell
                 ELSE IF {i \in DOMAIN read : read[i] # NotSet} = {} THEN NoProject
                 ELSE read[CHOOSE i \in {j \in DOMAIN read : read[j] # NotSet} :
                             \A j \in {l \in DOMAIN read : read[l] # NotSet} : i <= j]
    <3>1. (IF run.envFile # NotSet THEN <<run.envFile>> ELSE files) = files
      BY <1>2, Zenon
    <3>2. EnvProjectName(run, <<a, b>>) = ReadFrom(IF run.envFile # NotSet THEN <<run.envFile>> ELSE files)
      BY Zenon DEF EnvProjectName
    <3>3. EnvProjectName(run, <<a, b>>) = ReadFrom(files)
      <4> HIDE DEF ReadFrom
      <4> QED BY <3>1, <3>2, Zenon
    <3> QED BY <3>3, Zenon
  <2> HIDE DEF files, given
  <2>6. (\E i \in DOMAIN files : files[i] = Broken) <=> run.dotenv[a] = Broken \/ run.dotenv[b] = Broken
    BY <2>1
  <2> QED BY <2>1, <2>2, <2>3, <2>4, <2>5, <2>6
<1>3. ASSUME NEW a, NEW b, run.envFile # NotSet
      PROVE  EnvProjectName(run, <<a, b>>) = One(run.envFile)
  <2> DEFINE files == <<run.envFile>>
             given == {i \in DOMAIN files : files[i] # NotSet}
  <2>1. DOMAIN files = {1} /\ files[1] = run.envFile /\ given = {1}
    BY <1>3
  <2>2. (CHOOSE i \in given : \A j \in given : i <= j) = 1
    BY <2>1
  <2>3. EnvProjectName(run, <<a, b>>) =
          IF \E i \in DOMAIN files : files[i] = Broken THEN Broken
          ELSE IF run.shell # NotSet THEN run.shell
          ELSE IF given = {} THEN NoProject ELSE files[CHOOSE i \in given : \A j \in given : i <= j]
    BY <1>3 DEF EnvProjectName
  <2> HIDE DEF files, given
  <2> QED BY <2>1, <2>2, <2>3, <1>3
<1> HIDE DEF One
<1>4. ASSUME NEW a PROVE GivenBy(run, a) =
        IF EnvProjectName(run, <<a>>) = Broken THEN NoProject ELSE EnvProjectName(run, <<a>>)
  BY DEF GivenBy
<1> DEFINE env == EnvProjectName(run, EnvPlaces(run))
<1> SUFFICES EnvGuess(run) = env
  OBVIOUS
<1>5. CASE run.chosen # "env" \/ run.place = Cwd
  <2>1. EnvPlaces(run) = <<run.place>>
    BY <1>5 DEF EnvPlaces
  <2>2. GivenBy(run, run.place) = env
    BY <1>4, <2>1
  <2> HIDE DEF env
  <2> QED BY <1>5, <2>2 DEF EnvGuess
<1>6. CASE run.chosen = "env" /\ run.place # Cwd /\ run.envFile # NotSet
  <2>1. env = One(run.envFile)
    BY <1>3, <1>6 DEF EnvPlaces
  <2>2. GivenBy(run, run.place) = env /\ GivenBy(run, Cwd) = env
    BY <1>1, <1>4, <1>6, <2>1
  <2> HIDE DEF env
  <2> QED BY <2>2 DEF EnvGuess
<1>7. CASE run.chosen = "env" /\ run.place # Cwd /\ run.envFile = NotSet
  <2> DEFINE here == run.dotenv[Cwd]
             there == run.dotenv[run.place]
  <2>1. env = IF here = Broken \/ there = Broken THEN Broken
              ELSE IF run.shell # NotSet THEN run.shell
              ELSE IF here # NotSet THEN here
              ELSE IF there = NotSet THEN NoProject ELSE there
    BY <1>2, <1>7 DEF EnvPlaces
  <2>2. EnvProjectName(run, <<Cwd>>) = One(here) /\ EnvProjectName(run, <<run.place>>) = One(there)
    BY <1>1, <1>7
  <2>3. run.shell # NotSet \/ here # NoProject
    BY <1>7 DEF HiddenByNothing
  <2>4. env # Broken
    OBVIOUS
  <2>5. GivenBy(run, Cwd) = (IF One(here) = Broken THEN NoProject ELSE One(here))
        /\ GivenBy(run, run.place) = (IF One(there) = Broken THEN NoProject ELSE One(there))
    BY <1>4, <2>2
  <2>6. EnvGuess(run) = IF GivenBy(run, Cwd) # NoProject THEN GivenBy(run, Cwd) ELSE GivenBy(run, run.place)
    BY <1>7 DEF EnvGuess
  <2> HIDE DEF env, here, there
  <2> QED BY <2>1, <2>3, <2>4, <2>5, <2>6, NamesToldApart DEF One
<1> QED BY <1>5, <1>6, <1>7

\* An answer that refuses nothing is no refusal.
LEMMA RefusedIsRefused == \A why : IsRefused(Refused(why))
  BY DEF IsRefused, Refused

\* What a load that is not refused comes to.
LEMMA LoadIs ==
  ASSUME NEW run, ~IsRefused(LoadProject(run))
  PROVE  LET p == LoadProject(run) IN
         /\ p.env = EnvProjectName(run, EnvPlaces(run)) /\ p.env # Broken
         /\ p.own = OrDirectory(NameOver(run), run)
         /\ p.differ # {} => p.own \in p.differ
<1> DEFINE env == EnvProjectName(run, EnvPlaces(run))
           first == OrDirectory(NameOf(FirstDocuments(run)), run)
           all == OrDirectory(NameOver(run), run)
           differ == IF first # all THEN {first, all} ELSE {}
           emptied == NameOver(run) = NoProject /\ NameEmptiedIn(run) /\ env = NoProject
<1>1. LoadProject(run) = ReadProject(run, env, NameOver(run), first, all)
  BY DEF LoadProject
<1> HIDE DEF env, first, all
<1>2. env # Broken /\ LoadProject(run) = [env |-> env, own |-> all, differ |-> differ, emptied |-> emptied]
  BY <1>1, RefusedIsRefused DEF ReadProject
<1>3. differ # {} => all \in differ
  OBVIOUS
<1> HIDE DEF differ, emptied
<1> QED BY <1>2, <1>3 DEF env, all

\* What an `up` that is not refused starts.
LEMMA UpIs ==
  ASSUME NEW p, NEW run, ~IsRefused(UpFrom(p, run))
  PROVE  ~IsRefused(p) /\ UpFrom(p, run) = [name |-> ProjectOf(p, run)]
BY RefusedIsRefused DEF UpFrom

\* What a file names the project, one of its documents writes.
LEMMA FileNameIsWritten ==
  ASSUME NEW docs, docs \in Seq(ToSet(docs))
  PROVE  \/ NameOf(docs) \in {NotSet, NoProject}
         \/ \E w \in ToSet(docs) : WritesAName(w) /\ w.name = NameOf(docs)
<1> DEFINE said == {i \in DOMAIN docs : Speaks(docs[i])}
<1>1. CASE said = {}
  BY <1>1 DEF NameOf
<1>2. CASE said # {}
  <2>1. DOMAIN docs = 1..Len(docs) /\ Len(docs) \in Nat
    OBVIOUS
  <2>2. Latest(said) \in said
    BY <1>2, <2>1, LatestIsLast
  <2>3. docs[Latest(said)] \in ToSet(docs)
    BY <2>2 DEF ToSet
  <2>4. NameOf(docs) = IF WritesAName(docs[Latest(said)]) THEN docs[Latest(said)].name ELSE NoProject
    BY <1>2 DEF NameOf
  <2> HIDE DEF said
  <2> QED BY <2>3, <2>4
<1> QED BY <1>1, <1>2

\* What the files name the project, one of their documents writes.
LEMMA NameIsWritten ==
  ASSUME NEW run, IsRun(run)
  PROVE  \/ NameOver(run) \in {NotSet, NoProject}
         \/ \E w \in AllDocuments(run) : WritesAName(w) /\ w.name = NameOver(run)
<1> DEFINE said == {i \in DOMAIN run.files : NameOf(run.files[i].docs) # NotSet}
<1>1. CASE said = {}
  BY <1>1 DEF NameOver
<1>2. CASE said # {}
  <2>1. DOMAIN run.files = 1..Len(run.files) /\ Len(run.files) \in Nat
    <3>1. run.files \in Seq(ToSet(run.files))
      BY DEF IsRun
    <3> QED BY <3>1
  <2>2. Latest(said) \in DOMAIN run.files
    BY <1>2, <2>1, LatestIsLast
  <2> DEFINE docs == run.files[Latest(said)].docs
  <2>3. NameOver(run) = NameOf(docs)
    BY <1>2 DEF NameOver
  <2>4. docs \in Seq(ToSet(docs))
    BY <2>2 DEF IsRun
  <2>5. \A w \in ToSet(docs) : w \in AllDocuments(run)
    BY <2>2 DEF AllDocuments
  <2> HIDE DEF docs, said
  <2> QED BY <2>3, <2>4, <2>5, FileNameIsWritten
<1> QED BY <1>1, <1>2

\* Of a file whose documents name it plainly or not, its name is known without the load.
LEMMA PlainNameIsKnown ==
  ASSUME NEW docs, docs \in Seq(ToSet(docs)),
         \A j \in DOMAIN docs : docs[j].is = "plain" => docs[j].name \notin {NotSet, NoProject},
         \A w \in ToSet(docs) : w.is \in {"none", "plain"},
         \A w, v \in ToSet(docs) : w.is = "plain" /\ v.is = "plain" => w.name = v.name
  PROVE  /\ KnownName(docs) # NotSet /\ NameOf(docs) # NoProject
         /\ KnownName(docs) = NoProject <=> NameOf(docs) = NotSet
         /\ KnownName(docs) # NoProject => KnownName(docs) = NameOf(docs)
<1> DEFINE said == {i \in DOMAIN docs : Speaks(docs[i])}
           plain == {i \in DOMAIN docs : docs[i].is = "plain"}
<1>1. \A i \in DOMAIN docs : docs[i].is \in {"none", "plain"}
  BY DEF ToSet
<1>2. said = plain
  BY <1>1 DEF Speaks
<1>3. \A i, j \in plain : docs[i].name = docs[j].name
  BY DEF ToSet
<1>4. KnownName(docs) = IF plain = {} THEN NoProject ELSE docs[Latest(plain)].name
  BY <1>1, <1>3 DEF KnownName
<1>5. CASE plain = {}
  BY <1>2, <1>4, <1>5, NamesToldApart DEF NameOf
<1>6. CASE plain # {}
  <2>1. DOMAIN docs = 1..Len(docs) /\ Len(docs) \in Nat
    OBVIOUS
  <2>2. Latest(plain) \in plain
    BY <1>6, <2>1, LatestIsLast
  <2>3. NameOf(docs) = docs[Latest(plain)].name
    BY <1>2, <1>6, <2>2 DEF NameOf, WritesAName
  <2>4. docs[Latest(plain)].name \notin {NotSet, NoProject}
    BY <2>2
  <2> HIDE DEF plain
  <2> QED BY <1>4, <1>6, <2>3, <2>4
<1> QED BY <1>5, <1>6

\* Where the names are plain, what is worked out without the load is what the load reads.
LEMMA PlainNamesAreKnown ==
  ASSUME NEW run, IsRun(run), NamesArePlain(run)
  PROVE  \/ WrittenProjectName(run) = NameOver(run)
         \/ WrittenProjectName(run) = NoProject /\ NameOver(run) = NotSet
<1> DEFINE Docs(i) == run.files[i].docs
           said == {i \in DOMAIN run.files : NameOf(Docs(i)) # NotSet}
           there == {i \in DOMAIN run.files : run.files[i].is # "gone"}
           given == {i \in there : KnownName(Docs(i)) # NoProject}
<1>1. \A i \in DOMAIN run.files :
        /\ KnownName(Docs(i)) # NotSet /\ NameOf(Docs(i)) # NoProject
        /\ KnownName(Docs(i)) = NoProject <=> NameOf(Docs(i)) = NotSet
        /\ KnownName(Docs(i)) # NoProject => KnownName(Docs(i)) = NameOf(Docs(i))
  <2> SUFFICES ASSUME NEW i \in DOMAIN run.files
               PROVE  /\ KnownName(Docs(i)) # NotSet /\ NameOf(Docs(i)) # NoProject
                      /\ KnownName(Docs(i)) = NoProject <=> NameOf(Docs(i)) = NotSet
                      /\ KnownName(Docs(i)) # NoProject => KnownName(Docs(i)) = NameOf(Docs(i))
    OBVIOUS
  <2>1. Docs(i) \in Seq(ToSet(Docs(i)))
        /\ \A j \in DOMAIN Docs(i) : Docs(i)[j].is = "plain" => Docs(i)[j].name \notin {NotSet, NoProject}
    BY DEF IsRun
  <2>2. /\ \A w \in ToSet(Docs(i)) : w.is \in {"none", "plain"}
        /\ \A w, v \in ToSet(Docs(i)) : w.is = "plain" /\ v.is = "plain" => w.name = v.name
    BY DEF NamesArePlain
  <2> HIDE DEF Docs
  <2> QED BY <2>1, <2>2, PlainNameIsKnown
<1>2. there = DOMAIN run.files
  BY DEF NamesArePlain
<1>3. said = given
  BY <1>1, <1>2
<1>4. WrittenProjectName(run) = IF given = {} \/ (\E i \in there : KnownName(Docs(i)) = NotSet) THEN NoProject
                                ELSE KnownName(Docs(Latest(given)))
  BY DEF WrittenProjectName
<1>5. NameOver(run) = IF said = {} THEN NotSet ELSE NameOf(Docs(Latest(said)))
  BY DEF NameOver
<1>6. CASE given = {}
  BY <1>3, <1>4, <1>5, <1>6
<1>7. CASE given # {}
  <2>1. DOMAIN run.files = 1..Len(run.files) /\ Len(run.files) \in Nat
    <3>1. run.files \in Seq(ToSet(run.files))
      BY DEF IsRun
    <3> QED BY <3>1
  <2>2. Latest(given) \in given /\ given \subseteq DOMAIN run.files
    BY <1>2, <1>7, <2>1, LatestIsLast
  <2>3. KnownName(Docs(Latest(given))) = NameOf(Docs(Latest(given)))
    BY <1>1, <2>2, Zenon
  <2>4. ~\E i \in there : KnownName(Docs(i)) = NotSet
    BY <1>1, <1>2
  <2> HIDE DEF given, said, there, Docs
  <2> QED BY <1>3, <1>4, <1>5, <1>7, <2>3, <2>4
<1> QED BY <1>6, <1>7

\* The guess before the files are read is right unless only they name the project.
LEMMA GuessIsRight ==
  ASSUME NEW run, IsRun(run), ~IsRefused(UpProject(run)), ~HiddenByNothing(run)
  PROVE  \/ ProjectNameFor(run, FALSE) = UpProject(run).name
         \/ /\ ProjectNameFor(run, FALSE) = SanitizeName[run.place]
            /\ \E w \in AllDocuments(run) : WritesAName(w) /\ SanitizeName[w.name] = UpProject(run).name
<1> DEFINE p == LoadProject(run)
<1>1. ~IsRefused(p) /\ UpProject(run).name = ProjectOf(p, run)
  BY UpIs DEF UpProject
<1>2. p.env = EnvGuess(run) /\ p.own = OrDirectory(NameOver(run), run)
  BY <1>1, LoadIs, GuessReadsAsTheLoad
<1> HIDE DEF p
<1>3. CASE run.flag # NoProject
  BY <1>1, <1>3 DEF ProjectOf, ProjectNameFor
<1>4. CASE run.flag = NoProject /\ EnvGuess(run) # NoProject
  BY <1>1, <1>2, <1>4 DEF ProjectOf, NameWithoutFlag, ProjectNameFor
<1>5. CASE run.flag = NoProject /\ EnvGuess(run) = NoProject
  <2>1. UpProject(run).name = OrDirectory(NameOver(run), run)
    BY <1>1, <1>2, <1>5 DEF ProjectOf, NameWithoutFlag
  <2>2. ProjectNameFor(run, FALSE) = SanitizeName[run.place]
    BY <1>5 DEF ProjectNameFor, OrDirectory
  <2>3. CASE NameOver(run) \in {NotSet, NoProject}
    BY <2>1, <2>2, <2>3 DEF OrDirectory
  <2>4. CASE NameOver(run) \notin {NotSet, NoProject}
    <3>1. UpProject(run).name = SanitizeName[NameOver(run)]
      BY <2>1, <2>4 DEF OrDirectory
    <3>2. PICK w \in AllDocuments(run) : WritesAName(w) /\ w.name = NameOver(run)
      BY <2>4, NameIsWritten, Zenon
    <3>3. SanitizeName[w.name] = UpProject(run).name
      BY <3>1, <3>2
    <3> QED BY <2>2, <3>2, <3>3
  <2> QED BY <2>3, <2>4
<1> QED BY <1>3, <1>4, <1>5

\* A run with another shell, and with other files.
LEMMA RunOtherwise ==
  ASSUME NEW run, IsRun(run), NEW v
  PROVE  /\ [run EXCEPT !.shell = v] =
              [flag |-> run.flag, chosen |-> run.chosen, place |-> run.place, shell |-> v,
               dotenv |-> run.dotenv, envFile |-> run.envFile, files |-> run.files]
         /\ [run EXCEPT !.files = v] =
              [flag |-> run.flag, chosen |-> run.chosen, place |-> run.place, shell |-> run.shell,
               dotenv |-> run.dotenv, envFile |-> run.envFile, files |-> v]
<1> DEFINE Of(a, b, c, d, e, f, g) ==
             [flag |-> a, chosen |-> b, place |-> c, shell |-> d, dotenv |-> e, envFile |-> f, files |-> g]
<1>1. PICK a, b, c, d, e, f, g : run = Of(a, b, c, d, e, f, g)
  <2>1. run = Of(run.flag, run.chosen, run.place, run.shell, run.dotenv, run.envFile, run.files)
    BY DEF IsRun
  <2> QED BY <2>1
<1>2. /\ run.flag = a /\ run.chosen = b /\ run.place = c /\ run.shell = d /\ run.dotenv = e
      /\ run.envFile = f /\ run.files = g
  BY <1>1
<1>3. [Of(a, b, c, d, e, f, g) EXCEPT !.shell = v] = Of(a, b, c, v, e, f, g)
      /\ [Of(a, b, c, d, e, f, g) EXCEPT !.files = v] = Of(a, b, c, d, e, f, v)
  OBVIOUS
<1>4. [run EXCEPT !.shell = v] = Of(a, b, c, v, e, f, g) /\ [run EXCEPT !.files = v] = Of(a, b, c, d, e, f, v)
  <2> HIDE DEF Of
  <2> QED BY <1>1, <1>3
<1> QED BY <1>2, <1>4

\* The name that is suggested for files that are refused is the one they come to, where it can
\* be known.
LEMMA SuggestedIsRight ==
  ASSUME NEW run, IsRun(run), ~IsRefused(UpProject(Readable(run))), ~HiddenByNothing(run), NamesArePlain(run)
  PROVE  ProjectNameFor(run, TRUE) = UpProject(Readable(run)).name
<1> DEFINE whole == Readable(run)
           p == LoadProject(whole)
<1>1. whole = [flag |-> run.flag, chosen |-> run.chosen, place |-> run.place, shell |-> run.shell,
               dotenv |-> run.dotenv, envFile |-> run.envFile,
               files |-> [i \in DOMAIN run.files |-> [is |-> "read", docs |-> run.files[i].docs]]]
  BY RunOtherwise DEF Readable
<1>2. /\ whole.flag = run.flag /\ whole.chosen = run.chosen /\ whole.place = run.place /\ whole.shell = run.shell
      /\ whole.dotenv = run.dotenv /\ whole.envFile = run.envFile
  BY <1>1
<1>3. DOMAIN whole.files = DOMAIN run.files /\ \A i \in DOMAIN run.files : whole.files[i].docs = run.files[i].docs
  BY <1>1
<1>4. ~IsRefused(p) /\ UpProject(whole).name = ProjectOf(p, whole)
  BY UpIs DEF UpProject
<1> HIDE DEF whole
<1>5. NameOver(whole) = NameOver(run)
  <2> DEFINE said == {i \in DOMAIN run.files : NameOf(run.files[i].docs) # NotSet}
  <2>1. said = {i \in DOMAIN whole.files : NameOf(whole.files[i].docs) # NotSet}
    BY <1>3
  <2>2. NameOver(run) = IF said = {} THEN NotSet ELSE NameOf(run.files[Latest(said)].docs)
    BY DEF NameOver
  <2>3. NameOver(whole) = IF said = {} THEN NotSet ELSE NameOf(whole.files[Latest(said)].docs)
    BY <2>1 DEF NameOver
  <2>4. said # {} => Latest(said) \in DOMAIN run.files
    <3>1. run.files \in Seq(ToSet(run.files))
      BY DEF IsRun
    <3>2. DOMAIN run.files = 1..Len(run.files) /\ Len(run.files) \in Nat
      BY <3>1
    <3> QED BY <3>2, LatestIsLast
  <2> HIDE DEF said
  <2> QED BY <1>3, <2>2, <2>3, <2>4
<1>6. EnvPlaces(whole) = EnvPlaces(run) /\ \A places : EnvProjectName(whole, places) = EnvProjectName(run, places)
  BY <1>2 DEF EnvPlaces, EnvProjectName
<1>7. p.env = EnvProjectName(run, EnvPlaces(run)) /\ p.env # Broken /\ p.own = OrDirectory(NameOver(run), run)
  BY <1>2, <1>4, <1>5, <1>6, LoadIs DEF OrDirectory
<1>8. p.env = EnvGuess(run)
  BY <1>7, GuessReadsAsTheLoad
<1> HIDE DEF p
<1>9. ProjectOf(p, whole) = ProjectOf(p, run)
  BY <1>2 DEF ProjectOf
<1>10. CASE run.flag # NoProject
  BY <1>4, <1>9, <1>10 DEF ProjectOf, ProjectNameFor, whole
<1>11. CASE run.flag = NoProject /\ EnvGuess(run) # NoProject
  BY <1>4, <1>8, <1>9, <1>11 DEF ProjectOf, NameWithoutFlag, ProjectNameFor, whole
<1>12. CASE run.flag = NoProject /\ EnvGuess(run) = NoProject
  <2>1. UpProject(whole).name = OrDirectory(NameOver(run), run)
    BY <1>4, <1>7, <1>8, <1>9, <1>12 DEF ProjectOf, NameWithoutFlag
  <2>2. ProjectNameFor(run, TRUE) = OrDirectory(WrittenProjectName(run), run)
    BY <1>12 DEF ProjectNameFor
  <2>3. OrDirectory(WrittenProjectName(run), run) = OrDirectory(NameOver(run), run)
    BY PlainNamesAreKnown DEF OrDirectory
  <2> QED BY <2>1, <2>2, <2>3 DEF whole
<1> QED BY <1>10, <1>11, <1>12

\* What the commands of a run come to, they agree on.
LEMMA CommandsOfARunAgree ==
  ASSUME NEW run, IsRun(run)
  PROVE  CommandsAgreeOf(run, CommandsOf(run))
<1> DEFINE p == LoadProject(run)
           up == UpFrom(p, run)
           down == TakeDownFrom(p, run)
           alone == UpFrom(p, [run EXCEPT !.flag = NoProject])
           silent == [run EXCEPT !.shell = NoProject]
           a == CommandsOf(run)
<1>1. /\ a.up = up /\ a.down = down /\ a.mistargeted = Mistargeted(p, run) /\ a.former = FormerName(p, run)
      /\ a.guess = ProjectNameFor(run, FALSE) /\ a.suggested = ProjectNameFor(run, TRUE)
      /\ a.whole = UpProject(Readable(run)) /\ a.alone = alone /\ a.unnamed = UpProject(silent)
  BY DEF CommandsOf, CommandsFrom
<1>2. up = UpProject(run)
  BY DEF UpProject
<1>3. ASSUME ~IsRefused(up)
      PROVE  /\ ~IsRefused(p) /\ up = [name |-> ProjectOf(p, run)] /\ p.env = EnvProjectName(run, EnvPlaces(run))
             /\ p.env # Broken /\ p.own = OrDirectory(NameOver(run), run) /\ (p.differ # {} => p.own \in p.differ)
  BY <1>3, UpIs, LoadIs
<1> HIDE DEF p
<1>4. ASSUME ~IsRefused(up)
      PROVE  down = up \/ (DOMAIN down = {"asks"} /\ up.name \in down.asks)
  <2>1. CASE p.differ # {} /\ run.flag = NoProject /\ p.env = NoProject
    <3>1. down = [asks |-> p.differ]
      BY <1>3, <1>4, <2>1 DEF TakeDownFrom
    <3>2. up.name = p.own
      BY <1>3, <1>4, <2>1 DEF ProjectOf, NameWithoutFlag
    <3> HIDE DEF up, down
    <3> QED BY <1>3, <1>4, <2>1, <3>1, <3>2
  <2>2. CASE ~(p.differ # {} /\ run.flag = NoProject /\ p.env = NoProject)
    BY <1>3, <1>4, <2>2 DEF TakeDownFrom
  <2> QED BY <2>1, <2>2
<1>5. ASSUME ~IsRefused(up), ~IsRefused(alone)
      PROVE  Mistargeted(p, run) = (alone # up)
  <2>1. [run EXCEPT !.flag = NoProject].flag = NoProject
    BY DEF IsRun
  <2>2. alone = [name |-> NameWithoutFlag(p)]
    BY <1>5, <2>1, UpIs DEF ProjectOf
  <2>3. up = [name |-> IF run.flag # NoProject THEN SanitizeName[run.flag] ELSE NameWithoutFlag(p)]
    BY <1>3, <1>5 DEF ProjectOf
  <2>4. alone # up <=> run.flag # NoProject /\ NameWithoutFlag(p) # SanitizeName[run.flag]
    <3> HIDE DEF alone, up
    <3>1. alone.name = NameWithoutFlag(p)
          /\ up.name = IF run.flag # NoProject THEN SanitizeName[run.flag] ELSE NameWithoutFlag(p)
      BY <2>2, <2>3
    <3> QED BY <2>2, <2>3, <3>1
  <2>5. ~IsRefused(p)
    BY <1>3, <1>5
  <2> HIDE DEF alone, up
  <2> QED BY <2>4, <2>5 DEF Mistargeted
<1>6. ASSUME ~IsRefused(up), ~IsRefused(UpProject(silent)), run.flag = NoProject
      PROVE  FormerName(p, run) = UpProject(silent).name
  <2>1. silent = [flag |-> run.flag, chosen |-> run.chosen, place |-> run.place, shell |-> NoProject,
                  dotenv |-> run.dotenv, envFile |-> run.envFile, files |-> run.files]
    BY RunOtherwise
  <2>2. /\ silent.flag = NoProject /\ silent.shell = NoProject /\ silent.place = run.place /\ silent.files = run.files
    BY <1>6, <2>1
  <2> HIDE DEF silent
  <2> DEFINE q == LoadProject(silent)
  <2>3. ~IsRefused(q) /\ UpProject(silent).name = ProjectOf(q, silent)
    BY <1>6, UpIs DEF UpProject
  <2>4. q.env = EnvProjectName(silent, EnvPlaces(silent)) /\ q.env # Broken
        /\ q.own = OrDirectory(NameOver(silent), silent)
    BY <2>3, LoadIs
  <2>5. NameOver(silent) = NameOver(run)
    BY <2>2 DEF NameOver
  <2>6. q.own = p.own
    BY <1>3, <1>6, <2>2, <2>4, <2>5 DEF OrDirectory
  <2>7. q.env = NoProject
    <3>1. \A places : EnvProjectName(silent, places) \in {Broken, NoProject}
      BY <2>2, NamesToldApart, Zenon DEF EnvProjectName
    <3> QED BY <2>4, <3>1
  <2>8. UpProject(silent).name = p.own
    BY <2>2, <2>3, <2>6, <2>7 DEF ProjectOf, NameWithoutFlag
  <2>9. FormerName(p, run) = p.own
    BY <1>3, <1>6 DEF FormerName
  <2> QED BY <2>8, <2>9
<1>7. ASSUME ~IsRefused(up)
      PROVE  \/ HiddenByNothing(run)
             \/ a.guess = up.name
             \/ /\ a.guess = SanitizeName[run.place]
                /\ \E w \in AllDocuments(run) : WritesAName(w) /\ SanitizeName[w.name] = up.name
  BY <1>1, <1>2, <1>7, GuessIsRight
<1>8. ASSUME ~IsRefused(a.whole), ~HiddenByNothing(run), NamesArePlain(run)
      PROVE  a.suggested = a.whole.name
  BY <1>1, <1>8, SuggestedIsRight
<1> HIDE DEF up, down, alone, silent, a
<1>9. CommandsAgreeOf(run, a)
  BY <1>1, <1>4, <1>5, <1>6, <1>7, <1>8 DEF CommandsAgreeOf
<1> QED BY <1>9 DEF a

\* The questions a state may be in, and their answers.
ProjectInv ==
  /\ asked = "networks" => question \in NetworkQuestions
  /\ asked = "project" => question \in ProjectQuestions /\ answer \in {NoAnswer, CommandsOf(question)}

\* No other question comes up, and each is answered by its algorithm.
LEMMA ProjectStep == ProjectSpec => []ProjectInv
<1>1. ProjectInit => ProjectInv
  BY DEF ProjectInit, ProjectInv
<1>2. ProjectInv /\ [ProjectNext]_composeVars => ProjectInv'
  BY DEF ProjectInv, ProjectNext, AnswersNetworks, AnswersProject, Answers, composeVars
<1> QED BY <1>1, <1>2, PTL DEF ProjectSpec

\* `up` is refused over the networks for cause only, and else every service is on the networks
\* its file declares and on no other service's.
THEOREM NetworksStayAsDeclared == ProjectSpec => []NetworksAreAsDeclared
<1>1. ProjectInv => NetworksAreAsDeclared
  BY NetworkQuestionsAssumption, NetworksAlwaysAsDeclared DEF ProjectInv, NetworksAreAsDeclared, Answered
<1> QED BY <1>1, ProjectStep, PTL

\* The commands that take a project down act on the one `up` starts, or ask.
THEOREM CommandsAlwaysAgree == ProjectSpec => []CommandsAgree
<1>1. ProjectInv => CommandsAgree
  BY ProjectQuestionsAssumption, CommandsOfARunAgree DEF ProjectInv, CommandsAgree, Answered
<1> QED BY <1>1, ProjectStep, PTL

-----------------------------------------------------------------------------
(* The words a container runs, and its groups.                             *)

\* A list of one word is not the empty list.
LEMMA OneWordIsSome == \A w : <<w>> # <<>>
OBVIOUS

\* What a line of `container run` runs.
LEMMA WhatALineRuns ==
  \A e, w, there : ProcessOf([entrypoint |-> e, words |-> w], there) =
                     IF e # <<>> THEN e \o w ELSE there.entrypoint \o (IF w # <<>> THEN w ELSE there.cmd)
BY DEF ProcessOf

\* A list that is not empty is its first word and the rest.
LEMMA HeadAndTail ==
  ASSUME NEW S, NEW s \in Seq(S), s # <<>>
  PROVE  /\ <<Head(s)>> \o Tail(s) = s /\ Head(s) = s[1] /\ Len(s) \in Nat \ {0}
OBVIOUS

\* The words behind its first one may stand before or behind what is added.
LEMMA RestIsKept ==
  ASSUME NEW S, NEW s \in Seq(S), NEW r \in Seq(S), s # <<>>
  PROVE  <<Head(s)>> \o (Tail(s) \o r) = s \o r
OBVIOUS

\* What `run` is given is what docker would run, or it is refused for having nothing to run.
LEMMA WordsAreRun ==
  ASSUME NEW svc, IsService(svc), NEW there, IsImage(there)
  PROVE  WordsAreRunOf(svc, Run(RunOptionsOf("built", svc), there), there)
<1> DEFINE o == RunOptionsOf("built", svc)
           line == RunWords(o, there)
           runs == DockerRuns(svc, there)
           ep == svc.entrypoint
           cmd == svc.command
           Words == ToSet(ep) \cup ToSet(cmd) \cup ToSet(there.cmd) \cup ToSet(there.entrypoint)
<1>1. o.svc = svc /\ o.built = svc.build
  BY DEF RunOptionsOf
<1>2. Run(o, there).line = line
  BY DEF Run
<1>3. ep \in Seq(Words) /\ cmd \in Seq(Words) /\ there.cmd \in Seq(Words) /\ there.entrypoint \in Seq(Words)
  BY DEF IsService, IsImage
<1> SUFFICES IF IsRefused(line)
             THEN ~NamesAProgram(runs) \/ (svc.entrypointCleared /\ ~there.read /\ (svc.build \/ ~there.pulls))
             ELSE ProcessOf(line, there) = runs
  BY <1>2 DEF WordsAreRunOf
<1>4. \A why : IsRefused(Refused(why))
  BY DEF IsRefused, Refused
<1>5. \A a, b : ~IsRefused([entrypoint |-> a, words |-> b])
  BY DEF IsRefused
<1>6. ASSUME NEW words \in Seq(Words), line = FirstAsEntrypoint(words), runs = words
      PROVE  IF IsRefused(line) THEN ~NamesAProgram(runs) ELSE ProcessOf(line, there) = runs
  <2>1. CASE words = <<>> \/ Head(words) = NoWord
    <3>1. line = Refused("no program")
      BY <1>6, <2>1 DEF FirstAsEntrypoint
    <3> QED BY <1>4, <1>6, <2>1, <3>1 DEF NamesAProgram
  <2>2. CASE words # <<>> /\ Head(words) # NoWord
    <3>1. line = [entrypoint |-> <<Head(words)>>, words |-> Tail(words)]
      BY <1>6, <2>2 DEF FirstAsEntrypoint
    <3>2. ProcessOf(line, there) = <<Head(words)>> \o Tail(words)
      BY <3>1, OneWordIsSome, WhatALineRuns, Zenon
    <3>3. <<Head(words)>> \o Tail(words) = words
      BY <2>2, HeadAndTail
    <3> HIDE DEF line, runs
    <3> QED BY <1>5, <1>6, <3>1, <3>2, <3>3
  <2> QED BY <2>1, <2>2
<1>12. /\ <<NoWord>> # <<>> /\ ~(Len(<<NoWord>>) > 1)
       /\ Len(ep) > 1 => ep # <<>> /\ ep # <<NoWord>>
  <2>1. <<NoWord>> # <<>> /\ Len(<<NoWord>>) = 1 /\ Len(<<>>) = 0
    OBVIOUS
  <2>2. Len(ep) > 1 => ep # <<>>
    BY <2>1
  <2>3. ~(Len(<<NoWord>>) > 1)
    BY <2>1
  <2>4. Len(ep) > 1 => ep # <<NoWord>>
    BY <2>3, Zenon
  <2> QED BY <2>1, <2>2, <2>3, <2>4, Zenon
<1>13. ASSUME NEW a \in Seq(Words), NEW b \in Seq(Words), a # <<>>
       PROVE  a \o b # <<>> /\ Head(a \o b) = a[1]
  BY <1>13
<1> HIDE DEF Words
<1> HIDE DEF o, runs
<1>7. CASE Len(ep) > 1 /\ ep[1] = NoWord
  <2>1. line = Refused("empty word")
    BY <1>1, <1>7, <1>12, ZenonT(30) DEF RunWords
  <2>2. runs = ep \o cmd
    BY <1>12, <1>7, ZenonT(30) DEF runs, DockerRuns
  <2>3. Head(ep \o cmd) = NoWord
    <3>1. ep # <<>> /\ ep \in Seq(Words) /\ cmd \in Seq(Words) /\ ep[1] = NoWord
      BY <1>3, <1>12, <1>7
    <3> QED BY <1>13, <3>1, Zenon
  <2> HIDE DEF line
  <2> QED BY <1>4, <2>1, <2>2, <2>3 DEF NamesAProgram
<1>8. CASE ep = <<NoWord>> /\ cmd = <<>>
  <2>1. line = Refused("no command")
    <3>1. ~(Len(ep) > 1 /\ ep[1] = NoWord)
      BY <1>12, <1>8
    <3> QED BY <1>1, <1>8, <1>12, <3>1, ZenonT(30) DEF RunWords
  <2>2. runs = <<>>
    BY <1>12, <1>8, ZenonT(30) DEF runs, DockerRuns
  <2> HIDE DEF line
  <2> QED BY <1>4, <2>1, <2>2 DEF NamesAProgram
<1>9. CASE (ep = <<NoWord>> /\ cmd # <<>>) \/ (ep = <<>> /\ svc.entrypointCleared)
  <2>1. line = CommandToRunWithoutEntrypoint(o, there)
    <3>1. ~(Len(ep) > 1 /\ ep[1] = NoWord) /\ ~(ep = <<NoWord>> /\ cmd = <<>>)
      BY <1>12, <1>9
    <3> QED BY <1>1, <1>9, <1>12, <3>1, ZenonT(30) DEF RunWords
  <2>2. CASE cmd # <<>>
    <3>1. line = FirstAsEntrypoint(cmd)
      BY <1>1, <2>1, <2>2 DEF CommandToRunWithoutEntrypoint
    <3>2. runs = cmd
      BY <1>9, <1>12, <2>2, ZenonT(30) DEF runs, DockerRuns
    <3> HIDE DEF line
    <3> QED BY <1>3, <1>6, <3>1, <3>2
  <2>3. CASE cmd = <<>> /\ ImageCmdRead(o, there)
    <3>1. line = FirstAsEntrypoint(there.cmd)
      BY <1>1, <2>1, <2>3 DEF CommandToRunWithoutEntrypoint
    <3>2. runs = there.cmd
      BY <1>9, <1>12, <2>3, ZenonT(30) DEF runs, DockerRuns
    <3> HIDE DEF line
    <3> QED BY <1>3, <1>6, <3>1, <3>2
  <2>4. CASE cmd = <<>> /\ ~ImageCmdRead(o, there)
    <3>1. line = Refused("not read")
      BY <1>1, <2>1, <2>4 DEF CommandToRunWithoutEntrypoint
    <3>2. svc.entrypointCleared /\ ~there.read /\ (svc.build \/ ~there.pulls)
      BY <1>1, <1>9, <2>4 DEF ImageCmdRead
    <3> HIDE DEF line
    <3> QED BY <1>4, <3>1, <3>2
  <2> QED BY <2>2, <2>3, <2>4
<1>10. CASE ep = <<>> /\ ~svc.entrypointCleared
  <2>1. line = [entrypoint |-> <<>>, words |-> cmd]
    <3>1. ~(Len(ep) > 1 /\ ep[1] = NoWord) /\ ep # <<NoWord>>
      BY <1>12, <1>10
    <3> QED BY <1>1, <1>10, <3>1, ZenonT(30) DEF RunWords
  <2>2. runs = there.entrypoint \o (IF cmd # <<>> THEN cmd ELSE there.cmd)
    BY <1>10, <1>12, ZenonT(30) DEF runs, DockerRuns
  <2>3. ProcessOf(line, there) = there.entrypoint \o (IF cmd # <<>> THEN cmd ELSE there.cmd)
    BY <2>1, WhatALineRuns, Zenon
  <2> HIDE DEF line
  <2> QED BY <1>5, <2>1, <2>2, <2>3, Zenon
<1>11. CASE ep # <<>> /\ ep # <<NoWord>> /\ ~(Len(ep) > 1 /\ ep[1] = NoWord)
  <2>1. line = [entrypoint |-> <<Head(ep)>>, words |-> Tail(ep) \o cmd]
    BY <1>1, <1>11, ZenonT(30) DEF RunWords
  <2>2. runs = ep \o cmd
    BY <1>11, ZenonT(30) DEF runs, DockerRuns
  <2>3. ProcessOf(line, there) = <<Head(ep)>> \o (Tail(ep) \o cmd)
    BY <2>1, OneWordIsSome, WhatALineRuns, ZenonT(90)
  <2>4. <<Head(ep)>> \o (Tail(ep) \o cmd) = ep \o cmd
    <3>1. cmd \in Seq(Words) /\ ep \in Seq(Words) /\ ep # <<>>
      BY <1>3, <1>11
    <3> QED BY <3>1, RestIsKept, Zenon
  <2> HIDE DEF line
  <2> QED BY <1>5, <2>1, <2>2, <2>3, <2>4, Zenon
<1> QED BY <1>7, <1>8, <1>9, <1>10, <1>11

\* The one group a line can carry is on it, and every other is refused.
LEMMA GroupsAreHandedOver ==
  ASSUME NEW svc, IsService(svc)
  PROVE  GroupsAreHandedOverOf(svc)
<1> DEFINE gs == svc.groupAdd
           named == {GroupNamed(g) : g \in ToSet(gs)}
           first == OneGroupRefused(gs[1], svc.user)
<1>1. gs \in Seq(ToSet(gs)) /\ Len(gs) \in Nat
  BY DEF IsService
<1>2. GroupsRefused(svc) =
        CASE gs = <<>> -> "" [] Cardinality(named) > 1 -> "several"
          [] OTHER -> IF Len(gs) > 1 /\ first = "" THEN "repeated" ELSE first
  BY DEF GroupsRefused
<1>3. Len(gs) = 1 => ToSet(gs) = {gs[1]} /\ gs # <<>>
  BY <1>1 DEF ToSet
<1>4. Len(gs) = 1 => Cardinality(named) = 1
  <2>1. Len(gs) = 1 => named = {GroupNamed(gs[1])}
    BY <1>3
  <2> HIDE DEF named
  <2> QED BY <2>1, FS_Singleton
<1>5. first = "" => gs[1].numeric /\ gs[1].fits /\ svc.user = NoWord
  BY DEF OneGroupRefused
<1>6. GidOf(svc) = IF Len(gs) = 1 /\ gs[1].numeric /\ gs[1].fits /\ svc.user = NoWord THEN gs[1].text ELSE NoWord
  BY DEF GidOf
<1>7. GroupsRefused(svc) = "" => ToSet(gs) = {} \/ (Len(gs) = 1 /\ first = "")
  <2>1. gs = <<>> => ToSet(gs) = {}
    BY DEF ToSet
  <2>2. gs # <<>> => Len(gs) >= 1
    BY <1>1
  <2>3. CASE gs = <<>>
    BY <2>1, <2>3
  <2>4. CASE gs # <<>> /\ Cardinality(named) > 1
    BY <1>2, <2>4
  <2>5. CASE gs # <<>> /\ ~(Cardinality(named) > 1)
    <3>1. GroupsRefused(svc) = IF Len(gs) > 1 /\ first = "" THEN "repeated" ELSE first
      BY <1>2, <2>5, ZenonT(30)
    <3>2. "repeated" # ""
      OBVIOUS
    <3>3. GroupsRefused(svc) = "" => first = "" /\ ~(Len(gs) > 1)
      BY ONLY <3>1, <3>2
    <3>4. ~(Len(gs) > 1) => Len(gs) = 1
      <4>1. Len(gs) \in Nat /\ Len(gs) >= 1
        BY <1>1, <2>2, <2>5, Zenon
      <4>2. \A n \in Nat : n >= 1 /\ ~(n > 1) => n = 1
        OBVIOUS
      <4> QED BY <4>1, <4>2, Zenon
    <3> QED BY <3>3, <3>4, Zenon
  <2> QED BY <2>3, <2>4, <2>5, Zenon
<1>8. GidOf(svc) # NoWord => GroupsRefused(svc) = ""
  <2> SUFFICES ASSUME GidOf(svc) # NoWord PROVE GroupsRefused(svc) = ""
    OBVIOUS
  <2>1. Len(gs) = 1 /\ gs[1].numeric /\ gs[1].fits /\ svc.user = NoWord /\ gs[1].text # NoWord
    BY <1>6
  <2>2. first = ""
    BY <2>1, ZenonT(30) DEF OneGroupRefused
  <2>3. ~(Cardinality(named) > 1) /\ ~(Len(gs) > 1) /\ gs # <<>>
    BY <1>3, <1>4, <2>1
  <2> QED BY <1>2, <2>2, <2>3, ZenonT(30)
<1>9. GroupsRefused(svc) = "" => ToSet(gs) = {} \/ {GidOf(svc)} = {g.text : g \in ToSet(gs)}
  BY <1>3, <1>5, <1>6, <1>7
<1> QED BY <1>8, <1>9 DEF GroupsAreHandedOverOf

\* What runs in a service's container is what docker would run, whatever of its entrypoint and
\* command the file and the image give, and no group it adds is left out.
THEOREM WordsAndGroupsAlwaysHandedOver ==
  ASSUME NEW svc, IsService(svc), NEW there, IsImage(there)
  PROVE  WordsAreRunOf(svc, Run(RunOptionsOf("built", svc), there), there) /\ GroupsAreHandedOverOf(svc)
BY WordsAreRun, GroupsAreHandedOver

-----------------------------------------------------------------------------
(* Borrowed mounts.                                                        *)

\* Of positions in a list some one is the greatest.
LEMMA GreatestIsLast ==
  ASSUME NEW n \in Nat, NEW S \in SUBSET (1..n), S # {}
  PROVE  Max(S) \in S /\ \A j \in S : j <= Max(S)
<1> DEFINE T == {n - i : i \in S}
<1>1. \A i \in S : i \in Nat /\ i <= n
  OBVIOUS
<1>2. \A i \in S : n - i \in Nat
  BY <1>1
<1>3. T \in SUBSET Nat /\ T # {}
  BY <1>2, Zenon
<1>4. PICK x \in T : \A y \in T : x <= y
  BY <1>3, LeastOf
<1>5. PICK i \in S : x = n - i
  OBVIOUS
<1>6. \A j \in S : i >= j
  <2> SUFFICES ASSUME NEW j \in S PROVE i >= j
    OBVIOUS
  <2>1. n - j \in T
    OBVIOUS
  <2>2. n - i <= n - j
    BY <1>4, <1>5, <2>1
  <2> QED BY <1>1, <2>2
<1>7. Max(S) \in S /\ \A j \in S : Max(S) >= j
  BY <1>6, Zenon DEF Max
<1> QED BY <1>1, <1>7

\* One more position, the last of all, is the greatest.
LEMMA GreatestOfOneMore ==
  ASSUME NEW n \in Nat, NEW S \in SUBSET (1..n)
  PROVE  Max(S \cup {n + 1}) = n + 1
<1>1. Max(S \cup {n + 1}) \in S \cup {n + 1} /\ \A j \in S \cup {n + 1} : j <= Max(S \cup {n + 1})
  <2>1. S \cup {n + 1} \in SUBSET (1..(n + 1)) /\ S \cup {n + 1} # {} /\ n + 1 \in Nat
    OBVIOUS
  <2> HIDE DEF Max
  <2> QED BY <2>1, GreatestIsLast
<1> DEFINE m == Max(S \cup {n + 1})
<1>2. m \in S \cup {n + 1} /\ n + 1 <= m
  BY <1>1
<1> HIDE DEF m
<1>3. m = n + 1
  BY <1>2
<1> QED BY <1>3 DEF m

\* Where nothing is anonymous, the last that is named is the last.
LEMMA LastIsNamed ==
  ASSUME NEW mounts \in Seq(Sources), Anonymous \notin ToSet(mounts)
  PROVE  LastNamed(mounts) = IF mounts = <<>> THEN <<>> ELSE <<Last(mounts)>>
<1> DEFINE named == {i \in DOMAIN mounts : mounts[i] # Anonymous}
<1>1. named = 1..Len(mounts) /\ Len(mounts) \in Nat
  BY DEF ToSet
<1>2. LastNamed(mounts) = IF named = {} THEN <<>> ELSE <<mounts[Max(named)]>>
  BY DEF LastNamed
<1>3. CASE mounts = <<>>
  BY <1>1, <1>2, <1>3
<1>4. CASE mounts # <<>>
  <2>1. named # {} /\ named \in SUBSET (1..Len(mounts)) /\ Len(mounts) \in named
    BY <1>1, <1>4
  <2> HIDE DEF named
  <2>2. Max(named) \in named /\ \A j \in named : j <= Max(named)
    BY <1>1, <2>1, GreatestIsLast
  <2>3. Max(named) = Len(mounts)
    BY <1>1, <2>1, <2>2
  <2> QED BY <1>2, <1>4, <2>1, <2>3 DEF Last
<1> QED BY <1>3, <1>4

\* What some services borrow of, with what those do, is closed under borrowing.
LEMMA LendersAreClosed ==
  ASSUME NEW q, NEW S, S \subseteq DOMAIN q.services
  PROVE  /\ S \subseteq LendersOf(q, S) /\ LendersOf(q, S) \subseteq DOMAIN q.services
         /\ \A m \in LendersOf(q, S) : Lenders(q, m) \subseteq LendersOf(q, S)
<1>1. \A m : Lenders(q, m) \subseteq DOMAIN q.services
  BY DEF Lenders, Lends
<1>2. S \subseteq LendersOf(q, S) /\ LendersOf(q, S) \subseteq DOMAIN q.services
  BY Zenon DEF LendersOf
<1>3. ASSUME NEW m \in LendersOf(q, S), NEW h \in Lenders(q, m) PROVE h \in LendersOf(q, S)
  <2> SUFFICES ASSUME NEW T \in SUBSET DOMAIN q.services, S \subseteq T, \A l \in T : Lenders(q, l) \subseteq T
               PROVE  h \in T
    BY <1>1, <1>3 DEF LendersOf
  <2>1. m \in T
    BY Zenon DEF LendersOf
  <2> QED BY <1>3, <2>1
<1> QED BY <1>2, <1>3

-----------------------------------------------------------------------------
(* What a service has gathered of the first it borrows from.               *)

LentBy(q, w, n, at, t) ==
  LET refs == q.services[n].from
  IN {i \in 1..at : Lends(q, refs[i]) /\ LastNamed(w.volumes[refs[i].to][t]) # <<>>}
IsAsLent(q, w, n, at, t, got) ==
  LET lent == LentBy(q, w, n, at, t)
      holder == q.services[n].from[Max(lent)].to
  IN IF lent = {} THEN got.mounts[t] = <<>> /\ t \notin got.nocopy /\ t \notin got.part
     ELSE /\ got.mounts[t] = LastNamed(w.volumes[holder][t])
          /\ t \in got.nocopy <=> t \in w.nocopy[holder]
          /\ t \in got.part <=> t \in w.part[holder]
HoldersAreDone(q, w, n, at) ==
  \A i \in 1..at : LET ref == q.services[n].from[i] IN
    Lends(q, ref) => w.state[ref.to] = "done" /\ (PutsOff(q, n) \/ ~SharesAnonymous(q, w, n, ref.to))
Gathered(q, w, n, at, got) ==
  /\ \A t \in Paths : t \notin OpenPaths(q, n) => got.mounts[t] = <<>>
  /\ got.nocopy \subseteq OpenPaths(q, n) /\ got.part \subseteq OpenPaths(q, n)
  /\ \A i \in 1..at : Lends(q, q.services[n].from[i]) => q.services[n].from[i].to \in w.deps[n]
  /\ MeetsNoCycle(q, n) =>
       HoldersAreDone(q, w, n, at) /\ \A t \in OpenPaths(q, n) : IsAsLent(q, w, n, at, t, got)

\* What is lent by services that are done does not change any more.
LEMMA GatheredStays ==
  ASSUME NEW q, NEW w, NEW v, NEW n, NEW at \in Nat, NEW got, Gathered(q, w, n, at, got), w.deps[n] \subseteq v.deps[n],
         \A m \in DOMAIN q.services : w.state[m] = "done" =>
           v.state[m] = "done" /\ v.volumes[m] = w.volumes[m] /\ v.nocopy[m] = w.nocopy[m] /\ v.part[m] = w.part[m]
  PROVE  Gathered(q, v, n, at, got)
<1> DEFINE refs == q.services[n].from
           Same(m) == v.state[m] = "done" /\ v.volumes[m] = w.volumes[m] /\ v.nocopy[m] = w.nocopy[m] /\ v.part[m] = w.part[m]
<1>1. ASSUME MeetsNoCycle(q, n), NEW i \in 1..at, Lends(q, refs[i]) PROVE Same(refs[i].to)
  <2>1. refs[i].to \in DOMAIN q.services
    BY <1>1, Zenon DEF Lends
  <2>2. w.state[refs[i].to] = "done"
    BY <1>1, Zenon DEF Gathered, HoldersAreDone
  <2> QED BY <2>1, <2>2, Zenon
<1>2. MeetsNoCycle(q, n) => HoldersAreDone(q, v, n, at)
  <2> SUFFICES ASSUME MeetsNoCycle(q, n), NEW i \in 1..at, Lends(q, refs[i])
               PROVE  v.state[refs[i].to] = "done" /\ (PutsOff(q, n) \/ ~SharesAnonymous(q, v, n, refs[i].to))
    BY Zenon DEF HoldersAreDone
  <2>1. Same(refs[i].to)
    BY <1>1, Zenon
  <2>2. PutsOff(q, n) \/ ~SharesAnonymous(q, w, n, refs[i].to)
    BY Zenon DEF Gathered, HoldersAreDone
  <2> QED BY <2>1, <2>2, Zenon DEF SharesAnonymous
<1>3. ASSUME MeetsNoCycle(q, n), NEW t \in OpenPaths(q, n) PROVE IsAsLent(q, v, n, at, t, got)
  <2> DEFINE lent == LentBy(q, w, n, at, t)
             h == refs[Max(lent)].to
  <2>1. LentBy(q, v, n, at, t) = lent
    <3>1. \A i \in 1..at : Lends(q, refs[i]) => v.volumes[refs[i].to] = w.volumes[refs[i].to]
      BY <1>1, <1>3, Zenon
    <3> QED BY <3>1, Zenon DEF LentBy
  <2>2. IsAsLent(q, w, n, at, t, got)
    BY <1>3, Zenon DEF Gathered
  <2>3. lent # {} => Same(h)
    <3>1. lent \in SUBSET (1..at)
      BY Zenon DEF LentBy
    <3>2. lent # {} => Max(lent) \in lent
      <4> HIDE DEF lent
      <4> QED BY <3>1, GreatestIsLast
    <3>3. \A i \in lent : i \in 1..at /\ Lends(q, refs[i])
      BY Zenon DEF LentBy
    <3> HIDE DEF lent
    <3> QED BY <1>1, <1>3, <3>2, <3>3, Zenon
  <2> HIDE DEF lent
  <2> QED BY <2>1, <2>2, <2>3, Zenon DEF IsAsLent, lent
<1> QED BY <1>2, <1>3, Zenon DEF Gathered

\* What one more reference adds to what is lent at a path: itself, where it lends something there.
LendsAt(q, w, n, i, t) ==
  LET ref == q.services[n].from[i]
  IN Lends(q, ref) /\ LastNamed(w.volumes[ref.to][t]) # <<>>
LEMMA LentByOneMore ==
  ASSUME NEW q, NEW w, NEW n, NEW at \in Nat, NEW t
  PROVE  /\ LendsAt(q, w, n, at + 1, t) => LentBy(q, w, n, at + 1, t) = LentBy(q, w, n, at, t) \cup {at + 1}
         /\ ~LendsAt(q, w, n, at + 1, t) => LentBy(q, w, n, at + 1, t) = LentBy(q, w, n, at, t)
<1> DEFINE IsLent(i) == LendsAt(q, w, n, i, t)
<1>1. /\ LentBy(q, w, n, at, t) = {i \in 1..at : IsLent(i)}
      /\ LentBy(q, w, n, at + 1, t) = {i \in 1..(at + 1) : IsLent(i)}
  BY Zenon DEF LentBy, LendsAt
<1>2. 1..(at + 1) = (1..at) \cup {at + 1}
  OBVIOUS
<1> HIDE DEF IsLent
<1>3. /\ IsLent(at + 1) => {i \in 1..(at + 1) : IsLent(i)} = {i \in 1..at : IsLent(i)} \cup {at + 1}
      /\ ~IsLent(at + 1) => {i \in 1..(at + 1) : IsLent(i)} = {i \in 1..at : IsLent(i)}
  BY ONLY <1>2
<1> QED BY ONLY <1>1, <1>3, Zenon DEF IsLent

\* One more holder that is done: its mounts come over those of the holders before it.
LEMMA GatheredMore ==
  ASSUME NEW q, NEW w, NEW n \in DOMAIN q.services, NEW at \in Nat, NEW got, NEW h, Gathered(q, w, n, at, got),
         Lends(q, q.services[n].from[at + 1]), q.services[n].from[at + 1].to = h, h \in w.deps[n],
         PutsOff(q, n) \/ ~SharesAnonymous(q, w, n, h), MeetsNoCycle(q, n) => w.state[h] = "done",
         DOMAIN got.mounts = Paths
  PROVE  Gathered(q, w, n, at + 1, BorrowFrom(q, w, n, h, got))
<1> DEFINE refs == q.services[n].from
           open == OpenPaths(q, n)
           here == {t \in open : LastNamed(w.volumes[h][t]) # <<>>}
           more == BorrowFrom(q, w, n, h, got)
<1>1. /\ \A t \in Paths : more.mounts[t] = IF t \in here THEN LastNamed(w.volumes[h][t]) ELSE got.mounts[t]
      /\ more.nocopy = (got.nocopy \ here) \cup (w.nocopy[h] \cap here)
      /\ more.part = (got.part \ here) \cup (w.part[h] \cap here)
  BY DEF BorrowFrom
<1>2. here \subseteq open /\ open \subseteq Paths
  BY Zenon DEF OpenPaths
<1>3. \A i \in 1..(at + 1) : i \in 1..at \/ i = at + 1
  OBVIOUS
<1>4. MeetsNoCycle(q, n) => HoldersAreDone(q, w, n, at + 1)
  BY <1>3, Zenon DEF Gathered, HoldersAreDone
<1>5. ASSUME MeetsNoCycle(q, n), NEW t \in open PROVE IsAsLent(q, w, n, at + 1, t, more)
  <2>1. IsAsLent(q, w, n, at, t, got)
    BY <1>5, Zenon DEF Gathered
  <2>2. CASE t \in here
    <3>1. LentBy(q, w, n, at + 1, t) = LentBy(q, w, n, at, t) \cup {at + 1}
      <4>1. LendsAt(q, w, n, at + 1, t)
        BY <2>2, Zenon DEF LendsAt
      <4>2. at \in Nat
        OBVIOUS
      <4> QED BY ONLY <4>1, <4>2, LentByOneMore
    <3>2. LentBy(q, w, n, at, t) \in SUBSET (1..at)
      BY Zenon DEF LentBy
    <3>3. Max(LentBy(q, w, n, at + 1, t)) = at + 1
      BY <3>1, <3>2, GreatestOfOneMore, Zenon
    <3>4. more.mounts[t] = LastNamed(w.volumes[h][t])
          /\ (t \in more.nocopy <=> t \in w.nocopy[h]) /\ (t \in more.part <=> t \in w.part[h])
      BY <1>1, <1>2, <2>2, Zenon
    <3>5. LentBy(q, w, n, at + 1, t) # {}
      BY <3>1
    <3> HIDE DEF more
    <3> QED BY <3>3, <3>4, <3>5, Zenon DEF IsAsLent
  <2>3. CASE t \notin here
    <3>1. LentBy(q, w, n, at + 1, t) = LentBy(q, w, n, at, t)
      <4>1. ~LendsAt(q, w, n, at + 1, t)
        BY <1>5, <2>3, Zenon DEF LendsAt
      <4>2. at \in Nat
        OBVIOUS
      <4> QED BY ONLY <4>1, <4>2, LentByOneMore
    <3>2. more.mounts[t] = got.mounts[t] /\ (t \in more.nocopy <=> t \in got.nocopy) /\ (t \in more.part <=> t \in got.part)
      BY <1>1, <1>2, <2>3, Zenon
    <3> HIDE DEF more
    <3> QED BY <2>1, <3>1, <3>2, Zenon DEF IsAsLent
  <2> QED BY <2>2, <2>3
<1>6. \A t \in Paths : t \notin open => more.mounts[t] = <<>>
  BY <1>1, <1>2, Zenon DEF Gathered
<1>7. more.nocopy \subseteq open /\ more.part \subseteq open
  BY <1>1, <1>2, Zenon DEF Gathered
<1>8. \A i \in 1..(at + 1) : Lends(q, refs[i]) => refs[i].to \in w.deps[n]
  BY <1>3, Zenon DEF Gathered
<1> HIDE DEF more
<1> QED BY <1>4, <1>5, <1>6, <1>7, <1>8, Zenon DEF Gathered, more

\* A mount of a container outside, or of no service, lends nothing.
LEMMA GatheredPast ==
  ASSUME NEW q, NEW w, NEW n, NEW at \in Nat, NEW got, Gathered(q, w, n, at, got),
         ~Lends(q, q.services[n].from[at + 1])
  PROVE  Gathered(q, w, n, at + 1, got)
<1>1. \A i \in 1..(at + 1) : i \in 1..at \/ i = at + 1
  OBVIOUS
<1>2. \A t : LentBy(q, w, n, at + 1, t) = LentBy(q, w, n, at, t)
  <2> TAKE t
  <2>1. ~LendsAt(q, w, n, at + 1, t)
    BY Zenon DEF LendsAt
  <2>2. at \in Nat
    OBVIOUS
  <2> QED BY ONLY <2>1, <2>2, LentByOneMore
<1>3. MeetsNoCycle(q, n) => HoldersAreDone(q, w, n, at + 1)
  BY <1>1, Zenon DEF Gathered, HoldersAreDone
<1>4. \A t : IsAsLent(q, w, n, at, t, got) => IsAsLent(q, w, n, at + 1, t, got)
  BY <1>2, Zenon DEF IsAsLent
<1> QED BY <1>1, <1>3, <1>4, Zenon DEF Gathered

\* What is mounted is of the sources there are.
LEMMA LastNamedIsOne ==
  ASSUME NEW mounts \in Seq(Sources)
  PROVE  LastNamed(mounts) \in Seq(Sources)
<1> DEFINE named == {i \in DOMAIN mounts : mounts[i] # Anonymous}
<1>1. LastNamed(mounts) = IF named = {} THEN <<>> ELSE <<mounts[Max(named)]>>
  BY DEF LastNamed
<1>2. CASE named = {}
  BY <1>1, <1>2
<1>3. CASE named # {}
  <2>1. named \in SUBSET (1..Len(mounts)) /\ Len(mounts) \in Nat
    OBVIOUS
  <2> DEFINE last == Max(named)
  <2> HIDE DEF named
  <2>2. last \in named
    BY <1>3, <2>1, GreatestIsLast
  <2> HIDE DEF last
  <2>3. mounts[last] \in Sources
    BY <2>1, <2>2
  <2>4. LastNamed(mounts) = <<mounts[last]>>
    BY <1>1, <1>3 DEF last
  <2> QED BY <2>3, <2>4
<1> QED BY <1>2, <1>3

\* What a service is lent adds to what it has gathered.
Takings == [mounts : [Paths -> Seq(Sources)], nocopy : SUBSET Paths, part : SUBSET Paths]
LEMMA BorrowedIsTaken ==
  ASSUME NEW q, NEW w, NEW n, NEW h, NEW got \in Takings, w.volumes[h] \in [Paths -> Seq(Sources)]
  PROVE  BorrowFrom(q, w, n, h, got) \in Takings
<1> DEFINE here == {t \in OpenPaths(q, n) : LastNamed(w.volumes[h][t]) # <<>>}
<1>1. here \subseteq Paths
  BY DEF OpenPaths
<1>2. \A t \in Paths : LastNamed(w.volumes[h][t]) \in Seq(Sources)
  BY LastNamedIsOne
<1>3. got.mounts \in [Paths -> Seq(Sources)] /\ got.nocopy \in SUBSET Paths /\ got.part \in SUBSET Paths
  BY DEF Takings
<1>4. BorrowFrom(q, w, n, h, got) =
        [mounts |-> [t \in Paths |-> IF t \in here THEN LastNamed(w.volumes[h][t]) ELSE got.mounts[t]],
         nocopy |-> (got.nocopy \ here) \cup (w.nocopy[h] \cap here),
         part |-> (got.part \ here) \cup (w.part[h] \cap here)]
  BY DEF BorrowFrom
<1> HIDE DEF here
<1> QED BY <1>1, <1>2, <1>3, <1>4 DEF Takings

-----------------------------------------------------------------------------
(* The walk: a path of services, each led to by the one before it.          *)

Frames(q) == [name : DOMAIN q.services, at : Nat, got : Takings]
Walks(q) ==
  [stack : Seq(Frames(q)), state : [DOMAIN q.services -> {"new", "visiting", "done"}],
   volumes : [DOMAIN q.services -> [Paths -> Seq(Sources)]], nocopy : [DOMAIN q.services -> SUBSET Paths],
   part : [DOMAIN q.services -> SUBSET Paths], deps : [DOMAIN q.services -> SUBSET DOMAIN q.services]]
\* Whoever is walked has gathered what it has been lent so far.
IsWalked(q, w, frame) ==
  /\ w.state[frame.name] = "visiting" /\ frame.at <= Len(q.services[frame.name].from)
  /\ Gathered(q, w, frame.name, frame.at, frame.got)
\* Whoever is walked borrows of the one after it, that one of the next.
IsPath(q, stack) ==
  \A i, j \in DOMAIN stack : i < j =>
    stack[i].name # stack[j].name /\ stack[j].name \in LendersOf(q, Lenders(q, stack[i].name))
\* Whoever is done has its own over all it was lent; whoever is not, its own.
IsFolded(q, w, n, got) ==
  /\ Gathered(q, w, n, Len(q.services[n].from), got)
  /\ w.volumes[n] = FoldedMounts(q.services[n], got)
  /\ w.nocopy[n] = q.services[n].nocopy \cup got.nocopy /\ w.part[n] = q.services[n].part \cup got.part
IsOwn(q, w, n) ==
  w.volumes[n] = q.services[n].own /\ w.nocopy[n] = q.services[n].nocopy /\ w.part[n] = q.services[n].part
WalkWell(q, w) ==
  /\ w \in Walks(q)
  /\ \A i \in DOMAIN w.stack : IsWalked(q, w, w.stack[i])
  /\ IsPath(q, w.stack)
  /\ \A n \in DOMAIN q.services : w.state[n] = "visiting" => \E i \in DOMAIN w.stack : w.stack[i].name = n
  /\ \A n \in DOMAIN q.services : w.state[n] # "done" => IsOwn(q, w, n)
  /\ \A n \in DOMAIN q.services : w.state[n] = "done" => \E got \in Takings : IsFolded(q, w, n, got)

\* What a service borrows from is a list of references.
LEMMA LengthsAreNat ==
  ASSUME NEW q, IsLending(q), NEW n \in DOMAIN q.services
  PROVE  /\ Len(q.services[n].from) \in Nat /\ DOMAIN q.services[n].from = 1..Len(q.services[n].from)
         /\ \A i \in 1..Len(q.services[n].from) : q.services[n].from[i] \in ToSet(q.services[n].from)
<1>1. q.services[n].from \in Seq(ToSet(q.services[n].from))
  BY DEF IsLending
<1> DEFINE from == q.services[n].from
<1>2. from \in Seq(ToSet(from))
  BY <1>1
<1>3. \A refs : refs \in Seq(ToSet(refs)) => Len(refs) \in Nat /\ DOMAIN refs = 1..Len(refs)
  OBVIOUS
<1>4. \A i \in DOMAIN from : from[i] \in ToSet(from)
  BY DEF ToSet
<1> QED BY <1>2, <1>3, <1>4

\* Who has borrowed of nobody yet has gathered nothing.
LEMMA NothingIsGathered ==
  ASSUME NEW q, NEW w, NEW n
  PROVE  Gathered(q, w, n, 0, NothingYet) /\ NothingYet \in Takings
<1>1. /\ NothingYet.mounts = [t \in Paths |-> <<>>] /\ NothingYet.nocopy = {} /\ NothingYet.part = {}
      /\ NothingYet \in Takings
  BY DEF NothingYet, Takings
<1>2. 1..0 = {}
  OBVIOUS
<1>3. \A t \in Paths : LentBy(q, w, n, 0, t) = {}
  BY <1>2 DEF LentBy
<1>4. HoldersAreDone(q, w, n, 0)
  BY <1>2, Zenon DEF HoldersAreDone
<1>5. \A t \in OpenPaths(q, n) : t \in Paths
  BY DEF OpenPaths
<1>6. \A t \in Paths : NothingYet.mounts[t] = <<>>
  BY <1>1
<1>7. \A t \in OpenPaths(q, n) : IsAsLent(q, w, n, 0, t, NothingYet)
  BY <1>1, <1>3, <1>5, <1>6, Zenon DEF IsAsLent
<1> QED BY <1>1, <1>2, <1>4, <1>6, <1>7, Zenon DEF Gathered

\* A step after which whoever was done is as it was leaves what was gathered and folded.
LEMMA OthersStay ==
  ASSUME NEW q, IsLending(q), NEW w \in Walks(q), NEW v \in Walks(q),
         \A n \in DOMAIN q.services : w.deps[n] \subseteq v.deps[n],
         \A n \in DOMAIN q.services : w.state[n] = "done" =>
           v.state[n] = "done" /\ v.volumes[n] = w.volumes[n] /\ v.nocopy[n] = w.nocopy[n] /\ v.part[n] = w.part[n]
  PROVE  /\ \A frame \in Frames(q) : IsWalked(q, w, frame) /\ v.state[frame.name] = "visiting" => IsWalked(q, v, frame)
         /\ \A n \in DOMAIN q.services, got \in Takings :
              w.state[n] = "done" /\ IsFolded(q, w, n, got) => IsFolded(q, v, n, got)
<1>1. ASSUME NEW frame \in Frames(q), IsWalked(q, w, frame), v.state[frame.name] = "visiting" PROVE IsWalked(q, v, frame)
  <2>1. frame.at \in Nat /\ frame.name \in DOMAIN q.services
    BY DEF Frames
  <2>2. Gathered(q, w, frame.name, frame.at, frame.got)
    BY <1>1 DEF IsWalked
  <2>3. Gathered(q, v, frame.name, frame.at, frame.got)
    BY <2>1, <2>2, GatheredStays
  <2> QED BY <1>1, <2>3, Zenon DEF IsWalked
<1>2. ASSUME NEW n \in DOMAIN q.services, NEW got \in Takings, w.state[n] = "done", IsFolded(q, w, n, got)
      PROVE IsFolded(q, v, n, got)
  <2>1. Gathered(q, w, n, Len(q.services[n].from), got)
    BY <1>2 DEF IsFolded
  <2>2. Len(q.services[n].from) \in Nat
    BY LengthsAreNat, Zenon
  <2>3. Gathered(q, v, n, Len(q.services[n].from), got)
    BY <1>2, <2>1, <2>2, GatheredStays
  <2> QED BY <1>2, <2>3, Zenon DEF IsFolded
<1> QED BY <1>1, <1>2, Zenon

\* A walk is made of its parts, and a part that changes somewhere is one still.
LEMMA MadeOfParts ==
  ASSUME NEW q, NEW v,
         v = [stack |-> v.stack, state |-> v.state, volumes |-> v.volumes, nocopy |-> v.nocopy, part |-> v.part, deps |-> v.deps],
         v.stack \in Seq(Frames(q)), v.state \in [DOMAIN q.services -> {"new", "visiting", "done"}],
         v.volumes \in [DOMAIN q.services -> [Paths -> Seq(Sources)]], v.nocopy \in [DOMAIN q.services -> SUBSET Paths],
         v.part \in [DOMAIN q.services -> SUBSET Paths], v.deps \in [DOMAIN q.services -> SUBSET DOMAIN q.services]
  PROVE  v \in Walks(q)
  BY DEF Walks
LEMMA ChangedIsWell ==
  ASSUME NEW D, NEW S, NEW f \in [D -> S], NEW d, NEW s \in S
  PROVE  [f EXCEPT ![d] = s] \in [D -> S]
  OBVIOUS

\* A service is entered: from the file, or as a holder of the last of the path.
LEMMA EnterKeeps ==
  ASSUME NEW q, IsLending(q), NEW w, WalkWell(q, w), NEW n \in DOMAIN q.services, w.state[n] = "new",
         w.stack = <<>> \/ n \in Lenders(q, Last(w.stack).name),
         NEW v, v = [w EXCEPT !.stack = Append(@, [name |-> n, at |-> 0, got |-> NothingYet]), !.state[n] = "visiting"]
  PROVE  WalkWell(q, v)
<1> DEFINE frame == [name |-> n, at |-> 0, got |-> NothingYet]
           k == Len(w.stack)
<1>1. w \in Walks(q) /\ w.stack \in Seq(Frames(q)) /\ k \in Nat /\ DOMAIN w.stack = 1..k
      /\ w.state \in [DOMAIN q.services -> {"new", "visiting", "done"}]
  BY DEF WalkWell, Walks
<1>2. frame \in Frames(q) /\ frame.name = n /\ frame.at = 0 /\ frame.got = NothingYet
  BY NothingIsGathered DEF Frames
<1>3. /\ v.stack = Append(w.stack, frame) /\ v.state = [w.state EXCEPT ![n] = "visiting"]
      /\ v.volumes = w.volumes /\ v.nocopy = w.nocopy /\ v.part = w.part /\ v.deps = w.deps
  BY <1>1 DEF Walks
<1>4. v \in Walks(q)
  <2>1. v.stack \in Seq(Frames(q))
    BY <1>1, <1>2, <1>3
  <2>2. v.state \in [DOMAIN q.services -> {"new", "visiting", "done"}]
    BY <1>1, <1>3
  <2> QED BY <1>1, <2>1, <2>2 DEF Walks
<1>5. \A m \in DOMAIN q.services : v.state[m] = IF m = n THEN "visiting" ELSE w.state[m]
  BY <1>1, <1>3
<1> HIDE DEF frame
<1>6. /\ DOMAIN v.stack = 1..(k + 1) /\ v.stack[k + 1] = frame
      /\ \A i \in 1..k : v.stack[i] = w.stack[i] /\ w.stack[i] \in Frames(q)
  BY <1>1, <1>2, <1>3
<1> HIDE DEF k
<1>7. \A i \in 1..(k + 1) : i \in 1..k \/ i = k + 1
  BY <1>1
<1>8. \A i \in 1..k : w.stack[i].name \in DOMAIN q.services /\ w.state[w.stack[i].name] = "visiting" /\ w.stack[i].name # n
  BY <1>1, <1>6, Zenon DEF WalkWell, IsWalked, Frames
<1>9. /\ \A f \in Frames(q) : IsWalked(q, w, f) /\ v.state[f.name] = "visiting" => IsWalked(q, v, f)
      /\ \A m \in DOMAIN q.services, got \in Takings : w.state[m] = "done" /\ IsFolded(q, w, m, got) => IsFolded(q, v, m, got)
  <2>1. \A m \in DOMAIN q.services : w.deps[m] \subseteq v.deps[m]
    BY <1>3
  <2>2. \A m \in DOMAIN q.services : w.state[m] = "done" =>
          v.state[m] = "done" /\ v.volumes[m] = w.volumes[m] /\ v.nocopy[m] = w.nocopy[m] /\ v.part[m] = w.part[m]
    BY <1>3, <1>5
  <2>3. w \in Walks(q)
    BY <1>1
  <2> QED BY <1>4, <2>1, <2>2, <2>3, OthersStay, ZenonT(120)
<1>10. \A i \in 1..(k + 1) : IsWalked(q, v, v.stack[i])
  <2>1. \A i \in 1..k : IsWalked(q, v, v.stack[i])
    <3> TAKE i \in 1..k
    <3>1. IsWalked(q, w, w.stack[i])
      BY <1>1, Zenon DEF WalkWell
    <3>2. v.state[w.stack[i].name] = "visiting" /\ w.stack[i] \in Frames(q)
      BY <1>5, <1>6, <1>8, Zenon
    <3> QED BY <1>6, <1>9, <3>1, <3>2, Zenon
  <2>2. IsWalked(q, v, frame)
    <3>1. 0 <= Len(q.services[n].from)
      BY LengthsAreNat
    <3> QED BY <1>2, <1>5, <3>1, NothingIsGathered, ZenonT(60) DEF IsWalked
  <2> QED BY <1>6, <1>7, <2>1, <2>2, Zenon
<1>11. IsPath(q, v.stack)
  <2>1. \A i \in 1..k : n \in LendersOf(q, Lenders(q, w.stack[i].name))
    <3> TAKE i \in 1..k
    <3>1. k \in 1..k /\ Last(w.stack) = w.stack[k] /\ w.stack # <<>>
      BY <1>1 DEF k, Last
    <3>2. n \in Lenders(q, w.stack[k].name)
      BY <3>1
    <3>3. Lenders(q, w.stack[i].name) \subseteq DOMAIN q.services
      BY Zenon DEF Lenders, Lends
    <3>4. /\ Lenders(q, w.stack[i].name) \subseteq LendersOf(q, Lenders(q, w.stack[i].name))
          /\ \A m \in LendersOf(q, Lenders(q, w.stack[i].name)) : Lenders(q, m) \subseteq LendersOf(q, Lenders(q, w.stack[i].name))
      BY <3>3, LendersAreClosed
    <3>5. CASE i = k
      BY <3>2, <3>4, <3>5
    <3>6. CASE i # k
      <4>1. i < k
        BY <1>1, <3>6
      <4>2. w.stack[k].name \in LendersOf(q, Lenders(q, w.stack[i].name))
        BY <1>1, <3>1, <4>1, Zenon DEF WalkWell, IsPath
      <4> QED BY <3>2, <3>4, <4>2
    <3> QED BY <3>5, <3>6
  <2> SUFFICES ASSUME NEW i \in 1..(k + 1), NEW j \in 1..(k + 1), i < j
               PROVE  v.stack[i].name # v.stack[j].name /\ v.stack[j].name \in LendersOf(q, Lenders(q, v.stack[i].name))
    BY <1>6, Zenon DEF IsPath
  <2>2. i \in 1..k
    BY <1>1
  <2>3. CASE j = k + 1
    BY <1>2, <1>6, <1>8, <2>1, <2>2, <2>3, Zenon
  <2>4. CASE j \in 1..k
    <3>1. w.stack[i].name # w.stack[j].name /\ w.stack[j].name \in LendersOf(q, Lenders(q, w.stack[i].name))
      BY <1>1, <2>2, <2>4, Zenon DEF WalkWell, IsPath
    <3> QED BY <1>6, <2>2, <2>4, <3>1, Zenon
  <2> QED BY <1>7, <2>3, <2>4, Zenon
<1>12. \A m \in DOMAIN q.services : v.state[m] = "visiting" => \E i \in 1..(k + 1) : v.stack[i].name = m
  <2> SUFFICES ASSUME NEW m \in DOMAIN q.services, v.state[m] = "visiting" PROVE \E i \in 1..(k + 1) : v.stack[i].name = m
    OBVIOUS
  <2>1. k + 1 \in 1..(k + 1) /\ 1..k \subseteq 1..(k + 1)
    BY <1>1
  <2>2. CASE m = n
    BY <1>2, <1>6, <2>1, <2>2, Zenon
  <2>3. CASE m # n
    <3>1. \E i \in 1..k : w.stack[i].name = m
      BY <1>1, <1>5, <2>3, Zenon DEF WalkWell
    <3> QED BY <1>6, <2>1, <3>1, Zenon
  <2> QED BY <2>2, <2>3
<1>13. \A m \in DOMAIN q.services : v.state[m] # "done" => IsOwn(q, v, m)
  <2>1. \A m \in DOMAIN q.services : v.state[m] # "done" => w.state[m] # "done"
    BY <1>5
  <2> QED BY <1>3, <2>1, ZenonT(60) DEF WalkWell, IsOwn
<1>14. \A m \in DOMAIN q.services : v.state[m] = "done" => \E got \in Takings : IsFolded(q, v, m, got)
  <2>1. \A m \in DOMAIN q.services : v.state[m] = "done" => w.state[m] = "done"
    BY <1>5
  <2> QED BY <1>9, <2>1, Zenon DEF WalkWell
<1> QED BY <1>4, <1>6, <1>10, <1>11, <1>12, <1>13, <1>14, Zenon DEF WalkWell

\* The last of the path, and the path with the last one further.
LEMMA TopOfThePath ==
  ASSUME NEW q, NEW w \in Walks(q), w.stack # <<>>, NEW got \in Takings
  PROVE  LET k == Len(w.stack)
             past == [w.stack EXCEPT ![k] = [name |-> @.name, at |-> @.at + 1, got |-> got]]
         IN /\ k \in Nat /\ k \in 1..k /\ DOMAIN w.stack = 1..k /\ Last(w.stack) = w.stack[k]
            /\ \A i \in 1..k : w.stack[i] \in Frames(q)
            /\ past \in Seq(Frames(q)) /\ DOMAIN past = 1..k
            /\ \A i \in 1..k : i # k => past[i] = w.stack[i]
            /\ past[k] = [name |-> Last(w.stack).name, at |-> Last(w.stack).at + 1, got |-> got]
<1> DEFINE k == Len(w.stack)
           further == [name |-> w.stack[k].name, at |-> w.stack[k].at + 1, got |-> got]
           past == [w.stack EXCEPT ![k] = further]
<1>1. w.stack \in Seq(Frames(q)) /\ k \in Nat /\ k \in 1..k /\ DOMAIN w.stack = 1..k /\ Last(w.stack) = w.stack[k]
  BY DEF Walks, Last
<1>2. \A i \in 1..k : w.stack[i] \in Frames(q)
  BY <1>1
<1>3. w.stack[k] \in Frames(q)
  BY <1>1, <1>2
<1>4. further = [name |-> w.stack[k].name, at |-> w.stack[k].at + 1, got |-> got] /\ further \in Frames(q)
  BY <1>3 DEF Frames
<1> HIDE DEF further
<1>5. past \in Seq(Frames(q)) /\ DOMAIN past = 1..k /\ past[k] = further /\ \A i \in 1..k : i # k => past[i] = w.stack[i]
  BY <1>1, <1>2, <1>4
<1> QED BY <1>1, <1>2, <1>4, <1>5 DEF further

\* The last of the path is one further, with what it has gathered by then.
LEMMA PastKeeps ==
  ASSUME NEW q, IsLending(q), NEW w, WalkWell(q, w), w.stack # <<>>, NEW got \in Takings, NEW v \in Walks(q),
         Last(w.stack).at < Len(q.services[Last(w.stack).name].from),
         v.stack = [w.stack EXCEPT ![Len(w.stack)] = [name |-> @.name, at |-> @.at + 1, got |-> got]],
         v.state = w.state, v.volumes = w.volumes, v.nocopy = w.nocopy, v.part = w.part,
         \A n \in DOMAIN q.services : w.deps[n] \subseteq v.deps[n],
         Gathered(q, v, Last(w.stack).name, Last(w.stack).at + 1, got)
  PROVE  WalkWell(q, v)
<1> DEFINE k == Len(w.stack)
           top == Last(w.stack)
<1>1. w \in Walks(q)
  BY Zenon DEF WalkWell
<1>2. /\ k \in Nat /\ k \in 1..k /\ DOMAIN w.stack = 1..k /\ top = w.stack[k]
      /\ \A i \in 1..k : w.stack[i] \in Frames(q)
      /\ DOMAIN v.stack = 1..k /\ \A i \in 1..k : i # k => v.stack[i] = w.stack[i]
      /\ v.stack[k] = [name |-> top.name, at |-> top.at + 1, got |-> got]
  BY <1>1, TopOfThePath
<1>3. /\ \A f \in Frames(q) : IsWalked(q, w, f) /\ v.state[f.name] = "visiting" => IsWalked(q, v, f)
      /\ \A m \in DOMAIN q.services, g \in Takings : w.state[m] = "done" /\ IsFolded(q, w, m, g) => IsFolded(q, v, m, g)
  <2>1. \A m \in DOMAIN q.services : w.state[m] = "done" =>
          v.state[m] = "done" /\ v.volumes[m] = w.volumes[m] /\ v.nocopy[m] = w.nocopy[m] /\ v.part[m] = w.part[m]
    OBVIOUS
  <2> QED BY <1>1, <2>1, OthersStay, Zenon
<1>4. v.stack[k].name = top.name /\ v.stack[k].at = top.at + 1 /\ v.stack[k].got = got
  BY <1>2
<1> HIDE DEF k, top
<1>5. \A i \in 1..k : v.stack[i].name = w.stack[i].name
  BY <1>2, <1>4, Zenon
<1>6. \A i \in 1..k : IsWalked(q, v, v.stack[i])
  <2> TAKE i \in 1..k
  <2>1. IsWalked(q, w, w.stack[i])
    BY <1>2, Zenon DEF WalkWell
  <2>2. CASE i # k
    <3>1. v.state[w.stack[i].name] = "visiting"
      BY <2>1, Zenon DEF IsWalked
    <3> QED BY <1>2, <1>3, <2>1, <2>2, <3>1, Zenon
  <2>3. CASE i = k
    <3>1. top.at \in Nat /\ top.name \in DOMAIN q.services
      BY <1>2, Zenon DEF Frames
    <3>2. Len(q.services[top.name].from) \in Nat
      BY <3>1, LengthsAreNat, Zenon
    <3>3. top.at + 1 <= Len(q.services[top.name].from)
      BY <3>1, <3>2 DEF top
    <3>4. w.state[top.name] = "visiting"
      BY <1>2, <2>1, <2>3, Zenon DEF IsWalked
    <3>5. Gathered(q, v, top.name, top.at + 1, got)
      BY DEF top
    <3> QED BY <1>4, <2>3, <3>3, <3>4, <3>5, Zenon DEF IsWalked
  <2> QED BY <2>2, <2>3
<1>7. IsPath(q, v.stack)
  <2>1. IsPath(q, w.stack)
    BY Zenon DEF WalkWell
  <2> SUFFICES ASSUME NEW i \in 1..k, NEW j \in 1..k, i < j
               PROVE  v.stack[i].name # v.stack[j].name /\ v.stack[j].name \in LendersOf(q, Lenders(q, v.stack[i].name))
    BY <1>2, Zenon DEF IsPath
  <2>2. w.stack[i].name # w.stack[j].name /\ w.stack[j].name \in LendersOf(q, Lenders(q, w.stack[i].name))
    BY <1>2, <2>1, Zenon DEF IsPath
  <2> QED BY <1>5, <2>2, Zenon
<1>8. \A n \in DOMAIN q.services : v.state[n] = "visiting" => \E i \in DOMAIN v.stack : v.stack[i].name = n
  <2> SUFFICES ASSUME NEW n \in DOMAIN q.services, w.state[n] = "visiting" PROVE \E i \in 1..k : v.stack[i].name = n
    BY <1>2, Zenon
  <2>1. \E i \in 1..k : w.stack[i].name = n
    BY <1>2, Zenon DEF WalkWell
  <2> QED BY <1>5, <2>1, Zenon
<1>9. \A n \in DOMAIN q.services : v.state[n] # "done" => IsOwn(q, v, n)
  BY ZenonT(60) DEF WalkWell, IsOwn
<1>10. \A n \in DOMAIN q.services : v.state[n] = "done" => \E g \in Takings : IsFolded(q, v, n, g)
  BY <1>3, Zenon DEF WalkWell
<1> QED BY <1>2, <1>6, <1>7, <1>8, <1>9, <1>10, Zenon DEF WalkWell

\* Whoever leads to one that is still walked, leads to itself.
LEMMA StillWalkedIsACycle ==
  ASSUME NEW q, NEW w, WalkWell(q, w), w.stack # <<>>, NEW h \in Lenders(q, Last(w.stack).name),
         h \in DOMAIN q.services, w.state[h] = "visiting", MeetsNoCycle(q, Last(w.stack).name)
  PROVE  FALSE
<1> DEFINE k == Len(w.stack)
           top == Last(w.stack)
           n == top.name
<1>1. k \in Nat /\ k \in 1..k /\ DOMAIN w.stack = 1..k /\ top = w.stack[k] /\ top \in Frames(q)
  BY DEF WalkWell, Walks, Last
<1>2. n \in DOMAIN q.services
  BY <1>1 DEF Frames
<1>3. PICK i \in 1..k : w.stack[i].name = h
  BY <1>1, Zenon DEF WalkWell
<1> HIDE DEF k, top
<1>4. Lenders(q, h) \subseteq DOMAIN q.services
  BY DEF Lenders, Lends
<1>5. /\ Lenders(q, h) \subseteq LendersOf(q, Lenders(q, h))
      /\ \A m \in LendersOf(q, Lenders(q, h)) : Lenders(q, m) \subseteq LendersOf(q, Lenders(q, h))
  BY <1>4, LendersAreClosed
<1>6. h \in Lenders(q, n)
  BY DEF top
<1>7. InACycle(q, h)
  <2>1. CASE i = k
    <3>1. h = n
      BY <1>1, <1>3, <2>1
    <3> QED BY <1>5, <1>6, <3>1, Zenon DEF InACycle
  <2>2. CASE i # k
    <3>1. i < k
      BY <1>1, <2>2
    <3>2. n \in LendersOf(q, Lenders(q, h))
      BY <1>1, <1>3, <3>1, Zenon DEF WalkWell, IsPath
    <3> QED BY <1>5, <1>6, <3>2, Zenon DEF InACycle
  <2> QED BY <2>1, <2>2
<1>8. h \in LendersOf(q, {n})
  <2>1. {n} \subseteq LendersOf(q, {n}) /\ \A m \in LendersOf(q, {n}) : Lenders(q, m) \subseteq LendersOf(q, {n})
    <3>1. {n} \subseteq DOMAIN q.services
      BY <1>2
    <3> HIDE DEF n
    <3> QED BY <3>1, LendersAreClosed
  <2> QED BY <1>6, <2>1
<1>9. MeetsNoCycle(q, n)
  BY DEF top
<1> QED BY <1>7, <1>8, <1>9, Zenon DEF MeetsNoCycle

\* A function with one value changed has that value there, and its own elsewhere.
LEMMA ChangedIs ==
  ASSUME NEW D, NEW S, NEW f \in [D -> S], NEW d \in D, NEW s
  PROVE  \A m \in D : [f EXCEPT ![d] = s][m] = IF m = d THEN s ELSE f[m]
  OBVIOUS

\* The last of the path is done, with its own mounts over what it has gathered.
LEMMA FoldKeeps ==
  ASSUME NEW q, IsLending(q), NEW w, WalkWell(q, w), w.stack # <<>>,
         NEW n, n = Last(w.stack).name, NEW got, got = Last(w.stack).got,
         Last(w.stack).at = Len(q.services[n].from),
         NEW v, v = [w EXCEPT !.stack = Front(@), !.state[n] = "done", !.volumes[n] = FoldedMounts(q.services[n], got),
                              !.nocopy[n] = @ \cup got.nocopy, !.part[n] = @ \cup got.part]
  PROVE  WalkWell(q, v)
<1> DEFINE k == Len(w.stack)
           top == Last(w.stack)
           svc == q.services[n]
<1>1. w \in Walks(q) /\ w.stack \in Seq(Frames(q)) /\ k \in Nat /\ k \in 1..k /\ DOMAIN w.stack = 1..k /\ top = w.stack[k]
      /\ \A i \in 1..k : w.stack[i] \in Frames(q)
  <2>1. w \in Walks(q)
    BY Zenon DEF WalkWell
  <2>2. w.stack \in Seq(Frames(q)) /\ w.stack # <<>>
    BY <2>1 DEF Walks
  <2>3. k \in Nat /\ k \in 1..k /\ DOMAIN w.stack = 1..k /\ top = w.stack[k]
    BY ONLY <2>2, LastAndFront
  <2>4. \A i \in 1..k : w.stack[i] \in Frames(q)
    BY ONLY <2>2
  <2> QED BY ONLY <2>1, <2>2, <2>3, <2>4
<1>2. n \in DOMAIN q.services /\ got \in Takings /\ IsWalked(q, w, top)
  <2>1. top \in Frames(q) /\ IsWalked(q, w, top)
    BY <1>1, Zenon DEF WalkWell
  <2> QED BY <2>1 DEF Frames
<1>3. /\ w.state \in [DOMAIN q.services -> {"new", "visiting", "done"}]
      /\ w.volumes \in [DOMAIN q.services -> [Paths -> Seq(Sources)]] /\ w.nocopy \in [DOMAIN q.services -> SUBSET Paths]
      /\ w.part \in [DOMAIN q.services -> SUBSET Paths] /\ w.deps \in [DOMAIN q.services -> SUBSET DOMAIN q.services]
  BY <1>1, Zenon DEF Walks
<1>4. /\ v.stack = Front(w.stack) /\ v.state = [w.state EXCEPT ![n] = "done"]
      /\ v.volumes = [w.volumes EXCEPT ![n] = FoldedMounts(svc, got)]
      /\ v.nocopy = [w.nocopy EXCEPT ![n] = @ \cup got.nocopy] /\ v.part = [w.part EXCEPT ![n] = @ \cup got.part]
      /\ v.deps = w.deps
      /\ v = [stack |-> v.stack, state |-> v.state, volumes |-> v.volumes, nocopy |-> v.nocopy, part |-> v.part, deps |-> v.deps]
  BY <1>1, Zenon DEF Walks
<1>5. \A m \in DOMAIN q.services :
        IF m = n THEN /\ v.state[m] = "done" /\ v.volumes[m] = FoldedMounts(svc, got)
                      /\ v.nocopy[m] = w.nocopy[m] \cup got.nocopy /\ v.part[m] = w.part[m] \cup got.part
        ELSE v.state[m] = w.state[m] /\ v.volumes[m] = w.volumes[m] /\ v.nocopy[m] = w.nocopy[m] /\ v.part[m] = w.part[m]
  <2> DEFINE own == FoldedMounts(svc, got)
             ncp == w.nocopy[n] \cup got.nocopy
             prt == w.part[n] \cup got.part
  <2>1. n \in DOMAIN q.services
    BY <1>2, Zenon
  <2>2. \A m \in DOMAIN q.services : v.state[m] = IF m = n THEN "done" ELSE w.state[m]
    <3>1. v.state = [w.state EXCEPT ![n] = "done"] /\ w.state \in [DOMAIN q.services -> {"new", "visiting", "done"}]
      BY <1>3, <1>4, Zenon
    <3>2. \A m \in DOMAIN q.services : [w.state EXCEPT ![n] = "done"][m] = IF m = n THEN "done" ELSE w.state[m]
      BY ONLY <2>1, <3>1, ChangedIs, Zenon
    <3> QED BY ONLY <3>1, <3>2, Zenon
  <2>3. \A m \in DOMAIN q.services : v.volumes[m] = IF m = n THEN own ELSE w.volumes[m]
    <3>1. v.volumes = [w.volumes EXCEPT ![n] = own] /\ w.volumes \in [DOMAIN q.services -> [Paths -> Seq(Sources)]]
      BY <1>3, <1>4, Zenon
    <3> HIDE DEF own
    <3>2. \A m \in DOMAIN q.services : [w.volumes EXCEPT ![n] = own][m] = IF m = n THEN own ELSE w.volumes[m]
      BY ONLY <2>1, <3>1, ChangedIs, Zenon
    <3> QED BY ONLY <3>1, <3>2, Zenon
  <2>4. \A m \in DOMAIN q.services : v.nocopy[m] = IF m = n THEN ncp ELSE w.nocopy[m]
    <3>1. v.nocopy = [w.nocopy EXCEPT ![n] = ncp] /\ w.nocopy \in [DOMAIN q.services -> SUBSET Paths]
      BY <1>3, <1>4, Zenon
    <3> HIDE DEF ncp
    <3>2. \A m \in DOMAIN q.services : [w.nocopy EXCEPT ![n] = ncp][m] = IF m = n THEN ncp ELSE w.nocopy[m]
      BY ONLY <2>1, <3>1, ChangedIs, Zenon
    <3> QED BY ONLY <3>1, <3>2, Zenon
  <2>5. \A m \in DOMAIN q.services : v.part[m] = IF m = n THEN prt ELSE w.part[m]
    <3>1. v.part = [w.part EXCEPT ![n] = prt] /\ w.part \in [DOMAIN q.services -> SUBSET Paths]
      BY <1>3, <1>4, Zenon
    <3> HIDE DEF prt
    <3>2. \A m \in DOMAIN q.services : [w.part EXCEPT ![n] = prt][m] = IF m = n THEN prt ELSE w.part[m]
      BY ONLY <2>1, <3>1, ChangedIs, Zenon
    <3> QED BY ONLY <3>1, <3>2, Zenon
  <2> QED BY ONLY <2>2, <2>3, <2>4, <2>5
<1>f. /\ v.stack = Front(w.stack) /\ Front(w.stack) \in Seq(Frames(q)) /\ DOMAIN Front(w.stack) = 1..(k - 1)
      /\ \A i \in 1..(k - 1) : Front(w.stack)[i] = w.stack[i]
  <2>1. v.stack = Front(w.stack) /\ w.stack \in Seq(Frames(q)) /\ w.stack # <<>>
    BY <1>1, <1>4, Zenon
  <2> QED BY ONLY <2>1, LastAndFront, Zenon
<1>6. v \in Walks(q)
  <2>1. v.stack \in Seq(Frames(q))
    BY ONLY <1>f, Zenon
  <2>2. FoldedMounts(svc, got) \in [Paths -> Seq(Sources)]
    <3>1. svc.own \in [Paths -> Seq(Sources)]
      BY <1>2, Zenon DEF IsLending
    <3>2. got.mounts \in [Paths -> Seq(Sources)]
      BY <1>2 DEF Takings
    <3>3. \A s \in Seq(Sources) : s # <<>> => <<Last(s)>> \in Seq(Sources)
      BY DEF Last
    <3>4. \A t \in Paths : (IF svc.own[t] # <<>> THEN <<Last(svc.own[t])>> ELSE got.mounts[t]) \in Seq(Sources)
      BY <3>1, <3>2, <3>3, Zenon
    <3>5. [t \in Paths |-> IF svc.own[t] # <<>> THEN <<Last(svc.own[t])>> ELSE got.mounts[t]] \in [Paths -> Seq(Sources)]
      BY ONLY <3>4
    <3> QED BY <3>1, <3>5, Zenon DEF FoldedMounts
  <2>3. got.nocopy \in SUBSET Paths /\ got.part \in SUBSET Paths
    BY <1>2 DEF Takings
  <2>4. v.state \in [DOMAIN q.services -> {"new", "visiting", "done"}]
    <3>1. v.state = [w.state EXCEPT ![n] = "done"] /\ w.state \in [DOMAIN q.services -> {"new", "visiting", "done"}]
      BY <1>3, <1>4, Zenon
    <3> QED BY ONLY <3>1
  <2>5. v.volumes \in [DOMAIN q.services -> [Paths -> Seq(Sources)]]
    <3>1. /\ v.volumes = [w.volumes EXCEPT ![n] = FoldedMounts(svc, got)]
          /\ w.volumes \in [DOMAIN q.services -> [Paths -> Seq(Sources)]]
      BY <1>3, <1>4, Zenon
    <3> QED BY ONLY <2>2, <3>1
  <2>6. v.nocopy \in [DOMAIN q.services -> SUBSET Paths] /\ v.part \in [DOMAIN q.services -> SUBSET Paths]
    <3>1. /\ v.nocopy = [w.nocopy EXCEPT ![n] = @ \cup got.nocopy] /\ v.part = [w.part EXCEPT ![n] = @ \cup got.part]
          /\ w.nocopy \in [DOMAIN q.services -> SUBSET Paths] /\ w.part \in [DOMAIN q.services -> SUBSET Paths]
      BY <1>3, <1>4, Zenon
    <3>2. w.nocopy[n] \in SUBSET Paths /\ w.part[n] \in SUBSET Paths
      BY <1>2, <3>1, Zenon
    <3>3. w.nocopy[n] \cup got.nocopy \in SUBSET Paths /\ w.part[n] \cup got.part \in SUBSET Paths
      BY ONLY <2>3, <3>2
    <3>4. [w.nocopy EXCEPT ![n] = w.nocopy[n] \cup got.nocopy] \in [DOMAIN q.services -> SUBSET Paths]
      <4>1. w.nocopy \in [DOMAIN q.services -> SUBSET Paths] /\ w.nocopy[n] \cup got.nocopy \in SUBSET Paths
        BY <3>1, <3>3, Zenon
      <4> QED BY ONLY <4>1, ChangedIsWell
    <3>5. [w.part EXCEPT ![n] = w.part[n] \cup got.part] \in [DOMAIN q.services -> SUBSET Paths]
      <4>1. w.part \in [DOMAIN q.services -> SUBSET Paths] /\ w.part[n] \cup got.part \in SUBSET Paths
        BY <3>1, <3>3, Zenon
      <4> QED BY ONLY <4>1, ChangedIsWell
    <3> QED BY ONLY <3>1, <3>4, <3>5, Zenon
  <2>7. /\ v = [stack |-> v.stack, state |-> v.state, volumes |-> v.volumes, nocopy |-> v.nocopy, part |-> v.part, deps |-> v.deps]
        /\ v.deps \in [DOMAIN q.services -> SUBSET DOMAIN q.services]
    BY <1>3, <1>4, Zenon
  <2> QED BY ONLY <2>1, <2>4, <2>5, <2>6, <2>7, MadeOfParts, ZenonT(40)
<1>7. /\ DOMAIN v.stack = 1..(k - 1) /\ \A i \in 1..(k - 1) : v.stack[i] = w.stack[i]
  BY ONLY <1>f, Zenon
<1>8. w.state[n] = "visiting" /\ Gathered(q, w, n, Len(svc.from), got)
  BY <1>2, Zenon DEF IsWalked
<1>9. /\ \A f \in Frames(q) : IsWalked(q, w, f) /\ v.state[f.name] = "visiting" => IsWalked(q, v, f)
      /\ \A m \in DOMAIN q.services, g \in Takings : w.state[m] = "done" /\ IsFolded(q, w, m, g) => IsFolded(q, v, m, g)
  <2>1. \A m \in DOMAIN q.services : w.state[m] = "done" =>
          v.state[m] = "done" /\ v.volumes[m] = w.volumes[m] /\ v.nocopy[m] = w.nocopy[m] /\ v.part[m] = w.part[m]
    BY <1>5, <1>8, Zenon
  <2>2. \A m \in DOMAIN q.services : w.deps[m] \subseteq v.deps[m]
    BY <1>4, Zenon
  <2>3. w \in Walks(q) /\ IsLending(q)
    BY <1>1, Zenon
  <2> QED BY ONLY <1>6, <2>1, <2>2, <2>3, OthersStay, Zenon
<1> HIDE DEF k, top, svc
<1>10. \A i \in 1..(k - 1) : i \in 1..k /\ i < k
  BY <1>1
<1>11. \A i \in 1..(k - 1) : w.stack[i].name # n
  <2> TAKE i \in 1..(k - 1)
  <2>1. w.stack[k].name = n
    BY <1>1, Zenon DEF top
  <2>2. i \in 1..k /\ i < k /\ k \in 1..k
    BY <1>1, <1>10
  <2>3. IsPath(q, w.stack)
    BY DEF WalkWell
  <2> QED BY <1>1, <2>1, <2>2, <2>3, Zenon DEF IsPath
<1>12. \A i \in DOMAIN v.stack : IsWalked(q, v, v.stack[i])
  <2> SUFFICES ASSUME NEW i \in 1..(k - 1) PROVE IsWalked(q, v, w.stack[i])
    BY <1>7, Zenon
  <2>1. IsWalked(q, w, w.stack[i]) /\ w.stack[i] \in Frames(q)
    BY <1>1, <1>10, Zenon DEF WalkWell
  <2>2. w.stack[i].name \in DOMAIN q.services
    BY <2>1 DEF Frames
  <2>3. v.state[w.stack[i].name] = "visiting"
    BY <1>5, <1>11, <2>1, <2>2, Zenon DEF IsWalked
  <2> QED BY <1>9, <2>1, <2>3, Zenon
<1>13. IsPath(q, v.stack)
  <2>1. IsPath(q, w.stack)
    BY DEF WalkWell
  <2> SUFFICES ASSUME NEW i \in 1..(k - 1), NEW j \in 1..(k - 1), i < j
               PROVE  v.stack[i].name # v.stack[j].name /\ v.stack[j].name \in LendersOf(q, Lenders(q, v.stack[i].name))
    BY <1>7, Zenon DEF IsPath
  <2>2. w.stack[i].name # w.stack[j].name /\ w.stack[j].name \in LendersOf(q, Lenders(q, w.stack[i].name))
    BY <1>1, <1>10, <2>1, Zenon DEF IsPath
  <2> QED BY <1>7, <2>2, Zenon
<1>14. \A m \in DOMAIN q.services : v.state[m] = "visiting" => \E i \in DOMAIN v.stack : v.stack[i].name = m
  <2> SUFFICES ASSUME NEW m \in DOMAIN q.services, v.state[m] = "visiting" PROVE \E i \in 1..(k - 1) : w.stack[i].name = m
    BY <1>7, ZenonT(60)
  <2>1. m # n /\ w.state[m] = "visiting"
    BY <1>5, Zenon
  <2>2. PICK i \in 1..k : w.stack[i].name = m
    BY <1>1, <2>1, Zenon DEF WalkWell
  <2>3. i # k
    BY <1>1, <2>1, <2>2, Zenon DEF top
  <2>4. i \in 1..(k - 1)
    BY <1>1, <2>3
  <2> QED BY <2>2, <2>4
<1>15. \A m \in DOMAIN q.services : v.state[m] # "done" => IsOwn(q, v, m)
  <2> SUFFICES ASSUME NEW m \in DOMAIN q.services, v.state[m] # "done" PROVE IsOwn(q, v, m)
    OBVIOUS
  <2>1. m # n
    BY <1>5, Zenon
  <2>2. IsOwn(q, w, m)
    BY <1>5, <2>1, Zenon DEF WalkWell
  <2> QED BY <1>5, <2>1, <2>2, Zenon DEF IsOwn
<1>16. \A m \in DOMAIN q.services : v.state[m] = "done" => \E g \in Takings : IsFolded(q, v, m, g)
  <2> SUFFICES ASSUME NEW m \in DOMAIN q.services, v.state[m] = "done" PROVE \E g \in Takings : IsFolded(q, v, m, g)
    OBVIOUS
  <2>1. CASE m # n
    <3>1. w.state[m] = "done"
      BY <1>5, <2>1, Zenon
    <3> QED BY <1>9, <3>1, Zenon DEF WalkWell
  <2>2. CASE m = n
    <3>1. IsOwn(q, w, n)
      BY <1>2, <1>8, Zenon DEF WalkWell
    <3>2. Len(svc.from) \in Nat
      BY <1>2, LengthsAreNat, Zenon DEF svc
    <3>3. \A l \in DOMAIN q.services : w.state[l] = "done" =>
          v.state[l] = "done" /\ v.volumes[l] = w.volumes[l] /\ v.nocopy[l] = w.nocopy[l] /\ v.part[l] = w.part[l]
      BY <1>5, <1>8, Zenon
    <3>4. w.deps[n] \subseteq v.deps[n]
      BY <1>4, Zenon
    <3>5. Gathered(q, v, n, Len(svc.from), got)
      BY ONLY <1>8, <3>2, <3>3, <3>4, GatheredStays, Zenon
    <3>6. v.volumes[n] = FoldedMounts(svc, got) /\ v.nocopy[n] = w.nocopy[n] \cup got.nocopy /\ v.part[n] = w.part[n] \cup got.part
      BY <1>2, <1>5, Zenon
    <3>7. w.nocopy[n] = svc.nocopy /\ w.part[n] = svc.part
      BY <3>1, Zenon DEF IsOwn, svc
    <3>8. IsFolded(q, v, n, got)
      BY <3>5, <3>6, <3>7, Zenon DEF IsFolded, svc
    <3> QED BY <1>2, <2>2, <3>8
  <2> QED BY <2>1, <2>2
<1> QED BY <1>6, <1>12, <1>13, <1>14, <1>15, <1>16, Zenon DEF WalkWell

\* A service that is done, that no cycle runs through, and that is told of what it borrows
\* badly or lends, has at each path what it writes there or borrows.
LEMMA DoneIsAsWritten ==
  ASSUME NEW q, IsLending(q), NEW w, WalkWell(q, w), NEW n \in DOMAIN q.services, w.state[n] = "done", MeetsNoCycle(q, n),
         IsHolder(q, n) \/ ~VolumesFromFault(q, w, n)
  PROVE  /\ Lenders(q, n) \subseteq w.deps[n]
         /\ \A t \in Paths : HasAsWritten(q, w, n, t)
<1> DEFINE svc == q.services[n]
           refs == svc.from
           k == Len(refs)
<1>1. PICK got \in Takings : IsFolded(q, w, n, got)
  BY Zenon DEF WalkWell
<1>2. k \in Nat /\ DOMAIN refs = 1..k /\ \A i \in 1..k : refs[i] \in ToSet(refs)
  BY LengthsAreNat, Zenon
<1>3. \A ref \in ToSet(refs) : \E i \in 1..k : refs[i] = ref
  BY <1>2, Zenon DEF ToSet
<1>4. Gathered(q, w, n, k, got) /\ HoldersAreDone(q, w, n, k)
  BY <1>1, Zenon DEF IsFolded, Gathered
<1>5. w.volumes \in [DOMAIN q.services -> [Paths -> Seq(Sources)]]
  BY DEF WalkWell, Walks
<1>6. ASSUME NEW i \in 1..k, Lends(q, refs[i]) PROVE ~SharesAnonymous(q, w, n, refs[i].to)
  <2>1. CASE IsHolder(q, n)
    BY <1>4, <1>6, <2>1, Zenon DEF HoldersAreDone, PutsOff
  <2>2. CASE ~VolumesFromFault(q, w, n)
    BY <1>2, <2>2, Zenon DEF VolumesFromFault
  <2> QED BY <2>1, <2>2, Zenon
<1>7. Lenders(q, n) \subseteq w.deps[n]
  <2> SUFFICES ASSUME NEW ref \in ToSet(refs), Lends(q, ref) PROVE ref.to \in w.deps[n]
    BY Zenon DEF Lenders
  <2>1. PICK i \in 1..k : refs[i] = ref
    BY <1>3
  <2> QED BY <1>4, <2>1, Zenon DEF Gathered
<1>8. ASSUME NEW t \in Paths PROVE HasAsWritten(q, w, n, t)
  <2> DEFINE lent == {i \in DOMAIN svc.from : Lends(q, svc.from[i]) /\ w.volumes[svc.from[i].to][t] # <<>>}
             holder == svc.from[Max(lent)].to
  <2>1. svc.own \in [Paths -> Seq(Sources)] /\ (svc.own[t] = <<>> => t \notin svc.nocopy /\ t \notin svc.part)
    BY Zenon DEF IsLending
  <2>2. w.volumes[n][t] = IF refs = <<>> THEN svc.own[t] ELSE IF svc.own[t] # <<>> THEN <<Last(svc.own[t])>> ELSE got.mounts[t]
    BY <1>1 DEF IsFolded, FoldedMounts
  <2>3. w.nocopy[n] = svc.nocopy \cup got.nocopy /\ w.part[n] = svc.part \cup got.part
    BY <1>1 DEF IsFolded
  <2>4. t \notin OpenPaths(q, n) => got.mounts[t] = <<>> /\ t \notin got.nocopy /\ t \notin got.part
    BY <1>4, Zenon DEF Gathered
  <2>5. t \in OpenPaths(q, n) <=> svc.own[t] = <<>> /\ t \notin svc.tmpfs
    BY DEF OpenPaths
  <2>6. \A s : Last(<<s>>) = s /\ <<s>> # <<>>
    BY DEF Last
  <2>7. CASE svc.own[t] # <<>>
    <3>1. w.volumes[n][t] # <<>> /\ Last(w.volumes[n][t]) = Last(svc.own[t])
      BY <2>2, <2>6, <2>7, Zenon
    <3>2. (t \in w.nocopy[n] <=> t \in svc.nocopy) /\ (t \in w.part[n] <=> t \in svc.part)
      BY <2>3, <2>4, <2>5, <2>7
    <3> QED BY <2>7, <3>1, <3>2, Zenon DEF HasAsWritten
  <2>8. CASE svc.own[t] = <<>> /\ t \in svc.tmpfs
    <3>1. w.volumes[n][t] = <<>>
      BY <2>2, <2>4, <2>5, <2>8
    <3> QED BY <2>8, <3>1, Zenon DEF HasAsWritten
  <2>9. CASE t \in OpenPaths(q, n)
    <3>1. \A i \in 1..k : Lends(q, refs[i]) =>
            LastNamed(w.volumes[refs[i].to][t]) =
              IF w.volumes[refs[i].to][t] = <<>> THEN <<>> ELSE <<Last(w.volumes[refs[i].to][t])>>
      <4> SUFFICES ASSUME NEW i \in 1..k, Lends(q, refs[i])
                   PROVE  LastNamed(w.volumes[refs[i].to][t]) =
                            IF w.volumes[refs[i].to][t] = <<>> THEN <<>> ELSE <<Last(w.volumes[refs[i].to][t])>>
        BY Zenon
      <4>1. w.volumes[refs[i].to][t] \in Seq(Sources)
        BY <1>5, Zenon DEF Lends
      <4>2. Anonymous \notin ToSet(w.volumes[refs[i].to][t])
        BY <1>6, <2>9, Zenon DEF SharesAnonymous
      <4> QED BY <4>1, <4>2, LastIsNamed, Zenon
    <3>2. LentBy(q, w, n, k, t) = lent
      <4>1. \A i \in 1..k : Lends(q, refs[i]) =>
              (LastNamed(w.volumes[refs[i].to][t]) # <<>> <=> w.volumes[refs[i].to][t] # <<>>)
        BY <2>6, <3>1, Zenon
      <4> DEFINE LendsNamed(i) == Lends(q, refs[i]) /\ LastNamed(w.volumes[refs[i].to][t]) # <<>>
                 LendsAny(i) == Lends(q, refs[i]) /\ w.volumes[refs[i].to][t] # <<>>
      <4>2. \A i \in 1..k : LendsNamed(i) <=> LendsAny(i)
        BY <4>1, Zenon
      <4>3. LentBy(q, w, n, k, t) = {i \in 1..k : LendsNamed(i)}
        BY Zenon DEF LentBy
      <4>4. lent = {i \in 1..k : LendsAny(i)}
        BY <1>2, Zenon
      <4> HIDE DEF LendsNamed, LendsAny, lent, k
      <4> QED BY ONLY <4>2, <4>3, <4>4
    <3>3. IsAsLent(q, w, n, k, t, got)
      BY <1>4, <2>9, Zenon DEF Gathered
    <3>4. lent \in SUBSET (1..k)
      BY <1>2, Zenon
    <3>5. lent # {} => Max(lent) \in lent
      <4> HIDE DEF lent
      <4> QED BY <1>2, <3>4, GreatestIsLast
    <3>6. \A i \in lent : i \in 1..k /\ Lends(q, refs[i]) /\ w.volumes[refs[i].to][t] # <<>>
      BY <1>2, Zenon
    <3>7. svc.own[t] = <<>> /\ t \notin svc.tmpfs
      BY <2>5, <2>9
    <3>8. CASE lent = {}
      <4>1. got.mounts[t] = <<>>
        BY <3>2, <3>3, <3>8, Zenon DEF IsAsLent
      <4>2. w.volumes[n][t] = <<>>
        BY <2>2, <3>7, <4>1
      <4> QED BY <3>7, <3>8, <4>2, Zenon DEF HasAsWritten
    <3>9. CASE lent # {}
      <4>1. /\ got.mounts[t] = LastNamed(w.volumes[holder][t])
            /\ (t \in got.nocopy <=> t \in w.nocopy[holder]) /\ (t \in got.part <=> t \in w.part[holder])
        BY <3>2, <3>3, <3>9, ZenonT(40) DEF IsAsLent
      <4>2. LastNamed(w.volumes[holder][t]) = <<Last(w.volumes[holder][t])>>
        <5> HIDE DEF lent
        <5>1. Max(lent) \in 1..k /\ Lends(q, refs[Max(lent)]) /\ w.volumes[refs[Max(lent)].to][t] # <<>>
          BY <3>5, <3>6, <3>9, Zenon
        <5>2. LastNamed(w.volumes[refs[Max(lent)].to][t])
                = IF w.volumes[refs[Max(lent)].to][t] = <<>> THEN <<>> ELSE <<Last(w.volumes[refs[Max(lent)].to][t])>>
          BY <3>1, <5>1, Zenon
        <5> QED BY <5>1, <5>2, Zenon
      <4>3. refs # <<>>
        <5> HIDE DEF lent
        <5>1. \E i \in 1..k : TRUE
          BY <3>4, <3>9, Zenon
        <5> HIDE DEF k
        <5>2. k # 0
          BY ONLY <1>2, <5>1
        <5> QED BY ONLY <5>2 DEF k
      <4> HIDE DEF lent
      <4>4. w.volumes[n][t] # <<>> /\ Last(w.volumes[n][t]) = Last(w.volumes[holder][t])
        BY <2>2, <2>6, <3>7, <4>1, <4>2, <4>3
      <4>5. (t \in w.nocopy[n] <=> t \in w.nocopy[holder]) /\ (t \in w.part[n] <=> t \in w.part[holder])
        BY <2>1, <2>3, <3>7, <4>1, Zenon
      <4> QED BY <3>7, <3>9, <4>4, <4>5, Zenon DEF HasAsWritten, lent
    <3> QED BY <3>8, <3>9, Zenon
  <2> QED BY <2>5, <2>7, <2>8, <2>9
<1> QED BY <1>7, <1>8

\* The walk of any file starts well and every step of it leaves it so.
SharesInv == lending \in ShareQuestions /\ WalkWell(lending, shared)

\* A file as it is loaded.
LEMMA LoadedIsWell ==
  ASSUME NEW q, IsLending(q)
  PROVE  WalkWell(q, AsLoaded(q))
<1> DEFINE w == AsLoaded(q)
<1>1. /\ w.stack = <<>> /\ w.state = [n \in DOMAIN q.services |-> "new"]
      /\ w.volumes = [n \in DOMAIN q.services |-> q.services[n].own]
      /\ w.nocopy = [n \in DOMAIN q.services |-> q.services[n].nocopy]
      /\ w.part = [n \in DOMAIN q.services |-> q.services[n].part]
      /\ w.deps = [n \in DOMAIN q.services |-> {}]
      /\ w = [stack |-> w.stack, state |-> w.state, volumes |-> w.volumes, nocopy |-> w.nocopy, part |-> w.part, deps |-> w.deps]
  BY DEF AsLoaded
<1>2. \A n \in DOMAIN q.services : /\ q.services[n].own \in [Paths -> Seq(Sources)]
                                   /\ q.services[n].nocopy \in SUBSET Paths /\ q.services[n].part \in SUBSET Paths
  BY Zenon DEF IsLending
<1> HIDE DEF w
<1>3. w \in Walks(q)
  <2>1. w.stack \in Seq(Frames(q))
    BY <1>1
  <2> QED BY <1>1, <1>2, <2>1, ZenonT(60) DEF Walks
<1>4. \A n \in DOMAIN q.services : w.state[n] = "new" /\ IsOwn(q, w, n)
  BY <1>1, Zenon DEF IsOwn
<1>5. DOMAIN w.stack = {}
  BY <1>1
<1> QED BY <1>3, <1>4, <1>5 DEF WalkWell, IsPath, w

\* Entering, at the top of the file or by a reference.
LEMMA EnteringKeeps ==
  ASSUME SharesInv, NEW n \in DOMAIN lending.services, shared.state[n] = "new",
         shared.stack = <<>> \/ n \in Lenders(lending, Last(shared.stack).name), Enter(n)
  PROVE  SharesInv'
<1>1. lending \in ShareQuestions /\ IsLending(lending) /\ WalkWell(lending, shared)
  BY ShareQuestionsAssumption DEF SharesInv
<1>2. WalkWell(lending, shared')
  BY <1>1, EnterKeeps DEF Enter
<1>3. lending' = lending
  BY DEF Enter
<1> QED BY <1>1, <1>2, <1>3 DEF SharesInv

\* What is next to be borrowed from, and of whom.
LEMMA NextOfThePath ==
  ASSUME SharesInv, AtRef
  PROVE  LET top == Last(shared.stack) IN
         /\ lending \in ShareQuestions /\ IsLending(lending) /\ WalkWell(lending, shared) /\ shared \in Walks(lending)
         /\ shared.stack # <<>> /\ top.name \in DOMAIN lending.services /\ top.at \in Nat /\ top.got \in Takings
         /\ top.at < Len(lending.services[top.name].from) /\ NextRef = lending.services[top.name].from[top.at + 1]
         /\ Gathered(lending, shared, top.name, top.at, top.got)
         /\ Lends(lending, NextRef) => NextRef.to \in Lenders(lending, top.name) /\ NextRef.to \in DOMAIN lending.services
<1> DEFINE top == Last(shared.stack)
<1>1. lending \in ShareQuestions /\ IsLending(lending) /\ WalkWell(lending, shared) /\ shared \in Walks(lending)
  BY ShareQuestionsAssumption DEF SharesInv, WalkWell
<1>2. shared.stack # <<>> /\ top.at < Len(lending.services[top.name].from)
      /\ NextRef = lending.services[top.name].from[top.at + 1]
  BY DEF AtRef, Borrower, NextRef
<1>3. DOMAIN shared.stack = 1..Len(shared.stack) /\ Len(shared.stack) \in 1..Len(shared.stack)
      /\ top = shared.stack[Len(shared.stack)] /\ top \in Frames(lending)
  BY <1>1, <1>2 DEF Walks, Last
<1>4. top.name \in DOMAIN lending.services /\ top.at \in Nat /\ top.got \in Takings
  BY <1>3 DEF Frames
<1>5. Gathered(lending, shared, top.name, top.at, top.got)
  <2> HIDE DEF top
  <2> QED BY <1>1, <1>3, Zenon DEF WalkWell, IsWalked
<1>6. NextRef \in ToSet(lending.services[top.name].from)
  <2>1. /\ Len(lending.services[top.name].from) \in Nat
        /\ \A i \in 1..Len(lending.services[top.name].from) :
             lending.services[top.name].from[i] \in ToSet(lending.services[top.name].from)
    BY <1>1, <1>4, LengthsAreNat, Zenon
  <2>2. top.at + 1 \in 1..Len(lending.services[top.name].from)
    BY <1>2, <1>4, <2>1
  <2> QED BY <1>2, <2>1, <2>2, Zenon
<1>7. Lends(lending, NextRef) => NextRef.to \in Lenders(lending, top.name) /\ NextRef.to \in DOMAIN lending.services
  BY <1>6, Zenon DEF Lenders, Lends
<1> QED BY <1>1, <1>2, <1>4, <1>5, <1>7, Zenon

\* Every step of the walk leaves it well.
LEMMA SharesNextKeeps ==
  ASSUME SharesInv, [SharesNext]_lendVars
  PROVE  SharesInv'
<1> DEFINE top == Last(shared.stack)
<1>1. CASE ExpandsNext
  <2>1. IsLending(lending)
    BY ShareQuestionsAssumption DEF SharesInv
  <2>2. PICK i \in DOMAIN lending.names : shared.state[lending.names[i]] = "new" /\ Enter(lending.names[i])
    BY <1>1 DEF ExpandsNext
  <2>3. lending.names[i] \in DOMAIN lending.services
    BY <2>1 DEF IsLending
  <2>4. shared.stack = <<>>
    BY <1>1 DEF ExpandsNext
  <2> QED BY <2>2, <2>3, <2>4, EnteringKeeps
<1>2. CASE ExpandsHolder
  <2>1. AtRef /\ Lends(lending, NextRef) /\ shared.state[NextRef.to] = "new" /\ Enter(NextRef.to)
    BY <1>2 DEF ExpandsHolder
  <2>2. NextRef.to \in Lenders(lending, top.name) /\ NextRef.to \in DOMAIN lending.services
    BY <2>1, NextOfThePath, Zenon
  <2> QED BY <2>1, <2>2, EnteringKeeps
<1>3. CASE PassesRef
  <2>1. AtRef /\ ~Lends(lending, NextRef) /\ lending' = lending
        /\ (shared' = shared \/ shared' = [shared EXCEPT !.stack = PastRef(top.got)])
    BY <1>3 DEF PassesRef
  <2>2. CASE shared' = shared
    BY <2>1, <2>2 DEF SharesInv
  <2>3. CASE shared' = [shared EXCEPT !.stack = PastRef(top.got)]
    <3>1. /\ lending \in ShareQuestions /\ IsLending(lending) /\ WalkWell(lending, shared) /\ shared \in Walks(lending)
          /\ shared.stack # <<>> /\ top.name \in DOMAIN lending.services /\ top.at \in Nat /\ top.got \in Takings
          /\ top.at < Len(lending.services[top.name].from) /\ NextRef = lending.services[top.name].from[top.at + 1]
          /\ Gathered(lending, shared, top.name, top.at, top.got)
      BY <2>1, NextOfThePath, Zenon
    <3>2. PICK v : v = shared'
      OBVIOUS
    <3>3. /\ v.stack = PastRef(top.got) /\ v.state = shared.state /\ v.volumes = shared.volumes
          /\ v.nocopy = shared.nocopy /\ v.part = shared.part /\ v.deps = shared.deps
      BY <2>3, <3>1, <3>2, Zenon DEF Walks
    <3>4. PastRef(top.got) \in Seq(Frames(lending))
      BY <3>1, TopOfThePath, Zenon DEF PastRef
    <3>5. v \in Walks(lending)
      BY <2>3, <3>1, <3>2, <3>4, Zenon DEF Walks
    <3>6. Gathered(lending, shared, top.name, top.at + 1, top.got)
      BY <2>1, <3>1, GatheredPast, Zenon
    <3>7. Gathered(lending, v, top.name, top.at + 1, top.got)
      <4>1. \A m \in DOMAIN lending.services : shared.state[m] = "done" =>
              v.state[m] = "done" /\ v.volumes[m] = shared.volumes[m] /\ v.nocopy[m] = shared.nocopy[m] /\ v.part[m] = shared.part[m]
        BY <3>3
      <4>2. shared.deps[top.name] \subseteq v.deps[top.name] /\ top.at + 1 \in Nat
        BY <3>1, <3>3
      <4> HIDE DEF top
      <4> QED BY ONLY <3>6, <4>1, <4>2, GatheredStays
    <3>8. WalkWell(lending, v)
      <4>1. \A n \in DOMAIN lending.services : shared.deps[n] \subseteq v.deps[n]
        BY <3>3
      <4> QED BY <3>1, <3>3, <3>5, <3>7, <4>1, PastKeeps, Zenon DEF PastRef
    <3> QED BY <2>1, <3>1, <3>2, <3>8, Zenon DEF SharesInv
  <2> QED BY <2>1, <2>2, <2>3
<1>4. CASE Borrows
  <2> DEFINE h == NextRef.to
             more == BorrowFrom(lending, shared, top.name, h, top.got)
  <2>1. /\ AtRef /\ Lends(lending, NextRef) /\ shared.state[h] # "new" /\ lending' = lending
        /\ \/ shared' = shared
           \/ /\ PutsOff(lending, top.name) \/ ~SharesAnonymous(lending, shared, top.name, h)
              /\ shared' = [shared EXCEPT !.stack = PastRef(more), !.deps[top.name] = @ \cup {h}]
    BY <1>4, Zenon DEF Borrows
  <2>2. CASE shared' = shared
    BY <2>1, <2>2 DEF SharesInv
  <2>3. CASE /\ PutsOff(lending, top.name) \/ ~SharesAnonymous(lending, shared, top.name, h)
             /\ shared' = [shared EXCEPT !.stack = PastRef(more), !.deps[top.name] = @ \cup {h}]
    <3>1. /\ lending \in ShareQuestions /\ IsLending(lending) /\ WalkWell(lending, shared) /\ shared \in Walks(lending)
          /\ shared.stack # <<>> /\ top.name \in DOMAIN lending.services /\ top.at \in Nat /\ top.got \in Takings
          /\ top.at < Len(lending.services[top.name].from) /\ NextRef = lending.services[top.name].from[top.at + 1]
          /\ Gathered(lending, shared, top.name, top.at, top.got)
          /\ h \in Lenders(lending, top.name) /\ h \in DOMAIN lending.services
      BY <2>1, NextOfThePath, Zenon
    <3>2. more \in Takings
      <4>1. shared.volumes[h] \in [Paths -> Seq(Sources)]
        BY <3>1, Zenon DEF Walks
      <4> QED BY <3>1, <4>1, BorrowedIsTaken, Zenon
    <3> HIDE DEF more
    <3>3. PICK v : v = shared'
      OBVIOUS
    <3>4. /\ v.stack = PastRef(more) /\ v.state = shared.state /\ v.volumes = shared.volumes
          /\ v.nocopy = shared.nocopy /\ v.part = shared.part /\ v.deps = [shared.deps EXCEPT ![top.name] = @ \cup {h}]
      BY <2>3, <3>1, <3>3, ZenonT(40) DEF Walks
    <3>5. PastRef(more) \in Seq(Frames(lending))
      BY <3>1, <3>2, TopOfThePath, Zenon DEF PastRef
    <3>6. shared.deps \in [DOMAIN lending.services -> SUBSET DOMAIN lending.services]
      BY <3>1, Zenon DEF Walks
    <3>7. v \in Walks(lending)
      <4>1. v.deps \in [DOMAIN lending.services -> SUBSET DOMAIN lending.services]
        <5>1. shared.deps[top.name] \cup {h} \in SUBSET DOMAIN lending.services
          BY <3>1, <3>6, Zenon
        <5>2. v.deps = [shared.deps EXCEPT ![top.name] = shared.deps[top.name] \cup {h}]
          BY <3>4, Zenon
        <5> QED BY ONLY <3>6, <5>1, <5>2, ChangedIsWell, Zenon
      <4> QED BY <2>3, <3>1, <3>3, <3>4, <3>5, <4>1, ZenonT(60) DEF Walks
    <3>8. /\ \A n \in DOMAIN lending.services : shared.deps[n] \subseteq v.deps[n]
          /\ h \in v.deps[top.name]
      BY <3>1, <3>4, <3>6, ZenonT(40)
    <3>9. MeetsNoCycle(lending, top.name) => shared.state[h] = "done"
      <4>1. shared.state[h] \in {"new", "visiting", "done"}
        BY <3>1, Zenon DEF Walks
      <4> QED BY <2>1, <3>1, <4>1, StillWalkedIsACycle, Zenon
    <3>10. Gathered(lending, v, top.name, top.at, top.got)
      <4>1. \A m \in DOMAIN lending.services : shared.state[m] = "done" =>
              v.state[m] = "done" /\ v.volumes[m] = shared.volumes[m] /\ v.nocopy[m] = shared.nocopy[m] /\ v.part[m] = shared.part[m]
        BY <3>4
      <4>2. Gathered(lending, shared, top.name, top.at, top.got) /\ top.at \in Nat /\ shared.deps[top.name] \subseteq v.deps[top.name]
        BY <3>1, <3>8, Zenon
      <4> HIDE DEF top
      <4> QED BY ONLY <4>1, <4>2, GatheredStays
    <3>11. Gathered(lending, v, top.name, top.at + 1, more)
      <4>1. more = BorrowFrom(lending, v, top.name, h, top.got)
        BY <3>4, Zenon DEF BorrowFrom, more
      <4>2. PutsOff(lending, top.name) \/ ~SharesAnonymous(lending, v, top.name, h)
        BY <2>3, <3>4 DEF SharesAnonymous
      <4>3. MeetsNoCycle(lending, top.name) => v.state[h] = "done"
        BY <3>4, <3>9
      <4>4. DOMAIN top.got.mounts = Paths
        BY <3>1, Zenon DEF Takings
      <4>5. /\ top.name \in DOMAIN lending.services /\ top.at \in Nat /\ Gathered(lending, v, top.name, top.at, top.got)
            /\ Lends(lending, lending.services[top.name].from[top.at + 1])
            /\ lending.services[top.name].from[top.at + 1].to = h /\ h \in v.deps[top.name]
        BY <2>1, <3>1, <3>8, <3>10, Zenon
      <4> HIDE DEF top, h
      <4> QED BY ONLY <4>1, <4>2, <4>3, <4>4, <4>5, GatheredMore, Zenon
    <3>12. WalkWell(lending, v)
      BY <3>1, <3>2, <3>4, <3>7, <3>8, <3>11, PastKeeps, Zenon DEF PastRef
    <3> QED BY <2>1, <3>1, <3>3, <3>12, Zenon DEF SharesInv
  <2> QED BY <2>1, <2>2, <2>3
<1>5. CASE Folds
  <2>1. lending \in ShareQuestions /\ IsLending(lending) /\ WalkWell(lending, shared)
    BY ShareQuestionsAssumption DEF SharesInv
  <2>2. /\ lending' = lending /\ shared.stack # <<>> /\ top.at = Len(lending.services[top.name].from)
        /\ shared' = [shared EXCEPT !.stack = Front(@), !.state[top.name] = "done",
                            !.volumes[top.name] = FoldedMounts(lending.services[top.name], top.got),
                            !.nocopy[top.name] = @ \cup top.got.nocopy, !.part[top.name] = @ \cup top.got.part]
    BY <1>5 DEF Folds, Borrower
  <2>3. WalkWell(lending, shared')
    BY <2>1, <2>2, FoldKeeps
  <2> QED BY <2>1, <2>2, <2>3 DEF SharesInv
<1>6. CASE UNCHANGED lendVars
  BY <1>6 DEF lendVars, SharesInv
<1> QED BY <1>1, <1>2, <1>3, <1>4, <1>5, <1>6 DEF SharesNext

\* `volumes_from`: in every file, in whatever order it is read, each service that is done has at each path
\* what it writes there or borrows, and comes after those it borrows of, unless a cycle runs through those
\* or a command that reads it is told (expandVolumesFrom).
THEOREM BorrowsAlwaysAsWritten == SharesSpec => []BorrowsAsWritten
<1>1. SharesInit => SharesInv
  BY ShareQuestionsAssumption, LoadedIsWell DEF SharesInit, SharesInv
<1>2. SharesInv /\ [SharesNext]_lendVars => SharesInv'
  BY SharesNextKeeps
<1>3. SharesInv => BorrowsAsWritten
  <2> SUFFICES ASSUME SharesInv, refusal = "", shared.stack = <<>>, NEW n \in DOMAIN lending.services,
                      shared.state[n] = "done", MeetsNoCycle(lending, n),
                      IsHolder(lending, n) \/ ~VolumesFromFault(lending, shared, n)
               PROVE  /\ Lenders(lending, n) \subseteq shared.deps[n]
                      /\ \A t \in Paths : HasAsWritten(lending, shared, n, t)
    BY Zenon DEF BorrowsAsWritten
  <2>1. IsLending(lending) /\ WalkWell(lending, shared)
    BY ShareQuestionsAssumption DEF SharesInv
  <2> QED BY <2>1, DoneIsAsWritten, Zenon
<1> QED BY <1>1, <1>2, <1>3, PTL DEF SharesSpec
=============================================================================
