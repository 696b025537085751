--------------------------- MODULE HostPortsProofs ---------------------------
(***************************************************************************)
(* Host ports, for any order of services, any entries, addresses and port  *)
(* numbers, and whatever other programs take between two steps.  PortsInv  *)
(* is the inductive invariant.  Its parts: an entry changes as the file    *)
(* lets it, and only when its walk comes by; a port is published once; the *)
(* claims of the second walk are what was asked for or handed out, so no   *)
(* entry is moved onto another's port; what a check has seen still holds   *)
(* when its service starts, or something came or went since; and a first   *)
(* `up` leaves in its containers a record of how each range was settled,   *)
(* which a second `up` of the same file reads as the first left it.        *)
(***************************************************************************)
EXTENDS HostPorts, TLAPS

-----------------------------------------------------------------------------
(* The walk over services and entries.                                     *)

Place(s) == CHOOSE i \in DOMAIN PortOrder : PortOrder[i] = s
Passed(s, l) == Place(s) < at \/ (Place(s) = at /\ l < line)
SettledYet(s, l) == step \in {"remap", "check", "start"} \/ (step = "settle" /\ Passed(s, l))
DecidedYet(s, l) == step \in {"check", "start"} \/ (step = "remap" /\ Passed(s, l))

PortSteps == {"addresses", "settle", "remap", "check", "start", "refused", "failed"}

\* What a run may make of an entry of the file: its host ports alone change.
LineOf(e, f) ==
  /\ e \in PortEntries /\ e.lo <= e.hi
  /\ e.addr = f.addr /\ e.c = f.c /\ e.many = f.many /\ e.bare = f.bare
  /\ ~BareSingle(f) /\ (f.many \/ Single(f)) => e = f
  /\ BareSingle(f) => Single(e)
LinesOf(p) ==
  /\ p \in [PortServices -> Seq(PortEntries)]
  /\ \A s \in PortServices : DOMAIN p[s] = DOMAIN file[s]
  /\ \A s \in PortServices : \A l \in DOMAIN file[s] : LineOf(p[s][l], file[s][l])

WellFormed(e) == e \in PortEntries /\ e.lo <= e.hi
PortsTypeOK ==
  /\ file \in PortFiles
  /\ LinesOf(ports)
  /\ DOMAIN containers \subseteq PortServices
  /\ containers = [s \in DOMAIN containers |-> containers[s]]
  /\ \A s \in DOMAIN containers : containers[s] \in Seq(PortEntries)
  /\ \A s \in DOMAIN containers : \A i \in DOMAIN containers[s] : WellFormed(containers[s][i])
  /\ step \in PortSteps
  /\ at \in Nat \ {0} /\ line \in Nat \ {0}
  /\ running \subseteq PortServices
  /\ round \in {1, 2} /\ same \in BOOLEAN /\ comings \in Nat /\ quiet \in BOOLEAN

\* An entry is settled, and decided, when the walk comes by and not before.
LinesInTime ==
  /\ step = "addresses" => at = 1 /\ line = 1
  /\ \A s \in PortServices : \A l \in DOMAIN file[s] :
    LET e == ports[s][l]
        f == file[s][l]
    IN /\ step \in {"addresses", "settle"} /\ ~SettledYet(s, l) => e = f
       /\ step \in {"addresses", "settle", "remap"} /\ BareSingle(f) /\ ~DecidedYet(s, l) => e = f
       /\ ~f.many /\ ~Single(f) /\ SettledYet(s, l) => Single(e)

\* What a run has started is what it made of the file.
Started ==
  step = "start" => \A s \in PortServices : Place(s) < at => s \in DOMAIN containers /\ containers[s] = ports[s]

-----------------------------------------------------------------------------

\* Every service has one place in the startup order, and the order is a
\* sequence of them.
LEMMA PlaceIs ==
  /\ \A s \in PortServices : Place(s) \in DOMAIN PortOrder /\ PortOrder[Place(s)] = s
  /\ \A i \in DOMAIN PortOrder : PortOrder[i] \in PortServices /\ Place(PortOrder[i]) = i
  /\ \E n \in Nat : DOMAIN PortOrder = 1..n
<1>1. \A s \in PortServices : \E i \in DOMAIN PortOrder : PortOrder[i] = s
  BY DEF PortServices, ToSet
<1>2. \A i \in DOMAIN PortOrder : PortOrder[i] \in PortServices
  BY DEF PortServices, ToSet
<1>3. \E n \in Nat : DOMAIN PortOrder = 1..n
  BY PortsAssumption
<1> QED BY <1>1, <1>2, <1>3, PortsAssumption DEF Place

\* What the assumption says of a file: its entries are entries, their ranges
\* are not empty, and a bare one names the host port of its container's.
LEMMA FilesAre ==
  \A f \in PortFiles :
    /\ f \in [PortServices -> Seq(PortEntries)]
    /\ \A s \in PortServices : \A l \in DOMAIN f[s] :
         /\ f[s][l] \in PortEntries /\ f[s][l].lo <= f[s][l].hi
         /\ f[s][l].bare => f[s][l].lo = f[s][l].c /\ (f[s][l].many \/ Single(f[s][l]))
BY PortsAssumption

\* Steps of the walk.
LEMMA PassingOn ==
  ASSUME PortsTypeOK, EntriesAreThrough, at' = at + 1, line' = 1
  PROVE  \A s \in PortServices : \A l \in DOMAIN ports[s] : Passed(s, l)' <=> Passed(s, l)
<1> TAKE s \in PortServices
<1> TAKE l \in DOMAIN ports[s]
<1>1. \E n \in Nat : DOMAIN ports[s] = 1..n
  BY DEF PortsTypeOK, LinesOf
<1>2. Place(s) \in Nat
  BY PlaceIs
<1>3. Place(s) = at => s = PortOrder[at]
  BY PlaceIs
<1>4. Place(s) = at => l < line
  BY <1>1, <1>3 DEF EntriesAreThrough, PortsTypeOK
<1>5. Passed(s, l)' <=> Place(s) < at' \/ (Place(s) = at' /\ l < line')
  BY DEF Passed, Place
<1> QED BY <1>1, <1>2, <1>4, <1>5 DEF Passed, PortsTypeOK

\* A step on to the next entry passes this one and no other.
LEMMA PassingAnEntry ==
  ASSUME PortsTypeOK, AtEntry, at' = at, line' = line + 1
  PROVE  /\ \A s \in PortServices : \A l \in DOMAIN ports[s] :
              Passed(s, l)' <=> Passed(s, l) \/ (s = PortOrder[at] /\ l = line)
         /\ ~Passed(PortOrder[at], line)
         /\ PortOrder[at] \in PortServices /\ line \in DOMAIN ports[PortOrder[at]]
<1>1. PortOrder[at] \in PortServices /\ Place(PortOrder[at]) = at /\ line \in DOMAIN ports[PortOrder[at]]
  BY PlaceIs DEF AtEntry
<1>2. ASSUME NEW s \in PortServices, NEW l \in DOMAIN ports[s]
      PROVE Passed(s, l)' <=> Passed(s, l) \/ (s = PortOrder[at] /\ l = line)
  <2>1. l \in Nat
    BY DEF PortsTypeOK, LinesOf
  <2>2. Place(s) \in Nat /\ (Place(s) = at <=> s = PortOrder[at])
    BY PlaceIs, <1>1
  <2>3. Passed(s, l)' <=> Place(s) < at' \/ (Place(s) = at' /\ l < line')
    BY DEF Passed, Place
  <2> QED BY <2>1, <2>2, <2>3 DEF Passed, PortsTypeOK
<1>3. ~Passed(PortOrder[at], line)
  BY <1>1 DEF Passed, PortsTypeOK
<1> QED BY <1>1, <1>2, <1>3

\* Past the last service, every entry was passed.
LEMMA AllPassed ==
  ASSUME PortsTypeOK, ServicesAreThrough
  PROVE  \A s \in PortServices : Place(s) < at /\ \A l : Passed(s, l)
<1> TAKE s \in PortServices
<1>1. Place(s) < at
  BY PlaceIs DEF ServicesAreThrough, PortsTypeOK
<1> QED BY <1>1 DEF Passed

\* Back at the first entry of the first service, none was.
LEMMA NonePassed ==
  ASSUME PortsTypeOK, at' = 1, line' = 1
  PROVE  \A s \in PortServices : \A l \in DOMAIN ports[s] : ~Passed(s, l)'
<1> TAKE s \in PortServices
<1> TAKE l \in DOMAIN ports[s]
<1>1. \E n \in Nat : DOMAIN ports[s] = 1..n
  BY DEF PortsTypeOK, LinesOf
<1>2. Place(s) \in Nat \ {0}
  BY PlaceIs
<1>3. Passed(s, l)' <=> Place(s) < at' \/ (Place(s) = at' /\ l < line')
  BY DEF Passed, Place
<1> QED BY <1>1, <1>2, <1>3

-----------------------------------------------------------------------------
(* The entries.                                                            *)

\* An entry put on a host port has that one alone, and is otherwise as it
\* was.
LEMMA MovedIs ==
  ASSUME NEW e \in PortEntries, NEW n \in HostPortNumbers
  PROVE  /\ Moved(e, n) \in PortEntries
         /\ Moved(e, n).lo = n /\ Moved(e, n).hi = n
         /\ Moved(e, n).addr = e.addr /\ Moved(e, n).c = e.c
         /\ Moved(e, n).many = e.many /\ Moved(e, n).bare = e.bare
         /\ Single(Moved(e, n)) /\ n \in PortsOf(Moved(e, n))
<1>1. Moved(e, n) = [[e EXCEPT !.lo = n] EXCEPT !.hi = n]
  BY DEF Moved
<1>2. [e EXCEPT !.lo = n] \in PortEntries
  BY DEF PortEntries
<1>3. Moved(e, n) \in PortEntries
  BY <1>1, <1>2 DEF PortEntries
<1>4. /\ Moved(e, n).lo = n /\ Moved(e, n).hi = n
      /\ Moved(e, n).addr = e.addr /\ Moved(e, n).c = e.c
      /\ Moved(e, n).many = e.many /\ Moved(e, n).bare = e.bare
  BY DEF Moved, PortEntries
<1>5. n \in n .. n
  BY PortsAssumption DEF HostPortNumbers
<1> QED BY <1>3, <1>4, <1>5 DEF Single, PortsOf

\* What an entry is made of.
LEMMA EntriesAre ==
  ASSUME NEW e \in PortEntries
  PROVE  /\ e.lo \in Nat /\ e.hi \in Nat /\ e.c \in Nat
         /\ e.many \in BOOLEAN /\ e.bare \in BOOLEAN
         /\ PortsOf(e) \subseteq HostPortNumbers
BY PortsAssumption DEF PortEntries, HostPortNumbers, PortsOf

\* A container's entries are the ones recorded, and well formed.
LEMMA HeldAre ==
  ASSUME PortsTypeOK
  PROVE  \A s : \A i \in DOMAIN HeldEntries(s) :
           s \in DOMAIN containers /\ HeldEntries(s) = containers[s] /\ WellFormed(HeldEntries(s)[i])
BY DEF PortsTypeOK, HeldEntries

\* A port of an entry's container is published on one of its host ports.
LEMMA HostPortsOf ==
  ASSUME PortsTypeOK, NEW s, NEW c \in Nat, NEW i \in PublishedAt(s, c)
  PROVE  HostPortAt(s, i, c) \in PortsOf(HeldEntries(s)[i]) /\ HostPortAt(s, i, c) \in HostPortNumbers
<1> DEFINE e == HeldEntries(s)[i]
<1>1. e \in PortEntries /\ e.lo <= e.hi /\ c \in ContainerPorts(e)
  BY HeldAre DEF PublishedAt, WellFormed
<1>2. e.lo \in Nat /\ e.hi \in Nat /\ e.c \in Nat /\ PortsOf(e) \subseteq HostPortNumbers
  BY <1>1, EntriesAre
<1>3. HostPortAt(s, i, c) = e.lo + (c - e.c)
  BY DEF HostPortAt
<1> HIDE DEF e
<1>4. e.lo + (c - e.c) \in e.lo .. e.hi
  BY <1>1, <1>2 DEF ContainerPorts
<1> QED BY <1>2, <1>3, <1>4 DEF PortsOf, e
-----------------------------------------------------------------------------
(* What the two walks do to an entry.                                      *)

\* A range is settled on a port of its own.
LEMMA SettledIsInRange ==
  ASSUME PortsTypeOK, NEW s, NEW e \in PortEntries, e.lo <= e.hi, NEW n \in SettledOn(s, e)
  PROVE  n \in PortsOf(e) /\ n \in HostPortNumbers
<1> DEFINE kept == {i \in PublishedAt(s, e.c) : HostPortAt(s, i, e.c) \in PortsOf(e) /\ ~Covers(HostPortAt(s, i, e.c))}
           free == {m \in PortsOf(e) : ~Covers(m) /\ Ask(e.addr, m) = "free"}
<1>1. n \in IF kept # {} THEN {HostPortAt(s, i, e.c) : i \in FirstOf(kept)}
           ELSE IF free # {} THEN FirstOf(free) ELSE {e.lo}
  BY DEF SettledOn
<1>2. \A i \in FirstOf(kept) : HostPortAt(s, i, e.c) \in PortsOf(e)
  BY DEF FirstOf
<1>3. FirstOf(free) \subseteq PortsOf(e)
  BY DEF FirstOf
<1>4. e.lo \in PortsOf(e) /\ PortsOf(e) \subseteq HostPortNumbers
  BY EntriesAre DEF PortsOf
<1> QED BY <1>1, <1>2, <1>3, <1>4

\* What the first walk does: an entry with a range and one container port is
\* put on a port of the range, any other is left.
LEMMA SettlesIs ==
  ASSUME PortsTypeOK, Settles
  PROVE  LET s == PortOrder[at]
             e == ports[s][line]
         IN \/ (e.many \/ Single(e)) /\ UNCHANGED ports
            \/ /\ ~e.many /\ ~Single(e)
               /\ \E n \in PortsOf(e) \cap HostPortNumbers :
                    n \in SettledOn(s, e) /\ ports' = [ports EXCEPT ![s][line] = Moved(e, n)]
<1>1. PortOrder[at] \in PortServices /\ line \in DOMAIN ports[PortOrder[at]]
  BY PlaceIs DEF Settles, AtEntry
<1>2. ports[PortOrder[at]][line] \in PortEntries /\ ports[PortOrder[at]][line].lo <= ports[PortOrder[at]][line].hi
  BY <1>1 DEF PortsTypeOK, LinesOf, LineOf
<1>3. \A n \in SettledOn(PortOrder[at], ports[PortOrder[at]][line]) :
        n \in PortsOf(ports[PortOrder[at]][line]) /\ n \in HostPortNumbers
  BY <1>2, SettledIsInRange
<1> QED BY <1>3, Zenon DEF Settles

\* What the second walk does: nothing, where nothing is published for the
\* entry, or it hands the entry a port: one its container has, or the one it
\* asks for, or one not spoken for.
LEMMA RemapsIs ==
  ASSUME PortsTypeOK, Remaps
  PROVE  LET s == PortOrder[at]
             e == ports[s][line]
         IN \/ UNCHANGED <<ports, claims>> /\ (BareSingle(e) => Kept(s, e) = {})
            \/ /\ BareSingle(e)
               /\ \E n \in HostPortNumbers :
                    /\ Hands(s, e, n)
                    /\ n \in Kept(s, e) \/ (Kept(s, e) = {} /\ (n = e.lo \/ n \notin SpokenFor(s, e)))
<1> DEFINE s == PortOrder[at]
           e == ports[s][line]
<1>1. s \in PortServices /\ line \in DOMAIN ports[s]
  BY PlaceIs DEF Remaps, AtEntry
<1>2. e \in PortEntries
  BY <1>1 DEF PortsTypeOK, LinesOf, LineOf
<1>3. e.lo \in HostPortNumbers /\ e.c \in Nat
  BY <1>2, EntriesAre DEF PortEntries
<1>4. Kept(s, e) \subseteq HostPortNumbers
  <2> SUFFICES ASSUME NEW n \in HeldFor(s, e.c) PROVE n \in HostPortNumbers
    BY DEF Kept
  <2>1. \E i \in PublishedAt(s, e.c) : n = HostPortAt(s, i, e.c)
    BY Zenon DEF HeldFor, LastOf, FirstOf
  <2> QED BY <2>1, <1>3, HostPortsOf
<1>5. MirrorOf(s, e) \subseteq {e.lo}
  BY DEF MirrorOf
<1>6. \A n0 \in Offered(e) : \A n \in Clear(n0, s, e) : n \in HostPortNumbers /\ n \notin SpokenFor(s, e)
  BY DEF Offered, Clear, FirstClear
<1>7. \/ /\ BareSingle(e)
         /\ \E n \in Kept(s, e) : Hands(s, e, n)
      \/ /\ BareSingle(e) /\ Kept(s, e) = {}
         /\ \E n \in MirrorOf(s, e) : Hands(s, e, n)
      \/ /\ BareSingle(e) /\ Kept(s, e) = {}
         /\ \E n0 \in Offered(e) : \E n \in Clear(n0, s, e) : Hands(s, e, n)
      \/ UNCHANGED <<ports, claims>> /\ (BareSingle(e) => Kept(s, e) = {})
  BY Zenon DEF Remaps
<1> HIDE DEF s, e
<1> QED BY <1>3, <1>4, <1>5, <1>6, <1>7, Zenon DEF s, e

\* One entry is moved; the rest stay.
LEMMA OneMoves ==
  ASSUME PortsTypeOK, NEW s \in PortServices, NEW l \in DOMAIN ports[s], NEW n \in HostPortNumbers,
         BareSingle(file[s][l]) \/ (~file[s][l].many /\ ~Single(file[s][l])),
         ports' = [ports EXCEPT ![s][l] = Moved(ports[s][l], n)], file' = file
  PROVE  /\ LinesOf(ports)'
         /\ ports'[s][l] = Moved(ports[s][l], n)
         /\ \A t \in PortServices : \A j \in DOMAIN ports[t] : (t # s \/ j # l) => ports'[t][j] = ports[t][j]
         /\ \A t \in PortServices : DOMAIN ports'[t] = DOMAIN ports[t]
<1> DEFINE m == Moved(ports[s][l], n)
<1>1. ports \in [PortServices -> Seq(PortEntries)] /\ LineOf(ports[s][l], file[s][l])
  BY DEF PortsTypeOK, LinesOf
<1>2. m \in PortEntries /\ m.lo = n /\ m.hi = n /\ m.addr = ports[s][l].addr /\ m.c = ports[s][l].c
      /\ m.many = ports[s][l].many /\ m.bare = ports[s][l].bare /\ n \in Nat
  BY <1>1, MovedIs DEF LineOf, HostPortNumbers
<1>3. LineOf(m, file[s][l])
  BY <1>1, <1>2 DEF LineOf, Single
<1> HIDE DEF m
<1>4. ports' = [ports EXCEPT ![s] = [ports[s] EXCEPT ![l] = m]]
  BY DEF m
<1>5. ports[s] \in Seq(PortEntries) /\ [ports[s] EXCEPT ![l] = m] \in Seq(PortEntries)
      /\ DOMAIN [ports[s] EXCEPT ![l] = m] = DOMAIN ports[s]
  BY <1>1, <1>2
<1>6. ports' \in [PortServices -> Seq(PortEntries)]
  BY <1>1, <1>4, <1>5
<1>7. \A t \in PortServices : DOMAIN ports'[t] = DOMAIN ports[t]
  BY <1>1, <1>4, <1>5
<1>8. ports'[s][l] = m
  BY <1>1, <1>4
<1>9. \A t \in PortServices : \A j \in DOMAIN ports[t] : (t # s \/ j # l) => ports'[t][j] = ports[t][j]
  BY <1>1, <1>4
<1>10. ASSUME NEW t \in PortServices, NEW j \in DOMAIN file[t] PROVE LineOf(ports'[t][j], file[t][j])
  <2>1. j \in DOMAIN ports[t] /\ LineOf(ports[t][j], file[t][j])
    BY DEF PortsTypeOK, LinesOf
  <2>2. CASE t = s /\ j = l
    BY <2>2, <1>3, <1>8
  <2>3. CASE t # s \/ j # l
    BY <2>1, <2>3, <1>9
  <2> QED BY <2>2, <2>3
<1>11. \A t \in PortServices : DOMAIN ports[t] = DOMAIN file[t]
  BY DEF PortsTypeOK, LinesOf
<1>12. LinesOf(ports)' <=> /\ ports' \in [PortServices -> Seq(PortEntries)]
                           /\ \A t \in PortServices : DOMAIN ports'[t] = DOMAIN file'[t]
                           /\ \A t \in PortServices : \A j \in DOMAIN file'[t] : LineOf(ports'[t][j], file'[t][j])
  BY DEF LinesOf, LineOf, BareSingle, Single
<1> QED BY <1>6, <1>7, <1>8, <1>9, <1>10, <1>11, <1>12 DEF m
-----------------------------------------------------------------------------
(* Types, and what is settled when.                                        *)

\* The entries stay as the file has them where neither changes.
LEMMA LinesStay ==
  ASSUME LinesOf(ports), UNCHANGED <<file, ports>>
  PROVE  LinesOf(ports)'
BY ZenonT(60) DEF LinesOf, LineOf, BareSingle, Single

\* What was settled and decided in time is so after a step that leaves the
\* entries alone.
LEMMA StaysInTime ==
  ASSUME LinesInTime, UNCHANGED <<file, ports>>,
         step' = "addresses" => at' = at /\ line' = line /\ step = "addresses",
         step' \in {"addresses", "settle"} => step \in {"addresses", "settle"},
         step' = "remap" => step \in {"settle", "remap"},
         \A s \in PortServices : \A l \in DOMAIN file[s] :
           /\ step' \in {"addresses", "settle"} => (SettledYet(s, l) => SettledYet(s, l)')
           /\ DecidedYet(s, l) /\ step' = "remap" => DecidedYet(s, l)'
           /\ SettledYet(s, l)' => SettledYet(s, l)
  PROVE  LinesInTime'
<1> SUFFICES ASSUME NEW s \in PortServices, NEW l \in DOMAIN file[s]
             PROVE LET e == ports[s][l]
                       f == file[s][l]
                   IN /\ step' \in {"addresses", "settle"} /\ ~SettledYet(s, l)' => e = f
                      /\ step' \in {"addresses", "settle", "remap"} /\ BareSingle(f) /\ ~DecidedYet(s, l)' => e = f
                      /\ ~f.many /\ ~Single(f) /\ SettledYet(s, l)' => Single(e)
  BY Zenon DEF LinesInTime, BareSingle, Single
<1>1. step \in {"addresses", "settle"} => ~DecidedYet(s, l)
  BY DEF DecidedYet
<1>2. step' \in {"addresses", "settle"} => ~DecidedYet(s, l)'
  BY DEF DecidedYet
<1> QED BY <1>1, <1>2 DEF LinesInTime

\* At first, nothing is settled and no container has a port.
LEMMA TypesInit == PortsInit => PortsTypeOK /\ LinesInTime /\ Started
<1> SUFFICES ASSUME PortsInit PROVE PortsTypeOK /\ LinesInTime /\ Started
  OBVIOUS
<1>1. file \in PortFiles /\ ports = file /\ step = "addresses"
  BY DEF PortsInit
<1>2. LinesOf(ports)
  BY <1>1, FilesAre DEF LinesOf, LineOf, BareSingle
<1>3. DOMAIN containers = {} /\ containers = [s \in DOMAIN containers |-> containers[s]]
  BY DEF PortsInit
<1>6. at = 1 /\ line = 1 /\ running = {} /\ round = 1 /\ comings = 0 /\ same = FALSE /\ quiet = TRUE
  BY DEF PortsInit
<1>8. /\ \A s \in DOMAIN containers : containers[s] \in Seq(PortEntries)
      /\ \A s \in DOMAIN containers : \A i \in DOMAIN containers[s] : WellFormed(containers[s][i])
      /\ DOMAIN containers \subseteq PortServices
  BY <1>3
<1>9. /\ step \in PortSteps /\ at \in Nat \ {0} /\ line \in Nat \ {0} /\ running \subseteq PortServices
      /\ round \in {1, 2} /\ comings \in Nat
  BY <1>1, <1>6 DEF PortSteps
<1>10. same \in BOOLEAN /\ quiet \in BOOLEAN
  BY <1>6, Zenon
<1>4. PortsTypeOK
  BY <1>1, <1>2, <1>3, <1>8, <1>9, <1>10 DEF PortsTypeOK
<1>5. LinesInTime
  BY <1>1, <1>6 DEF LinesInTime, SettledYet
<1>7. Started
  BY <1>1 DEF Started
<1> QED BY <1>4, <1>5, <1>7

\* The containers once one was started, or failed to.
LEMMA StartsIs ==
  ASSUME PortsTypeOK, Starts
  PROVE  LET s == PortOrder[at] IN
    /\ s \in PortServices /\ Place(s) = at
    /\ \/ /\ LeftAlone(s) \/ (Binds(s) /\ ~Overlaps(s))
          /\ at' = at + 1 /\ step' = "start"
          /\ DOMAIN containers' = DOMAIN containers \cup {s}
          /\ \A t \in DOMAIN containers' : containers'[t] = IF t = s THEN ports[s] ELSE containers[t]
       \/ /\ ~LeftAlone(s) /\ (Overlaps(s) \/ ~Binds(s))
          /\ at' = at /\ step' = "failed"
          /\ DOMAIN containers' = DOMAIN containers \ {s}
          /\ \A t \in DOMAIN containers' : containers'[t] = containers[t]
    /\ containers' = [t \in DOMAIN containers' |-> containers'[t]]
<1> DEFINE s == PortOrder[at]
<1>1. s \in PortServices /\ Place(s) = at
  BY PlaceIs DEF Starts
<1> QED BY <1>1 DEF Starts

\* A container that starts, or fails to, leaves the entries as they are.
LEMMA TypesStarts ==
  ASSUME PortsTypeOK, LinesInTime, Starts
  PROVE  PortsTypeOK' /\ LinesInTime'
<1> DEFINE s == PortOrder[at]
<1>1. /\ file' = file /\ ports' = ports /\ line' = line /\ running' = running
      /\ round' = round /\ same' = same /\ comings' = comings /\ quiet' = quiet /\ step = "start"
  BY DEF Starts
<1>2. LinesOf(ports)'
  BY <1>1, LinesStay DEF PortsTypeOK
<1>3. s \in PortServices /\ at' \in Nat \ {0} /\ step' \in {"start", "failed"}
  BY StartsIs DEF PortsTypeOK
<1>4. DOMAIN containers' \subseteq PortServices /\ containers' = [t \in DOMAIN containers' |-> containers'[t]]
  BY StartsIs DEF PortsTypeOK
<1>5. ports[s] \in Seq(PortEntries) /\ \A i \in DOMAIN ports[s] : WellFormed(ports[s][i])
  BY <1>3 DEF PortsTypeOK, LinesOf, LineOf, WellFormed
<1>6. \A t \in DOMAIN containers' : (t = s /\ containers'[t] = ports[s]) \/ (t \in DOMAIN containers /\ containers'[t] = containers[t])
  BY StartsIs
<1>7. \A t \in DOMAIN containers' :
        containers'[t] \in Seq(PortEntries) /\ \A i \in DOMAIN containers'[t] : WellFormed(containers'[t][i])
  <2> TAKE t \in DOMAIN containers'
  <2>1. CASE t = s /\ containers'[t] = ports[s]
    BY <2>1, <1>5
  <2>2. CASE t \in DOMAIN containers /\ containers'[t] = containers[t]
    BY <2>2 DEF PortsTypeOK
  <2> QED BY <2>1, <2>2, <1>6
<1> HIDE DEF s
<1>8. PortsTypeOK'
  BY <1>1, <1>2, <1>3, <1>4, <1>7 DEF PortsTypeOK, PortSteps, WellFormed
<1>9. LinesInTime'
  BY <1>1, <1>3, StaysInTime DEF SettledYet, DecidedYet
<1> QED BY <1>8, <1>9

\* Both walks keep an entry to what the file lets it be.
LEMMA TypesWalks ==
  ASSUME PortsTypeOK, LinesInTime, Settles \/ Remaps
  PROVE  PortsTypeOK' /\ LinesInTime'
<1> DEFINE s == PortOrder[at]
           e == ports[s][line]
           f == file[s][line]
<1>1. /\ file' = file /\ containers' = containers /\ step' = step /\ at' = at /\ line' = line + 1 /\ running' = running
      /\ round' = round /\ same' = same /\ comings' = comings /\ quiet' = quiet /\ AtEntry /\ step \in {"settle", "remap"}
  BY Zenon DEF Settles, Remaps
<1>2. /\ \A t \in PortServices : \A l \in DOMAIN ports[t] : Passed(t, l)' <=> Passed(t, l) \/ (t = s /\ l = line)
      /\ ~Passed(s, line)
      /\ s \in PortServices /\ line \in DOMAIN ports[s]
  BY <1>1, PassingAnEntry
<1>3. DOMAIN ports[s] = DOMAIN file[s] /\ LineOf(e, f) /\ e \in PortEntries
  BY <1>2 DEF PortsTypeOK, LinesOf, LineOf
<1>4. step = "settle" /\ e.many = f.many => e = f
  BY <1>2, <1>3 DEF LinesInTime, SettledYet
<1>5. \/ UNCHANGED ports /\ (step = "settle" => f.many \/ Single(f))
      \/ \E n \in HostPortNumbers :
            /\ BareSingle(f) \/ (~f.many /\ ~Single(f))
            /\ BareSingle(f) => step = "remap"
            /\ ports' = [ports EXCEPT ![s][line] = Moved(e, n)]
  <2>1. CASE Settles
    <3>1. step = "settle" /\ e = f
      BY <2>1, <1>3, <1>4, Zenon DEF LineOf, Settles
    <3> QED BY <3>1, <2>1, SettlesIs, Zenon DEF BareSingle
  <2>2. CASE Remaps
    <3>1. step = "remap" /\ ~(step = "settle")
      BY <2>2, Zenon DEF Remaps
    <3>2. BareSingle(e) => BareSingle(f) \/ (~f.many /\ ~Single(f))
      BY <1>3, Zenon DEF LineOf, BareSingle
    <3> QED BY <3>1, <3>2, <2>2, RemapsIs, Zenon DEF Hands
  <2> QED BY <2>1, <2>2, <1>1, Zenon DEF Settles, Remaps
<1> HIDE DEF s, e, f
<1>6. /\ LinesOf(ports)'
      /\ \A t \in PortServices : \A l \in DOMAIN ports[t] : (t # s \/ l # line) => ports'[t][l] = ports[t][l]
      /\ \/ UNCHANGED ports /\ (step = "settle" => f.many \/ Single(f))
         \/ Single(ports'[s][line]) /\ (BareSingle(f) => step = "remap")
  <2>1. CASE UNCHANGED ports /\ (step = "settle" => f.many \/ Single(f))
    BY <2>1, <1>1, LinesStay DEF PortsTypeOK
  <2>2. CASE \E n \in HostPortNumbers :
               /\ BareSingle(f) \/ (~f.many /\ ~Single(f))
               /\ BareSingle(f) => step = "remap"
               /\ ports' = [ports EXCEPT ![s][line] = Moved(e, n)]
    <3> PICK n \in HostPortNumbers : /\ BareSingle(f) \/ (~f.many /\ ~Single(f))
                                     /\ BareSingle(f) => step = "remap"
                                     /\ ports' = [ports EXCEPT ![s][line] = Moved(e, n)]
      BY <2>2
    <3>1. /\ LinesOf(ports)'
          /\ ports'[s][line] = Moved(ports[s][line], n)
          /\ \A t \in PortServices : \A j \in DOMAIN ports[t] : (t # s \/ j # line) => ports'[t][j] = ports[t][j]
      BY <1>1, <1>2, OneMoves, ZenonT(60) DEF e, f
    <3>2. Single(Moved(ports[s][line], n))
      BY <1>3, MovedIs DEF e
    <3> QED BY <3>1, <3>2
  <2> QED BY <2>1, <2>2, <1>5
<1>7. PortsTypeOK'
  BY <1>1, <1>6 DEF PortsTypeOK, WellFormed
<1>8. ASSUME NEW t \in PortServices, NEW l \in DOMAIN file[t]
      PROVE  LET d == ports'[t][l]
                 g == file[t][l]
             IN /\ step \in {"addresses", "settle"} /\ ~SettledYet(t, l)' => d = g
                /\ step \in {"addresses", "settle", "remap"} /\ BareSingle(g) /\ ~DecidedYet(t, l)' => d = g
                /\ ~g.many /\ ~Single(g) /\ SettledYet(t, l)' => Single(d)
  <2>1. l \in DOMAIN ports[t]
    BY DEF PortsTypeOK, LinesOf
  <2>2. /\ step \in {"addresses", "settle"} /\ ~SettledYet(t, l) => ports[t][l] = file[t][l]
        /\ step \in {"addresses", "settle", "remap"} /\ BareSingle(file[t][l]) /\ ~DecidedYet(t, l) => ports[t][l] = file[t][l]
        /\ ~file[t][l].many /\ ~Single(file[t][l]) /\ SettledYet(t, l) => Single(ports[t][l])
    BY DEF LinesInTime
  <2>3. /\ SettledYet(t, l)' <=> SettledYet(t, l) \/ (step = "settle" /\ t = s /\ l = line)
        /\ DecidedYet(t, l)' <=> DecidedYet(t, l) \/ (step = "remap" /\ t = s /\ l = line)
    BY <2>1, <1>1, <1>2 DEF SettledYet, DecidedYet
  <2>4. CASE t # s \/ l # line
    BY <2>1, <2>2, <2>3, <2>4, <1>6
  <2>5. CASE t = s /\ l = line
    <3>1. CASE UNCHANGED ports /\ (step = "settle" => f.many \/ Single(f))
      BY <2>2, <2>3, <2>5, <3>1, <1>1 DEF f
    <3>2. CASE Single(ports'[s][line]) /\ (BareSingle(f) => step = "remap")
      BY <2>2, <2>3, <2>5, <3>2, <1>1 DEF f
    <3> QED BY <3>1, <3>2, <1>6
  <2> QED BY <2>4, <2>5
<1>9. LinesInTime'
  BY <1>1, <1>8, Zenon DEF LinesInTime, BareSingle, Single
<1> QED BY <1>7, <1>9

\* A look at the addresses, and the turns from one walk to the next, leave
\* the entries alone.
LEMMA TypesPass ==
  ASSUME PortsTypeOK, LinesInTime, LooksAtAddresses \/ PassesOn \/ TurnsToRemap \/ TurnsToCheck
  PROVE  PortsTypeOK' /\ LinesInTime'
<1>1. /\ file' = file /\ ports' = ports /\ containers' = containers
      /\ round' = round /\ same' = same /\ comings' = comings /\ quiet' = quiet
      /\ running' \in {running, DOMAIN containers}
  BY DEF LooksAtAddresses, PassesOn, TurnsToRemap, TurnsToCheck
<1>2. at' \in Nat \ {0} /\ line' \in Nat \ {0} /\ step' \in PortSteps
  BY DEF LooksAtAddresses, PassesOn, TurnsToRemap, TurnsToCheck, PortsTypeOK, PortSteps
<1>3. LinesOf(ports)'
  BY <1>1, LinesStay DEF PortsTypeOK
<1>4. PortsTypeOK'
  BY <1>1, <1>2, <1>3 DEF PortsTypeOK, WellFormed
<1>5. \A s \in PortServices : DOMAIN ports[s] = DOMAIN file[s]
  BY DEF PortsTypeOK, LinesOf
<1>6. CASE LooksAtAddresses
  <2>1. step = "addresses" /\ step' \in {"settle", "refused"} /\ at' = at /\ line' = line
    BY <1>6 DEF LooksAtAddresses
  <2>2. \A s \in PortServices : \A l \in DOMAIN file[s] : LET e == ports[s][l] IN e = file[s][l]
    BY <2>1 DEF LinesInTime, SettledYet
  <2>3. LinesInTime'
    <3> SUFFICES ASSUME NEW s \in PortServices, NEW l \in DOMAIN file[s]
                 PROVE ports[s][l] = file[s][l] /\ ~SettledYet(s, l)'
      BY <1>1, <2>1, Zenon DEF LinesInTime, BareSingle, Single
    <3>1. at' = 1 /\ line' = 1 /\ l \in DOMAIN ports[s]
      BY <1>5, <2>1 DEF LinesInTime
    <3>2. ~Passed(s, l)'
      BY <3>1, NonePassed
    <3>3. ~SettledYet(s, l)'
      BY <2>1, <3>2 DEF SettledYet
    <3>4. ports[s][l] = file[s][l]
      BY <2>2
    <3> QED BY <3>3, <3>4
  <2> QED BY <1>4, <2>3
<1>7. CASE PassesOn
  <2>1. \A s \in PortServices : \A l \in DOMAIN file[s] : Passed(s, l)' <=> Passed(s, l)
    BY <1>5, <1>7, PassingOn DEF PassesOn
  <2>2. LinesInTime'
    BY <1>1, <1>7, <2>1, StaysInTime DEF PassesOn, SettledYet, DecidedYet
  <2> QED BY <1>4, <2>2
<1>8. CASE TurnsToRemap
  <2>1. step = "settle" /\ step' = "remap" /\ \A s \in PortServices : \A l \in DOMAIN file[s] : SettledYet(s, l)
    BY <1>8, AllPassed DEF TurnsToRemap, SettledYet
  <2>2. LinesInTime'
    BY <1>1, <2>1, StaysInTime DEF SettledYet, DecidedYet
  <2> QED BY <1>4, <2>2
<1>9. CASE TurnsToCheck
  <2>1. step = "remap" /\ step' \in {"check", "refused"}
    BY <1>9 DEF TurnsToCheck
  <2>2. LinesInTime'
    BY <1>1, <2>1, StaysInTime DEF SettledYet, DecidedYet
  <2> QED BY <1>4, <2>2
<1> QED BY <1>6, <1>7, <1>8, <1>9

\* So do the check, the turn to starting, and what other programs do; a
\* second `up` begins with the file again.
LEMMA TypesRest ==
  ASSUME PortsTypeOK, LinesInTime, Started,
         ChecksPorts \/ TurnsToStart \/ Again \/ OthersCome \/ UNCHANGED portVars
  PROVE  PortsTypeOK' /\ LinesInTime'
<1>1. CASE ChecksPorts \/ TurnsToStart
  <2>1. /\ file' = file /\ ports' = ports /\ containers' = containers /\ line' = line /\ running' = running
        /\ round' = round /\ same' = same /\ comings' = comings /\ quiet' = quiet
        /\ step = "check" /\ step' \in {"check", "refused", "start"} /\ at' \in Nat \ {0}
    BY <1>1 DEF ChecksPorts, TurnsToStart, PortsTypeOK
  <2>2. LinesOf(ports)'
    BY <2>1, LinesStay DEF PortsTypeOK
  <2>3. PortsTypeOK'
    BY <2>1, <2>2 DEF PortsTypeOK, PortSteps, WellFormed
  <2>4. LinesInTime'
    BY <2>1, StaysInTime DEF SettledYet, DecidedYet
  <2> QED BY <2>3, <2>4
<1>2. CASE OthersCome \/ UNCHANGED portVars
  <2>1. /\ file' = file /\ ports' = ports /\ containers' = containers /\ line' = line /\ running' = running
        /\ round' = round /\ same' = same /\ comings' \in Nat /\ step' = step /\ at' = at
    BY <1>2 DEF OthersCome, portVars, PortsTypeOK
  <2>6. quiet' \in BOOLEAN
    BY <1>2, Zenon DEF OthersCome, portVars, PortsTypeOK
  <2>2. LinesOf(ports)'
    BY <2>1, LinesStay DEF PortsTypeOK
  <2>3. PortsTypeOK'
    BY <2>1, <2>2, <2>6 DEF PortsTypeOK, WellFormed
  <2>4. \A s, l : (Passed(s, l)' <=> Passed(s, l))
    BY <2>1 DEF Passed, Place
  <2>5. LinesInTime'
    BY <2>1, <2>4, StaysInTime DEF SettledYet, DecidedYet
  <2> QED BY <2>3, <2>5
<1>3. CASE Again
  <2> PICK up \in SUBSET PortServices, f \in PortFiles :
          containers' = [s \in up |-> containers[s]] /\ file' = f /\ ports' = f /\ same' = (f = file /\ up = PortServices)
    BY <1>3 DEF Again
  <2>1. /\ step' = "addresses" /\ at' = 1 /\ line' = 1 /\ round' = 2 /\ quiet' = TRUE /\ running' = {} /\ comings' = comings
        /\ step = "start" /\ ServicesAreThrough
    BY <1>3 DEF Again
  <2>2. up \subseteq DOMAIN containers
    BY <2>1, AllPassed DEF Started
  <2>3. LinesOf(ports)'
    BY FilesAre DEF LinesOf, LineOf, BareSingle
  <2>4. /\ DOMAIN containers' = up /\ containers' = [s \in DOMAIN containers' |-> containers'[s]]
        /\ \A s \in up : containers'[s] \in Seq(PortEntries) /\ \A i \in DOMAIN containers'[s] : WellFormed(containers'[s][i])
    BY <2>2 DEF PortsTypeOK
  <2>5. same' \in BOOLEAN
    OBVIOUS
  <2>6. PortsTypeOK'
    BY <2>1, <2>3, <2>4, <2>5 DEF PortsTypeOK, PortSteps, WellFormed
  <2>7. LinesInTime'
    <3>1. \A s \in PortServices : \A l \in DOMAIN file'[s] : LET e == ports'[s][l] IN e = file'[s][l]
      OBVIOUS
    <3>2. \A s, l : ~SettledYet(s, l)'
      BY <2>1 DEF SettledYet
    <3> QED BY <2>1, <3>1, <3>2 DEF LinesInTime
  <2> QED BY <2>6, <2>7
<1> QED BY <1>1, <1>2, <1>3

\* A started container keeps the entries it was started with.
LEMMA StartedStays ==
  ASSUME PortsTypeOK, Started, [PortsNext]_portVars
  PROVE  Started'
<1> SUFFICES ASSUME step' = "start", NEW s \in PortServices, Place(s) < at'
             PROVE  s \in DOMAIN containers' /\ containers'[s] = ports'[s]
  BY DEF Started, Place
<1>1. CASE Starts
  <2>1. /\ ports' = ports /\ step = "start" /\ Place(s) \in Nat
        /\ PortOrder[at] \in PortServices /\ Place(PortOrder[at]) = at /\ at' = at + 1
        /\ DOMAIN containers' = DOMAIN containers \cup {PortOrder[at]}
        /\ \A t \in DOMAIN containers' : containers'[t] = IF t = PortOrder[at] THEN ports[PortOrder[at]] ELSE containers[t]
    BY <1>1, PlaceIs, StartsIs DEF Starts
  <2>2. s = PortOrder[at] \/ Place(s) < at
    BY <2>1, PlaceIs DEF PortsTypeOK
  <2> QED BY <2>1, <2>2 DEF Started
<1>2. CASE TurnsToStart
  BY <1>2, PlaceIs DEF TurnsToStart
<1>3. CASE OthersCome \/ UNCHANGED portVars
  BY <1>3 DEF OthersCome, portVars, Started
<1>4. CASE ~Starts /\ ~TurnsToStart /\ ~OthersCome /\ ~UNCHANGED portVars
  <2>1. LooksAtAddresses \/ PassesOn \/ Settles \/ TurnsToRemap \/ Remaps \/ TurnsToCheck \/ ChecksPorts \/ Again
    BY <1>4 DEF PortsNext
  <2> QED BY <2>1, Zenon DEF LooksAtAddresses, PassesOn, Settles, TurnsToRemap, Remaps, TurnsToCheck, ChecksPorts, Again
<1> QED BY <1>1, <1>2, <1>3, <1>4

PortsAreTyped == PortsTypeOK /\ LinesInTime /\ Started

\* Types, the order of the walks, and what was started: every step keeps
\* them.
LEMMA TypesStep == PortsAreTyped /\ [PortsNext]_portVars => PortsAreTyped'
<1> SUFFICES ASSUME PortsTypeOK, LinesInTime, Started, [PortsNext]_portVars PROVE PortsAreTyped'
  BY DEF PortsAreTyped
<1>1. PortsTypeOK' /\ LinesInTime'
  BY TypesStarts, TypesWalks, TypesPass, TypesRest DEF PortsNext
<1> QED BY <1>1, StartedStays DEF PortsAreTyped
-----------------------------------------------------------------------------
(* The inductive invariant.                                                *)

\* Ports are published by one entry of one service, and by no other program.
PortsApart ==
  /\ \A s \in DOMAIN containers : \A i, j \in DOMAIN containers[s] :
       i # j => PortsOf(containers[s][i]) \cap PortsOf(containers[s][j]) = {}
  /\ \A s, t \in PortServices : s # t => Published(s) \cap Published(t) = {}
  /\ \A s \in PortServices : Published(s) \cap (others \cup Denied) = {}

\* What is claimed is what the file's own lines ask for and what the walk has handed out.
ClaimsTrue ==
  step = "remap" =>
    /\ \A s \in PortServices : \A l \in DOMAIN ports[s] :
         ~BareSingle(ports[s][l]) => Claim(s, ports[s][l], TRUE) \in claims
    /\ \A cl \in claims : \E s \in PortServices : \E l \in DOMAIN ports[s] :
         \/ ~BareSingle(ports[s][l]) /\ cl = Claim(s, ports[s][l], TRUE)
         \/ BareSingle(ports[s][l]) /\ Passed(s, l) /\ cl = Claim(s, ports[s][l], FALSE)

\* A moved entry is inside a range of another line only if it was handed a port
\* an entry before it has.
Moves(e) == BareSingle(e) /\ e.lo # e.c
RangesClear ==
  step = "remap" =>
    \A s, t \in PortServices : \A l \in DOMAIN ports[s] : \A j \in DOMAIN ports[t] :
      /\ Passed(s, l) /\ Moves(ports[s][l])
      /\ ~Single(ports[t][j]) /\ ports[s][l].lo \in PortsOf(ports[t][j])
      /\ Collide(s, ports[s][l].addr, t, ports[t][j].addr)
      => \E u \in PortServices : \E m \in DOMAIN ports[u] :
           /\ <<u, m>> # <<s, l>> /\ Passed(u, m) /\ Single(ports[u][m])
           /\ ports[u][m].lo = ports[s][l].lo /\ Collide(u, ports[u][m].addr, s, ports[s][l].addr)

CheckClear == step \in {"check", "start"} => ~TwiceAsked /\ MovedIsClear

\* What the checks have seen and still holds.
AddressesAsked ==
  quiet =>
    /\ step \in {"settle", "remap"} => \A s \in PortServices \ DOMAIN containers : \A l \in DOMAIN file[s] : file[s][l].addr \notin gone
    /\ step \in {"check", "start"} => \A s \in PortServices \ running : \A l \in DOMAIN file[s] : file[s][l].addr \notin gone

HeldElsewhere(s, e) == \E l \in freed \cup Published(s) : l[2] = e.lo /\ l[1] # e.addr
Checked(s) ==
  \A e \in ToSet(ports[s]) : Single(e) =>
    /\ quiet /\ s \notin running /\ <<e.addr, e.lo>> \in others \cup Denied => HeldElsewhere(s, e)
    /\ \A t \in PortServices : Place(t) > Place(s) /\ <<e.addr, e.lo>> \in Published(t) => HeldElsewhere(s, e)
PortsChecked ==
  /\ step = "check" =>
       /\ running = DOMAIN containers
       /\ \A l \in freed : \E s \in PortServices : Place(s) < at /\ l \in Published(s)
       /\ \A s \in PortServices : Place(s) < at => Checked(s)
  /\ step = "start" => \A s \in PortServices : Place(s) >= at => Checked(s)

\* What a second run finds: the ranges as the first settled them.
Ranged(f) == ~f.many /\ ~Single(f)
Before(t, j, s, l) == Place(t) < Place(s) \/ (t = s /\ j < l)
CoversIn(r, s, l, n) ==
  \E t \in PortServices : \E j \in DOMAIN file[t] :
    LET e == IF Before(t, j, s, l) /\ Ranged(file[t][j]) THEN r[t][j] ELSE file[t][j]
    IN n \in PortsOf(e) /\ (Single(e) \/ e.many)
NotFree(addr, n) == addr \in gone \/ <<addr, n>> \in others \cup Denied
RecordOf(r, s, l) ==
  LET f == file[s][l]
  IN /\ r[s][l].lo \in PortsOf(f)
     /\ \/ ~CoversIn(r, s, l, r[s][l].lo)
        \/ r[s][l].lo = f.lo /\ \A n \in PortsOf(f) : CoversIn(r, s, l, n) \/ NotFree(f.addr, n)

FirstUp ==
  round = 1 /\ comings = 0 =>
    /\ step \in {"addresses", "settle", "remap", "check"} => DOMAIN containers = {}
    /\ \A s \in PortServices : \A l \in DOMAIN file[s] :
         Ranged(file[s][l]) /\ SettledYet(s, l) => RecordOf(ports, s, l)

SecondUp ==
  round = 2 /\ same /\ comings = 0 /\ SharesNoPort(file) =>
    /\ step \notin {"refused", "failed"}
    /\ DOMAIN containers = PortServices
    /\ LinesOf(containers)
    /\ \A s \in PortServices : \A l \in DOMAIN file[s] : Ranged(file[s][l]) =>
         /\ Single(containers[s][l]) /\ RecordOf(containers, s, l)
         /\ SettledYet(s, l) => ports[s][l] = containers[s][l]
    /\ \A s \in PortServices : \A l \in DOMAIN file[s] :
         BareSingle(file[s][l]) /\ DecidedYet(s, l) => ports[s][l] = containers[s][l]

PortsInv ==
  /\ PortsAreTyped /\ PortsApart /\ ClaimsTrue /\ RangesClear /\ CheckClear
  /\ AddressesAsked /\ PortsChecked /\ FirstUp /\ SecondUp

-----------------------------------------------------------------------------
(* Ports are published once.                                               *)

PublishedBy(es) == UNION {{<<e.addr, n>> : n \in PortsOf(e)} : e \in ToSet(es)}

\* What is published is what the entries of a container hold.
LEMMA PublishedIs ==
  /\ \A s : Published(s) = PublishedBy(HeldEntries(s))
  /\ \A es, x : x \in PublishedBy(es) <=> \E i \in DOMAIN es : \E n \in PortsOf(es[i]) : x = <<es[i].addr, n>>
  /\ \A s : s \notin DOMAIN containers => Published(s) = {}
<1>1. \A s : Published(s) = PublishedBy(HeldEntries(s))
  BY DEF Published, PublishedBy
<1>2. \A es : ToSet(es) = {es[i] : i \in DOMAIN es}
  BY DEF ToSet
<1>3. \A es, x : x \in PublishedBy(es) <=> \E i \in DOMAIN es : \E n \in PortsOf(es[i]) : x = <<es[i].addr, n>>
  BY <1>2 DEF PublishedBy
<1>4. \A s : s \notin DOMAIN containers => HeldEntries(s) = <<>>
  BY DEF HeldEntries
<1>5. PublishedBy(<<>>) = {}
  BY <1>3
<1> QED BY <1>1, <1>3, <1>4, <1>5

\* Nothing is published or given up but by a container.
LEMMA PublishedStays ==
  ASSUME UNCHANGED containers
  PROVE  \A s : HeldEntries(s)' = HeldEntries(s) /\ Published(s)' = Published(s)
BY DEF Published, HeldEntries, PortsOf

\* The same of the state after a step.
LEMMA PublishedThen ==
  \A s : Published(s)' = PublishedBy(HeldEntries(s)')
BY DEF Published, PublishedBy, PortsOf

\* What the services hold once one was started, or failed to.
LEMMA StartsHeld ==
  ASSUME PortsTypeOK, Starts, NEW s, s = PortOrder[at]
  PROVE  /\ \A t : t # s => HeldEntries(t)' = HeldEntries(t) /\ Published(t)' = Published(t)
         /\ \/ HeldEntries(s)' = HeldEntries(s)
            \/ HeldEntries(s)' = ports[s] /\ Binds(s) /\ ~Overlaps(s)
            \/ HeldEntries(s)' = <<>>
         /\ containers' = containers \/ ~LeftAlone(s)
<1>1. \A t : HeldEntries(t)' = IF t \in DOMAIN containers' THEN containers'[t] ELSE <<>>
  BY DEF HeldEntries
<1>2. /\ \/ /\ LeftAlone(s) \/ (Binds(s) /\ ~Overlaps(s))
            /\ DOMAIN containers' = DOMAIN containers \cup {s}
            /\ \A t \in DOMAIN containers' : containers'[t] = IF t = s THEN ports[s] ELSE containers[t]
         \/ /\ ~LeftAlone(s)
            /\ DOMAIN containers' = DOMAIN containers \ {s}
            /\ \A t \in DOMAIN containers' : containers'[t] = containers[t]
      /\ containers' = [t \in DOMAIN containers' |-> containers'[t]]
  BY StartsIs
<1>3. \A t : t # s => HeldEntries(t)' = HeldEntries(t)
  BY <1>1, <1>2 DEF HeldEntries
<1>4. \A t : t # s => Published(t)' = Published(t)
  BY <1>3, PublishedThen, PublishedIs
<1>5. \/ HeldEntries(s)' = HeldEntries(s)
      \/ HeldEntries(s)' = ports[s] /\ Binds(s) /\ ~Overlaps(s)
      \/ HeldEntries(s)' = <<>>
  <2>1. CASE LeftAlone(s)
    BY <1>1, <1>2, <2>1 DEF HeldEntries, LeftAlone
  <2>2. CASE Binds(s) /\ ~Overlaps(s) /\ ~LeftAlone(s)
    BY <1>1, <1>2, <2>2
  <2>3. CASE ~(Binds(s) /\ ~Overlaps(s)) /\ ~LeftAlone(s)
    BY <1>1, <1>2, <2>3
  <2> QED BY <2>1, <2>2, <2>3
<1>6. LeftAlone(s) => containers' = containers
  <2> SUFFICES ASSUME LeftAlone(s) PROVE containers' = containers
    OBVIOUS
  <2>1. s \in DOMAIN containers /\ containers[s] = ports[s]
    BY DEF LeftAlone
  <2>2. DOMAIN containers' = DOMAIN containers /\ \A t \in DOMAIN containers' : containers'[t] = containers[t]
    BY <2>1, <1>2
  <2>3. containers = [t \in DOMAIN containers |-> containers[t]]
    BY DEF PortsTypeOK
  <2> QED BY <2>2, <2>3, <1>2
<1> QED BY <1>3, <1>4, <1>5, <1>6

\* What an `up` was stopped leaves of its ports.
LEMMA AgainHeld ==
  ASSUME PortsTypeOK, Started, Again
  PROVE  \A s : /\ DOMAIN containers' \subseteq DOMAIN containers
                /\ s \in DOMAIN containers' => containers'[s] = containers[s]
                /\ Published(s)' \subseteq Published(s)
<1> PICK up \in SUBSET PortServices, f \in PortFiles : containers' = [s \in up |-> containers[s]]
  BY DEF Again
<1>1. up \subseteq DOMAIN containers
  BY AllPassed DEF Started, Again
<1>2. DOMAIN containers' = up /\ \A s \in up : containers'[s] = containers[s]
  OBVIOUS
<1>3. \A s : HeldEntries(s)' = HeldEntries(s) \/ HeldEntries(s)' = <<>>
  BY <1>1, <1>2 DEF HeldEntries
<1>4. PublishedBy(<<>>) = {}
  BY PublishedIs
<1> QED BY <1>1, <1>2, <1>3, <1>4, PublishedThen, PublishedIs

\* A port stays with one entry, since the runtime binds a port once.
LEMMA ApartStep ==
  ASSUME PortsTypeOK, Started, PortsApart, [PortsNext]_portVars
  PROVE  PortsApart'
<1>1. CASE Starts
  <2> PICK s : s = PortOrder[at]
    OBVIOUS
  <2>1. s \in PortServices /\ others' = others
    BY <1>1, StartsIs DEF Starts
  <2>2. /\ \A t : t # s => HeldEntries(t)' = HeldEntries(t) /\ Published(t)' = Published(t)
        /\ \/ HeldEntries(s)' = HeldEntries(s)
           \/ HeldEntries(s)' = ports[s] /\ Binds(s) /\ ~Overlaps(s)
           \/ HeldEntries(s)' = <<>>
    BY <1>1, StartsHeld
  <2>3. \A t \in PortServices : \A i, j \in DOMAIN HeldEntries(t)' :
          i # j => PortsOf(HeldEntries(t)'[i]) \cap PortsOf(HeldEntries(t)'[j]) = {}
    <3>1. \A t \in PortServices : \A i, j \in DOMAIN HeldEntries(t) :
            i # j => PortsOf(HeldEntries(t)[i]) \cap PortsOf(HeldEntries(t)[j]) = {}
      BY DEF PortsApart, HeldEntries
    <3>2. ~Overlaps(s) => \A i, j \in DOMAIN ports[s] : i # j => PortsOf(ports[s][i]) \cap PortsOf(ports[s][j]) = {}
      BY DEF Overlaps
    <3> TAKE t \in PortServices
    <3>3. CASE HeldEntries(t)' = HeldEntries(t)
      BY <3>1, <3>3
    <3>4. CASE t = s /\ HeldEntries(s)' = ports[s] /\ Binds(s) /\ ~Overlaps(s)
      BY <3>2, <3>4
    <3>5. CASE t = s /\ HeldEntries(s)' = <<>>
      BY <3>5
    <3> QED BY <2>2, <3>3, <3>4, <3>5
  <2>4. \A x \in Published(s)' : \/ x \in Published(s)
                                 \/ x \notin others \cup Denied /\ \A t \in PortServices : t # s => x \notin Published(t)
    <3> TAKE x \in Published(s)'
    <3>1. Published(s)' = PublishedBy(HeldEntries(s)')
      BY PublishedThen
    <3>2. CASE HeldEntries(s)' = HeldEntries(s)
      BY <3>1, <3>2, PublishedIs
    <3>3. CASE HeldEntries(s)' = <<>>
      BY <3>1, <3>3, PublishedIs
    <3>4. CASE HeldEntries(s)' = ports[s] /\ Binds(s)
      <4>0. PICK i \in DOMAIN ports[s] : \E n \in PortsOf(ports[s][i]) : x = <<ports[s][i].addr, n>>
        BY <3>1, <3>4, PublishedIs
      <4>1. PICK n \in PortsOf(ports[s][i]) : x = <<ports[s][i].addr, n>>
        BY <4>0
      <4>2. ports[s][i] \in ToSet(ports[s])
        BY DEF ToSet
      <4>3. /\ <<ports[s][i].addr, n>> \notin others \cup UNION {Published(t) : t \in PortServices \ {s}}
            /\ <<ports[s][i].addr, n>> \notin Denied
        BY <3>4, <4>2 DEF Binds
      <4> QED BY <4>1, <4>3
    <3> QED BY <2>2, <3>2, <3>3, <3>4
  <2>5. \A t, u \in PortServices : t # u => Published(t)' \cap Published(u)' = {}
    <3>1. \A t, u \in PortServices : t # u => Published(t) \cap Published(u) = {}
      BY DEF PortsApart
    <3> QED BY <2>1, <2>2, <2>4, <3>1
  <2>6. \A t \in PortServices : Published(t)' \cap (others' \cup Denied) = {}
    BY <2>1, <2>2, <2>4 DEF PortsApart
  <2>7. \A t \in DOMAIN containers' : t \in PortServices /\ HeldEntries(t)' = containers'[t]
    BY <1>1, StartsIs DEF PortsTypeOK, HeldEntries
  <2> QED BY <2>3, <2>5, <2>6, <2>7 DEF PortsApart, PortsOf
<1>2. CASE Again
  <2>1. \A s : /\ DOMAIN containers' \subseteq DOMAIN containers
               /\ s \in DOMAIN containers' => containers'[s] = containers[s]
               /\ Published(s)' \subseteq Published(s)
    BY <1>2, AgainHeld
  <2>2. others' = others
    BY <1>2 DEF Again
  <2>3. \A s \in DOMAIN containers' : \A i, j \in DOMAIN containers'[s] :
          i # j => PortsOf(containers'[s][i]) \cap PortsOf(containers'[s][j]) = {}
    BY <2>1 DEF PortsApart
  <2>4. /\ \A s, t \in PortServices : s # t => Published(s)' \cap Published(t)' = {}
        /\ \A s \in PortServices : Published(s)' \cap (others' \cup Denied) = {}
    BY <2>1, <2>2 DEF PortsApart
  <2> QED BY <2>3, <2>4 DEF PortsApart, PortsOf
<1>3. CASE ~Starts /\ ~Again
  <2>1. containers' = containers
    BY <1>3, Zenon DEF PortsNext, portVars, LooksAtAddresses, PassesOn, Settles, TurnsToRemap, Remaps, TurnsToCheck,
                ChecksPorts, TurnsToStart, OthersCome
  <2>2. others' = others \/ others' \cap UNION {Published(s) : s \in PortServices} = {}
    BY <1>3, Zenon DEF PortsNext, portVars, LooksAtAddresses, PassesOn, Settles, TurnsToRemap, Remaps, TurnsToCheck,
                ChecksPorts, TurnsToStart, OthersCome
  <2>3. \A s : Published(s)' = Published(s)
    BY <2>1, PublishedStays
  <2>4. /\ \A s, t \in PortServices : s # t => Published(s)' \cap Published(t)' = {}
        /\ \A s \in PortServices : Published(s)' \cap (others' \cup Denied) = {}
    BY <2>2, <2>3 DEF PortsApart
  <2>5. \A s \in DOMAIN containers' : \A i, j \in DOMAIN containers'[s] :
          i # j => PortsOf(containers'[s][i]) \cap PortsOf(containers'[s][j]) = {}
    BY <2>1 DEF PortsApart
  <2> QED BY <2>4, <2>5 DEF PortsApart, PortsOf
<1> QED BY <1>1, <1>2, <1>3
-----------------------------------------------------------------------------
(* What is claimed, and what is handed out.                                *)

\* The entry of a walk and that of the file are the same kind of entry.
LEMMA BareSingleIs ==
  ASSUME PortsTypeOK
  PROVE  \A s \in PortServices : \A l \in DOMAIN ports[s] :
           /\ l \in DOMAIN file[s] /\ file[s][l] \in PortEntries
           /\ LineOf(ports[s][l], file[s][l]) /\ ports[s][l] \in PortEntries
           /\ BareSingle(ports[s][l]) <=> BareSingle(file[s][l])
           /\ BareSingle(file[s][l]) => file[s][l].lo = file[s][l].c
<1> TAKE s \in PortServices
<1> TAKE l \in DOMAIN ports[s]
<1>1. l \in DOMAIN file[s] /\ LineOf(ports[s][l], file[s][l]) /\ file \in PortFiles
  BY DEF PortsTypeOK, LinesOf
<1>2. /\ file[s][l] \in PortEntries /\ file[s][l].lo <= file[s][l].hi
      /\ file[s][l].bare => file[s][l].lo = file[s][l].c /\ (file[s][l].many \/ Single(file[s][l]))
  BY <1>1, FilesAre
<1>3. BareSingle(file[s][l]) => BareSingle(ports[s][l])
  BY <1>1 DEF LineOf, BareSingle
<1>4. BareSingle(ports[s][l]) => BareSingle(file[s][l])
  BY <1>1, <1>2 DEF LineOf, BareSingle
<1> QED BY <1>1, <1>2, <1>3, <1>4, Zenon DEF LineOf, BareSingle

\* The second walk hands a port to an entry.
HandedTo(s, l, n) ==
  /\ ports'[s][l] = Moved(ports[s][l], n)
  /\ claims' = claims \cup {Claim(s, Moved(ports[s][l], n), FALSE)}
Allowed(s, e, n) ==
  n \in Kept(s, e) \/ (Kept(s, e) = {} /\ (n = e.lo \/ n \notin SpokenFor(s, e)))

\* What the second walk does to an entry and to the claims.
LEMMA Decides ==
  ASSUME PortsTypeOK, LinesInTime, Remaps, NEW s, s = PortOrder[at], NEW l, l = line
  PROVE  /\ s \in PortServices /\ l \in DOMAIN ports[s] /\ ~Passed(s, l)
         /\ \A t \in PortServices : DOMAIN ports'[t] = DOMAIN ports[t]
         /\ \A t \in PortServices : \A j \in DOMAIN ports[t] : (t # s \/ j # l) => ports'[t][j] = ports[t][j]
         /\ \A t \in PortServices : \A j \in DOMAIN ports[t] : Passed(t, j)' <=> Passed(t, j) \/ (t = s /\ j = l)
         /\ BareSingle(ports[s][l]) => ports[s][l] = file[s][l] /\ ports[s][l].lo = ports[s][l].c
         /\ \/ ports' = ports /\ claims' = claims /\ (BareSingle(ports[s][l]) => Kept(s, ports[s][l]) = {})
            \/ /\ BareSingle(ports[s][l])
               /\ \E n \in HostPortNumbers : HandedTo(s, l, n) /\ Allowed(s, ports[s][l], n)
<1>1. /\ s \in PortServices /\ l \in DOMAIN ports[s] /\ ~Passed(s, l)
      /\ \A t \in PortServices : \A j \in DOMAIN ports[t] : Passed(t, j)' <=> Passed(t, j) \/ (t = s /\ j = l)
  BY PassingAnEntry, Zenon DEF Remaps
<1>2. BareSingle(ports[s][l]) => ports[s][l] = file[s][l] /\ ports[s][l].lo = ports[s][l].c
  BY <1>1, BareSingleIs DEF LinesInTime, DecidedYet, Remaps
<1>3. CASE ports' = ports /\ claims' = claims /\ (BareSingle(ports[s][l]) => Kept(s, ports[s][l]) = {})
  BY <1>1, <1>2, <1>3, Zenon
<1>4. CASE /\ BareSingle(ports[s][l])
           /\ \E n \in HostPortNumbers : Hands(s, ports[s][l], n) /\ Allowed(s, ports[s][l], n)
  <2>0. PICK n \in HostPortNumbers : Hands(s, ports[s][l], n) /\ Allowed(s, ports[s][l], n)
    BY <1>4
  <2>1. ports' = [ports EXCEPT ![s][l] = Moved(ports[s][l], n)]
    BY <1>1, <2>0 DEF Hands
  <2>4. claims' = claims \cup {Claim(s, Moved(ports[s][l], n), FALSE)}
    BY <2>0 DEF Hands
  <2>2. file' = file /\ BareSingle(file[s][l])
    BY <1>1, <1>4, BareSingleIs, Zenon DEF Remaps
  <2>3. /\ ports'[s][l] = Moved(ports[s][l], n)
        /\ \A t \in PortServices : \A j \in DOMAIN ports[t] : (t # s \/ j # l) => ports'[t][j] = ports[t][j]
        /\ \A t \in PortServices : DOMAIN ports'[t] = DOMAIN ports[t]
    <3>1. file' = file /\ (BareSingle(file[s][l]) \/ (~file[s][l].many /\ ~Single(file[s][l])))
      BY <2>2
    <3>2. s \in PortServices /\ l \in DOMAIN ports[s] /\ n \in HostPortNumbers
      BY <1>1
    <3> QED BY ONLY PortsTypeOK, <3>1, <3>2, <2>1, OneMoves
  <2>5. HandedTo(s, l, n)
    BY <2>3, <2>4 DEF HandedTo
  <2> QED BY <1>1, <1>2, <1>4, <2>0, <2>3, <2>5, Zenon
<1>5. \/ ports' = ports /\ claims' = claims /\ (BareSingle(ports[s][l]) => Kept(s, ports[s][l]) = {})
      \/ /\ BareSingle(ports[s][l])
         /\ \E n \in HostPortNumbers : Hands(s, ports[s][l], n) /\ Allowed(s, ports[s][l], n)
  BY RemapsIs, Zenon DEF Allowed
<1> QED BY <1>3, <1>4, <1>5, Zenon

\* A moved entry is still a bare one.
LEMMA MovedStaysBare ==
  ASSUME NEW e \in PortEntries, BareSingle(e), NEW n \in HostPortNumbers
  PROVE  BareSingle(Moved(e, n))
BY MovedIs DEF BareSingle

\* The second walk begins with what the lines that are not bare ask for.
LEMMA ClaimsInit ==
  ASSUME PortsTypeOK, TurnsToRemap
  PROVE  ClaimsTrue'
<1>1. ports' = ports /\ claims' = FileClaims /\ at' = 1 /\ line' = 1
  BY DEF TurnsToRemap
<1>2. \A s \in PortServices : \A l \in DOMAIN ports[s] : ~BareSingle(ports[s][l]) => Claim(s, ports[s][l], TRUE) \in FileClaims
  <2> TAKE s \in PortServices
  <2> TAKE l \in DOMAIN ports[s]
  <2> HAVE ~BareSingle(ports[s][l])
  <2>1. ports[s][l] \in {x \in ToSet(ports[s]) : ~BareSingle(x)}
    BY DEF ToSet
  <2>2. Claim(s, ports[s][l], TRUE) \in {Claim(s, e, TRUE) : e \in {x \in ToSet(ports[s]) : ~BareSingle(x)}}
    BY <2>1
  <2> QED BY <2>2 DEF FileClaims
<1>3. ASSUME NEW cl \in FileClaims
      PROVE  \E s \in PortServices : \E l \in DOMAIN ports[s] : ~BareSingle(ports[s][l]) /\ cl = Claim(s, ports[s][l], TRUE)
  <2>1. PICK s \in PortServices : cl \in {Claim(s, e, TRUE) : e \in {x \in ToSet(ports[s]) : ~BareSingle(x)}}
    BY <1>3 DEF FileClaims
  <2>2. PICK e \in ToSet(ports[s]) : ~BareSingle(e) /\ cl = Claim(s, e, TRUE)
    BY <2>1
  <2>3. PICK l \in DOMAIN ports[s] : e = ports[s][l]
    BY DEF ToSet
  <2> QED BY <2>2, <2>3
<1> QED BY <1>1, <1>2, <1>3 DEF ClaimsTrue, Claim, BareSingle, Single

\* Handing a port to an entry adds its claim, and no other.
LEMMA ClaimsRemaps ==
  ASSUME PortsTypeOK, LinesInTime, ClaimsTrue, Remaps
  PROVE  ClaimsTrue'
<1> PICK s : s = PortOrder[at]
  OBVIOUS
<1> PICK l : l = line
  OBVIOUS
<1>1. /\ s \in PortServices /\ l \in DOMAIN ports[s] /\ ~Passed(s, l)
      /\ \A t \in PortServices : DOMAIN ports'[t] = DOMAIN ports[t]
      /\ \A t \in PortServices : \A j \in DOMAIN ports[t] : (t # s \/ j # l) => ports'[t][j] = ports[t][j]
      /\ \A t \in PortServices : \A j \in DOMAIN ports[t] : Passed(t, j)' <=> Passed(t, j) \/ (t = s /\ j = l)
  BY Decides
<1>7. \/ ports' = ports /\ claims' = claims
      \/ /\ BareSingle(ports[s][l])
         /\ \E n \in HostPortNumbers : HandedTo(s, l, n)
  BY Decides
<1>2. step = "remap" /\ ports[s][l] \in PortEntries
  BY <1>1, BareSingleIs, Zenon DEF Remaps
<1>3. /\ \A t \in PortServices : \A j \in DOMAIN ports[t] : ~BareSingle(ports[t][j]) => Claim(t, ports[t][j], TRUE) \in claims
      /\ \A cl \in claims : \E t \in PortServices : \E j \in DOMAIN ports[t] :
           \/ ~BareSingle(ports[t][j]) /\ cl = Claim(t, ports[t][j], TRUE)
           \/ BareSingle(ports[t][j]) /\ Passed(t, j) /\ cl = Claim(t, ports[t][j], FALSE)
  BY <1>2 DEF ClaimsTrue
<1>4. SUFFICES /\ \A t \in PortServices : \A j \in DOMAIN ports'[t] :
                    ~BareSingle(ports'[t][j]) => Claim(t, ports'[t][j], TRUE) \in claims'
               /\ \A cl \in claims' : \E t \in PortServices : \E j \in DOMAIN ports'[t] :
                    \/ ~BareSingle(ports'[t][j]) /\ cl = Claim(t, ports'[t][j], TRUE)
                    \/ BareSingle(ports'[t][j]) /\ Passed(t, j)' /\ cl = Claim(t, ports'[t][j], FALSE)
  BY Zenon DEF ClaimsTrue, Claim, BareSingle, Single
<1>5. CASE ports' = ports /\ claims' = claims
  <2>1. \A t \in PortServices : \A j \in DOMAIN ports[t] : Passed(t, j) => Passed(t, j)'
    BY <1>1
  <2>2. \A t \in PortServices : \A j \in DOMAIN ports'[t] : ~BareSingle(ports'[t][j]) => Claim(t, ports'[t][j], TRUE) \in claims'
    BY <1>3, <1>5
  <2>3. \A cl \in claims' : \E t \in PortServices : \E j \in DOMAIN ports'[t] :
          \/ ~BareSingle(ports'[t][j]) /\ cl = Claim(t, ports'[t][j], TRUE)
          \/ BareSingle(ports'[t][j]) /\ Passed(t, j)' /\ cl = Claim(t, ports'[t][j], FALSE)
    BY <1>3, <1>5, <2>1, ZenonT(60)
  <2> QED BY <2>2, <2>3
<1>6. CASE /\ BareSingle(ports[s][l])
           /\ \E n \in HostPortNumbers : HandedTo(s, l, n)
  <2>0. PICK n \in HostPortNumbers : /\ ports'[s][l] = Moved(ports[s][l], n)
                                     /\ claims' = claims \cup {Claim(s, Moved(ports[s][l], n), FALSE)}
    BY <1>6 DEF HandedTo
  <2>1. BareSingle(ports'[s][l])
    BY <1>2, <1>6, <2>0, MovedStaysBare
  <2>2. \A t \in PortServices : \A j \in DOMAIN ports'[t] : ~BareSingle(ports'[t][j]) => Claim(t, ports'[t][j], TRUE) \in claims'
    <3> TAKE t \in PortServices
    <3> TAKE j \in DOMAIN ports'[t]
    <3> HAVE ~BareSingle(ports'[t][j])
    <3>1. (t # s \/ j # l) /\ j \in DOMAIN ports[t]
      BY <1>1, <2>1
    <3>2. ports'[t][j] = ports[t][j]
      BY <1>1, <3>1
    <3>3. Claim(t, ports[t][j], TRUE) \in claims
      BY <1>3, <3>1, <3>2
    <3> QED BY <3>2, <3>3, <2>0
  <2>3. ASSUME NEW cl \in claims
        PROVE  \E t \in PortServices : \E j \in DOMAIN ports'[t] :
                 \/ ~BareSingle(ports'[t][j]) /\ cl = Claim(t, ports'[t][j], TRUE)
                 \/ BareSingle(ports'[t][j]) /\ Passed(t, j)' /\ cl = Claim(t, ports'[t][j], FALSE)
    <3>1. PICK t \in PortServices : \E j \in DOMAIN ports[t] :
                 \/ ~BareSingle(ports[t][j]) /\ cl = Claim(t, ports[t][j], TRUE)
                 \/ BareSingle(ports[t][j]) /\ Passed(t, j) /\ cl = Claim(t, ports[t][j], FALSE)
      BY <1>3
    <3>2. PICK j \in DOMAIN ports[t] :
                 \/ ~BareSingle(ports[t][j]) /\ cl = Claim(t, ports[t][j], TRUE)
                 \/ BareSingle(ports[t][j]) /\ Passed(t, j) /\ cl = Claim(t, ports[t][j], FALSE)
      BY <3>1
    <3>3. t # s \/ j # l
      BY <1>1, <1>6, <3>2
    <3> QED BY <1>1, <3>2, <3>3
  <2>4. \E t \in PortServices : \E j \in DOMAIN ports'[t] :
          BareSingle(ports'[t][j]) /\ Passed(t, j)' /\ Claim(s, Moved(ports[s][l], n), FALSE) = Claim(t, ports'[t][j], FALSE)
    BY <1>1, <2>0, <2>1
  <2>5. ASSUME NEW cl \in claims'
        PROVE  \E t \in PortServices : \E j \in DOMAIN ports'[t] :
                 \/ ~BareSingle(ports'[t][j]) /\ cl = Claim(t, ports'[t][j], TRUE)
                 \/ BareSingle(ports'[t][j]) /\ Passed(t, j)' /\ cl = Claim(t, ports'[t][j], FALSE)
    <3>1. CASE cl \in claims
      BY <2>3, <3>1
    <3>2. CASE cl = Claim(s, Moved(ports[s][l], n), FALSE)
      BY <2>4, <3>2
    <3> QED BY <2>0, <3>1, <3>2
  <2> QED BY <2>2, <2>5
<1> QED BY <1>7, <1>5, <1>6

\* What is claimed stays what is asked for or was handed out.
LEMMA ClaimsStep ==
  ASSUME PortsTypeOK, LinesInTime, ClaimsTrue, [PortsNext]_portVars
  PROVE  ClaimsTrue'
<1>1. CASE TurnsToRemap
  BY <1>1, ClaimsInit
<1>2. CASE Remaps
  BY <1>2, ClaimsRemaps
<1>3. CASE ~TurnsToRemap /\ ~Remaps /\ step' = "remap"
  <2>1. step = "remap" /\ ports' = ports /\ claims' = claims /\ (PassesOn \/ (at' = at /\ line' = line))
    BY <1>3 DEF PortsNext, portVars, LooksAtAddresses, PassesOn, Settles, TurnsToCheck, ChecksPorts, TurnsToStart,
                Starts, Again, OthersCome
  <2>2. \A s \in PortServices : \A l \in DOMAIN ports[s] : Passed(s, l)' <=> Passed(s, l)
    <3>1. CASE PassesOn
      BY <3>1, PassingOn DEF PassesOn
    <3>2. CASE at' = at /\ line' = line
      BY <3>2 DEF Passed, Place
    <3> QED BY <2>1, <3>1, <3>2
  <2>3. \A s : \A l : (Claim(s, ports[s][l], TRUE)' = Claim(s, ports[s][l], TRUE))
    BY <2>1 DEF Claim
  <2> QED BY <2>1, <2>2 DEF ClaimsTrue, Claim, BareSingle, Single
<1>4. CASE step' # "remap"
  BY <1>4 DEF ClaimsTrue
<1> QED BY <1>1, <1>2, <1>3, <1>4
-----------------------------------------------------------------------------
(* A port that was moved is clear of the others.                           *)

\* Twice asked for, of one pair of lines.
AskedTwice(s, l, t, j) ==
  /\ <<s, l>> # <<t, j>> /\ Single(ports[s][l]) /\ Single(ports[t][j])
  /\ ports[s][l].lo = ports[t][j].lo /\ Collide(s, ports[s][l].addr, t, ports[t][j].addr)

\* What `checkPorts` finds, by service and line.
LEMMA TwiceAskedIs ==
  TwiceAsked <=> \E s, t \in PortServices : \E l \in DOMAIN ports[s] : \E j \in DOMAIN ports[t] : AskedTwice(s, l, t, j)
<1>1. \A k \in PortLines : k[1] \in PortServices /\ k[2] \in DOMAIN ports[k[1]] /\ k = <<k[1], k[2]>>
  BY DEF PortLines
<1>2. \A s \in PortServices : \A l \in DOMAIN ports[s] : <<s, l>> \in PortLines
  BY DEF PortLines
<1>3. ASSUME TwiceAsked
      PROVE  \E s, t \in PortServices : \E l \in DOMAIN ports[s] : \E j \in DOMAIN ports[t] : AskedTwice(s, l, t, j)
  <2>1. PICK k, m \in PortLines : /\ k # m /\ Single(EntryAt(k)) /\ Single(EntryAt(m))
                                  /\ EntryAt(k).lo = EntryAt(m).lo /\ LinesCollide(k, m)
    BY <1>3 DEF TwiceAsked
  <2>2. AskedTwice(k[1], k[2], m[1], m[2])
    BY <1>1, <2>1, Zenon DEF AskedTwice, EntryAt, LinesCollide
  <2> QED BY <1>1, <2>2
<1>4. ASSUME NEW s \in PortServices, NEW t \in PortServices, NEW l \in DOMAIN ports[s], NEW j \in DOMAIN ports[t],
             AskedTwice(s, l, t, j)
      PROVE  TwiceAsked
  <2>1. LET k == <<s, l>>
            m == <<t, j>>
        IN /\ k # m /\ Single(EntryAt(k)) /\ Single(EntryAt(m))
           /\ EntryAt(k).lo = EntryAt(m).lo /\ LinesCollide(k, m)
    BY <1>4 DEF AskedTwice, EntryAt, LinesCollide
  <2>2. <<s, l>> \in PortLines /\ <<t, j>> \in PortLines
    BY <1>2
  <2> QED BY <2>1, <2>2 DEF TwiceAsked
<1> QED BY <1>3, <1>4

\* Two entries collide whichever is named first.
LEMMA LinesCollideBack == \A s, a, t, b : Collide(s, a, t, b) <=> Collide(t, b, s, a)
BY DEF Collide

\* What the range's line claims is seen when a port is handed out.
LEMMA HandedClear ==
  ASSUME PortsTypeOK, ClaimsTrue, step = "remap",
         NEW s \in PortServices, NEW l \in DOMAIN ports[s], ~Passed(s, l), NEW n \in HostPortNumbers,
         Allowed(s, ports[s][l], n), n # ports[s][l].lo,
         NEW t \in PortServices, NEW j \in DOMAIN ports[t], ~Single(ports[t][j]), n \in PortsOf(ports[t][j]),
         Collide(s, ports[s][l].addr, t, ports[t][j].addr)
  PROVE  \E u \in PortServices : \E m \in DOMAIN ports[u] :
           /\ <<u, m>> # <<s, l>> /\ Passed(u, m) /\ Single(ports[u][m])
           /\ ports[u][m].lo = n /\ Collide(u, ports[u][m].addr, s, ports[s][l].addr)
<1> DEFINE addr == ports[s][l].addr
           cl == Claim(t, ports[t][j], TRUE)
           single == {c \in ClaimsOn(n, s, addr) : c.lo = c.hi}
<1>1. cl \in claims /\ cl.svc = t /\ cl.addr = ports[t][j].addr /\ cl.lo = ports[t][j].lo /\ cl.hi = ports[t][j].hi /\ cl.fromFile
  BY Zenon DEF ClaimsTrue, Claim, BareSingle
<1>2. cl \in ClaimsOn(n, s, addr)
  BY <1>1, LinesCollideBack, ZenonT(60) DEF ClaimsOn, PortsOf
<1>3. n \in SpokenFor(s, ports[s][l])
  BY <1>2 DEF SpokenFor, Taken
<1>4. ~ClaimedByFile(n, s, addr)
  BY <1>3 DEF Allowed, Kept
<1>5. single # {} /\ \A c \in single : ~c.fromFile
  BY <1>1, <1>2, <1>4 DEF ClaimedByFile
<1>6. PICK c \in single : ~c.fromFile
  BY <1>5
<1>7. c \in claims /\ n \in c.lo .. c.hi /\ Collide(c.svc, c.addr, s, addr) /\ c.lo = c.hi
  BY <1>6 DEF ClaimsOn
<1>8. PICK u \in PortServices : \E m \in DOMAIN ports[u] :
         \/ ~BareSingle(ports[u][m]) /\ c = Claim(u, ports[u][m], TRUE)
         \/ BareSingle(ports[u][m]) /\ Passed(u, m) /\ c = Claim(u, ports[u][m], FALSE)
  BY <1>7 DEF ClaimsTrue
<1>9. PICK m \in DOMAIN ports[u] :
         \/ ~BareSingle(ports[u][m]) /\ c = Claim(u, ports[u][m], TRUE)
         \/ BareSingle(ports[u][m]) /\ Passed(u, m) /\ c = Claim(u, ports[u][m], FALSE)
  BY <1>8
<1>10. BareSingle(ports[u][m]) /\ Passed(u, m) /\ c.svc = u /\ c.addr = ports[u][m].addr /\ c.lo = ports[u][m].lo /\ c.hi = ports[u][m].hi
  BY <1>6, <1>9 DEF Claim
<1>11. ports[u][m].lo \in Nat
  BY BareSingleIs, EntriesAre
<1>12. ports[u][m].lo = n
  BY <1>7, <1>10, <1>11
<1>13. u # s \/ m # l
  BY <1>10
<1> QED BY <1>7, <1>10, <1>12, <1>13 DEF BareSingle

\* An entry handed a port is moved into no range but behind another that has
\* it.
LEMMA RangesRemaps ==
  ASSUME PortsTypeOK, LinesInTime, ClaimsTrue, RangesClear, Remaps
  PROVE  RangesClear'
<1> PICK s : s = PortOrder[at]
  OBVIOUS
<1> PICK l : l = line
  OBVIOUS
<1>1. /\ s \in PortServices /\ l \in DOMAIN ports[s] /\ ~Passed(s, l)
      /\ \A t \in PortServices : DOMAIN ports'[t] = DOMAIN ports[t]
      /\ \A t \in PortServices : \A j \in DOMAIN ports[t] : (t # s \/ j # l) => ports'[t][j] = ports[t][j]
      /\ \A t \in PortServices : \A j \in DOMAIN ports[t] : Passed(t, j)' <=> Passed(t, j) \/ (t = s /\ j = l)
  BY Decides
<1>2. /\ BareSingle(ports[s][l]) => ports[s][l].lo = ports[s][l].c
      /\ \/ ports' = ports
         \/ /\ BareSingle(ports[s][l])
            /\ \E n \in HostPortNumbers : HandedTo(s, l, n) /\ Allowed(s, ports[s][l], n)
  BY Decides
<1>3. step = "remap" /\ ports[s][l] \in PortEntries
  BY <1>1, BareSingleIs, Zenon DEF Remaps
<1>4. SUFFICES ASSUME NEW k \in PortServices, NEW t \in PortServices, NEW i \in DOMAIN ports'[k], NEW j \in DOMAIN ports'[t],
                      Passed(k, i)', Moves(ports'[k][i]), ~Single(ports'[t][j]), ports'[k][i].lo \in PortsOf(ports'[t][j]),
                      Collide(k, ports'[k][i].addr, t, ports'[t][j].addr)
               PROVE  \E u \in PortServices : \E m \in DOMAIN ports'[u] :
                        /\ <<u, m>> # <<k, i>> /\ Passed(u, m)' /\ Single(ports'[u][m])
                        /\ ports'[u][m].lo = ports'[k][i].lo /\ Collide(u, ports'[u][m].addr, k, ports'[k][i].addr)
  BY DEF RangesClear, Moves, BareSingle, Single, PortsOf, Collide
<1>5. i \in DOMAIN ports[k] /\ j \in DOMAIN ports[t]
  BY <1>1
<1>6. ports'[t][j] = ports[t][j]
  <2>1. CASE ports' = ports
    BY <2>1
  <2>2. CASE \E n \in HostPortNumbers : HandedTo(s, l, n)
    <3>1. PICK n \in HostPortNumbers : HandedTo(s, l, n)
      BY <2>2
    <3>2. Single(ports'[s][l])
      BY <1>3, <3>1, MovedIs DEF HandedTo
    <3> QED BY <1>1, <1>4, <1>5, <3>2
  <2> QED BY <1>2, <2>1, <2>2
<1>7. \A u \in PortServices : \A m \in DOMAIN ports[u] : Passed(u, m) => ports'[u][m] = ports[u][m] /\ Passed(u, m)'
  BY <1>1
<1>8. CASE k # s \/ i # l
  <2>1. ports'[k][i] = ports[k][i] /\ Passed(k, i)
    BY <1>1, <1>4, <1>5, <1>8
  <2>2. PICK u \in PortServices : \E m \in DOMAIN ports[u] :
           /\ <<u, m>> # <<k, i>> /\ Passed(u, m) /\ Single(ports[u][m])
           /\ ports[u][m].lo = ports[k][i].lo /\ Collide(u, ports[u][m].addr, k, ports[k][i].addr)
    BY <1>3, <1>4, <1>5, <1>6, <2>1, Zenon DEF RangesClear
  <2>3. PICK m \in DOMAIN ports[u] :
           /\ <<u, m>> # <<k, i>> /\ Passed(u, m) /\ Single(ports[u][m])
           /\ ports[u][m].lo = ports[k][i].lo /\ Collide(u, ports[u][m].addr, k, ports[k][i].addr)
    BY <2>2
  <2>4. ports'[u][m] = ports[u][m] /\ Passed(u, m)' /\ m \in DOMAIN ports'[u]
    BY <1>1, <1>7, <2>3
  <2> QED BY <2>1, <2>3, <2>4
<1>9. CASE k = s /\ i = l
  <2>1. ~(ports' = ports)
    BY <1>1, <1>2, <1>4, <1>9, Zenon DEF Moves
  <2>2. PICK n \in HostPortNumbers : HandedTo(s, l, n) /\ Allowed(s, ports[s][l], n)
    BY <1>2, <2>1
  <2>3. ports'[s][l].lo = n /\ ports'[s][l].addr = ports[s][l].addr /\ ports'[s][l].c = ports[s][l].c
    BY <1>3, <2>2, MovedIs DEF HandedTo
  <2>4. n # ports[s][l].lo
    BY <1>2, <1>4, <1>9, <2>1, <2>3, Zenon DEF Moves
  <2>5. PICK u \in PortServices : \E m \in DOMAIN ports[u] :
           /\ <<u, m>> # <<s, l>> /\ Passed(u, m) /\ Single(ports[u][m])
           /\ ports[u][m].lo = n /\ Collide(u, ports[u][m].addr, s, ports[s][l].addr)
    BY <1>1, <1>3, <1>4, <1>5, <1>6, <1>9, <2>2, <2>3, <2>4, HandedClear
  <2>6. PICK m \in DOMAIN ports[u] :
           /\ <<u, m>> # <<s, l>> /\ Passed(u, m) /\ Single(ports[u][m])
           /\ ports[u][m].lo = n /\ Collide(u, ports[u][m].addr, s, ports[s][l].addr)
    BY <2>5
  <2>7. ports'[u][m] = ports[u][m] /\ Passed(u, m)' /\ m \in DOMAIN ports'[u]
    BY <1>1, <1>7, <2>6
  <2> QED BY <1>9, <2>3, <2>6, <2>7, Zenon
<1> QED BY <1>8, <1>9

\* That stays so to the end of the walk.
LEMMA RangesStep ==
  ASSUME PortsTypeOK, LinesInTime, ClaimsTrue, RangesClear, [PortsNext]_portVars
  PROVE  RangesClear'
<1>1. CASE TurnsToRemap
  <2>1. ports' = ports /\ at' = 1 /\ line' = 1
    BY <1>1 DEF TurnsToRemap
  <2>2. \A s \in PortServices : \A l \in DOMAIN ports'[s] : ~Passed(s, l)'
    BY <2>1, NonePassed
  <2> QED BY <2>2, Zenon DEF RangesClear
<1>2. CASE Remaps
  BY <1>2, RangesRemaps
<1>3. CASE ~TurnsToRemap /\ ~Remaps /\ step' = "remap"
  <2>1. step = "remap" /\ ports' = ports /\ (PassesOn \/ (at' = at /\ line' = line))
    BY <1>3 DEF PortsNext, portVars, LooksAtAddresses, PassesOn, Settles, TurnsToCheck, ChecksPorts, TurnsToStart,
                Starts, Again, OthersCome
  <2>2. \A s \in PortServices : \A l \in DOMAIN ports[s] : Passed(s, l)' <=> Passed(s, l)
    <3>1. CASE PassesOn
      BY <3>1, PassingOn DEF PassesOn
    <3>2. CASE at' = at /\ line' = line
      BY <3>2 DEF Passed, Place
    <3> QED BY <2>1, <3>1, <3>2
  <2> QED BY <2>1, <2>2 DEF RangesClear, Moves, BareSingle, Single, PortsOf, Collide
<1>4. CASE step' # "remap"
  BY <1>4, Zenon DEF RangesClear
<1> QED BY <1>1, <1>2, <1>3, <1>4

\* With every entry decided and none asked for twice, a moved one collides
\* with no other.
LEMMA ClearWhenDecided ==
  ASSUME PortsTypeOK, RangesClear, step = "remap", ServicesAreThrough, ~TwiceAsked,
         NEW k \in PortLines, NEW l \in PortLines, k # l, BareSingle(EntryAt(k)), EntryAt(k).lo # EntryAt(k).c,
         EntryAt(k).lo \in PortsOf(EntryAt(l))
  PROVE  ~LinesCollide(k, l)
<1>1. /\ k[1] \in PortServices /\ k[2] \in DOMAIN ports[k[1]] /\ k = <<k[1], k[2]>>
      /\ l[1] \in PortServices /\ l[2] \in DOMAIN ports[l[1]] /\ l = <<l[1], l[2]>>
  BY DEF PortLines
<1>2. PICK s \in PortServices : s = k[1]
  BY <1>1
<1>3. PICK i \in DOMAIN ports[s] : i = k[2]
  BY <1>1, <1>2
<1>4. PICK t \in PortServices : t = l[1]
  BY <1>1
<1>5. PICK j \in DOMAIN ports[t] : j = l[2]
  BY <1>1, <1>4
<1>6. /\ <<s, i>> # <<t, j>> /\ BareSingle(ports[s][i]) /\ ports[s][i].lo # ports[s][i].c
      /\ ports[s][i].lo \in PortsOf(ports[t][j])
  BY <1>1, <1>2, <1>3, <1>4, <1>5 DEF EntryAt
<1>7. SUFFICES ASSUME Collide(s, ports[s][i].addr, t, ports[t][j].addr) PROVE FALSE
  BY <1>1, <1>2, <1>3, <1>4, <1>5 DEF LinesCollide, EntryAt
<1>8. CASE Single(ports[t][j])
  <2>1. ports[t][j].lo \in Nat /\ ports[s][i].lo \in Nat
    BY BareSingleIs, EntriesAre
  <2>2. ports[t][j].lo = ports[s][i].lo
    BY <1>6, <1>8, <2>1 DEF PortsOf, Single
  <2>3. AskedTwice(s, i, t, j)
    BY <1>6, <1>7, <1>8, <2>2 DEF AskedTwice, BareSingle
  <2> QED BY <2>3, TwiceAskedIs
<1>9. CASE ~Single(ports[t][j])
  <2>1. Passed(s, i)
    BY AllPassed
  <2>2. PICK u \in PortServices : \E m \in DOMAIN ports[u] :
           /\ <<u, m>> # <<s, i>> /\ Passed(u, m) /\ Single(ports[u][m])
           /\ ports[u][m].lo = ports[s][i].lo /\ Collide(u, ports[u][m].addr, s, ports[s][i].addr)
    BY <1>6, <1>7, <1>9, <2>1, Zenon DEF RangesClear, Moves
  <2>3. PICK m \in DOMAIN ports[u] :
           /\ <<u, m>> # <<s, i>> /\ Passed(u, m) /\ Single(ports[u][m])
           /\ ports[u][m].lo = ports[s][i].lo /\ Collide(u, ports[u][m].addr, s, ports[s][i].addr)
    BY <2>2
  <2>4. AskedTwice(u, m, s, i)
    BY <1>6, <2>3 DEF AskedTwice, BareSingle
  <2> QED BY <2>4, TwiceAskedIs
<1> QED BY <1>8, <1>9

\* Whether entries collide is a matter of the entries alone.
LEMMA ClearStays ==
  ASSUME UNCHANGED ports
  PROVE  /\ TwiceAsked' <=> TwiceAsked
         /\ PortLines' = PortLines
         /\ \A k, l : /\ BareSingle(EntryAt(k))' <=> BareSingle(EntryAt(k))
                      /\ EntryAt(k)' = EntryAt(k) /\ PortsOf(EntryAt(l))' = PortsOf(EntryAt(l))
                      /\ LinesCollide(k, l)' <=> LinesCollide(k, l)
BY DEF TwiceAsked, PortLines, EntryAt, BareSingle, Single, PortsOf, LinesCollide, Collide

\* A run that comes to its check has no moved entry on another's port: no
\* step after it changes one.
LEMMA CheckClearStep ==
  ASSUME PortsTypeOK, RangesClear, CheckClear, [PortsNext]_portVars
  PROVE  CheckClear'
<1>1. CASE TurnsToCheck /\ step' = "check"
  <2>1. step = "remap" /\ ServicesAreThrough /\ ~TwiceAsked /\ ports' = ports
    BY <1>1 DEF TurnsToCheck
  <2>2. ~TwiceAsked'
    BY <2>1, ClearStays
  <2>3. MovedIsClear'
    <3> SUFFICES ASSUME NEW k \in PortLines, NEW l \in PortLines, k # l, BareSingle(EntryAt(k)),
                        EntryAt(k).lo # EntryAt(k).c, EntryAt(k).lo \in PortsOf(EntryAt(l))
                 PROVE  ~LinesCollide(k, l)
      BY <2>1, ClearStays DEF MovedIsClear
    <3> QED BY <2>1, ClearWhenDecided
  <2> QED BY <2>2, <2>3 DEF CheckClear
<1>2. CASE ~(TurnsToCheck /\ step' = "check") /\ step' \in {"check", "start"}
  <2>1. step \in {"check", "start"} /\ ports' = ports
    BY <1>2, Zenon DEF PortsNext, portVars, LooksAtAddresses, PassesOn, Settles, TurnsToRemap, Remaps, TurnsToCheck, ChecksPorts,
                TurnsToStart, Starts, Again, OthersCome
  <2>2. ~TwiceAsked /\ MovedIsClear
    BY <2>1 DEF CheckClear
  <2>3. ~TwiceAsked'
    BY <2>1, <2>2, ClearStays
  <2>4. MovedIsClear'
    BY <2>1, <2>2, ClearStays DEF MovedIsClear
  <2> QED BY <2>3, <2>4 DEF CheckClear
<1>3. CASE step' \notin {"check", "start"}
  BY <1>3 DEF CheckClear
<1> QED BY <1>1, <1>2, <1>3
-----------------------------------------------------------------------------
(* What the checks have seen.                                              *)

\* An address that was there when looked at is there while nothing comes or
\* goes.
LEMMA AddressesStep ==
  ASSUME PortsTypeOK, AddressesAsked, [PortsNext]_portVars
  PROVE  AddressesAsked'
<1>1. CASE ~quiet'
  BY <1>1 DEF AddressesAsked
<1>2. CASE LooksAtAddresses /\ quiet'
  <2>1. /\ step' \in {"settle", "refused"} /\ (step' = "settle" => ~AddressRefused)
        /\ file' = file /\ containers' = containers /\ gone' = gone
    BY <1>2 DEF LooksAtAddresses
  <2>2. ASSUME ~AddressRefused
        PROVE  \A s \in PortServices \ DOMAIN containers : \A l \in DOMAIN file[s] : file[s][l].addr \notin gone
    <3> TAKE s \in PortServices \ DOMAIN containers
    <3> TAKE l \in DOMAIN file[s]
    <3>1. l \in DOMAIN ports[s] /\ ports[s][l].addr = file[s][l].addr
      BY DEF PortsTypeOK, LinesOf, LineOf
    <3>2. ports[s][l] \in ToSet(ports[s])
      BY <3>1 DEF ToSet
    <3> QED BY <2>2, <3>1, <3>2 DEF AddressRefused
  <2> QED BY <2>1, <2>2 DEF AddressesAsked
<1>3. CASE TurnsToCheck /\ quiet'
  BY <1>3 DEF TurnsToCheck, AddressesAsked
<1>4. CASE ~LooksAtAddresses /\ ~TurnsToCheck /\ quiet' /\ step' \in {"settle", "remap"}
  <2>1. /\ step \in {"settle", "remap"} /\ quiet /\ file' = file /\ containers' = containers /\ gone' = gone
    BY <1>4, Zenon DEF PortsNext, portVars, PassesOn, Settles, TurnsToRemap, Remaps, ChecksPorts, TurnsToStart, Starts, Again, OthersCome
  <2> QED BY <1>4, <2>1 DEF AddressesAsked
<1>5. CASE ~LooksAtAddresses /\ ~TurnsToCheck /\ quiet' /\ step' \in {"check", "start"}
  <2>1. /\ step \in {"check", "start"} /\ quiet /\ file' = file /\ running' = running /\ gone' = gone
    BY <1>5, Zenon DEF PortsNext, portVars, PassesOn, Settles, TurnsToRemap, Remaps, ChecksPorts, TurnsToStart, Starts, Again, OthersCome
  <2> QED BY <1>5, <2>1 DEF AddressesAsked
<1>6. CASE step' \notin {"settle", "remap", "check", "start"}
  BY <1>6 DEF AddressesAsked
<1> QED BY <1>1, <1>2, <1>3, <1>4, <1>5, <1>6

\* What the check lets through, as it goes.
LEMMA LetThrough ==
  ASSUME PortsTypeOK, PortsApart, running = DOMAIN containers,
         \A l \in freed : \E u \in PortServices : Place(u) < at /\ l \in Published(u),
         NEW s \in PortServices, Place(s) = at, ~Conflicts(s)
  PROVE  Checked(s)
<1> SUFFICES ASSUME NEW e \in ToSet(ports[s]), Single(e), ~HeldElsewhere(s, e)
             PROVE  /\ ~(s \notin running /\ <<e.addr, e.lo>> \in others \cup Denied)
                    /\ \A t \in PortServices : Place(t) > Place(s) => <<e.addr, e.lo>> \notin Published(t)
  BY DEF Checked
<1> DEFINE b == <<e.addr, e.lo>>
<1>1. \A l \in freed \cup Published(s) : l[2] = e.lo => l = b
  <2> SUFFICES ASSUME NEW l \in freed \cup Published(s), l[2] = e.lo PROVE l = b
    OBVIOUS
  <2>1. l[1] = e.addr
    BY DEF HeldElsewhere
  <2>2. \E u : l \in Published(u)
    OBVIOUS
  <2>3. l = <<l[1], l[2]>>
    BY <2>2, PublishedIs
  <2> QED BY <2>1, <2>3
<1>2. e.lo \in Numbers(Published(s)) \cup Numbers(freed) => b \in freed \cup Published(s)
  BY <1>1 DEF Numbers
<1>3. b \in freed \cup Published(s) => \E u \in PortServices : Place(u) <= at /\ b \in Published(u)
  BY PlaceIs DEF PortsTypeOK
<1>4. /\ ~(Ask(e.addr, e.lo) = "taken" /\ e.lo \notin Numbers(Published(s)) \cup Numbers(freed) /\ (s \notin running \/ HeldByUs(e.lo)))
      /\ ~(Ask(e.addr, e.lo) = "refused" /\ s \notin running)
  BY DEF Conflicts
<1>5. ASSUME s \notin running, b \in others \cup Denied PROVE FALSE
  <2>1. \A u \in PortServices : b \notin Published(u)
    BY <1>5 DEF PortsApart
  <2>2. e.lo \notin Numbers(Published(s)) \cup Numbers(freed)
    BY <1>2, <1>3, <2>1
  <2>3. Ask(e.addr, e.lo) # "taken"
    BY <1>4, <1>5, <2>2
  <2>4. Ask(e.addr, e.lo) \in {"taken", "refused"}
    BY <1>5 DEF Ask, Listening
  <2> QED BY <1>4, <1>5, <2>3, <2>4
<1>6. ASSUME NEW t \in PortServices, Place(t) > Place(s), b \in Published(t) PROVE FALSE
  <2>1. \A u \in PortServices : u # t => b \notin Published(u)
    BY <1>6 DEF PortsApart
  <2>2. \A u \in PortServices : Place(u) <= at => u # t
    BY <1>6, PlaceIs DEF PortsTypeOK
  <2>3. e.lo \notin Numbers(Published(s)) \cup Numbers(freed)
    BY <1>2, <1>3, <2>1, <2>2
  <2>6. <<e.addr, e.lo>> \in Listening
    BY <1>6 DEF Listening
  <2>4. Ask(e.addr, e.lo) = "taken"
    BY <2>6 DEF Ask
  <2>5. HeldByUs(e.lo)
    BY <1>6 DEF HeldByUs, Numbers
  <2> QED BY <1>4, <2>3, <2>4, <2>5
<1> QED BY <1>5, <1>6

\* A checked service stays so while what is published for it and after it
\* does.
LEMMA CheckedStays ==
  ASSUME PortsTypeOK, NEW s \in PortServices, Checked(s), UNCHANGED <<ports, running>>, freed \subseteq freed',
         quiet' => quiet /\ others' = others,
         \A t \in PortServices : Place(t) >= Place(s) => Published(t)' = Published(t)
  PROVE  Checked(s)'
<1>1. \A t \in PortServices : Place(t) \in Nat /\ Place(t)' = Place(t)
  BY PlaceIs DEF Place
<1>2. Published(s)' = Published(s)
  BY <1>1
<1>3. SUFFICES ASSUME NEW e \in ToSet(ports[s]), Single(e)
               PROVE  /\ quiet' /\ s \notin running /\ <<e.addr, e.lo>> \in others' \cup Denied => HeldElsewhere(s, e)'
                      /\ \A t \in PortServices : Place(t) > Place(s) /\ <<e.addr, e.lo>> \in Published(t)' => HeldElsewhere(s, e)'
  BY <1>1 DEF Checked, Single
<1>4. HeldElsewhere(s, e) => HeldElsewhere(s, e)'
  BY <1>2 DEF HeldElsewhere
<1>5. /\ quiet /\ s \notin running /\ <<e.addr, e.lo>> \in others \cup Denied => HeldElsewhere(s, e)
      /\ \A t \in PortServices : Place(t) > Place(s) /\ <<e.addr, e.lo>> \in Published(t) => HeldElsewhere(s, e)
  BY <1>3 DEF Checked
<1>6. \A t \in PortServices : Place(t) > Place(s) => Published(t)' = Published(t)
  BY <1>1
<1> QED BY <1>4, <1>5, <1>6

\* The services before the one being checked, and after the check those not
\* yet started, were checked.
LEMMA CheckedStep ==
  ASSUME PortsTypeOK, PortsApart, PortsChecked, [PortsNext]_portVars
  PROVE  PortsChecked'
<1>0. \A t \in PortServices : Place(t) \in Nat \ {0} /\ Place(t)' = Place(t)
  BY PlaceIs DEF Place
<1>1. CASE TurnsToCheck
  <2>1. step' \in {"check", "refused"} /\ at' = 1 /\ freed' = {} /\ running' = DOMAIN containers'
    BY <1>1 DEF TurnsToCheck, FreedAtFirst
  <2>2. \A s \in PortServices : ~(Place(s)' < at')
    BY <1>0, <2>1
  <2> QED BY <2>1, <2>2 DEF PortsChecked
<1>2. CASE ChecksPorts /\ step' = "check"
  <2> PICK s : s = PortOrder[at]
    OBVIOUS
  <2>1. /\ step = "check" /\ at \in DOMAIN PortOrder /\ ~Conflicts(s) /\ at' = at + 1 /\ freed' = freed \cup LetsGo(s)
        /\ containers' = containers /\ ports' = ports /\ running' = running /\ quiet' = quiet /\ others' = others
    BY <1>2 DEF ChecksPorts
  <2>2. s \in PortServices /\ Place(s) = at
    BY <2>1, PlaceIs
  <2>3. /\ running = DOMAIN containers
        /\ \A l \in freed : \E u \in PortServices : Place(u) < at /\ l \in Published(u)
        /\ \A u \in PortServices : Place(u) < at => Checked(u)
    BY <2>1 DEF PortsChecked
  <2>4. Checked(s)
    BY <2>1, <2>2, <2>3, LetThrough
  <2>5. \A u : Published(u)' = Published(u)
    BY <2>1, PublishedStays
  <2>6. \A u \in PortServices : Place(u) < at' => Checked(u)'
    <3> TAKE u \in PortServices
    <3> HAVE Place(u) < at'
    <3>1. Place(u) < at \/ u = s
      BY <1>0, <2>1, <2>2, PlaceIs DEF PortsTypeOK
    <3>2. Checked(u)
      BY <2>3, <2>4, <3>1
    <3> QED BY <2>1, <2>5, <3>2, CheckedStays
  <2>7. \A l \in freed' : \E u \in PortServices : Place(u) < at' /\ l \in Published(u)'
    <3> TAKE l \in freed'
    <3>1. CASE l \in freed
      <4>1. PICK u \in PortServices : Place(u) < at /\ l \in Published(u)
        BY <2>3, <3>1
      <4> QED BY <1>0, <2>1, <2>5, <4>1 DEF PortsTypeOK
    <3>2. CASE l \in LetsGo(s)
      <4>1. l \in Published(s)'
        BY <2>5, <3>2 DEF LetsGo
      <4> QED BY <2>1, <2>2, <4>1 DEF PortsTypeOK
    <3> QED BY <2>1, <3>1, <3>2
  <2>8. \A u \in PortServices : Place(u)' = Place(u)
    BY <1>0
  <2>9. step' # "start" /\ running' = DOMAIN containers'
    BY <1>2, <2>1, <2>3
  <2> QED BY <2>6, <2>7, <2>8, <2>9 DEF PortsChecked
<1>3. CASE TurnsToStart
  <2>1. /\ step = "check" /\ step' = "start" /\ containers' = containers /\ ports' = ports /\ running' = running /\ quiet' = quiet
        /\ others' = others /\ freed' = freed /\ ServicesAreThrough
    BY <1>3 DEF TurnsToStart
  <2>2. \A u : Published(u)' = Published(u)
    BY <2>1, PublishedStays
  <2>3. \A u \in PortServices : Checked(u)
    BY <2>1, AllPassed DEF PortsChecked
  <2>4. \A u \in PortServices : Checked(u)'
    BY <2>1, <2>2, <2>3, CheckedStays
  <2> QED BY <2>1, <2>4 DEF PortsChecked
<1>4. CASE Starts /\ step' = "start"
  <2> PICK s : s = PortOrder[at]
    OBVIOUS
  <2>1. /\ step = "start" /\ ports' = ports /\ running' = running /\ quiet' = quiet /\ others' = others /\ freed' = freed
    BY <1>4 DEF Starts
  <2>2. s \in PortServices /\ Place(s) = at /\ at' = at + 1
    BY <1>4, StartsIs
  <2>3. \A t : t # s => Published(t)' = Published(t)
    BY <1>4, StartsHeld
  <2>4. ASSUME NEW u \in PortServices, Place(u) >= at' PROVE Checked(u)'
    <3>1. Place(u) >= at /\ \A t \in PortServices : Place(t) >= Place(u) => t # s
      BY <1>0, <2>2, <2>4 DEF PortsTypeOK
    <3>2. Checked(u)
      BY <2>1, <3>1 DEF PortsChecked
    <3> QED BY <2>1, <2>3, <3>1, <3>2, CheckedStays
  <2>5. step' = "start" /\ \A u \in PortServices : Place(u)' = Place(u)
    BY <1>0, <1>4
  <2> QED BY <2>4, <2>5 DEF PortsChecked
<1>5. CASE OthersCome \/ UNCHANGED portVars
  <2>1. /\ step' = step /\ ports' = ports /\ running' = running /\ freed' = freed /\ containers' = containers /\ at' = at
        /\ (quiet' => quiet /\ others' = others)
    BY <1>5 DEF OthersCome, portVars
  <2>2. \A u : Published(u)' = Published(u)
    BY <2>1, PublishedStays
  <2>3. \A u \in PortServices : Checked(u) => Checked(u)'
    BY <2>1, <2>2, CheckedStays
  <2>4. CASE step = "check"
    <3>1. /\ running = DOMAIN containers
          /\ \A l \in freed : \E s \in PortServices : Place(s) < at /\ l \in Published(s)
          /\ \A s \in PortServices : Place(s) < at => Checked(s)
      BY <2>4 DEF PortsChecked
    <3>2. /\ running' = DOMAIN containers'
          /\ \A l \in freed' : \E s \in PortServices : Place(s)' < at' /\ l \in Published(s)'
          /\ \A s \in PortServices : Place(s)' < at' => Checked(s)'
      BY <1>0, <2>1, <2>2, <2>3, <3>1
    <3> QED BY <2>1, <2>4, <3>2 DEF PortsChecked
  <2>5. CASE step = "start"
    BY <1>0, <2>1, <2>2, <2>3, <2>5 DEF PortsChecked
  <2> QED BY <2>1, <2>4, <2>5 DEF PortsChecked
<1>6. CASE /\ ~TurnsToCheck /\ ~TurnsToStart /\ ~OthersCome /\ ~UNCHANGED portVars
           /\ ~(ChecksPorts /\ step' = "check") /\ ~(Starts /\ step' = "start")
  <2>1. step' \notin {"check", "start"}
    BY <1>6, Zenon DEF PortsNext, LooksAtAddresses, PassesOn, Settles, TurnsToRemap, Remaps, ChecksPorts, Starts, Again
  <2> QED BY <2>1 DEF PortsChecked
<1> QED BY <1>1, <1>2, <1>3, <1>4, <1>5, <1>6

\* What the check let through can be bound.
LEMMA PlacedStep ==
  ASSUME PortsAreTyped, PortsApart, CheckClear, AddressesAsked, PortsChecked,
         [PortsNext]_portVars, step = "start", step' = "failed", quiet
  PROVE  LET s == PortOrder[at] IN
    \/ \E t \in PortServices : \E e \in ToSet(ports[t]) \cup ToSet(HeldEntries(t)) : ~Single(e)
    \/ \E e \in ToSet(ports[s]) : \E l \in freed \cup Published(s) : l[2] = e.lo /\ l[1] # e.addr
    \/ s \in running /\ \E e \in ToSet(ports[s]) : e.addr \in gone \/ <<e.addr, e.lo>> \in others \cup Denied
<1> PICK s : s = PortOrder[at]
  OBVIOUS
<1>1. Starts /\ PortsTypeOK /\ Started
  BY DEF PortsAreTyped, PortsNext, portVars, LooksAtAddresses, PassesOn, Settles, TurnsToRemap, Remaps, TurnsToCheck,
         ChecksPorts, TurnsToStart, Again, OthersCome
<1>2. s \in PortServices /\ Place(s) = at /\ ~LeftAlone(s) /\ (Overlaps(s) \/ ~Binds(s))
  BY <1>1, StartsIs
<1>3. SUFFICES ASSUME \A t \in PortServices : \A e \in ToSet(ports[t]) \cup ToSet(HeldEntries(t)) : Single(e),
                      \A e \in ToSet(ports[s]) : ~HeldElsewhere(s, e),
                      ~(s \in running /\ \E e \in ToSet(ports[s]) : e.addr \in gone \/ <<e.addr, e.lo>> \in others \cup Denied)
               PROVE  FALSE
  BY DEF HeldElsewhere
<1>4. \A t \in PortServices : \A l \in DOMAIN ports[t] :
        ports[t][l] \in ToSet(ports[t]) /\ Single(ports[t][l]) /\ ports[t][l].lo \in Nat /\ PortsOf(ports[t][l]) = {ports[t][l].lo}
  <2> TAKE t \in PortServices
  <2> TAKE l \in DOMAIN ports[t]
  <2>1. ports[t][l] \in ToSet(ports[t])
    BY DEF ToSet
  <2>2. ports[t][l].lo \in Nat
    BY <1>1, BareSingleIs, EntriesAre
  <2> QED BY <1>3, <2>1, <2>2 DEF Single, PortsOf
<1>5. ~TwiceAsked /\ \A u \in PortServices : Place(u) >= at => Checked(u)
  BY DEF CheckClear, PortsChecked
<1>6. ~Overlaps(s)
  <2> SUFFICES ASSUME NEW i \in DOMAIN ports[s], NEW j \in DOMAIN ports[s], i # j,
                      PortsOf(ports[s][i]) \cap PortsOf(ports[s][j]) # {}
               PROVE  FALSE
    BY DEF Overlaps
  <2>1. ports[s][i].lo = ports[s][j].lo
    BY <1>2, <1>4
  <2>2. AskedTwice(s, i, s, j)
    BY <1>2, <1>4, <2>1 DEF AskedTwice, Collide
  <2> QED BY <1>2, <1>5, <2>2, TwiceAskedIs
<1>7. PICK e \in ToSet(ports[s]) : \E n \in PortsOf(e) :
        \/ <<e.addr, n>> \in others \cup UNION {Published(t) : t \in PortServices \ {s}}
        \/ e.addr \in gone \/ <<e.addr, n>> \in Denied
  BY <1>2, <1>6 DEF Binds
<1>8. PICK i \in DOMAIN ports[s] : e = ports[s][i]
  BY DEF ToSet
<1>9. \/ <<e.addr, e.lo>> \in others \cup Denied \/ e.addr \in gone
      \/ \E t \in PortServices \ {s} : <<e.addr, e.lo>> \in Published(t)
  BY <1>2, <1>4, <1>7, <1>8
<1>10. Checked(s) /\ Single(e) /\ ~HeldElsewhere(s, e)
  BY <1>1, <1>2, <1>3, <1>5 DEF PortsTypeOK
<1>11. CASE s \in running /\ (<<e.addr, e.lo>> \in others \cup Denied \/ e.addr \in gone)
  BY <1>3, <1>11
<1>12. CASE s \notin running /\ <<e.addr, e.lo>> \in others \cup Denied
  BY <1>10, <1>12 DEF Checked
<1>13. CASE s \notin running /\ e.addr \in gone
  <2>1. i \in DOMAIN file[s] /\ file[s][i].addr = e.addr
    BY <1>1, <1>2, <1>8, BareSingleIs, Zenon DEF LineOf
  <2> QED BY <1>2, <1>13, <2>1 DEF AddressesAsked
<1>14. ASSUME NEW t \in PortServices \ {s}, <<e.addr, e.lo>> \in Published(t) PROVE FALSE
  <2>1. Place(t) \in Nat /\ Place(t) # Place(s)
    BY <1>2, PlaceIs
  <2>2. CASE Place(t) > Place(s)
    BY <1>10, <1>14, <2>2 DEF Checked
  <2>3. CASE Place(t) < at
    <3>1. HeldEntries(t) = ports[t]
      BY <1>1, <2>3 DEF Started, HeldEntries
    <3>2. PICK j \in DOMAIN ports[t] : \E n \in PortsOf(ports[t][j]) : <<e.addr, e.lo>> = <<ports[t][j].addr, n>>
      BY <1>14, <3>1, PublishedIs
    <3>3. e.addr = ports[t][j].addr /\ e.lo = ports[t][j].lo
      BY <1>4, <3>2
    <3>4. AskedTwice(s, i, t, j)
      BY <1>2, <1>4, <1>8, <3>3 DEF AskedTwice, Collide
    <3> QED BY <1>2, <1>5, <3>4, TwiceAskedIs
  <2> QED BY <1>1, <1>2, <2>1, <2>2, <2>3 DEF PortsTypeOK
<1> QED BY <1>9, <1>11, <1>12, <1>13, <1>14
-----------------------------------------------------------------------------
(* The second run of the same file.                                        *)

\* What covers a port in the first walk is read off the entries settled so
\* far.
LEMMA CoversThen ==
  ASSUME PortsTypeOK, LinesInTime, step = "settle", NEW s \in PortServices, NEW l \in Nat, Place(s) = at, l = line, NEW r,
         \A t \in PortServices : \A j \in DOMAIN file[t] : Passed(t, j) /\ Ranged(file[t][j]) => r[t][j] = ports[t][j]
  PROVE  \A n : Covers(n) <=> CoversIn(r, s, l, n)
<1> DEFINE Seen(t, j) == IF Before(t, j, s, l) /\ Ranged(file[t][j]) THEN r[t][j] ELSE file[t][j]
<1>1. ASSUME NEW t \in PortServices, NEW j \in DOMAIN file[t] PROVE Seen(t, j) = ports[t][j]
  <2>1. Passed(t, j) <=> Before(t, j, s, l)
    BY PlaceIs DEF Passed, Before
  <2>2. LineOf(ports[t][j], file[t][j])
    BY DEF PortsTypeOK, LinesOf
  <2>3. CASE ~Passed(t, j)
    BY <2>1, <2>3 DEF LinesInTime, SettledYet
  <2>4. CASE Passed(t, j) /\ Ranged(file[t][j])
    BY <2>1, <2>4
  <2>5. CASE Passed(t, j) /\ ~Ranged(file[t][j]) /\ ~BareSingle(file[t][j])
    BY <2>2, <2>5 DEF LineOf, Ranged
  <2>6. CASE Passed(t, j) /\ BareSingle(file[t][j])
    BY <2>6 DEF LinesInTime, DecidedYet, Ranged, BareSingle
  <2> QED BY <2>3, <2>4, <2>5, <2>6
<1> TAKE n
<1>2. Covers(n) <=> \E t \in PortServices : \E j \in DOMAIN ports[t] :
                       n \in PortsOf(ports[t][j]) /\ (Single(ports[t][j]) \/ ports[t][j].many)
  BY DEF Covers, ToSet
<1>3. \A t \in PortServices : DOMAIN ports[t] = DOMAIN file[t]
  BY DEF PortsTypeOK, LinesOf
<1>4. CoversIn(r, s, l, n) <=> \E t \in PortServices : \E j \in DOMAIN file[t] :
                       n \in PortsOf(Seen(t, j)) /\ (Single(Seen(t, j)) \/ Seen(t, j).many)
  BY DEF CoversIn
<1> HIDE DEF Seen
<1> QED BY <1>1, <1>2, <1>3, <1>4

\* Only what is settled before matters to a range.
LEMMA CoversSame ==
  ASSUME NEW r, NEW q, NEW s, NEW l,
         \A t \in PortServices : \A j \in DOMAIN file[t] : Before(t, j, s, l) /\ Ranged(file[t][j]) => r[t][j] = q[t][j]
  PROVE  \A n : CoversIn(r, s, l, n) <=> CoversIn(q, s, l, n)
<1>1. \A t \in PortServices : \A j \in DOMAIN file[t] :
        (IF Before(t, j, s, l) /\ Ranged(file[t][j]) THEN r[t][j] ELSE file[t][j])
          = (IF Before(t, j, s, l) /\ Ranged(file[t][j]) THEN q[t][j] ELSE file[t][j])
  OBVIOUS
<1> QED BY <1>1 DEF CoversIn

\* The record of an entry is one of the entries before it.
LEMMA RecordSame ==
  ASSUME NEW r, NEW q, NEW s \in PortServices, NEW l \in DOMAIN file[s], RecordOf(r, s, l), q[s][l] = r[s][l],
         \A t \in PortServices : \A j \in DOMAIN file[t] : Before(t, j, s, l) /\ Ranged(file[t][j]) => r[t][j] = q[t][j]
  PROVE  RecordOf(q, s, l)
<1>1. \A n : CoversIn(r, s, l, n) <=> CoversIn(q, s, l, n)
  BY CoversSame
<1> QED BY <1>1 DEF RecordOf

\* It is of the file and the world, so stays with them.
LEMMA RecordThen ==
  ASSUME UNCHANGED <<file, gone, others>>
  PROVE  \A r, s, l : (RecordOf(r, s, l)' <=> RecordOf(r, s, l))
<1>1. \A t, j, s, l : (Before(t, j, s, l)' <=> Before(t, j, s, l))
  BY DEF Before, Place
<1>2. \A r, s, l, n : (CoversIn(r, s, l, n)' <=> CoversIn(r, s, l, n))
  BY <1>1 DEF CoversIn, Ranged, Single, PortsOf
<1>3. \A a, n : (NotFree(a, n)' <=> NotFree(a, n))
  BY DEF NotFree
<1> QED BY <1>2, <1>3 DEF RecordOf, PortsOf

\* The record after a step, of the entries then.
LEMMA RecordNext ==
  ASSUME UNCHANGED <<file, gone, others>>, NEW p, p = ports', NEW s, NEW l
  PROVE  RecordOf(ports, s, l)' <=> RecordOf(p, s, l)
<1>1. RecordOf(ports, s, l)' <=> RecordOf(p, s, l)'
  BY DEF RecordOf, CoversIn, Before, Ranged, Single, PortsOf, Place
<1> QED BY <1>1, RecordThen

\* The record after a step, of the containers then.
LEMMA RecordNextHeld ==
  ASSUME UNCHANGED <<file, gone, others>>, NEW p, p = containers', NEW s, NEW l
  PROVE  RecordOf(containers, s, l)' <=> RecordOf(p, s, l)
<1>1. RecordOf(containers, s, l)' <=> RecordOf(p, s, l)'
  BY DEF RecordOf, CoversIn, Before, Ranged, Single, PortsOf, Place
<1> QED BY <1>1, RecordThen

\* A line is settled when the walk comes by.
LEMMA SettledBefore ==
  ASSUME PortsTypeOK, LinesInTime, [PortsNext]_portVars, ~Settles, ~Again
  PROVE  \A s \in PortServices : \A l \in DOMAIN file[s] : SettledYet(s, l)' => SettledYet(s, l)
<1>0. \A s \in PortServices : DOMAIN ports[s] = DOMAIN file[s]
  BY DEF PortsTypeOK, LinesOf
<1>1. CASE LooksAtAddresses
  <2>1. step' \in {"settle", "refused"} /\ at' = 1 /\ line' = 1
    BY <1>1 DEF LooksAtAddresses, LinesInTime
  <2>2. \A s \in PortServices : \A l \in DOMAIN file[s] : ~Passed(s, l)'
    BY <1>0, <2>1, NonePassed
  <2> QED BY <2>1, <2>2 DEF SettledYet
<1>2. CASE PassesOn
  <2>1. \A s \in PortServices : \A l \in DOMAIN file[s] : Passed(s, l)' <=> Passed(s, l)
    BY <1>0, <1>2, PassingOn DEF PassesOn
  <2> QED BY <1>2, <2>1 DEF PassesOn, SettledYet
<1>3. CASE TurnsToRemap
  <2>1. \A s \in PortServices : \A l \in DOMAIN file[s] : Passed(s, l)
    BY <1>3, AllPassed DEF TurnsToRemap
  <2> QED BY <1>3, <2>1 DEF TurnsToRemap, SettledYet
<1>4. CASE OthersCome \/ UNCHANGED portVars
  <2>1. step' = step /\ at' = at /\ line' = line
    BY <1>4 DEF OthersCome, portVars
  <2> QED BY <2>1 DEF SettledYet, Passed, Place
<1>5. CASE Remaps \/ TurnsToCheck \/ ChecksPorts \/ TurnsToStart \/ Starts
  <2>1. step \in {"remap", "check", "start"}
    BY <1>5, Zenon DEF Remaps, TurnsToCheck, ChecksPorts, TurnsToStart, Starts
  <2> QED BY <2>1 DEF SettledYet
<1> QED BY <1>1, <1>2, <1>3, <1>4, <1>5 DEF PortsNext

\* What the first walk does to a line.
LEMMA SettlesOne ==
  ASSUME PortsTypeOK, LinesInTime, Settles, NEW s, s = PortOrder[at], NEW l, l = line
  PROVE  /\ step = "settle" /\ s \in PortServices /\ Place(s) = at /\ l \in DOMAIN ports[s] /\ l \in DOMAIN file[s] /\ l \in Nat
         /\ ~Passed(s, l) /\ ports[s][l] = file[s][l]
         /\ \A t \in PortServices : \A j \in DOMAIN file[t] : (t # s \/ j # l) => ports'[t][j] = ports[t][j]
         /\ \A t \in PortServices : \A j \in DOMAIN file[t] :
              SettledYet(t, j)' <=> SettledYet(t, j) \/ (t = s /\ j = l)
         /\ Ranged(file[s][l]) => \E n \in SettledOn(s, file[s][l]) :
              n \in HostPortNumbers /\ n \in PortsOf(file[s][l]) /\ ports'[s][l] = Moved(file[s][l], n)
         /\ ~Ranged(file[s][l]) => ports' = ports
<1>1. /\ s \in PortServices /\ l \in DOMAIN ports[s] /\ ~Passed(s, l) /\ step = "settle" /\ step' = "settle" /\ file' = file
      /\ \A t \in PortServices : \A j \in DOMAIN ports[t] : Passed(t, j)' <=> Passed(t, j) \/ (t = s /\ j = l)
  BY PassingAnEntry DEF Settles
<1>2. \A t \in PortServices : DOMAIN ports[t] = DOMAIN file[t]
  BY DEF PortsTypeOK, LinesOf
<1>3. Place(s) = at /\ l \in Nat
  BY PlaceIs DEF Settles, AtEntry, PortsTypeOK
<1>4. ports[s][l] = file[s][l]
  BY <1>1, <1>2 DEF LinesInTime, SettledYet
<1>5. \A t \in PortServices : \A j \in DOMAIN file[t] : SettledYet(t, j)' <=> SettledYet(t, j) \/ (t = s /\ j = l)
  BY <1>1, <1>2 DEF SettledYet
<1>6. CASE ~Ranged(file[s][l])
  <2>1. ports' = ports
    BY <1>4, <1>6, SettlesIs DEF Ranged
  <2> QED BY <1>1, <1>2, <1>3, <1>4, <1>5, <1>6, <2>1
<1>7. CASE Ranged(file[s][l])
  <2>1. PICK n \in PortsOf(file[s][l]) \cap HostPortNumbers :
             n \in SettledOn(s, file[s][l]) /\ ports' = [ports EXCEPT ![s][l] = Moved(file[s][l], n)]
    BY <1>4, <1>7, SettlesIs, Zenon DEF Ranged
  <2>2. ports' = [ports EXCEPT ![s][l] = Moved(ports[s][l], n)] /\ (~file[s][l].many /\ ~Single(file[s][l]))
    BY <1>4, <1>7, <2>1 DEF Ranged
  <2>3. n \in HostPortNumbers
    OBVIOUS
  <2>4. /\ ports'[s][l] = Moved(ports[s][l], n)
        /\ \A t \in PortServices : \A j \in DOMAIN ports[t] : (t # s \/ j # l) => ports'[t][j] = ports[t][j]
    BY ONLY PortsTypeOK, <1>1, <2>2, <2>3, OneMoves, ZenonT(60)
  <2>5. \E m \in SettledOn(s, file[s][l]) :
              m \in HostPortNumbers /\ m \in PortsOf(file[s][l]) /\ ports'[s][l] = Moved(file[s][l], m)
    BY <1>4, <2>1, <2>4
  <2> QED BY <1>1, <1>2, <1>3, <1>4, <1>5, <1>7, <2>4, <2>5
<1> QED BY <1>6, <1>7, Zenon

\* How a range is settled the first time.
LEMMA SettlesFirst ==
  ASSUME PortsTypeOK, LinesInTime, DOMAIN containers = {}, step = "settle",
         NEW s \in PortServices, NEW l \in DOMAIN file[s], l = line, Place(s) = at, Ranged(file[s][l]),
         NEW n \in SettledOn(s, file[s][l]), n \in PortsOf(file[s][l])
  PROVE  \/ ~CoversIn(ports, s, l, n)
         \/ n = file[s][l].lo /\ \A m \in PortsOf(file[s][l]) : CoversIn(ports, s, l, m) \/ NotFree(file[s][l].addr, m)
<1> DEFINE f == file[s][l]
           kept == {i \in PublishedAt(s, f.c) : HostPortAt(s, i, f.c) \in PortsOf(f) /\ ~Covers(HostPortAt(s, i, f.c))}
           free == {m \in PortsOf(f) : ~Covers(m) /\ Ask(f.addr, m) = "free"}
<1>1. n \in IF kept # {} THEN {HostPortAt(s, i, f.c) : i \in FirstOf(kept)}
           ELSE IF free # {} THEN FirstOf(free) ELSE {f.lo}
  BY Zenon DEF SettledOn
<1>2. kept = {}
  BY DEF PublishedAt, HeldEntries
<1>3. \A m : Covers(m) <=> CoversIn(ports, s, l, m)
  <2>1. l \in Nat
    BY DEF PortsTypeOK
  <2> QED BY <2>1, CoversThen
<1>4. \A m : Ask(f.addr, m) = "free" \/ NotFree(f.addr, m)
  <2>1. \A t \in PortServices : Published(t) = {}
    BY PublishedIs
  <2>2. Listening = others
    BY <2>1 DEF Listening
  <2> QED BY <2>2 DEF Ask, NotFree
<1>5. CASE free # {}
  BY <1>1, <1>2, <1>3, <1>5, Zenon DEF FirstOf
<1>6. CASE free = {}
  BY <1>1, <1>2, <1>3, <1>4, <1>6, Zenon
<1> QED BY <1>5, <1>6

\* Entries before a passed one were passed.
LEMMA BeforeIsPassed ==
  ASSUME PortsTypeOK, NEW s \in PortServices, NEW l \in DOMAIN file[s], Passed(s, l),
         NEW t \in PortServices, NEW j \in DOMAIN file[t], Before(t, j, s, l)
  PROVE  Passed(t, j)
<1>1. l \in Nat /\ j \in Nat
  BY DEF PortsTypeOK, LinesOf
<1>2. Place(t) \in Nat /\ Place(s) \in Nat
  BY PlaceIs
<1> QED BY <1>1, <1>2 DEF Passed, Before, PortsTypeOK

\* A first `up` leaves a record of how each range was settled.
LEMMA FirstUpStep ==
  ASSUME PortsTypeOK, LinesInTime, FirstUp, [PortsNext]_portVars
  PROVE  FirstUp'
<1> SUFFICES ASSUME round' = 1, comings' = 0
             PROVE  /\ step' \in {"addresses", "settle", "remap", "check"} => DOMAIN containers' = {}
                    /\ \A s \in PortServices : \A l \in DOMAIN file'[s] :
                         Ranged(file[s][l])' /\ SettledYet(s, l)' => RecordOf(ports, s, l)'
  BY DEF FirstUp
<1>1. /\ round = 1 /\ comings = 0 /\ ~Again /\ UNCHANGED <<file, gone, others>>
  <2>1. ~Again /\ round = 1
    <3>1. ~Again
      BY DEF Again
    <3>2. round' = round
      BY <3>1, Zenon DEF PortsNext, portVars, LooksAtAddresses, PassesOn, Settles, TurnsToRemap, Remaps, TurnsToCheck, ChecksPorts,
                         TurnsToStart, Starts, OthersCome
    <3> QED BY <3>1, <3>2, Zenon
  <2>2. ~OthersCome
    BY DEF OthersCome, PortsTypeOK
  <2> QED BY <2>1, <2>2, Zenon DEF PortsNext, portVars, LooksAtAddresses, PassesOn, Settles, TurnsToRemap, Remaps, TurnsToCheck,
                            ChecksPorts, TurnsToStart, Starts
<1>2. /\ step \in {"addresses", "settle", "remap", "check"} => DOMAIN containers = {}
      /\ \A s \in PortServices : \A l \in DOMAIN file[s] :
           Ranged(file[s][l]) /\ SettledYet(s, l) => RecordOf(ports, s, l)
  BY <1>1 DEF FirstUp
<1>3. ASSUME step' \in {"addresses", "settle", "remap", "check"} PROVE DOMAIN containers' = {}
  <2>1. step \in {"addresses", "settle", "remap", "check"} /\ containers' = containers
    BY <1>1, <1>3, Zenon DEF PortsNext, portVars, LooksAtAddresses, PassesOn, Settles, TurnsToRemap, Remaps, TurnsToCheck,
                      ChecksPorts, TurnsToStart, Starts, OthersCome
  <2> QED BY <1>2, <2>1
<1> PICK p : p = ports'
  OBVIOUS
<1>4. \A s, l : RecordOf(ports, s, l)' <=> RecordOf(p, s, l)
  BY <1>1, RecordNext
<1>5. ASSUME NEW s \in PortServices, NEW l \in DOMAIN file[s], Ranged(file[s][l]), SettledYet(s, l)'
      PROVE  RecordOf(p, s, l)
  <2>1. CASE Settles
    <3> PICK k : k = PortOrder[at]
      OBVIOUS
    <3> PICK i : i = line
      OBVIOUS
    <3>1. /\ step = "settle" /\ k \in PortServices /\ Place(k) = at /\ i \in DOMAIN file[k] /\ i \in Nat /\ ~Passed(k, i)
          /\ \A t \in PortServices : \A j \in DOMAIN file[t] : (t # k \/ j # i) => ports'[t][j] = ports[t][j]
          /\ \A t \in PortServices : \A j \in DOMAIN file[t] : SettledYet(t, j)' <=> SettledYet(t, j) \/ (t = k /\ j = i)
      BY <2>1, SettlesOne
    <3>2. Ranged(file[k][i]) => \E n \in SettledOn(k, file[k][i]) :
              n \in HostPortNumbers /\ n \in PortsOf(file[k][i]) /\ ports'[k][i] = Moved(file[k][i], n)
      BY <2>1, SettlesOne
    <3>3. CASE s # k \/ l # i
      <4>1. SettledYet(s, l) /\ Passed(s, l)
        BY <1>5, <3>1, <3>3 DEF SettledYet
      <4>2. RecordOf(ports, s, l) /\ p[s][l] = ports[s][l]
        BY <1>2, <1>5, <3>1, <3>3, <4>1
      <4>3. \A t \in PortServices : \A j \in DOMAIN file[t] : Before(t, j, s, l) /\ Ranged(file[t][j]) => ports[t][j] = p[t][j]
        BY <3>1, <4>1, BeforeIsPassed
      <4> QED BY ONLY <4>2, <4>3, RecordSame, ZenonT(60)
    <3>4. CASE s = k /\ l = i
      <4>1. PICK n \in SettledOn(s, file[s][l]) : n \in HostPortNumbers /\ n \in PortsOf(file[s][l]) /\ p[s][l] = Moved(file[s][l], n)
        BY <1>5, <3>2, <3>4
      <4>2. file[s][l] \in PortEntries
        BY FilesAre DEF PortsTypeOK
      <4>3. p[s][l].lo = n
        BY <4>1, <4>2, MovedIs
      <4>4. \/ ~CoversIn(ports, s, l, n)
            \/ n = file[s][l].lo /\ \A m \in PortsOf(file[s][l]) : CoversIn(ports, s, l, m) \/ NotFree(file[s][l].addr, m)
        <5>1. DOMAIN containers = {} /\ l = line /\ Place(s) = at
          BY <1>2, <3>1, <3>4
        <5> QED BY <1>5, <3>1, <4>1, <5>1, SettlesFirst
      <4>5. \A t \in PortServices : \A j \in DOMAIN file[t] : Before(t, j, s, l) => (t # s \/ j # l)
        BY <3>1, <3>4, PlaceIs DEF Before
      <4>6. \A m : CoversIn(ports, s, l, m) <=> CoversIn(p, s, l, m)
        BY <3>1, <3>4, <4>5, CoversSame
      <4> QED BY <4>1, <4>3, <4>4, <4>6 DEF RecordOf
    <3> QED BY <3>3, <3>4
  <2>2. CASE Remaps
    <3> PICK k : k = PortOrder[at]
      OBVIOUS
    <3> PICK i : i = line
      OBVIOUS
    <3>1. /\ k \in PortServices /\ i \in DOMAIN ports[k]
          /\ \A t \in PortServices : \A j \in DOMAIN ports[t] : (t # k \/ j # i) => ports'[t][j] = ports[t][j]
          /\ ports' = ports \/ BareSingle(ports[k][i])
      BY <2>2, Decides
    <3>2. \A t \in PortServices : DOMAIN ports[t] = DOMAIN file[t]
      BY DEF PortsTypeOK, LinesOf
    <3>3. BareSingle(ports[k][i]) => ~Ranged(file[k][i])
      BY <3>1, BareSingleIs DEF Ranged, BareSingle
    <3>4. \A t \in PortServices : \A j \in DOMAIN file[t] : Ranged(file[t][j]) => p[t][j] = ports[t][j]
      BY <3>1, <3>2, <3>3
    <3>5. SettledYet(s, l)
      BY <2>2, Zenon DEF Remaps, SettledYet
    <3>6. RecordOf(ports, s, l)
      BY <1>2, <1>5, <3>5
    <3> QED BY <1>5, <3>4, <3>6, RecordSame, ZenonT(60)
  <2>3. CASE ~Settles /\ ~Remaps
    <3>1. ports' = ports
      BY <1>1, <2>3 DEF PortsNext, portVars, LooksAtAddresses, PassesOn, TurnsToRemap, TurnsToCheck,
                        ChecksPorts, TurnsToStart, Starts, OthersCome
    <3>2. SettledYet(s, l)
      BY <1>1, <1>5, <2>3, SettledBefore
    <3> QED BY <1>2, <1>5, <3>1, <3>2
  <2> QED BY <2>1, <2>2, <2>3
<1> QED BY <1>1, <1>3, <1>4, <1>5 DEF Ranged, Single
-----------------------------------------------------------------------------
(* Settled and decided again as the containers have it.                    *)

\* What a second run of the same file keeps to, named of SecondUp's parts.
HeldAsFile ==
  /\ DOMAIN containers = PortServices /\ LinesOf(containers)
  /\ \A s \in PortServices : \A l \in DOMAIN file[s] : Ranged(file[s][l]) =>
       /\ Single(containers[s][l]) /\ RecordOf(containers, s, l)
       /\ SettledYet(s, l) => ports[s][l] = containers[s][l]
  /\ \A s \in PortServices : \A l \in DOMAIN file[s] :
       BareSingle(file[s][l]) /\ DecidedYet(s, l) => ports[s][l] = containers[s][l]

\* The two ways of saying what a second `up` keeps to.
LEMMA SecondUpIs ==
  SecondUp <=> (round = 2 /\ same /\ comings = 0 /\ SharesNoPort(file) => step \notin {"refused", "failed"} /\ HeldAsFile)
BY DEF SecondUp, HeldAsFile

\* Put on the port its container has, the file's entry is the container's.
LEMMA MovedToHeld ==
  ASSUME NEW f \in PortEntries, NEW g \in PortEntries, g.addr = f.addr, g.c = f.c, g.many = f.many, g.bare = f.bare, Single(g)
  PROVE  Moved(f, g.lo) = g
<1>1. g.lo \in HostPortNumbers
  BY DEF PortEntries
<1>2. /\ Moved(f, g.lo) \in PortEntries
      /\ Moved(f, g.lo).lo = g.lo /\ Moved(f, g.lo).hi = g.hi
      /\ Moved(f, g.lo).addr = g.addr /\ Moved(f, g.lo).c = g.c
      /\ Moved(f, g.lo).many = g.many /\ Moved(f, g.lo).bare = g.bare
  BY <1>1, MovedIs DEF Single
<1> QED BY <1>2 DEF PortEntries

\* A line is decided as its container has it.
LEMMA AsHeld ==
  ASSUME PortsTypeOK, HeldAsFile, NEW s \in PortServices, NEW l \in DOMAIN file[s], SettledYet(s, l),
         BareSingle(file[s][l]) => DecidedYet(s, l)
  PROVE  ports[s][l] = containers[s][l]
<1>1. LineOf(ports[s][l], file[s][l]) /\ LineOf(containers[s][l], file[s][l])
  BY DEF PortsTypeOK, LinesOf, HeldAsFile
<1>2. CASE Ranged(file[s][l])
  BY <1>2 DEF HeldAsFile
<1>3. CASE BareSingle(file[s][l])
  BY <1>3 DEF HeldAsFile
<1>4. CASE ~Ranged(file[s][l]) /\ ~BareSingle(file[s][l])
  BY <1>1, <1>4, Zenon DEF LineOf, Ranged
<1> QED BY <1>2, <1>3, <1>4

\* What the containers hold, where they were started from this file.
LEMMA HeldEntriesAre ==
  ASSUME HeldAsFile
  PROVE  \A s \in PortServices :
           /\ HeldEntries(s) = containers[s] /\ DOMAIN containers[s] = DOMAIN file[s]
           /\ \A l \in DOMAIN file[s] :
                /\ LineOf(containers[s][l], file[s][l])
                /\ \A n \in PortsOf(containers[s][l]) : <<containers[s][l].addr, n>> \in Published(s)
<1> TAKE s \in PortServices
<1>1. HeldEntries(s) = containers[s] /\ DOMAIN containers[s] = DOMAIN file[s]
  BY DEF HeldAsFile, HeldEntries, LinesOf
<1>2. \A l \in DOMAIN file[s] : LineOf(containers[s][l], file[s][l])
  BY DEF HeldAsFile, LinesOf
<1> QED BY <1>1, <1>2, PublishedIs

\* No port is held twice.
LEMMA HeldOnce ==
  ASSUME HeldAsFile, PortsApart, NEW s \in PortServices, NEW l \in DOMAIN file[s], NEW t \in PortServices, NEW j \in DOMAIN file[t],
         s # t \/ l # j, Collide(s, containers[s][l].addr, t, containers[t][j].addr),
         NEW n, n \in PortsOf(containers[s][l]), n \in PortsOf(containers[t][j])
  PROVE  FALSE
<1>1. CASE s = t
  <2>1. l \in DOMAIN containers[s] /\ j \in DOMAIN containers[s] /\ s \in DOMAIN containers /\ l # j
    BY <1>1, HeldEntriesAre DEF HeldAsFile
  <2> QED BY <1>1, <2>1 DEF PortsApart
<1>2. CASE s # t
  <2>1. <<containers[s][l].addr, n>> \in Published(s) /\ <<containers[t][j].addr, n>> \in Published(t)
    BY HeldEntriesAre
  <2>2. containers[s][l].addr = containers[t][j].addr
    BY <1>2 DEF Collide
  <2> QED BY <1>2, <2>1, <2>2 DEF PortsApart
<1> QED BY <1>1, <1>2

\* A container port that one line publishes is looked up on that line.
LEMMA FoundAgain ==
  ASSUME PortsTypeOK, HeldAsFile, SharesNoPort(file), NEW s \in PortServices, NEW l \in DOMAIN file[s],
         BareSingle(file[s][l]) \/ Ranged(file[s][l])
  PROVE  /\ PublishedAt(s, file[s][l].c) = {l} /\ l \in Nat
         /\ Single(containers[s][l]) /\ containers[s][l].lo \in Nat
         /\ HostPortAt(s, l, file[s][l].c) = containers[s][l].lo
         /\ Moved(file[s][l], containers[s][l].lo) = containers[s][l]
<1> DEFINE f == file[s][l]
           g == containers[s][l]
<1>1. /\ HeldEntries(s) = containers[s] /\ DOMAIN containers[s] = DOMAIN file[s]
      /\ \A i \in DOMAIN file[s] : LineOf(containers[s][i], file[s][i])
  BY HeldEntriesAre
<1>2. \A i \in DOMAIN file[s] : file[s][i] \in PortEntries
  BY FilesAre DEF PortsTypeOK
<1>3. Single(g) /\ g \in PortEntries /\ g.addr = f.addr /\ g.c = f.c /\ g.many = f.many /\ g.bare = f.bare
  <2>1. LineOf(g, f)
    BY <1>1
  <2>2. Single(g)
    BY <2>1 DEF LineOf, HeldAsFile
  <2> QED BY <2>1, <2>2 DEF LineOf
<1>4. g.lo \in Nat /\ g.c \in Nat
  BY <1>3, EntriesAre
<1>5. Moved(f, g.lo) = g
  BY <1>2, <1>3, MovedToHeld
<1>6. HostPortAt(s, l, f.c) = g.lo
  BY <1>1, <1>3, <1>4 DEF HostPortAt
<1>8. ASSUME NEW i \in DOMAIN file[s] PROVE ContainerPorts(containers[s][i]) = ContainerPorts(file[s][i])
  <2>1. LineOf(containers[s][i], file[s][i]) /\ file[s][i] \in PortEntries /\ containers[s][i] \in PortEntries
    BY <1>1, <1>2, Zenon DEF LineOf
  <2>2. CASE ~BareSingle(file[s][i]) /\ (file[s][i].many \/ Single(file[s][i]))
    BY <2>1, <2>2 DEF LineOf
  <2>3. CASE ~file[s][i].many
    BY <2>1, <2>3 DEF LineOf, ContainerPorts
  <2>4. CASE BareSingle(file[s][i])
    <3>1. Single(containers[s][i]) /\ Single(file[s][i]) /\ containers[s][i].c = file[s][i].c /\ containers[s][i].many = file[s][i].many
      BY <2>1, <2>4 DEF LineOf, BareSingle
    <3>2. containers[s][i].lo \in Nat /\ file[s][i].lo \in Nat
      BY <2>1, EntriesAre
    <3>3. containers[s][i].hi - containers[s][i].lo = 0 /\ file[s][i].hi - file[s][i].lo = 0
      BY <3>1, <3>2 DEF Single
    <3> QED BY <3>1, <3>3 DEF ContainerPorts
  <2> QED BY <2>2, <2>3, <2>4 DEF BareSingle
<1>9. f.c \in ContainerPorts(f)
  <2>1. f.c \in Nat /\ (f.many => f.hi - f.lo = 0)
    BY <1>2, EntriesAre DEF BareSingle, Ranged, Single
  <2> QED BY <2>1 DEF ContainerPorts
<1>10. \A i \in DOMAIN file[s] : i # l => f.c \notin ContainerPorts(file[s][i])
  BY <1>9 DEF SharesNoPort, Ranged
<1>11. PublishedAt(s, f.c) = {l}
  <2>1. PublishedAt(s, f.c) = {i \in DOMAIN file[s] : f.c \in ContainerPorts(containers[s][i])}
    BY <1>1 DEF PublishedAt
  <2> QED BY <1>8, <1>9, <1>10, <2>1
<1>12. l \in Nat
  BY FilesAre DEF PortsTypeOK
<1> QED BY <1>3, <1>4, <1>5, <1>6, <1>11, <1>12

\* A range is settled where its container has it.
LEMMA SettledAgain ==
  ASSUME PortsTypeOK, LinesInTime, HeldAsFile, SharesNoPort(file), step = "settle",
         NEW s \in PortServices, NEW l \in DOMAIN file[s], l = line, Place(s) = at, Ranged(file[s][l]),
         NEW n \in SettledOn(s, file[s][l])
  PROVE  n = containers[s][l].lo
<1> DEFINE f == file[s][l]
           h == containers[s][l].lo
           kept == {i \in PublishedAt(s, f.c) : HostPortAt(s, i, f.c) \in PortsOf(f) /\ ~Covers(HostPortAt(s, i, f.c))}
           free == {m \in PortsOf(f) : ~Covers(m) /\ Ask(f.addr, m) = "free"}
<1>1. n \in IF kept # {} THEN {HostPortAt(s, i, f.c) : i \in FirstOf(kept)}
           ELSE IF free # {} THEN FirstOf(free) ELSE {f.lo}
  BY Zenon DEF SettledOn
<1>2. PublishedAt(s, f.c) = {l} /\ l \in Nat /\ HostPortAt(s, l, f.c) = h
  BY FoundAgain
<1>3. \A m : Covers(m) <=> CoversIn(containers, s, l, m)
  <2>1. \A t \in PortServices : \A j \in DOMAIN file[t] : Passed(t, j) /\ Ranged(file[t][j]) => containers[t][j] = ports[t][j]
    BY DEF HeldAsFile, SettledYet
  <2> QED BY <1>2, <2>1, CoversThen
<1>4. h \in PortsOf(f) /\ (~CoversIn(containers, s, l, h) \/ (h = f.lo /\ \A m \in PortsOf(f) : CoversIn(containers, s, l, m) \/ NotFree(f.addr, m)))
  BY DEF HeldAsFile, RecordOf
<1>5. CASE ~Covers(h)
  <2>1. kept = {l}
    BY <1>2, <1>4, <1>5
  <2>2. FirstOf(kept) = {l}
    BY <1>2, <2>1 DEF FirstOf
  <2>3. n \in {HostPortAt(s, i, f.c) : i \in {l}}
    BY <1>1, <2>1, <2>2, Zenon
  <2> QED BY <1>2, <2>3
<1>6. CASE Covers(h)
  <2>1. kept = {}
    BY <1>2, <1>6
  <2>2. \A m \in PortsOf(f) : Covers(m) \/ NotFree(f.addr, m)
    BY <1>3, <1>4, <1>6
  <2>3. \A m : NotFree(f.addr, m) => Ask(f.addr, m) # "free"
    BY DEF NotFree, Ask, Listening
  <2>4. free = {}
    BY <2>2, <2>3
  <2> QED BY <1>1, <1>3, <1>4, <1>6, <2>1, <2>4, Zenon
<1> QED BY <1>5, <1>6

\* A bare entry keeps the port its container has.
LEMMA KeptAgain ==
  ASSUME PortsTypeOK, PortsApart, ClaimsTrue, HeldAsFile, SharesNoPort(file), step = "remap",
         NEW s \in PortServices, NEW l \in DOMAIN file[s], BareSingle(file[s][l])
  PROVE  Kept(s, file[s][l]) = {containers[s][l].lo}
<1> DEFINE f == file[s][l]
           h == containers[s][l].lo
           on == PublishedAt(s, f.c)
           own == {i \in on : ~Pinned(s, HostPortAt(s, i, f.c))}
           better == IF own # {} THEN own ELSE on
           narrow == {i \in better : Single(HeldEntries(s)[i])}
<1>1. on = {l} /\ l \in Nat /\ HostPortAt(s, l, f.c) = h /\ Single(containers[s][l]) /\ h \in Nat
  BY FoundAgain
<1>2. HeldEntries(s) = containers[s]
  BY HeldEntriesAre
<1>3. HeldFor(s, f.c) = {HostPortAt(s, i, f.c) : i \in IF narrow # {} THEN LastOf(narrow) ELSE FirstOf(better)}
  BY DEF HeldFor
<1>4. better = {l}
  BY <1>1
<1>5. narrow = {l}
  BY <1>1, <1>2, <1>4
<1>6. LastOf(narrow) = {l}
  BY <1>1, <1>5 DEF LastOf
<1>7. HeldFor(s, f.c) = {h}
  <2>1. HeldFor(s, f.c) = {HostPortAt(s, i, f.c) : i \in {l}}
    BY <1>3, <1>5, <1>6, Zenon
  <2> QED BY <1>1, <2>1
<1>8. ~ClaimedByFile(h, s, f.addr)
  <2> SUFFICES ASSUME NEW cl \in ClaimsOn(h, s, f.addr), cl.fromFile PROVE FALSE
    BY DEF ClaimedByFile
  <2>1. cl \in claims /\ h \in cl.lo .. cl.hi /\ Collide(cl.svc, cl.addr, s, f.addr)
    BY DEF ClaimsOn
  <2>2. PICK t \in PortServices : \E j \in DOMAIN ports[t] :
          \/ ~BareSingle(ports[t][j]) /\ cl = Claim(t, ports[t][j], TRUE)
          \/ BareSingle(ports[t][j]) /\ Passed(t, j) /\ cl = Claim(t, ports[t][j], FALSE)
    BY <2>1 DEF ClaimsTrue
  <2>3. PICK j \in DOMAIN ports[t] : ~BareSingle(ports[t][j]) /\ cl = Claim(t, ports[t][j], TRUE)
    BY <2>2 DEF Claim
  <2>4. j \in DOMAIN file[t] /\ ~BareSingle(file[t][j])
    BY <2>3, BareSingleIs
  <2>5. ports[t][j] = containers[t][j]
    BY <2>4, AsHeld DEF SettledYet
  <2>6. h \in PortsOf(containers[t][j]) /\ Collide(t, containers[t][j].addr, s, f.addr)
    BY <2>1, <2>3, <2>5, Zenon DEF Claim, PortsOf
  <2>7. h \in PortsOf(containers[s][l]) /\ containers[s][l].addr = f.addr
    <3>1. containers[s][l].addr = f.addr
      BY HeldEntriesAre, Zenon DEF LineOf
    <3> QED BY <1>1, <3>1 DEF PortsOf, Single
  <2>8. t # s \/ j # l
    BY <2>4
  <2> QED BY <2>4, <2>6, <2>7, <2>8, HeldOnce
<1> QED BY <1>7, <1>8 DEF Kept
\* As far as it is settled and decided, the second run's ports are the containers'.
LEMMA SecondWalks ==
  ASSUME PortsTypeOK, LinesInTime, PortsApart, ClaimsTrue, HeldAsFile, SharesNoPort(file), Settles \/ Remaps
  PROVE  /\ \A s \in PortServices : \A l \in DOMAIN file[s] :
              Ranged(file[s][l]) /\ SettledYet(s, l)' => ports'[s][l] = containers[s][l]
         /\ \A s \in PortServices : \A l \in DOMAIN file[s] :
              BareSingle(file[s][l]) /\ DecidedYet(s, l)' => ports'[s][l] = containers[s][l]
<1> PICK s : s = PortOrder[at]
  OBVIOUS
<1> PICK l : l = line
  OBVIOUS
<1>1. CASE Settles
  <2>1. /\ step = "settle" /\ s \in PortServices /\ Place(s) = at /\ l \in DOMAIN file[s]
        /\ \A t \in PortServices : \A j \in DOMAIN file[t] : (t # s \/ j # l) => ports'[t][j] = ports[t][j]
        /\ \A t \in PortServices : \A j \in DOMAIN file[t] : SettledYet(t, j)' <=> SettledYet(t, j) \/ (t = s /\ j = l)
    BY <1>1, SettlesOne
  <2>2. Ranged(file[s][l]) => \E n \in SettledOn(s, file[s][l]) : ports'[s][l] = Moved(file[s][l], n)
    BY <1>1, SettlesOne
  <2>3. Ranged(file[s][l]) => ports'[s][l] = containers[s][l]
    <3> HAVE Ranged(file[s][l])
    <3>1. PICK n \in SettledOn(s, file[s][l]) : ports'[s][l] = Moved(file[s][l], n)
      BY <2>2
    <3>2. n = containers[s][l].lo
      BY <2>1, SettledAgain
    <3>3. Moved(file[s][l], containers[s][l].lo) = containers[s][l]
      BY <2>1, FoundAgain
    <3> QED BY <3>1, <3>2, <3>3
  <2>4. ASSUME NEW t \in PortServices, NEW j \in DOMAIN file[t], Ranged(file[t][j]), SettledYet(t, j)'
        PROVE  ports'[t][j] = containers[t][j]
    <3>1. CASE t = s /\ j = l
      BY <2>3, <2>4, <3>1
    <3>2. CASE t # s \/ j # l
      BY <2>1, <2>4, <3>2 DEF HeldAsFile
    <3> QED BY <3>1, <3>2
  <2>5. \A t, j : ~DecidedYet(t, j)'
    BY <1>1 DEF Settles, DecidedYet
  <2> QED BY <2>4, <2>5
<1>2. CASE Remaps
  <2>1. /\ s \in PortServices /\ l \in DOMAIN ports[s]
        /\ \A t \in PortServices : \A j \in DOMAIN ports[t] : (t # s \/ j # l) => ports'[t][j] = ports[t][j]
        /\ \A t \in PortServices : \A j \in DOMAIN ports[t] : Passed(t, j)' <=> Passed(t, j) \/ (t = s /\ j = l)
        /\ BareSingle(ports[s][l]) => ports[s][l] = file[s][l]
    BY <1>2, Decides
  <2>2. \/ ports' = ports /\ claims' = claims /\ (BareSingle(ports[s][l]) => Kept(s, ports[s][l]) = {})
        \/ /\ BareSingle(ports[s][l])
           /\ \E n \in HostPortNumbers : HandedTo(s, l, n) /\ Allowed(s, ports[s][l], n)
    BY <1>2, Decides
  <2>3. step = "remap" /\ step' = "remap" /\ \A t \in PortServices : DOMAIN ports[t] = DOMAIN file[t]
    BY <1>2, Zenon DEF Remaps, PortsTypeOK, LinesOf
  <2>4. BareSingle(ports[s][l]) <=> BareSingle(file[s][l])
    BY <2>1, BareSingleIs
  <2>5. CASE BareSingle(file[s][l])
    <3>1. Kept(s, ports[s][l]) = {containers[s][l].lo}
      BY <2>1, <2>3, <2>4, <2>5, KeptAgain
    <3>2. PICK n \in HostPortNumbers : HandedTo(s, l, n) /\ Allowed(s, ports[s][l], n)
      BY <2>2, <2>4, <2>5, <3>1
    <3>3. n = containers[s][l].lo
      BY <3>1, <3>2 DEF Allowed
    <3>4. ports'[s][l] = containers[s][l]
      BY <2>1, <2>3, <2>4, <2>5, <3>2, <3>3, FoundAgain DEF HandedTo
    <3>5. ~Ranged(file[s][l])
      BY <2>5 DEF BareSingle, Ranged
    <3> QED BY <2>1, <2>3, <3>4, <3>5 DEF HeldAsFile, DecidedYet, SettledYet
  <2>6. CASE ~BareSingle(file[s][l])
    <3>1. ports' = ports
      BY <2>2, <2>4, <2>6
    <3> QED BY <2>1, <2>3, <2>6, <3>1 DEF HeldAsFile, DecidedYet, SettledYet
  <2> QED BY <2>5, <2>6
<1> QED BY <1>1, <1>2

\* Once all is decided, nothing is asked for twice, nothing is in the way, and all is left alone.
LEMMA AllAsHeld ==
  ASSUME PortsTypeOK, HeldAsFile, \A s \in PortServices : \A l \in DOMAIN file[s] : SettledYet(s, l) /\ DecidedYet(s, l)
  PROVE  ports = containers
<1>1. \A s \in PortServices : \A l \in DOMAIN file[s] : ports[s][l] = containers[s][l]
  BY AsHeld
<1>2. /\ ports \in [PortServices -> Seq(PortEntries)] /\ containers \in [PortServices -> Seq(PortEntries)]
      /\ \A s \in PortServices : DOMAIN ports[s] = DOMAIN file[s] /\ DOMAIN containers[s] = DOMAIN file[s]
  BY DEF PortsTypeOK, LinesOf, HeldAsFile
<1>3. \A s \in PortServices : ports[s] = containers[s]
  <2> TAKE s \in PortServices
  <2>1. ports[s] \in Seq(PortEntries) /\ containers[s] \in Seq(PortEntries)
    BY <1>2
  <2>2. ports[s] = [i \in DOMAIN ports[s] |-> ports[s][i]] /\ containers[s] = [i \in DOMAIN containers[s] |-> containers[s][i]]
    BY <2>1
  <2> QED BY <1>1, <1>2, <2>2
<1> QED BY <1>2, <1>3

\* With both walks done, every entry is settled and decided.
LEMMA DecidedWhenThrough ==
  ASSUME PortsTypeOK, (step = "remap" /\ ServicesAreThrough) \/ step \in {"check", "start"}
  PROVE  \A s \in PortServices : \A l \in DOMAIN file[s] : SettledYet(s, l) /\ DecidedYet(s, l)
BY AllPassed DEF SettledYet, DecidedYet

\* Entries that are as the containers hold them are not asked for twice.
LEMMA NotTwice ==
  ASSUME HeldAsFile, PortsApart, ports = containers
  PROVE  ~TwiceAsked
<1> SUFFICES ASSUME TwiceAsked PROVE FALSE
  OBVIOUS
<1>1. PICK s \in PortServices, t \in PortServices : \E l \in DOMAIN ports[s] : \E j \in DOMAIN ports[t] : AskedTwice(s, l, t, j)
  BY TwiceAskedIs
<1>2. PICK l \in DOMAIN ports[s] : \E j \in DOMAIN ports[t] : AskedTwice(s, l, t, j)
  BY <1>1
<1>3. PICK j \in DOMAIN ports[t] : AskedTwice(s, l, t, j)
  BY <1>2
<1>4. l \in DOMAIN file[s] /\ j \in DOMAIN file[t]
  BY HeldEntriesAre
<1>5. ports[s][l].lo \in PortsOf(ports[s][l]) /\ ports[s][l].lo \in PortsOf(ports[t][j])
  <2>1. ports[s][l] \in PortEntries /\ ports[t][j] \in PortEntries
    BY <1>4, HeldEntriesAre, Zenon DEF LineOf
  <2>2. ports[s][l].lo \in Nat
    BY <2>1, EntriesAre
  <2> QED BY <1>3, <2>2 DEF AskedTwice, Single, PortsOf
<1>6. (s # t \/ l # j) /\ Collide(s, ports[s][l].addr, t, ports[t][j].addr)
  BY <1>3 DEF AskedTwice
<1> QED BY <1>4, <1>5, <1>6, HeldOnce

\* Nor does a service's own check find them held by another.
LEMMA NoConflict ==
  ASSUME PortsTypeOK, HeldAsFile, ports = containers, NEW s \in PortServices
  PROVE  ~Conflicts(s)
<1> SUFFICES ASSUME NEW e \in ToSet(ports[s]), Single(e)
             PROVE  Ask(e.addr, e.lo) = "taken" /\ e.lo \in Numbers(Published(s))
  BY DEF Conflicts
<1>1. PICK l \in DOMAIN ports[s] : e = ports[s][l]
  BY DEF ToSet
<1>2. e.lo \in PortsOf(e)
  <2>1. e.lo \in Nat
    BY <1>1, BareSingleIs, EntriesAre
  <2> QED BY <2>1 DEF PortsOf, Single
<1>3. <<e.addr, e.lo>> \in Published(s)
  BY <1>1, <1>2, HeldEntriesAre
<1>4. <<e.addr, e.lo>> \in Listening
  BY <1>3 DEF Listening
<1> QED BY <1>3, <1>4 DEF Ask, Numbers

\* A second `up` of the same file finds the record the first left.
LEMMA SecondUpBegins ==
  ASSUME PortsAreTyped, FirstUp, Again, same', comings' = 0, SharesNoPort(file)', LinesOf(ports)'
  PROVE  HeldAsFile'
<1>1. PortsTypeOK /\ LinesInTime /\ Started /\ step = "start" /\ ServicesAreThrough /\ round = 1 /\ comings = 0 /\ step' = "addresses"
  BY DEF PortsAreTyped, Again
<1>2. PICK up \in SUBSET PortServices, f \in PortFiles :
        containers' = [s \in up |-> containers[s]] /\ file' = f /\ same' = (f = file /\ up = PortServices)
  BY DEF Again
<1>3. up = PortServices /\ file' = file /\ UNCHANGED <<file, gone, others>>
  BY <1>2 DEF Again
<1>4. \A s \in PortServices : containers[s] = ports[s]
  BY <1>1, AllPassed DEF Started
<1>5. containers' = ports
  <2>1. ports = [s \in PortServices |-> ports[s]]
    BY <1>1 DEF PortsTypeOK, LinesOf
  <2> QED BY <1>2, <1>3, <1>4, <2>1
<1>6. DOMAIN containers' = PortServices
  BY <1>2, <1>3
<1>7. LinesOf(containers)'
  BY <1>1, <1>3, <1>5 DEF PortsTypeOK, LinesOf, LineOf, BareSingle, Single
<1>8. \A s \in PortServices : \A l \in DOMAIN file[s] : Ranged(file[s][l]) => Single(ports[s][l]) /\ RecordOf(ports, s, l)
  BY <1>1 DEF LinesInTime, FirstUp, SettledYet, Ranged
<1> PICK p : p = containers'
  OBVIOUS
<1>9. \A s \in PortServices : \A l \in DOMAIN file[s] : Ranged(file[s][l]) => RecordOf(containers, s, l)'
  <2>1. \A s \in PortServices : \A l \in DOMAIN file[s] : Ranged(file[s][l]) => RecordOf(p, s, l)
    BY <1>5, <1>8
  <2> QED BY <1>3, <2>1, RecordNextHeld
<1>10. \A s \in PortServices : \A l \in DOMAIN file[s] : ~SettledYet(s, l)' /\ ~DecidedYet(s, l)'
  BY <1>1 DEF SettledYet, DecidedYet
<1> QED BY <1>3, <1>5, <1>6, <1>7, <1>8, <1>9, <1>10 DEF HeldAsFile, Ranged, Single, BareSingle

\* Each step of a second `up` settles and decides as the containers have it,
\* and is not refused.
LEMMA SecondUpGoesOn ==
  ASSUME PortsAreTyped, PortsApart, ClaimsTrue, HeldAsFile, SharesNoPort(file), step \notin {"refused", "failed"},
         PortsNext, ~Again, ~OthersCome
  PROVE  /\ step' \notin {"refused", "failed"} /\ containers' = containers
         /\ \A s \in PortServices : \A l \in DOMAIN file[s] :
              Ranged(file[s][l]) /\ SettledYet(s, l)' => ports'[s][l] = containers[s][l]
         /\ \A s \in PortServices : \A l \in DOMAIN file[s] :
              BareSingle(file[s][l]) /\ DecidedYet(s, l)' => ports'[s][l] = containers[s][l]
<1>0. PortsTypeOK /\ LinesInTime
  BY DEF PortsAreTyped
<1>1. CASE Settles \/ Remaps
  BY <1>0, <1>1, SecondWalks, Zenon DEF Settles, Remaps
<1>2. CASE ~Settles /\ ~Remaps
  <2>1. ports' = ports
    BY <1>2 DEF PortsNext, LooksAtAddresses, PassesOn, TurnsToRemap, TurnsToCheck, ChecksPorts, TurnsToStart, Starts
  <2>2. \A s \in PortServices : \A l \in DOMAIN file[s] : SettledYet(s, l)' => SettledYet(s, l)
    BY <1>0, <1>2, SettledBefore
  <2>3. ASSUME NEW s \in PortServices, NEW l \in DOMAIN file[s], BareSingle(file[s][l]), DecidedYet(s, l)'
        PROVE  ports[s][l] = containers[s][l]
    <3>1. DecidedYet(s, l)
      <4>1. CASE TurnsToCheck \/ ChecksPorts \/ TurnsToStart \/ Starts
        <5>1. (step = "remap" /\ ServicesAreThrough) \/ step \in {"check", "start"}
          BY <4>1 DEF TurnsToCheck, ChecksPorts, TurnsToStart, Starts
        <5> QED BY <1>0, <5>1, DecidedWhenThrough
      <4>2. CASE LooksAtAddresses
        BY <2>3, <4>2 DEF LooksAtAddresses, DecidedYet
      <4>3. CASE PassesOn
        <5>1. Passed(s, l)' <=> Passed(s, l)
          BY <1>0, <4>3, PassingOn DEF PassesOn, PortsTypeOK, LinesOf
        <5> QED BY <2>3, <4>3, <5>1 DEF PassesOn, DecidedYet
      <4>4. CASE TurnsToRemap
        <5>1. ~Passed(s, l)'
          BY <1>0, <4>4, NonePassed DEF TurnsToRemap, PortsTypeOK, LinesOf
        <5> QED BY <2>3, <4>4, <5>1 DEF TurnsToRemap, DecidedYet
      <4> QED BY <1>2, <4>1, <4>2, <4>3, <4>4 DEF PortsNext
    <3> QED BY <2>3, <3>1 DEF HeldAsFile
  <2>4. /\ \A s \in PortServices : \A l \in DOMAIN file[s] :
             Ranged(file[s][l]) /\ SettledYet(s, l)' => ports'[s][l] = containers[s][l]
        /\ \A s \in PortServices : \A l \in DOMAIN file[s] :
             BareSingle(file[s][l]) /\ DecidedYet(s, l)' => ports'[s][l] = containers[s][l]
    BY <2>1, <2>2, <2>3 DEF HeldAsFile
  <2>5. step' \notin {"refused", "failed"} /\ containers' = containers
    <3>1. CASE LooksAtAddresses
      <4>1. ~AddressRefused
        BY DEF AddressRefused, HeldAsFile
      <4> QED BY <3>1, <4>1 DEF LooksAtAddresses
    <3>2. CASE PassesOn \/ TurnsToRemap \/ TurnsToStart
      BY <3>2 DEF PassesOn, TurnsToRemap, TurnsToStart
    <3>3. CASE TurnsToCheck
      <4>1. ports = containers
        BY <1>0, <3>3, DecidedWhenThrough, AllAsHeld DEF TurnsToCheck
      <4>2. ~TwiceAsked
        BY <4>1, NotTwice
      <4> QED BY <3>3, <4>2 DEF TurnsToCheck
    <3>4. CASE ChecksPorts
      <4>1. ports = containers
        BY <1>0, <3>4, DecidedWhenThrough, AllAsHeld DEF ChecksPorts
      <4>2. PortOrder[at] \in PortServices
        BY <3>4, PlaceIs DEF ChecksPorts
      <4>3. ~Conflicts(PortOrder[at])
        BY <1>0, <4>1, <4>2, NoConflict
      <4> QED BY <3>4, <4>3 DEF ChecksPorts
    <3>5. CASE Starts
      <4>1. ports = containers
        BY <1>0, <3>5, DecidedWhenThrough, AllAsHeld DEF Starts
      <4> PICK s : s = PortOrder[at]
        OBVIOUS
      <4>2. s \in PortServices
        BY <3>5, PlaceIs DEF Starts
      <4>3. LeftAlone(s)
        BY <4>1, <4>2 DEF LeftAlone, HeldAsFile
      <4>4. containers' = containers
        BY <1>0, <3>5, <4>3, StartsHeld
      <4>5. step' = "start"
        BY <1>0, <3>5, <4>3, StartsIs
      <4> QED BY <4>4, <4>5
    <3> QED BY <1>2, <3>1, <3>2, <3>3, <3>4, <3>5 DEF PortsNext
  <2> QED BY <2>4, <2>5
<1> QED BY <1>1, <1>2

\* So what a second `up` keeps to is kept by every step.
LEMMA SecondUpStep ==
  ASSUME PortsAreTyped, PortsAreTyped', PortsApart, ClaimsTrue, FirstUp, SecondUp, [PortsNext]_portVars
  PROVE  SecondUp'
<1> SUFFICES ASSUME round' = 2, same', comings' = 0, SharesNoPort(file)'
             PROVE  step' \notin {"refused", "failed"} /\ HeldAsFile'
  BY DEF SecondUp, HeldAsFile
<1>1. CASE Again
  <2>1. HeldAsFile'
    BY <1>1, SecondUpBegins DEF PortsAreTyped, PortsTypeOK
  <2> QED BY <1>1, <2>1 DEF Again
<1>2. CASE ~Again
  <2>1. ~OthersCome
    <3>1. comings \in Nat
      BY DEF PortsAreTyped, PortsTypeOK
    <3>2. OthersCome => comings' = comings + 1
      BY DEF OthersCome
    <3> QED BY <3>1, <3>2
  <2>2. /\ round = 2 /\ same /\ comings = 0 /\ UNCHANGED <<file, gone, others>>
    BY <1>2, <2>1, Zenon DEF PortsNext, portVars, LooksAtAddresses, PassesOn, Settles, TurnsToRemap, Remaps, TurnsToCheck,
                      ChecksPorts, TurnsToStart, Starts
  <2>3. SharesNoPort(file)
    <3>1. \A s \in PortServices : \A i, j \in DOMAIN file'[s] :
            i # j /\ (BareSingle(file'[s][i]) \/ ~(file'[s][i].many \/ Single(file'[s][i])))
              => ContainerPorts(file'[s][i]) \cap ContainerPorts(file'[s][j]) = {}
      BY Zenon DEF SharesNoPort
    <3> QED BY <2>2, <3>1, Zenon DEF SharesNoPort
  <2>4. step \notin {"refused", "failed"} /\ HeldAsFile
    BY <2>2, <2>3, SecondUpIs
  <2>5. /\ step' \notin {"refused", "failed"} /\ containers' = containers
        /\ \A s \in PortServices : \A l \in DOMAIN file[s] :
             Ranged(file[s][l]) /\ SettledYet(s, l)' => ports'[s][l] = containers[s][l]
        /\ \A s \in PortServices : \A l \in DOMAIN file[s] :
             BareSingle(file[s][l]) /\ DecidedYet(s, l)' => ports'[s][l] = containers[s][l]
    <3>1. CASE PortsNext
      BY <1>2, <2>1, <2>3, <2>4, <3>1, SecondUpGoesOn
    <3>2. CASE UNCHANGED portVars
      <4>1. /\ step' = step /\ at' = at /\ line' = line /\ containers' = containers /\ ports' = ports
        BY <3>2 DEF portVars
      <4>2. \A s, l : (SettledYet(s, l)' <=> SettledYet(s, l)) /\ (DecidedYet(s, l)' <=> DecidedYet(s, l))
        BY <4>1 DEF SettledYet, DecidedYet, Passed, Place
      <4> QED BY <2>4, <4>1, <4>2 DEF HeldAsFile
    <3> QED BY <3>1, <3>2
  <2>6. \A s \in PortServices : \A l \in DOMAIN file[s] : RecordOf(containers, s, l)' <=> RecordOf(containers, s, l)
    <3> PICK p : p = containers'
      OBVIOUS
    <3>1. p = containers
      BY <2>5
    <3> QED BY <2>2, <3>1, RecordNextHeld
  <2>7. LinesOf(containers)'
    BY <2>2, <2>4, <2>5 DEF HeldAsFile, LinesOf, LineOf, BareSingle, Single
  <2>8. \A s \in PortServices : \A l \in DOMAIN file[s] : Ranged(file[s][l]) => Single(containers[s][l]) /\ RecordOf(containers, s, l)
    BY <2>4 DEF HeldAsFile
  <2>9. DOMAIN containers' = PortServices
    BY <2>4, <2>5 DEF HeldAsFile
  <2>10. HeldAsFile'
    BY <2>2, <2>5, <2>6, <2>7, <2>8, <2>9, ZenonT(60) DEF HeldAsFile, Ranged, Single, BareSingle
  <2> QED BY <2>5, <2>10
<1> QED BY <1>1, <1>2

-----------------------------------------------------------------------------
(* The theorems.                                                           *)

\* Every part of the invariant holds at first.
LEMMA PortsBegin == PortsInit => PortsInv
<1> SUFFICES ASSUME PortsInit PROVE PortsInv
  OBVIOUS
<1>1. PortsAreTyped
  BY TypesInit DEF PortsAreTyped
<1>2. step = "addresses" /\ round = 1 /\ DOMAIN containers = {}
  BY DEF PortsInit
<1>3. PortsApart
  BY <1>2, PublishedIs DEF PortsApart
<1>4. ClaimsTrue /\ RangesClear /\ CheckClear /\ AddressesAsked /\ PortsChecked
  BY <1>2 DEF ClaimsTrue, RangesClear, CheckClear, AddressesAsked, PortsChecked
<1>5. FirstUp /\ SecondUp
  BY <1>2 DEF FirstUp, SecondUp, SettledYet
<1> QED BY <1>1, <1>3, <1>4, <1>5 DEF PortsInv

\* Every step keeps every part of it.
LEMMA PortsGoOn == PortsInv /\ [PortsNext]_portVars => PortsInv'
<1> SUFFICES ASSUME PortsInv, [PortsNext]_portVars PROVE PortsInv'
  OBVIOUS
<1>1. /\ PortsAreTyped /\ PortsTypeOK /\ LinesInTime /\ Started /\ PortsApart /\ ClaimsTrue /\ RangesClear /\ CheckClear
      /\ AddressesAsked /\ PortsChecked /\ FirstUp /\ SecondUp
  BY DEF PortsInv, PortsAreTyped
<1>2. PortsAreTyped'
  BY <1>1, TypesStep
<1>3. PortsApart'
  BY <1>1, ApartStep
<1>4. ClaimsTrue' /\ RangesClear'
  BY <1>1, ClaimsStep, RangesStep
<1>5. CheckClear'
  BY <1>1, CheckClearStep
<1>6. AddressesAsked' /\ PortsChecked'
  BY <1>1, AddressesStep, CheckedStep
<1>7. FirstUp'
  BY <1>1, FirstUpStep
<1>8. SecondUp'
  BY <1>1, <1>2, SecondUpStep
<1> QED BY <1>2, <1>3, <1>4, <1>5, <1>6, <1>7, <1>8 DEF PortsInv

\* The invariant says what the properties do of a state.
LEMMA SettledBy == PortsInv => MovedIsClear /\ SecondUpMovesNothing
<1> SUFFICES ASSUME PortsInv PROVE MovedIsClear /\ SecondUpMovesNothing
  OBVIOUS
<1>1. MovedIsClear
  BY DEF PortsInv, CheckClear, MovedIsClear
<1>2. ASSUME round = 2, same, comings = 0, SharesNoPort(file) PROVE step # "refused" /\ (step = "start" => ports = containers)
  <2>1. step \notin {"refused", "failed"} /\ HeldAsFile /\ PortsTypeOK
    BY <1>2, SecondUpIs DEF PortsInv, PortsAreTyped
  <2>2. step = "start" => ports = containers
    BY <2>1, DecidedWhenThrough, AllAsHeld
  <2> QED BY <2>1, <2>2
<1> QED BY <1>1, <1>2 DEF SecondUpMovesNothing

\* The inductive invariant of host ports: what is published, claimed, checked
\* and recorded, at every step of a first and a second `up`.
THEOREM PortsInvariant == PortsSpec => []PortsInv
BY PortsBegin, PortsGoOn, PTL DEF PortsSpec

\* An entry moved off its port collides with no other of the run; a port that
\* was free when checked is refused at the start only where the check could not
\* tell; and a second `up` of the same file, where no two entries share a
\* container's port, leaves every entry on the port its container has.
THEOREM PortsAlwaysSettled == PortsSpec => PortsAreSettled
<1>1. PortsInv /\ [PortsNext]_portVars /\ (step = "start" /\ step' = "failed" /\ quiet) =>
        LET s == PortOrder[at] IN
        \/ \E t \in PortServices : \E e \in ToSet(ports[t]) \cup ToSet(HeldEntries(t)) : ~Single(e)
        \/ \E e \in ToSet(ports[s]) : \E l \in freed \cup Published(s) : l[2] = e.lo /\ l[1] # e.addr
        \/ s \in running /\ \E e \in ToSet(ports[s]) : e.addr \in gone \/ <<e.addr, e.lo>> \in others \cup Denied
  BY PlacedStep DEF PortsInv
<1> QED BY <1>1, PortsInvariant, SettledBy, PTL DEF PortsSpec, PortsAreSettled, CheckedIsPlaced
=============================================================================
