----------------------------- MODULE HostPorts ------------------------------
(***************************************************************************)
(* The host ports of an `up`: addresses asked first, ranges settled, bare  *)
(* entries moved off what is taken, the rest checked, and the containers   *)
(* recreated on them (internal/orchestrator/orchestrator.go,               *)
(* refuseUnbindableHostAddresses to isWildcardAddr; normalizePort of       *)
(* internal/compose/load.go has filled in the host port of a bare entry).  *)
(*                                                                         *)
(* An entry is [addr, lo, hi, c, many, bare]: host ports lo..hi of an      *)
(* address to container port c, or to c, c+1, ... when many; bare when the *)
(* file named no host port (svc.AutoHostPort).  Two runs of `up` follow    *)
(* each other, the file possibly edited between them; other programs come  *)
(* and go.  One protocol stands for both.                                  *)
(***************************************************************************)
EXTENDS Naturals, Sequences, SequencesExt, FiniteSets

CONSTANTS PortOrder,     \* the services, in the order they are started
          PortFiles,     \* the `ports` a file may have: service -> sequence of entries
          HostAddresses,     \* what an entry may be published on
          MaxHostPort,
          FreeHostPortTries,
          Crowds,    \* what other programs may listen on: sets of <<addr, port>>
          Denied,    \* <<addr, port>> this user may not bind
          AddressesGone, \* the sets of addresses the machine may be without
          MaxComings \* how often other programs come or go

PortServices == ToSet(PortOrder)
HostPortNumbers == 1 .. MaxHostPort
PortEntries == [addr : HostAddresses, lo : HostPortNumbers, hi : HostPortNumbers, c : HostPortNumbers,
            many : BOOLEAN, bare : BOOLEAN]
Single(e) == e.lo = e.hi
PortsOf(e) == e.lo .. e.hi
ContainerPorts(e) == IF e.many THEN e.c .. (e.c + (e.hi - e.lo)) ELSE {e.c}

\* A service is started once; the mark of a bare entry is of one whose host
\* ports normalizePort wrote, those of the container.
ASSUME PortsAssumption ==
  /\ \A i, j \in DOMAIN PortOrder : PortOrder[i] = PortOrder[j] => i = j
  /\ PortOrder \in Seq(PortServices)
  /\ MaxHostPort \in Nat
  /\ \A f \in PortFiles : f \in [PortServices -> Seq(PortEntries)]
  /\ \A f \in PortFiles : \A s \in PortServices : \A i \in DOMAIN f[s] :
       LET e == f[s][i] IN e.lo <= e.hi /\ (e.bare => e.lo = e.c /\ (e.many \/ Single(e)))

VARIABLES
  file,       \* the compose file: service -> entries
  ports,      \* what this run makes of them
  containers, \* the services whose container runs -> the entries it publishes
  others,     \* <<addr, port>> other programs listen on
  gone,       \* addresses this machine will not bind
  claims,     \* remapAutoHostPorts: what is spoken for
  freed,      \* checkHostPorts: what has been let go of so far
  step, at, line, \* what the run is doing, at which service and entry it is
  running,    \* the services that were running when the check began
  round, same,\* runs so far; the second is of the same file, nothing stopped
  comings, quiet \* comings of others, and none this run
portVars == <<file, ports, containers, others, gone, claims, freed, step, at, line, running, round, same, comings, quiet>>

HeldEntries(s) == IF s \in DOMAIN containers THEN containers[s] ELSE <<>>
Published(s) == UNION {{<<e.addr, n>> : n \in PortsOf(e)} : e \in ToSet(HeldEntries(s))}
Listening == others \cup UNION {Published(s) : s \in PortServices}
Publishes(s, n) == \E e \in ToSet(ports[s]) : n \in PortsOf(e)

\* askHostPort: what a bind says, if only for the moment.
Ask(addr, n) == IF <<addr, n>> \in Listening THEN "taken"
                ELSE IF addr \in gone \/ <<addr, n>> \in Denied THEN "refused" ELSE "free"

\* hostPortsCollide
Collide(s, addr, t, other) == s = t \/ addr = other
Claim(s, e, fromFile) == [svc |-> s, addr |-> e.addr, lo |-> e.lo, hi |-> e.hi, fromFile |-> fromFile]
ClaimsOn(n, s, addr) ==
  {cl \in claims : n \in cl.lo .. cl.hi /\ Collide(cl.svc, cl.addr, s, addr)}
Taken(n, s, addr) == ClaimsOn(n, s, addr) # {}
\* A single port's claims are read before the spans are.
ClaimedByFile(n, s, addr) ==
  LET single == {cl \in ClaimsOn(n, s, addr) : cl.lo = cl.hi}
  IN \E cl \in IF single # {} THEN single ELSE ClaimsOn(n, s, addr) : cl.fromFile

-----------------------------------------------------------------------------
\* refuseUnbindableHostAddresses: of the services that are not running.
AddressRefused ==
  \E s \in PortServices \ DOMAIN containers : \E e \in ToSet(ports[s]) : e.addr \in gone

LooksAtAddresses ==
  /\ step = "addresses"
  /\ step' = IF AddressRefused THEN "refused" ELSE "settle"
  /\ UNCHANGED <<file, ports, containers, others, gone, claims, freed, at, line, running, round, same, comings, quiet>>

\* Both walks are over the services and, of each, over its entries.
AtEntry == at \in DOMAIN PortOrder /\ line \in DOMAIN ports[PortOrder[at]]
EntriesAreThrough == at \in DOMAIN PortOrder /\ line \notin DOMAIN ports[PortOrder[at]]
ServicesAreThrough == at \notin DOMAIN PortOrder

PassesOn ==
  /\ step \in {"settle", "remap"} /\ EntriesAreThrough
  /\ at' = at + 1 /\ line' = 1
  /\ UNCHANGED <<file, ports, containers, others, gone, claims, freed, step, running, round, same, comings, quiet>>

\* settleHostPortRanges: what another line holds, a range yet to settle aside.
Covers(n) == \E s \in PortServices : \E e \in ToSet(ports[s]) : n \in PortsOf(e) /\ (Single(e) \/ e.many)

\* The entries of a container that publish a port of it, and on what.
PublishedAt(s, c) == {i \in DOMAIN HeldEntries(s) : c \in ContainerPorts(HeldEntries(s)[i])}
HostPortAt(s, i, c) == HeldEntries(s)[i].lo + (c - HeldEntries(s)[i].c)
FirstOf(S) == {n \in S : \A m \in S : n <= m}
LastOf(S) == {n \in S : \A m \in S : m <= n}

\* The port the container is on, else the first free one, else the first.
SettledOn(s, e) ==
  LET kept == {i \in PublishedAt(s, e.c) : HostPortAt(s, i, e.c) \in PortsOf(e) /\ ~Covers(HostPortAt(s, i, e.c))}
      free == {n \in PortsOf(e) : ~Covers(n) /\ Ask(e.addr, n) = "free"}
  IN IF kept # {} THEN {HostPortAt(s, i, e.c) : i \in FirstOf(kept)}
     ELSE IF free # {} THEN FirstOf(free) ELSE {e.lo}

Moved(e, n) == [e EXCEPT !.lo = n, !.hi = n]

Settles ==
  /\ step = "settle" /\ AtEntry
  /\ line' = line + 1
  /\ LET s == PortOrder[at]
         e == ports[s][line]
     IN IF e.many \/ Single(e) THEN UNCHANGED ports
        ELSE \E n \in SettledOn(s, e) : ports' = [ports EXCEPT ![s][line] = Moved(e, n)]
  /\ UNCHANGED <<file, containers, others, gone, claims, freed, step, at, running, round, same, comings, quiet>>

-----------------------------------------------------------------------------
(* remapAutoHostPorts.                                                     *)

BareSingle(e) == e.bare /\ Single(e)

\* What the file speaks for: all but the bare single ports.
FileClaims ==
  UNION {{Claim(s, e, TRUE) : e \in {x \in ToSet(ports[s]) : ~BareSingle(x)}} : s \in PortServices}

TurnsToRemap ==
  /\ step = "settle" /\ ServicesAreThrough
  /\ step' = "remap" /\ at' = 1 /\ line' = 1 /\ claims' = FileClaims
  /\ UNCHANGED <<file, ports, containers, others, gone, freed, running, round, same, comings, quiet>>

Pinned(s, n) == \E e \in ToSet(ports[s]) : n \in PortsOf(e) /\ ~BareSingle(e)

\* The host port the container has for one of its ports, if any.  Of several, one
\* no line of the service pins comes first, then the last that is not of a
\* range, then the first.
HeldFor(s, c) ==
  LET on == PublishedAt(s, c)
      own == {i \in on : ~Pinned(s, HostPortAt(s, i, c))}
      better == IF own # {} THEN own ELSE on
      narrow == {i \in better : Single(HeldEntries(s)[i])}
  IN {HostPortAt(s, i, c) : i \in IF narrow # {} THEN LastOf(narrow) ELSE FirstOf(better)}

\* freeHostPortClearOf, from the number n0 the system answered with: the first
\* to be had of those not spoken for, up from it and then down; a few are tried.
AheadOf(n, n0) == IF n > n0 THEN (n0 + 1) .. (n - 1) ELSE (n0 + 1) .. MaxHostPort \cup (n + 1) .. (n0 - 1)
FirstClear(n0, e, spoken) ==
  {n \in HostPortNumbers \ (spoken \cup {n0}) :
     /\ Ask(e.addr, n) = "free"
     /\ LET tried == AheadOf(n, n0) \ spoken
        IN Cardinality(tried) < FreeHostPortTries /\ \A m \in tried : Ask(e.addr, m) # "free"}

SpokenFor(s, e) == {n \in HostPortNumbers : n = e.lo \/ Taken(n, s, e.addr)}

\* A bare entry keeps what its container is on unless a line of the file asks
\* for it, else the port it mirrors, else moves.
Kept(s, e) == {n \in HeldFor(s, e.c) : ~ClaimedByFile(n, s, e.addr)}
MirrorOf(s, e) == IF Taken(e.lo, s, e.addr) \/ Ask(e.addr, e.lo) # "free" THEN {} ELSE {e.lo}
Offered(e) == {n \in HostPortNumbers : Ask(e.addr, n) = "free"}
Clear(n0, s, e) == IF n0 \notin SpokenFor(s, e) THEN {n0} ELSE FirstClear(n0, e, SpokenFor(s, e))

Hands(s, e, n) ==
  /\ ports' = [ports EXCEPT ![s][line] = Moved(e, n)]
  /\ claims' = claims \cup {Claim(s, Moved(e, n), FALSE)}

Remaps ==
  /\ step = "remap" /\ AtEntry
  /\ line' = line + 1
  /\ LET s == PortOrder[at]
         e == ports[s][line]
     IN \/ /\ BareSingle(e)
           /\ \E n \in Kept(s, e) : Hands(s, e, n)
        \/ /\ BareSingle(e) /\ Kept(s, e) = {}
           /\ \E n \in MirrorOf(s, e) : Hands(s, e, n)
        \/ /\ BareSingle(e) /\ Kept(s, e) = {} /\ MirrorOf(s, e) = {}
           /\ \E n0 \in Offered(e) : \E n \in Clear(n0, s, e) : Hands(s, e, n)
        \* One that is not to be decided, and one that finds no place, stay.
        \/ /\ \/ ~BareSingle(e)
              \/ /\ Kept(s, e) = {} /\ MirrorOf(s, e) = {}
                 /\ Offered(e) = {} \/ \E n0 \in Offered(e) : Clear(n0, s, e) = {}
           /\ UNCHANGED <<ports, claims>>
  /\ UNCHANGED <<file, containers, others, gone, freed, step, at, running, round, same, comings, quiet>>

-----------------------------------------------------------------------------
(* checkHostPorts.                                                         *)

\* The lines of the run, by service and place.
PortLines == UNION {{s} \X DOMAIN ports[s] : s \in PortServices}
EntryAt(l) == ports[l[1]][l[2]]
LinesCollide(k, l) == Collide(k[1], EntryAt(k).addr, l[1], EntryAt(l).addr)

\* refuseDuplicateHostPorts; a range is not read.
TwiceAsked ==
  \E k, l \in PortLines :
    /\ k # l /\ Single(EntryAt(k)) /\ Single(EntryAt(l))
    /\ EntryAt(k).lo = EntryAt(l).lo /\ LinesCollide(k, l)

\* Recreating a service lets go of what its container holds and its entries
\* publish no longer.
LetsGo(s) == {l \in Published(s) : ~Publishes(s, l[2])}

\* Mutation: the whole run's are gathered first.
FreedUpFront == UNION {LetsGo(s) : s \in PortServices}
\* A container still ahead of the entry asking has not let go yet.
FreedAtFirst == {}

TurnsToCheck ==
  /\ step = "remap" /\ ServicesAreThrough
  /\ step' = IF TwiceAsked THEN "refused" ELSE "check"
  /\ at' = 1 /\ freed' = FreedAtFirst /\ running' = DOMAIN containers
  /\ UNCHANGED <<file, ports, containers, others, gone, claims, line, round, same, comings, quiet>>

\* The check compares numbers, whatever the address.
Numbers(held) == {l[2] : l \in held}
HeldByUs(n) == \E s \in PortServices : n \in Numbers(Published(s))

Conflicts(s) ==
  \E e \in ToSet(ports[s]) :
    /\ Single(e)
    /\ \/ /\ Ask(e.addr, e.lo) = "taken"
          /\ e.lo \notin Numbers(Published(s)) \cup Numbers(freed)
          /\ s \notin running \/ HeldByUs(e.lo)
       \/ Ask(e.addr, e.lo) = "refused" /\ s \notin running

ChecksPorts ==
  /\ step = "check" /\ at \in DOMAIN PortOrder
  /\ IF Conflicts(PortOrder[at]) THEN step' = "refused" /\ UNCHANGED <<at, freed>>
     ELSE /\ at' = at + 1 /\ freed' = freed \cup LetsGo(PortOrder[at])
          /\ UNCHANGED step
  /\ UNCHANGED <<file, ports, containers, others, gone, claims, line, running, round, same, comings, quiet>>

TurnsToStart ==
  /\ step = "check" /\ ServicesAreThrough
  /\ step' = "start" /\ at' = 1
  /\ UNCHANGED <<file, ports, containers, others, gone, claims, freed, line, running, round, same, comings, quiet>>

\* The service is left alone, or its container is deleted and the new one binds
\* its ports, which the runtime takes if they are free.
Binds(s) ==
  \A e \in ToSet(ports[s]) : \A n \in PortsOf(e) :
    /\ <<e.addr, n>> \notin others \cup UNION {Published(t) : t \in PortServices \ {s}}
    /\ e.addr \notin gone /\ <<e.addr, n>> \notin Denied
Overlaps(s) == \E i, j \in DOMAIN ports[s] : i # j /\ PortsOf(ports[s][i]) \cap PortsOf(ports[s][j]) # {}
LeftAlone(s) == s \in DOMAIN containers /\ containers[s] = ports[s]

Starts ==
  /\ step = "start" /\ at \in DOMAIN PortOrder
  /\ LET s == PortOrder[at] IN
     \/ /\ LeftAlone(s) \/ (Binds(s) /\ ~Overlaps(s))
        /\ containers' = [t \in DOMAIN containers \cup {s} |-> IF t = s THEN ports[s] ELSE containers[t]]
        /\ at' = at + 1 /\ UNCHANGED step
     \/ /\ ~LeftAlone(s) /\ (Overlaps(s) \/ ~Binds(s))
        /\ containers' = [t \in DOMAIN containers \ {s} |-> containers[t]]
        /\ step' = "failed" /\ UNCHANGED at
  /\ UNCHANGED <<file, ports, others, gone, claims, freed, line, running, round, same, comings, quiet>>

-----------------------------------------------------------------------------
\* The next `up`, of the same file or of an edited one; containers may have
\* been stopped in between.
Again ==
  /\ step = "start" /\ ServicesAreThrough /\ round = 1
  /\ \E up \in SUBSET PortServices, f \in PortFiles :
       /\ containers' = [s \in up |-> containers[s]]
       /\ file' = f /\ ports' = f /\ same' = (f = file /\ up = PortServices)
  /\ step' = "addresses" /\ at' = 1 /\ line' = 1 /\ round' = 2 /\ quiet' = TRUE
  /\ claims' = {} /\ freed' = {} /\ running' = {}
  /\ UNCHANGED <<others, gone, comings>>

\* Other programs come or go, an address with them.
OthersCome ==
  /\ comings < MaxComings /\ step \notin {"refused", "failed"}
  /\ \E c \in Crowds, g \in AddressesGone :
       /\ others' = c \ UNION {Published(s) : s \in PortServices} /\ gone' = g
       /\ <<others', gone'>> # <<others, gone>>
  /\ comings' = comings + 1 /\ quiet' = FALSE
  /\ UNCHANGED <<file, ports, containers, claims, freed, step, at, line, running, round, same>>

PortsInit ==
  /\ file \in PortFiles /\ ports = file
  /\ containers = [s \in {} |-> <<>>]
  /\ others \in Crowds /\ gone \in AddressesGone
  /\ claims = {} /\ freed = {} /\ step = "addresses" /\ at = 1 /\ line = 1
  /\ running = {} /\ round = 1 /\ same = FALSE /\ comings = 0 /\ quiet = TRUE

PortsNext ==
  \/ LooksAtAddresses \/ PassesOn \/ Settles \/ TurnsToRemap \/ Remaps \/ TurnsToCheck
  \/ ChecksPorts \/ TurnsToStart \/ Starts \/ Again \/ OthersCome

PortsSpec == PortsInit /\ [][PortsNext]_portVars
-----------------------------------------------------------------------------
(* Properties.                                                             *)

\* What the check let through the containers can bind, in the order they are
\* recreated, while nobody else comes or goes: but for ranges, which no check
\* reads, a number that was held on another address, which it tells apart only
\* by the number, and a running service, given the benefit of the doubt over
\* what another program holds (checkHostPorts).
CheckedIsPlaced ==
  [][step = "start" /\ step' = "failed" /\ quiet =>
    LET s == PortOrder[at] IN
    \/ \E t \in PortServices : \E e \in ToSet(ports[t]) \cup ToSet(HeldEntries(t)) : ~Single(e)
    \/ \E e \in ToSet(ports[s]) : \E l \in freed \cup Published(s) : l[2] = e.lo /\ l[1] # e.addr
    \/ s \in running /\ \E e \in ToSet(ports[s]) : e.addr \in gone \/ <<e.addr, e.lo>> \in others \cup Denied]_portVars

\* An entry opossum moved is on a port no other entry of the project asks for,
\* whichever was placed first and whatever has been placed since.
MovedIsClear ==
  step \in {"check", "start"} =>
    \A k, l \in PortLines :
      k # l /\ BareSingle(EntryAt(k)) /\ EntryAt(k).lo # EntryAt(k).c /\ EntryAt(k).lo \in PortsOf(EntryAt(l))
        => ~LinesCollide(k, l)

\* A second `up` of the file that is up already moves no port, and is not
\* refused ("Reusing those keeps the port - and so the config hash - stable
\* across re-ups"), if no entry whose host port is opossum's to choose shares a
\* container port with another of its service.
SharesNoPort(f) ==
  \A s \in PortServices : \A i, j \in DOMAIN f[s] :
    i # j /\ (BareSingle(f[s][i]) \/ ~(f[s][i].many \/ Single(f[s][i])))
      => ContainerPorts(f[s][i]) \cap ContainerPorts(f[s][j]) = {}
SecondUpMovesNothing ==
  round = 2 /\ same /\ comings = 0 /\ SharesNoPort(file) =>
    /\ step # "refused"
    /\ step = "start" => ports = containers

\* What `up` settles is nobody else's, stays as it is the next time and can be bound
\* once the check has let it through.
PortsAreSettled == [](MovedIsClear /\ SecondUpMovesNothing) /\ CheckedIsPlaced
=============================================================================
