----------------------------- MODULE NetworkKeys -----------------------------
(* Which networks of the runtime the services of a project are on, which of    *)
(* them `up` makes, and when a network it finds there is not the one the file  *)
(* declares (CheckNetworkKeys of internal/compose/load.go; networksFor,         *)
(* managedNetworks and ensureNetwork of internal/orchestrator/orchestrator.go). *)
(* A project is [nets, services, names]: nets, key -> [own, external, real,     *)
(* internal, subnet, labels]; services, name -> [none, keys]; names, in order.  *)
(* The runtime: name -> [internal, subnet, read], read being whether its        *)
(* inspect says what the network is.                                            *)
EXTENDS Naturals, Sequences, SequencesExt, FiniteSets, Refusals

CONSTANT NetworkRuntimeName   \* key -> the name it comes to under the project's

\* A project as it is loaded: every service is named, its keys are in a list.
IsProject(p) ==
  /\ p.names \in Seq(DOMAIN p.services)
  /\ \A n \in DOMAIN p.services : \E i \in DOMAIN p.names : p.names[i] = n
  /\ \A n \in DOMAIN p.services : p.services[n].keys \in Seq(ToSet(p.services[n].keys))
  /\ \A k \in DOMAIN p.nets : p.nets[k].external \in BOOLEAN

DefaultDecl == "default"
NoName == ""
Undeclared == [own |-> NoName, external |-> FALSE, real |-> NoName, internal |-> FALSE, subnet |-> NoName, labels |-> NoName]
DeclOf(p, key) == IF key \in DOMAIN p.nets THEN p.nets[key] ELSE Undeclared
IsNamed(decl) == ~decl.external /\ decl.own # NoName

\* networkKeys: none of the project's under `network_mode: none`, `default` where none is listed.
KeysOf(svc) ==
  IF svc.none THEN <<>> ELSE IF svc.keys = <<>> THEN <<DefaultDecl>> ELSE svc.keys
\* resolveNetwork, defaultNetwork.
ResolveNetwork(p, key) ==
  LET decl == DeclOf(p, key) IN
  [key |-> key, external |-> decl.external, internal |-> decl.internal, subnet |-> decl.subnet,
   name |-> CASE decl.external /\ decl.real # NoName -> decl.real
              [] decl.external /\ decl.real = NoName -> key
              [] IsNamed(decl) -> decl.own
              [] OTHER -> NetworkRuntimeName[key]]

-----------------------------------------------------------------------------
(* Where the services of a project join its networks, in the order the names   *)
(* and their keys are read: <<service, key>> by number.                        *)

\* networksFor, of each of the services.
JoinsOf(p, names) == UNION {{i} \X DOMAIN KeysOf(p.services[names[i]]) : i \in DOMAIN names}
JoinedAt(p, names, j) == ResolveNetwork(p, KeysOf(p.services[names[j[1]]])[j[2]])
Sooner(j, k) == j[1] < k[1] \/ (j[1] = k[1] /\ j[2] < k[2])
\* The networks that are the project's, and the first join of each name.
OwnJoins(p, names) == {j \in JoinsOf(p, names) : ~JoinedAt(p, names, j).external}
FirstJoins(p, names) ==
  {j \in OwnJoins(p, names) :
     \A k \in OwnJoins(p, names) : Sooner(k, j) => JoinedAt(p, names, k).name # JoinedAt(p, names, j).name}

SameNetworkDecl(a, b) == a.internal = b.internal /\ a.subnet = b.subnet /\ a.labels = b.labels
\* Mutation: two networks that are the same as far as the runtime can tell are one.
OneNetworkByDecl(p, k, l) == SameNetworkDecl(DeclOf(p, k), DeclOf(p, l))
\* Two keys of one network: under a `name:`, or the default one, and declared alike.
OneNetwork(p, k, l) ==
  /\ \A key \in {k, l} : key = DefaultDecl \/ IsNamed(DeclOf(p, key))
  /\ SameNetworkDecl(DeclOf(p, k), DeclOf(p, l))
\* A name is its first taker's.
CheckNetworkKeys(p) ==
  \A f \in FirstJoins(p, p.names), j \in OwnJoins(p, p.names) :
    LET first == JoinedAt(p, p.names, f)
        later == JoinedAt(p, p.names, j)
    IN first.name = later.name => first.key = later.key \/ OneNetwork(p, first.key, later.key)

\* managedNetworks: what the services started are on, each name once, as the first says.
ManagedNetworks(p, order) == {JoinedAt(p, order, j) : j \in FirstJoins(p, order)}

\* EnsureNetworkLabeled makes what is not there; what is there must be what is declared,
\* as far as its inspect says.
IsAnother(rn, there) ==
  /\ rn.name \in DOMAIN there /\ there[rn.name].read
  /\ there[rn.name].internal # rn.internal \/ (rn.subnet # NoName /\ there[rn.name].subnet # rn.subnet)
Made(rn) == [internal |-> rn.internal, subnet |-> IF rn.subnet # NoName THEN rn.subnet ELSE "chosen", read |-> TRUE]
UpNetworks(p, order, there) ==
  LET managed == ManagedNetworks(p, order)
      missing == {rn \in managed : rn.name \notin DOMAIN there}
  IN IF ~CheckNetworkKeys(p) THEN Refused("keys")
     ELSE IF \E rn \in managed : IsAnother(rn, there) THEN Refused("another")
     ELSE [there |-> [n \in DOMAIN there \cup {rn.name : rn \in missing} |->
                        IF n \in DOMAIN there THEN there[n] ELSE Made(CHOOSE rn \in missing : rn.name = n)]]

-----------------------------------------------------------------------------
\* What `up` goes on with: each service is on networks that are as its keys are declared,
\* host-only ones host-only, and no two services are on one network that the file keeps
\* apart.  And only such a fault is refused.
Fits(decl, net) == net.read => net.internal = decl.internal /\ (decl.subnet # NoName => net.subnet = decl.subnet)
KeepsApart(p, k, l) ==
  k # l /\ ~(/\ SameNetworkDecl(DeclOf(p, k), DeclOf(p, l))
             /\ \A key \in {k, l} : key = DefaultDecl \/ DeclOf(p, key).own # NoName)
Managed(p, names) == {k \in UNION {ToSet(KeysOf(p.services[n])) : n \in names} : ~DeclOf(p, k).external}
NetworksAreAsDeclaredOf(p, order, there) ==
  LET a == UpNetworks(p, order, there)
      used == Managed(p, ToSet(order))
      all == Managed(p, DOMAIN p.services)
      NameOf(k) == ResolveNetwork(p, k).name
      clash == \E k, l \in all : NameOf(k) = NameOf(l) /\ KeepsApart(p, k, l)
  IN IF IsRefused(a) THEN clash \/ \E k \in used : NameOf(k) \in DOMAIN there /\ ~Fits(DeclOf(p, k), there[NameOf(k)])
     ELSE /\ ~clash
          /\ \A k \in used : NameOf(k) \in DOMAIN a.there /\ Fits(DeclOf(p, k), a.there[NameOf(k)])
          /\ \A n \in DOMAIN there : a.there[n] = there[n]
=============================================================================
