----------------------------- MODULE PortForms -----------------------------
(* A service's `ports:`: an entry in its short form or its long one, what is    *)
(* refused of it, and what is published (portspec.go, Ports and loadFilesEnvDir *)
(* of internal/compose).                                                        *)
(* A port as it is written is [is, low, high, lowZeros, highZeros, plus, tag,   *)
(* yaml]: the digits say low to high, each with so many zeros in front, and     *)
(* where YAML reads a number (tag "int" or "float") it is yaml (`010` is eight).*)
(* A short entry is [form, item, addr, host, container, proto], a long one      *)
(* [form, target, published, hostIP, protocol].                                 *)
EXTENDS Naturals, Sequences, SequencesExt, FiniteSets, Refusals

LastPort == 65535
Absent == [is |-> "absent", low |-> 0, high |-> 0, lowZeros |-> 0, highZeros |-> 0,
           plus |-> FALSE, tag |-> "none", yaml |-> 0]
NothingThere(p) == p.is \in {"absent", "empty"}
PortNumber(n) == [Absent EXCEPT !.is = "number", !.low = n, !.high = n]
\* bareInt: an integer written bare is the number YAML reads; any other is its text.
AsWritten(p) == IF p.tag = "int" THEN PortNumber(p.yaml) ELSE p
\* A float with a whole value is a target; `80.5` and `-0` are words.
TargetOf(p) == IF p.tag = "float" /\ p.is = "word" /\ p.yaml > 0 THEN PortNumber(p.yaml) ELSE AsWritten(p)

\* portRange: a number or a range, from least up, low not above high.
InRange(p, least) ==
  p.is \in {"number", "range"} /\ least <= p.low /\ p.low <= p.high /\ p.high <= LastPort
Width(p) == p.high - p.low
WithoutPlus(p) == [p EXCEPT !.plus = FALSE]

Protocols == {"none", "empty", "tcp", "TCP", "udp", "sctp"}
\* An address between colons: "colons" is `::` written without brackets; "twice bracketed"
\* is what a bracketed `host_ip` becomes.
Addresses == {"none", "empty", "v4", "v6", "[v6]", "colons"}

\* checkPortSpec
PortSpecFault(s) ==
  CASE s.proto \notin Protocols -> "protocol"
    [] s.proto \in Protocols /\ NothingThere(s.container) -> "no container port"
    [] OTHER ->
         CASE ~InRange(s.container, 1) -> "container port"
           [] InRange(s.container, 1) /\ ~NothingThere(s.host) /\ ~InRange(s.host, 0) -> "host port"
           [] OTHER -> IF Width(s.container) > 0 /\ ~NothingThere(s.host) /\ Width(s.host) # Width(s.container)
                       THEN "lengths" ELSE IF s.addr \notin Addresses THEN "address" ELSE "none"

Lower(proto) == IF proto = "TCP" THEN "tcp" ELSE proto
Bracketed(addr) == CASE addr = "v6" -> "[v6]" [] addr = "colons" -> "[any]" [] OTHER -> addr
\* `08080-8080` is `08080`: the first as it was written.
OnePort(p) ==
  IF p.is = "range" /\ Width(p) = 0 THEN [p EXCEPT !.is = "number", !.highZeros = 0] ELSE p
\* normalizePortSpec: an address or a protocol written as nothing is dropped, a plus sign is
\* no part of a port, a range of one is the port; zeros in front stay.
NormalizePortSpec(s) ==
  [addr |-> IF s.addr = "empty" THEN "none" ELSE Bracketed(s.addr),
   host |-> OnePort(WithoutPlus(s.host)), container |-> OnePort(WithoutPlus(s.container)),
   proto |-> IF s.proto = "empty" THEN "none" ELSE Lower(s.proto)]

SpecUnless(fault, s) == IF fault # "none" THEN Refused(fault) ELSE [spec |-> s]
ShortSpec(s) == SpecUnless(PortSpecFault(s), NormalizePortSpec(s))
ReadShort(e) ==
  IF e.item = "nothing" THEN Refused("empty entry")
  ELSE ShortSpec([addr |-> e.addr, host |-> e.host, proto |-> e.proto,
                  container |-> IF e.item = "int" THEN AsWritten(e.container) ELSE e.container])

\* The long form's faults, each under the key it is in.
LongPortFault(e, target, pub) ==
  CASE e.target.is = "bare" \/ e.published.is = "bare" -> "bare key"
    [] e.target.is # "bare" /\ e.published.is # "bare" /\ NothingThere(target) -> "no target"
    [] OTHER ->
         CASE ~InRange(target, 1) \/ Width(target) > 0 -> "target"
           [] InRange(target, 1) /\ Width(target) = 0 /\ ~NothingThere(pub) /\ ~InRange(pub, 0) -> "published"
           [] OTHER -> IF e.hostIP \notin {"none", "v4", "v6", "[v6]"} THEN "host_ip"
                       ELSE IF e.protocol \notin Protocols THEN "protocol" ELSE "none"
\* The spec the long form becomes; an address takes brackets, whatever it has.
LongSpec(e, target, pub) ==
  [addr |-> CASE e.hostIP = "v6" -> "[v6]" [] e.hostIP = "[v6]" -> "twice bracketed" [] OTHER -> e.hostIP,
   host |-> IF NothingThere(pub) THEN Absent ELSE WithoutPlus(pub),
   container |-> WithoutPlus(target), proto |-> e.protocol]
LongUnless(fault, s) == IF fault # "none" THEN Refused(fault) ELSE SpecUnless(PortSpecFault(s), s)
ReadLongPort(e, target, pub) == LongUnless(LongPortFault(e, target, pub), LongSpec(e, target, pub))
ReadLong(e) == ReadLongPort(e, TargetOf(e.target), AsWritten(e.published))

ReadPort(e) == IF e.form = "short" THEN ReadShort(e) ELSE ReadLong(e)

\* normalizePort: a host port that is left out or 0 is the container port, opossum's to move.
Mirrored(s) == NothingThere(s.host) \/ (s.host.low = 0 /\ s.host.high = 0)
HostPort(s) == [s EXCEPT !.host = IF Mirrored(s) THEN s.container ELSE s.host]
\* Mutation: a protocol left out is none of the protocols.
KeyAsWritten(n) == n
\* portKey: no protocol is tcp; ports are compared as text, `080` and `80` are two.
PortKey(n) == [n EXCEPT !.proto = IF n.proto = "none" THEN "tcp" ELSE n.proto]

\* Two entries for one port are the first of them, opossum's to move while every one is bare.
AddPort(settled, s) ==
  LET n == HostPort(s)
      same == {i \in DOMAIN settled : PortKey(settled[i].port) = PortKey(n)}
  IN IF same = {} THEN Append(settled, [port |-> n, auto |-> Mirrored(s)])
     ELSE LET i == CHOOSE i \in same : TRUE IN [settled EXCEPT ![i].auto = @ /\ Mirrored(s)]
PortsFrom(read) ==
  FirstRefusedOr(read, [ports |-> FoldLeft(LAMBDA acc, r : AddPort(acc, r.spec), <<>>, read)])
ReadPorts(entries) == PortsFrom([i \in DOMAIN entries |-> ReadPort(entries[i])])

-----------------------------------------------------------------------------
(* Reference: the ports a list is written for, whatever form each entry is in. *)

\* A number that is no text of its own is the one YAML reads.
MeantPort(p) == IF p.tag \in {"int", "float"} THEN PortNumber(p.yaml) ELSE p
\* An entry as one would write it in the short form, in quotes.
ShortOf(e) ==
  IF e.form = "short" THEN [e EXCEPT !.item = "text", !.container = MeantPort(@)]
  ELSE [form |-> "short", item |-> "text", proto |-> e.protocol, container |-> MeantPort(e.target),
        host |-> IF e.published.is = "absent" THEN IF e.hostIP = "none" THEN Absent ELSE [Absent EXCEPT !.is = "empty"]
                 ELSE MeantPort(e.published),
        addr |-> e.hostIP]
\* host port -> container port, at an address, by protocol; what the engine is left to choose
\* is said by `any`.
Publication(s) ==
  LET any == NothingThere(s.host) \/ (s.host.low = 0 /\ s.host.high = 0)
  IN [addr |-> s.addr, any |-> any, low |-> IF any THEN 0 ELSE s.host.low, high |-> IF any THEN 0 ELSE s.host.high,
      to |-> <<s.container.low, s.container.high>>, proto |-> IF s.proto \in {"none", "empty"} THEN "tcp" ELSE s.proto]

\* The long form and the short form of a port are published alike, and one is refused where
\* the other is: but for an address in brackets, which only the short form takes, the case
\* of a protocol, which only the short form settles, and a host port written as a float,
\* which is refused as the word it is. So are a number and its text.
HasAShortForm(e) ==
  e.form = "short" \/ (/\ e.hostIP # "[v6]" /\ e.protocol # "TCP" /\ e.published.tag # "float"
                       /\ e.target.is \notin {"bare", "range"} /\ e.published.is # "bare")
PublishedAlike(long, short) ==
  /\ IsRefused(long) <=> IsRefused(short)
  /\ ~IsRefused(short) => Publication(long.spec) = Publication(short.spec)
OnePortInTwoFormsOf(e) ==
  (e.form = "long" \/ e.item = "int") /\ HasAShortForm(e) => PublishedAlike(ReadPort(e), ReadShort(ShortOf(e)))

\* The port an entry names, by number.
PortNamed(n) ==
  [addr |-> n.addr, host |-> <<n.host.low, n.host.high>>, container |-> <<n.container.low, n.container.high>>,
   proto |-> IF n.proto = "none" THEN "tcp" ELSE n.proto]
SpeltAlike(p, q) == p.is = q.is /\ p.lowZeros = q.lowZeros /\ p.highZeros = q.highZeros

\* What is published has a host port for every container port and no part written as
\* nothing; one port is there twice only where its digits are written in two ways, and
\* opossum moves one no entry names only.
PortsAsPublishedOf(entries, a) ==
  ~IsRefused(a) =>
    /\ \A i \in DOMAIN a.ports :
         LET p == a.ports[i].port IN
         /\ InRange(p.host, 0) /\ ~p.host.plus /\ ~p.container.plus
         /\ p.addr \in {"none", "v4", "[v6]", "[any]"} /\ p.proto # "empty"
         /\ Width(p.container) > 0 => Width(p.host) = Width(p.container)
         /\ \A j \in DOMAIN a.ports :
              LET q == a.ports[j].port IN
              j # i /\ PortNamed(q) = PortNamed(p) => ~SpeltAlike(q.host, p.host) \/ ~SpeltAlike(q.container, p.container)
         /\ a.ports[i].auto <=> \A k \in DOMAIN entries :
              LET s == ReadPort(entries[k]).spec IN PortKey(HostPort(s)) = PortKey(p) => Publication(s).any
    /\ \A k \in DOMAIN entries :
         \E i \in DOMAIN a.ports : PortKey(a.ports[i].port) = PortKey(HostPort(ReadPort(entries[k]).spec))
=============================================================================
