----------------------------- MODULE NetworkPlan -----------------------------
(***************************************************************************)
(* pkg/network: ToNetwork, which gives every host of the config that asks   *)
(* for one an address from the end of the range, and the choice of hosts    *)
(* that libvirt.SetupShared gives to the network's name server.             *)
(*                                                                          *)
(* A net.IP is a slice of bytes: thisIp and autoIp share the one that       *)
(* IPRange returned, and IPDecr changes it in place.                        *)
(*                                                                          *)
(* External: the cidr package (IPRange ends at the broadcast address,       *)
(* IPDecr takes one off with borrow) and net.IP's text.                     *)
(***************************************************************************)
EXTENDS Integers, Sequences, FiniteSets, FiniteSetsExt

CONSTANTS
  Cidrs,     \* the cidrs a config may have: records [ip, prefix, valid]
  MaxHosts   \* bound on the number of hosts of a config

Byte == 0 .. 255
Address == [1 .. 4 -> Byte]

ASSUME NetworkAssumption ==
  /\ \A c \in Cidrs : c.ip \in Address /\ c.prefix \in 0 .. 32
  /\ MaxHosts \in Nat

\* A host has an address of its own, or the text "auto" in place of one.
AutoText == << >>
HostLists(static) == UNION {[1 .. n -> {AutoText, static}] : n \in 0 .. MaxHosts}

-----------------------------------------------------------------------------
(* The cidr package (external).                                             *)

\* The bits of byte k that are not in the prefix, as a power of two.
HostBits(c, k) == 2 ^ Max({0, Min({8, 8 * k - c.prefix})})

NetworkAddress(c) == [k \in 1 .. 4 |-> c.ip[k] - (c.ip[k] % HostBits(c, k))]

\* The second result of IPRange.
EndIp(c) == [k \in 1 .. 4 |-> NetworkAddress(c)[k] + HostBits(c, k) - 1]

\* The last byte that is not zero is one less, the ones behind it are 255.
IPDecr(ip) ==
  LET last == Max({0} \cup {k \in 1 .. 4 : ip[k] # 0})
  IN [k \in 1 .. 4 |-> IF k < last THEN ip[k]
                       ELSE IF k = last THEN ip[k] - 1 ELSE 255]

-----------------------------------------------------------------------------
VARIABLES
  pc,       \* the next step
  user,     \* the UserNetwork: [cidr, hosts]
  bytes,    \* bytes[s]: what slice s holds
  autoIp,   \* the slice the variable of that name is
  hosts,    \* n.Hosts: the addresses, as text
  dns       \* the addresses the name server knows the hosts by

vars == <<pc, user, bytes, autoIp, hosts, dns>>

\* A static address, which no check holds against the range.
Static == <<192, 168, 1, 1>>

Init ==
  /\ pc = "parse"
  /\ user \in [cidr : Cidrs, hosts : HostLists(Static)]
  /\ bytes = << >> /\ autoIp = 0
  /\ hosts = << >> /\ dns = << >>

Goto(from, to) == pc = from /\ pc' = to

\* Mutant: the first address is taken off before the loop, as in a line of
\* the code that is commented out.
StartBelowEnd(c) == IPDecr(EndIp(c))

\* What autoIp holds when the loop begins.
StartIp(c) == EndIp(c)

Parse ==
  /\ user.cidr.valid
  /\ Goto("parse", "hosts")
  /\ bytes' = <<StartIp(user.cidr)>>
  /\ autoIp' = 1
  /\ UNCHANGED <<user, hosts, dns>>

ParseError ==
  /\ ~user.cidr.valid
  /\ Goto("parse", "error")
  /\ UNCHANGED <<user, bytes, autoIp, hosts, dns>>

\* Mutant: thisIp gets bytes of its own.
CopyOf(ip) == [bytes |-> Append(bytes, bytes[ip]), slice |-> Len(bytes) + 1]

\* thisIp := autoIp
ShareOf(ip) == [bytes |-> bytes, slice |-> ip]

AutoHost ==
  LET this == ShareOf(autoIp) IN
  /\ Goto("hosts", "hosts")
  /\ Len(hosts) < Len(user.hosts)
  /\ user.hosts[Len(hosts) + 1] = AutoText
  /\ bytes' = [this.bytes EXCEPT ![autoIp] = IPDecr(@)]
  /\ autoIp' = this.slice
  /\ hosts' = Append(hosts, bytes'[this.slice])
  /\ UNCHANGED <<user, dns>>

StaticHost ==
  /\ Goto("hosts", "hosts")
  /\ Len(hosts) < Len(user.hosts)
  /\ user.hosts[Len(hosts) + 1] # AutoText
  /\ hosts' = Append(hosts, user.hosts[Len(hosts) + 1])
  /\ UNCHANGED <<user, bytes, autoIp, dns>>

EndHosts ==
  /\ Goto("hosts", "shared")
  /\ Len(hosts) = Len(user.hosts)
  /\ UNCHANGED <<user, bytes, autoIp, hosts, dns>>

\* Mutant: the name server knows the first host only.
DnsFirstHost == SubSeq(hosts, 1, 1)

\* The first host, and the second one if there are two hosts.
DnsHosts == IF Len(hosts) = 2 THEN hosts ELSE SubSeq(hosts, 1, 1)

SetupShared ==
  /\ Goto("shared", "done")
  /\ hosts # << >>
  /\ dns' = DnsHosts
  /\ UNCHANGED <<user, bytes, autoIp, hosts>>

\* netconfig.Hosts[0] of no hosts.
SetupSharedPanic ==
  /\ Goto("shared", "panic")
  /\ hosts = << >>
  /\ UNCHANGED <<user, bytes, autoIp, hosts, dns>>

Next ==
  \/ Parse \/ ParseError
  \/ AutoHost \/ StaticHost \/ EndHosts
  \/ SetupShared \/ SetupSharedPanic

Spec == Init /\ [][Next]_vars

-----------------------------------------------------------------------------
(* Properties.                                                              *)

\* The hosts so far that got an address from the range, in order.
Autos == {h \in DOMAIN hosts : user.hosts[h] = AutoText}
Rank(h) == Cardinality({g \in Autos : g <= h})

\* Address ip less m, where an address is two numbers of 16 bits.
Hi(ip) == 256 * ip[1] + ip[2]
Lo(ip) == 256 * ip[3] + ip[4]
Minus(ip, m) ==
  <<(Hi(ip) + (Lo(ip) - m) \div 65536) % 65536, (Lo(ip) - m) % 65536>>

\* The slice that IPDecr changes is the one that is printed and the one that
\* the next host starts from: and so the m-th automatic address is the end of
\* the range less m, and never the end itself or the one before again.
AutosCountDown ==
  \A h \in Autos : Minus(hosts[h], 0) = Minus(EndIp(user.cidr), Rank(h))

Below(a, b) ==
  \E k \in 1 .. 4 : a[k] < b[k] /\ \A j \in 1 .. k - 1 : a[j] = b[j]

\* The addresses of the range less the network's and the broadcast address.
Room(c) ==
  HostBits(c, 1) * HostBits(c, 2) * HostBits(c, 3) * HostBits(c, 4) - 2

\* As long as the range has room, every automatic address is one that a host
\* can have: neither the network's nor the broadcast address, nor another's.
AutosUsable ==
  Cardinality(Autos) <= Room(user.cidr) =>
    \A h \in Autos :
      /\ Below(NetworkAddress(user.cidr), hosts[h])
      /\ Below(hosts[h], EndIp(user.cidr))
      /\ \A g \in Autos : hosts[g] = hosts[h] => g = h

\* The address that aihack and nexushack give to a service, in remote.go.
HackAddress == <<10, 200, 200, 253>>

\* The cidr that SetupShared gives to the network, whatever the config says.
LibvirtCidr == [ip |-> <<10, 200, 200, 1>>, prefix |-> 24, valid |-> TRUE]

\* The stacks of the repository name a virtual ip and a second host, both
\* automatic: the name server knows the second one by the address that the
\* hacks of the remote command put into the service.
HackMatchesSecondHost ==
  pc = "done" /\ user.cidr = LibvirtCidr /\ user.hosts = <<AutoText, AutoText>> =>
    Len(dns) = 2 /\ dns[2] = HackAddress
=============================================================================
