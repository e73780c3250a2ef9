---------------------------- MODULE AccessControl ----------------------------
(***************************************************************************)
(* The address lists of an HttpServer (httpd/HttpServer.cpp, HttpServer.h):*)
(* which client addresses isIpAllowed lets through.                        *)
(*                                                                         *)
(* An address is the text of an IPv4 address, given by the bits that are   *)
(* set in its value of Width bits, or any other text, which inet_pton      *)
(* refuses.  Bit 0 is the lowest, {} is the value 0, and & is \cap.        *)
(***************************************************************************)
EXTENDS Integers

CONSTANTS
    Width,          \* bits of an address: 32 in the code
    Texts,          \* texts that are not IPv4 addresses
    NoConfig,       \* the field of a SubnetConfig that is left empty
    Cidrs,          \* the subnets that may be listed
    Configs         \* the whole configurations that may be set

ASSUME AccessAssumption == Width \in Nat \ {0}
ASSUME ConfigsAssumption == \A c \in Configs : {c.enabled, c.strict_mode} \subseteq BOOLEAN

VARIABLE m_access_control   \* an AccessControlConfig

Bits == 0..(Width - 1)
AllOnes == Bits
Values == SUBSET Bits
Addresses == Values \cup Texts

ASSUME TextsAssumption == \A value \in Values : value \notin Texts

-----------------------------------------------------------------------------
(* Addresses and masks *)

(* 0 when the text is no address, and for 0.0.0.0. *)
ipToUint32(ip) == IF ip \in Texts THEN {} ELSE ip

(* Shifting a 32-bit value by 32 is undefined: the compiled shift leaves   *)
(* the value as it is, or clears it.                                       *)
ShiftedMask(bits) ==
    IF bits < Width THEN {{b + bits : b \in AllOnes} \cap Bits} ELSE {{}, AllOnes}

Masks(prefix) == IF prefix = Width THEN {AllOnes} ELSE ShiftedMask(Width - prefix)

(* Fault: the bits of the network behind the prefix are kept. *)
parseCidr_Uncorrected(cidr) ==
    IF ipToUint32(cidr.network) = {} \/ cidr.prefix \notin 0..Width THEN {}
    ELSE {[network |-> cidr.network, mask |-> m] : m \in Masks(cidr.prefix)}

(* The networks and masks it may return; none if it fails. *)
parseCidr(cidr) ==
    IF ipToUint32(cidr.network) = {} \/ cidr.prefix \notin 0..Width THEN {}
    ELSE {[network |-> cidr.network \cap m, mask |-> m] : m \in Masks(cidr.prefix)}

isIpInNetwork(ip, network, mask) == ip \cap mask = network

isIpInCidr(ip, cidr) ==
    IF ipToUint32(ip) = {} \/ parseCidr(cidr) = {} THEN {FALSE}
    ELSE {isIpInNetwork(ip, n.network, n.mask) : n \in parseCidr(cidr)}

(* The answers that the code may give *)
isIpInSubnet(subnet, ip) ==
    IF subnet.cidr # NoConfig THEN isIpInCidr(ip, subnet.cidr)
    ELSE LET values == {ipToUint32(ip), ipToUint32(subnet.network), ipToUint32(subnet.mask)}
         IN  {{} \notin values /\ isIpInNetwork(ip, subnet.network, subnet.mask)}

isIpAllowed(ip) ==
    LET c == m_access_control
        inSubnets == {\E s \in c.allowed_subnets : f[s] :
                         f \in {g \in [c.allowed_subnets -> BOOLEAN] :
                                   \A s \in c.allowed_subnets : g[s] \in isIpInSubnet(s, ip)}}
    IN  IF ~c.enabled THEN {TRUE}
        ELSE IF ip \in c.allowed_ips THEN {c.strict_mode}
        ELSE {IF in THEN c.strict_mode ELSE ~c.strict_mode : in \in inSubnets}

-----------------------------------------------------------------------------
(* Configuring.  The order of the lists makes no difference, so they are   *)
(* sets.  default_allow is never read.                                     *)
Cidr(c) == [cidr |-> c, network |-> NoConfig, mask |-> NoConfig]

AccessInit ==
    m_access_control = [enabled |-> FALSE, strict_mode |-> TRUE,
                        allowed_subnets |-> {}, allowed_ips |-> {}]

setAccessControl(config) == m_access_control' = config

allowAllIPs ==
    setAccessControl([enabled |-> FALSE, strict_mode |-> TRUE,
                      allowed_subnets |-> {}, allowed_ips |-> {}])

allowSubnets(cidrs) ==
    setAccessControl([enabled |-> TRUE, strict_mode |-> TRUE,
                      allowed_subnets |-> {Cidr(c) : c \in cidrs}, allowed_ips |-> {}])

allowIPs(ips) ==
    setAccessControl([enabled |-> TRUE, strict_mode |-> TRUE,
                      allowed_subnets |-> {}, allowed_ips |-> ips])

denySubnets(cidrs) ==
    setAccessControl([enabled |-> TRUE, strict_mode |-> FALSE,
                      allowed_subnets |-> {Cidr(c) : c \in cidrs}, allowed_ips |-> {}])

denyIPs(ips) ==
    setAccessControl([enabled |-> TRUE, strict_mode |-> FALSE,
                      allowed_subnets |-> {}, allowed_ips |-> ips])

Lists(S) == {{}} \cup {{a, b} : a \in S, b \in S}  \* bound: two entries

AccessNext ==
    \/ allowAllIPs
    \/ \E cidrs \in Lists(Cidrs) : allowSubnets(cidrs) \/ denySubnets(cidrs)
    \/ \E ips \in Lists(Addresses) : allowIPs(ips) \/ denyIPs(ips)
    \/ \E config \in Configs : setAccessControl(config)

-----------------------------------------------------------------------------
(* Properties *)

AccessSpec == AccessInit /\ [][AccessNext]_m_access_control

Leading(prefix) == (Width - prefix)..(Width - 1)

SamePrefix(a, b, prefix) == \A i \in Leading(prefix) : i \in a <=> i \in b

(* The subnets that mean something: a network other than 0.0.0.0 with a    *)
(* prefix of 1 to Width bits, which in dotted notation are the ones of the *)
(* mask, with no bit of the network behind them.                           *)
PrefixLengths(subnet) ==
    {p \in 1..Width :
        IF subnet.cidr # NoConfig THEN subnet.cidr.prefix = p
        ELSE subnet.mask = Leading(p) /\ subnet.network \subseteq Leading(p)}

NetworkOf(subnet) == IF subnet.cidr # NoConfig THEN subnet.cidr.network ELSE subnet.network

Meaningful(subnet) == NetworkOf(subnet) \notin Texts \cup {{}} /\ PrefixLengths(subnet) # {}

Listed(ip) ==
    \/ ip \in m_access_control.allowed_ips
    \/ \E s \in m_access_control.allowed_subnets, p \in 1..Width :
          /\ p \in PrefixLengths(s) /\ ip \notin Texts \cup {{}}
          /\ SamePrefix(ip, NetworkOf(s), p)

(* With a list of meaningful entries, an allow list admits exactly the     *)
(* clients that are listed or share the first bits of a listed network,    *)
(* and a deny list with the same entries exactly the others; a client      *)
(* without an IPv4 address is in no subnet.  Nothing is said of empty      *)
(* lists: HttpServer.h:222 lets default_allow decide there, but no code    *)
(* reads it, and an allow list without entries admits nobody, a deny list  *)
(* without entries everybody.  Nor of a prefix of 0, whose shift is        *)
(* undefined: it lists everybody or nobody (HttpServer.cpp:99).            *)
ListsDecide ==
    LET c == m_access_control IN
    c.enabled /\ (c.allowed_subnets # {} \/ c.allowed_ips # {})
              /\ (\A s \in c.allowed_subnets : Meaningful(s))
        => \A ip \in Addresses : isIpAllowed(ip) = {Listed(ip) = c.strict_mode}
=============================================================================
