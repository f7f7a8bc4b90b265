----------------------------- MODULE Addressing -----------------------------
(***************************************************************************)
(* IPv4 arithmetic (src/application/src/lib/ip.ts and the private helpers   *)
(* of the services), over addresses of Width bits instead of 32.  A dotted  *)
(* quad is its number; an address that does not parse is NoIp, a mask that  *)
(* is not contiguous NoPrefix.                                             *)
(***************************************************************************)
EXTENDS Integers, Sequences, SequencesExt, FiniteSetsExt

CONSTANTS
  Width,          \* bits of an address (32 in the code)
  PrivateBlocks,  \* the RFC 1918 blocks, as records [net, len]
  NoIp, NoPrefix

Ips == 0 .. 2 ^ Width - 1
PrefixLengths == 0 .. Width

ASSUME AddressingAssumption ==
  /\ Width \in Nat \ {0}
  /\ PrivateBlocks \subseteq [net : Ips, len : PrefixLengths]
  /\ NoIp \notin Ips /\ NoPrefix \notin PrefixLengths

BlockSize(len) == 2 ^ (Width - len)

(* ip & mask *)
NetworkOf(ip, len) == ip - (ip % BlockSize(len))

InSubnet(candidate, ip, len) == NetworkOf(candidate, len) = NetworkOf(ip, len)

IsPrivate(ip) == \E b \in PrivateBlocks : InSubnet(ip, b.net, b.len)

(* The bit of weight 2^i. *)
Bit(n, i) == (n \div (2 ^ i)) % 2

(* The mask's ones, counted from the highest bit; a one after a zero makes *)
(* the mask invalid.                                                       *)
MaskToPrefix(mask) ==
  LET Scan(acc, i) ==
        IF acc = NoPrefix THEN NoPrefix
        ELSE IF Bit(mask, i) = 0 THEN acc
        ELSE IF acc # Width - 1 - i THEN NoPrefix
        ELSE acc + 1
  IN  FoldLeft(Scan, 0, [k \in 1 .. Width |-> Width - k])

(* (0xffffffff << (32 - len)) >>> 0 *)
MaskOf(len) == 2 ^ Width - BlockSize(len)

(* An interface has an address and a prefix, taken from its CIDR suffix or *)
(* else from its mask.                                                     *)
PrefixOf(iface) == iface.prefix

Ipv4Ifaces(device) == {i \in Range(device.ifs) : i.ip # NoIp}
=============================================================================
