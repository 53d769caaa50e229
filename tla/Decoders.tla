------------------------------ MODULE Decoders ------------------------------
(***************************************************************************)
(* What the decoders of ot_scout/parser.py and ot_scout/opcua.py say of a   *)
(* frame of which only the first bytes were captured, or whose fields do   *)
(* not decode. Lengths are those of the protocols, in bytes; contents are  *)
(* left out but for the tags that decide what is said.                     *)
(*                                                                         *)
(* A frame is [net, vlans, trans, proto, local, items, bad]: its layers,    *)
(* whether its source and destination are unicast stations with addresses, *)
(* the items of its payload, and the first of them that does not decode.   *)
(* A claim is [what, item, got]: which item it is taken from, and how many *)
(* bytes of it (or, for a role or a transport, how specific it is).        *)
(***************************************************************************)
EXTENDS Naturals, Sequences

Claim(what, item, got) == [what |-> what, item |-> item, got |-> got]
least(a, b) == IF a <= b THEN a ELSE b
minus(a, b) == IF a <= b THEN 0 ELSE a - b

\* Where parts of these sizes begin that follow each other, and where the last ends.
Offsets(first, sizes) ==
  LET at[j \in 1..(Len(sizes) + 1)] == IF j = 1 THEN first ELSE at[j - 1] + sizes[j - 1]
  IN at

----------------------------------------------------------------------------
(* Payloads that are lists of items, each with its tag and size.           *)

\* pre: the bytes without which nothing is said; role: the sender's role is said
\* then; first: where the items begin; head: the bytes of tag and size; even: items
\* are padded; whole: a value that is cut is not used; exact: a value is used if what there
\* is of it has just the bytes needed; most: items that are read; uses: the tags that
\* say something, and the bytes of value each needs for it.
Lldp == [pre |-> 0, role |-> TRUE, first |-> 0, head |-> 2, even |-> FALSE,
         whole |-> TRUE, exact |-> FALSE, most |-> 512,
         uses |-> [port |-> 1, system |-> 1, description |-> 1]]
Modbus == [pre |-> 14, role |-> TRUE, first |-> 14, head |-> 2, even |-> FALSE,
           whole |-> TRUE, exact |-> FALSE, most |-> 255,
           uses |-> [manufacturer |-> 1, product |-> 1, firmware |-> 1]]
Dhcp == [pre |-> 240, role |-> FALSE, first |-> 240, head |-> 2, even |-> FALSE,
         whole |-> FALSE, exact |-> FALSE, most |-> 512,
         uses |-> [hostname |-> 1, class |-> 1, signature |-> 1]]
Dcp == [pre |-> 12, role |-> TRUE, first |-> 12, head |-> 4, even |-> TRUE,
        whole |-> FALSE, exact |-> FALSE, most |-> 512,
        uses |-> [model |-> 2, station |-> 2, device |-> 6, role |-> 3, address |-> 14]]
\* A TSAP says something if it has two bytes, in the frame or of a longer one in what
\* was captured.
Cotp == [pre |-> 7, role |-> TRUE, first |-> 11, head |-> 2, even |-> FALSE,
         whole |-> FALSE, exact |-> TRUE, most |-> 255, uses |-> [source |-> 2, target |-> 2]]
Szl == [pre |-> 41, role |-> TRUE, first |-> 41, head |-> 0, even |-> FALSE,
        whole |-> TRUE, exact |-> FALSE, most |-> 8, uses |-> [entry |-> 28]]
Enip == [pre |-> 64, role |-> TRUE, first |-> 62, head |-> 1, even |-> FALSE,
         whole |-> FALSE, exact |-> FALSE, most |-> 1, uses |-> [product |-> 1]]
Identity == [pre |-> 58, role |-> TRUE, first |-> 58, head |-> 1, even |-> FALSE,
             whole |-> FALSE, exact |-> FALSE, most |-> 1, uses |-> [product |-> 1]]

Format == [lldp |-> Lldp, modbus |-> Modbus, dhcp |-> Dhcp, dcp |-> Dcp,
           cotp |-> Cotp, szl |-> Szl, enip |-> Enip, cip |-> Identity]

\* Where item i begins.
Begins(f, i) ==
  LET fmt == Format[f.proto]
      padding(j) == IF fmt.even THEN f.items[j].size % 2 ELSE 0
  IN Offsets(fmt.first, [j \in 1..Len(f.items) |-> fmt.head + f.items[j].size + padding(j)])[i]

\* How much of the value of item i is there, of a payload of n bytes.
Got(f, i, n) == least(f.items[i].size, minus(n, Begins(f, i) + Format[f.proto].head))

UsedPartly(fmt, item, got) ==
  got >= fmt.uses[item.tag] /\ (fmt.exact => got = fmt.uses[item.tag])
Used(fmt, item, got) ==
  /\ got >= fmt.uses[item.tag]
  /\ fmt.whole => got = item.size
  /\ fmt.exact => got = fmt.uses[item.tag]

ItemClaims(f, n) ==
  LET fmt == Format[f.proto]
      used == {i \in DOMAIN f.items :
                 /\ i <= fmt.most /\ Begins(f, i) + fmt.head <= n
                 /\ f.items[i].tag \in DOMAIN fmt.uses
                 /\ Used(fmt, f.items[i], Got(f, i, n))}
      \* A DCP device that names its role has it said instead of the general one.
      named == \E i \in used : f.items[i].tag = "role"
  IN IF n < fmt.pre THEN {}
     ELSE (IF fmt.role THEN {Claim("role", 0, IF named THEN 1 ELSE 0)} ELSE {})
          \cup {Claim(f.items[i].tag, i, Got(f, i, n)) : i \in {j \in used : f.items[j].tag # "role"}}

----------------------------------------------------------------------------
(* Payloads whose claims are made one after the other, as far as it decodes. *)

\* The bytes up to the end of the first i parts.
Ends(parts, i) == Offsets(0, [j \in 1..Len(parts) |-> parts[j].size])[i + 1]

InTurn(parts, bad, n) ==
  {Claim(said[1], said[2], 0) : said \in
     UNION {parts[j].says \X {j} : j \in {k \in DOMAIN parts :
                                         Ends(parts, k) <= n /\ (bad = 0 \/ k < bad)}}}

Part(size, says) == [size |-> size, says |-> says]

\* The link layer header with its checksum, the function, the indications.
Dnp3 == <<Part(10, {"role", "link address", "peer address"}), Part(3, {"function"}),
          Part(2, {"indications"})>>

\* OPC UA: what a UaReader takes, with texts of TextSize bytes.
TextSize == 3
Text == 4 + TextSize
NodeId == 4
NoObject == NodeId + 1
RequestHeader == NodeId + 8 + 4 + 4 + Text + 4 + NoObject
ResponseHeader == 8 + 4 + 4 + 1 + 4 + NoObject
Application == 2 * Text + (1 + Text) + 4 + 2 * Text + 4
Endpoint == Text + Application + Text + 4 + Text + (4 + 4 * Text + 4) + Text + 1

ApplicationSays == {"application", "uri", "product", "vendor"}
EndpointsSay == ApplicationSays \cup {"endpoint", "modes", "policies", "tokens"}

\* What has been read of a message, with what is said once it has been.
OpcUaHeader == 8
MsgHeader == OpcUaHeader + 16 + NodeId
OpcUa ==
  [hello |-> <<Part(OpcUaHeader + 20 + Text,
                    {"client", "peer is server", "peer endpoint", "peer host"})>>,
   acknowledge |-> <<Part(OpcUaHeader, {"server"})>>,
   openChannel |-> <<Part(OpcUaHeader + 4 + 3 * Text, {"policy", "certificate"}),
                     Part(8 + NodeId, {"client"})>>,
   createSession |-> <<Part(MsgHeader + RequestHeader + Application + 3 * Text,
                            {"client", "peer is server", "peer endpoint", "peer host",
                             "peer uri", "session"} \cup ApplicationSays)>>,
   sessionCreated |-> <<Part(MsgHeader + ResponseHeader + 2 * NodeId + 8 + 2 * Text + 4
                             + 2 * Endpoint, {"server"} \cup EndpointsSay)>>,
   getEndpoints |-> <<Part(MsgHeader + RequestHeader + Text,
                           {"client", "peer is server", "peer endpoint"})>>,
   endpoints |-> <<Part(MsgHeader + ResponseHeader + 4 + 2 * Endpoint,
                        {"server"} \cup EndpointsSay)>>,
   servers |-> <<Part(MsgHeader + ResponseHeader + 4 + 2 * Application,
                      {"server"} \cup ApplicationSays)>>,
   activate |-> <<Part(MsgHeader + RequestHeader + 2 * Text + 4 + 4 + NodeId + 1 + 4 + 2 * Text,
                       {"client"}), Part(0, {"authentication"})>>]

OpcUaClaims(f, n) == InTurn(OpcUa[f.items], f.bad, n)

\* DNS: a name that is cut or loops makes the whole reply say nothing; a record that
\* is cut after its name ends the list. An item is a record, the first the question.
DnsBegins(f, i) ==
  Offsets(12, [j \in 1..Len(f.items) |->
                 f.items[j].name + (IF j = 1 THEN 4 ELSE 10) + f.items[j].size])[i]

DnsWhole(f, n) == {i \in DOMAIN f.items : DnsBegins(f, i + 1) <= n /\ (f.bad = 0 \/ i < f.bad)}

DnsClaims(f, n) ==
  LET next == CHOOSE i \in 1..(Len(f.items) + 1) : DnsWhole(f, n) = 1..(i - 1)
      stops == next <= Len(f.items) /\ (next = f.bad \/ DnsBegins(f, next) + f.items[next].name > n)
  IN IF n < 12 \/ stops THEN {}
     ELSE {Claim("name", i, 0) : i \in {j \in DnsWhole(f, n) : f.items[j].tag = "address"}}

----------------------------------------------------------------------------
(* parse_ethernet.                                                         *)

NetHeader == [none |-> 0, arp |-> 28, ip4 |-> 20, ip6 |-> 40]
TransHeader == [none |-> 0, udp |-> 8, tcp |-> 20]

NetAt(f) == 14 + 4 * f.vlans
TransAt(f) == NetAt(f) + NetHeader[f.net]
PayloadAt(f) == TransAt(f) + TransHeader[f.trans]

PayloadClaims(f, n) ==
  CASE f.proto = "opcua" -> IF n < OpcUaHeader THEN {} ELSE OpcUaClaims(f, n)
    [] f.proto = "dns" -> DnsClaims(f, n)
    [] f.proto = "dnp3" -> InTurn(Dnp3, 0, n)
    [] f.proto = "none" -> {}
    [] OTHER -> ItemClaims(f, n)

\* The addresses are there once the network header is, the ports and the payload once
\* the transport header is; until then the transport is named less exactly.
Addressed(f, n) == f.net # "none" /\ n >= TransAt(f)
TransportKnown(f, n) ==
  IF n < TransAt(f) THEN 0 ELSE IF n < PayloadAt(f) THEN 1 ELSE 2

Said(f, n) == IF n < PayloadAt(f) THEN {} ELSE PayloadClaims(f, n - PayloadAt(f))

\* endpoint_candidates: the source, whose address a DCP block may tell, and the
\* destination if it has an address.
Endpoints(f, n) ==
  LET told == Addressed(f, n) \/ (f.proto = "dcp" /\ \E c \in Said(f, n) : c.what = "address")
  IN (IF f.local[1] THEN {Claim("source", 0, IF told THEN 1 ELSE 0)} ELSE {})
     \cup (IF f.local[2] /\ Addressed(f, n) THEN {Claim("destination", 0, 1)} ELSE {})

parse_ethernet(f, n) ==
  IF n < 14 THEN {}
  ELSE {Claim("transport", 0, TransportKnown(f, n))} \cup Endpoints(f, n) \cup Said(f, n)

\* The bytes of a payload that has all its items.
PayloadSize(f) ==
  CASE f.proto = "opcua" -> Ends(OpcUa[f.items], Len(OpcUa[f.items]))
    [] f.proto = "dns" -> DnsBegins(f, Len(f.items) + 1)
    [] f.proto = "dnp3" -> Ends(Dnp3, Len(Dnp3))
    [] f.proto = "none" -> 0
    [] OTHER -> LET last == Len(f.items)
                IN Begins(f, last) + Format[f.proto].head + f.items[last].size

FrameSize(f) == PayloadAt(f) + PayloadSize(f)
=============================================================================
