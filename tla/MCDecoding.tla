----------------------------- MODULE MCDecoding -----------------------------
(* Instances of Decoding: a capture and an import that share one conversation *)
(* of three, and a frame of each protocol.                                    *)
EXTENDS Decoding

CONSTANTS live, import

Conversation(n) == [client |-> "hmi", server |-> "plc", context |-> n]
MCReads == [p \in {live, import} |->
              IF p = live THEN {Conversation(1), Conversation(2)}
              ELSE {Conversation(2), Conversation(3)}]

Item(tag, size) == [tag |-> tag, size |-> size]
Over(net, trans, proto, items) ==
  [net |-> net, vlans |-> 0, trans |-> trans, proto |-> proto,
   local |-> <<TRUE, TRUE>>, items |-> items, bad |-> 0]
Answer(name, size) == [tag |-> "address", name |-> name, size |-> size]

OpcUaFrames ==
  {[Over("ip4", "tcp", "opcua", kind) EXCEPT !.bad = b] :
     kind \in DOMAIN OpcUa, b \in 0..2}

DnsFrames ==
  {[Over("ip4", "udp", "dns", <<[tag |-> "question", name |-> 4, size |-> 0],
                                Answer(4, 4), [tag |-> "text", name |-> 2, size |-> 7],
                                Answer(2, 16)>>) EXCEPT !.bad = b] : b \in 0..4}

MCFrames ==
  OpcUaFrames \cup DnsFrames \cup
  {[Over("none", "none", "lldp", <<Item("chassis", 7), Item("system", 5),
                                   Item("description", 9), Item("end", 0)>>)
      EXCEPT !.vlans = 1, !.local = <<TRUE, FALSE>>],
   Over("ip4", "tcp", "modbus", <<Item("manufacturer", 4), Item("vendor url", 3),
                                  Item("firmware", 2)>>),
   Over("ip4", "udp", "dhcp", <<Item("hostname", 6), Item("class", 4), Item("end", 0)>>),
   [Over("none", "none", "dcp", <<Item("model", 5), Item("station", 8), Item("device", 6),
                                  Item("address", 14), Item("role", 4)>>)
      EXCEPT !.local = <<TRUE, FALSE>>],
   Over("ip4", "tcp", "cotp", <<Item("tpdu size", 1), Item("source", 2), Item("target", 2)>>),
   Over("ip4", "tcp", "cotp", <<Item("source", 12), Item("target", 3)>>),
   Over("ip4", "tcp", "szl", [i \in 1..9 |-> Item("entry", 28)]),
   Over("ip4", "udp", "enip", <<Item("product", 6)>>),
   Over("ip6", "tcp", "cip", <<Item("product", 4)>>),
   Over("ip6", "udp", "dnp3", <<>>),
   Over("arp", "none", "none", <<>>),
   Over("ip4", "none", "none", <<>>)}
=============================================================================
