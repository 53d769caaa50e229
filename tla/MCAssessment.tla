---------------------------- MODULE MCAssessment ----------------------------
(* Instances of Assessment: two assets, the internet and an unknown local   *)
(* address.                                                                 *)
EXTENDS Assessment, TLC

CONSTANTS i1, i2

MCAssets == {"a1", "a2"}

Packets(f, n) == [src |-> f[1], dst |-> f[2], point |-> f[3], packets |-> n]

\* While the second point has seen nothing, no two zone pairs have as many packets;
\* then those of a1 tie.
MCFlows == {Packets(<<"a1", "a2", "P1">>, 2), Packets(<<"a1", "ext", "P1">>, 1),
            Packets(<<"a1", "ext", "P2">>, 1), Packets(<<"a2", "loc", "P1">>, 4)}

\* By the first name, then by the second: a1, a2, the local address, the internet.
NamePosition == [k \in MCAssets \cup {"loc", "ext"} |->
                   CASE k = "a1" -> 0 [] k = "a2" -> 1 [] k = "loc" -> 2 [] OTHER -> 3]
MCNameOrder == [k \in Keys |-> LET places == {NamePosition[e] : e \in k}
                               IN 4 * Min(places) + Max(places)]

Unseen == [mac |-> "global", network |-> FALSE, observed |-> FALSE, documented |-> FALSE,
           sources |-> "none", direct |-> "none", transits |-> FALSE, adjacent |-> FALSE,
           role |-> "", served |-> FALSE, spoke |-> FALSE, protocols |-> "none",
           manual_type |-> ""]
Seen == [Unseen EXCEPT !.observed = TRUE, !.sources = "few", !.direct = "local",
                       !.protocols = "enterprise"]
Controller == [Seen EXCEPT !.served = TRUE, !.protocols = "industrial"]
Transit == [Seen EXCEPT !.sources = "many"]

MCTypes == {"", "Switch"}

MCEvidences == {[e EXCEPT !.documented = d, !.manual_type = t] :
                  e \in {Unseen, Seen, Controller, Transit}, d \in BOOLEAN, t \in MCTypes}

MCLearned == [a \in MCAssets |-> IF a = "a1" THEN Seen ELSE Unseen]
MCCaptured == {f \in MCFlows : f.src = "a1" /\ f.point = "P1"}

MCPoints == {[pcap |-> FALSE, third |-> 20, packets |-> 25],
             [pcap |-> FALSE, third |-> 0, packets |-> 5]}

MCOldRows == {[ref |-> Ref("OBS", 1), typed |-> FALSE, title |-> "external", dk |-> "",
               links |-> {}]}

MCOwnRefs == {Ref("OBS", 2), [Ref("OBS", 7) EXCEPT !.odd = TRUE]}

Importing == Permutations({i1, i2})
=============================================================================
