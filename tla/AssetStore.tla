------------------------------ MODULE AssetStore ------------------------------
(***************************************************************************)
(* The inventory tables of ot_scout/store.py: assets, the aliases that     *)
(* merging leaves behind, the evidence that frames add to them (sightings, *)
(* IP evidence, the counters of a session) and the findings that cite      *)
(* them.  Every operation here is one transaction under Store.lock, so     *)
(* each is one step; a batch of frames is that many Record steps (that it  *)
(* commits as a whole is the business of CapturePipeline).                 *)
(*                                                                         *)
(* An identity is a MAC, or the "manual:" key that a documented asset      *)
(* without a MAC is given.  What is recorded about an asset (names,        *)
(* fingerprints, levels, free text) is left out.                           *)
(***************************************************************************)
EXTENDS Naturals, FiniteSets, FiniteSetsExt, Functions

CONSTANTS
  Macs,        \* unicast MACs seen in frames
  Manual,      \* "manual:" keys of documented assets without a MAC
  Multicast,   \* any multicast or broadcast MAC
  Sessions,    \* capture sessions
  MaxId,       \* bound: the largest asset id
  MaxFrames    \* bound: frames recorded in all

ASSUME InventoryAssumption ==
  /\ MaxId \in Nat /\ MaxFrames \in Nat
  /\ IsFiniteSet(Sessions)
  /\ Macs \cap Manual = {}
  /\ Multicast \notin Macs \cup Manual

Identities == Macs \cup Manual
Ids        == 1..MaxId

VARIABLES
  mac,         \* assets.mac: a function on the ids of the rows there are
  packets,     \* assets.packets
  alias,       \* asset_aliases: from MACs to asset ids
  sightings,   \* sightings.packets, 0 for no row
  ips,         \* asset_ips.packets of 'Frame source' evidence, 0 for no row
  frames,      \* sessions.packets
  cites,       \* finding_links of kind 'asset', for one finding: the ids it
               \* links to
  gone,        \* history: the ids in cites whose asset has been deleted
  listed       \* history: the asset each documented identity ended up in

evidence == <<packets, sightings, ips, frames>>
vars == <<mac, packets, alias, sightings, ips, frames, cites, gone,
          listed>>

Init ==
  /\ mac = <<>> /\ alias = <<>> /\ listed = <<>>
  /\ cites = {} /\ gone = {}
  /\ packets = [a \in Ids |-> 0]
  /\ sightings = [a \in Ids |-> [s \in Sessions |-> 0]]
  /\ ips = [a \in Ids |-> 0]
  /\ frames = [s \in Sessions |-> 0]

Rows == DOMAIN mac

(* The function f with the value v at k, whether or not k was in its domain *)
With(f, k, v) == [x \in DOMAIN f \cup {k} |-> IF x = k THEN v ELSE f[x]]

(***************************************************************************)
(* INTEGER PRIMARY KEY without AUTOINCREMENT: one more than the largest id *)
(* there is now (none when the bound is reached).                          *)
(***************************************************************************)
NewId(rows) ==
  {id \in Ids : (\A a \in rows : a < id) /\ (id = 1 \/ id - 1 \in rows)}

(* The row an identity is found in: by alias first, then by its own MAC.   *)
FoundByMacOnly(table, m) == {a \in DOMAIN table : table[a] = m}

Found(table, m) ==
  IF m \in DOMAIN alias
  THEN {alias[m]}
  ELSE {a \in DOMAIN table : table[a] = m}

(* The rows after _asset has found or inserted one for m, if it can.       *)
Known(table, m) ==
  IF m = Multicast \/ Found(table, m) # {}
  THEN {table}
  ELSE {With(table, id, m) : id \in NewId(DOMAIN table)}

Total(f) == MapThenSumSet(LAMBDA x : f[x], DOMAIN f)

-----------------------------------------------------------------------------
(***************************************************************************)
(* _record: the session is counted, _asset finds or inserts the source and *)
(* then the destination and counts the frame for each, and an IP frame is  *)
(* evidence for the address of its source.                                 *)
(***************************************************************************)
Record(s, src, dst, ip) ==
  \E withSrc \in Known(mac, src) : \E table \in Known(withSrc, dst) :
    LET From(a) == IF Found(table, src) = {a} THEN 1 ELSE 0
        Seen(a) == From(a) + (IF Found(table, dst) = {a} THEN 1 ELSE 0)
    IN
    /\ Total(frames) < MaxFrames
    /\ mac' = table
    /\ frames' = [frames EXCEPT ![s] = @ + 1]
    /\ packets' = [a \in Ids |-> packets[a] + Seen(a)]
    /\ sightings' = [a \in Ids |-> [sightings[a] EXCEPT ![s] = @ + Seen(a)]]
    /\ ips' = [a \in Ids |-> ips[a] + (IF ip THEN From(a) ELSE 0)]
    /\ UNCHANGED <<alias, cites, gone, listed>>

(* add_documented_asset: found or inserted, without evidence.              *)
AddDocumented(m) ==
  \E table \in Known(mac, m) : \E a \in Found(table, m) :
    /\ mac' = table
    /\ listed' = With(listed, m, a)
    /\ UNCHANGED <<alias, evidence, cites, gone>>

-----------------------------------------------------------------------------
(* Foreign keys: what refers to a deleted row is deleted with it.          *)
NoSightings == [s \in Sessions |-> 0]

Without(f, a) == Restrict(f, DOMAIN f \ {a})

CascadedIpsNone(a) == ips

CascadedIps(a) == [ips EXCEPT ![a] = 0]

(* Every entry of the table that names asset s names asset p instead.      *)
RepointNot(table, s, p) == table

RepointForgets(table, s, p) ==
  Restrict(table, {m \in DOMAIN table : table[m] # s})

Repoint(table, s, p) ==
  [m \in DOMAIN table |-> IF table[m] = s THEN p ELSE table[m]]

MergedAliasesForget(p, s) == Repoint(alias, s, p)

(* The aliases after s was folded into p: a "manual:" key leaves none.     *)
MergedAliases(p, s) ==
  LET kept == Repoint(alias, s, p)
  IN IF mac[s] \in Manual THEN kept ELSE With(kept, mac[s], p)

(* INSERT OR IGNORE: evidence both assets have keeps the primary's count.  *)
MergedEvidence(mine, other) == IF mine > 0 THEN mine ELSE other

MergedPacketsKept(mine, other) == mine

MergedPackets(mine, other) == mine + other

(* Sightings are added up session by session.                              *)
MergedSightingsAnySession(mine, other) ==
  [n \in Sessions |-> mine[n] + Total(other)]

MergedSightings(mine, other) == [n \in Sessions |-> mine[n] + other[n]]

(***************************************************************************)
(* merge_assets: the evidence and counters of s go to p, its MAC and its   *)
(* aliases become aliases of p, and its row is deleted.                    *)
(***************************************************************************)
Merge(p, s) ==
  /\ p # s
  /\ alias' = MergedAliases(p, s)
  /\ mac' = Without(mac, s)
  /\ packets' = [packets EXCEPT ![p] = MergedPackets(@, packets[s]), ![s] = 0]
  /\ sightings' = [sightings EXCEPT
                     ![p] = MergedSightings(@, sightings[s]),
                     ![s] = NoSightings]
  /\ ips' = [ips EXCEPT ![p] = MergedEvidence(@, ips[s]), ![s] = 0]
  /\ listed' = Repoint(listed, s, p)
  /\ gone' = gone \cup ({s} \cap cites)
  /\ UNCHANGED <<frames, cites>>

DeletableAlways(a) == a \in Rows

Deletable(a) == packets[a] = 0 \/ mac[a] \in Manual

Delete(a) ==
  /\ Deletable(a)
  /\ mac' = Without(mac, a)
  /\ alias' = Restrict(alias, {m \in DOMAIN alias : alias[m] # a})
  /\ packets' = [packets EXCEPT ![a] = 0]
  /\ sightings' = [sightings EXCEPT ![a] = NoSightings]
  /\ ips' = CascadedIps(a)
  /\ listed' = Restrict(listed, {m \in DOMAIN listed : listed[m] # a})
  /\ gone' = gone \cup ({a} \cap cites)
  /\ UNCHANGED <<frames, cites>>

(***************************************************************************)
(* link_finding and unlink_finding.  finding_links keeps the asset's id as *)
(* text, tied to no row; an id linked already stays as it is.              *)
(***************************************************************************)
Link(a) ==
  /\ cites' = cites \cup {a}
  /\ gone' = gone \ {a}
  /\ UNCHANGED <<mac, alias, evidence, listed>>

Unlink(a) ==
  /\ cites' = cites \ {a}
  /\ gone' = gone \ {a}
  /\ UNCHANGED <<mac, alias, evidence, listed>>

Next ==
  \/ \E s \in Sessions, src \in Macs, dst \in Macs \cup {Multicast},
        ip \in BOOLEAN :
       Record(s, src, dst, ip)
  \/ \E m \in Identities : AddDocumented(m)
  \/ \E p, s \in Rows : Merge(p, s)
  \/ \E a \in Rows : Delete(a) \/ Link(a)
  \/ \E a \in cites : Unlink(a)

Spec == Init /\ [][Next]_vars

-----------------------------------------------------------------------------
(* Properties                                                              *)

TypeOK ==
  /\ Rows \subseteq Ids /\ mac \in [Rows -> Identities]
  /\ DOMAIN alias \subseteq Macs /\ alias \in [DOMAIN alias -> Rows]
  /\ DOMAIN listed \subseteq Identities /\ listed \in [DOMAIN listed -> Rows]
  /\ packets \in [Ids -> Nat] /\ ips \in [Ids -> Nat]
  /\ sightings \in [Ids -> [Sessions -> Nat]]
  /\ frames \in [Sessions -> Nat]
  /\ cites \subseteq Ids /\ gone \subseteq cites

(***************************************************************************)
(* An identity names one asset: no two rows have the same MAC, and no MAC  *)
(* is both a row's own and the alias of a row, whatever is merged, deleted *)
(* and seen again in between.  _asset and add_documented_asset look in the *)
(* aliases first and would never find the row otherwise.                   *)
(***************************************************************************)
OneIdentity ==
  /\ \A a, b \in Rows : mac[a] = mac[b] => a = b
  /\ \A a \in Rows : mac[a] \notin DOMAIN alias

(***************************************************************************)
(* The packets of an asset are those of its sightings: two tables that     *)
(* _asset, merge_assets and the cascade keep up to date separately, and    *)
(* what the inventory and the sessions page show next to each other.       *)
(***************************************************************************)
EvidenceBalanced == \A a \in Ids : packets[a] = Total(sightings[a])

(***************************************************************************)
(* No asset has been seen in a session more often than twice (source and   *)
(* destination) per frame of the session, even after merges.               *)
(***************************************************************************)
SightingsWithinSession ==
  \A s \in Sessions :
    Total([a \in Ids |-> sightings[a][s]]) <= 2 * frames[s]

(* IP evidence from frames never outnumbers the frames.                    *)
EvidenceBacked == \A a \in Ids : ips[a] <= packets[a]

(***************************************************************************)
(* The only way to lose evidence is to delete an asset that has no MAC of  *)
(* its own: merging, re-importing and deleting any other asset keep it.    *)
(***************************************************************************)
EvidenceLostOnlyByDeletion ==
  [][Total(packets') < Total(packets) =>
       \E a \in Rows \ DOMAIN mac' : mac[a] \in Manual]_vars

(***************************************************************************)
(* Importing an asset that has a MAC again finds the asset the first       *)
(* import made, or the one it was merged into ("re-import updates instead  *)
(* of duplicating", tests/test_parser.py:598).                             *)
(***************************************************************************)
ReimportFindsMac ==
  \A m \in DOMAIN listed \cap Macs : Found(mac, m) = {listed[m]}

(* What the tables promise about identities (IdentityMap).                 *)
IdentitiesOf(a) == {mac[a]} \cup {m \in DOMAIN alias : alias[m] = a}

Groups == INSTANCE IdentityMap
            WITH groups <- {IdentitiesOf(a) : a \in Rows}

IdentitySpec == Groups!Spec

-----------------------------------------------------------------------------
(* What the repository says and the code does not always do.               *)

(***************************************************************************)
(* "re-import updates instead of duplicating" (tests/test_parser.py:598),  *)
(* for an asset without a MAC as well: importing a row again inserts no    *)
(* second asset while the asset the first import made is there.            *)
(***************************************************************************)
ReimportUpdates ==
  [][\A m \in DOMAIN listed : AddDocumented(m) => DOMAIN mac' = Rows]_vars

(***************************************************************************)
(* "Findings that cite this relationship / asset / zone pair" (the         *)
(* docstring of findings_for): the asset a finding is listed under is the  *)
(* one it was linked to, never a later one that was given its id.          *)
(***************************************************************************)
FindingsCiteTheirAsset ==
  gone \cap Rows = {}
=============================================================================
