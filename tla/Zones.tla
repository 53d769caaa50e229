------------------------------- MODULE Zones -------------------------------
(***************************************************************************)
(* Zones and conduits of ot_scout/store.py: the Purdue level of each asset *)
(* and where it came from, the relationships that the flows between them   *)
(* give, the assessor's decision on each conduit, and the two views of the *)
(* zone pairs, the numbered table (_zone_summary) and the numbered diagram *)
(* (purdue_svg).                                                           *)
(*                                                                         *)
(* An address belongs to one asset at first and moves with it when assets  *)
(* are merged. Endpoints that are no asset are External ("ext", a name or  *)
(* a public address) or Unmapped local ("loc").                            *)
(***************************************************************************)
EXTENDS Levels, FiniteSetsExt

CONSTANTS
  Assets,       \* the rows of the inventory at first; an asset holds one address
  Flows,        \* the unicast flows that may be seen: [src, dst, point, packets]
  Evidences,    \* the states of evidence an asset goes through, for every type
                \* the assessor may give it, documented or not
  Decisions,    \* CONDUIT_DECISIONS, "Unknown" among them
  Learned,      \* the evidence about each asset, as a capture left it
  Captured,     \* the flows it recorded
  NameOrder     \* the place of two endpoints among all twos, by the names they are
                \* shown with: every asset has been given one, and it stays

Endpoints == Assets \cup {"ext", "loc"}
Keys == {{a, b} : a, b \in Endpoints}

ASSUME ZonesAssumption ==
  /\ Assets \cap {"ext", "loc"} = {}
  /\ Evidences \subseteq Evidence
  /\ \A e \in Evidences : [e EXCEPT !.documented = TRUE] \in Evidences
  /\ "Unknown" \in Decisions
  /\ Learned \in [Assets -> Evidences] /\ Captured \subseteq Flows
  /\ Flows \subseteq [src : Endpoints, dst : Endpoints, point : STRING, packets : Nat \ {0}]
  /\ NameOrder \in [Keys -> Nat]
  /\ \A k, l \in Keys : NameOrder[k] = NameOrder[l] => k = l

VARIABLES
  owner,      \* the asset that holds the address an asset had at first
  evidence,   \* what is known of each asset
  level,      \* assets.purdue_level
  source,     \* assets.purdue_source
  seen,       \* the flows recorded so far
  decision    \* conduits: the decision on a set of two endpoints

zoneVars == <<owner, evidence, level, source, seen, decision>>

ZoneTypeOK ==
  /\ owner \in [Assets -> Assets]
  /\ \A a \in Assets : owner[owner[a]] = owner[a]
  /\ evidence \in [Assets -> Evidences]
  /\ level \in [Assets -> Purdue \cup {""}]
  /\ source \in [Assets -> {"", "Suggested", "Assessor"}]
  /\ \A a \in Assets : level[a] = "" => source[a] = ""
  /\ seen \subseteq Flows
  /\ decision \in [Keys -> Decisions]

ZoneInit ==
  /\ owner = [a \in Assets |-> a]
  /\ evidence = Learned
  /\ level = [a \in Assets |-> ""]
  /\ source = [a \in Assets |-> ""]
  /\ seen = Captured
  /\ decision = [k \in Keys |-> "Unknown"]

----------------------------------------------------------------------------
(* The views.                                                              *)

\* What Levels says of each evidence and of two levels, worked out once.
PhysicalOf == [e \in Evidences |-> physical_asset(e)]
SuggestionOf == [e \in Evidences |-> suggest_level(e)]
InfraOf == [e \in Evidences |-> is_infra(e)]
PairOf == [p \in AllLevels \X AllLevels |-> pair_key(p[1], p[2])]
CrossingOf == [p \in AllLevels \X AllLevels |-> crossing_kind(p[1], p[2])]

Alive == {a \in Assets : owner[a] = a}
Physical == {a \in Alive : PhysicalOf[evidence[a]]}
Suggestion(a) == SuggestionOf[evidence[a]]
Infrastructure(a) == level[a] = "" /\ InfraOf[evidence[a]]

\* The source that is shown: a level without a recorded source is the assessor's.
ShownSource(a) == IF source[a] = "" /\ level[a] # "" THEN "Assessor" ELSE source[a]

endpoint_level(k) ==
  IF k = "ext" THEN "External"
  ELSE IF k = "loc" THEN "Unmapped local"
  ELSE IF level[k] # "" THEN level[k]
  ELSE IF Infrastructure(k) THEN "Network infrastructure" ELSE "Unassigned"

endpoint(k) == IF k \in Assets THEN owner[k] ELSE k

Total(flows) == FoldSet(LAMBDA f, n : n + f.packets, 0, flows)

\* One relationship for two endpoints and a collection point, out of all the
\* flows between them; flows of an asset with itself make none.
relationships ==
  LET between(f) == {endpoint(f.src), endpoint(f.dst)}
      crossed == {f \in seen : endpoint(f.src) # endpoint(f.dst)}
  IN {LET flows == {f \in crossed : between(f) = between(g) /\ f.point = g.point}
          ends == between(g)
          a == endpoint(g.src)
          b == endpoint(g.dst)
      IN [ends     |-> ends,
          point    |-> g.point,
          pair     |-> PairOf[<<endpoint_level(a), endpoint_level(b)>>],
          crossing |-> CrossingOf[<<endpoint_level(a), endpoint_level(b)>>],
          decision |-> decision[ends],
          packets  |-> Total(flows)] : g \in crossed}

(* The zone pairs of a set of relationships, in the table and the diagram.  *)

ZonePairs(rels) == {r.pair : r \in rels}
PairPackets(rels, p) == Total({r \in rels : r.pair = p})
PairCrosses(p) == CrossingOf[p] # ""

\* Both lists have the crossings first, then the pairs with more packets.
Leads(rels, p, q) ==
  IF PairCrosses(p) = PairCrosses(q) THEN PairPackets(rels, p) > PairPackets(rels, q)
  ELSE PairCrosses(p)
Ties(rels, p, q) ==
  PairCrosses(p) = PairCrosses(q) /\ PairPackets(rels, p) = PairPackets(rels, q)

\* The order of the relationships, by packets and names.
RelationshipBefore(r, s) ==
  \/ r.packets > s.packets
  \/ r.packets = s.packets /\ NameOrder[r.ends] < NameOrder[s.ends]

\* A pair is inserted with the first of its relationships; the sort of the table is
\* stable, so that pairs that tie stay in this order.
InsertedBefore(rels, p, q) ==
  \E r \in rels : r.pair = p /\ \A s \in rels : s.pair = q => RelationshipBefore(r, s)

TableBefore(rels, p, q) == Leads(rels, p, q) \/ (Ties(rels, p, q) /\ InsertedBefore(rels, p, q))

\* The row of a pair in _zone_summary()["pairs"].
TableRow(rels, p) ==
  Cardinality({q \in ZonePairs(rels) \ {p} : TableBefore(rels, q, p)}) + 1

Band(a) == IF level[a] # "" THEN level[a]
           ELSE IF Infrastructure(a) THEN "Network infrastructure" ELSE "Unassigned"

Bands(rels) ==
  Purdue \cup {Band(a) : a \in Physical}
         \cup {l \in {"External"} : \E p \in ZonePairs(rels) : l \in {p[1], p[2]}}

\* The pairs that purdue_svg draws a line for.
DrawnPairs(rels) ==
  {p \in ZonePairs(rels) : p[1] # p[2] /\ {p[1], p[2]} \subseteq Bands(rels)}

\* The diagram sorts pairs that tie by their two names, as text.
NamesInOrder == <<"External", "Industrial DMZ", "Level 0", "Level 1", "Level 2", "Level 3",
                  "Level 4", "Level 5", "Network infrastructure", "Unassigned",
                  "Unmapped local">>
NamePlace == [l \in AllLevels |-> CHOOSE i \in DOMAIN NamesInOrder : NamesInOrder[i] = l]
NamedBefore(p, q) ==
  \/ NamePlace[p[1]] < NamePlace[q[1]]
  \/ p[1] = q[1] /\ NamePlace[p[2]] < NamePlace[q[2]]

DiagramBeforeByPackets(rels, p, q) ==
  \/ PairPackets(rels, p) > PairPackets(rels, q)
  \/ PairPackets(rels, p) = PairPackets(rels, q) /\ NamedBefore(p, q)
DiagramBefore(rels, p, q) == Leads(rels, p, q) \/ (Ties(rels, p, q) /\ NamedBefore(p, q))

\* The number on the line of a pair.
DiagramNumber(rels, p) ==
  Cardinality({q \in DrawnPairs(rels) \ {p} : DiagramBefore(rels, q, p)}) + 1

\* The totals of _zone_summary.
Assigned == {a \in Physical : level[a] # ""}
Pending == {a \in Physical : level[a] = "" /\ Suggestion(a).level # ""}
NoSuggestion == {a \in Physical : /\ level[a] = "" /\ Suggestion(a).level = ""
                                  /\ ~Infrastructure(a)}
InfrastructureAssets == {a \in Physical : Infrastructure(a)}
----------------------------------------------------------------------------
(* The operations.                                                         *)

\* What is known of an asset only grows: f may follow e.
Grows(e, f) ==
  /\ \A x \in {"mac", "network", "documented", "manual_type"} : f[x] = e[x]
  /\ \A x \in {"observed", "transits", "adjacent", "served", "spoke"} : e[x] => f[x]
  /\ e.sources # "none" => f.sources # "none"
  /\ e.sources = "many" => f.sources = "many"
  /\ e.direct = "local" => f.direct = "local"
  /\ e.direct = "public" => f.direct # "none"
  /\ e.role # "" => f.role # ""
  /\ e.protocols = "industrial" => f.protocols = "industrial"
  /\ e.protocols = "enterprise" => f.protocols # "none"

\* Frames of an asset are recorded.
Learn(a, e) ==
  /\ a \in Alive /\ e # evidence[a]
  /\ Grows(evidence[a], e)
  /\ evidence' = [evidence EXCEPT ![a] = e]
  /\ UNCHANGED <<owner, level, source, seen, decision>>

\* A flow is recorded.
Observe(f) ==
  /\ f \notin seen
  /\ seen' = seen \cup {f}
  /\ UNCHANGED <<owner, evidence, level, source, decision>>

\* update_asset of the level: the form says whether the suggestion was taken.
EditedSourceKept(l, from) == from
EditedSource(l, from) == IF l = "" THEN "" ELSE from
EditLevel(a, l, from) ==
  /\ a \in Alive
  /\ level' = [level EXCEPT ![a] = l]
  /\ source' = [source EXCEPT ![a] = EditedSource(l, from)]
  /\ UNCHANGED <<owner, evidence, seen, decision>>

\* update_asset of the device type.
EditType(a, t) ==
  /\ a \in Alive
  /\ evidence' = [evidence EXCEPT ![a].manual_type = t]
  /\ UNCHANGED <<owner, level, source, seen, decision>>

\* add_documented_asset of an asset that exists: a blank level is not in the row.
DocumentLevel(a, l) ==
  /\ a \in Alive /\ l # ""
  /\ evidence' = [evidence EXCEPT ![a].documented = TRUE]
  /\ level' = [level EXCEPT ![a] = l]
  /\ source' = [source EXCEPT ![a] = "Assessor"]
  /\ UNCHANGED <<owner, seen, decision>>

\* accept_suggested_levels(min_confidence, overwrite).
OverwritableUnsourced(a, overwrite) ==
  level[a] = "" \/ (overwrite /\ source[a] # "Assessor")
Overwritable(a, overwrite) ==
  level[a] = "" \/ (overwrite /\ ShownSource(a) = "Suggested")
AcceptLevels(min_confidence, overwrite) ==
  LET accepted == {a \in Physical : /\ Suggestion(a).level # ""
                                    /\ Suggestion(a).confidence >= min_confidence
                                    /\ Overwritable(a, overwrite)}
  IN /\ level' = [a \in Assets |-> IF a \in accepted THEN Suggestion(a).level ELSE level[a]]
     /\ source' = [a \in Assets |-> IF a \in accepted THEN "Suggested" ELSE source[a]]
     /\ UNCHANGED <<owner, evidence, seen, decision>>

\* merge_assets: addresses and evidence move to the primary, and a level if it has
\* none, without its source; one that the primary has, suggested or not, stays, and
\* the secondary's is gone. Conduits keep the key of the secondary.
MergedLevel(p, s) == [level EXCEPT ![p] = IF @ = "" THEN level[s] ELSE @]
MergedOwner(p, s) == [a \in Assets |-> IF owner[a] = s THEN p ELSE owner[a]]
MergeAssets(p, s) ==
  /\ p \in Alive /\ s \in Alive /\ p # s
  /\ owner' = MergedOwner(p, s)
  /\ level' = MergedLevel(p, s)
  /\ \E e \in Evidences :
       /\ Grows([evidence[p] EXCEPT !.manual_type = e.manual_type], e)
       /\ Grows([evidence[s] EXCEPT !.manual_type = e.manual_type, !.mac = e.mac,
                                    !.network = e.network, !.documented = e.documented], e)
       /\ e.manual_type = IF evidence[p].manual_type # "" THEN evidence[p].manual_type
                          ELSE evidence[s].manual_type
       /\ evidence' = [evidence EXCEPT ![p] = e]
  /\ UNCHANGED <<source, seen, decision>>

\* save_conduit: any two endpoints, in either order, seen together or not.
save_conduit(k, d) ==
  /\ decision' = [decision EXCEPT ![k] = d]
  /\ UNCHANGED <<owner, evidence, level, source, seen>>
=============================================================================
