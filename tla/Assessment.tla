----------------------------- MODULE Assessment -----------------------------
(***************************************************************************)
(* From evidence to findings: the analysis (ot_scout/analysis.py) drafts   *)
(* observations from the zones, levels and conduit decisions, and the      *)
(* register imports them while the assessor goes on working on both.       *)
(***************************************************************************)
EXTENDS Zones, FindingsRegister

CONSTANTS
  Facts,        \* what the drafts look at and no operation here changes
  Described,    \* the assets with a location, zone, function or owner
  Points,       \* the collection points, as in Levels
  Confidences,  \* minimum confidences the assessor accepts levels with
  EditedLevels, \* levels the assessor sets
  EditedTypes,  \* device types the assessor sets
  OldRows,      \* rows of a register that was written before draft keys
  MaxOps        \* bound on the requests and on what the traffic adds

ASSUME AssessmentAssumption ==
  /\ IsFiniteSet(Assets)
  /\ EditedLevels \subseteq Purdue \cup {""}
  /\ \A e \in Evidences, t \in EditedTypes : [e EXCEPT !.manual_type = t] \in Evidences
  /\ MaxOps \in Nat
  /\ \A r \in OldRows :
       /\ r = [ref |-> r.ref, typed |-> r.typed, title |-> r.title, dk |-> "",
               links |-> r.links]
       /\ r.ref.number \in Nat /\ r.typed \in BOOLEAN

VARIABLES
  entered,      \* history: the level of a row as the assessor entered it, there or on
                \* a row it was merged from; "" if it is none or a suggestion
  ops

vars == <<zoneVars, registerVars, entered, ops>>

----------------------------------------------------------------------------
(* The drafts.                                                             *)

external(rels) == {r \in rels : Cardinality(r.ends \cap Assets) = 1}
crossing_rels(rels) == {r \in rels : r.crossing # ""}
unreviewed_crossings(rels) == {r \in crossing_rels(rels) : r.decision = "Unknown"}
unexpected_rels(rels) == {r \in rels : r.decision = "Unexpected"}
bypass_rels(rels) == {r \in rels : r.crossing = "bypasses DMZ"}
ToExternal == {"OT to external", "enterprise to external", "infrastructure to external"}
external_unexpected(rels) == {r \in unexpected_rels(rels) : r.crossing \in ToExternal}
other_unexpected_crossing(rels) ==
  (unexpected_rels(rels) \cap crossing_rels(rels))
    \ (external_unexpected(rels) \cup bypass_rels(rels))
other_unexpected(rels) ==
  unexpected_rels(rels) \ (external_unexpected(rels) \cup bypass_rels(rels))

\* A draft cites its relationships, their zone pairs and their assets.
Links(rels) ==
  UNION {{<<"relationship", r.ends>>, <<"pair", r.pair>>}
         \cup {<<"asset", k>> : k \in r.ends \cap Assets} : r \in rels}

undocumented == {a \in Physical : a \notin Described /\ level[a] = ""}

\* The drafts in their order, by the keys they are imported under.
DraftKeys == <<"visibility", "legs", "context", "external", "subnets",
               "unexpected-external", "dmz-bypass", "unexpected-other", "unreviewed",
               "unassigned", "eol", "backup", "cleartext", "opcua", "industrial", "retained">>

Drafted(rels, dk) ==
  CASE dk = "visibility"          -> \/ coverage(Points) \in {"limited", "none"}
                                     \/ /\ coverage(Points) # "mixed"
                                        /\ "unconfirmed access port" \in Facts
    [] dk = "context"             -> undocumented # {}
    [] dk = "external"            -> external(rels) # {}
    [] dk = "unexpected-external" -> external_unexpected(rels) # {}
    [] dk = "dmz-bypass"          -> bypass_rels(rels) # {}
    [] dk = "unexpected-other"    -> other_unexpected(rels) # {}
    [] dk = "unreviewed"          -> unreviewed_crossings(rels) # {} /\ Assigned # {}
    [] dk = "unassigned"          -> /\ Physical # {}
                                     /\ Cardinality(Assigned)
                                        < Cardinality(Physical) - Cardinality(InfrastructureAssets)
    [] dk = "retained"            -> TRUE
    [] OTHER                      -> dk \in Facts

DraftLinks(rels, dk) ==
  CASE dk = "unexpected-external" -> Links(external_unexpected(rels))
    [] dk = "dmz-bypass"          -> Links(bypass_rels(rels))
    [] dk = "unexpected-other"    -> Links(other_unexpected(rels))
    [] OTHER                      -> {}

Draft(rels, dk) == [dk |-> dk, title |-> dk, links |-> DraftLinks(rels, dk),
              prefix |-> IF dk = "retained" THEN "POS" ELSE "OBS"]

\* The drafts that are due, each at its place in the order.
Drafts == LET rels == relationships
          IN [n \in {m \in DOMAIN DraftKeys : Drafted(rels, DraftKeys[m])} |->
                Draft(rels, DraftKeys[n])]

----------------------------------------------------------------------------
Init == /\ ZoneInit
        /\ RegisterInit(OldRows)
        /\ entered = [a \in Assets |-> ""]
        /\ ops = 0

\* What the assessor can link: a relationship on the screen (assets and pairs are
\* linked the same way).
Linkable == {<<"relationship", r.ends>> : r \in relationships}

\* The assessor enters a level, or takes the suggestion for one asset.
LevelNext ==
  \E a \in Assets, l \in EditedLevels :
    \/ /\ EditLevel(a, l, "Assessor") \/ DocumentLevel(a, l)
       /\ entered' = [entered EXCEPT ![a] = l]
    \/ EditLevel(a, l, "Suggested") /\ entered' = [entered EXCEPT ![a] = ""]

\* The assessor merges two assets: a level that moves is still the assessor's.
MergedEntered(p, s) == [entered EXCEPT ![p] = IF level[p] = "" THEN entered[s] ELSE @,
                                       ![s] = ""]
MergeNext ==
  \E p, s \in Assets : MergeAssets(p, s) /\ entered' = MergedEntered(p, s)

\* Traffic and the rest of the assessor's work on zones.
ZoneNext ==
  \/ \E a \in Assets, e \in Evidences : Learn(a, e)
  \/ \E f \in Flows : Observe(f)
  \/ \E a \in Assets, t \in EditedTypes : EditType(a, t)
  \/ \E c \in Confidences, overwrite \in BOOLEAN : AcceptLevels(c, overwrite)
  \/ \E k \in {r.ends : r \in relationships}, d \in Decisions : save_conduit(k, d)

\* The assessor on the register.
RegisterNext ==
  \/ \E t \in OwnTitles, p \in OwnPrefixes : NewFinding(t, p, {})
  \/ \E i \in Ids, t \in OwnTitles :
       \E ref \in OwnRefs \cup {rows[i].ref} : EditFinding(i, ref, t, rows[i].links)
  \/ \E i \in Ids : delete_finding(i)
  \/ \E i \in Ids, l \in Linkable : link_finding(i, l)
  \/ \E i \in Ids : \E l \in rows[i].links : unlink_finding(i, l)

Next ==
  \/ /\ ops < MaxOps /\ ops' = ops + 1
     /\ \/ (LevelNext \/ MergeNext) /\ UNCHANGED registerVars
        \/ ZoneNext /\ UNCHANGED <<registerVars, entered>>
        \/ /\ RegisterNext \/ \E j \in Importers : Collect(j, Drafts)
           /\ UNCHANGED <<zoneVars, entered>>
  \/ /\ UNCHANGED <<zoneVars, entered, ops>>
     /\ \E j \in Importers : ImportNext(j)

Spec == Init /\ [][Next]_vars

----------------------------------------------------------------------------
(* Properties.                                                             *)

\* Every variable keeps its type; the lock is held by the importer that is adding.
TypeOK == ZoneTypeOK /\ RegisterTypeOK /\ ops \in 0..MaxOps

\* However imports overlap, fail half-way and are repeated, and whatever the
\* assessor retitles or deletes in between, a draft is in the register at most
\* once (import_draft_findings: matched by draft_key).
NoDraftTwice ==
  \A i, k \in {n \in Ids : rows[n].dk # ""} : rows[i].dk = rows[k].dk => i = k

\* References the program gives out are distinct, after any deletion and whatever
\* the assessor types elsewhere (_next_ref).
GeneratedRefsDistinct ==
  \A i, k \in {n \in Ids : ~rows[n].typed} : rows[i].ref = rows[k].ref => i = k

\* A relationship the assessor marks Unexpected is cited by exactly one of the three
\* drafts that follow from decisions, whatever boundary its levels make it cross.
UnexpectedIsDrafted ==
  LET drafts == Drafts
      citing(r) == {n \in DOMAIN drafts : <<"relationship", r.ends>> \in drafts[n].links}
  IN \A r \in unexpected_rels(relationships) : Cardinality(citing(r)) = 1

\* The numbers of the zone summary add up: every physical asset is assigned, has a
\* suggestion pending, has none, or is infrastructure, and is counted once. It rests
\* on infrastructure, recognised by its shown type, never having a suggestion, which
\* looks at both types.
LevelAccounting ==
  Cardinality(Physical) = Cardinality(Assigned) + Cardinality(Pending)
                          + Cardinality(NoSuggestion) + Cardinality(InfrastructureAssets)

\* An import that is answered with success leaves every draft it collected in the
\* register, although it matched and added them in many steps.
ImportComplete ==
  [][\A j \in Importers : job'[j].pc = "added" /\ job[j].pc # "added" =>
       \A n \in DOMAIN job[j].drafts : \E i \in Ids' : rows'[i].dk = job[j].drafts[n].dk]_vars

\* A level the assessor entered stays until the assessor edits it: on the row it was
\* entered for, or on the one this row is merged into, where it is shown as the
\* assessor's although merging copies no source, so that accepting suggestions, with
\* overwriting or not, passes over it. Only a merge into an asset that has a level of
\* its own, be it a suggestion, loses it (merge_assets, accept_suggested_levels).
AssessorLevelsKept ==
  [][\A a \in Alive : \A b \in Assets :
       entered[a] # "" /\ b = owner'[a] =>
         \/ level'[b] = entered[a] /\ ShownSource(b)' = "Assessor"
         \/ b = a /\ entered'[a] # entered[a]
         \/ b # a /\ level[b] # ""]_vars

\* When every crossing has a line, the number on the line and the row of the table
\* are both among the rows that the crossings with as many packets take up: they are
\* the same unless crossings tie, which the table sorts by insertion and the diagram by
\* name. The comment above the numbering in purdue_svg knows neither condition.
DiagramMatchesTable ==
  LET rels == relationships
      crossings == {p \in ZonePairs(rels) : PairCrosses(p)}
      leading(p) == {q \in crossings \ {p} : PairPackets(rels, q) > PairPackets(rels, p)}
      tied(p) == {q \in crossings : PairPackets(rels, q) = PairPackets(rels, p)}
  IN crossings \subseteq DrawnPairs(rels)
       => \A p \in crossings :
            {TableRow(rels, p), DiagramNumber(rels, p)}
              \subseteq (Cardinality(leading(p)) + 1)
                          ..(Cardinality(leading(p)) + Cardinality(tied(p)))
=============================================================================
