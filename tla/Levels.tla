------------------------------- MODULE Levels -------------------------------
(***************************************************************************)
(* What OT Scout derives from the evidence about an asset, and from two    *)
(* Purdue levels: the classification and the suggested level of an asset   *)
(* (store.py _assets, _automatic_type, _suggest_level), the boundary that a  *)
(* relationship crosses and the key of a zone pair (crossing_kind,         *)
(* pair_key), and how much a set of collection points can see (coverage).  *)
(* Only operators: nothing here has state.                                 *)
(*                                                                         *)
(* A device type is one of a few representatives; what the code does with  *)
(* its text is to look for keywords, so a type stands for the set of       *)
(* keyword lists it matches ("Domain controller" matches two).             *)
(***************************************************************************)
EXTENDS Naturals, Sequences, FiniteSets

PURDUE_LEVELS == <<"Level 0", "Level 1", "Level 2", "Level 3",
                   "Industrial DMZ", "Level 4", "Level 5">>
Purdue == {PURDUE_LEVELS[i] : i \in DOMAIN PURDUE_LEVELS}

\* The levels an endpoint can be shown at that nobody assigned, by name.
Unplaced == <<"External", "Network infrastructure", "Unassigned", "Unmapped local">>
AllLevels == Purdue \cup {Unplaced[i] : i \in DOMAIN Unplaced}

level_rank(l) == IF l \in Purdue
                 THEN (CHOOSE i \in DOMAIN PURDUE_LEVELS : PURDUE_LEVELS[i] = l) - 1
                 ELSE 99

----------------------------------------------------------------------------
(* The boundary that two levels have between them.                         *)

\* The other one of two levels, as the code asks for it.
Other(l, a, b) == IF a = l THEN b ELSE a

Lower(a, b) == IF level_rank(a) <= level_rank(b) THEN level_rank(a) ELSE level_rank(b)
Upper(a, b) == IF level_rank(a) <= level_rank(b) THEN level_rank(b) ELSE level_rank(a)

crossing_kind(a, b) ==
  IF a = b THEN ""
  ELSE IF "Network infrastructure" \in {a, b}
       THEN IF Other("Network infrastructure", a, b) = "External"
            THEN "infrastructure to external" ELSE ""
  ELSE IF "Unassigned" \in {a, b} THEN "unassigned"
  ELSE IF "External" \in {a, b}
       THEN IF level_rank(Other("External", a, b)) <= 4
            THEN "OT to external" ELSE "enterprise to external"
  ELSE IF "Unmapped local" \in {a, b} THEN "unmapped"
  ELSE IF Lower(a, b) <= 3 /\ Upper(a, b) >= 5 THEN "bypasses DMZ"
  ELSE IF Lower(a, b) <= 3 /\ Upper(a, b) = 4 THEN "OT to DMZ"
  ELSE IF Lower(a, b) = 4 /\ Upper(a, b) >= 5 THEN "DMZ to enterprise"
  ELSE "level to level"

\* Position in the order by rank and then by name that keys are sorted by.
Place(l) == IF l \in Purdue THEN level_rank(l)
            ELSE 99 + (CHOOSE i \in DOMAIN Unplaced : Unplaced[i] = l)

pair_key(a, b) == IF Place(a) <= Place(b) THEN <<a, b>> ELSE <<b, a>>

----------------------------------------------------------------------------
(* The evidence about one asset.                                           *)

Keywords == [t \in {"", "Switch", "PLC", "HMI", "Historian", "Domain controller",
                    "Firewall", "Workstation"} |->
  CASE t = "Switch"            -> {"network"}
    [] t = "PLC"               -> {"control"}
    [] t = "HMI"               -> {"supervisory"}
    [] t = "Historian"         -> {"server"}
    [] t = "Domain controller" -> {"control", "server"}
    [] t = "Firewall"          -> {"boundary"}
    [] t = "Workstation"       -> {"consumer"}
    [] OTHER                   -> {}]

Evidence ==
  [mac         : {"manual", "global", "local", "derived"},
   network     : BOOLEAN,          \* a maker of network equipment
   observed    : BOOLEAN,          \* packets were counted for it
   documented  : BOOLEAN,          \* its source is not passive capture
   sources     : {"none", "few", "many"},        \* frame-source addresses, many > 8
   direct      : {"none", "local", "public"},    \* ARP, DHCP or documented address
   transits    : BOOLEAN,          \* a frame source of it is a public address
   adjacent    : BOOLEAN,          \* next to the MAC of a device with an address
   role        : {"", "network", "level 1", "level 2", "other"},
   served      : BOOLEAN,          \* answers on an industrial port
   spoke       : BOOLEAN,          \* calls an industrial port
   protocols   : {"none", "industrial", "enterprise"},
   manual_type : DOMAIN Keywords]

Gateway(e) == \/ e.sources = "many"
              \/ e.network /\ e.direct = "local" /\ e.transits

Trusted(e) == e.direct # "none" \/ (~Gateway(e) /\ e.sources # "none")

Classification(e) ==
  IF e.mac = "manual" \/ (~e.observed /\ e.documented) THEN "documented"
  ELSE IF Gateway(e) THEN "gateway"
  ELSE IF e.mac = "derived" /\ ~Trusted(e) THEN "derived"
  ELSE IF e.mac = "global" /\ ~Trusted(e) /\ e.network /\ e.adjacent THEN "secondary"
  ELSE IF e.mac \in {"local", "derived"} THEN "local"
  ELSE "physical"

physical_asset(e) == Classification(e) \notin {"derived", "secondary"}

\* What the automatic type says: the keywords its label contains.
AutoWords(e) ==
  IF Classification(e) = "gateway" THEN {"network"}
  ELSE IF Classification(e) = "derived" THEN {"control"}     \* "vi-rtu-al"
  ELSE IF e.role # ""
       THEN CASE e.role = "network" -> {"network"}
              [] e.role = "level 1" -> {"control"}
              [] e.role = "level 2" -> {"supervisory"}
              [] OTHER              -> {}
  ELSE IF e.protocols = "industrial" THEN {}
  ELSE IF e.network THEN {"network"}
  ELSE {"consumer"}

TypeWords(e) == AutoWords(e) \cup Keywords[e.manual_type]

\* The type that is shown is the assessor's, when there is one.
display_words(e) == IF e.manual_type # "" THEN Keywords[e.manual_type] ELSE AutoWords(e)

NoLevel == [level |-> "", confidence |-> 0]
At(l, c) == [level |-> l, confidence |-> c]

\* A device that belongs to no level.
SpansLevelsByAutoType(e) == Classification(e) = "gateway" \/ "network" \in AutoWords(e)
SpansLevels(e) == Classification(e) = "gateway" \/ "network" \in TypeWords(e)

suggest_level(e) ==
  LET says(w) == w \in TypeWords(e)
      chosen == e.manual_type # ""
  IN IF SpansLevels(e) THEN NoLevel
     ELSE IF says("control") /\ chosen THEN At("Level 1", 90)
     ELSE IF e.role = "level 1" THEN At("Level 1", 90)
     ELSE IF e.served /\ ~e.spoke THEN At("Level 1", 85)
     ELSE IF says("supervisory") /\ chosen THEN At("Level 2", 85)
     ELSE IF e.role = "level 2" THEN At("Level 2", 85)
     ELSE IF e.spoke THEN At("Level 2", IF e.served THEN 70 ELSE 75)
     ELSE IF says("server") THEN At("Level 3", 65)
     ELSE IF says("boundary") THEN At("Industrial DMZ", 70)
     ELSE IF e.protocols = "enterprise" /\ says("consumer") THEN At("Level 4", 50)
     ELSE NoLevel

\* An asset without a level that zones and conduits show as infrastructure.
is_infra(e) == Classification(e) = "gateway" \/ "network" \in display_words(e)

----------------------------------------------------------------------------
(* What the sessions of a set of collection points have seen. A point is   *)
(* [pcap, third, packets]: an import was among its sessions, the third-    *)
(* party unicast frames and the packets of all of them.                    *)

PointLevel(p) == IF p.pcap THEN "unknown"
                 ELSE IF p.third >= 10 THEN "likely-mirror"
                 ELSE IF p.packets > 0 THEN "limited" ELSE "none"

coverage(points) ==
  LET levels == {PointLevel(p) : p \in points}
  IN IF points = {} THEN "none"
     ELSE IF Cardinality(points) = 1 THEN CHOOSE l \in levels : TRUE
     ELSE IF "likely-mirror" \in levels
          THEN IF levels = {"likely-mirror"} THEN "likely-mirror" ELSE "mixed"
     ELSE IF "limited" \in levels THEN "limited"
     ELSE IF "unknown" \in levels THEN "unknown" ELSE "none"
=============================================================================
