--------------------------- MODULE AssetStoreProofs ---------------------------
(***************************************************************************)
(* The inventory, for any number of MACs, documented assets, sessions and  *)
(* frames: an identity names one asset, a MAC that was imported finds its  *)
(* asset again, IP evidence is backed by frames, the tables implement      *)
(* IdentityMap, the packets of the assets agree with their sightings, and  *)
(* nothing but a deletion loses any.                                       *)
(***************************************************************************)
EXTENDS AssetStore, FiniteSetTheorems, TLAPS

(* A table of MACs in which nothing is found twice.                        *)
Sound(table) ==
  /\ DOMAIN table \subseteq Ids
  /\ table \in [DOMAIN table -> Identities]
  /\ \A a, b \in DOMAIN table : table[a] = table[b] => a = b
  /\ \A a \in DOMAIN table : table[a] \notin DOMAIN alias

IInv == TypeOK /\ OneIdentity /\ ReimportFindsMac /\ EvidenceBacked

-----------------------------------------------------------------------------
(* Finding or inserting an identity keeps a table sound and what it had.   *)
LEMMA KnownSound ==
  ASSUME NEW table, Sound(table),
         NEW m \in Identities \cup {Multicast},
         NEW after \in Known(table, m)
  PROVE  /\ Sound(after)
         /\ DOMAIN table \subseteq DOMAIN after
         /\ \A a \in DOMAIN table : after[a] = table[a]
<1>1. CASE m = Multicast \/ Found(table, m) # {}
  BY <1>1 DEF Known
<1>2. CASE ~(m = Multicast \/ Found(table, m) # {})
  <2>1. PICK id \in NewId(DOMAIN table) : after = With(table, id, m)
    BY <1>2 DEF Known
  <2>2. id \in Ids /\ id \notin DOMAIN table
    BY <2>1 DEF NewId, Ids
  <2>3. /\ m \in Identities
        /\ m \notin DOMAIN alias
        /\ \A a \in DOMAIN table : table[a] # m
    BY <1>2 DEF Found
  <2>4. /\ DOMAIN after = DOMAIN table \cup {id}
        /\ after[id] = m
        /\ \A a \in DOMAIN table : after[a] = table[a]
    BY <2>1, <2>2 DEF With
  <2>5. after \in [DOMAIN after -> Identities]
    BY <2>1, <2>3, <2>4 DEF With, Sound
  <2> QED
    BY <2>2, <2>3, <2>4, <2>5 DEF Sound
<1> QED
  BY <1>1, <1>2

(* An identity is found at most once in a sound table.                     *)
LEMMA FoundOnce ==
  ASSUME NEW table, Sound(table), NEW m, NEW a \in Found(table, m)
  PROVE  Found(table, m) = {a}
BY DEF Found, Sound

-----------------------------------------------------------------------------
LEMMA InventoryInit == Init => IInv
<1> SUFFICES ASSUME Init PROVE IInv
  OBVIOUS
<1>1. TypeOK
  BY InventoryAssumption DEF Init, TypeOK, Rows
<1>2. OneIdentity /\ ReimportFindsMac
  BY DEF Init, OneIdentity, ReimportFindsMac, Rows
<1>3. EvidenceBacked
  BY DEF Init, EvidenceBacked
<1> QED
  BY <1>1, <1>2, <1>3 DEF IInv

(* The table of MACs there is, is sound.                                   *)
LEMMA MacSound == TypeOK /\ OneIdentity => Sound(mac)
BY DEF TypeOK, OneIdentity, Sound, Rows

LEMMA RecordKeeps ==
  ASSUME IInv, NEW s \in Sessions, NEW src \in Macs,
         NEW dst \in Macs \cup {Multicast}, NEW ip \in BOOLEAN,
         Record(s, src, dst, ip)
  PROVE  IInv'
<1> USE DEF IInv
<1>1. PICK withSrc \in Known(mac, src) :
        \E table \in Known(withSrc, dst) : mac' = table
  BY DEF Record
<1>2. /\ Sound(withSrc)
      /\ DOMAIN mac \subseteq DOMAIN withSrc
      /\ \A a \in DOMAIN mac : withSrc[a] = mac[a]
  BY <1>1, MacSound, KnownSound DEF Identities
<1>3. mac' \in Known(withSrc, dst)
  BY <1>1
<1>4. /\ Sound(mac')
      /\ DOMAIN withSrc \subseteq DOMAIN mac'
      /\ \A a \in DOMAIN withSrc : mac'[a] = withSrc[a]
  BY <1>2, <1>3, KnownSound DEF Identities
<1>5. /\ Rows \subseteq Rows'
      /\ \A a \in Rows : mac'[a] = mac[a]
  BY <1>2, <1>4 DEF Rows
<1>6. UNCHANGED <<alias, cites, gone, listed>>
  BY DEF Record
<1>7. TypeOK'
  <2>1. Rows' \subseteq Ids /\ mac' \in [Rows' -> Identities]
    BY <1>4 DEF Sound, Rows
  <2>2. DOMAIN alias' \subseteq Macs /\ alias' \in [DOMAIN alias' -> Rows']
    BY <1>5, <1>6 DEF TypeOK
  <2>3. /\ DOMAIN listed' \subseteq Identities
        /\ listed' \in [DOMAIN listed' -> Rows']
    BY <1>5, <1>6 DEF TypeOK
  <2>4. packets' \in [Ids -> Nat] /\ ips' \in [Ids -> Nat]
    BY DEF Record, TypeOK
  <2>5. sightings' \in [Ids -> [Sessions -> Nat]]
    BY DEF Record, TypeOK
  <2>6. frames' \in [Sessions -> Nat]
    BY DEF Record, TypeOK
  <2>7. cites' \subseteq Ids /\ gone' \subseteq cites'
    BY <1>6 DEF TypeOK
  <2> QED
    BY <2>1, <2>2, <2>3, <2>4, <2>5, <2>6, <2>7 DEF TypeOK
<1>8. OneIdentity'
  BY <1>4, <1>6 DEF Sound, OneIdentity, Rows
<1>9. ReimportFindsMac'
  <2> SUFFICES ASSUME NEW m \in DOMAIN listed \cap Macs
               PROVE  Found(mac', m) = {listed[m]}
    BY <1>6 DEF ReimportFindsMac, Found
  <2>1. Found(mac, m) = {listed[m]}
    BY DEF ReimportFindsMac
  <2>2. /\ DOMAIN mac \subseteq DOMAIN mac'
        /\ \A a \in DOMAIN mac : mac'[a] = mac[a]
    BY <1>5 DEF Rows
  <2>3. Sound(mac')
    BY <1>4
  <2> QED
    BY <2>1, <2>2, <2>3 DEF Found, Sound
<1>10. EvidenceBacked'
  BY DEF Record, EvidenceBacked, TypeOK
<1> QED
  BY <1>7, <1>8, <1>9, <1>10

LEMMA AddDocumentedKeeps ==
  ASSUME IInv, NEW m \in Identities, AddDocumented(m)
  PROVE  IInv'
<1> USE DEF IInv
<1>1. PICK table \in Known(mac, m) : \E a \in Found(table, m) :
        mac' = table /\ listed' = With(listed, m, a)
  BY DEF AddDocumented
<1>2. PICK a \in Found(table, m) :
        mac' = table /\ listed' = With(listed, m, a)
  BY <1>1
<1>3. /\ Sound(mac')
      /\ Rows \subseteq Rows'
      /\ \A b \in Rows : mac'[b] = mac[b]
  BY <1>2, MacSound, KnownSound DEF Rows
<1>4. UNCHANGED <<alias, evidence, cites, gone>>
  BY DEF AddDocumented
<1>5. a \in Rows'
  BY <1>2, <1>3 DEF Found, Rows, TypeOK
<1>6. /\ DOMAIN listed' = DOMAIN listed \cup {m}
      /\ listed'[m] = a
      /\ \A k \in DOMAIN listed : k # m => listed'[k] = listed[k]
  BY <1>2 DEF With
<1>7. TypeOK'
  <2>1. Rows' \subseteq Ids /\ mac' \in [Rows' -> Identities]
    BY <1>3 DEF Sound, Rows
  <2>2. DOMAIN alias' \subseteq Macs /\ alias' \in [DOMAIN alias' -> Rows']
    BY <1>3, <1>4 DEF TypeOK
  <2>3. /\ DOMAIN listed' \subseteq Identities
        /\ listed' \in [DOMAIN listed' -> Rows']
    BY <1>2, <1>3, <1>5 DEF TypeOK, With
  <2> QED
    BY <1>4, <2>1, <2>2, <2>3 DEF TypeOK, evidence
<1>8. OneIdentity'
  BY <1>3, <1>4 DEF Sound, OneIdentity, Rows
<1>9. ReimportFindsMac'
  <2> SUFFICES ASSUME NEW k \in DOMAIN listed' \cap Macs
               PROVE  Found(mac', k) = {listed'[k]}
    BY <1>4 DEF ReimportFindsMac, Found
  <2>1. CASE k = m
    BY <1>2, <1>3, <1>6, <2>1, FoundOnce
  <2>2. CASE k # m
    <3>1. Found(mac, k) = {listed'[k]}
      BY <1>6, <2>2 DEF ReimportFindsMac
    <3> QED
      BY <1>3, <3>1 DEF Found, Sound, Rows
  <2> QED
    BY <2>1, <2>2
<1>10. EvidenceBacked'
  BY <1>4 DEF EvidenceBacked, evidence
<1> QED
  BY <1>7, <1>8, <1>9, <1>10

-----------------------------------------------------------------------------
LEMMA MergeKeeps ==
  ASSUME IInv, NEW p \in Rows, NEW s \in Rows, Merge(p, s)
  PROVE  IInv'
<1> USE DEF IInv
<1>1. /\ Rows' = Rows \ {s}
      /\ \A a \in Rows' : mac'[a] = mac[a]
      /\ mac' \in [Rows' -> Identities]
  BY DEF Merge, Without, Restrict, Rows, TypeOK
<1>2. /\ p \in Rows' /\ p \in Ids /\ s \in Ids
      /\ mac[s] \in Identities /\ mac[s] \notin DOMAIN alias
  BY <1>1 DEF Merge, TypeOK, OneIdentity
<1>3. /\ DOMAIN alias' = IF mac[s] \in Manual
                         THEN DOMAIN alias ELSE DOMAIN alias \cup {mac[s]}
      /\ \A m \in DOMAIN alias :
           alias'[m] = IF alias[m] = s THEN p ELSE alias[m]
      /\ mac[s] \notin Manual => alias'[mac[s]] = p
      /\ alias' \in [DOMAIN alias' -> Rows']
  BY <1>1, <1>2 DEF Merge, MergedAliases, Repoint, With, TypeOK
<1>4. /\ DOMAIN listed' = DOMAIN listed
      /\ \A m \in DOMAIN listed :
           listed'[m] = IF listed[m] = s THEN p ELSE listed[m]
      /\ listed' \in [DOMAIN listed' -> Rows']
  BY <1>1, <1>2 DEF Merge, Repoint, TypeOK
<1>5. TypeOK'
  <2>1. Rows' \subseteq Ids
    BY <1>1 DEF TypeOK
  <2>2. DOMAIN alias' \subseteq Macs
    BY <1>2, <1>3 DEF TypeOK, Identities
  <2>3. packets' \in [Ids -> Nat]
    BY <1>2 DEF Merge, MergedPackets, TypeOK
  <2>4. ips' \in [Ids -> Nat]
    BY <1>2 DEF Merge, MergedEvidence, TypeOK
  <2>5. sightings' \in [Ids -> [Sessions -> Nat]]
    <3>1. /\ MergedSightings(sightings[p], sightings[s])
               \in [Sessions -> Nat]
          /\ NoSightings \in [Sessions -> Nat]
      BY <1>2 DEF MergedSightings, NoSightings, TypeOK
    <3> QED
      BY <1>2, <3>1 DEF Merge, TypeOK
  <2>6. /\ frames' \in [Sessions -> Nat]
        /\ cites' \subseteq Ids /\ gone' \subseteq cites'
    BY DEF Merge, TypeOK
  <2> QED
    BY <1>1, <1>3, <1>4, <2>1, <2>2, <2>3, <2>4, <2>5, <2>6 DEF TypeOK
<1>6. OneIdentity'
  BY <1>1, <1>2, <1>3 DEF OneIdentity
<1>7. ReimportFindsMac'
  <2> SUFFICES ASSUME NEW m \in DOMAIN listed \cap Macs
               PROVE  Found(mac, m)' = {listed'[m]}
    BY <1>4 DEF ReimportFindsMac
  <2>1. Found(mac, m) = {listed[m]}
    BY DEF ReimportFindsMac
  <2>2. CASE m \in DOMAIN alias
    BY <1>2, <1>3, <1>4, <2>1, <2>2 DEF Found
  <2>3. CASE m \notin DOMAIN alias /\ listed[m] = s
    <3>1. m = mac[s] /\ m \notin Manual
      BY <2>1, <2>3, InventoryAssumption DEF Found
    <3> QED
      BY <1>3, <1>4, <2>3, <3>1 DEF Found
  <2>4. CASE m \notin DOMAIN alias /\ listed[m] # s
    <3>1. m # mac[s]
      BY <2>1, <2>4 DEF Found, Rows
    <3>2. m \notin DOMAIN alias' /\ listed'[m] = listed[m]
      BY <1>3, <1>4, <2>4, <3>1
    <3>3. Found(mac, m)' = {a \in Rows' : mac'[a] = m}
      BY <3>2 DEF Found, Rows
    <3> QED
      BY <1>1, <2>1, <2>4, <3>2, <3>3 DEF Found, Rows
  <2> QED
    BY <2>2, <2>3, <2>4
<1>8. EvidenceBacked'
  <2> SUFFICES ASSUME NEW a \in Ids PROVE ips'[a] <= packets'[a]
    BY DEF EvidenceBacked
  <2>1. CASE a = p
    BY <1>2, <2>1
       DEF Merge, MergedEvidence, MergedPackets, EvidenceBacked, TypeOK
  <2>2. CASE a = s
    BY <1>2, <2>2 DEF Merge, TypeOK
  <2>3. CASE a # p /\ a # s
    BY <1>2, <2>3 DEF Merge, EvidenceBacked, TypeOK
  <2> QED
    BY <2>1, <2>2, <2>3
<1> QED
  BY <1>5, <1>6, <1>7, <1>8

LEMMA DeleteKeeps ==
  ASSUME IInv, NEW d \in Rows, Delete(d)
  PROVE  IInv'
<1> USE DEF IInv
<1>1. /\ Rows' = Rows \ {d}
      /\ \A a \in Rows' : mac'[a] = mac[a]
      /\ mac' \in [Rows' -> Identities]
  BY DEF Delete, Without, Restrict, Rows, TypeOK
<1>2. /\ DOMAIN alias' = {m \in DOMAIN alias : alias[m] # d}
      /\ \A m \in DOMAIN alias' : alias'[m] = alias[m]
      /\ alias' \in [DOMAIN alias' -> Rows']
  BY <1>1 DEF Delete, Restrict, TypeOK
<1>3. /\ DOMAIN listed' = {m \in DOMAIN listed : listed[m] # d}
      /\ \A m \in DOMAIN listed' : listed'[m] = listed[m]
      /\ listed' \in [DOMAIN listed' -> Rows']
  BY <1>1 DEF Delete, Restrict, TypeOK
<1>4. d \in Ids
  BY DEF TypeOK
<1>5. TypeOK'
  <2>1. /\ Rows' \subseteq Ids
        /\ DOMAIN alias' \subseteq Macs
        /\ DOMAIN listed' \subseteq Identities
    BY <1>1, <1>2, <1>3 DEF TypeOK
  <2>2. packets' \in [Ids -> Nat] /\ ips' \in [Ids -> Nat]
    BY <1>4 DEF Delete, CascadedIps, TypeOK
  <2>3. sightings' \in [Ids -> [Sessions -> Nat]]
    <3>1. NoSightings \in [Sessions -> Nat]
      BY DEF NoSightings
    <3> QED
      BY <1>4, <3>1 DEF Delete, TypeOK
  <2>4. /\ frames' \in [Sessions -> Nat]
        /\ cites' \subseteq Ids /\ gone' \subseteq cites'
    BY DEF Delete, TypeOK
  <2> QED
    BY <1>1, <1>2, <1>3, <2>1, <2>2, <2>3, <2>4 DEF TypeOK
<1>6. OneIdentity'
  BY <1>1, <1>2 DEF OneIdentity
<1>7. ReimportFindsMac'
  <2> SUFFICES ASSUME NEW m \in DOMAIN listed' \cap Macs
               PROVE  Found(mac, m)' = {listed'[m]}
    BY DEF ReimportFindsMac
  <2>1. Found(mac, m) = {listed[m]} /\ listed'[m] = listed[m]
        /\ listed[m] # d
    BY <1>3 DEF ReimportFindsMac
  <2>2. CASE m \in DOMAIN alias
    BY <1>2, <2>1, <2>2 DEF Found
  <2>3. CASE m \notin DOMAIN alias
    BY <1>1, <1>2, <2>1, <2>3 DEF Found, Rows
  <2> QED
    BY <2>2, <2>3
<1>8. EvidenceBacked'
  BY <1>4 DEF Delete, CascadedIps, EvidenceBacked, TypeOK
<1> QED
  BY <1>5, <1>6, <1>7, <1>8

(* Linking leaves the inventory alone.                                     *)
LEMMA LinkKeeps ==
  ASSUME IInv, NEW a, \/ a \in Rows /\ Link(a)
                      \/ a \in cites /\ Unlink(a)
  PROVE  IInv'
<1> USE DEF IInv
<1>1. UNCHANGED <<mac, alias, evidence, listed>>
  BY DEF Link, Unlink
<1>2. cites' \subseteq Ids /\ gone' \subseteq cites'
  BY DEF Link, Unlink, TypeOK
<1>3. TypeOK'
  BY <1>1, <1>2 DEF TypeOK, evidence, Rows
<1> QED
  BY <1>1, <1>3 DEF OneIdentity, ReimportFindsMac, EvidenceBacked,
     evidence, Rows, Found

-----------------------------------------------------------------------------
LEMMA InventoryNext == IInv /\ [Next]_vars => IInv'
<1> SUFFICES ASSUME IInv, [Next]_vars PROVE IInv'
  OBVIOUS
<1>1. CASE \E s \in Sessions, src \in Macs, dst \in Macs \cup {Multicast},
              ip \in BOOLEAN : Record(s, src, dst, ip)
  BY <1>1, RecordKeeps
<1>2. CASE \E m \in Identities : AddDocumented(m)
  BY <1>2, AddDocumentedKeeps
<1>3. CASE \E p, s \in Rows : Merge(p, s)
  BY <1>3, MergeKeeps
<1>4. CASE \E a \in Rows : Delete(a)
  BY <1>4, DeleteKeeps
<1>5. CASE (\E a \in Rows : Link(a)) \/ (\E a \in cites : Unlink(a))
  BY <1>5, LinkKeeps
<1>6. CASE UNCHANGED vars
  BY <1>6 DEF vars, IInv, TypeOK, OneIdentity, ReimportFindsMac,
     EvidenceBacked, Rows, Found
<1> QED
  BY <1>1, <1>2, <1>3, <1>4, <1>5, <1>6 DEF Next

THEOREM InventoryInvariance == Spec => []IInv
BY InventoryInit, InventoryNext, PTL DEF Spec

(***************************************************************************)
(* The tables are well formed: ids within the rows, aliases, sightings,    *)
(* evidence and what was imported refer to rows that are there (_asset,    *)
(* merge_assets, delete_asset and the cascades).                           *)
(***************************************************************************)
THEOREM InventoryTypes == Spec => []TypeOK
BY InventoryInvariance, PTL DEF IInv

(***************************************************************************)
(* An identity names one asset, and no MAC is both a row's own and an      *)
(* alias, whatever is recorded, imported, merged and deleted.              *)
(***************************************************************************)
THEOREM OneAssetPerIdentity == Spec => []OneIdentity
BY InventoryInvariance, PTL DEF IInv

(***************************************************************************)
(* A MAC that was imported finds, for as long as its asset exists, that    *)
(* asset or the one it was merged into.                                    *)
(***************************************************************************)
THEOREM ReimportFinds == Spec => []ReimportFindsMac
BY InventoryInvariance, PTL DEF IInv

(***************************************************************************)
(* IP evidence from frames never outnumbers the asset's frames, though     *)
(* merge_assets drops the count of evidence both assets have.              *)
(***************************************************************************)
THEOREM EvidenceIsBacked == Spec => []EvidenceBacked
BY InventoryInvariance, PTL DEF IInv

-----------------------------------------------------------------------------
(***************************************************************************)
(* The tables implement IdentityMap.  AllGroups is what Groups substitutes *)
(* for its variable.                                                       *)
(***************************************************************************)
AllGroups == {IdentitiesOf(a) : a \in Rows}

(* No two rows have the same identities.                                   *)
LEMMA GroupsDistinct ==
  ASSUME IInv, NEW a \in Rows, NEW b \in Rows,
         IdentitiesOf(a) = IdentitiesOf(b)
  PROVE  a = b
<1>1. mac[a] \in IdentitiesOf(b)
  BY DEF IdentitiesOf
<1> QED
  BY <1>1 DEF IInv, OneIdentity, IdentitiesOf

(* An identity that is found nowhere is in no group.                       *)
LEMMA NotFoundUnknown ==
  ASSUME IInv, NEW m, Found(mac, m) = {}
  PROVE  Groups!Unknown(m) /\ m \notin DOMAIN alias
BY DEF IInv, TypeOK, Found, Groups!Unknown, IdentitiesOf, Rows

(* What identity each row of a table has, while the aliases stay.          *)
Identified(table) ==
  {{table[a]} \cup {k \in DOMAIN alias : alias[k] = a} : a \in DOMAIN table}

(* Finding or inserting an identity adds at most its own group.            *)
LEMMA KnownLearns ==
  ASSUME NEW table, Sound(table),
         \A k \in DOMAIN alias : alias[k] \in DOMAIN table,
         NEW m \in Identities \cup {Multicast}, NEW after \in Known(table, m)
  PROVE  \/ after = table
         \/ /\ m \in Identities /\ Found(table, m) = {}
            /\ Identified(after) = Identified(table) \cup {{m}}
<1>1. CASE m = Multicast \/ Found(table, m) # {}
  BY <1>1 DEF Known
<1>2. CASE ~(m = Multicast \/ Found(table, m) # {})
  <2>1. PICK id \in NewId(DOMAIN table) : after = With(table, id, m)
    BY <1>2 DEF Known
  <2>2. id \notin DOMAIN table
    BY <2>1 DEF NewId, Ids
  <2>3. /\ DOMAIN after = DOMAIN table \cup {id}
        /\ after[id] = m
        /\ \A a \in DOMAIN table : after[a] = table[a]
    BY <2>1, <2>2 DEF With
  <2>4. {k \in DOMAIN alias : alias[k] = id} = {}
    BY <2>2
  <2>5. Identified(after) = Identified(table) \cup {{m}}
    BY <2>2, <2>3, <2>4 DEF Identified
  <2> QED
    BY <1>2, <2>5
<1> QED
  BY <1>1, <1>2

LEMMA GroupsIdentified == AllGroups = Identified(mac)
BY DEF AllGroups, Identified, IdentitiesOf, Rows

(* With the aliases unchanged, the groups are those of the new table.      *)
LEMMA GroupsKept ==
  ASSUME UNCHANGED alias
  PROVE  AllGroups' = Identified(mac')
BY DEF AllGroups, Identified, IdentitiesOf, Rows

LEMMA RecordMaps ==
  ASSUME IInv, NEW s \in Sessions, NEW src \in Macs,
         NEW dst \in Macs \cup {Multicast}, NEW ip \in BOOLEAN,
         Record(s, src, dst, ip)
  PROVE  [Groups!Next]_AllGroups
<1>1. PICK withSrc \in Known(mac, src) :
        \E table \in Known(withSrc, dst) : mac' = table
  BY DEF Record
<1>2. mac' \in Known(withSrc, dst)
  BY <1>1
<1>3. Sound(mac) /\ \A k \in DOMAIN alias : alias[k] \in DOMAIN mac
  BY MacSound DEF IInv, TypeOK, Rows
<1>4. /\ Sound(withSrc)
      /\ DOMAIN mac \subseteq DOMAIN withSrc
      /\ \A a \in DOMAIN mac : withSrc[a] = mac[a]
  BY <1>1, <1>3, KnownSound DEF Identities
<1>5. \A k \in DOMAIN alias : alias[k] \in DOMAIN withSrc
  BY <1>3, <1>4
<1>6. \/ withSrc = mac
      \/ /\ Found(mac, src) = {}
         /\ Identified(withSrc) = Identified(mac) \cup {{src}}
  BY <1>1, <1>3, KnownLearns DEF Identities
<1>7. \/ mac' = withSrc
      \/ /\ dst \in Identities /\ Found(withSrc, dst) = {}
         /\ Identified(mac') = Identified(withSrc) \cup {{dst}}
  BY <1>2, <1>4, <1>5, KnownLearns DEF Identities
<1>8. AllGroups = Identified(mac) /\ AllGroups' = Identified(mac')
  BY GroupsIdentified, GroupsKept DEF Record
<1>9. CASE withSrc = mac /\ mac' = withSrc
  BY <1>8, <1>9
<1>10. CASE withSrc # mac /\ mac' = withSrc
  <2>1. AllGroups' = AllGroups \cup {{src}} /\ Groups!Unknown(src)
    BY <1>6, <1>8, <1>10, NotFoundUnknown
  <2> QED
    BY <2>1 DEF Groups!Next, Groups!Learn, Groups!Identities, AllGroups
<1>11. CASE withSrc = mac /\ mac' # withSrc
  <2>1. /\ AllGroups' = AllGroups \cup {{dst}} /\ Groups!Unknown(dst)
        /\ dst \in Identities
    BY <1>7, <1>8, <1>11, NotFoundUnknown
  <2> QED
    BY <2>1 DEF Groups!Next, Groups!Learn, Groups!Identities, AllGroups,
                Identities
<1>12. CASE withSrc # mac /\ mac' # withSrc
  <2>1. AllGroups' = AllGroups \cup {{src}, {dst}}
    BY <1>6, <1>7, <1>8, <1>12
  <2>2. Found(mac, src) = {} /\ Found(mac, dst) = {}
    BY <1>4, <1>6, <1>7, <1>12 DEF Found
  <2>3. src # dst
    <3>1. Found(withSrc, src) # {}
      <4>1. PICK id \in NewId(DOMAIN mac) : withSrc = With(mac, id, src)
        BY <1>1, <1>12 DEF Known
      <4>2. id \in DOMAIN withSrc /\ withSrc[id] = src
        BY <4>1 DEF With
      <4> QED
        BY <4>2 DEF Found
    <3> QED
      BY <3>1, <1>7, <1>12
  <2>4. dst \in Macs
    BY <1>7, <1>12, InventoryAssumption DEF Identities
  <2>5. Groups!Unknown(src) /\ Groups!Unknown(dst)
    BY <2>2, NotFoundUnknown
  <2> QED
    BY <2>1, <2>3, <2>4, <2>5 DEF Groups!Next, Groups!LearnTwo, AllGroups
<1> QED
  BY <1>9, <1>10, <1>11, <1>12

LEMMA AddDocumentedMaps ==
  ASSUME IInv, NEW m \in Identities, AddDocumented(m)
  PROVE  [Groups!Next]_AllGroups
<1>1. mac' \in Known(mac, m)
  BY DEF AddDocumented
<1>2. Sound(mac) /\ \A k \in DOMAIN alias : alias[k] \in DOMAIN mac
  BY MacSound DEF IInv, TypeOK, Rows
<1>3. \/ mac' = mac
      \/ /\ Found(mac, m) = {}
         /\ Identified(mac') = Identified(mac) \cup {{m}}
  BY <1>1, <1>2, KnownLearns
<1>4. AllGroups = Identified(mac) /\ AllGroups' = Identified(mac')
  BY GroupsIdentified, GroupsKept DEF AddDocumented
<1>5. CASE mac' = mac
  BY <1>4, <1>5
<1>6. CASE mac' # mac
  <2>1. AllGroups' = AllGroups \cup {{m}} /\ Groups!Unknown(m)
    BY <1>3, <1>4, <1>6, NotFoundUnknown
  <2> QED
    BY <2>1 DEF Groups!Next, Groups!Learn, Groups!Identities, Identities,
                AllGroups
<1> QED
  BY <1>5, <1>6

(***************************************************************************)
(* A merge joins two groups: the primary's grows by the secondary's MACs,  *)
(* every other group stays.                                                *)
(***************************************************************************)
LEMMA MergeMaps ==
  ASSUME IInv, NEW p \in Rows, NEW s \in Rows, Merge(p, s)
  PROVE  [Groups!Next]_AllGroups
<1> DEFINE g == IdentitiesOf(p)
           h == IdentitiesOf(s)
           joined == g \cup (h \cap Macs)
<1>1. /\ Rows' = Rows \ {s}
      /\ \A a \in Rows' : mac'[a] = mac[a]
  BY DEF Merge, Without, Restrict, Rows
<1>2. p # s /\ p \in Rows'
  BY <1>1 DEF Merge
<1>3. mac[s] \in Identities /\ mac[s] \notin DOMAIN alias
  BY DEF IInv, TypeOK, OneIdentity
<1>4. /\ DOMAIN alias' = IF mac[s] \in Manual
                         THEN DOMAIN alias ELSE DOMAIN alias \cup {mac[s]}
      /\ \A m \in DOMAIN alias :
           alias'[m] = IF alias[m] = s THEN p ELSE alias[m]
      /\ mac[s] \notin Manual => alias'[mac[s]] = p
  BY <1>3 DEF Merge, MergedAliases, Repoint, With
<1>5. DOMAIN alias \subseteq Macs
  BY DEF IInv, TypeOK
<1>6. mac[s] \in Macs <=> mac[s] \notin Manual
  BY <1>3, InventoryAssumption DEF Identities
<1>7. IdentitiesOf(p)' = joined
  <2>1. {m \in DOMAIN alias' : alias'[m] = p} =
          {m \in DOMAIN alias : alias[m] = p} \cup (h \cap Macs)
    BY <1>3, <1>4, <1>5, <1>6 DEF IdentitiesOf
  <2> QED
    BY <1>1, <1>2, <2>1 DEF IdentitiesOf
<1>8. ASSUME NEW a \in Rows', a # p
      PROVE  IdentitiesOf(a)' = IdentitiesOf(a)
  <2>1. {m \in DOMAIN alias' : alias'[m] = a} =
          {m \in DOMAIN alias : alias[m] = a}
    BY <1>1, <1>3, <1>4, <1>8
  <2> QED
    BY <1>1, <1>8, <2>1 DEF IdentitiesOf
<1>9. g \in AllGroups /\ h \in AllGroups /\ g # h
  BY <1>2, GroupsDistinct DEF AllGroups
<1>10. AllGroups' = (AllGroups \ {g, h}) \cup {joined}
  <2>1. AllGroups' = {IdentitiesOf(a)' : a \in Rows'}
    BY DEF AllGroups
  <2>2. \A x \in AllGroups' : x \in (AllGroups \ {g, h}) \cup {joined}
    <3> SUFFICES ASSUME NEW a \in Rows', a # p
                 PROVE  IdentitiesOf(a)' \in AllGroups \ {g, h}
      BY <1>7, <2>1
    <3>1. a \in Rows /\ a # s
      BY <1>1
    <3>2. IdentitiesOf(a) # g /\ IdentitiesOf(a) # h
      BY <3>1, GroupsDistinct
    <3> QED
      BY <1>8, <3>1, <3>2 DEF AllGroups
  <2>3. \A x \in (AllGroups \ {g, h}) \cup {joined} : x \in AllGroups'
    <3>1. joined \in AllGroups'
      BY <1>2, <1>7, <2>1
    <3>2. ASSUME NEW a \in Rows, IdentitiesOf(a) \notin {g, h}
          PROVE  IdentitiesOf(a) \in AllGroups'
      <4>1. a \in Rows' /\ a # p
        BY <1>1, <3>2
      <4> QED
        BY <1>8, <2>1, <4>1
    <3> QED
      BY <3>1, <3>2 DEF AllGroups
  <2> QED
    BY <2>2, <2>3
<1> QED
  BY <1>9, <1>10 DEF Groups!Next, Groups!Join, AllGroups

LEMMA DeleteMaps ==
  ASSUME IInv, NEW d \in Rows, Delete(d)
  PROVE  [Groups!Next]_AllGroups
<1>1. /\ Rows' = Rows \ {d}
      /\ \A a \in Rows' : mac'[a] = mac[a]
  BY DEF Delete, Without, Restrict, Rows
<1>2. /\ DOMAIN alias' = {m \in DOMAIN alias : alias[m] # d}
      /\ \A m \in DOMAIN alias' : alias'[m] = alias[m]
  BY DEF Delete, Restrict
<1>3. ASSUME NEW a \in Rows'
      PROVE  IdentitiesOf(a)' = IdentitiesOf(a)
  <2>1. {m \in DOMAIN alias' : alias'[m] = a} =
          {m \in DOMAIN alias : alias[m] = a}
    BY <1>1, <1>2
  <2> QED
    BY <1>1, <2>1 DEF IdentitiesOf
<1>4. AllGroups' = AllGroups \ {IdentitiesOf(d)}
  <2>1. AllGroups' = {IdentitiesOf(a)' : a \in Rows'}
    BY DEF AllGroups
  <2>2. \A a \in Rows' : IdentitiesOf(a) # IdentitiesOf(d)
    BY <1>1, GroupsDistinct
  <2> QED
    BY <1>1, <1>3, <2>1, <2>2 DEF AllGroups
<1> QED
  BY <1>4 DEF Groups!Next, Groups!Forget, AllGroups

(***************************************************************************)
(* The tables of store.py implement the map of identities: recording and   *)
(* documenting learn identities that were unknown, merging joins two       *)
(* groups, deleting forgets one, and nothing else changes them.            *)
(***************************************************************************)
THEOREM ImplementsIdentityMap == Spec => IdentitySpec
<1>1. Init => Groups!Init
  BY DEF Init, Groups!Init, Rows
<1>2. IInv /\ [Next]_vars => [Groups!Next]_AllGroups
  <2> SUFFICES ASSUME IInv, [Next]_vars
               PROVE  [Groups!Next]_AllGroups
    OBVIOUS
  <2>1. CASE \E s \in Sessions, src \in Macs, dst \in Macs \cup {Multicast},
                ip \in BOOLEAN : Record(s, src, dst, ip)
    BY <2>1, RecordMaps
  <2>2. CASE \E m \in Identities : AddDocumented(m)
    BY <2>2, AddDocumentedMaps
  <2>3. CASE \E p, s \in Rows : Merge(p, s)
    BY <2>3, MergeMaps
  <2>4. CASE \E a \in Rows : Delete(a)
    BY <2>4, DeleteMaps
  <2>5. CASE \/ \E a \in Rows : Link(a)
             \/ \E a \in cites : Unlink(a)
             \/ UNCHANGED vars
    BY <2>5 DEF Link, Unlink, vars, AllGroups, IdentitiesOf, Rows
  <2> QED
    BY <2>1, <2>2, <2>3, <2>4, <2>5 DEF Next
<1> QED
  BY <1>1, <1>2, InventoryInvariance, PTL
  DEF Spec, IdentitySpec, Groups!Spec, AllGroups

-----------------------------------------------------------------------------
(* Sums.  Total is a fold: the sums over the subsets of a function's       *)
(* domain, each with one element more than another.                        *)
OneOf(S) == CHOOSE x \in S : TRUE

Adds(f, g) ==
  g = [S \in SUBSET DOMAIN f |->
         IF S = {} THEN 0 ELSE f[OneOf(S)] + g[S \ {OneOf(S)}]]

Sums(f) == CHOOSE g : Adds(f, g)

(* The total is the sum over the whole domain.                             *)
LEMMA TotalIsASum ==
  ASSUME NEW f PROVE Total(f) = Sums(f)[DOMAIN f]
BY DEF Total, Sums, Adds, OneOf, MapThenSumSet, MapThenFoldSet

(* A set of numbers that is not empty has a least one.                     *)
LEMMA LeastNumber ==
  ASSUME NEW S \in SUBSET Nat, S # {}
  PROVE  \E m \in S : \A n \in S : m <= n
<1>1. PICK m \in S : \A n \in S : ~(<<n, m>> \in OpToRel(<, Nat))
  BY NatLessThanWellFounded, WFMin, Zenon
<1>2. \A n \in S : ~(n < m)
  BY <1>1, Zenon DEF OpToRel
<1> QED
  BY <1>2

(* A set without its chosen element has one element less.                  *)
LEMMA OneLess ==
  ASSUME NEW D, IsFiniteSet(D), NEW S \in SUBSET D, S # {}
  PROVE  /\ OneOf(S) \in S
         /\ S \ {OneOf(S)} \in SUBSET D
         /\ Cardinality(S) \in Nat /\ Cardinality(S) # 0
         /\ Cardinality(S \ {OneOf(S)}) = Cardinality(S) - 1
<1>1. OneOf(S) \in S
  BY DEF OneOf
<1>2. IsFiniteSet(S)
  BY FS_Subset
<1>3. Cardinality(S) \in Nat /\ Cardinality(S) # 0
  BY <1>2, FS_CardinalityType, FS_EmptySet
<1>4. Cardinality(S \ {OneOf(S)}) = Cardinality(S) - 1
  BY <1>1, <1>2, FS_RemoveElement
<1> QED
  BY <1>1, <1>3, <1>4

(***************************************************************************)
(* A set of subsets that has the empty one, and with a set that lacks an   *)
(* element also the set with it, has every subset.                         *)
(***************************************************************************)
LEMMA EverySubset ==
  ASSUME NEW D, IsFiniteSet(D), NEW P,
         {} \in P,
         \A S \in SUBSET D : S # {} /\ S \ {OneOf(S)} \in P => S \in P
  PROVE  SUBSET D \subseteq P
<1> DEFINE Missing == {n \in Nat : \E S \in SUBSET D :
                                     S \notin P /\ Cardinality(S) = n}
<1> SUFFICES ASSUME NEW T \in SUBSET D, T \notin P PROVE FALSE
  OBVIOUS
<1>1. Cardinality(T) \in Nat
  BY FS_Subset, FS_CardinalityType
<1>2. Missing \in SUBSET Nat /\ Missing # {}
  BY <1>1
<1>3. PICK n \in Missing : \A m \in Missing : n <= m
  <2> HIDE DEF Missing
  <2> QED
    BY <1>2, LeastNumber
<1>4. PICK S \in SUBSET D : S \notin P /\ Cardinality(S) = n
  BY <1>3
<1>5. S # {}
  BY <1>4
<1>6. /\ S \ {OneOf(S)} \in SUBSET D
      /\ Cardinality(S) \in Nat /\ Cardinality(S) # 0
      /\ Cardinality(S \ {OneOf(S)}) = Cardinality(S) - 1
  BY <1>5, OneLess
<1>7. S \ {OneOf(S)} \notin P
  BY <1>4, <1>5
<1>8. Cardinality(S) - 1 \in Missing
  BY <1>6, <1>7
<1> HIDE DEF Missing
<1> QED
  BY <1>3, <1>4, <1>6, <1>8

(* Every function with a finite domain has its sums.                       *)
LEMMA SumsExist ==
  ASSUME NEW f, IsFiniteSet(DOMAIN f)
  PROVE  Adds(f, Sums(f))
<1> DEFINE D == DOMAIN f
           Upto(n) == {S \in SUBSET D : Cardinality(S) <= n}
           Step(g, S) == IF S = {} THEN 0
                         ELSE f[OneOf(S)] + g[S \ {OneOf(S)}]
           Fails == {n \in Nat : ~\E g : g = [S \in Upto(n) |-> Step(g, S)]}
<1>1. ASSUME NEW n \in Nat PROVE n \notin Fails
  <2> SUFFICES ASSUME n \in Fails PROVE FALSE
    OBVIOUS
  <2>1. PICK k \in Fails : \A m \in Fails : k <= m
    <3>1. Fails \in SUBSET Nat /\ Fails # {}
      OBVIOUS
    <3> HIDE DEF Fails
    <3> QED
      BY <3>1, LeastNumber
  <2>2. k # 0
    <3> SUFFICES ASSUME k = 0 PROVE FALSE
      OBVIOUS
    <3> DEFINE g == [S \in Upto(0) |-> 0]
    <3>1. ASSUME NEW S \in Upto(0) PROVE S = {}
      <4>1. S \in SUBSET D /\ Cardinality(S) <= 0
        OBVIOUS
      <4>2. CASE S # {}
        <5>1. Cardinality(S) \in Nat /\ Cardinality(S) # 0
          BY <4>1, <4>2, OneLess
        <5> QED
          BY <4>1, <5>1
      <4> QED
        BY <4>2
    <3>2. g = [S \in Upto(0) |-> Step(g, S)]
      BY <3>1
    <3> QED
      BY <3>2
  <2>3. k - 1 \in Nat /\ k - 1 \notin Fails
    <3>1. k \in Nat
      BY <2>1
    <3> HIDE DEF Fails
    <3> QED
      BY <2>1, <2>2, <3>1
  <2>4. PICK g : g = [S \in Upto(k - 1) |-> Step(g, S)]
    BY <2>3
  <2> DEFINE h == [S \in Upto(k) |-> Step(g, S)]
  <2>5. ASSUME NEW S \in Upto(k), S # {}
        PROVE  S \ {OneOf(S)} \in Upto(k - 1) /\ S \ {OneOf(S)} \in Upto(k)
    <3>1. /\ S \ {OneOf(S)} \in SUBSET D
          /\ Cardinality(S) \in Nat
          /\ Cardinality(S \ {OneOf(S)}) = Cardinality(S) - 1
      BY <2>5, OneLess
    <3>2. Cardinality(S) <= k
      OBVIOUS
    <3>3. Cardinality(S) - 1 <= k - 1 /\ Cardinality(S) - 1 <= k
      BY <3>1, <3>2
    <3> QED
      BY <3>1, <3>3
  <2>6. ASSUME NEW S \in Upto(k), S \in Upto(k - 1) PROVE h[S] = g[S]
    <3>1. g[S] = Step(g, S)
      BY <2>4, <2>6
    <3>2. h[S] = Step(g, S)
      OBVIOUS
    <3> QED
      BY <3>1, <3>2
  <2>7. ASSUME NEW S \in Upto(k) PROVE Step(g, S) = Step(h, S)
    <3> HIDE DEF Upto, h
    <3>1. CASE S # {}
      <4>1. h[S \ {OneOf(S)}] = g[S \ {OneOf(S)}]
        BY <2>5, <2>6, <3>1
      <4> QED
        BY <4>1
    <3> QED
      BY <3>1
  <2>8. h = [S \in Upto(k) |-> Step(h, S)]
    <3> HIDE DEF Upto, Step
    <3> QED
      BY <2>7
  <2>9. ~\E e : e = [S \in Upto(k) |-> Step(e, S)]
    BY <2>1
  <2> HIDE DEF h, Upto, Step
  <2> QED
    BY <2>8, <2>9
<1>2. Cardinality(D) \in Nat /\ Upto(Cardinality(D)) = SUBSET D
  <2>1. Cardinality(D) \in Nat
    BY FS_CardinalityType
  <2>2. \A S \in SUBSET D : Cardinality(S) <= Cardinality(D)
    BY FS_Subset
  <2> QED
    BY <2>1, <2>2
<1>3. \E g : g = [S \in Upto(Cardinality(D)) |-> Step(g, S)]
  BY <1>1, <1>2
<1>4. \E g : Adds(f, g)
  <2> HIDE DEF Upto
  <2> QED
    BY <1>2, <1>3 DEF Adds
<1> QED
  BY <1>4 DEF Sums

(* What the sums are, step by step, and that they are numbers.             *)
LEMMA SumOfNone ==
  ASSUME NEW f, IsFiniteSet(DOMAIN f)
  PROVE  Sums(f)[{}] = 0
BY SumsExist DEF Adds

LEMMA SumOfOneMore ==
  ASSUME NEW f, IsFiniteSet(DOMAIN f), NEW S \in SUBSET DOMAIN f, S # {}
  PROVE  Sums(f)[S] = f[OneOf(S)] + Sums(f)[S \ {OneOf(S)}]
<1> DEFINE g == Sums(f)
<1>1. g = [T \in SUBSET DOMAIN f |->
             IF T = {} THEN 0 ELSE f[OneOf(T)] + g[T \ {OneOf(T)}]]
  BY SumsExist DEF Adds
<1> HIDE DEF g
<1>2. g[S] = f[OneOf(S)] + g[S \ {OneOf(S)}]
  BY <1>1
<1> QED
  BY <1>2 DEF g

LEMMA SumsAreNumbers ==
  ASSUME NEW D, IsFiniteSet(D), NEW f \in [D -> Nat], NEW S \in SUBSET D
  PROVE  Sums(f)[S] \in Nat
<1> DEFINE P == {T \in SUBSET D : Sums(f)[T] \in Nat}
<1>1. {} \in P
  BY SumOfNone
<1>2. ASSUME NEW T \in SUBSET D, T # {}, T \ {OneOf(T)} \in P
      PROVE  T \in P
  <2>1. Sums(f)[T] = f[OneOf(T)] + Sums(f)[T \ {OneOf(T)}]
    BY <1>2, SumOfOneMore
  <2>2. f[OneOf(T)] \in Nat
    BY <1>2, OneLess
  <2> QED
    BY <1>2, <2>1, <2>2
<1>3. SUBSET D \subseteq P
  <2> HIDE DEF P
  <2> QED
    BY <1>1, <1>2, EverySubset
<1> QED
  BY <1>3

LEMMA TotalIsANumber ==
  ASSUME NEW D, IsFiniteSet(D), NEW f \in [D -> Nat]
  PROVE  Total(f) \in Nat
<1>1. Total(f) = Sums(f)[D]
  BY TotalIsASum
<1> QED
  BY <1>1, SumsAreNumbers

(* A function that is zero everywhere has a total of zero.                 *)
LEMMA TotalOfNothing ==
  ASSUME NEW D, IsFiniteSet(D), NEW f \in [D -> Nat], \A x \in D : f[x] = 0
  PROVE  Total(f) = 0
<1> DEFINE P == {T \in SUBSET D : Sums(f)[T] = 0}
<1>1. {} \in P
  BY SumOfNone
<1>2. ASSUME NEW T \in SUBSET D, T # {}, T \ {OneOf(T)} \in P
      PROVE  T \in P
  <2>1. Sums(f)[T] = f[OneOf(T)] + Sums(f)[T \ {OneOf(T)}]
    BY <1>2, SumOfOneMore
  <2>2. f[OneOf(T)] = 0
    BY <1>2, OneLess
  <2> QED
    BY <1>2, <2>1, <2>2
<1>3. SUBSET D \subseteq P
  <2> HIDE DEF P
  <2> QED
    BY <1>1, <1>2, EverySubset
<1> QED
  BY <1>3, TotalIsASum

(* The total of a sum is the sum of the totals.                            *)
LEMMA TotalOfSum ==
  ASSUME NEW D, IsFiniteSet(D), NEW f \in [D -> Nat], NEW g \in [D -> Nat],
         NEW h \in [D -> Nat], \A x \in D : h[x] = f[x] + g[x]
  PROVE  Total(h) = Total(f) + Total(g)
<1> DEFINE P == {T \in SUBSET D : Sums(h)[T] = Sums(f)[T] + Sums(g)[T]}
<1>1. {} \in P
  BY SumOfNone
<1>2. ASSUME NEW T \in SUBSET D, T # {}, T \ {OneOf(T)} \in P
      PROVE  T \in P
  <2> DEFINE x == OneOf(T)
             U == T \ {x}
  <2>1. /\ Sums(f)[T] = f[x] + Sums(f)[U]
        /\ Sums(g)[T] = g[x] + Sums(g)[U]
        /\ Sums(h)[T] = h[x] + Sums(h)[U]
    BY <1>2, SumOfOneMore
  <2>2. x \in D /\ U \in SUBSET D
    BY <1>2, OneLess
  <2>3. h[x] = f[x] + g[x] /\ f[x] \in Nat /\ g[x] \in Nat
    BY <2>2
  <2>4. Sums(h)[U] = Sums(f)[U] + Sums(g)[U]
    BY <1>2
  <2>5. Sums(f)[U] \in Nat /\ Sums(g)[U] \in Nat
    BY <2>2, SumsAreNumbers
  <2> HIDE DEF x, U
  <2>6. Sums(h)[T] = Sums(f)[T] + Sums(g)[T]
    BY <2>1, <2>3, <2>4, <2>5
  <2> QED
    BY <2>6
<1>3. SUBSET D \subseteq P
  <2> HIDE DEF P
  <2> QED
    BY <1>1, <1>2, EverySubset
<1> QED
  BY <1>3, TotalIsASum

(* Functions that differ at one place have totals that differ as much.     *)
LEMMA TotalOfChange ==
  ASSUME NEW D, IsFiniteSet(D), NEW f \in [D -> Nat], NEW g \in [D -> Nat],
         NEW x \in D, \A y \in D : y # x => f[y] = g[y]
  PROVE  Total(f) + g[x] = Total(g) + f[x]
<1> DEFINE P == {T \in SUBSET D :
                   IF x \in T THEN Sums(f)[T] + g[x] = Sums(g)[T] + f[x]
                              ELSE Sums(f)[T] = Sums(g)[T]}
<1>1. {} \in P
  BY SumOfNone
<1>2. ASSUME NEW T \in SUBSET D, T # {}, T \ {OneOf(T)} \in P
      PROVE  T \in P
  <2> DEFINE c == OneOf(T)
             U == T \ {c}
  <2>1. /\ Sums(f)[T] = f[c] + Sums(f)[U]
        /\ Sums(g)[T] = g[c] + Sums(g)[U]
    BY <1>2, SumOfOneMore
  <2>2. c \in T /\ c \in D /\ U \in SUBSET D
    BY <1>2, OneLess
  <2>3. f[c] \in Nat /\ g[c] \in Nat /\ f[x] \in Nat /\ g[x] \in Nat
    BY <2>2
  <2>4. /\ x \in U => Sums(f)[U] + g[x] = Sums(g)[U] + f[x]
        /\ x \notin U => Sums(f)[U] = Sums(g)[U]
    BY <1>2
  <2>5. Sums(f)[U] \in Nat /\ Sums(g)[U] \in Nat
    BY <2>2, SumsAreNumbers
  <2>6. x \in U <=> x \in T /\ x # c
    OBVIOUS
  <2>7. c # x => f[c] = g[c]
    BY <2>2
  <2> HIDE DEF c, U
  <2>8. CASE c = x
    <3>1. x \notin U /\ x \in T
      BY <2>2, <2>6, <2>8
    <3>2. Sums(f)[T] + g[x] = Sums(g)[T] + f[x]
      BY <2>1, <2>3, <2>4, <2>5, <2>8, <3>1
    <3> QED
      BY <3>1, <3>2
  <2>9. CASE c # x /\ x \in T
    <3>1. Sums(f)[T] + g[x] = Sums(g)[T] + f[x]
      BY <2>1, <2>3, <2>4, <2>5, <2>6, <2>7, <2>9
    <3> QED
      BY <3>1, <2>9
  <2>10. CASE c # x /\ x \notin T
    <3>1. Sums(f)[T] = Sums(g)[T]
      BY <2>1, <2>4, <2>6, <2>7, <2>10
    <3> QED
      BY <3>1, <2>10
  <2> QED
    BY <2>8, <2>9, <2>10
<1>3. SUBSET D \subseteq P
  <2> HIDE DEF P
  <2> QED
    BY <1>1, <1>2, EverySubset
<1>4. D \in P
  BY <1>3
<1> QED
  BY <1>4, TotalIsASum

-----------------------------------------------------------------------------
(* A function that is one in at most one place has a total of at most one. *)
AtMostOne(f) == \A x, y \in DOMAIN f : f[x] = 1 /\ f[y] = 1 => x = y

LEMMA TotalOfAtMostOne ==
  ASSUME NEW D, IsFiniteSet(D), NEW f \in [D -> {0, 1}], AtMostOne(f)
  PROVE  Total(f) \in {0, 1}
<1> DEFINE zero == [x \in D |-> 0]
<1>1. f \in [D -> Nat] /\ zero \in [D -> Nat]
  OBVIOUS
<1>2. Total(zero) = 0
  BY <1>1, TotalOfNothing
<1>3. CASE \A x \in D : f[x] = 0
  BY <1>1, <1>3, TotalOfNothing
<1>4. ASSUME NEW x \in D, f[x] = 1 PROVE Total(f) = 1
  <2>1. \A y \in D : y # x => f[y] = zero[y]
    BY <1>4 DEF AtMostOne
  <2>2. Total(f) + zero[x] = Total(zero) + f[x]
    BY <1>1, <2>1, TotalOfChange
  <2>3. Total(f) \in Nat
    BY <1>1, TotalIsANumber
  <2> QED
    BY <1>2, <1>4, <2>2, <2>3
<1> QED
  BY <1>3, <1>4

(* What one place gives to another leaves the total as it was.             *)
LEMMA TotalOfMove ==
  ASSUME NEW D, IsFiniteSet(D), NEW f \in [D -> Nat], NEW g \in [D -> Nat],
         NEW p \in D, NEW s \in D, p # s,
         g[p] = f[p] + f[s], g[s] = 0,
         \A y \in D : y # p /\ y # s => g[y] = f[y]
  PROVE  Total(g) = Total(f)
<1> DEFINE mid == [f EXCEPT ![s] = 0]
<1>1. mid \in [D -> Nat] /\ mid[s] = 0 /\ mid[p] = f[p]
  OBVIOUS
<1>2. /\ \A y \in D : y # s => f[y] = mid[y]
      /\ \A y \in D : y # p => mid[y] = g[y]
  OBVIOUS
<1> HIDE DEF mid
<1>3. Total(f) + mid[s] = Total(mid) + f[s]
  BY <1>1, <1>2, TotalOfChange
<1>4. Total(mid) + g[p] = Total(g) + mid[p]
  BY <1>1, <1>2, TotalOfChange
<1>5. /\ Total(f) \in Nat /\ Total(mid) \in Nat /\ Total(g) \in Nat
      /\ f[p] \in Nat /\ f[s] \in Nat
  BY <1>1, TotalIsANumber
<1> QED
  BY <1>1, <1>3, <1>4, <1>5

(* Emptying one place takes no more than its number from the total.        *)
LEMMA TotalOfEmptied ==
  ASSUME NEW D, IsFiniteSet(D), NEW f \in [D -> Nat], NEW g \in [D -> Nat],
         NEW d \in D, g[d] = 0, \A y \in D : y # d => g[y] = f[y]
  PROVE  Total(g) <= Total(f)
<1>1. Total(f) + g[d] = Total(g) + f[d]
  BY TotalOfChange
<1>2. Total(f) \in Nat /\ Total(g) \in Nat /\ f[d] \in Nat
  BY TotalIsANumber
<1> QED
  BY <1>1, <1>2

-----------------------------------------------------------------------------
(* How often each asset was seen in a session.                             *)
SeenIn(s) == [a \in Ids |-> sightings[a][s]]

LEMMA FiniteTables == IsFiniteSet(Ids) /\ IsFiniteSet(Sessions)
BY FS_Interval, InventoryAssumption DEF Ids

LEMMA TablesTyped ==
  ASSUME TypeOK
  PROVE  /\ packets \in [Ids -> Nat]
         /\ sightings \in [Ids -> [Sessions -> Nat]]
         /\ frames \in [Sessions -> Nat]
         /\ Rows \subseteq Ids
         /\ \A s \in Sessions : SeenIn(s) \in [Ids -> Nat]
<1>1. /\ packets \in [Ids -> Nat] /\ sightings \in [Ids -> [Sessions -> Nat]]
      /\ frames \in [Sessions -> Nat]
      /\ Rows \subseteq Ids
  BY DEF TypeOK
<1> QED
  BY <1>1 DEF SeenIn

EvidenceInv == EvidenceBalanced /\ SightingsWithinSession

LEMMA EvidenceInit == Init => EvidenceInv
<1> SUFFICES ASSUME Init PROVE EvidenceInv
  OBVIOUS
<1>1. EvidenceBalanced
  <2> SUFFICES ASSUME NEW a \in Ids PROVE packets[a] = Total(sightings[a])
    BY DEF EvidenceBalanced
  <2>1. packets[a] = 0 /\ sightings[a] = [s \in Sessions |-> 0]
    BY DEF Init
  <2>2. /\ sightings[a] \in [Sessions -> Nat]
        /\ \A s \in Sessions : sightings[a][s] = 0
    BY <2>1
  <2> QED
    BY <2>1, <2>2, FiniteTables, TotalOfNothing
<1>2. SightingsWithinSession
  <2> SUFFICES ASSUME NEW s \in Sessions PROVE Total(SeenIn(s)) <= 2 * frames[s]
    BY DEF SightingsWithinSession, SeenIn
  <2>1. frames[s] = 0
    BY DEF Init
  <2>2. SeenIn(s) \in [Ids -> Nat] /\ \A a \in Ids : SeenIn(s)[a] = 0
    BY DEF Init, SeenIn
  <2>3. Total(SeenIn(s)) = 0
    BY <2>2, FiniteTables, TotalOfNothing
  <2> QED
    BY <2>1, <2>3
<1> QED
  BY <1>1, <1>2 DEF EvidenceInv

(* A frame of session s was seen from one asset at most, to one at most.   *)
SeenOnce(s, from, to) ==
  /\ AtMostOne(from) /\ AtMostOne(to)
  /\ packets' = [a \in Ids |-> packets[a] + (from[a] + to[a])]
  /\ sightings' = [a \in Ids |->
       [sightings[a] EXCEPT ![s] = @ + (from[a] + to[a])]]
  /\ frames' = [frames EXCEPT ![s] = @ + 1]

(***************************************************************************)
(* A frame counts at most once for an asset as its source, and at most     *)
(* once for an asset as its destination.                                   *)
(***************************************************************************)
LEMMA RecordCounts ==
  ASSUME TypeOK, NEW s \in Sessions, NEW src \in Macs,
         NEW dst \in Macs \cup {Multicast}, NEW ip \in BOOLEAN,
         Record(s, src, dst, ip)
  PROVE  \E from, to \in [Ids -> {0, 1}] :
           SeenOnce(s, from, to)
<1>1. PICK table :
        /\ packets' = [a \in Ids |-> packets[a] +
             ((IF Found(table, src) = {a} THEN 1 ELSE 0)
               + (IF Found(table, dst) = {a} THEN 1 ELSE 0))]
        /\ sightings' = [a \in Ids |-> [sightings[a] EXCEPT ![s] = @ +
             ((IF Found(table, src) = {a} THEN 1 ELSE 0)
               + (IF Found(table, dst) = {a} THEN 1 ELSE 0))]]
  BY DEF Record
<1> DEFINE from == [a \in Ids |-> IF Found(table, src) = {a} THEN 1 ELSE 0]
           to   == [a \in Ids |-> IF Found(table, dst) = {a} THEN 1 ELSE 0]
<1>2. from \in [Ids -> {0, 1}] /\ to \in [Ids -> {0, 1}]
  OBVIOUS
<1>3. AtMostOne(from) /\ AtMostOne(to)
  BY DEF AtMostOne
<1>4. packets' = [a \in Ids |-> packets[a] + (from[a] + to[a])]
  BY <1>1
<1>5. sightings' = [a \in Ids |->
        [sightings[a] EXCEPT ![s] = @ + (from[a] + to[a])]]
  BY <1>1
<1>6. frames' = [frames EXCEPT ![s] = @ + 1]
  BY DEF Record
<1> HIDE DEF from, to
<1>7. SeenOnce(s, from, to)
  BY <1>3, <1>4, <1>5, <1>6 DEF SeenOnce
<1> QED
  BY <1>2, <1>7

(* Adding what a frame was seen as adds at most two to a total.            *)
LEMMA TotalOfFrame ==
  ASSUME NEW D, IsFiniteSet(D), NEW f \in [D -> Nat], NEW h \in [D -> Nat],
         NEW from \in [D -> {0, 1}], NEW to \in [D -> {0, 1}],
         AtMostOne(from), AtMostOne(to),
         \A x \in D : h[x] = f[x] + (from[x] + to[x])
  PROVE  Total(h) - Total(f) \in 0..2
<1> DEFINE seen == [x \in D |-> from[x] + to[x]]
<1>1. /\ from \in [D -> Nat] /\ to \in [D -> Nat] /\ seen \in [D -> Nat]
      /\ \A x \in D : seen[x] = from[x] + to[x]
      /\ \A x \in D : h[x] = f[x] + seen[x]
  OBVIOUS
<1> HIDE DEF seen
<1>2. Total(seen) = Total(from) + Total(to)
  BY <1>1, TotalOfSum
<1>3. Total(h) = Total(f) + Total(seen)
  BY <1>1, TotalOfSum
<1>4. Total(from) \in {0, 1} /\ Total(to) \in {0, 1}
  BY TotalOfAtMostOne
<1>5. Total(f) \in Nat
  BY TotalIsANumber
<1> QED
  BY <1>2, <1>3, <1>4, <1>5

(* Recording a frame keeps the tables together and never loses packets.    *)
LEMMA RecordCountsEvidence ==
  ASSUME TypeOK, TypeOK', EvidenceInv, NEW s \in Sessions, NEW src \in Macs,
         NEW dst \in Macs \cup {Multicast}, NEW ip \in BOOLEAN,
         Record(s, src, dst, ip)
  PROVE  EvidenceInv' /\ Total(packets) <= Total(packets')
<1>0. PICK from, to \in [Ids -> {0, 1}] : SeenOnce(s, from, to)
  BY RecordCounts
<1>1. /\ AtMostOne(from) /\ AtMostOne(to)
      /\ packets' = [a \in Ids |-> packets[a] + (from[a] + to[a])]
      /\ sightings' = [a \in Ids |->
           [sightings[a] EXCEPT ![s] = @ + (from[a] + to[a])]]
      /\ frames' = [frames EXCEPT ![s] = @ + 1]
  BY <1>0 DEF SeenOnce
<1>2. /\ packets \in [Ids -> Nat] /\ packets' \in [Ids -> Nat]
      /\ sightings \in [Ids -> [Sessions -> Nat]]
      /\ sightings' \in [Ids -> [Sessions -> Nat]]
      /\ frames \in [Sessions -> Nat]
  BY DEF TypeOK
<1>3. EvidenceBalanced'
  <2> SUFFICES ASSUME NEW a \in Ids
               PROVE  packets'[a] = Total(sightings'[a])
    BY DEF EvidenceBalanced, Ids
  <2> DEFINE f == sightings[a]
             g == sightings'[a]
  <2>1. /\ f \in [Sessions -> Nat] /\ g \in [Sessions -> Nat]
        /\ g[s] = f[s] + (from[a] + to[a])
        /\ \A t \in Sessions : t # s => f[t] = g[t]
    BY <1>1, <1>2
  <2>2. packets[a] = Total(f) /\ packets'[a] = packets[a] + (from[a] + to[a])
    BY <1>1 DEF EvidenceInv, EvidenceBalanced
  <2> HIDE DEF f, g
  <2>3. Total(f) + g[s] = Total(g) + f[s]
    BY <2>1, FiniteTables, TotalOfChange
  <2>4. /\ Total(f) \in Nat /\ Total(g) \in Nat
        /\ f[s] \in Nat /\ from[a] + to[a] \in Nat
    BY <2>1, FiniteTables, TotalIsANumber
  <2>5. Total(g) = packets'[a]
    BY <2>1, <2>2, <2>3, <2>4
  <2> QED
    BY <2>5 DEF g
<1>4. SightingsWithinSession'
  <2> SUFFICES ASSUME NEW t \in Sessions
               PROVE  Total([a \in Ids |-> sightings'[a][t]]) <= 2 * frames'[t]
    BY DEF SightingsWithinSession, Ids
  <2> DEFINE f == [a \in Ids |-> sightings[a][t]]
             h == [a \in Ids |-> sightings'[a][t]]
  <2>1. f \in [Ids -> Nat] /\ h \in [Ids -> Nat]
    BY <1>2
  <2>2. Total(f) <= 2 * frames[t]
    BY DEF EvidenceInv, SightingsWithinSession
  <2>3. CASE t = s
    <3>1. \A x \in Ids : h[x] = f[x] + (from[x] + to[x])
      BY <1>1, <1>2, <2>3
    <3> HIDE DEF f, h
    <3>2. Total(h) - Total(f) \in 0..2
      BY <1>1, <2>1, <3>1, FiniteTables, TotalOfFrame
    <3>3. /\ Total(f) \in Nat /\ Total(h) \in Nat
          /\ frames[t] \in Nat /\ frames'[t] = frames[t] + 1
      BY <1>1, <1>2, <2>1, <2>3, FiniteTables, TotalIsANumber
    <3>4. Total(h) <= 2 * frames'[t]
      BY <2>2, <3>2, <3>3
    <3> QED
      BY <3>4 DEF h
  <2>4. CASE t # s
    <3>1. h = f /\ frames'[t] = frames[t]
      BY <1>1, <1>2, <2>4
    <3> QED
      BY <2>2, <3>1
  <2> QED
    BY <2>3, <2>4
<1>5. Total(packets) <= Total(packets')
  <2>1. \A x \in Ids : packets'[x] = packets[x] + (from[x] + to[x])
    BY <1>1
  <2>2. Total(packets') - Total(packets) \in 0..2
    BY <1>1, <1>2, <2>1, FiniteTables, TotalOfFrame
  <2>3. Total(packets) \in Nat /\ Total(packets') \in Nat
    BY <1>2, FiniteTables, TotalIsANumber
  <2> QED
    BY <2>2, <2>3
<1> QED
  BY <1>3, <1>4, <1>5 DEF EvidenceInv

(* Merging moves packets and sightings and keeps every total.              *)
LEMMA MergeMovesEvidence ==
  ASSUME TypeOK, TypeOK', EvidenceInv, NEW p \in Rows, NEW s \in Rows,
         Merge(p, s)
  PROVE  EvidenceInv' /\ Total(packets') = Total(packets)
<1>1. /\ packets \in [Ids -> Nat] /\ packets' \in [Ids -> Nat]
      /\ sightings \in [Ids -> [Sessions -> Nat]]
      /\ sightings' \in [Ids -> [Sessions -> Nat]]
      /\ frames' = frames
      /\ p \in Ids /\ s \in Ids /\ p # s
  BY DEF TypeOK, Merge
<1>2. /\ packets'[p] = packets[p] + packets[s] /\ packets'[s] = 0
      /\ \A a \in Ids : a # p /\ a # s => packets'[a] = packets[a]
  BY <1>1 DEF Merge, MergedPackets
<1>3. /\ \A t \in Sessions : sightings'[p][t] = sightings[p][t] + sightings[s][t]
      /\ \A t \in Sessions : sightings'[s][t] = 0
      /\ \A a \in Ids : a # p /\ a # s => sightings'[a] = sightings[a]
  BY <1>1 DEF Merge, MergedSightings, NoSightings
<1>4. EvidenceBalanced'
  <2> SUFFICES ASSUME NEW a \in Ids
               PROVE  packets'[a] = Total(sightings'[a])
    BY DEF EvidenceBalanced, Ids
  <2>1. \A b \in Ids : packets[b] = Total(sightings[b])
    BY DEF EvidenceInv, EvidenceBalanced
  <2>2. CASE a = p
    <3>1. /\ sightings[p] \in [Sessions -> Nat]
          /\ sightings[s] \in [Sessions -> Nat]
          /\ sightings'[p] \in [Sessions -> Nat]
      BY <1>1
    <3>2. Total(sightings'[p]) = Total(sightings[p]) + Total(sightings[s])
      BY <1>3, <3>1, FiniteTables, TotalOfSum
    <3> QED
      BY <1>1, <1>2, <2>1, <2>2, <3>2
  <2>3. CASE a = s
    <3>1. sightings'[s] \in [Sessions -> Nat]
      BY <1>1
    <3>2. Total(sightings'[s]) = 0
      BY <1>3, <3>1, FiniteTables, TotalOfNothing
    <3> QED
      BY <1>2, <2>3, <3>2
  <2>4. CASE a # p /\ a # s
    BY <1>2, <1>3, <2>1, <2>4
  <2> QED
    BY <2>2, <2>3, <2>4
<1>5. SightingsWithinSession'
  <2> SUFFICES ASSUME NEW t \in Sessions
               PROVE  Total([a \in Ids |-> sightings'[a][t]]) <= 2 * frames'[t]
    BY DEF SightingsWithinSession, Ids
  <2> DEFINE f == [a \in Ids |-> sightings[a][t]]
             g == [a \in Ids |-> sightings'[a][t]]
  <2>1. f \in [Ids -> Nat] /\ g \in [Ids -> Nat]
    BY <1>1
  <2>2. Total(f) <= 2 * frames[t]
    BY DEF EvidenceInv, SightingsWithinSession
  <2>3. /\ g[p] = f[p] + f[s] /\ g[s] = 0
        /\ \A a \in Ids : a # p /\ a # s => g[a] = f[a]
    BY <1>1, <1>3
  <2> HIDE DEF f, g
  <2>4. Total(g) = Total(f)
    <3>1. p \in Ids /\ s \in Ids /\ p # s /\ IsFiniteSet(Ids)
      BY <1>1, FiniteTables
    <3> QED
      BY <2>1, <2>3, <3>1, TotalOfMove
  <2>5. Total(g) <= 2 * frames'[t]
    BY <1>1, <2>2, <2>4
  <2> QED
    BY <2>5 DEF g
<1>6. Total(packets') = Total(packets)
  <2> DEFINE f == packets
             g == packets'
  <2>1. /\ f \in [Ids -> Nat] /\ g \in [Ids -> Nat]
        /\ p \in Ids /\ s \in Ids /\ p # s /\ IsFiniteSet(Ids)
    BY <1>1, FiniteTables
  <2>2. /\ g[p] = f[p] + f[s] /\ g[s] = 0
        /\ \A a \in Ids : a # p /\ a # s => g[a] = f[a]
    BY <1>2
  <2> HIDE DEF f, g
  <2>3. Total(g) = Total(f)
    BY <2>1, <2>2, TotalOfMove
  <2> QED
    BY <2>3 DEF f, g
<1> QED
  BY <1>4, <1>5, <1>6 DEF EvidenceInv

(* Deleting empties both tables for the asset.                             *)
LEMMA DeleteDropsEvidence ==
  ASSUME TypeOK, TypeOK', EvidenceInv, NEW d \in Rows, Delete(d)
  PROVE  EvidenceInv'
<1>1. /\ packets \in [Ids -> Nat] /\ packets' \in [Ids -> Nat]
      /\ sightings \in [Ids -> [Sessions -> Nat]]
      /\ sightings' \in [Ids -> [Sessions -> Nat]]
      /\ frames \in [Sessions -> Nat] /\ frames' = frames
      /\ d \in Ids
  BY DEF TypeOK, Delete
<1>2. /\ packets'[d] = 0
      /\ \A a \in Ids : a # d => packets'[a] = packets[a]
  BY <1>1 DEF Delete
<1>3. /\ \A t \in Sessions : sightings'[d][t] = 0
      /\ \A a \in Ids : a # d => sightings'[a] = sightings[a]
  BY <1>1 DEF Delete, NoSightings
<1>4. EvidenceBalanced'
  <2> SUFFICES ASSUME NEW a \in Ids
               PROVE  packets'[a] = Total(sightings'[a])
    BY DEF EvidenceBalanced, Ids
  <2>1. CASE a = d
    <3>1. sightings'[d] \in [Sessions -> Nat]
      BY <1>1
    <3>2. Total(sightings'[d]) = 0
      BY <1>3, <3>1, FiniteTables, TotalOfNothing
    <3> QED
      BY <1>2, <2>1, <3>2
  <2>2. CASE a # d
    BY <1>2, <1>3, <2>2 DEF EvidenceInv, EvidenceBalanced
  <2> QED
    BY <2>1, <2>2
<1>5. SightingsWithinSession'
  <2> SUFFICES ASSUME NEW t \in Sessions
               PROVE  Total([a \in Ids |-> sightings'[a][t]]) <= 2 * frames'[t]
    BY DEF SightingsWithinSession, Ids
  <2> DEFINE f == [a \in Ids |-> sightings[a][t]]
             g == [a \in Ids |-> sightings'[a][t]]
  <2>1. f \in [Ids -> Nat] /\ g \in [Ids -> Nat]
    BY <1>1
  <2>2. Total(f) <= 2 * frames[t] /\ frames[t] \in Nat
    BY <1>1 DEF EvidenceInv, SightingsWithinSession
  <2>3. g[d] = 0 /\ \A a \in Ids : a # d => g[a] = f[a]
    BY <1>1, <1>3
  <2> HIDE DEF f, g
  <2>4. Total(g) <= Total(f) /\ Total(g) \in Nat /\ Total(f) \in Nat
    BY <1>1, <2>1, <2>3, FiniteTables, TotalOfEmptied, TotalIsANumber
  <2>5. Total(g) <= 2 * frames'[t]
    BY <1>1, <2>2, <2>4
  <2> QED
    BY <2>5 DEF g
<1> QED
  BY <1>4, <1>5 DEF EvidenceInv

(* The other operations leave the evidence alone.                          *)
LEMMA EvidenceUntouched ==
  ASSUME UNCHANGED evidence, EvidenceInv
  PROVE  EvidenceInv' /\ packets' = packets
BY DEF evidence, EvidenceInv, EvidenceBalanced, SightingsWithinSession, Ids

-----------------------------------------------------------------------------
LEMMA EvidenceNext ==
  IInv /\ IInv' /\ EvidenceInv /\ [Next]_vars => EvidenceInv'
<1> SUFFICES ASSUME IInv, IInv', EvidenceInv, [Next]_vars PROVE EvidenceInv'
  OBVIOUS
<1>1. TypeOK /\ TypeOK'
  BY DEF IInv
<1>2. CASE \E s \in Sessions, src \in Macs, dst \in Macs \cup {Multicast},
              ip \in BOOLEAN : Record(s, src, dst, ip)
  BY <1>1, <1>2, RecordCountsEvidence
<1>3. CASE \E p, s \in Rows : Merge(p, s)
  BY <1>1, <1>3, MergeMovesEvidence
<1>4. CASE \E a \in Rows : Delete(a)
  BY <1>1, <1>4, DeleteDropsEvidence
<1>5. CASE \/ \E m \in Identities : AddDocumented(m)
           \/ \E a \in Rows : Link(a)
           \/ \E a \in cites : Unlink(a)
           \/ UNCHANGED vars
  <2>1. UNCHANGED evidence
    BY <1>5 DEF AddDocumented, Link, Unlink, vars, evidence
  <2> QED
    BY <2>1, EvidenceUntouched
<1> QED
  BY <1>2, <1>3, <1>4, <1>5 DEF Next

LEMMA EvidenceInvariance == Spec => []EvidenceInv
<1>1. Init => EvidenceInv
  BY EvidenceInit
<1>2. IInv /\ IInv' /\ EvidenceInv /\ [Next]_vars => EvidenceInv'
  BY EvidenceNext
<1> QED
  BY <1>1, <1>2, InventoryInvariance, PTL DEF Spec

(***************************************************************************)
(* The packets of an asset are those of its sightings, added up over the   *)
(* sessions: _asset, merge_assets and the cascade of delete_asset keep the *)
(* two tables together, whatever is recorded, merged and deleted.          *)
(***************************************************************************)
THEOREM PacketsAreSightings == Spec => []EvidenceBalanced
BY EvidenceInvariance, PTL DEF EvidenceInv

(***************************************************************************)
(* All the assets together were seen in a session at most twice per frame  *)
(* of the session, once as the source and once as the destination; merging *)
(* moves what was seen and never adds to it.                               *)
(***************************************************************************)
THEOREM SeenTwiceAFrame == Spec => []SightingsWithinSession
BY EvidenceInvariance, PTL DEF EvidenceInv

(***************************************************************************)
(* No step loses packets but the deletion of an asset without a MAC:       *)
(* recording adds them, merge_assets moves them, and delete_asset refuses  *)
(* an asset that has a MAC and packets.                                    *)
(***************************************************************************)
THEOREM LossNeedsDeletion == Spec => EvidenceLostOnlyByDeletion
<1> DEFINE Allowed == Total(packets') < Total(packets) =>
                        \E a \in Rows \ DOMAIN mac' : mac[a] \in Manual
<1>1. IInv /\ IInv' /\ EvidenceInv /\ [Next]_vars => Allowed
  <2> SUFFICES ASSUME IInv, IInv', EvidenceInv, [Next]_vars PROVE Allowed
    OBVIOUS
  <2>1. TypeOK /\ TypeOK'
    BY DEF IInv
  <2>2. Total(packets) \in Nat /\ Total(packets') \in Nat
    BY <2>1, FiniteTables, TotalIsANumber DEF TypeOK
  <2>3. CASE \E s \in Sessions, src \in Macs, dst \in Macs \cup {Multicast},
                ip \in BOOLEAN : Record(s, src, dst, ip)
    <3>1. Total(packets) <= Total(packets')
      BY <2>1, <2>3, RecordCountsEvidence
    <3> QED
      BY <2>2, <3>1
  <2>4. CASE \E p, s \in Rows : Merge(p, s)
    <3>1. Total(packets') = Total(packets)
      BY <2>1, <2>4, MergeMovesEvidence
    <3> QED
      BY <2>2, <3>1
  <2>5. ASSUME NEW d \in Rows, Delete(d) PROVE Allowed
    <3>1. packets[d] = 0 \/ mac[d] \in Manual
      BY <2>5 DEF Delete, Deletable
    <3>2. CASE packets[d] = 0
      <4>1. packets' = packets
        BY <2>1, <2>5, <3>2 DEF Delete, TypeOK
      <4> QED
        BY <2>2, <4>1
    <3>3. CASE mac[d] \in Manual
      <4>1. d \in Rows \ DOMAIN mac'
        BY <2>5 DEF Delete, Without, Restrict, Rows
      <4> QED
        BY <3>3, <4>1
    <3> QED
      BY <3>1, <3>2, <3>3
  <2>6. CASE \/ \E m \in Identities : AddDocumented(m)
             \/ \E a \in Rows : Link(a)
             \/ \E a \in cites : Unlink(a)
             \/ UNCHANGED vars
    <3>1. packets' = packets
      BY <2>6 DEF AddDocumented, Link, Unlink, vars, evidence
    <3> QED
      BY <2>2, <3>1
  <2> QED
    BY <2>3, <2>4, <2>5, <2>6 DEF Next
<1> QED
  BY <1>1, InventoryInvariance, EvidenceInvariance, PTL
  DEF Spec, EvidenceLostOnlyByDeletion
=============================================================================
