---------------------------- MODULE DecodersProofs ----------------------------
(***************************************************************************)
(* What is said of a frame that is cut, for any frames: where the parts of *)
(* a payload begin, what each kind of payload says of its first bytes, and *)
(* what the layers around it add.                                          *)
(***************************************************************************)
EXTENDS Decoding, NaturalsInduction, WellFoundedInduction, SequenceTheorems, TLAPS

----------------------------------------------------------------------------
(***************************************************************************)
(* Offsets.                                                                *)
(***************************************************************************)

(* A set of numbers that is not empty has a least one.                     *)
LEMMA LeastNumber ==
  ASSUME NEW S \in SUBSET Nat, S # {}
  PROVE  \E m \in S : \A n \in S : m <= n
<1>1. PICK m \in S : \A n \in S : ~(<<n, m>> \in OpToRel(<, Nat))
  BY NatLessThanWellFounded, WFMin, Zenon
<1>2. \A n \in S : ~(n < m)
  BY <1>1, Zenon DEF OpToRel
<1> QED
  BY <1>2

(* What is true of 1, and of j + 1 if it is of j, is true up to any bound. *)
LEMMA UpTo ==
  ASSUME NEW k \in Nat, NEW P, 1 \in P,
         \A j \in 1..k : j \in P => j + 1 \in P
  PROVE  1..(k + 1) \subseteq P
<1> SUFFICES ASSUME NEW i \in 1..(k + 1), i \notin P PROVE FALSE
  OBVIOUS
<1> DEFINE Bad == {n \in 1..(k + 1) : n \notin P}
<1>1. Bad \in SUBSET Nat /\ Bad # {}
  OBVIOUS
<1>2. PICK n \in Bad : \A m \in Bad : n <= m
  <2> HIDE DEF Bad
  <2> QED
    BY <1>1, LeastNumber
<1>3. n \in 1..(k + 1) /\ n \notin P /\ n # 1
  BY <1>2
<1>4. n - 1 \in 1..k /\ n - 1 \in 1..(k + 1) /\ ~(n <= n - 1) /\ (n - 1) + 1 = n
  BY <1>3
<1>5. n - 1 \in P
  BY <1>2, <1>4
<1> QED
  BY <1>3, <1>4, <1>5

(* Offsets is the recursion it is written as.                              *)
IsOffsets(at, first, sizes) ==
  at = [j \in 1..(Len(sizes) + 1) |-> IF j = 1 THEN first ELSE at[j - 1] + sizes[j - 1]]

LEMMA OffsetsExist ==
  ASSUME NEW first, NEW sizes, Len(sizes) \in Nat
  PROVE  IsOffsets(Offsets(first, sizes), first, sizes)
<1> DEFINE Entry(at, j) == IF j = 1 THEN first ELSE at[j - 1] + sizes[j - 1]
           k == Len(sizes)
           P == {n \in Nat : \E at : at = [j \in 1..n |-> Entry(at, j)]}
<1>1. 1 \in P
  <2> DEFINE at == [j \in 1..1 |-> first]
  <2>1. at = [j \in 1..1 |-> Entry(at, j)]
    OBVIOUS
  <2> QED
    BY <2>1
<1>2. ASSUME NEW n \in 1..k, n \in P PROVE n + 1 \in P
  <2>1. PICK at : at = [j \in 1..n |-> Entry(at, j)]
    BY <1>2
  <2> DEFINE h == [j \in 1..(n + 1) |-> Entry(at, j)]
  <2>2. ASSUME NEW j \in 1..(n + 1) PROVE Entry(at, j) = Entry(h, j)
    <3>1. CASE j # 1
      <4>1. j - 1 \in 1..n /\ j - 1 \in 1..(n + 1)
        BY <3>1
      <4>2. at[j - 1] = Entry(at, j - 1)
        BY <2>1, <4>1
      <4>3. h[j - 1] = Entry(at, j - 1)
        BY <4>1
      <4> HIDE DEF h
      <4> QED
        BY <4>2, <4>3
    <3> QED
      BY <3>1
  <2>3. h = [j \in 1..(n + 1) |-> Entry(h, j)]
    <3> HIDE DEF Entry
    <3> QED
      BY <2>2
  <2>4. n + 1 \in Nat
    OBVIOUS
  <2> HIDE DEF h, Entry
  <2> QED
    BY <2>3, <2>4
<1>3. k + 1 \in P
  <2>1. k + 1 \in 1..(k + 1)
    OBVIOUS
  <2> HIDE DEF P
  <2>2. \A n \in 1..k : n \in P => n + 1 \in P
    BY <1>2
  <2> QED
    BY <1>1, <2>1, <2>2, UpTo
<1>4. \E at : IsOffsets(at, first, sizes)
  BY <1>3 DEF IsOffsets
<1>5. Offsets(first, sizes) = CHOOSE at : IsOffsets(at, first, sizes)
  BY DEF Offsets, IsOffsets
<1> QED
  BY <1>4, <1>5

(* The first part begins at first, each next one where one ends.           *)
EndToEnd(at, sizes, k) == \A j \in 1..k : at[j + 1] = at[j] + sizes[j]

LEMMA OffsetsFollow ==
  ASSUME NEW first \in Nat, NEW k \in Nat, NEW sizes \in [1..k -> Nat], Len(sizes) = k
  PROVE  /\ Offsets(first, sizes)[1] = first
         /\ EndToEnd(Offsets(first, sizes), sizes, k)
<1> DEFINE at == Offsets(first, sizes)
<1>1. at = [j \in 1..(k + 1) |-> IF j = 1 THEN first ELSE at[j - 1] + sizes[j - 1]]
  <2>1. IsOffsets(at, first, sizes)
    BY OffsetsExist
  <2> HIDE DEF at
  <2> QED
    BY <2>1 DEF IsOffsets
<1> HIDE DEF at
<1>2. at[1] = first
  BY <1>1
<1>3. ASSUME NEW j \in 1..k PROVE at[j + 1] = at[j] + sizes[j]
  <2>1. j + 1 \in 1..(k + 1) /\ j + 1 # 1 /\ (j + 1) - 1 = j
    OBVIOUS
  <2> QED
    BY <1>1, <2>1
<1> QED
  BY <1>2, <1>3 DEF at, EndToEnd

(* The offsets are numbers that never decrease.                            *)
LEMMA OffsetsGrow ==
  ASSUME NEW first \in Nat, NEW k \in Nat, NEW sizes \in [1..k -> Nat], Len(sizes) = k
  PROVE  /\ \A j \in 1..(k + 1) : Offsets(first, sizes)[j] \in Nat
         /\ \A i, j \in 1..(k + 1) :
              i <= j => Offsets(first, sizes)[i] <= Offsets(first, sizes)[j]
<1> DEFINE at == Offsets(first, sizes)
<1>1. at[1] = first /\ EndToEnd(at, sizes, k)
  BY OffsetsFollow
<1> HIDE DEF at
<1>2. \A j \in 1..k : at[j + 1] = at[j] + sizes[j]
  BY <1>1 DEF EndToEnd
<1>3. \A j \in 1..(k + 1) : at[j] \in Nat
  <2> DEFINE P == {j \in 1..(k + 1) : at[j] \in Nat}
  <2>1. 1 \in P
    BY <1>1
  <2>2. ASSUME NEW j \in 1..k, j \in P PROVE j + 1 \in P
    BY <1>2, <2>2
  <2>3. 1..(k + 1) \subseteq P
    <3> HIDE DEF P
    <3> QED
      BY <2>1, <2>2, UpTo
  <2> QED
    BY <2>3
<1>4. ASSUME NEW i \in 1..(k + 1), NEW j \in 1..(k + 1), i <= j PROVE at[i] <= at[j]
  <2> DEFINE P == {n \in 1..(k + 1) : i <= n => at[i] <= at[n]}
  <2>1. 1 \in P
    BY <1>3
  <2>2. ASSUME NEW n \in 1..k, n \in P PROVE n + 1 \in P
    <3>1. n \in 1..(k + 1) /\ n + 1 \in 1..(k + 1)
      OBVIOUS
    <3>2. /\ at[n] \in Nat /\ at[i] \in Nat /\ sizes[n] \in Nat
          /\ at[n + 1] = at[n] + sizes[n]
      BY <1>2, <1>3, <3>1
    <3>3. CASE i <= n
      <4>1. at[i] <= at[n]
        BY <2>2, <3>3
      <4> QED
        BY <3>1, <3>2, <4>1
    <3>4. CASE ~(i <= n)
      <4>1. i <= n + 1 => i = n + 1
        BY <3>4
      <4> QED
        BY <1>3, <3>1, <4>1
    <3> QED
      BY <3>3, <3>4
  <2>3. 1..(k + 1) \subseteq P
    <3> HIDE DEF P
    <3> QED
      BY <2>1, <2>2, UpTo
  <2> QED
    BY <1>4, <2>3
<1> QED
  BY <1>3, <1>4 DEF at

----------------------------------------------------------------------------
(***************************************************************************)
(* Payloads that are lists of items.                                       *)
(***************************************************************************)

(* The numbers of a format.                                                *)
FormatOK(fmt) ==
  /\ fmt.pre \in Nat /\ fmt.first \in Nat /\ fmt.head \in Nat
  /\ \A tag \in DOMAIN fmt.uses : fmt.uses[tag] \in Nat

(* A format with values of an exact size.                                  *)
ExactOK(fmt) == "role" \notin DOMAIN fmt.uses /\ \A tag \in DOMAIN fmt.uses : fmt.uses[tag] = 2

(* Only the lenient formats use half a value, and COTP two bytes of one.   *)
LEMMA FormatsOK ==
  ASSUME NEW p \in DOMAIN Format
  PROVE  /\ FormatOK(Format[p])
         /\ Format[p].whole \/ p \in Lenient \/ Format[p].exact
         /\ Format[p].exact => p = "cotp" /\ ExactOK(Format[p])
<1>1. p \in {"lldp", "modbus", "dhcp", "dcp", "cotp", "szl", "enip", "cip"}
  BY DEF Format
<1>2. CASE p = "lldp"
  <2>1. Format[p] = Lldp
    BY <1>2 DEF Format
  <2> QED
    BY <2>1 DEF Lldp, FormatOK
<1>3. CASE p = "modbus"
  <2>1. Format[p] = Modbus
    BY <1>3 DEF Format
  <2> QED
    BY <2>1 DEF Modbus, FormatOK
<1>4. CASE p = "dhcp"
  <2>1. Format[p] = Dhcp
    BY <1>4 DEF Format
  <2> QED
    BY <1>4, <2>1 DEF Dhcp, FormatOK, Lenient
<1>5. CASE p = "dcp"
  <2>1. Format[p] = Dcp
    BY <1>5 DEF Format
  <2> QED
    BY <1>5, <2>1 DEF Dcp, FormatOK, Lenient
<1>6. CASE p = "cotp"
  <2>1. Format[p] = Cotp
    BY <1>6 DEF Format
  <2> QED
    BY <1>6, <2>1 DEF Cotp, FormatOK, ExactOK
<1>7. CASE p = "szl"
  <2>1. Format[p] = Szl
    BY <1>7 DEF Format
  <2> QED
    BY <2>1 DEF Szl, FormatOK
<1>8. CASE p = "enip"
  <2>1. Format[p] = Enip
    BY <1>8 DEF Format
  <2> QED
    BY <1>8, <2>1 DEF Enip, FormatOK, Lenient
<1>9. CASE p = "cip"
  <2>1. Format[p] = Identity
    BY <1>9 DEF Format
  <2> QED
    BY <1>9, <2>1 DEF Identity, FormatOK, Lenient
<1> QED
  BY <1>1, <1>2, <1>3, <1>4, <1>5, <1>6, <1>7, <1>8, <1>9

(* A frame whose payload is a list of items, which is not empty.           *)
Itemized(f) ==
  f.proto \in DOMAIN Format /\ f.items \in Seq([tag : STRING, size : Nat]) \ {<<>>}

(* Items begin one behind the other.                                       *)
LEMMA ItemsFollow ==
  ASSUME NEW f, Itemized(f)
  PROVE  /\ Len(f.items) \in Nat \ {0} /\ DOMAIN f.items = 1..Len(f.items)
         /\ \A i \in 1..Len(f.items) :
              /\ f.items[i].size \in Nat
              /\ Begins(f, i) \in Nat
         /\ \A i, j \in 1..Len(f.items) :
              i < j => Begins(f, i) + Format[f.proto].head + f.items[i].size <= Begins(f, j)
<1> DEFINE fmt == Format[f.proto]
           k == Len(f.items)
           padding(j) == IF fmt.even THEN f.items[j].size % 2 ELSE 0
           sizes == [j \in 1..k |-> fmt.head + f.items[j].size + padding(j)]
<1>1. k \in Nat \ {0} /\ DOMAIN f.items = 1..k
  <2>1. f.items \in Seq([tag : STRING, size : Nat]) /\ f.items # <<>>
    BY DEF Itemized
  <2> DEFINE items == f.items
  <2>2. items \in Seq([tag : STRING, size : Nat]) /\ items # <<>>
    BY <2>1
  <2> HIDE DEF items
  <2>3. Len(items) \in Nat /\ Len(items) # 0 /\ DOMAIN items = 1..Len(items)
    BY <2>2
  <2> QED
    BY <2>3 DEF items
<1>2. \A j \in 1..k : f.items[j].size \in Nat
  <2>1. f.items \in Seq([tag : STRING, size : Nat])
    BY DEF Itemized
  <2>2. \A j \in 1..k : f.items[j] \in [tag : STRING, size : Nat]
    BY <2>1, <1>1, ElementOfSeq
  <2> QED
    BY <2>2
<1>3. fmt.first \in Nat /\ fmt.head \in Nat
  BY FormatsOK DEF FormatOK, Itemized
<1>4. \A j \in 1..k : padding(j) \in Nat
  BY <1>2
<1>5. \A i : Begins(f, i) = Offsets(fmt.first, sizes)[i]
  BY DEF Begins
<1> HIDE DEF fmt, k, padding
<1>6. sizes \in [1..k -> Nat] /\ Len(sizes) = k
  <2>1. sizes \in [1..k -> Nat]
    BY <1>2, <1>3, <1>4
  <2>2. DOMAIN sizes = 1..k /\ sizes \in Seq(Nat)
    BY <1>1, <2>1
  <2>3. Len(sizes) = k
    <3> HIDE DEF sizes
    <3> QED
      BY <1>1, <2>1, <2>2
  <2> QED
    BY <2>1, <2>3
<1>7. \A j \in 1..k : sizes[j] = fmt.head + f.items[j].size + padding(j)
  OBVIOUS
<1> HIDE DEF sizes
<1> DEFINE at == Offsets(fmt.first, sizes)
<1>8. /\ EndToEnd(at, sizes, k)
      /\ \A j \in 1..(k + 1) : at[j] \in Nat
      /\ \A i, j \in 1..(k + 1) : i <= j => at[i] <= at[j]
  <2> DEFINE first == fmt.first
  <2>1. first \in Nat /\ k \in Nat /\ sizes \in [1..k -> Nat] /\ Len(sizes) = k
    BY <1>1, <1>3, <1>6
  <2> HIDE DEF first
  <2>2. EndToEnd(Offsets(first, sizes), sizes, k)
    BY <2>1, OffsetsFollow
  <2>3. \A j \in 1..(k + 1) : Offsets(first, sizes)[j] \in Nat
    BY <2>1, OffsetsGrow
  <2>4. \A i, j \in 1..(k + 1) :
          i <= j => Offsets(first, sizes)[i] <= Offsets(first, sizes)[j]
    BY <2>1, OffsetsGrow
  <2> QED
    BY <2>2, <2>3, <2>4 DEF first
<1> HIDE DEF at
<1>9. \A i \in 1..k : at[i] \in Nat
  BY <1>1, <1>8
<1>10. ASSUME NEW i \in 1..k, NEW j \in 1..k, i < j
       PROVE  at[i] + fmt.head + f.items[i].size <= at[j]
  <2>1. i + 1 \in 1..(k + 1) /\ j \in 1..(k + 1) /\ i + 1 <= j
    BY <1>1, <1>10
  <2>2. at[i + 1] <= at[j]
    BY <1>8, <2>1
  <2>3. at[i + 1] = at[i] + (fmt.head + f.items[i].size + padding(i))
    BY <1>7, <1>8 DEF EndToEnd
  <2>4. /\ at[i] \in Nat /\ at[j] \in Nat /\ padding(i) \in Nat
        /\ f.items[i].size \in Nat /\ fmt.head \in Nat
    BY <1>2, <1>3, <1>4, <1>9
  <2> QED
    BY <2>2, <2>3, <2>4
<1> QED
  BY <1>1, <1>2, <1>5, <1>9, <1>10 DEF at, fmt, k

(* Where an item begins depends on the protocol and the items only.        *)
BeginsIn(proto, items, i) ==
  LET fmt == Format[proto]
      padding(j) == IF fmt.even THEN items[j].size % 2 ELSE 0
  IN Offsets(fmt.first, [j \in 1..Len(items) |-> fmt.head + items[j].size + padding(j)])[i]

LEMMA SameItems ==
  ASSUME NEW f, NEW g, g.proto = f.proto, g.items = f.items, NEW i
  PROVE  Begins(g, i) = Begins(f, i)
<1>1. Begins(f, i) = BeginsIn(f.proto, f.items, i)
  BY DEF Begins, BeginsIn
<1>2. Begins(g, i) = BeginsIn(g.proto, g.items, i)
  BY DEF Begins, BeginsIn
<1> QED
  BY <1>1, <1>2

(* The end of the last item.                                               *)
LastEnd(f) ==
  Begins(f, Len(f.items)) + Format[f.proto].head + f.items[Len(f.items)].size

LEMMA LastEndIsNumber ==
  ASSUME NEW f, Itemized(f)
  PROVE  LastEnd(f) \in Nat
<1> DEFINE k == Len(f.items)
           last == f.items[k].size
           head == Format[f.proto].head
<1>1. LastEnd(f) = Begins(f, k) + head + last
  BY DEF LastEnd
<1>2. k \in 1..k
  BY ItemsFollow
<1>3. Begins(f, k) \in Nat /\ last \in Nat
  BY <1>2, ItemsFollow
<1>4. head \in Nat
  BY FormatsOK DEF FormatOK, Itemized
<1> HIDE DEF k, last, head
<1> QED
  BY <1>1, <1>3, <1>4

(* What a list of items says when all of it is there.                      *)
LEMMA WholeItems ==
  ASSUME NEW f, Itemized(f), NEW i \in 1..Len(f.items)
  PROVE  /\ Begins(f, i) + Format[f.proto].head <= LastEnd(f)
         /\ Got(f, i, LastEnd(f)) = f.items[i].size
<1> DEFINE head == Format[f.proto].head
           k == Len(f.items)
           size == f.items[i].size
           last == f.items[k].size
<1>1. /\ k \in Nat \ {0} /\ size \in Nat /\ last \in Nat
      /\ Begins(f, i) \in Nat /\ Begins(f, k) \in Nat
  <2>1. k \in Nat \ {0}
    BY ItemsFollow
  <2>2. k \in 1..k
    BY <2>1
  <2> QED
    BY <2>1, <2>2, ItemsFollow
<1>2. head \in Nat
  BY FormatsOK DEF FormatOK, Itemized
<1>3. LastEnd(f) = Begins(f, k) + head + last
  BY DEF LastEnd
<1>4. i # k => Begins(f, i) + head + size <= Begins(f, k)
  <2>1. i # k => i < k /\ k \in 1..k
    BY <1>1
  <2> QED
    BY <2>1, ItemsFollow
<1>5. i = k => Begins(f, i) = Begins(f, k) /\ size = last
  OBVIOUS
<1>6. Got(f, i, LastEnd(f)) = least(size, minus(LastEnd(f), Begins(f, i) + head))
  BY DEF Got
<1> HIDE DEF head, k, size, last
<1>7. Begins(f, i) + head + size <= LastEnd(f) /\ LastEnd(f) \in Nat
  <2>1. CASE i = k
    BY <1>1, <1>2, <1>3, <1>5, <2>1
  <2>2. CASE i # k
    BY <1>1, <1>2, <1>3, <1>4, <2>2
  <2> QED
    BY <2>1, <2>2
<1>8. Begins(f, i) + head <= LastEnd(f)
  BY <1>1, <1>2, <1>7
<1>9. least(size, minus(LastEnd(f), Begins(f, i) + head)) = size
  BY <1>1, <1>2, <1>7 DEF least, minus
<1> QED
  BY <1>6, <1>8, <1>9 DEF head, size

(* The items that say something, of the first n bytes.                     *)
UsedItems(f, n) ==
  LET fmt == Format[f.proto]
  IN {i \in DOMAIN f.items :
        /\ i <= fmt.most /\ Begins(f, i) + fmt.head <= n
        /\ f.items[i].tag \in DOMAIN fmt.uses
        /\ Used(fmt, f.items[i], Got(f, i, n))}

(* What is said of the sender's role.                                      *)
RoleClaim(f, n) ==
  Claim("role", 0, IF \E i \in UsedItems(f, n) : f.items[i].tag = "role" THEN 1 ELSE 0)

LEMMA WhatItemsSay ==
  ASSUME NEW f, NEW n, NEW c
  PROVE  c \in ItemClaims(f, n) <=>
           /\ ~(n < Format[f.proto].pre)
           /\ \/ Format[f.proto].role /\ c = RoleClaim(f, n)
              \/ \E i \in UsedItems(f, n) :
                   /\ f.items[i].tag # "role"
                   /\ c = Claim(f.items[i].tag, i, Got(f, i, n))
BY Zenon DEF ItemClaims, UsedItems, RoleClaim

(* Of a longer TSAP two bytes are there.                                   *)
CutExact(f, i, n) ==
  /\ f.proto = "cotp" /\ f.items[i].tag # "role"
  /\ Got(f, i, n) = 2 /\ Got(f, i, n) < f.items[i].size

(***************************************************************************)
(* An item that says something of a cut frame says it of the whole one: as *)
(* much, or, if the format takes what there is, it is the last that does.  *)
(* Or it is the last, and says something because it is cut.                *)
(***************************************************************************)
LEMMA UsedStays ==
  ASSUME NEW f, NEW g, Itemized(f), g.proto = f.proto, g.items = f.items,
         NEW n \in Nat, NEW i \in UsedItems(f, n)
  PROVE  /\ i \in 1..Len(f.items)
         /\ Got(g, i, LastEnd(g)) = f.items[i].size
         /\ i \in UsedItems(g, LastEnd(g)) \/ CutExact(f, i, n)
         /\ \/ Got(f, i, n) = f.items[i].size
            \/ /\ Got(f, i, n) < f.items[i].size /\ (f.proto \in Lenient \/ CutExact(f, i, n))
               /\ \A j \in UsedItems(f, n) : j <= i
<1> DEFINE fmt == Format[f.proto]
           size == f.items[i].size
           from == Begins(f, i) + fmt.head
<1>1. Itemized(g)
  BY DEF Itemized
<1>2. i \in DOMAIN f.items /\ i \in 1..Len(f.items)
  BY ItemsFollow DEF UsedItems
<1>3. /\ i <= fmt.most /\ from <= n
      /\ f.items[i].tag \in DOMAIN fmt.uses
      /\ Used(fmt, f.items[i], Got(f, i, n))
  BY DEF UsedItems
<1>4. size \in Nat /\ from \in Nat
  BY <1>2, ItemsFollow, FormatsOK DEF FormatOK, Itemized
<1>5. fmt.uses[f.items[i].tag] \in Nat
  BY <1>3, FormatsOK DEF FormatOK, Itemized
<1>6. /\ fmt.whole \/ f.proto \in Lenient \/ fmt.exact
      /\ fmt.exact => f.proto = "cotp" /\ ExactOK(fmt)
  BY FormatsOK DEF Itemized
<1>7. Got(f, i, n) = least(size, minus(n, from))
  BY DEF Got
<1>8. /\ Got(f, i, n) >= fmt.uses[f.items[i].tag]
      /\ fmt.whole => Got(f, i, n) = size
      /\ fmt.exact => Got(f, i, n) = fmt.uses[f.items[i].tag]
  BY <1>3 DEF Used
<1>9. Got(g, i, LastEnd(g)) = size /\ Begins(g, i) + fmt.head <= LastEnd(g)
  BY <1>1, <1>2, WholeItems
<1>10. ASSUME fmt.exact, Got(f, i, n) < size PROVE CutExact(f, i, n)
  <2>1. f.proto = "cotp" /\ f.items[i].tag # "role" /\ Got(f, i, n) = 2
    BY <1>3, <1>6, <1>8, <1>10 DEF ExactOK
  <2> QED
    BY <1>10, <2>1 DEF CutExact
<1>11. ASSUME ~CutExact(f, i, n) PROVE i \in UsedItems(g, LastEnd(g))
  <2>1. Got(f, i, n) \in Nat /\ Got(f, i, n) <= size
    <3> HIDE DEF size, from
    <3> QED
      BY <1>3, <1>4, <1>7 DEF least, minus
  <2>2. size >= fmt.uses[f.items[i].tag]
    <3> DEFINE got == Got(f, i, n)
               need == fmt.uses[f.items[i].tag]
    <3>1. got \in Nat /\ got <= size /\ got >= need /\ need \in Nat
      BY <1>5, <1>8, <2>1
    <3> HIDE DEF got, need, size
    <3>2. size >= need
      BY <1>4, <3>1
    <3> QED
      BY <3>2 DEF need
  <2>3. fmt.exact => size = Got(f, i, n)
    <3> HIDE DEF size
    <3> QED
      BY <1>4, <1>11, <1>10, <2>1 DEF size
  <2>4. Used(fmt, f.items[i], Got(g, i, LastEnd(g)))
    BY <1>8, <1>9, <2>2, <2>3 DEF Used
  <2> QED
    BY <1>2, <1>3, <1>9, <2>4 DEF UsedItems
<1>12. ASSUME NEW j \in UsedItems(f, n), i < j
       PROVE  size <= minus(n, from)
  <2>1. j \in 1..Len(f.items) /\ Begins(f, j) + fmt.head <= n
    BY ItemsFollow DEF UsedItems
  <2>2. from + size <= Begins(f, j)
    BY <1>2, <1>12, <2>1, ItemsFollow
  <2>3. Begins(f, j) \in Nat /\ fmt.head \in Nat
    BY <2>1, ItemsFollow, FormatsOK DEF FormatOK, Itemized
  <2> HIDE DEF size, from, fmt
  <2> QED
    BY <1>3, <1>4, <2>1, <2>2, <2>3 DEF minus
<1>13. ASSUME Got(f, i, n) # size
       PROVE  /\ Got(f, i, n) < size /\ (f.proto \in Lenient \/ CutExact(f, i, n))
              /\ \A j \in UsedItems(f, n) : j <= i
  <2>1. Got(f, i, n) < size /\ ~(size <= minus(n, from))
    <3> HIDE DEF size, from
    <3> QED
      BY <1>3, <1>4, <1>7, <1>13 DEF least, minus
  <2>2. f.proto \in Lenient \/ CutExact(f, i, n)
    BY <1>6, <1>8, <1>13, <1>10, <2>1
  <2>3. ASSUME NEW j \in UsedItems(f, n) PROVE j <= i
    <3>1. j \in 1..Len(f.items) /\ Len(f.items) \in Nat
      BY ItemsFollow DEF UsedItems
    <3>2. ~(i < j)
      BY <1>12, <2>1
    <3> QED
      BY <1>2, <3>1, <3>2
  <2> QED
    BY <2>1, <2>2, <2>3
<1> QED
  BY <1>2, <1>9, <1>11, <1>13

(* What one claim of a cut frame has to do with one of the whole frame.    *)
NoMore(f, said, c, d) ==
  /\ c.what = d.what /\ c.item = d.item
  /\ \/ c.got = d.got
     \/ c.got < d.got /\ c.what \in {"transport", "role", "source"}
     \/ /\ c.got < d.got /\ f.proto \in Lenient
        /\ \A e \in said : e.item <= c.item

(* A claim that only the cut makes, the last one.                          *)
MadeUp(f, said, c) == CutTsap(f, c) /\ \A e \in said : e.item <= c.item

(* A cut list of items says no more than the whole one.                    *)
LEMMA ItemsSayNoMore ==
  ASSUME NEW f, NEW g, Itemized(f), g.proto = f.proto, g.items = f.items,
         NEW n \in Nat, n <= LastEnd(g), NEW c \in ItemClaims(f, n)
  PROVE  /\ c.item \in Nat
         /\ \/ MadeUp(f, ItemClaims(f, n), c)
            \/ \E d \in ItemClaims(g, LastEnd(g)) : NoMore(f, ItemClaims(f, n), c, d)
<1> DEFINE said == ItemClaims(f, n)
           whole == ItemClaims(g, LastEnd(g))
<1>0. \A what, item, got : /\ Claim(what, item, got).what = what
                           /\ Claim(what, item, got).item = item
                           /\ Claim(what, item, got).got = got
  BY DEF Claim
<1>1. ~(LastEnd(g) < Format[g.proto].pre)
  <2>1. ~(n < Format[g.proto].pre)
    BY WhatItemsSay
  <2>2. Format[g.proto].pre \in Nat
    BY FormatsOK DEF FormatOK, Itemized
  <2>3. LastEnd(g) \in Nat
    <3>1. Itemized(g)
      BY DEF Itemized
    <3> QED
      BY <3>1, LastEndIsNumber
  <2> QED
    BY <2>1, <2>2, <2>3
<1>2. CASE Format[f.proto].role /\ c = RoleClaim(f, n)
  <2> DEFINE d == RoleClaim(g, LastEnd(g))
  <2>1. d \in whole
    BY <1>1, <1>2, WhatItemsSay
  <2>2. c.what = "role" /\ d.what = "role" /\ c.item = 0 /\ d.item = 0
    BY <1>0, <1>2 DEF RoleClaim
  <2>3. c.got = d.got \/ c.got < d.got
    <3>1. /\ c.got = IF \E i \in UsedItems(f, n) : f.items[i].tag = "role" THEN 1 ELSE 0
          /\ d.got = IF \E i \in UsedItems(g, LastEnd(g)) : g.items[i].tag = "role"
                     THEN 1 ELSE 0
      BY <1>0, <1>2 DEF RoleClaim
    <3>2. (\E i \in UsedItems(f, n) : f.items[i].tag = "role")
            => \E i \in UsedItems(g, LastEnd(g)) : g.items[i].tag = "role"
      BY UsedStays DEF CutExact
    <3> QED
      BY <3>1, <3>2
  <2>4. NoMore(f, said, c, d)
    BY <2>2, <2>3 DEF NoMore
  <2> QED
    BY <2>1, <2>2, <2>4
<1>3. ASSUME NEW i \in UsedItems(f, n), f.items[i].tag # "role",
             c = Claim(f.items[i].tag, i, Got(f, i, n))
      PROVE  /\ c.item \in Nat
             /\ MadeUp(f, said, c) \/ \E d \in whole : NoMore(f, said, c, d)
  <2> DEFINE d == Claim(g.items[i].tag, i, Got(g, i, LastEnd(g)))
  <2>1. /\ i \in 1..Len(f.items)
        /\ Got(g, i, LastEnd(g)) = f.items[i].size
        /\ i \in UsedItems(g, LastEnd(g)) \/ CutExact(f, i, n)
        /\ \/ Got(f, i, n) = f.items[i].size
           \/ /\ Got(f, i, n) < f.items[i].size /\ (f.proto \in Lenient \/ CutExact(f, i, n))
              /\ \A j \in UsedItems(f, n) : j <= i
    BY UsedStays
  <2>2. i \in UsedItems(g, LastEnd(g)) => d \in whole
    BY <1>1, <1>3, WhatItemsSay
  <2>3. /\ c.what = d.what /\ c.item = i /\ d.item = i
        /\ c.got = Got(f, i, n) /\ d.got = Got(g, i, LastEnd(g))
    BY <1>0, <1>3
  <2>4. i \in Nat /\ 0 <= i
    BY <2>1, ItemsFollow
  <2>5. ASSUME \A j \in UsedItems(f, n) : j <= i, NEW e \in said PROVE e.item <= i
    <3>1. e.item = 0 \/ \E j \in UsedItems(f, n) : e.item = j
      BY <1>0, WhatItemsSay DEF RoleClaim
    <3> QED
      BY <2>4, <2>5, <3>1
  <2> HIDE DEF said, d, whole
  <2>6. CASE CutExact(f, i, n)
    <3>1. CutTsap(f, c)
      BY <2>1, <2>3, <2>6, ItemsFollow DEF CutExact, CutTsap
    <3>2. \A j \in UsedItems(f, n) : j <= i
      BY <2>1, <2>6, ItemsFollow DEF CutExact
    <3>3. \A e \in said : e.item <= c.item
      BY <2>3, <2>5, <3>2
    <3> QED
      BY <2>3, <2>4, <3>1, <3>3 DEF MadeUp
  <2>7. CASE ~CutExact(f, i, n)
    <3>1. NoMore(f, said, c, d)
      BY <2>1, <2>3, <2>5, <2>7 DEF NoMore
    <3> QED
      BY <2>1, <2>2, <2>3, <2>4, <2>7, <3>1
  <2> QED
    BY <2>6, <2>7
<1> QED
  BY <1>2, <1>3, WhatItemsSay

----------------------------------------------------------------------------
(***************************************************************************)
(* Payloads whose claims are made one after the other.                     *)
(***************************************************************************)

(* A list of parts with their sizes.                                       *)
PartList(parts) ==
  /\ Len(parts) \in Nat /\ DOMAIN parts = 1..Len(parts)
  /\ \A j \in 1..Len(parts) : parts[j].size \in Nat

(* The ends of the parts are numbers.                                      *)
LEMMA EndsAreNumbers ==
  ASSUME NEW parts, PartList(parts), NEW k \in 0..Len(parts)
  PROVE  Ends(parts, k) \in Nat
<1> DEFINE sizes == [j \in 1..Len(parts) |-> parts[j].size]
<1>1. Len(parts) \in Nat /\ DOMAIN parts = 1..Len(parts)
  BY DEF PartList
<1>2. sizes \in [1..Len(parts) -> Nat]
  BY DEF PartList
<1>3. Len(sizes) = Len(parts)
  <2>1. DOMAIN sizes = 1..Len(parts) /\ sizes \in Seq(Nat)
    BY <1>1, <1>2
  <2> HIDE DEF sizes
  <2> QED
    BY <1>1, <1>2, <2>1
<1>4. Ends(parts, k) = Offsets(0, sizes)[k + 1]
  BY DEF Ends
<1> HIDE DEF sizes
<1>5. 0 \in Nat /\ k + 1 \in 1..(Len(parts) + 1)
  BY <1>1
<1> QED
  BY <1>1, <1>2, <1>3, <1>4, <1>5, OffsetsGrow

(* What is said of a message that ends early is said of all of it.         *)
LEMMA TurnSaysNoMore ==
  ASSUME NEW parts, PartList(parts), NEW bad, NEW n \in Nat, NEW m \in Nat, n <= m,
         NEW c \in InTurn(parts, bad, n)
  PROVE  c.item \in Nat /\ c \in InTurn(parts, 0, m)
<1>1. Len(parts) \in Nat /\ DOMAIN parts = 1..Len(parts)
  BY DEF PartList
<1>2. \A k \in 1..Len(parts) : Ends(parts, k) \in Nat
  <2>1. \A k \in 1..Len(parts) : k \in 0..Len(parts)
    BY <1>1
  <2> QED
    BY <2>1, EndsAreNumbers
<1>3. PICK k \in DOMAIN parts :
        /\ Ends(parts, k) <= n
        /\ \E what \in parts[k].says : c = Claim(what, k, 0)
  BY DEF InTurn
<1>4. Ends(parts, k) <= m
  BY <1>1, <1>2, <1>3
<1>5. c \in InTurn(parts, 0, m)
  <2>1. PICK what \in parts[k].says : c = Claim(what, k, 0)
    BY <1>3
  <2> DEFINE said == <<what, k>>
  <2>2. said[1] = what /\ said[2] = k /\ said \in parts[k].says \X {k}
    OBVIOUS
  <2>3. k \in {j \in DOMAIN parts : Ends(parts, j) <= m /\ (0 = 0 \/ j < 0)}
    BY <1>3, <1>4
  <2> HIDE DEF said
  <2> QED
    BY <2>1, <2>2, <2>3 DEF InTurn
<1>6. c.item = k
  BY <1>3 DEF Claim
<1> QED
  BY <1>1, <1>5, <1>6

(* Parts one after the other.                                              *)
LEMMA PartLists ==
  /\ \A a \in Nat : \A x : PartList(<<Part(a, x)>>)
  /\ \A a, b \in Nat : \A x, y : PartList(<<Part(a, x), Part(b, y)>>)
  /\ \A a, b, c \in Nat : \A x, y, z : PartList(<<Part(a, x), Part(b, y), Part(c, z)>>)
BY DEF PartList, Part

(* The parts of a DNP3 message, and of each OPC UA message.                *)
LEMMA Dnp3Parts == PartList(Dnp3)
BY PartLists DEF Dnp3

LEMMA OpcUaParts ==
  ASSUME NEW kind \in DOMAIN OpcUa
  PROVE  PartList(OpcUa[kind])
<1>1. /\ Text \in Nat /\ RequestHeader \in Nat /\ ResponseHeader \in Nat
      /\ Application \in Nat /\ Endpoint \in Nat /\ NodeId \in Nat
      /\ OpcUaHeader \in Nat /\ MsgHeader \in Nat
  BY DEF TextSize, Text, NodeId, NoObject, RequestHeader, ResponseHeader, Application,
         Endpoint, OpcUaHeader, MsgHeader
<1>2. kind \in {"hello", "acknowledge", "openChannel", "createSession", "sessionCreated",
                "getEndpoints", "endpoints", "servers", "activate"}
  BY DEF OpcUa
<1>3. CASE kind = "hello"
  <2> DEFINE size == OpcUaHeader + 20 + Text
             says == {"client", "peer is server", "peer endpoint", "peer host"}
  <2>1. OpcUa[kind] = <<Part(size, says)>>
    BY <1>3 DEF OpcUa
  <2>2. size \in Nat
    BY <1>1
  <2> HIDE DEF size, says
  <2> QED
    BY <2>1, <2>2, PartLists
<1>4. CASE kind = "acknowledge"
  <2> DEFINE size == OpcUaHeader
             says == {"server"}
  <2>1. OpcUa[kind] = <<Part(size, says)>>
    BY <1>4 DEF OpcUa
  <2>2. size \in Nat
    BY <1>1
  <2> HIDE DEF size, says
  <2> QED
    BY <2>1, <2>2, PartLists
<1>5. CASE kind = "openChannel"
  <2> DEFINE size1 == OpcUaHeader + 4 + 3 * Text
             says1 == {"policy", "certificate"}
             size2 == 8 + NodeId
             says2 == {"client"}
  <2>1. OpcUa[kind] = <<Part(size1, says1), Part(size2, says2)>>
    BY <1>5 DEF OpcUa
  <2>2. size1 \in Nat /\ size2 \in Nat
    BY <1>1
  <2> HIDE DEF size1, says1, size2, says2
  <2> QED
    BY <2>1, <2>2, PartLists
<1>6. CASE kind = "createSession"
  <2> DEFINE size == MsgHeader + RequestHeader + Application + 3 * Text
             says == {"client", "peer is server", "peer endpoint", "peer host",
                        "peer uri", "session"} \cup ApplicationSays
  <2>1. OpcUa[kind] = <<Part(size, says)>>
    BY <1>6 DEF OpcUa
  <2>2. size \in Nat
    BY <1>1
  <2> HIDE DEF size, says
  <2> QED
    BY <2>1, <2>2, PartLists
<1>7. CASE kind = "sessionCreated"
  <2> DEFINE size == MsgHeader + ResponseHeader + 2 * NodeId + 8 + 2 * Text + 4 + 2 * Endpoint
             says == {"server"} \cup EndpointsSay
  <2>1. OpcUa[kind] = <<Part(size, says)>>
    BY <1>7 DEF OpcUa
  <2>2. size \in Nat
    BY <1>1
  <2> HIDE DEF size, says
  <2> QED
    BY <2>1, <2>2, PartLists
<1>8. CASE kind = "getEndpoints"
  <2> DEFINE size == MsgHeader + RequestHeader + Text
             says == {"client", "peer is server", "peer endpoint"}
  <2>1. OpcUa[kind] = <<Part(size, says)>>
    BY <1>8 DEF OpcUa
  <2>2. size \in Nat
    BY <1>1
  <2> HIDE DEF size, says
  <2> QED
    BY <2>1, <2>2, PartLists
<1>9. CASE kind = "endpoints"
  <2> DEFINE size == MsgHeader + ResponseHeader + 4 + 2 * Endpoint
             says == {"server"} \cup EndpointsSay
  <2>1. OpcUa[kind] = <<Part(size, says)>>
    BY <1>9 DEF OpcUa
  <2>2. size \in Nat
    BY <1>1
  <2> HIDE DEF size, says
  <2> QED
    BY <2>1, <2>2, PartLists
<1>10. CASE kind = "servers"
  <2> DEFINE size == MsgHeader + ResponseHeader + 4 + 2 * Application
             says == {"server"} \cup ApplicationSays
  <2>1. OpcUa[kind] = <<Part(size, says)>>
    BY <1>10 DEF OpcUa
  <2>2. size \in Nat
    BY <1>1
  <2> HIDE DEF size, says
  <2> QED
    BY <2>1, <2>2, PartLists
<1>11. CASE kind = "activate"
  <2> DEFINE size1 == MsgHeader + RequestHeader + 2 * Text + 4 + 4 + NodeId + 1 + 4 + 2 * Text
             says1 == {"client"}
             size2 == 0
             says2 == {"authentication"}
  <2>1. OpcUa[kind] = <<Part(size1, says1), Part(size2, says2)>>
    BY <1>11 DEF OpcUa
  <2>2. size1 \in Nat /\ size2 \in Nat
    BY <1>1
  <2> HIDE DEF size1, says1, size2, says2
  <2> QED
    BY <2>1, <2>2, PartLists
<1> QED
  BY <1>2, <1>3, <1>4, <1>5, <1>6, <1>7, <1>8, <1>9, <1>10, <1>11

----------------------------------------------------------------------------
(***************************************************************************)
(* DNS replies.                                                            *)
(***************************************************************************)

(* The records of a DNS reply.                                             *)
Records(items) == items \in Seq([tag : STRING, name : Nat, size : Nat])

(* Where a record begins depends on the records only.                      *)
DnsBeginsIn(items, i) ==
  Offsets(12, [j \in 1..Len(items) |->
                 items[j].name + (IF j = 1 THEN 4 ELSE 10) + items[j].size])[i]

LEMMA SameRecords ==
  ASSUME NEW f, NEW g, g.items = f.items, NEW i
  PROVE  DnsBegins(g, i) = DnsBegins(f, i)
<1>1. DnsBegins(f, i) = DnsBeginsIn(f.items, i)
  BY DEF DnsBegins, DnsBeginsIn
<1>2. DnsBegins(g, i) = DnsBeginsIn(g.items, i)
  BY DEF DnsBegins, DnsBeginsIn
<1> QED
  BY <1>1, <1>2

(* Records begin one behind the other, behind the header.                  *)
LEMMA RecordsFollow ==
  ASSUME NEW f, Records(f.items)
  PROVE  /\ Len(f.items) \in Nat /\ DOMAIN f.items = 1..Len(f.items)
         /\ \A i \in 1..(Len(f.items) + 1) :
              /\ DnsBegins(f, i) \in Nat /\ 12 <= DnsBegins(f, i)
              /\ DnsBegins(f, i) <= DnsBegins(f, Len(f.items) + 1)
<1> DEFINE k == Len(f.items)
           size(j) == f.items[j].name + (IF j = 1 THEN 4 ELSE 10) + f.items[j].size
           sizes == [j \in 1..k |-> size(j)]
<1>1. k \in Nat /\ DOMAIN f.items = 1..k
  <2>1. f.items \in Seq([tag : STRING, name : Nat, size : Nat])
    BY DEF Records
  <2> QED
    BY <2>1
<1>2. \A j \in 1..k : size(j) \in Nat
  <2>1. f.items \in Seq([tag : STRING, name : Nat, size : Nat])
    BY DEF Records
  <2>2. \A j \in 1..k : f.items[j] \in [tag : STRING, name : Nat, size : Nat]
    BY <1>1, <2>1, ElementOfSeq
  <2> QED
    BY <2>2
<1>3. \A i : DnsBegins(f, i) = Offsets(12, sizes)[i]
  BY DEF DnsBegins
<1> HIDE DEF size, k
<1>4. sizes \in [1..k -> Nat] /\ Len(sizes) = k
  <2>1. sizes \in [1..k -> Nat]
    BY <1>2
  <2>2. DOMAIN sizes = 1..k /\ sizes \in Seq(Nat)
    BY <1>1, <2>1
  <2> HIDE DEF sizes
  <2> QED
    BY <1>1, <2>1, <2>2
<1> HIDE DEF sizes
<1> DEFINE at == Offsets(12, sizes)
<1>5. 12 \in Nat
  OBVIOUS
<1>6. at[1] = 12
  BY <1>1, <1>4, <1>5, OffsetsFollow
<1>7. \A j \in 1..(k + 1) : at[j] \in Nat
  BY <1>1, <1>4, <1>5, OffsetsGrow
<1>8. \A i, j \in 1..(k + 1) : i <= j => at[i] <= at[j]
  BY <1>1, <1>4, <1>5, OffsetsGrow
<1> HIDE DEF at
<1>9. \A i \in 1..(k + 1) : 12 <= at[i] /\ at[i] <= at[k + 1]
  <2> TAKE i \in 1..(k + 1)
  <2>1. 1 \in 1..(k + 1) /\ k + 1 \in 1..(k + 1) /\ 1 <= i /\ i <= k + 1
    BY <1>1
  <2> QED
    BY <1>6, <1>8, <2>1
<1> QED
  BY <1>1, <1>3, <1>7, <1>9 DEF at, k

(* A cut reply says nothing, or the addresses of the records it has; a     *)
(* whole one stops at none of its records.                                 *)
LEMMA DnsSaysNoMore ==
  ASSUME NEW f, NEW g, Records(f.items), g.items = f.items, g.bad = 0,
         NEW n \in Nat, NEW c \in DnsClaims(f, n)
  PROVE  c.item \in Nat /\ c \in DnsClaims(g, DnsBegins(f, Len(f.items) + 1))
<1> DEFINE k == Len(f.items)
           m == DnsBegins(f, k + 1)
           next == CHOOSE i \in 1..(Len(g.items) + 1) : DnsWhole(g, m) = 1..(i - 1)
<1>1. /\ k \in Nat /\ DOMAIN f.items = 1..k
      /\ \A i \in 1..(k + 1) : DnsBegins(f, i) \in Nat /\ 12 <= m /\ DnsBegins(f, i) <= m
  <2>1. k + 1 \in 1..(k + 1)
    BY RecordsFollow
  <2> QED
    BY <2>1, RecordsFollow
<1>2. PICK i \in DnsWhole(f, n) : f.items[i].tag = "address" /\ c = Claim("name", i, 0)
  BY DEF DnsClaims
<1>3. i \in 1..k
  BY <1>1 DEF DnsWhole
<1>4. DnsWhole(g, m) = 1..k
  <2>1. \A j \in 1..k : DnsBegins(g, j + 1) <= m
    <3>1. \A j \in 1..k : j + 1 \in 1..(k + 1)
      BY <1>1
    <3> QED
      BY <1>1, <3>1, SameRecords
  <2> HIDE DEF m, k
  <2> QED
    BY <1>1, <2>1 DEF DnsWhole
<1>5. next = k + 1
  <2>1. k + 1 \in 1..(k + 1) /\ DnsWhole(g, m) = 1..((k + 1) - 1)
    BY <1>1, <1>4
  <2>2. ASSUME NEW j \in 1..(k + 1), 1..k = 1..(j - 1) PROVE j = k + 1
    <3>1. j \notin 1..(j - 1)
      OBVIOUS
    <3> QED
      BY <1>1, <2>2, <3>1
  <2> HIDE DEF m
  <2> QED
    BY <1>4, <2>1, <2>2
<1>6. ~(m < 12)
  <2>1. k + 1 \in 1..(k + 1)
    BY <1>1
  <2> QED
    BY <1>1, <2>1
<1>7. ~(next <= Len(g.items)
        /\ (next = g.bad \/ DnsBegins(g, next) + g.items[next].name > m))
  <2> HIDE DEF m, next
  <2> QED
    BY <1>1, <1>5
<1>8. c \in DnsClaims(g, m)
  <2>1. i \in {j \in DnsWhole(g, m) : g.items[j].tag = "address"}
    BY <1>2, <1>3, <1>4
  <2>2. c \in {Claim("name", j, 0) : j \in {l \in DnsWhole(g, m) : g.items[l].tag = "address"}}
    BY <1>2, <2>1
  <2> HIDE DEF m
  <2> QED
    BY <1>6, <1>7, <2>2, Zenon DEF DnsClaims
<1>9. c.item = i
  BY <1>2 DEF Claim
<1> QED
  BY <1>3, <1>8, <1>9

----------------------------------------------------------------------------
(***************************************************************************)
(* Frames.                                                                 *)
(***************************************************************************)

(* A frame with all its fields decoding.                                   *)
Whole(f) == [f EXCEPT !.bad = 0]

(* It differs in nothing else.                                             *)
LEMMA SameFrame ==
  ASSUME NEW f \in Frames
  PROVE  /\ Whole(f).net = f.net /\ Whole(f).vlans = f.vlans /\ Whole(f).trans = f.trans
         /\ Whole(f).proto = f.proto /\ Whole(f).local = f.local
         /\ Whole(f).items = f.items /\ Whole(f).bad = 0
<1>1. f = [net |-> f.net, vlans |-> f.vlans, trans |-> f.trans, proto |-> f.proto,
           local |-> f.local, items |-> f.items, bad |-> f.bad]
  BY FramesAssumption DEF FramesAssumption
<1> QED
  BY <1>1 DEF Whole

(* The layers of a frame begin one behind the other.                       *)
LEMMA LayersFollow ==
  ASSUME NEW f \in Frames
  PROVE  /\ TransAt(f) \in Nat /\ PayloadAt(f) \in Nat
         /\ 14 <= TransAt(f) /\ TransAt(f) <= PayloadAt(f)
         /\ TransAt(Whole(f)) = TransAt(f) /\ PayloadAt(Whole(f)) = PayloadAt(f)
<1>1. f.net \in DOMAIN NetHeader /\ f.trans \in DOMAIN TransHeader /\ f.vlans \in Nat
  BY FramesAssumption DEF FramesAssumption
<1>2. NetHeader[f.net] \in Nat
  BY <1>1 DEF NetHeader
<1>3. TransHeader[f.trans] \in Nat
  BY <1>1 DEF TransHeader
<1> QED
  BY <1>1, <1>2, <1>3, SameFrame DEF TransAt, PayloadAt, NetAt

(* The kinds of payload, each with the items of its protocol.              *)
LEMMA PayloadKinds ==
  ASSUME NEW f \in Frames
  PROVE  \/ f.proto = "opcua" /\ f.items \in DOMAIN OpcUa
         \/ f.proto = "dns" /\ Records(f.items)
         \/ f.proto = "dnp3"
         \/ f.proto = "none"
         \/ f.proto \notin {"opcua", "dns", "dnp3", "none"} /\ Itemized(f)
<1>1. \A p \in DOMAIN Format : p \notin {"opcua", "dns", "dnp3", "none"}
  BY DEF Format
<1> QED
  BY <1>1, FramesAssumption DEF FramesAssumption, Records, Itemized

(* A cut payload says no more than the whole one.                          *)
LEMMA PayloadSaysNoMore ==
  ASSUME NEW f \in Frames
  PROVE  /\ PayloadSize(f) \in Nat
         /\ \A n \in Nat : n <= PayloadSize(f) =>
              \A c \in PayloadClaims(f, n) :
                /\ c.item \in Nat
                /\ \/ MadeUp(f, PayloadClaims(f, n), c)
                   \/ \E d \in PayloadClaims(Whole(f), PayloadSize(f)) :
                        NoMore(f, PayloadClaims(f, n), c, d)
<1> DEFINE g == Whole(f)
           m == PayloadSize(f)
<1>0. /\ g.proto = f.proto /\ g.items = f.items /\ g.bad = 0
      /\ \A said, c : NoMore(f, said, c, c)
  BY SameFrame DEF NoMore
<1> HIDE DEF g
<1>1. CASE f.proto = "opcua" /\ f.items \in DOMAIN OpcUa
  <2> DEFINE parts == OpcUa[f.items]
  <2>1. PartList(parts)
    BY <1>1, OpcUaParts
  <2>2. m = Ends(parts, Len(parts)) /\ m \in Nat
    <3>1. m = Ends(parts, Len(parts))
      BY <1>1 DEF PayloadSize
    <3>2. Len(parts) \in 0..Len(parts)
      BY <2>1 DEF PartList
    <3> QED
      BY <2>1, <3>1, <3>2, EndsAreNumbers
  <2>3. ASSUME NEW n \in Nat, n <= m, NEW c \in PayloadClaims(f, n)
        PROVE  c.item \in Nat /\ c \in PayloadClaims(g, m)
    <3>1. ~(n < OpcUaHeader) /\ c \in InTurn(parts, f.bad, n)
      BY <1>1, <2>3 DEF PayloadClaims, OpcUaClaims
    <3> HIDE DEF m, parts
    <3>2. c.item \in Nat /\ c \in InTurn(parts, 0, m)
      BY <2>1, <2>2, <2>3, <3>1, TurnSaysNoMore
    <3>3. ~(m < OpcUaHeader)
      BY <2>2, <2>3, <3>1 DEF OpcUaHeader
    <3>4. PayloadClaims(g, m) = InTurn(parts, 0, m)
      BY <1>0, <1>1, <3>3 DEF PayloadClaims, OpcUaClaims, parts
    <3> QED
      BY <3>2, <3>4
  <2> QED
    BY <1>0, <2>2, <2>3 DEF g
<1>2. CASE f.proto = "dns" /\ Records(f.items)
  <2>1. m = DnsBegins(f, Len(f.items) + 1)
    BY <1>2 DEF PayloadSize
  <2>2. m \in Nat
    <3>1. Len(f.items) + 1 \in 1..(Len(f.items) + 1)
      BY <1>2, RecordsFollow
    <3> QED
      BY <1>2, <2>1, <3>1, RecordsFollow
  <2>3. ASSUME NEW n \in Nat, n <= m, NEW c \in PayloadClaims(f, n)
        PROVE  c.item \in Nat /\ c \in PayloadClaims(g, m)
    <3>1. c \in DnsClaims(f, n)
      BY <1>2, <2>3 DEF PayloadClaims
    <3> HIDE DEF m
    <3>2. c.item \in Nat /\ c \in DnsClaims(g, m)
      BY <1>0, <1>2, <2>1, <3>1, DnsSaysNoMore
    <3> QED
      BY <1>0, <1>2, <3>2 DEF PayloadClaims
  <2> QED
    BY <1>0, <2>2, <2>3 DEF g
<1>3. CASE f.proto = "dnp3"
  <2>1. m = Ends(Dnp3, Len(Dnp3)) /\ m \in Nat
    <3>1. m = Ends(Dnp3, Len(Dnp3))
      BY <1>3 DEF PayloadSize
    <3>2. Len(Dnp3) \in 0..Len(Dnp3)
      BY Dnp3Parts DEF PartList
    <3> QED
      BY <3>1, <3>2, Dnp3Parts, EndsAreNumbers
  <2>2. ASSUME NEW n \in Nat, n <= m, NEW c \in PayloadClaims(f, n)
        PROVE  c.item \in Nat /\ c \in PayloadClaims(g, m)
    <3>1. c \in InTurn(Dnp3, 0, n)
      BY <1>3, <2>2 DEF PayloadClaims
    <3> HIDE DEF m
    <3>2. c.item \in Nat /\ c \in InTurn(Dnp3, 0, m)
      BY <2>1, <2>2, <3>1, Dnp3Parts, TurnSaysNoMore
    <3> QED
      BY <1>0, <1>3, <3>2 DEF PayloadClaims
  <2> QED
    BY <1>0, <2>1, <2>2 DEF g
<1>4. CASE f.proto = "none"
  <2>1. m = 0 /\ \A n : PayloadClaims(f, n) = {}
    BY <1>4 DEF PayloadSize, PayloadClaims
  <2> QED
    BY <2>1
<1>5. CASE f.proto \notin {"opcua", "dns", "dnp3", "none"} /\ Itemized(f)
  <2>1. m = LastEnd(f) /\ LastEnd(g) = LastEnd(f)
    <3>1. m = LastEnd(f)
      BY <1>5 DEF PayloadSize, LastEnd
    <3>2. Begins(g, Len(f.items)) = Begins(f, Len(f.items))
      BY <1>0, SameItems
    <3> QED
      BY <1>0, <3>1, <3>2 DEF LastEnd
  <2>2. m \in Nat
    BY <1>5, <2>1, LastEndIsNumber
  <2>3. ASSUME NEW n \in Nat, n <= m, NEW c \in PayloadClaims(f, n)
        PROVE  /\ c.item \in Nat
               /\ \/ MadeUp(f, PayloadClaims(f, n), c)
                  \/ \E d \in PayloadClaims(g, m) : NoMore(f, PayloadClaims(f, n), c, d)
    <3>1. PayloadClaims(f, n) = ItemClaims(f, n)
      BY <1>5 DEF PayloadClaims
    <3>2. PayloadClaims(g, m) = ItemClaims(g, LastEnd(g))
      BY <1>0, <1>5, <2>1 DEF PayloadClaims
    <3>3. n <= LastEnd(g) /\ c \in ItemClaims(f, n)
      BY <2>1, <2>3, <3>1
    <3>4. /\ c.item \in Nat
          /\ \/ MadeUp(f, ItemClaims(f, n), c)
             \/ \E d \in ItemClaims(g, LastEnd(g)) : NoMore(f, ItemClaims(f, n), c, d)
      BY <1>0, <1>5, <3>3, ItemsSayNoMore
    <3> QED
      BY <3>1, <3>2, <3>4
  <2> QED
    BY <2>2, <2>3 DEF g
<1> QED
  BY <1>1, <1>2, <1>3, <1>4, <1>5, PayloadKinds

(* The address of the source is known.                                     *)
Told(f, n) ==
  Addressed(f, n) \/ (f.proto = "dcp" /\ \E c \in Said(f, n) : c.what = "address")

(* What parse_ethernet says, claim by claim.                               *)
LEMMA WhatFramesSay ==
  ASSUME NEW f, NEW n, NEW c
  PROVE  c \in parse_ethernet(f, n) <=>
           /\ ~(n < 14)
           /\ \/ c = Claim("transport", 0, TransportKnown(f, n))
              \/ f.local[1] /\ c = Claim("source", 0, IF Told(f, n) THEN 1 ELSE 0)
              \/ f.local[2] /\ Addressed(f, n) /\ c = Claim("destination", 0, 1)
              \/ c \in Said(f, n)
BY Zenon DEF parse_ethernet, Endpoints, Told

(***************************************************************************)
(* A cut frame says no more than the whole one: every claim is there, with *)
(* the same item, unless the cut made it up; what is not of an item only   *)
(* becomes more exact; and what the payload adds are items, all of them    *)
(* behind what is not of an item.                                          *)
(***************************************************************************)
LEMMA FrameSaysNoMore ==
  ASSUME NEW f \in Frames, NEW n \in 0..FrameSize(f), NEW c \in parse_ethernet(f, n)
  PROVE  \/ MadeUp(f, parse_ethernet(f, n), c)
         \/ \E d \in parse_ethernet(Whole(f), FrameSize(f)) :
              NoMore(f, parse_ethernet(f, n), c, d)
<1> DEFINE g == Whole(f)
           m == FrameSize(f)
           said == parse_ethernet(f, n)
           whole == parse_ethernet(g, m)
<1>0. \A what, item, got : /\ Claim(what, item, got).what = what
                           /\ Claim(what, item, got).item = item
                           /\ Claim(what, item, got).got = got
  BY DEF Claim
<1>1. /\ g.net = f.net /\ g.proto = f.proto /\ g.local = f.local
      /\ TransAt(g) = TransAt(f) /\ PayloadAt(g) = PayloadAt(f)
  BY SameFrame, LayersFollow
<1>2. /\ TransAt(f) \in Nat /\ PayloadAt(f) \in Nat /\ PayloadSize(f) \in Nat
      /\ 14 <= TransAt(f) /\ TransAt(f) <= PayloadAt(f)
      /\ m = PayloadAt(f) + PayloadSize(f) /\ n \in Nat /\ n <= m
  <2>1. /\ TransAt(f) \in Nat /\ PayloadAt(f) \in Nat /\ PayloadSize(f) \in Nat
        /\ 14 <= TransAt(f) /\ TransAt(f) <= PayloadAt(f)
    BY LayersFollow, PayloadSaysNoMore
  <2>2. m = PayloadAt(f) + PayloadSize(f)
    BY DEF FrameSize
  <2> QED
    BY <2>1, <2>2
<1> HIDE DEF g, m
<1>3. ~(m < 14) /\ ~(m < TransAt(g)) /\ ~(m < PayloadAt(g)) /\ m - PayloadAt(g) = PayloadSize(f)
  BY <1>1, <1>2
<1>4. Said(g, m) = PayloadClaims(g, PayloadSize(f))
  BY <1>3 DEF Said
<1>5. ASSUME NEW e \in Said(f, n)
      PROVE  /\ e.item \in Nat
             /\ MadeUp(f, Said(f, n), e) \/ \E d \in Said(g, m) : NoMore(f, Said(f, n), e, d)
  <2>1. ~(n < PayloadAt(f)) /\ e \in PayloadClaims(f, n - PayloadAt(f))
    BY <1>5 DEF Said
  <2>2. n - PayloadAt(f) \in Nat /\ n - PayloadAt(f) <= PayloadSize(f)
    BY <1>2, <2>1
  <2>3. /\ e.item \in Nat
        /\ \/ MadeUp(f, PayloadClaims(f, n - PayloadAt(f)), e)
           \/ \E d \in PayloadClaims(g, PayloadSize(f)) :
                NoMore(f, PayloadClaims(f, n - PayloadAt(f)), e, d)
    BY <2>1, <2>2, PayloadSaysNoMore DEF g
  <2>4. Said(f, n) = PayloadClaims(f, n - PayloadAt(f))
    BY <2>1 DEF Said
  <2> QED
    BY <1>4, <2>3, <2>4
<1>6. ASSUME NEW e \in said PROVE e.item = 0 \/ e \in Said(f, n)
  <2>1. \/ \E what, got : e = Claim(what, 0, got)
        \/ e \in Said(f, n)
    BY <1>6, WhatFramesSay, Zenon
  <2> QED
    BY <1>0, <2>1
<1>7. Addressed(f, n) => Addressed(g, m)
  BY <1>1, <1>2, <1>3 DEF Addressed
<1>8. Told(f, n) => Told(g, m)
  <2>1. f.proto = "dcp" /\ (\E e \in Said(f, n) : e.what = "address")
          => \E d \in Said(g, m) : d.what = "address"
    BY <1>5 DEF NoMore, MadeUp, CutTsap
  <2> QED
    BY <1>1, <1>7, <2>1 DEF Told
<1>9. ASSUME NEW d, d.what = c.what, d.item = c.item, d \in whole,
             d.got = c.got \/ (c.got < d.got /\ c.what \in {"transport", "source"})
      PROVE  \E e \in whole : NoMore(f, said, c, e)
  <2>1. NoMore(f, said, c, d)
    BY <1>9 DEF NoMore
  <2> QED
    BY <1>9, <2>1 DEF whole, said, g, m
<1>10. CASE c = Claim("transport", 0, TransportKnown(f, n))
  <2> DEFINE d == Claim("transport", 0, TransportKnown(g, m))
  <2>1. d \in whole
    BY <1>3, WhatFramesSay
  <2>2. TransportKnown(g, m) = 2
    BY <1>3 DEF TransportKnown
  <2>3. TransportKnown(f, n) \in {0, 1, 2}
    BY DEF TransportKnown
  <2>4. c.got = d.got \/ c.got < d.got
    BY <1>0, <1>10, <2>2, <2>3
  <2>5. d.what = c.what /\ d.item = c.item /\ c.what = "transport"
    BY <1>0, <1>10
  <2> HIDE DEF d, whole, said
  <2> QED
    BY <1>9, <2>1, <2>4, <2>5 DEF whole, said, g, m
<1>11. CASE f.local[1] /\ c = Claim("source", 0, IF Told(f, n) THEN 1 ELSE 0)
  <2> DEFINE d == Claim("source", 0, IF Told(g, m) THEN 1 ELSE 0)
  <2>1. d \in whole
    BY <1>1, <1>3, <1>11, WhatFramesSay
  <2>2. c.got = d.got \/ c.got < d.got
    BY <1>0, <1>8, <1>11
  <2>3. d.what = c.what /\ d.item = c.item /\ c.what = "source"
    BY <1>0, <1>11
  <2> HIDE DEF d, whole, said
  <2> QED
    BY <1>9, <2>1, <2>2, <2>3 DEF whole, said, g, m
<1>12. CASE f.local[2] /\ Addressed(f, n) /\ c = Claim("destination", 0, 1)
  <2>1. c \in whole
    BY <1>1, <1>3, <1>7, <1>12, WhatFramesSay
  <2>2. NoMore(f, said, c, c)
    BY DEF NoMore
  <2> QED
    BY <2>1, <2>2 DEF g, m
<1>13. CASE c \in Said(f, n)
  <2>1. ASSUME \A e \in Said(f, n) : e.item <= c.item, NEW e \in said
        PROVE  e.item <= c.item
    <3>1. c.item \in Nat
      BY <1>5, <1>13
    <3> QED
      BY <1>6, <2>1, <3>1
  <2>2. CASE MadeUp(f, Said(f, n), c)
    <3> HIDE DEF said
    <3>1. MadeUp(f, said, c)
      BY <2>1, <2>2 DEF MadeUp
    <3> QED
      BY <3>1 DEF said
  <2>3. ASSUME NEW d \in Said(g, m), NoMore(f, Said(f, n), c, d)
        PROVE  \E e \in whole : NoMore(f, said, c, e)
    <3>1. d \in whole
      BY <1>3, <2>3, WhatFramesSay
    <3> HIDE DEF whole, said
    <3>2. NoMore(f, said, c, d)
      BY <2>1, <2>3 DEF NoMore
    <3> QED
      BY <3>1, <3>2
  <2> QED
    BY <1>5, <1>13, <2>2, <2>3 DEF whole, said, g, m
<1> QED
  BY <1>9, <1>10, <1>11, <1>12, <1>13, WhatFramesSay DEF g, m

(* What is said of a frame is what its captured bytes decode to.           *)
Decoded ==
  frame # NoFrame =>
    \E f \in Frames : \E n \in 0..FrameSize(f) :
      frame = [sent |-> f, captured |-> n, said |-> parse_ethernet(f, n)]

LEMMA DecodedInvariance == Spec => []Decoded
<1>1. Init => Decoded
  BY DEF Init, Decoded
<1>2. Decoded /\ [Next]_vars => Decoded'
  <2> SUFFICES ASSUME Decoded, [Next]_vars PROVE Decoded'
    OBVIOUS
  <2>1. CASE UNCHANGED frame
    BY <2>1 DEF Decoded
  <2>2. CASE Decode
    BY <2>2 DEF Decode, Decoded
  <2>3. CASE Recorded
    BY <2>3 DEF Recorded, Decoded
  <2> QED
    BY <2>1, <2>2, <2>3 DEF Next, vars
<1> QED
  BY <1>1, <1>2, PTL DEF Spec

(* Of a frame that is cut, or has a field that does not decode, nothing is *)
(* said that is not said of the whole frame, whatever its layers, the items *)
(* of its payload and the place where it is cut: a decoder that reads on    *)
(* behind the captured bytes, or keeps half a value, would say it. The one  *)
(* that does is COTP's, of a TSAP that is cut behind its second byte.       *)
THEOREM CutFramesSayNoMore == Spec => []CutSaysNoMore
<1>1. Decoded => CutSaysNoMore
  <2> SUFFICES ASSUME Decoded, frame # NoFrame, NEW c \in frame.said
               PROVE  \/ MadeUp(frame.sent, frame.said, c)
                      \/ \E d \in parse_ethernet(Whole(frame.sent), FrameSize(frame.sent)) :
                           NoMore(frame.sent, frame.said, c, d)
    BY Zenon DEF CutSaysNoMore, Whole, NoMore, MadeUp
  <2>1. PICK f \in Frames :
          \E n \in 0..FrameSize(f) :
            frame = [sent |-> f, captured |-> n, said |-> parse_ethernet(f, n)]
    BY DEF Decoded
  <2>2. PICK n \in 0..FrameSize(f) :
          frame = [sent |-> f, captured |-> n, said |-> parse_ethernet(f, n)]
    BY <2>1
  <2>3. frame.sent = f /\ frame.said = parse_ethernet(f, n)
    BY <2>2
  <2> QED
    BY <2>3, FrameSaysNoMore
<1> QED
  BY <1>1, DecodedInvariance, PTL
=============================================================================
