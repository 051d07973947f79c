------------------------------ MODULE HeapProofs -------------------------------
(***************************************************************************)
(* Theorems about Heap, for any size of the heap, any requests and any     *)
(* number of threads.                                                      *)
(*                                                                         *)
(* The headers alone say how the blocks lie (Tiles); the two lists are     *)
(* then lists of sets of blocks, one of them in the order of addresses     *)
(* (Sorted, Listed).  MemoryInv puts these together for the memory before  *)
(* and after each routine; the invariants of the callers' blocks, of the   *)
(* guard tables and of the guarded regions rest on it, and so does that    *)
(* each step is one of Allocator.                                          *)
(***************************************************************************)
EXTENDS Heap, TLAPS, SequenceTheorems, FunctionTheorems, WellFoundedInduction

-----------------------------------------------------------------------------
(* Numbers and sequences. *)

LEMMA Least ==
    ASSUME NEW S \in SUBSET Nat, S # {}
    PROVE  First(S) \in S /\ \A n \in S : First(S) <= n
<1> DEFINE R == OpToRel(<, Nat)
<1>1. IsWellFoundedOn(R, Nat)
    BY NatLessThanWellFounded
<1>2. \A m, n \in Nat : m < n => <<m, n>> \in R
    BY DEF OpToRel
<1> HIDE DEF R
<1>3. PICK n \in S : \A m \in S : ~ (<<m, n>> \in R)
    BY <1>1, WFMin
<1>4. \A m \in S : n <= m
    <2> SUFFICES ASSUME NEW m \in S PROVE n <= m
        OBVIOUS
    <2>1. m \in Nat /\ n \in Nat
        OBVIOUS
    <2>2. ~ (m < n)
        BY <1>2, <1>3, <2>1
    <2> QED BY <2>1, <2>2
<1>5. \E i \in S : \A j \in S : i <= j
    BY <1>4
<1> QED BY <1>5 DEF First

LEMMA PositionOf ==
    ASSUME NEW S, NEW s \in Seq(S), NEW a, \E i \in 1 .. Len(s) : s[i] = a
    PROVE  Position(s, a) \in 1 .. Len(s) /\ s[Position(s, a)] = a
<1>1. DOMAIN s = 1 .. Len(s)
    BY LenProperties
<1> QED BY <1>1 DEF Position

LEMMA Removed ==
    ASSUME NEW S, NEW s \in Seq(S), NEW i \in 1 .. Len(s)
    PROVE  /\ RemoveAt(s, i) \in Seq(S) /\ Len(RemoveAt(s, i)) = Len(s) - 1
           /\ \A j \in 1 .. Len(s) - 1 : RemoveAt(s, i)[j] = IF j < i THEN s[j] ELSE s[j + 1]
<1> DEFINE u == SubSeq(s, 1, i - 1)
           v == SubSeq(s, i + 1, Len(s))
<1>1. Len(s) \in Nat /\ \A j \in 1 .. Len(s) : s[j] \in S
    BY LenProperties, ElementOfSeq
<1>2. u \in Seq(S) /\ Len(u) = i - 1 /\ \A j \in 1 .. i - 1 : u[j] = s[j]
    <2>1. i - 1 \in Int /\ \A j \in 1 .. i - 1 : s[j] \in S
        BY <1>1
    <2>2. /\ u \in Seq(S) /\ Len(u) = (IF 1 <= i - 1 THEN i - 1 - 1 + 1 ELSE 0)
          /\ \A j \in 1 .. i - 1 - 1 + 1 : u[j] = s[1 + j - 1]
        BY <2>1, SubSeqProperties
    <2> HIDE DEF u
    <2> QED BY <2>2, <1>1
<1>3. v \in Seq(S) /\ Len(v) = Len(s) - i /\ \A j \in 1 .. Len(s) - i : v[j] = s[i + j]
    <2>1. i + 1 \in Int /\ Len(s) \in Int /\ \A j \in i + 1 .. Len(s) : s[j] \in S
        BY <1>1
    <2>2. /\ v \in Seq(S) /\ Len(v) = (IF i + 1 <= Len(s) THEN Len(s) - (i + 1) + 1 ELSE 0)
          /\ \A j \in 1 .. Len(s) - (i + 1) + 1 : v[j] = s[i + 1 + j - 1]
        BY <2>1, SubSeqProperties
    <2> HIDE DEF v
    <2> QED BY <2>2, <1>1
<1>4. RemoveAt(s, i) = u \o v
    BY DEF RemoveAt
<1> HIDE DEF u, v
<1>5. /\ u \o v \in Seq(S) /\ Len(u \o v) = Len(u) + Len(v)
      /\ \A j \in 1 .. Len(u) + Len(v) : (u \o v)[j] = IF j <= Len(u) THEN u[j] ELSE v[j - Len(u)]
    BY <1>2, <1>3, ConcatProperties
<1>6. ASSUME NEW j \in 1 .. Len(s) - 1
      PROVE  (u \o v)[j] = IF j < i THEN s[j] ELSE s[j + 1]
    <2>1. j \in 1 .. Len(u) + Len(v)
        BY <1>1, <1>2, <1>3
    <2>2. CASE j < i
        <3>1. j <= Len(u) /\ j \in 1 .. i - 1
            BY <1>1, <1>2, <2>2
        <3> QED BY <1>2, <1>5, <2>1, <2>2, <3>1
    <2>3. CASE ~ (j < i)
        <3>1. ~ (j <= Len(u)) /\ j - Len(u) \in 1 .. Len(s) - i /\ i + (j - Len(u)) = j + 1
            BY <1>1, <1>2, <2>3
        <3>2. (u \o v)[j] = v[j - Len(u)]
            BY <1>5, <2>1, <3>1
        <3> QED BY <1>3, <2>3, <3>1, <3>2
    <2> QED BY <2>2, <2>3
<1>7. Len(u) + Len(v) = Len(s) - 1
    BY <1>1, <1>2, <1>3
<1> QED BY <1>4, <1>5, <1>6, <1>7

LEMMA Inserted ==
    ASSUME NEW S, NEW s \in Seq(S), NEW i \in 1 .. Len(s) + 1, NEW e \in S
    PROVE  /\ InsertAt(s, i, e) \in Seq(S) /\ Len(InsertAt(s, i, e)) = Len(s) + 1
           /\ \A j \in 1 .. Len(s) + 1 :
                 InsertAt(s, i, e)[j] = IF j < i THEN s[j] ELSE IF j = i THEN e ELSE s[j - 1]
<1> DEFINE u == SubSeq(s, 1, i - 1)
           v == SubSeq(s, i, Len(s))
           w == u \o <<e>>
<1>1. Len(s) \in Nat /\ \A j \in 1 .. Len(s) : s[j] \in S
    BY LenProperties, ElementOfSeq
<1>2. u \in Seq(S) /\ Len(u) = i - 1 /\ \A j \in 1 .. i - 1 : u[j] = s[j]
    <2>1. i - 1 \in Int /\ \A j \in 1 .. i - 1 : s[j] \in S
        BY <1>1
    <2>2. /\ u \in Seq(S) /\ Len(u) = (IF 1 <= i - 1 THEN i - 1 - 1 + 1 ELSE 0)
          /\ \A j \in 1 .. i - 1 - 1 + 1 : u[j] = s[1 + j - 1]
        BY <2>1, SubSeqProperties
    <2> HIDE DEF u
    <2> QED BY <2>2, <1>1
<1>3. v \in Seq(S) /\ Len(v) = Len(s) - i + 1 /\ \A j \in 1 .. Len(s) - i + 1 : v[j] = s[i + j - 1]
    <2>1. i \in Int /\ Len(s) \in Int /\ \A j \in i .. Len(s) : s[j] \in S
        BY <1>1
    <2>2. /\ v \in Seq(S) /\ Len(v) = (IF i <= Len(s) THEN Len(s) - i + 1 ELSE 0)
          /\ \A j \in 1 .. Len(s) - i + 1 : v[j] = s[i + j - 1]
        BY <2>1, SubSeqProperties
    <2> HIDE DEF v
    <2> QED BY <2>2, <1>1
<1>4. InsertAt(s, i, e) = w \o v
    BY DEF InsertAt
<1>5. <<e>> \in Seq(S) /\ Len(<<e>>) = 1 /\ <<e>>[1] = e
    OBVIOUS
<1> HIDE DEF u, v
<1>6. w \in Seq(S) /\ Len(w) = i /\ w[i] = e /\ \A j \in 1 .. i - 1 : w[j] = s[j]
    <2>1. /\ w \in Seq(S) /\ Len(w) = Len(u) + 1
          /\ \A j \in 1 .. Len(u) + 1 : w[j] = IF j <= Len(u) THEN u[j] ELSE <<e>>[j - Len(u)]
        BY <1>2, <1>5, ConcatProperties
    <2> HIDE DEF w
    <2>2. Len(w) = i /\ i \in 1 .. Len(u) + 1 /\ ~ (i <= Len(u)) /\ i - Len(u) = 1
        BY <1>1, <1>2, <2>1
    <2>3. w[i] = e
        BY <1>5, <2>1, <2>2
    <2>4. ASSUME NEW j \in 1 .. i - 1 PROVE w[j] = s[j]
        <3>1. j \in 1 .. Len(u) + 1 /\ j <= Len(u)
            BY <1>1, <1>2
        <3> QED BY <1>2, <2>1, <3>1
    <2> QED BY <2>1, <2>2, <2>3, <2>4
<1> HIDE DEF w
<1>7. /\ w \o v \in Seq(S) /\ Len(w \o v) = Len(w) + Len(v)
      /\ \A j \in 1 .. Len(w) + Len(v) : (w \o v)[j] = IF j <= Len(w) THEN w[j] ELSE v[j - Len(w)]
    BY <1>3, <1>6, ConcatProperties
<1>8. ASSUME NEW j \in 1 .. Len(s) + 1
      PROVE  (w \o v)[j] = IF j < i THEN s[j] ELSE IF j = i THEN e ELSE s[j - 1]
    <2>1. j \in 1 .. Len(w) + Len(v)
        BY <1>1, <1>3, <1>6
    <2>2. CASE j <= i
        <3>1. (w \o v)[j] = w[j]
            BY <1>6, <1>7, <2>1, <2>2
        <3>2. j < i => j \in 1 .. i - 1
            BY <1>1
        <3> QED BY <1>6, <2>2, <3>1, <3>2
    <2>3. CASE ~ (j <= i)
        <3>1. j - i \in 1 .. Len(s) - i + 1 /\ i + (j - i) - 1 = j - 1 /\ ~ (j < i) /\ j # i
            BY <1>1, <2>3
        <3>2. (w \o v)[j] = v[j - i]
            BY <1>6, <1>7, <2>1, <2>3
        <3> QED BY <1>3, <3>1, <3>2
    <2> QED BY <2>2, <2>3
<1>9. Len(w) + Len(v) = Len(s) + 1
    BY <1>1, <1>3, <1>6
<1> QED BY <1>4, <1>7, <1>8, <1>9


LEMMA OneLong ==
    ASSUME NEW S, NEW s \in Seq(S), NEW k \in 1 .. Len(s)
    PROVE  SubSeq(s, k, k) = <<s[k]>>
<1>1. k \in k .. Len(s) /\ k + 1 \in Int /\ k \in Int /\ k < k + 1
    BY LenProperties
<1>2. SubSeq(s, k, k) = <<s[k]>> \o SubSeq(s, k + 1, k)
    BY <1>1, SubSeqRecursiveFirst
<1>3. SubSeq(s, k + 1, k) = << >>
    BY <1>1, SubSeqEmpty
<1>4. <<s[k]>> \in Seq(S)
    BY ElementOfSeq
<1>5. <<s[k]>> \o << >> = <<s[k]>>
    BY <1>4, ConcatEmptySeq
<1> QED BY <1>2, <1>3, <1>5

-----------------------------------------------------------------------------
(* Lists of blocks. *)

IsRange(s, F) == \A a : a \in F <=> \E i \in 1 .. Len(s) : s[i] = a

\* A list of the blocks of F, each once.
Listed(s, F) ==
    /\ s \in Seq(Addresses) /\ IsRange(s, F)
    /\ \A i, j \in 1 .. Len(s) : s[i] = s[j] => i = j

\* A list of the blocks of B, in the order of addresses.
Sorted(s, B) ==
    /\ s \in Seq(Addresses) /\ IsRange(s, B)
    /\ \A i, j \in 1 .. Len(s) : i < j => s[i] < s[j]

LEMMA AddressType == Addresses \subseteq Nat /\ NoBlock \notin Addresses /\ 0 \in Addresses
BY HeapAssumption DEF Addresses, NoBlock

LEMMA ElementIs ==
    ASSUME NEW s \in Seq(Addresses), NEW i \in 1 .. Len(s)
    PROVE  s[i] \in Addresses /\ s[i] \in Nat
BY ElementOfSeq, AddressType

LEMMA SortedIsListed ==
    ASSUME NEW s, NEW B, Sorted(s, B)
    PROVE  Listed(s, B)
<1>1. s \in Seq(Addresses) /\ Len(s) \in Nat
    BY LenProperties DEF Sorted
<1> SUFFICES ASSUME NEW i \in 1 .. Len(s), NEW j \in 1 .. Len(s), s[i] = s[j] PROVE i = j
    BY DEF Sorted, Listed
<1>2. s[i] \in Nat /\ s[j] \in Nat
    BY <1>1, ElementIs
<1>3. ~ (i < j) /\ ~ (j < i)
    BY <1>2 DEF Sorted
<1> QED BY <1>1, <1>3

LEMMA PlaceOf ==
    ASSUME NEW s, NEW F, Listed(s, F), NEW a \in F
    PROVE  Position(s, a) \in 1 .. Len(s) /\ s[Position(s, a)] = a /\ a \in Addresses
<1>1. s \in Seq(Addresses) /\ \E i \in 1 .. Len(s) : s[i] = a
    BY DEF Listed, IsRange
<1>2. Position(s, a) \in 1 .. Len(s) /\ s[Position(s, a)] = a
    BY <1>1, PositionOf
<1> QED BY <1>1, <1>2, ElementIs

LEMMA ListedAppend ==
    ASSUME NEW s, NEW F, Listed(s, F), NEW a \in Addresses, a \notin F
    PROVE  Listed(Append(s, a), F \cup {a})
<1> DEFINE t == Append(s, a)
<1>1. s \in Seq(Addresses) /\ Len(s) \in Nat
    BY LenProperties DEF Listed
<1>2. t \in Seq(Addresses) /\ Len(t) = Len(s) + 1 /\ (\A i \in 1 .. Len(s) : t[i] = s[i]) /\ t[Len(s) + 1] = a
    BY <1>1, AppendProperties
<1> HIDE DEF t
<1>3. \A i \in 1 .. Len(s) : s[i] # a
    BY DEF Listed, IsRange
<1>4. \A i \in 1 .. Len(t) : i \in 1 .. Len(s) \/ i = Len(s) + 1
    BY <1>1, <1>2
<1>5. \A i \in 1 .. Len(s) : i \in 1 .. Len(t)
    BY <1>1, <1>2
<1>6. Len(s) + 1 \in 1 .. Len(t)
    BY <1>1, <1>2
<1>7. IsRange(t, F \cup {a})
    <2>1. ASSUME NEW b \in F \cup {a} PROVE \E i \in 1 .. Len(t) : t[i] = b
        <3>1. CASE b \in F
            <4>1. PICK i \in 1 .. Len(s) : s[i] = b
                BY <3>1 DEF Listed, IsRange
            <4> QED BY <4>1, <1>2, <1>5
        <3>2. CASE b = a
            BY <3>2, <1>2, <1>6
        <3> QED BY <3>1, <3>2
    <2>2. ASSUME NEW i \in 1 .. Len(t) PROVE t[i] \in F \cup {a}
        <3>1. CASE i \in 1 .. Len(s)
            BY <3>1, <1>2 DEF Listed, IsRange
        <3>2. CASE i = Len(s) + 1
            BY <3>2, <1>2
        <3> QED BY <3>1, <3>2, <1>4
    <2> QED BY <2>1, <2>2 DEF IsRange
<1>8. ASSUME NEW i \in 1 .. Len(t), NEW j \in 1 .. Len(t), t[i] = t[j] PROVE i = j
    <2>1. CASE i \in 1 .. Len(s) /\ j \in 1 .. Len(s)
        BY <2>1, <1>2, <1>8 DEF Listed
    <2>2. CASE i \in 1 .. Len(s) /\ j = Len(s) + 1
        BY <2>2, <1>2, <1>3, <1>8
    <2>3. CASE i = Len(s) + 1 /\ j \in 1 .. Len(s)
        BY <2>3, <1>2, <1>3, <1>8
    <2>4. CASE i = Len(s) + 1 /\ j = Len(s) + 1
        BY <2>4
    <2> QED BY <2>1, <2>2, <2>3, <2>4, <1>4
<1>9. t \in Seq(Addresses) /\ IsRange(t, F \cup {a}) /\ \A i, j \in 1 .. Len(t) : t[i] = t[j] => i = j
    BY <1>2, <1>7, <1>8
<1>10. Listed(t, F \cup {a})
    BY <1>9 DEF Listed
<1> QED BY <1>10 DEF t

\* Where the entries of a shortened list were.
LEMMA RemovedPlaces ==
    ASSUME NEW s \in Seq(Addresses), NEW p \in 1 .. Len(s)
    PROVE  LET t == RemoveAt(s, p)
               was(i) == IF i < p THEN i ELSE i + 1
           IN  /\ t \in Seq(Addresses)
               /\ \A i \in 1 .. Len(t) : was(i) \in 1 .. Len(s) \ {p} /\ t[i] = s[was(i)]
               /\ \A k \in 1 .. Len(s) \ {p} : \E i \in 1 .. Len(t) : was(i) = k
<1> DEFINE t == RemoveAt(s, p)
           was(i) == IF i < p THEN i ELSE i + 1
<1>1. Len(s) \in Nat
    BY LenProperties
<1>2. /\ t \in Seq(Addresses) /\ Len(t) = Len(s) - 1
      /\ \A j \in 1 .. Len(s) - 1 : t[j] = IF j < p THEN s[j] ELSE s[j + 1]
    BY Removed
<1> HIDE DEF t
<1>3. ASSUME NEW i \in 1 .. Len(t) PROVE was(i) \in 1 .. Len(s) \ {p} /\ t[i] = s[was(i)]
    BY <1>1, <1>2
<1>4. ASSUME NEW k \in 1 .. Len(s) \ {p} PROVE \E i \in 1 .. Len(t) : was(i) = k
    <2>1. CASE k < p
        <3>1. k \in 1 .. Len(t) /\ was(k) = k
            BY <2>1, <1>1, <1>2
        <3> QED BY <3>1
    <2>2. CASE ~ (k < p)
        <3>1. k - 1 \in 1 .. Len(t) /\ was(k - 1) = k
            BY <2>2, <1>1, <1>2
        <3> QED BY <3>1
    <2> QED BY <2>1, <2>2
<1>5. /\ t \in Seq(Addresses)
      /\ \A i \in 1 .. Len(t) : was(i) \in 1 .. Len(s) \ {p} /\ t[i] = s[was(i)]
      /\ \A k \in 1 .. Len(s) \ {p} : \E i \in 1 .. Len(t) : was(i) = k
    BY <1>2, <1>3, <1>4
<1> QED BY <1>5 DEF t

LEMMA RemovedRange ==
    ASSUME NEW s, NEW F, Listed(s, F), NEW a \in F
    PROVE  IsRange(RemoveEntryList(s, a), F \ {a})
<1> DEFINE p == Position(s, a)
           t == RemoveAt(s, p)
           was(i) == IF i < p THEN i ELSE i + 1
<1>1. s \in Seq(Addresses) /\ p \in 1 .. Len(s) /\ s[p] = a
    BY PlaceOf DEF Listed
<1> HIDE DEF p
<1>2. /\ \A i \in 1 .. Len(t) : was(i) \in 1 .. Len(s) \ {p} /\ t[i] = s[was(i)]
      /\ \A k \in 1 .. Len(s) \ {p} : \E i \in 1 .. Len(t) : was(i) = k
    BY <1>1, RemovedPlaces
<1>3. RemoveEntryList(s, a) = t
    BY DEF RemoveEntryList, p
<1> HIDE DEF t
<1>4. ASSUME NEW b \in F \ {a} PROVE \E i \in 1 .. Len(t) : t[i] = b
    <2>1. PICK k \in 1 .. Len(s) : s[k] = b
        BY DEF Listed, IsRange
    <2>2. k \in 1 .. Len(s) \ {p}
        BY <2>1, <1>1
    <2>3. PICK i \in 1 .. Len(t) : was(i) = k
        BY <2>2, <1>2
    <2>4. t[i] = s[k]
        BY <2>3, <1>2
    <2> QED BY <2>1, <2>4
<1>5. ASSUME NEW i \in 1 .. Len(t) PROVE t[i] \in F \ {a}
    <2>1. was(i) \in 1 .. Len(s) /\ was(i) # p /\ t[i] = s[was(i)]
        BY <1>2
    <2> HIDE DEF was
    <2>2. t[i] \in F
        BY <2>1 DEF Listed, IsRange
    <2>3. t[i] # a
        BY <2>1, <1>1 DEF Listed
    <2> QED BY <2>2, <2>3
<1>6. IsRange(t, F \ {a})
    BY <1>4, <1>5 DEF IsRange
<1> QED BY <1>3, <1>6

LEMMA ListedRemove ==
    ASSUME NEW s, NEW F, Listed(s, F), NEW a \in F
    PROVE  Listed(RemoveEntryList(s, a), F \ {a})
<1> DEFINE p == Position(s, a)
           t == RemoveAt(s, p)
           was(i) == IF i < p THEN i ELSE i + 1
<1>1. s \in Seq(Addresses) /\ p \in 1 .. Len(s) /\ s[p] = a
    BY PlaceOf DEF Listed
<1> HIDE DEF p
<1>2. t \in Seq(Addresses) /\ \A i \in 1 .. Len(t) : was(i) \in 1 .. Len(s) \ {p} /\ t[i] = s[was(i)]
    BY <1>1, RemovedPlaces
<1>3. RemoveEntryList(s, a) = t
    BY DEF RemoveEntryList, p
<1> HIDE DEF t
<1>4. Len(t) \in Nat /\ p \in Nat
    BY <1>1, <1>2, LenProperties
<1>5. ASSUME NEW i \in 1 .. Len(t), NEW j \in 1 .. Len(t), t[i] = t[j] PROVE i = j
    <2>1. was(i) \in 1 .. Len(s) /\ was(j) \in 1 .. Len(s) /\ s[was(i)] = s[was(j)]
        BY <1>2, <1>5
    <2>2. was(i) = was(j)
        <3> HIDE DEF was
        <3> QED BY <2>1 DEF Listed
    <2> QED BY <2>2, <1>4
<1> QED BY <1>2, <1>3, <1>5, RemovedRange DEF Listed

LEMMA SortedRemove ==
    ASSUME NEW s, NEW B, Sorted(s, B), NEW a \in B
    PROVE  Sorted(RemoveEntryList(s, a), B \ {a})
<1> DEFINE p == Position(s, a)
           t == RemoveAt(s, p)
           was(i) == IF i < p THEN i ELSE i + 1
<1>0. Listed(s, B)
    BY SortedIsListed
<1>1. s \in Seq(Addresses) /\ p \in 1 .. Len(s) /\ s[p] = a
    BY <1>0, PlaceOf DEF Listed
<1> HIDE DEF p
<1>2. t \in Seq(Addresses) /\ \A i \in 1 .. Len(t) : was(i) \in 1 .. Len(s) \ {p} /\ t[i] = s[was(i)]
    BY <1>1, RemovedPlaces
<1>3. RemoveEntryList(s, a) = t
    BY DEF RemoveEntryList, p
<1> HIDE DEF t
<1>4. Len(t) \in Nat /\ p \in Nat
    BY <1>1, <1>2, LenProperties
<1>5. ASSUME NEW i \in 1 .. Len(t), NEW j \in 1 .. Len(t), i < j PROVE t[i] < t[j]
    <2>1. was(i) \in 1 .. Len(s) /\ was(j) \in 1 .. Len(s) /\ t[i] = s[was(i)] /\ t[j] = s[was(j)]
        BY <1>2
    <2>2. was(i) < was(j)
        BY <1>4, <1>5
    <2> HIDE DEF was
    <2> QED BY <2>1, <2>2 DEF Sorted
<1>6. IsRange(t, B \ {a})
    BY <1>0, <1>3, RemovedRange
<1> QED BY <1>2, <1>3, <1>5, <1>6 DEF Sorted


LEMMA SortedInsert ==
    ASSUME NEW s, NEW B, Sorted(s, B), NEW a \in B, NEW b \in Addresses, b \notin B, a < b,
           \A c \in B : a < c => b < c
    PROVE  Sorted(InsertAt(s, Position(s, a) + 1, b), B \cup {b})
<1> DEFINE p == Position(s, a)
           t == InsertAt(s, p + 1, b)
<1>1. s \in Seq(Addresses) /\ p \in 1 .. Len(s) /\ s[p] = a /\ Len(s) \in Nat
    BY SortedIsListed, PlaceOf, LenProperties DEF Listed
<1> HIDE DEF p
<1>2. p + 1 \in 1 .. Len(s) + 1
    BY <1>1
<1>3. /\ t \in Seq(Addresses) /\ Len(t) = Len(s) + 1
      /\ \A j \in 1 .. Len(s) + 1 : t[j] = IF j < p + 1 THEN s[j] ELSE IF j = p + 1 THEN b ELSE s[j - 1]
    <2>1. PICK q : q = p + 1
        OBVIOUS
    <2>2. q \in 1 .. Len(s) + 1 /\ t = InsertAt(s, q, b)
        BY <1>2, <2>1
    <2> HIDE DEF t
    <2>3. s \in Seq(Addresses) /\ q \in 1 .. Len(s) + 1 /\ b \in Addresses
        BY <1>1, <2>2
    <2>4. /\ InsertAt(s, q, b) \in Seq(Addresses) /\ Len(InsertAt(s, q, b)) = Len(s) + 1
          /\ \A j \in 1 .. Len(s) + 1 :
                InsertAt(s, q, b)[j] = IF j < q THEN s[j] ELSE IF j = q THEN b ELSE s[j - 1]
        BY <2>3, Inserted
    <2> QED BY <2>1, <2>2, <2>4
<1> HIDE DEF t
<1>4. ASSUME NEW i \in 1 .. Len(t)
      PROVE  \/ i \in 1 .. p /\ i \in 1 .. Len(s) /\ t[i] = s[i]
             \/ i = p + 1 /\ t[i] = b
             \/ i \in p + 2 .. Len(t) /\ i - 1 \in p + 1 .. Len(s) /\ i - 1 \in 1 .. Len(s) /\ t[i] = s[i - 1]
    BY <1>1, <1>3
<1>5. ASSUME NEW k \in 1 .. p PROVE k \in 1 .. Len(t) /\ k \in 1 .. Len(s) /\ t[k] = s[k] /\ s[k] < b
    <2>1. k \in 1 .. Len(t) /\ k \in 1 .. Len(s) /\ t[k] = s[k]
        BY <1>1, <1>3
    <2>2. k = p \/ k < p
        BY <1>1
    <2>3. s[k] = a \/ s[k] < a
        BY <2>1, <2>2, <1>1 DEF Sorted
    <2>4. s[k] \in Nat /\ a \in Nat /\ b \in Nat
        BY <2>1, <1>1, ElementIs, AddressType
    <2> QED BY <2>1, <2>3, <2>4
<1>6. ASSUME NEW k \in p + 1 .. Len(s) PROVE k + 1 \in 1 .. Len(t) /\ k \in 1 .. Len(s) /\ t[k + 1] = s[k] /\ b < s[k]
    <2>1. k + 1 \in 1 .. Len(s) + 1 /\ k \in 1 .. Len(s) /\ ~ (k + 1 < p + 1) /\ k + 1 # p + 1 /\ k + 1 - 1 = k /\ p < k
        BY <1>1
    <2>2. t[k + 1] = s[k]
        BY <2>1, <1>3
    <2>3. s[k] \in B /\ a < s[k]
        BY <2>1, <1>1 DEF Sorted, IsRange
    <2> QED BY <2>1, <2>2, <2>3, <1>3
<1>7. IsRange(t, B \cup {b})
    <2>1. ASSUME NEW c \in B \cup {b} PROVE \E i \in 1 .. Len(t) : t[i] = c
        <3>1. CASE c \in B
            <4>1. PICK k \in 1 .. Len(s) : s[k] = c
                BY <3>1 DEF Sorted, IsRange
            <4>2. k \in 1 .. p \/ k \in p + 1 .. Len(s)
                BY <1>1
            <4> QED BY <4>1, <4>2, <1>5, <1>6
        <3>2. CASE c = b
            <4>1. p + 1 \in 1 .. Len(t) /\ t[p + 1] = b
                BY <1>1, <1>3
            <4> QED BY <3>2, <4>1
        <3> QED BY <3>1, <3>2
    <2>2. ASSUME NEW i \in 1 .. Len(t) PROVE t[i] \in B \cup {b}
        BY <1>4 DEF Sorted, IsRange
    <2> QED BY <2>1, <2>2 DEF IsRange
<1>8. ASSUME NEW i \in 1 .. Len(t), NEW j \in 1 .. Len(t), i < j PROVE t[i] < t[j]
    <2>1. CASE j \in 1 .. p
        <3>1. i \in 1 .. p
            BY <2>1, <1>8, <1>1
        <3> QED BY <2>1, <3>1, <1>5, <1>8 DEF Sorted
    <2>2. CASE j = p + 1
        <3>1. i \in 1 .. p
            BY <2>2, <1>8, <1>1
        <3> QED BY <2>2, <3>1, <1>4, <1>5, <1>1
    <2>3. CASE j \in p + 2 .. Len(t)
        <3>1. j - 1 \in p + 1 .. Len(s) /\ j - 1 + 1 = j
            BY <2>3, <1>1, <1>3
        <3>2. t[j] = s[j - 1] /\ b < s[j - 1] /\ j - 1 \in 1 .. Len(s)
            BY <3>1, <1>6
        <3>3. CASE i \in 1 .. p
            <4>1. i < j - 1
                BY <3>3, <2>3, <1>1
            <4> QED BY <3>2, <3>3, <4>1, <1>5 DEF Sorted
        <3>4. CASE i = p + 1
            <4>1. t[i] = b
                BY <3>4, <1>3, <1>1
            <4> QED BY <3>2, <4>1
        <3>5. CASE i \in p + 2 .. Len(t)
            <4>1. i - 1 \in p + 1 .. Len(s) /\ i - 1 + 1 = i /\ i - 1 < j - 1
                BY <3>5, <1>1, <1>3, <1>8
            <4>2. t[i] = s[i - 1] /\ i - 1 \in 1 .. Len(s)
                BY <4>1, <1>6
            <4> QED BY <3>2, <4>1, <4>2 DEF Sorted
        <3> QED BY <3>3, <3>4, <3>5, <1>4
    <2> QED BY <2>1, <2>2, <2>3, <1>4
<1>9. Sorted(t, B \cup {b})
    BY <1>3, <1>7, <1>8 DEF Sorted
<1> QED BY <1>9 DEF t, p

\* Block b is at another address.
Renamed(s, b, to) == [i \in DOMAIN s |-> IF s[i] = b THEN to ELSE s[i]]

LEMMA RenamedRange ==
    ASSUME NEW s \in Seq(Addresses), NEW F, IsRange(s, F), NEW b \in F, NEW to \in Addresses
    PROVE  /\ Renamed(s, b, to) \in Seq(Addresses) /\ Len(Renamed(s, b, to)) = Len(s)
           /\ \A i \in 1 .. Len(s) : Renamed(s, b, to)[i] = IF s[i] = b THEN to ELSE s[i]
           /\ IsRange(Renamed(s, b, to), (F \ {b}) \cup {to})
<1> DEFINE t == Renamed(s, b, to)
<1>1. Len(s) \in Nat /\ DOMAIN s = 1 .. Len(s) /\ \A i \in 1 .. Len(s) : s[i] \in Addresses
    BY LenProperties, ElementOfSeq
<1>2. t = [i \in 1 .. Len(s) |-> IF s[i] = b THEN to ELSE s[i]]
    BY <1>1 DEF Renamed
<1>3. \A i \in 1 .. Len(s) : (IF s[i] = b THEN to ELSE s[i]) \in Addresses
    BY <1>1
<1>4. t \in Seq(Addresses) /\ Len(t) = Len(s)
    BY <1>1, <1>2, <1>3
<1>5. \A i \in 1 .. Len(s) : t[i] = IF s[i] = b THEN to ELSE s[i]
    BY <1>2
<1> HIDE DEF t
<1>6. ASSUME NEW c \in (F \ {b}) \cup {to} PROVE \E i \in 1 .. Len(t) : t[i] = c
    <2>1. CASE c \in F \ {b}
        <3>1. PICK i \in 1 .. Len(s) : s[i] = c
            BY <2>1 DEF IsRange
        <3> QED BY <2>1, <3>1, <1>4, <1>5
    <2>2. CASE c = to
        <3>1. PICK i \in 1 .. Len(s) : s[i] = b
            BY DEF IsRange
        <3> QED BY <2>2, <3>1, <1>4, <1>5
    <2> QED BY <2>1, <2>2
<1>7. ASSUME NEW i \in 1 .. Len(t) PROVE t[i] \in (F \ {b}) \cup {to}
    <2>1. i \in 1 .. Len(s) /\ s[i] \in F
        BY <1>4 DEF IsRange
    <2> QED BY <2>1, <1>5
<1>8. IsRange(t, (F \ {b}) \cup {to})
    BY <1>6, <1>7 DEF IsRange
<1> QED BY <1>4, <1>5, <1>8 DEF t

LEMMA ListedRenamed ==
    ASSUME NEW s, NEW F, Listed(s, F), NEW b \in F, NEW to \in Addresses, to \notin F \ {b}
    PROVE  Listed(Renamed(s, b, to), (F \ {b}) \cup {to})
<1> DEFINE t == Renamed(s, b, to)
<1>1. /\ t \in Seq(Addresses) /\ Len(t) = Len(s)
      /\ \A i \in 1 .. Len(s) : t[i] = IF s[i] = b THEN to ELSE s[i]
      /\ IsRange(t, (F \ {b}) \cup {to})
    BY RenamedRange DEF Listed
<1> HIDE DEF t
<1>2. ASSUME NEW i \in 1 .. Len(s), NEW j \in 1 .. Len(s), t[i] = t[j] PROVE i = j
    <2>1. s[i] \in F /\ s[j] \in F
        BY DEF Listed, IsRange
    <2>2. s[i] = s[j]
        BY <2>1, <1>1, <1>2
    <2> QED BY <2>2 DEF Listed
<1> QED BY <1>1, <1>2 DEF Listed, t

LEMMA SortedRenamed ==
    ASSUME NEW s, NEW B, Sorted(s, B), NEW b \in B, NEW to \in Addresses,
           \A c \in B : (c < b => c < to) /\ (b < c => to < c)
    PROVE  Sorted(Renamed(s, b, to), (B \ {b}) \cup {to})
<1> DEFINE t == Renamed(s, b, to)
<1>1. /\ t \in Seq(Addresses) /\ Len(t) = Len(s)
      /\ \A i \in 1 .. Len(s) : t[i] = IF s[i] = b THEN to ELSE s[i]
      /\ IsRange(t, (B \ {b}) \cup {to})
    BY RenamedRange DEF Sorted
<1> HIDE DEF t
<1>2. ASSUME NEW i \in 1 .. Len(s), NEW j \in 1 .. Len(s), i < j PROVE t[i] < t[j]
    <2>1. s[i] \in B /\ s[j] \in B /\ s[i] < s[j] /\ s[i] \in Nat /\ s[j] \in Nat
        BY <1>2, ElementIs DEF Sorted, IsRange
    <2>2. CASE s[i] = b
        BY <2>1, <2>2, <1>1
    <2>3. CASE s[j] = b
        BY <2>1, <2>3, <1>1
    <2>4. CASE s[i] # b /\ s[j] # b
        BY <2>1, <2>4, <1>1
    <2> QED BY <2>2, <2>3, <2>4
<1> QED BY <1>1, <1>2 DEF Sorted, t

\* The list is ordered: what is next in it is the next block in memory.
LEMMA NextInList ==
    ASSUME NEW s, NEW B, Sorted(s, B), NEW a \in B
    PROVE  LET p == Position(s, a) IN
           /\ (\A c \in B : ~ (a < c)) => p = Len(s)
           /\ \A b \in B : a < b /\ (\A c \in B : a < c => b <= c) => p < Len(s) /\ s[p + 1] = b
<1> DEFINE p == Position(s, a)
<1>1. s \in Seq(Addresses) /\ p \in 1 .. Len(s) /\ s[p] = a /\ Len(s) \in Nat
    BY SortedIsListed, PlaceOf, LenProperties DEF Listed
<1> HIDE DEF p
<1>2. ASSUME p # Len(s) PROVE p + 1 \in 1 .. Len(s) /\ s[p + 1] \in B /\ a < s[p + 1] /\ s[p + 1] \in Nat
    <2>1. p + 1 \in 1 .. Len(s) /\ p < p + 1
        BY <1>1, <1>2
    <2> QED BY <2>1, <1>1, ElementIs DEF Sorted, IsRange
<1>3. ASSUME NEW b \in B, a < b, \A c \in B : a < c => b <= c PROVE p < Len(s) /\ s[p + 1] = b
    <2>1. PICK k \in 1 .. Len(s) : s[k] = b
        BY DEF Sorted, IsRange
    <2>2. a \in Nat /\ b \in Nat
        BY <1>1, <2>1, ElementIs
    <2>3. p < k
        <3>1. ~ (k < p) /\ k # p
            BY <1>1, <1>3, <2>1, <2>2 DEF Sorted
        <3> QED BY <1>1, <3>1
    <2>4. p # Len(s)
        BY <2>3, <1>1
    <2>5. p + 1 = k \/ p + 1 < k
        BY <2>3, <1>1
    <2>6. p + 1 < k => s[p + 1] < b
        BY <1>2, <2>1, <2>4 DEF Sorted
    <2>7. b <= s[p + 1]
        BY <1>2, <1>3, <2>4
    <2>8. p + 1 = k
        BY <1>2, <2>2, <2>4, <2>5, <2>6, <2>7
    <2> QED BY <1>1, <2>1, <2>4, <2>8
<1>4. (\A c \in B : ~ (a < c)) => p = Len(s)
    BY <1>2
<1> QED BY <1>3, <1>4 DEF p

LEMMA PreviousInList ==
    ASSUME NEW s, NEW B, Sorted(s, B), NEW a \in B
    PROVE  LET p == Position(s, a) IN
           /\ (\A c \in B : ~ (c < a)) => p = 1
           /\ \A b \in B : b < a /\ (\A c \in B : c < a => c <= b) => p # 1 /\ s[p - 1] = b
<1> DEFINE p == Position(s, a)
<1>1. s \in Seq(Addresses) /\ p \in 1 .. Len(s) /\ s[p] = a /\ Len(s) \in Nat
    BY SortedIsListed, PlaceOf, LenProperties DEF Listed
<1> HIDE DEF p
<1>2. ASSUME p # 1 PROVE p - 1 \in 1 .. Len(s) /\ s[p - 1] \in B /\ s[p - 1] < a /\ s[p - 1] \in Nat
    <2>1. p - 1 \in 1 .. Len(s) /\ p - 1 < p
        BY <1>1, <1>2
    <2> QED BY <2>1, <1>1, ElementIs DEF Sorted, IsRange
<1>3. ASSUME NEW b \in B, b < a, \A c \in B : c < a => c <= b PROVE p # 1 /\ s[p - 1] = b
    <2>1. PICK k \in 1 .. Len(s) : s[k] = b
        BY DEF Sorted, IsRange
    <2>2. a \in Nat /\ b \in Nat
        BY <1>1, <2>1, ElementIs
    <2>3. k < p
        <3>1. ~ (p < k) /\ k # p
            BY <1>1, <1>3, <2>1, <2>2 DEF Sorted
        <3> QED BY <1>1, <3>1
    <2>4. p # 1
        BY <2>3, <1>1
    <2>5. p - 1 = k \/ k < p - 1
        BY <2>3, <1>1
    <2>6. k < p - 1 => b < s[p - 1]
        BY <1>2, <2>1, <2>4 DEF Sorted
    <2>7. s[p - 1] <= b
        BY <1>2, <1>3, <2>4
    <2>8. p - 1 = k
        BY <1>2, <2>2, <2>4, <2>5, <2>6, <2>7
    <2> QED BY <2>1, <2>4, <2>8
<1>4. (\A c \in B : ~ (c < a)) => p = 1
    BY <1>2
<1> QED BY <1>3, <1>4 DEF p


-----------------------------------------------------------------------------
(* Headers. *)

Header == [size : 0 .. HeapUnits, type : BlockTypes, pad : 0 .. 255]
Headers == [Addresses -> Header]

BlocksOf(f) == {a \in Addresses : f[a].type # "None"}
FreeOf(f) == {a \in Addresses : f[a].type = "Free"}
End(f, a) == a + HeaderUnits + f[a].size

\* Every block ends where another starts or the heap ends, and none starts inside another.
Tiles(f) ==
    /\ 0 \in BlocksOf(f)
    /\ \A a \in BlocksOf(f) : End(f, a) \in BlocksOf(f) \cup {HeapUnits}
    /\ \A a, b \in BlocksOf(f) : a < b => End(f, a) <= b

\* No free block ends where another one starts.
Apart(f) == \A a \in FreeOf(f) : End(f, a) \notin FreeOf(f)

LEMMA HeaderType ==
    ASSUME NEW f \in Headers, NEW a \in Addresses
    PROVE  /\ a \in Nat /\ a < HeapUnits /\ f[a] \in Header
           /\ f[a].size \in Nat /\ f[a].size <= HeapUnits /\ End(f, a) \in Nat /\ a < End(f, a)
<1>1. a \in Nat /\ a < HeapUnits /\ HeapUnits \in Nat /\ HeaderUnits \in Nat /\ 0 < HeaderUnits
    BY HeapAssumption DEF Addresses
<1>2. f[a] \in Header
    BY DEF Headers
<1>3. f[a].size \in 0 .. HeapUnits
    BY <1>2 DEF Header
<1> QED BY <1>1, <1>2, <1>3 DEF End

LEMMA EndIs ==
    ASSUME NEW f \in Headers, Tiles(f), NEW a \in BlocksOf(f)
    PROVE  /\ a \in Addresses /\ End(f, a) <= HeapUnits
           /\ End(f, a) = HeapUnits \/ (End(f, a) \in BlocksOf(f) /\ End(f, a) \in Addresses /\ End(f, a) # HeapUnits)
           /\ \A c \in BlocksOf(f) : a < c => End(f, a) <= c
           /\ End(f, a) = HeapUnits => \A c \in BlocksOf(f) : ~ (a < c)
<1>1. a \in Addresses
    BY DEF BlocksOf
<1>2. \A c \in BlocksOf(f) : c \in Nat /\ c < HeapUnits /\ c \in Addresses
    BY HeaderType DEF BlocksOf
<1>3. End(f, a) \in Nat /\ HeapUnits \in Nat
    BY <1>1, HeaderType, HeapAssumption
<1>4. End(f, a) \in BlocksOf(f) \cup {HeapUnits}
    BY DEF Tiles
<1>5. \A c \in BlocksOf(f) : a < c => End(f, a) <= c
    BY DEF Tiles
<1>6. End(f, a) = HeapUnits \/ (End(f, a) \in BlocksOf(f) /\ End(f, a) \in Addresses /\ End(f, a) < HeapUnits)
    BY <1>2, <1>4
<1> QED BY <1>1, <1>2, <1>3, <1>5, <1>6

\* Block a is cut in two, the second part at b.
LEMMA SplitTiles ==
    ASSUME NEW f \in Headers, Tiles(f), NEW a \in BlocksOf(f), NEW g \in Headers, NEW b \in Addresses,
           g[a].type # "None", g[b].type # "None", End(g, a) = b, End(g, b) = End(f, a),
           \A c \in Addresses \ {a, b} : g[c] = f[c]
    PROVE  /\ Tiles(g) /\ b \notin BlocksOf(f) /\ BlocksOf(g) = BlocksOf(f) \cup {b}
           /\ a < b /\ \A c \in BlocksOf(f) : a < c => b < c
<1>1. a \in Addresses /\ a \in Nat /\ b \in Nat /\ a < b /\ b < End(f, a) /\ End(f, a) \in Nat
    BY HeaderType, EndIs
<1>2. \A c \in BlocksOf(f) : a < c => b < c
    BY <1>1, EndIs, HeaderType DEF BlocksOf
<1>3. b \notin BlocksOf(f)
    BY <1>1, <1>2
<1>4. BlocksOf(g) = BlocksOf(f) \cup {b}
    BY <1>1 DEF BlocksOf
<1>5. \A c \in BlocksOf(f) \ {a} : End(g, c) = End(f, c)
    BY <1>3 DEF BlocksOf, End
<1>6. ASSUME NEW c \in BlocksOf(g) PROVE End(g, c) \in BlocksOf(g) \cup {HeapUnits}
    <2>1. CASE c = a
        BY <2>1, <1>4
    <2>2. CASE c = b
        BY <2>2, <1>4 DEF Tiles
    <2>3. CASE c \in BlocksOf(f) \ {a}
        BY <2>3, <1>4, <1>5 DEF Tiles
    <2> QED BY <2>1, <2>2, <2>3, <1>4
<1>7. ASSUME NEW c \in BlocksOf(g), NEW d \in BlocksOf(g), c < d PROVE End(g, c) <= d
    <2>0. c \in Nat /\ d \in Nat
        BY HeaderType DEF BlocksOf
    <2>1. CASE c = a
        <3>1. CASE d = b
            BY <2>1, <3>1, <1>1
        <3>2. CASE d # b
            <4>1. d \in BlocksOf(f)
                BY <3>2, <1>4
            <4>2. b < d
                BY <4>1, <2>1, <1>2, <1>7
            <4> QED BY <4>2, <2>0, <2>1, <1>1
        <3> QED BY <3>1, <3>2
    <2>2. CASE c = b
        <3>1. d \in BlocksOf(f)
            BY <2>2, <1>1, <1>4, <1>7
        <3>2. a < d
            BY <2>0, <2>2, <1>1, <1>7
        <3> QED BY <3>1, <3>2, <2>2 DEF Tiles
    <2>3. CASE c \in BlocksOf(f) \ {a}
        <3>1. CASE d = b
            <4>1. c < a
                <5>1. a < c => b < c
                    BY <2>3, <1>2
                <5> QED BY <5>1, <3>1, <2>0, <2>3, <1>1, <1>7
            <4>2. End(f, c) <= a /\ End(f, c) \in Nat
                BY <4>1, <2>3, HeaderType DEF Tiles, BlocksOf
            <4> QED BY <4>2, <3>1, <2>3, <1>1, <1>5
        <3>2. CASE d # b
            BY <3>2, <2>3, <1>4, <1>5, <1>7 DEF Tiles
        <3> QED BY <3>1, <3>2
    <2> QED BY <2>1, <2>2, <2>3, <1>4
<1>8. 0 \in BlocksOf(g)
    BY <1>4 DEF Tiles
<1> QED BY <1>1, <1>2, <1>3, <1>4, <1>6, <1>7, <1>8 DEF Tiles

\* Block a takes over the block b after it.
LEMMA MergeTiles ==
    ASSUME NEW f \in Headers, Tiles(f), NEW a \in BlocksOf(f), NEW b \in BlocksOf(f), End(f, a) = b,
           NEW g \in Headers, g[a].type # "None", g[b].type = "None", End(g, a) = End(f, b),
           \A c \in Addresses \ {a, b} : g[c] = f[c]
    PROVE  Tiles(g) /\ BlocksOf(g) = BlocksOf(f) \ {b} /\ a < b
<1>1. a \in Addresses /\ b \in Addresses /\ a \in Nat /\ b \in Nat /\ a < b /\ b < End(f, b) /\ End(f, b) \in Nat
    BY HeaderType, EndIs
<1>2. BlocksOf(g) = BlocksOf(f) \ {b}
    BY <1>1 DEF BlocksOf
<1>3. \A c \in BlocksOf(g) \ {a} : End(g, c) = End(f, c)
    BY <1>2 DEF BlocksOf, End
<1>4. 0 \in BlocksOf(g)
    BY <1>1, <1>2 DEF Tiles
<1>5. ASSUME NEW c \in BlocksOf(g), NEW d \in BlocksOf(g), c < d PROVE End(g, c) <= d
    <2>0. c \in Nat /\ d \in Nat /\ d \in BlocksOf(f)
        BY <1>2, HeaderType DEF BlocksOf
    <2>1. CASE c = a
        <3>1. b <= d /\ d # b
            BY <2>0, <2>1, <1>2, <1>5 DEF Tiles
        <3>2. b < d
            BY <3>1, <2>0, <1>1
        <3> QED BY <3>2, <2>0, <2>1 DEF Tiles
    <2>2. CASE c # a
        BY <2>2, <2>0, <1>2, <1>3, <1>5 DEF Tiles
    <2> QED BY <2>1, <2>2
<1>6. ASSUME NEW c \in BlocksOf(g) PROVE End(g, c) \in BlocksOf(g) \cup {HeapUnits}
    <2>1. CASE c = a
        <3>1. End(f, b) \in BlocksOf(f) \cup {HeapUnits} /\ End(f, b) # b
            BY <1>1 DEF Tiles
        <3> QED BY <3>1, <2>1, <1>2
    <2>2. CASE c # a
        <3>1. c \in BlocksOf(f) /\ End(g, c) = End(f, c) /\ End(f, c) \in BlocksOf(f) \cup {HeapUnits}
            BY <2>2, <1>2, <1>3 DEF Tiles
        <3>2. End(f, c) # b
            <4>1. c \in Nat /\ c < End(f, c) /\ End(f, c) \in Nat
                BY <3>1, HeaderType DEF BlocksOf
            <4>2. CASE c < a
                <5>1. End(f, c) <= a
                    BY <4>2, <3>1 DEF Tiles
                <5> QED BY <5>1, <4>1, <1>1
            <4>3. CASE a < c
                <5>1. b <= c
                    BY <4>3, <3>1 DEF Tiles
                <5> QED BY <5>1, <4>1, <1>1
            <4> QED BY <4>1, <4>2, <4>3, <2>2, <1>1
        <3> QED BY <3>1, <3>2, <1>2
    <2> QED BY <2>1, <2>2
<1> QED BY <1>1, <1>2, <1>4, <1>5, <1>6 DEF Tiles

\* The boundary of block a and the block b after it moves to another address.
LEMMA MoveTiles ==
    ASSUME NEW f \in Headers, Tiles(f), NEW a \in BlocksOf(f), NEW b \in BlocksOf(f), End(f, a) = b,
           NEW to \in Addresses, to # b, NEW g \in Headers,
           g[a].type # "None", g[b].type = "None", g[to].type # "None",
           End(g, a) = to, End(g, to) = End(f, b),
           \A c \in Addresses \ {a, b, to} : g[c] = f[c]
    PROVE  /\ Tiles(g) /\ BlocksOf(g) = (BlocksOf(f) \ {b}) \cup {to} /\ a < to
           /\ \A c \in BlocksOf(f) : (c < b => c < to) /\ (b < c => to < c)
           /\ to \notin BlocksOf(f)
<1>1. /\ a \in Addresses /\ b \in Addresses /\ a \in Nat /\ b \in Nat /\ a < b /\ b < End(f, b) /\ End(f, b) \in Nat
      /\ to \in Nat /\ a < to /\ to < End(f, b)
    BY HeaderType, EndIs
<1>2. ASSUME NEW c \in BlocksOf(f) PROVE (c < b => c <= a) /\ (b < c => to < c)
    <2>1. c \in Nat /\ (a < c => b <= c) /\ (b < c => End(f, b) <= c)
        BY HeaderType DEF Tiles, BlocksOf
    <2> QED BY <2>1, <1>1
<1>3. \A c \in BlocksOf(f) : (c < b => c < to) /\ (b < c => to < c)
    <2> TAKE c \in BlocksOf(f)
    <2>1. c \in Nat
        BY HeaderType DEF BlocksOf
    <2> QED BY <2>1, <1>1, <1>2
<1>4. to \notin BlocksOf(f)
    <2> SUFFICES ASSUME to \in BlocksOf(f) PROVE FALSE
        OBVIOUS
    <2>1. (to < b => to < to) /\ (b < to => to < to)
        BY <1>3
    <2> QED BY <2>1, <1>1
<1>5. BlocksOf(g) = (BlocksOf(f) \ {b}) \cup {to}
    BY <1>1 DEF BlocksOf
<1>6. \A c \in BlocksOf(g) \ {a, to} : c \in BlocksOf(f) /\ c # b /\ End(g, c) = End(f, c)
    BY <1>5 DEF BlocksOf, End
<1>7. 0 \in BlocksOf(g)
    BY <1>1, <1>5 DEF Tiles
<1>8. ASSUME NEW c \in BlocksOf(g), NEW d \in BlocksOf(g), c < d PROVE End(g, c) <= d
    <2>0. c \in Nat /\ d \in Nat
        BY HeaderType DEF BlocksOf
    <2>1. CASE c = a
        <3>1. CASE d = to
            BY <3>1, <2>1, <1>1
        <3>2. CASE d # to
            <4>1. d \in BlocksOf(f) /\ d # b
                BY <3>2, <1>5
            <4>2. b <= d
                BY <4>1, <2>1, <1>8 DEF Tiles
            <4>3. to < d
                BY <4>1, <4>2, <2>0, <1>1, <1>3
            <4> QED BY <4>3, <2>0, <2>1, <1>1
        <3> QED BY <3>1, <3>2
    <2>2. CASE c = to
        <3>1. d \in BlocksOf(f) /\ d # b /\ d # a
            BY <2>2, <2>0, <1>1, <1>5, <1>8
        <3>2. ~ (d < b)
            <4>1. d < b => d <= a
                BY <3>1, <1>2
            <4> QED BY <4>1, <2>0, <2>2, <1>1, <1>8
        <3>3. b < d
            BY <3>1, <3>2, <2>0, <1>1
        <3> QED BY <3>1, <3>3, <2>2 DEF Tiles
    <2>3. CASE c \notin {a, to}
        <3>1. c \in BlocksOf(f) /\ c # b /\ End(g, c) = End(f, c) /\ End(f, c) \in Nat
            BY <2>3, <1>6, HeaderType DEF BlocksOf
        <3>2. CASE d = to
            <4>1. c < b
                <5>1. b < c => to < c
                    BY <3>1, <1>3
                <5> QED BY <5>1, <3>1, <3>2, <2>0, <1>1, <1>8
            <4>2. c < a
                BY <4>1, <3>1, <2>0, <2>3, <1>1, <1>2
            <4>3. End(f, c) <= a
                BY <4>2, <3>1 DEF Tiles
            <4> QED BY <4>3, <3>1, <3>2, <1>1
        <3>3. CASE d # to
            <4>1. d \in BlocksOf(f)
                BY <3>3, <1>5
            <4> QED BY <4>1, <3>1, <1>8 DEF Tiles
        <3> QED BY <3>2, <3>3
    <2> QED BY <2>1, <2>2, <2>3
<1>9. ASSUME NEW c \in BlocksOf(g) PROVE End(g, c) \in BlocksOf(g) \cup {HeapUnits}
    <2>1. CASE c = a
        BY <2>1, <1>5
    <2>2. CASE c = to
        <3>1. End(f, b) \in BlocksOf(f) \cup {HeapUnits} /\ End(f, b) # b
            BY <1>1 DEF Tiles
        <3> QED BY <3>1, <2>2, <1>5
    <2>3. CASE c \notin {a, to}
        <3>1. c \in BlocksOf(f) /\ c # b /\ End(g, c) = End(f, c) /\ End(f, c) \in BlocksOf(f) \cup {HeapUnits}
            BY <2>3, <1>6 DEF Tiles
        <3>2. End(f, c) # b
            <4>1. c \in Nat /\ c < End(f, c) /\ End(f, c) \in Nat
                BY <3>1, HeaderType DEF BlocksOf
            <4>2. CASE c < a
                <5>1. End(f, c) <= a
                    BY <4>2, <3>1 DEF Tiles
                <5> QED BY <5>1, <4>1, <1>1
            <4>3. CASE a < c
                <5>1. b <= c
                    BY <4>3, <3>1 DEF Tiles
                <5> QED BY <5>1, <4>1, <1>1
            <4> QED BY <4>1, <4>2, <4>3, <2>3, <1>1
        <3> QED BY <3>1, <3>2, <1>5
    <2> QED BY <2>1, <2>2, <2>3
<1> QED BY <1>1, <1>3, <1>4, <1>5, <1>7, <1>8, <1>9 DEF Tiles

\* Blocks change their type or padding.
LEMMA SameTiles ==
    ASSUME NEW f \in Headers, Tiles(f), NEW g \in Headers,
           \A c \in Addresses : g[c].size = f[c].size /\ (g[c].type = "None" <=> f[c].type = "None")
    PROVE  Tiles(g) /\ BlocksOf(g) = BlocksOf(f) /\ \A c \in Addresses : End(g, c) = End(f, c)
<1>1. BlocksOf(g) = BlocksOf(f)
    BY DEF BlocksOf
<1>2. \A c \in Addresses : End(g, c) = End(f, c)
    BY DEF End
<1>3. \A c \in BlocksOf(f) : End(g, c) = End(f, c)
    BY <1>2 DEF BlocksOf
<1> QED BY <1>1, <1>2, <1>3 DEF Tiles


-----------------------------------------------------------------------------
(* The memory. *)

UsedOf(f) == {a \in Addresses : f[a].type \in {"Allocated", "Locked"}}

MemoryInv(m) ==
    /\ m \in [block : Headers, order : Seq(Addresses), free : Seq(Addresses)]
    /\ Tiles(m.block) /\ Sorted(m.order, BlocksOf(m.block)) /\ Listed(m.free, FreeOf(m.block))

LEMMA KindsOf ==
    ASSUME NEW f \in Headers
    PROVE  /\ FreeOf(f) \subseteq BlocksOf(f) /\ UsedOf(f) \subseteq BlocksOf(f)
           /\ BlocksOf(f) = FreeOf(f) \cup UsedOf(f) /\ FreeOf(f) \cap UsedOf(f) = {}
<1>1. \A a \in Addresses : f[a].type \in BlockTypes
    BY HeaderType DEF Header
<1> QED BY <1>1 DEF FreeOf, BlocksOf, UsedOf, BlockTypes

LEMMA NextIs ==
    ASSUME NEW m, MemoryInv(m), NEW a \in BlocksOf(m.block)
    PROVE  NextOf(m, a) = End(m.block, a)
<1> DEFINE s == m.order
           B == BlocksOf(m.block)
           e == End(m.block, a)
           p == Position(s, a)
<1>1. Sorted(s, B) /\ m.block \in Headers /\ Tiles(m.block)
    BY DEF MemoryInv
<1>2. /\ e = HeapUnits \/ (e \in B /\ e # HeapUnits)
      /\ \A c \in B : a < c => e <= c
      /\ e = HeapUnits => \A c \in B : ~ (a < c)
    BY <1>1, EndIs
<1>3. a < e
    BY <1>1, EndIs, HeaderType
<1>4. NextOf(m, a) = IF p = Len(s) THEN NoBlock ELSE s[p + 1]
    BY DEF NextOf
<1>5. p \in 1 .. Len(s) /\ Len(s) \in Nat
    BY <1>1, SortedIsListed, PlaceOf, LenProperties DEF Sorted
<1>6. /\ (\A c \in B : ~ (a < c)) => p = Len(s)
      /\ \A b \in B : a < b /\ (\A c \in B : a < c => b <= c) => p < Len(s) /\ s[p + 1] = b
    BY <1>1, NextInList
<1> HIDE DEF s, B, e, p
<1>7. CASE e = HeapUnits
    BY <1>2, <1>4, <1>6, <1>7 DEF NoBlock, e
<1>8. CASE e \in B
    <2>1. p < Len(s) /\ s[p + 1] = e
        BY <1>2, <1>3, <1>6, <1>8
    <2>2. p # Len(s)
        BY <1>5, <2>1
    <2> QED BY <1>4, <2>1, <2>2 DEF e
<1> QED BY <1>2, <1>7, <1>8

LEMMA PreviousIs ==
    ASSUME NEW m, MemoryInv(m), NEW a \in BlocksOf(m.block)
    PROVE  /\ PreviousOf(m, a) # NoBlock
              => /\ PreviousOf(m, a) \in BlocksOf(m.block) /\ End(m.block, PreviousOf(m, a)) = a
           /\ \A b \in BlocksOf(m.block) : End(m.block, b) = a => PreviousOf(m, a) = b /\ b # NoBlock
<1> DEFINE s == m.order
           B == BlocksOf(m.block)
           p == Position(s, a)
           e(b) == End(m.block, b)
<1>1. Sorted(s, B) /\ m.block \in Headers /\ Tiles(m.block) /\ s \in Seq(Addresses)
    BY DEF MemoryInv
<1>2. p \in 1 .. Len(s) /\ s[p] = a /\ Len(s) \in Nat /\ a \in Nat
    BY <1>1, SortedIsListed, PlaceOf, LenProperties, AddressType
<1>3. \A b \in B : b \in Nat /\ b # NoBlock /\ b < e(b) /\ e(b) \in Nat
    BY <1>1, HeaderType, AddressType DEF BlocksOf
<1>4. \A b, c \in B : b < c => e(b) <= c
    BY <1>1 DEF Tiles
<1>5. \A b \in B : e(b) \in B \cup {HeapUnits} /\ a < HeapUnits
    BY <1>1, HeaderType, EndIs DEF Tiles
<1>6. PreviousOf(m, a) = IF p = 1 THEN NoBlock ELSE s[p - 1]
    BY DEF PreviousOf
<1>7. \A b \in B : b < a /\ (\A c \in B : c < a => c <= b) => p # 1 /\ s[p - 1] = b
    BY <1>1, PreviousInList
<1>8. IsRange(s, B) /\ \A i, j \in 1 .. Len(s) : i < j => s[i] < s[j]
    BY <1>1 DEF Sorted
<1> HIDE DEF s, p
<1>9. a \in B
    OBVIOUS
<1> HIDE DEF B, e
<1>10. ASSUME NEW b \in B, e(b) = a PROVE PreviousOf(m, a) = b /\ b # NoBlock
    <2>1. b < a
        BY <1>3, <1>10
    <2>2. ASSUME NEW c \in B, c < a PROVE c <= b
        <3>1. b < c => a <= c
            BY <1>4, <1>10
        <3> QED BY <3>1, <2>2, <1>3, <1>2
    <2> QED BY <2>1, <2>2, <1>3, <1>6, <1>7
<1>11. ASSUME PreviousOf(m, a) # NoBlock PROVE PreviousOf(m, a) \in B /\ e(PreviousOf(m, a)) = a
    <2> DEFINE q == s[p - 1]
    <2>1. p # 1 /\ PreviousOf(m, a) = q
        BY <1>6, <1>11
    <2>2. p - 1 \in 1 .. Len(s) /\ p - 1 < p
        BY <1>2, <2>1
    <2>3. q \in B /\ q < a
        BY <2>2, <1>2, <1>8 DEF IsRange
    <2>4. e(q) <= a /\ q < e(q) /\ e(q) \in Nat /\ q \in Nat
        BY <2>3, <1>3, <1>4, <1>9
    <2>5. e(q) # HeapUnits
        BY <2>3, <2>4, <1>2, <1>5, HeapAssumption
    <2>6. e(q) \in B
        BY <2>3, <2>5, <1>5
    <2>7. PICK k \in 1 .. Len(s) : s[k] = e(q)
        BY <2>6, <1>8 DEF IsRange
    <2>8. ~ (k < p)
        <3> SUFFICES ASSUME k < p PROVE FALSE
            OBVIOUS
        <3>1. k = p - 1 \/ k < p - 1
            BY <1>2
        <3>2. k = p - 1 => e(q) = q
            BY <2>7
        <3>3. k < p - 1 => e(q) < q
            BY <2>2, <2>7, <1>8
        <3> HIDE DEF q
        <3> QED BY <3>1, <3>2, <3>3, <2>4
    <2>9. k = p \/ p < k
        BY <2>8, <1>2
    <2>10. k = p => e(q) = a
        BY <2>7, <1>2
    <2>11. p < k => a < e(q)
        BY <2>7, <1>2, <1>8
    <2> HIDE DEF q
    <2> QED BY <2>1, <2>3, <2>4, <2>9, <2>10, <2>11, <1>2
<1> QED BY <1>10, <1>11 DEF B, e

LEMMA UnitsType ==
    ASSUME NEW bytes \in Nat \ {0}
    PROVE  UnitsOf(bytes) \in Nat \ {0}
BY HeapAssumption DEF UnitsOf

LEMMA IdealBlock ==
    ASSUME NEW m, MemoryInv(m), NEW bytes \in Nat \ {0}, ExpFindIdealBlock(m, bytes) # NoBlock
    PROVE  /\ ExpFindIdealBlock(m, bytes) \in FreeOf(m.block)
           /\ UnitsOf(bytes) <= m.block[ExpFindIdealBlock(m, bytes)].size
<1> DEFINE fits == Fits(m, bytes)
           sizes == {SizeAt(m, i) : i \in fits}
           best == Smallest(m, fits)
<1>1. m.free \in Seq(Addresses) /\ m.block \in Headers /\ IsRange(m.free, FreeOf(m.block))
    BY DEF MemoryInv, Listed
<1>2. DOMAIN m.free = 1 .. Len(m.free) /\ Len(m.free) \in Nat
    BY <1>1, LenProperties
<1>3. fits \subseteq DOMAIN m.free /\ \A i \in fits : SizeAt(m, i) >= UnitsOf(bytes)
    BY DEF Fits
<1>4. fits # {} /\ ExpFindIdealBlock(m, bytes) = m.free[First(best)]
    BY DEF ExpFindIdealBlock
<1>5. \A i \in DOMAIN m.free : SizeAt(m, i) \in Nat
    BY <1>1, <1>2, HeaderType, ElementOfSeq DEF SizeAt
<1> HIDE DEF fits
<1>6. sizes \in SUBSET Nat /\ sizes # {}
    BY <1>3, <1>4, <1>5
<1>7. First(sizes) \in sizes /\ \A n \in sizes : First(sizes) <= n
    BY <1>6, Least
<1>8. best # {} /\ best \subseteq fits
    <2>1. PICK i \in fits : SizeAt(m, i) = First(sizes)
        BY <1>7
    <2>2. \A j \in fits : SizeAt(m, i) <= SizeAt(m, j)
        BY <2>1, <1>7
    <2> QED BY <2>2 DEF Smallest
<1> HIDE DEF best, sizes
<1>9. best \in SUBSET Nat
    BY <1>2, <1>3, <1>8
<1>10. First(best) \in best
    BY <1>8, <1>9, Least
<1>11. First(best) \in 1 .. Len(m.free) /\ SizeAt(m, First(best)) >= UnitsOf(bytes)
    BY <1>2, <1>3, <1>8, <1>10
<1>12. m.free[First(best)] \in FreeOf(m.block)
    BY <1>1, <1>11 DEF IsRange
<1>13. SizeAt(m, First(best)) \in Nat /\ UnitsOf(bytes) \in Nat
    BY <1>2, <1>5, <1>11, UnitsType
<1> QED BY <1>4, <1>11, <1>12, <1>13 DEF SizeAt

LEMMA ByteType ==
    ASSUME NEW n \in Int
    PROVE  Byte(n) \in 0 .. 255
BY DEF Byte


-----------------------------------------------------------------------------
(* The routines. *)

\* Memory m with another header at a and another free list.
With(m, a, h, s) == [block |-> [m.block EXCEPT ![a] = h], order |-> m.order, free |-> s]

Replaced(m, a, h, s) == [m EXCEPT !.block[a] = h, !.free = s]

LEMMA Written ==
    ASSUME NEW m, MemoryInv(m), NEW a, NEW h, NEW s
    PROVE  Replaced(m, a, h, s) = With(m, a, h, s)
<1> DEFINE u == [m EXCEPT !.block[a] = h, !.free = s]
           b == [m.block EXCEPT ![a] = h]
           r == [block |-> b, order |-> m.order, free |-> s]
           D == {"block", "order", "free"}
<1>0. m = [x \in D |-> m[x]]
    BY DEF MemoryInv
<1>1. u.block = b /\ u.order = m.order /\ u.free = s
    BY <1>0
<1>2. u = [x \in D |-> u[x]]
    BY <1>0
<1> HIDE DEF b
<1>3. r.block = b /\ r.order = m.order /\ r.free = s /\ r = [x \in D |-> r[x]]
    OBVIOUS
<1> HIDE DEF r, u
<1>4. \A x \in D : r[x] = u[x]
    BY <1>1, <1>3
<1>5. u = r
    BY <1>2, <1>3, <1>4
<1> QED BY <1>5 DEF u, r, b, With, Replaced

\* What a routine leaves of the blocks that are in use.
Keeps(m, k, given, back) ==
    /\ UsedOf(k.block) = (UsedOf(m.block) \ back) \cup given
    /\ \A c \in UsedOf(m.block) \ (given \cup back) : k.block[c] = m.block[c]

\* Block a gets header h, and what it loses becomes a free block.
Cut(m, a, h, s) == NewFreeBlock(With(m, a, h, s), a, a + HeaderUnits + h.size,
                                m.block[a].size - h.size - HeaderUnits)

LEMMA Rest ==
    ASSUME NEW m, MemoryInv(m), NEW a \in BlocksOf(m.block), NEW h \in Header, h.type = "Allocated",
           m.block[a].size - h.size > HeaderUnits,
           NEW s, Listed(s, FreeOf(m.block) \ {a}),
           Apart(m.block), End(m.block, a) \notin FreeOf(m.block)
    PROVE  /\ MemoryInv(Cut(m, a, h, s)) /\ Apart(Cut(m, a, h, s).block)
           /\ Keeps(m, Cut(m, a, h, s), {a}, {}) /\ Cut(m, a, h, s).block[a] = h
<1> DEFINE f == m.block
           b == a + HeaderUnits + h.size
           n == f[a].size - h.size - HeaderUnits
           e == [size |-> n, type |-> "Free", pad |-> 0]
           g == [[f EXCEPT ![a] = h] EXCEPT ![b] = e]
           order2 == InsertAt(m.order, Position(m.order, a) + 1, b)
           k == [block |-> g, order |-> order2, free |-> Append(s, b)]
<1>1. f \in Headers /\ Tiles(f) /\ Sorted(m.order, BlocksOf(f))
    BY DEF MemoryInv
<1>2. /\ a \in Addresses /\ a \in Nat /\ f[a].size \in Nat /\ f[a].size <= HeapUnits
      /\ End(f, a) = a + HeaderUnits + f[a].size /\ End(f, a) <= HeapUnits
    BY <1>1, HeaderType, EndIs DEF End
<1>3. h.size \in Nat /\ HeaderUnits \in Nat /\ HeaderUnits > 0 /\ HeapUnits \in Nat
    BY HeapAssumption DEF Header
<1>4. b \in Nat /\ a < b /\ b < HeapUnits /\ n \in 0 .. HeapUnits /\ b + HeaderUnits + n = End(f, a)
    BY <1>2, <1>3
<1>5. b \in Addresses /\ b # a
    BY <1>2, <1>4, HeapAssumption DEF Addresses
<1> HIDE DEF b, n
<1>6. e \in Header /\ e.type = "Free" /\ e.size = n
    BY <1>4, HeapAssumption DEF Header, BlockTypes
<1> HIDE DEF e, f
<1>7. g \in Headers /\ g[a] = h /\ g[b] = e /\ \A c \in Addresses \ {a, b} : g[c] = f[c]
    BY <1>1, <1>2, <1>5, <1>6 DEF Headers
<1> HIDE DEF g
<1>8. End(g, a) = b /\ End(g, b) = End(f, a)
    BY <1>4, <1>6, <1>7 DEF End, b
<1>9. /\ Tiles(g) /\ b \notin BlocksOf(f) /\ BlocksOf(g) = BlocksOf(f) \cup {b}
      /\ \A c \in BlocksOf(f) : a < c => b < c
    BY <1>1, <1>4, <1>5, <1>6, <1>7, <1>8, SplitTiles DEF f
<1>10. Sorted(order2, BlocksOf(g))
    BY <1>1, <1>4, <1>5, <1>9, SortedInsert DEF f
<1>11. FreeOf(g) = (FreeOf(f) \ {a}) \cup {b} /\ UsedOf(g) = UsedOf(f) \cup {a}
    BY <1>2, <1>5, <1>6, <1>7, <1>9 DEF FreeOf, UsedOf, BlocksOf
<1>12. b \notin FreeOf(f) \ {a}
    BY <1>1, <1>9, KindsOf
<1>13. Listed(Append(s, b), FreeOf(g))
    BY <1>5, <1>11, <1>12, ListedAppend DEF f
<1> HIDE DEF order2
<1>14. MemoryInv(k)
    BY <1>7, <1>9, <1>10, <1>13 DEF MemoryInv, Sorted, Listed
<1>15. ASSUME NEW c \in FreeOf(g) PROVE End(g, c) \notin FreeOf(g)
    <2>1. CASE c = b
        <3>1. End(g, c) \notin FreeOf(f) /\ End(g, c) # b
            BY <2>1, <1>4, <1>7, <1>8, HeaderType, <1>5 DEF f
        <3> QED BY <3>1, <1>11
    <2>2. CASE c # b
        <3>1. c \in FreeOf(f) /\ c # a /\ c \in Addresses /\ c \in BlocksOf(f)
            BY <2>2, <1>1, <1>11, KindsOf DEF FreeOf
        <3>2. End(g, c) = End(f, c)
            BY <2>2, <3>1, <1>7 DEF End
        <3>3. End(f, c) \notin FreeOf(f)
            BY <3>1 DEF Apart, f
        <3>4. End(f, c) # b
            <4>1. End(f, c) \in BlocksOf(f) \cup {HeapUnits}
                BY <3>1, <1>1 DEF Tiles
            <4> QED BY <4>1, <1>4, <1>9, <1>3
        <3> QED BY <3>2, <3>3, <3>4, <1>11
    <2> QED BY <2>1, <2>2
<1>16. Apart(g)
    BY <1>15 DEF Apart
<1>17. \A c \in UsedOf(f) \ {a} : g[c] = f[c]
    <2> TAKE c \in UsedOf(f) \ {a}
    <2>1. c \in Addresses /\ c \in BlocksOf(f)
        BY <1>1, KindsOf DEF BlocksOf
    <2> QED BY <2>1, <1>7, <1>9
<1>18. Keeps(m, k, {a}, {})
    BY <1>11, <1>17 DEF Keeps, f
<1>19. k.block = g
    OBVIOUS
<1> HIDE DEF k
<1>20. MemoryInv(k) /\ Apart(k.block) /\ Keeps(m, k, {a}, {}) /\ k.block[a] = h
    BY <1>14, <1>16, <1>18, <1>19, <1>7
<1>21. k = Cut(m, a, h, s)
    BY DEF Cut, NewFreeBlock, With, k, g, order2, b, n, e, f
<1> QED BY <1>20, <1>21

LEMMA AllocatedIn ==
    ASSUME NEW m, MemoryInv(m), Apart(m.block), NEW a \in FreeOf(m.block), NEW bytes \in Nat \ {0},
           UnitsOf(bytes) <= m.block[a].size
    PROVE  LET k == ExpAllocateHeapInBlock(m, a, bytes)
           IN  /\ MemoryInv(k) /\ Apart(k.block) /\ Keeps(m, k, {a}, {})
               /\ k.block[a].type = "Allocated" /\ UnitsOf(bytes) <= k.block[a].size
<1> DEFINE f == m.block
           n == UnitsOf(bytes)
           rest == f[a].size - n
           size == IF rest <= HeaderUnits THEN f[a].size ELSE n
           h == [size |-> size, type |-> "Allocated", pad |-> Byte(size * Align - bytes)]
           s == RemoveEntryList(m.free, a)
           used == [m EXCEPT !.block[a] = h, !.free = s]
           k == ExpAllocateHeapInBlock(m, a, bytes)
<1>1. f \in Headers /\ Tiles(f) /\ Sorted(m.order, BlocksOf(f)) /\ Listed(m.free, FreeOf(f))
    BY DEF MemoryInv
<1>2. a \in Addresses /\ a \in BlocksOf(f) /\ a \notin UsedOf(f)
    BY <1>1, KindsOf DEF FreeOf
<1>3. n \in Nat \ {0} /\ f[a].size \in Nat /\ f[a].size <= HeapUnits /\ n <= f[a].size
    BY <1>1, <1>2, HeaderType, UnitsType
<1>4. HeaderUnits \in Nat /\ HeaderUnits > 0 /\ HeapUnits \in Nat /\ Align \in Nat
    BY HeapAssumption
<1>5. Listed(s, FreeOf(f) \ {a})
    BY <1>1, ListedRemove
<1> HIDE DEF n, s
<1>6. size \in 0 .. HeapUnits /\ n <= size /\ size \in Int
    BY <1>3, <1>4
<1>7. Byte(size * Align - bytes) \in 0 .. 255
    <2> HIDE DEF size
    <2>1. size * Align \in Int
        BY <1>4, <1>6
    <2>2. size * Align - bytes \in Int
        BY <2>1
    <2> QED BY <2>2, ByteType
<1>8. h \in Header /\ h.type = "Allocated" /\ h.size = size
    BY <1>6, <1>7 DEF Header, BlockTypes
<1>9. used = With(m, a, h, s)
    <2>1. used = Replaced(m, a, h, s)
        BY DEF Replaced
    <2>2. Replaced(m, a, h, s) = With(m, a, h, s)
        BY Written, Zenon
    <2> QED BY <2>1, <2>2, Zenon
<1>10. k = IF rest <= HeaderUnits THEN used
           ELSE NewFreeBlock(used, a, a + HeaderUnits + n, rest - HeaderUnits)
    BY DEF ExpAllocateHeapInBlock, n, s
<1>11. CASE rest <= HeaderUnits
    <2> DEFINE g == [f EXCEPT ![a] = h]
    <2>1. size = f[a].size
        BY <1>11
    <2> HIDE DEF size, rest
    <2> HIDE DEF h
    <2>2. g \in Headers /\ g[a] = h /\ \A c \in Addresses \ {a} : g[c] = f[c]
        BY <1>1, <1>2, <1>8 DEF Headers
    <2> HIDE DEF g
    <2>3. \A c \in Addresses : g[c].size = f[c].size /\ (g[c].type = "None" <=> f[c].type = "None")
        <3> TAKE c \in Addresses
        <3>1. CASE c = a
            BY <3>1, <2>1, <2>2, <1>2, <1>8 DEF BlocksOf
        <3>2. CASE c # a
            BY <3>2, <2>2
        <3> QED BY <3>1, <3>2
    <2>4. Tiles(g) /\ BlocksOf(g) = BlocksOf(f) /\ \A c \in Addresses : End(g, c) = End(f, c)
        BY <1>1, <2>2, <2>3, SameTiles
    <2>5. FreeOf(g) = FreeOf(f) \ {a} /\ UsedOf(g) = UsedOf(f) \cup {a}
        BY <2>2, <1>2, <1>8 DEF FreeOf, UsedOf
    <2>6. MemoryInv(used) /\ used.block = g
        <3>1. used.block = g /\ used.order = m.order /\ used.free = s
            BY <1>9 DEF g, With
        <3>2. used \in [block : Headers, order : Seq(Addresses), free : Seq(Addresses)]
            BY <1>9, <1>1, <1>5, <2>2 DEF Sorted, Listed, g, With
        <3> QED BY <3>1, <3>2, <2>4, <2>5, <1>1, <1>5 DEF MemoryInv
    <2>7. Apart(g)
        BY <2>4, <2>5 DEF Apart, FreeOf
    <2>8. k = used
        BY <1>10, <1>11
    <2>9. \A c \in UsedOf(f) \ {a} : g[c] = f[c]
        BY <2>2 DEF UsedOf
    <2>10. Keeps(m, used, {a}, {})
        BY <2>5, <2>6, <2>9 DEF Keeps
    <2> HIDE DEF used, k
    <2> QED BY <2>2, <2>6, <2>7, <2>8, <2>10, <1>6, <1>8 DEF n, k
<1>12. CASE ~ (rest <= HeaderUnits)
    <2>1. size = n /\ rest > HeaderUnits
        BY <1>12, <1>3, <1>4
    <2>2. h.size = n /\ f[a].size - h.size > HeaderUnits
        BY <2>1, <1>8
    <2>3. End(f, a) \notin FreeOf(f)
        BY DEF Apart
    <2> HIDE DEF h, used
    <2>4. k = Cut(m, a, h, s)
        BY <1>9, <1>10, <1>12, <2>2 DEF Cut
    <2> HIDE DEF k
    <2>5. MemoryInv(k) /\ Apart(k.block) /\ Keeps(m, k, {a}, {}) /\ k.block[a] = h
        <3>1. /\ a \in BlocksOf(m.block) /\ h \in Header /\ h.type = "Allocated"
              /\ m.block[a].size - h.size > HeaderUnits
              /\ Listed(s, FreeOf(m.block) \ {a}) /\ End(m.block, a) \notin FreeOf(m.block)
            BY <1>2, <1>5, <1>8, <2>2, <2>3
        <3> HIDE DEF size, rest, f
        <3> QED BY <3>1, <2>4, Rest
    <2> QED BY <2>5, <1>8, <2>2, <1>3 DEF n, k
<1> QED BY <1>11, <1>12


LEMMA Absorbed ==
    ASSUME NEW m, MemoryInv(m), NEW a \in BlocksOf(m.block), NEW b \in FreeOf(m.block), End(m.block, a) = b
    PROVE  LET k == Absorb(m, a, b)
           IN  /\ MemoryInv(k) /\ BlocksOf(k.block) = BlocksOf(m.block) \ {b}
               /\ FreeOf(k.block) = FreeOf(m.block) \ {b} /\ UsedOf(k.block) = UsedOf(m.block)
               /\ End(k.block, a) = End(m.block, b) /\ a # b
               /\ k.block[a].type = m.block[a].type
               /\ \A c \in Addresses \ {a, b} : k.block[c] = m.block[c]
<1> DEFINE f == m.block
           n == f[a].size + f[b].size + HeaderUnits
           h == [f[a] EXCEPT !.size = n]
           g == [f EXCEPT ![a] = h, ![b] = NoHeader]
           k == [block |-> g, order |-> RemoveEntryList(m.order, b), free |-> RemoveEntryList(m.free, b)]
<1>1. f \in Headers /\ Tiles(f) /\ Sorted(m.order, BlocksOf(f)) /\ Listed(m.free, FreeOf(f))
    BY DEF MemoryInv
<1>2. a \in Addresses /\ b \in Addresses /\ b \in BlocksOf(f)
    BY <1>1, KindsOf DEF BlocksOf
<1>3. /\ f[a] \in Header /\ f[a].size \in Nat /\ f[b].size \in Nat /\ a \in Nat /\ b \in Nat
      /\ End(f, a) = a + HeaderUnits + f[a].size /\ End(f, b) = b + HeaderUnits + f[b].size
      /\ End(f, b) <= HeapUnits /\ a < b
    BY <1>1, <1>2, HeaderType, EndIs DEF End
<1>4. n \in 0 .. HeapUnits /\ a + HeaderUnits + n = End(f, b)
    BY <1>3, HeapAssumption
<1> HIDE DEF n
<1>5. h \in Header /\ h.type = f[a].type /\ h.size = n
    BY <1>3, <1>4 DEF Header
<1>6. NoHeader \in Header /\ NoHeader.type = "None"
    BY HeapAssumption DEF NoHeader, Header, BlockTypes
<1>7. k = Absorb(m, a, b)
    <2>1. g = [f EXCEPT ![a].size = @ + f[b].size + HeaderUnits, ![b] = NoHeader]
        BY DEF n
    <2> QED BY <2>1 DEF Absorb
<1> HIDE DEF h
<1>8. g \in Headers /\ g[a] = h /\ g[b] = NoHeader /\ \A c \in Addresses \ {a, b} : g[c] = f[c]
    BY <1>1, <1>2, <1>3, <1>5, <1>6 DEF Headers
<1>9. k.block = g /\ k.order = RemoveEntryList(m.order, b) /\ k.free = RemoveEntryList(m.free, b)
    OBVIOUS
<1>10. k \in [block : {k.block}, order : {k.order}, free : {k.free}]
    OBVIOUS
<1> HIDE DEF g, k
<1>11. End(g, a) = End(f, b)
    BY <1>4, <1>5, <1>8 DEF End
<1>12. f[a].type # "None"
    BY DEF BlocksOf
<1>13. Tiles(g) /\ BlocksOf(g) = BlocksOf(f) \ {b}
    <2>1. g[a].type # "None" /\ g[b].type = "None"
        BY <1>5, <1>6, <1>8, <1>12
    <2> HIDE DEF f
    <2>2. a \in BlocksOf(f) /\ End(f, a) = b
        BY DEF f
    <2> QED BY <1>1, <1>2, <1>8, <1>11, <2>1, <2>2, MergeTiles
<1>14. FreeOf(g) = FreeOf(f) \ {b} /\ UsedOf(g) = UsedOf(f)
    BY <1>2, <1>3, <1>5, <1>6, <1>8 DEF FreeOf, UsedOf
<1>15. Sorted(k.order, BlocksOf(g))
    BY <1>1, <1>2, <1>9, <1>13, SortedRemove
<1>16. Listed(k.free, FreeOf(g))
    BY <1>1, <1>9, <1>14, ListedRemove
<1>17. MemoryInv(k)
    <2>1. k.order \in Seq(Addresses) /\ k.free \in Seq(Addresses)
        BY <1>15, <1>16 DEF Sorted, Listed
    <2>2. k \in [block : Headers, order : Seq(Addresses), free : Seq(Addresses)]
        BY <2>1, <1>8, <1>9, <1>10
    <2> QED BY <2>2, <1>9, <1>13, <1>15, <1>16 DEF MemoryInv
<1>18. a # b
    BY <1>3
<1> QED BY <1>5, <1>7, <1>8, <1>9, <1>11, <1>13, <1>14, <1>17, <1>18

LEMMA LooksFreeIs ==
    ASSUME NEW m, NEW a \in Addresses \cup {NoBlock}
    PROVE  LooksFree(m, a) <=> a \in FreeOf(m.block)
BY AddressType DEF LooksFree, FreeOf

\* Only the next block can follow as a free one.
LEMMA Following ==
    ASSUME NEW m, MemoryInv(m), NEW a \in BlocksOf(m.block)
    PROVE  LET e == End(m.block, a)
           IN  /\ e \notin FreeOf(m.block) => FollowingFree(m, a) = << >>
               /\ e \in FreeOf(m.block) /\ End(m.block, e) \notin FreeOf(m.block)
                  => FollowingFree(m, a) = <<e>>
<1> DEFINE s == m.order
           e == End(m.block, a)
           i == Position(s, a)
           P(n) == /\ \A j \in i + 1 .. i + n : LooksFree(m, s[j])
                   /\ i + n < Len(s) => ~LooksFree(m, s[i + n + 1])
           n == CHOOSE n \in 0 .. Len(s) - i : P(n)
<1>1. s \in Seq(Addresses) /\ Sorted(s, BlocksOf(m.block)) /\ Listed(s, BlocksOf(m.block)) /\ m.block \in Headers
    BY SortedIsListed DEF MemoryInv
<1>2. i \in 1 .. Len(s) /\ s[i] = a /\ Len(s) \in Nat
    BY <1>1, PlaceOf, LenProperties
<1>3. e = IF i = Len(s) THEN NoBlock ELSE s[i + 1]
    BY NextIs DEF NextOf
<1>4. \A j \in 1 .. Len(s) : s[j] \in Addresses /\ (LooksFree(m, s[j]) <=> s[j] \in FreeOf(m.block))
    BY <1>1, ElementOfSeq, LooksFreeIs
<1>5. FollowingFree(m, a) = SubSeq(s, i + 1, i + n)
    BY DEF FollowingFree
<1> HIDE DEF i
<1>6. CASE e \notin FreeOf(m.block)
    <2>1. i < Len(s) => i + 1 \in 1 .. Len(s) /\ ~LooksFree(m, s[i + 1])
        BY <1>2, <1>3, <1>4, <1>6
    <2>2. P(0)
        <3>1. i + 1 .. i + 0 = {}
            BY <1>2
        <3>2. i + 0 = i /\ i + 0 + 1 = i + 1
            BY <1>2
        <3> QED BY <2>1, <3>1, <3>2
    <2>3. ASSUME NEW k \in 0 .. Len(s) - i, P(k) PROVE k = 0
        <3> SUFFICES ASSUME k # 0 PROVE FALSE
            OBVIOUS
        <3>1. i + 1 \in i + 1 .. i + k /\ i < Len(s)
            BY <1>2
        <3>2. LooksFree(m, s[i + 1])
            BY <2>3, <3>1
        <3> QED BY <2>1, <3>1, <3>2
    <2> HIDE DEF P
    <2>4. 0 \in 0 .. Len(s) - i
        BY <1>2
    <2>5. n = 0
        BY <2>2, <2>3, <2>4
    <2>6. SubSeq(s, i + 1, i + n) = << >>
        <3> HIDE DEF n
        <3>1. i + 1 \in Int /\ i + n \in Int /\ i + n < i + 1
            BY <1>2, <2>5
        <3> QED BY <3>1, SubSeqEmpty
    <2> HIDE DEF e
    <2> QED BY <1>5, <1>6, <2>6 DEF e
<1>7. CASE e \in FreeOf(m.block) /\ End(m.block, e) \notin FreeOf(m.block)
    <2>1. i < Len(s) /\ i + 1 \in 1 .. Len(s) /\ s[i + 1] = e /\ LooksFree(m, s[i + 1])
        <3>1. e # NoBlock
            BY <1>7, AddressType DEF FreeOf
        <3> QED BY <3>1, <1>2, <1>3, <1>4, <1>7
    <2>2. i + 1 < Len(s) => i + 2 \in 1 .. Len(s) /\ ~LooksFree(m, s[i + 2])
        <3> SUFFICES ASSUME i + 1 < Len(s) PROVE i + 2 \in 1 .. Len(s) /\ ~LooksFree(m, s[i + 2])
            OBVIOUS
        <3>1. i + 2 \in 1 .. Len(s)
            BY <1>2
        <3>2. e \in BlocksOf(m.block)
            BY <1>1, <1>7, KindsOf
        <3>3. Position(s, e) \in 1 .. Len(s) /\ s[Position(s, e)] = e
            BY <1>1, <3>2, PlaceOf
        <3>4. Position(s, e) = i + 1
            BY <2>1, <3>3, <1>1 DEF Listed
        <3>5. NextOf(m, e) = IF Position(s, e) = Len(s) THEN NoBlock ELSE s[Position(s, e) + 1]
            BY DEF NextOf
        <3>6. NextOf(m, e) = s[i + 2]
            BY <3>4, <3>5, <1>2
        <3>7. s[i + 2] = End(m.block, e)
            BY <3>2, <3>6, NextIs
        <3> QED BY <3>1, <3>7, <1>4, <1>7
    <2>3. P(1)
        <3>1. \A j \in i + 1 .. i + 1 : j = i + 1
            BY <1>2
        <3>2. i + 1 + 1 = i + 2
            BY <1>2
        <3> QED BY <2>1, <2>2, <3>1, <3>2
    <2>4. ASSUME NEW k \in 0 .. Len(s) - i, P(k) PROVE k = 1
        <3>1. k # 0
            <4> SUFFICES ASSUME k = 0 PROVE FALSE
                OBVIOUS
            <4>1. i + k < Len(s) /\ i + k + 1 = i + 1
                BY <2>1, <1>2
            <4>2. ~LooksFree(m, s[i + k + 1])
                BY <2>4, <4>1
            <4> QED BY <2>1, <4>1, <4>2
        <3>2. ~ (1 < k)
            <4> SUFFICES ASSUME 1 < k PROVE FALSE
                OBVIOUS
            <4>1. i + 2 \in i + 1 .. i + k /\ i + 1 < Len(s)
                BY <1>2
            <4>2. LooksFree(m, s[i + 2])
                BY <2>4, <4>1
            <4> QED BY <2>2, <4>1, <4>2
        <3> QED BY <3>1, <3>2, <1>2
    <2> HIDE DEF P
    <2>5. 1 \in 0 .. Len(s) - i
        BY <1>2, <2>1
    <2>6. n = 1
        BY <2>3, <2>4, <2>5
    <2>7. SubSeq(s, i + 1, i + n) = <<e>>
        <3> HIDE DEF n
        <3>1. SubSeq(s, i + 1, i + 1) = <<s[i + 1]>>
            BY <1>1, <2>1, OneLong
        <3> QED BY <3>1, <2>1, <2>6
    <2> HIDE DEF e
    <2> QED BY <1>5, <1>7, <2>7 DEF e
<1> QED BY <1>6, <1>7


LEMMA Merging ==
    ASSUME NEW m, NEW a
    PROVE  /\ FollowingFree(m, a) = << >> => MergeFollowing(m, a) = m
           /\ \A e : FollowingFree(m, a) = <<e>> => MergeFollowing(m, a) = Absorb(m, a, e)
<1>1. ASSUME FollowingFree(m, a) = << >> PROVE MergeFollowing(m, a) = m
    <2> DEFINE F(f) == [n \in 0 .. Len(<< >>) |-> IF n = 0 THEN m ELSE Absorb(f[n - 1], a, << >>[n])]
               w == [n \in 0 .. 0 |-> m]
               merged == CHOOSE f : f = F(f)
    <2>1. Len(<< >>) = 0 /\ \A n \in 0 .. 0 : n = 0
        OBVIOUS
    <2>2. w = F(w)
        BY <2>1
    <2>3. merged = F(merged)
        BY <2>2
    <2>4. MergeFollowing(m, a) = merged[Len(<< >>)]
        BY <1>1 DEF MergeFollowing
    <2> HIDE DEF merged
    <2>5. merged[0] = m
        BY <2>1, <2>3
    <2> QED BY <2>1, <2>4, <2>5
<1>2. ASSUME NEW e, FollowingFree(m, a) = <<e>> PROVE MergeFollowing(m, a) = Absorb(m, a, e)
    <2> DEFINE F(f) == [n \in 0 .. Len(<<e>>) |-> IF n = 0 THEN m ELSE Absorb(f[n - 1], a, <<e>>[n])]
               w == [n \in 0 .. 1 |-> IF n = 0 THEN m ELSE Absorb(m, a, e)]
               merged == CHOOSE f : f = F(f)
    <2>1. Len(<<e>>) = 1 /\ <<e>>[1] = e /\ \A n \in 0 .. 1 : n = 0 \/ n = 1
        OBVIOUS
    <2>2. w = F(w)
        BY <2>1
    <2>3. merged = F(merged)
        BY <2>2
    <2>4. MergeFollowing(m, a) = merged[Len(<<e>>)]
        BY <1>2 DEF MergeFollowing
    <2> HIDE DEF merged
    <2>5. merged[0] = m
        BY <2>1, <2>3
    <2>6. merged[1] = Absorb(merged[0], a, e)
        BY <2>1, <2>3
    <2> QED BY <2>1, <2>4, <2>5, <2>6
<1> QED BY <1>1, <1>2

\* Of a memory where only block a may have free neighbours.
LEMMA Rebuilt ==
    ASSUME NEW m, MemoryInv(m), NEW a \in FreeOf(m.block),
           \A c \in FreeOf(m.block) : c # a /\ End(m.block, c) # a => End(m.block, c) \notin FreeOf(m.block)
    PROVE  LET k == ExpRebuildFreeBlocks(m, a)
           IN  MemoryInv(k) /\ Apart(k.block) /\ Keeps(m, k, {}, {})
<1> DEFINE f == m.block
           e == End(f, a)
           d == MergeFollowing(m, a)
           q == PreviousOf(m, a)
           k == ExpRebuildFreeBlocks(m, a)
<1>1. f \in Headers /\ Tiles(f)
    BY DEF MemoryInv
<1>2. a \in BlocksOf(f) /\ a \in Addresses /\ a \in Nat /\ a < e /\ e \in Nat
    BY <1>1, KindsOf, HeaderType DEF FreeOf
<1>3. k = IF LooksFree(m, q) THEN Absorb(d, q, a) ELSE d
    BY DEF ExpRebuildFreeBlocks
<1>4. /\ MemoryInv(d) /\ a \in FreeOf(d.block) /\ FreeOf(d.block) = FreeOf(f) \ {e}
      /\ BlocksOf(d.block) = BlocksOf(f) \ (IF e \in FreeOf(f) THEN {e} ELSE {})
      /\ UsedOf(d.block) = UsedOf(f) /\ End(d.block, a) \notin FreeOf(d.block)
      /\ \A c \in Addresses \ {a, e} : d.block[c] = f[c]
    <2>1. CASE e \notin FreeOf(f)
        <3>1. FollowingFree(m, a) = << >>
            BY <1>2, <2>1, Following
        <3>2. d = m
            BY <3>1, Merging
        <3> HIDE DEF d
        <3> QED BY <2>1, <3>2
    <2>2. CASE e \in FreeOf(f)
        <3>1. e \in Addresses /\ End(f, e) \in Nat /\ e < End(f, e)
            BY <1>1, <2>2, HeaderType DEF FreeOf
        <3>2. End(f, e) \notin FreeOf(f)
            BY <1>2, <2>2, <3>1
        <3>3. FollowingFree(m, a) = <<e>>
            BY <1>2, <2>2, <3>2, Following
        <3>4. d = Absorb(m, a, e)
            BY <3>3, Merging
        <3> HIDE DEF d
        <3>5. /\ MemoryInv(d) /\ BlocksOf(d.block) = BlocksOf(f) \ {e}
              /\ FreeOf(d.block) = FreeOf(f) \ {e} /\ UsedOf(d.block) = UsedOf(f)
              /\ End(d.block, a) = End(f, e) /\ a # e
              /\ \A c \in Addresses \ {a, e} : d.block[c] = f[c]
            BY <1>2, <2>2, <3>4, Absorbed
        <3> HIDE DEF e
        <3> QED BY <2>2, <3>2, <3>5
    <2> QED BY <2>1, <2>2
<1>5. q # NoBlock => q \in BlocksOf(f) /\ End(f, q) = a
    BY <1>2, PreviousIs
<1>6. \A c \in BlocksOf(f) : End(f, c) = a => q = c /\ q # NoBlock
    BY <1>2, PreviousIs
<1>7. LooksFree(m, q) <=> q \in FreeOf(f)
    BY <1>1, <1>5, KindsOf, AddressType DEF LooksFree, FreeOf, BlocksOf
<1> HIDE DEF d, q, k
<1>8. \A c \in FreeOf(d.block) \ {a} : End(d.block, c) = End(f, c) /\ c \in FreeOf(f) /\ c \in BlocksOf(f)
    BY <1>1, <1>4, KindsOf DEF FreeOf, End
<1>9. CASE LooksFree(m, q)
    <2>1. q \in FreeOf(f) /\ q \in BlocksOf(f) /\ End(f, q) = a /\ q \in Addresses
        BY <1>1, <1>5, <1>7, <1>9, KindsOf DEF LooksFree, FreeOf
    <2>2. q < a /\ q \in Nat
        BY <1>1, <2>1, <1>2, HeaderType
    <2>3. q # e /\ q # a
        BY <1>2, <2>2
    <2>4. q \in FreeOf(d.block) /\ End(d.block, q) = a /\ q \in BlocksOf(d.block)
        <3>1. q \in FreeOf(d.block)
            BY <1>4, <2>1, <2>3
        <3> QED BY <3>1, <1>4, <1>8, <2>1, <2>3
    <2>5. k = Absorb(d, q, a)
        BY <1>3, <1>9
    <2>6. /\ MemoryInv(k) /\ FreeOf(k.block) = FreeOf(d.block) \ {a} /\ UsedOf(k.block) = UsedOf(d.block)
          /\ End(k.block, q) = End(d.block, a)
          /\ \A c \in Addresses \ {q, a} : k.block[c] = d.block[c]
        <3>1. MemoryInv(d) /\ a \in FreeOf(d.block) /\ q \in BlocksOf(d.block) /\ End(d.block, q) = a
            BY <1>4, <2>4
        <3> HIDE DEF f, e
        <3> QED BY <2>5, <3>1, Absorbed
    <2>7. ASSUME NEW c \in FreeOf(k.block) PROVE End(k.block, c) \notin FreeOf(k.block)
        <3>1. CASE c = q
            BY <3>1, <1>4, <2>6
        <3>2. CASE c # q
            <4>1. c \in FreeOf(d.block) \ {a} /\ c \in Addresses
                BY <2>6, <2>7 DEF FreeOf
            <4>2. End(k.block, c) = End(f, c) /\ c \in FreeOf(f) /\ c \in BlocksOf(f)
                <5>1. End(k.block, c) = End(d.block, c)
                    BY <3>2, <4>1, <2>6 DEF End
                <5> QED BY <5>1, <4>1, <1>8
            <4>3. End(f, c) # a
                BY <3>2, <4>2, <1>6
            <4>4. End(f, c) \notin FreeOf(f)
                BY <4>1, <4>2, <4>3
            <4> QED BY <4>2, <4>4, <1>4, <2>6
        <3> QED BY <3>1, <3>2
    <2>8. Apart(k.block)
        BY <2>7 DEF Apart
    <2>9. \A c \in UsedOf(f) : k.block[c] = f[c]
        <3> TAKE c \in UsedOf(f)
        <3>1. c \in Addresses /\ c \notin FreeOf(f)
            BY <1>1, KindsOf DEF UsedOf
        <3>2. c # a /\ c # q
            BY <3>1, <2>1
        <3>3. c \in UsedOf(d.block) /\ c # a
            BY <1>4, <3>2
        <3>4. d.block[c] = f[c]
            <4>1. CASE c # e
                BY <4>1, <3>1, <3>2, <1>4
            <4>2. CASE c = e
                <5>1. e \notin FreeOf(f)
                    BY <4>2, <3>1
                <5>2. d = m
                    BY <1>2, <5>1, Following, Merging DEF d
                <5> QED BY <5>2
            <4> QED BY <4>1, <4>2
        <3> QED BY <3>1, <3>2, <3>4, <2>6
    <2>10. UsedOf(k.block) = UsedOf(f)
        BY <1>4, <2>6
    <2>11. Keeps(m, k, {}, {})
        BY <2>9, <2>10 DEF Keeps
    <2> QED BY <2>6, <2>8, <2>11 DEF k
<1>10. CASE ~ LooksFree(m, q)
    <2>1. k = d
        BY <1>3, <1>10
    <2>2. ASSUME NEW c \in FreeOf(d.block) PROVE End(d.block, c) \notin FreeOf(d.block)
        <3>1. CASE c = a
            BY <3>1, <1>4
        <3>2. CASE c # a
            <4>1. End(d.block, c) = End(f, c) /\ c \in FreeOf(f) /\ c \in BlocksOf(f)
                BY <3>2, <1>8, <2>2
            <4>2. End(f, c) # a
                BY <4>1, <1>6, <1>7, <1>10
            <4>3. End(f, c) \notin FreeOf(f)
                BY <3>2, <4>1, <4>2
            <4> QED BY <4>1, <4>3, <1>4
        <3> QED BY <3>1, <3>2
    <2>3. \A c \in UsedOf(f) : d.block[c] = f[c]
        <3> TAKE c \in UsedOf(f)
        <3>1. c \in Addresses /\ c \notin FreeOf(f)
            BY <1>1, KindsOf DEF UsedOf
        <3>2. c # a
            BY <3>1
        <3>3. CASE c # e
            BY <3>1, <3>2, <3>3, <1>4
        <3>4. CASE c = e
            <4>1. e \notin FreeOf(f)
                BY <3>1, <3>4
            <4>2. d = m
                BY <1>2, <4>1, Following, Merging DEF d
            <4> QED BY <4>2
        <3> QED BY <3>3, <3>4
    <2>4. Keeps(m, k, {}, {}) /\ Apart(k.block)
        BY <2>1, <2>2, <2>3, <1>4 DEF Keeps, Apart
    <2> QED BY <2>1, <2>4, <1>4 DEF k
<1> QED BY <1>9, <1>10


LEMMA WrittenFree ==
    ASSUME NEW m, MemoryInv(m), NEW a
    PROVE  ExpFreeHeapBlock(m, a)
           = ExpRebuildFreeBlocks(With(m, a, [m.block[a] EXCEPT !.type = "Free"], Append(m.free, a)), a)
<1> DEFINE s == Append(m.free, a)
           u == [m EXCEPT !.block[a].type = "Free", !.free = Append(@, a)]
           b == [m.block EXCEPT ![a] = [m.block[a] EXCEPT !.type = "Free"]]
           r == [block |-> b, order |-> m.order, free |-> s]
           D == {"block", "order", "free"}
<1>0. m = [x \in D |-> m[x]]
    BY DEF MemoryInv
<1>1. u.block = b /\ u.order = m.order /\ u.free = s
    BY <1>0
<1>2. u = [x \in D |-> u[x]]
    BY <1>0
<1>6. ExpFreeHeapBlock(m, a) = ExpRebuildFreeBlocks(u, a)
    BY DEF ExpFreeHeapBlock
<1> HIDE DEF b, s
<1>3. r.block = b /\ r.order = m.order /\ r.free = s /\ r = [x \in D |-> r[x]]
    OBVIOUS
<1> HIDE DEF r, u
<1>4. \A x \in D : r[x] = u[x]
    BY <1>1, <1>3
<1>5. u = r
    BY <1>2, <1>3, <1>4
<1>7. With(m, a, [m.block[a] EXCEPT !.type = "Free"], Append(m.free, a)) = r
    BY DEF r, b, s, With
<1> QED BY <1>5, <1>6, <1>7

LEMMA Freed ==
    ASSUME NEW m, MemoryInv(m), Apart(m.block), NEW a \in UsedOf(m.block)
    PROVE  LET k == ExpFreeHeapBlock(m, a)
           IN  MemoryInv(k) /\ Apart(k.block) /\ Keeps(m, k, {}, {a})
<1> DEFINE f == m.block
           h == [f[a] EXCEPT !.type = "Free"]
           g == [f EXCEPT ![a] = h]
           s == Append(m.free, a)
           n == With(m, a, h, s)
           k == ExpFreeHeapBlock(m, a)
<1>1. f \in Headers /\ Tiles(f) /\ Sorted(m.order, BlocksOf(f)) /\ Listed(m.free, FreeOf(f))
    BY DEF MemoryInv
<1>2. a \in Addresses /\ a \in BlocksOf(f) /\ a \notin FreeOf(f) /\ f[a] \in Header
    BY <1>1, KindsOf, HeaderType DEF UsedOf
<1>3. h \in Header /\ h.type = "Free" /\ h.size = f[a].size
    BY <1>2 DEF Header, BlockTypes
<1>4. k = ExpRebuildFreeBlocks(n, a)
    BY WrittenFree, Zenon
<1>5. n.block = g /\ n.order = m.order /\ n.free = s /\ n \in [block : {n.block}, order : {n.order}, free : {n.free}]
    BY DEF With
<1> HIDE DEF h
<1>6. g \in Headers /\ g[a] = h /\ \A c \in Addresses \ {a} : g[c] = f[c]
    BY <1>1, <1>2, <1>3 DEF Headers
<1> HIDE DEF g, n
<1>7. \A c \in Addresses : g[c].size = f[c].size /\ (g[c].type = "None" <=> f[c].type = "None")
    <2> TAKE c \in Addresses
    <2>1. CASE c = a
        BY <2>1, <1>2, <1>3, <1>6 DEF BlocksOf
    <2>2. CASE c # a
        BY <2>2, <1>6
    <2> QED BY <2>1, <2>2
<1>8. Tiles(g) /\ BlocksOf(g) = BlocksOf(f) /\ \A c \in Addresses : End(g, c) = End(f, c)
    BY <1>1, <1>6, <1>7, SameTiles
<1>9. FreeOf(g) = FreeOf(f) \cup {a} /\ UsedOf(g) = UsedOf(f) \ {a}
    BY <1>2, <1>3, <1>6 DEF FreeOf, UsedOf
<1>10. Listed(s, FreeOf(g))
    BY <1>1, <1>2, <1>9, ListedAppend
<1> HIDE DEF s
<1>11. MemoryInv(n)
    <2>1. n.order \in Seq(Addresses) /\ n.free \in Seq(Addresses)
        BY <1>1, <1>5, <1>10 DEF Sorted, Listed
    <2>2. n \in [block : Headers, order : Seq(Addresses), free : Seq(Addresses)]
        BY <2>1, <1>5, <1>6
    <2> QED BY <2>2, <1>1, <1>5, <1>8, <1>10 DEF MemoryInv
<1>12. \A c \in FreeOf(g) : c # a /\ End(g, c) # a => End(g, c) \notin FreeOf(g)
    <2> TAKE c \in FreeOf(g)
    <2>1. c # a => c \in FreeOf(f) /\ End(g, c) = End(f, c)
        BY <1>8, <1>9 DEF FreeOf
    <2> QED BY <2>1, <1>9 DEF Apart
<1>13. a \in FreeOf(g)
    BY <1>9
<1>14. MemoryInv(k) /\ Apart(k.block) /\ Keeps(n, k, {}, {})
    BY <1>4, <1>5, <1>11, <1>12, <1>13, Rebuilt
<1>15. \A c \in UsedOf(f) \ {a} : k.block[c] = f[c]
    <2> TAKE c \in UsedOf(f) \ {a}
    <2>1. c \in UsedOf(g) /\ g[c] = f[c]
        BY <1>6, <1>9 DEF UsedOf
    <2> QED BY <2>1, <1>5, <1>14 DEF Keeps
<1>16. UsedOf(k.block) = UsedOf(f) \ {a}
    BY <1>5, <1>9, <1>14 DEF Keeps
<1> HIDE DEF k
<1>17. Keeps(m, k, {}, {a})
    BY <1>15, <1>16 DEF Keeps
<1> QED BY <1>14, <1>17 DEF k

LEMMA Moved ==
    ASSUME MemoryInv(Memory), Apart(block), NEW a \in UsedOf(block), NEW b \in FreeOf(block), End(block, a) = b,
           NEW n \in Nat, n # block[a].size, n < block[a].size + block[b].size,
           NEW bytes \in Nat, MoveBoundary(a, b, n, bytes)
    PROVE  /\ MemoryInv(Memory') /\ Apart(block') /\ Keeps(Memory, Memory', {a}, {})
           /\ block'[a].type = block[a].type /\ block'[a].size = n
<1> DEFINE f == block
           to == a + HeaderUnits + n
           size == f[b].size + f[a].size - n
           pad == Byte(n * Align - bytes)
           h == [f[a] EXCEPT !.size = n, !.pad = pad]
           i == [f[b] EXCEPT !.size = size]
           g == block'
<1>1. f \in Headers /\ Tiles(f) /\ Sorted(order, BlocksOf(f)) /\ Listed(free, FreeOf(f))
    BY DEF MemoryInv, Memory
<1>2. a \in BlocksOf(f) /\ b \in BlocksOf(f) /\ a \in Addresses /\ b \in Addresses /\ a \notin FreeOf(f)
    BY <1>1, KindsOf DEF UsedOf, FreeOf
<1>3. /\ f[a] \in Header /\ f[a].size \in Nat /\ f[b] \in Header /\ f[b].size \in Nat /\ a \in Nat /\ b \in Nat
      /\ b = a + HeaderUnits + f[a].size /\ End(f, b) = b + HeaderUnits + f[b].size
      /\ End(f, b) <= HeapUnits /\ a < b
    BY <1>1, <1>2, HeaderType, EndIs DEF End
<1>4. HeaderUnits \in Nat /\ HeaderUnits > 0 /\ HeapUnits \in Nat /\ Align \in Nat
    BY HeapAssumption
<1>5. /\ to \in Nat /\ a < to /\ to < HeapUnits /\ size \in 0 .. HeapUnits /\ to + HeaderUnits + size = End(f, b)
      /\ to # b /\ n \in 0 .. HeapUnits
    <2> DEFINE x == f[a].size
               y == f[b].size
    <2>1. x \in Nat /\ y \in Nat /\ n # x /\ n < x + y /\ b = a + HeaderUnits + x
        BY <1>3
    <2>2. End(f, b) = b + HeaderUnits + y /\ b + HeaderUnits + y <= HeapUnits /\ size = y + x - n
        BY <1>3
    <2> HIDE DEF x, y, size
    <2>3. a \in Nat /\ b \in Nat
        BY <1>3
    <2> HIDE DEF f
    <2>4. to \in Nat /\ a < to /\ size \in Nat /\ size > 0
        BY <1>4, <2>1, <2>2, <2>3
    <2>5. to + HeaderUnits + size = b + HeaderUnits + y /\ to # b
        BY <1>4, <2>1, <2>2, <2>3
    <2> HIDE DEF to
    <2>6. to < HeapUnits /\ size \in 0 .. HeapUnits
        BY <1>4, <2>1, <2>2, <2>3, <2>4, <2>5
    <2>7. n \in 0 .. HeapUnits
        BY <1>4, <2>1, <2>2, <2>3
    <2> QED BY <2>2, <2>4, <2>5, <2>6, <2>7
<1>6. to \in Addresses /\ to # a
    BY <1>3, <1>5, HeapAssumption DEF Addresses
<1>7. pad \in 0 .. 255
    <2>1. n * Align \in Int
        BY <1>4
    <2>2. n * Align - bytes \in Int
        BY <2>1
    <2> QED BY <2>2, ByteType
<1>8. g = [[f EXCEPT ![b] = NoHeader] EXCEPT ![a].size = n, ![a].pad = pad, ![to] = i]
      /\ order' = Renamed(order, b, to) /\ free' = Renamed(free, b, to)
    BY DEF MoveBoundary, Renamed
<1> HIDE DEF to, size, pad
<1>9. h \in Header /\ h.type = f[a].type /\ h.size = n
    BY <1>3, <1>5, <1>7 DEF Header
<1>10. i \in Header /\ i.type = "Free" /\ i.size = size
    <2>1. f[b].type = "Free"
        BY DEF FreeOf
    <2> QED BY <2>1, <1>3, <1>5 DEF Header
<1>11. NoHeader \in Header /\ NoHeader.type = "None"
    BY HeapAssumption DEF NoHeader, Header, BlockTypes
<1>12. a # b
    BY <1>3
<1>13. g = [[[f EXCEPT ![b] = NoHeader] EXCEPT ![a] = h] EXCEPT ![to] = i]
    <2>1. [f EXCEPT ![b] = NoHeader][a] = f[a]
        BY <1>1, <1>2, <1>12 DEF Headers
    <2> QED BY <1>8, <1>1, <1>2, <1>6, <2>1 DEF Headers
<1> HIDE DEF h, i
<1>14. g \in Headers /\ g[a] = h /\ g[to] = i /\ g[b] = NoHeader /\ \A c \in Addresses \ {a, b, to} : g[c] = f[c]
    BY <1>1, <1>2, <1>5, <1>6, <1>9, <1>10, <1>11, <1>12, <1>13 DEF Headers
<1>15. End(g, a) = to /\ End(g, to) = End(f, b)
    BY <1>5, <1>9, <1>10, <1>14 DEF End, to
<1>16. f[a].type # "None"
    BY <1>2 DEF BlocksOf
<1> HIDE DEF g
<1>17. /\ Tiles(g) /\ BlocksOf(g) = (BlocksOf(f) \ {b}) \cup {to}
       /\ \A c \in BlocksOf(f) : (c < b => c < to) /\ (b < c => to < c)
       /\ to \notin BlocksOf(f)
    <2>1. g[a].type # "None" /\ g[b].type = "None" /\ g[to].type # "None"
        BY <1>9, <1>10, <1>11, <1>14, <1>16
    <2>2. End(f, a) = b
        OBVIOUS
    <2> HIDE DEF f
    <2>3. /\ f \in Headers /\ Tiles(f) /\ a \in BlocksOf(f) /\ b \in BlocksOf(f)
          /\ to \in Addresses /\ to # b /\ g \in Headers
        BY <1>1, <1>2, <1>5, <1>6, <1>14
    <2>4. \A c \in Addresses \ {a, b, to} : g[c] = f[c]
        BY <1>14
    <2> QED BY <1>15, <2>1, <2>2, <2>3, <2>4, MoveTiles
<1>18. FreeOf(g) = (FreeOf(f) \ {b}) \cup {to} /\ UsedOf(g) = UsedOf(f)
    BY <1>2, <1>6, <1>9, <1>10, <1>11, <1>12, <1>14, <1>17 DEF FreeOf, UsedOf, BlocksOf
<1>19. Sorted(order', BlocksOf(g))
    <2> HIDE DEF f
    <2>1. Sorted(Renamed(order, b, to), (BlocksOf(f) \ {b}) \cup {to})
        BY <1>1, <1>2, <1>6, <1>17, SortedRenamed
    <2> QED BY <2>1, <1>8, <1>17
<1>20. Listed(free', FreeOf(g))
    <2>1. to \notin FreeOf(f) \ {b} /\ b \in FreeOf(f)
        BY <1>1, <1>17, KindsOf
    <2> HIDE DEF f
    <2>2. Listed(Renamed(free, b, to), (FreeOf(f) \ {b}) \cup {to})
        BY <2>1, <1>1, <1>6, ListedRenamed
    <2> QED BY <2>2, <1>8, <1>18
<1>21. MemoryInv(Memory')
    <2>1. order' \in Seq(Addresses) /\ free' \in Seq(Addresses)
        BY <1>19, <1>20 DEF Sorted, Listed
    <2> QED BY <2>1, <1>14, <1>17, <1>19, <1>20 DEF MemoryInv, Memory, g
<1>22. ASSUME NEW c \in FreeOf(g) PROVE End(g, c) \notin FreeOf(g)
    <2>1. CASE c = to
        <3>1. End(g, c) \notin FreeOf(f)
            BY <2>1, <1>15 DEF Apart
        <3>2. End(g, c) # to
            BY <2>1, <1>6, <1>14, HeaderType
        <3> QED BY <3>1, <3>2, <1>18
    <2>2. CASE c # to
        <3>1. c \in FreeOf(f) /\ c # b /\ c # a /\ c \in Addresses /\ c \in BlocksOf(f)
            BY <2>2, <1>1, <1>2, <1>18, <1>22, KindsOf DEF FreeOf
        <3>2. End(g, c) = End(f, c)
            BY <2>2, <3>1, <1>14 DEF End
        <3>3. End(f, c) \notin FreeOf(f)
            BY <3>1 DEF Apart
        <3>4. End(f, c) # to
            <4>1. End(f, c) \in BlocksOf(f) \cup {HeapUnits}
                BY <3>1, <1>1 DEF Tiles
            <4> QED BY <4>1, <1>4, <1>5, <1>17
        <3> QED BY <3>2, <3>3, <3>4, <1>18
    <2> QED BY <2>1, <2>2
<1>23. \A c \in UsedOf(f) \ {a} : g[c] = f[c]
    <2> TAKE c \in UsedOf(f) \ {a}
    <2>1. c \in Addresses /\ c \in BlocksOf(f) /\ c \notin FreeOf(f)
        BY <1>1, KindsOf DEF BlocksOf
    <2>2. c # b /\ c # to
        BY <2>1, <1>17
    <2> QED BY <2>1, <2>2, <1>14
<1>24. Keeps(Memory, Memory', {a}, {})
    <2>1. UsedOf(g) = (UsedOf(f) \ {}) \cup {a}
        BY <1>18
    <2> QED BY <2>1, <1>23 DEF Keeps, Memory, g
<1> QED BY <1>9, <1>14, <1>21, <1>22, <1>24 DEF Apart, g



-----------------------------------------------------------------------------
(* The invariant. *)

HeapInv == MemoryInv(Memory) /\ Apart(block)

\* Every block in use is held by a caller, and the request fits into it.
HeldInv ==
    /\ held = [a \in UsedOf(block) |-> held[a]]
    /\ \A a \in UsedOf(block) : held[a] \in Nat \ {0} /\ UnitsOf(held[a]) <= block[a].size

GuardTypes ==
    /\ guarded \in [Threads -> BOOLEAN]
    /\ guard \in [Threads -> [1 .. GuardEntries -> Addresses \cup {NoBlock}]]
    /\ tables \in [Threads -> [1 .. 2 -> Addresses \cup {NoBlock}]]
    /\ pc \in [Threads -> {"Idle", "Enter", "Leave"}]
    /\ region \in [Threads -> SUBSET Addresses]
    /\ stopped \in Reasons

\* The blocks of the guards are in use, and each is of one guard only.
TablesInv ==
    /\ OwnTables \subseteq UsedOf(block) \cup {NoBlock}
    /\ \A t, u \in Threads : \A i, j \in 1 .. 2 :
          tables[t][i] = tables[u][j] /\ tables[t][i] # NoBlock => t = u /\ i = j

\* What a thread needs for its way out of a guarded region is there.
PhaseInv ==
    \A t \in Threads :
        /\ guarded[t] => pc[t] = "Idle" /\ tables[t][1] # NoBlock /\ tables[t][2] # NoBlock
        /\ pc[t] # "Idle" => tables[t][1] # NoBlock

Entries == [1 .. GuardEntries -> Addresses \cup {NoBlock}]
Known(g, a) == \E i \in 1 .. GuardEntries : g[i] = a

\* The blocks of a region are in use, none is a guard's own, and the guard knows them.
RegionInv ==
    \A t \in Threads :
        /\ region[t] \subseteq UsedOf(block) /\ region[t] \cap OwnTables = {}
        /\ ~guarded[t] => region[t] = {}
        /\ \A a \in region[t] : Known(guard[t], a)

Inv == HeapInv /\ HeldInv /\ GuardTypes /\ TablesInv /\ PhaseInv /\ RegionInv


-----------------------------------------------------------------------------
(* What a step does to the heap and to its callers. *)

\* The blocks given out get the size asked for; those given back are forgotten.
Change(given, back, bytes) ==
    /\ HeapInv' /\ Keeps(Memory, Memory', given, back)
    /\ held' = [x \in (DOMAIN held \cup given) \ back |-> IF x \in given THEN bytes ELSE held[x]]
    /\ \A x \in given : UnitsOf(bytes) <= block'[x].size

LEMMA HeldKept ==
    ASSUME HeldInv, NEW given, NEW back, NEW bytes \in Nat \ {0}, Change(given, back, bytes), given \cap back = {}
    PROVE  HeldInv'
<1>1. DOMAIN held = UsedOf(block) /\ \A a \in UsedOf(block) : held[a] \in Nat \ {0} /\ UnitsOf(held[a]) <= block[a].size
    BY DEF HeldInv
<1>2. /\ UsedOf(block') = (UsedOf(block) \ back) \cup given
      /\ \A c \in UsedOf(block) \ (given \cup back) : block'[c] = block[c]
    BY DEF Change, Keeps, Memory
<1>3. held' = [x \in UsedOf(block') |-> IF x \in given THEN bytes ELSE held[x]]
    BY <1>1, <1>2 DEF Change
<1>4. ASSUME NEW a \in UsedOf(block') PROVE held'[a] \in Nat \ {0} /\ UnitsOf(held'[a]) <= block'[a].size
    <2>1. CASE a \in given
        BY <2>1, <1>3 DEF Change
    <2>2. CASE a \notin given
        <3>1. a \in UsedOf(block) /\ block'[a] = block[a] /\ held'[a] = held[a]
            BY <2>2, <1>2, <1>3
        <3> QED BY <3>1, <1>1
    <2> QED BY <2>1, <2>2
<1> QED BY <1>3, <1>4 DEF HeldInv

LEMMA SetIs ==
    ASSUME NEW k, MemoryInv(k), SetMemory(k)
    PROVE  Memory' = k
<1> DEFINE D == {"block", "order", "free"}
<1>1. k = [x \in D |-> k[x]]
    BY DEF MemoryInv
<1>2. Memory' = [x \in D |-> Memory'[x]] /\ Memory'.block = block' /\ Memory'.order = order' /\ Memory'.free = free'
    BY DEF Memory
<1>3. \A x \in D : Memory'[x] = k[x]
    BY <1>2 DEF SetMemory
<1> QED BY <1>1, <1>2, <1>3

LEMMA InUse ==
    ASSUME HeapInv, HeldInv
    PROVE  /\ DOMAIN held = UsedOf(block) /\ held = [a \in UsedOf(block) |-> held[a]]
           /\ block \in Headers /\ UsedOf(block) \cap FreeOf(block) = {}
           /\ UsedOf(block) \subseteq Addresses /\ FreeOf(block) \subseteq Addresses
           /\ ToSet(order) = BlocksOf(block) /\ BlocksOf(block) = FreeOf(block) \cup UsedOf(block)
<1>1. block \in Headers /\ Sorted(order, BlocksOf(block))
    BY DEF HeapInv, MemoryInv, Memory
<1>2. ToSet(order) = BlocksOf(block)
    <2>1. order \in Seq(Addresses) /\ IsRange(order, BlocksOf(block))
        BY <1>1 DEF Sorted
    <2>2. DOMAIN order = 1 .. Len(order)
        BY <2>1, LenProperties
    <2> QED BY <2>1, <2>2 DEF ToSet, IsRange
<1> QED BY <1>1, <1>2, KindsOf DEF HeldInv, UsedOf, FreeOf

LEMMA AllocateChanges ==
    ASSUME HeapInv, HeldInv, NEW bytes \in Nat \ {0}, NEW a, a = ExpFindIdealBlock(Memory, bytes), a # NoBlock,
           SetMemory(ExpAllocateHeapInBlock(Memory, a, bytes)), held' = Hold(a, bytes)
    PROVE  Change({a}, {}, bytes) /\ a \in FreeOf(block) /\ a \in UsedOf(block')
<1>1. PICK k : k = ExpAllocateHeapInBlock(Memory, a, bytes)
    OBVIOUS
<1>2. PICK m : m = Memory
    OBVIOUS
<1>3. MemoryInv(m) /\ Apart(m.block) /\ m.block = block
    BY <1>2 DEF HeapInv, Memory
<1>4. a \in FreeOf(m.block) /\ UnitsOf(bytes) <= m.block[a].size
    BY <1>2, <1>3, IdealBlock
<1>5. k = ExpAllocateHeapInBlock(m, a, bytes)
    BY <1>1, <1>2
<1>6. MemoryInv(k) /\ Apart(k.block) /\ Keeps(m, k, {a}, {}) /\ UnitsOf(bytes) <= k.block[a].size
    BY <1>3, <1>4, <1>5, AllocatedIn
<1>7. Memory' = k
    BY <1>1, <1>6, SetIs
<1>8. block' = k.block
    BY <1>7 DEF Memory
<1>9. HeapInv'
    BY <1>6, <1>7, <1>8 DEF HeapInv
<1>10. held' = [x \in (DOMAIN held \cup {a}) \ {} |-> IF x \in {a} THEN bytes ELSE held[x]]
    BY DEF Hold
<1>11. a \in UsedOf(block')
    BY <1>6, <1>8 DEF Keeps
<1> QED BY <1>2, <1>3, <1>4, <1>6, <1>7, <1>8, <1>9, <1>10, <1>11 DEF Change

LEMMA FreeChanges ==
    ASSUME HeapInv, HeldInv, NEW a \in UsedOf(block),
           SetMemory(ExpFreeHeapBlock(Memory, a)), held' = LetGo(a)
    PROVE  Change({}, {a}, 1)
<1>1. PICK k : k = ExpFreeHeapBlock(Memory, a)
    OBVIOUS
<1>2. PICK m : m = Memory
    OBVIOUS
<1>3. MemoryInv(m) /\ Apart(m.block) /\ m.block = block
    BY <1>2 DEF HeapInv, Memory
<1>4. k = ExpFreeHeapBlock(m, a) /\ a \in UsedOf(m.block)
    BY <1>1, <1>2, <1>3
<1>5. MemoryInv(k) /\ Apart(k.block) /\ Keeps(m, k, {}, {a})
    BY <1>3, <1>4, Freed
<1>6. Memory' = k
    BY <1>1, <1>5, SetIs
<1>7. block' = k.block
    BY <1>6 DEF Memory
<1>8. HeapInv'
    BY <1>5, <1>6, <1>7 DEF HeapInv
<1>9. held' = [x \in (DOMAIN held \cup {}) \ {a} |-> IF x \in {} THEN 1 ELSE held[x]]
    BY DEF LetGo
<1> QED BY <1>2, <1>5, <1>6, <1>8, <1>9 DEF Change

\* Only the header of a block in use changes, and not the size in it.
LEMMA TouchedChanges ==
    ASSUME HeapInv, HeldInv, NEW a \in UsedOf(block), NEW h \in Header, h.size = block[a].size,
           h.type \in {"Allocated", "Locked"}, NEW bytes, UnitsOf(bytes) <= block[a].size,
           block' = [block EXCEPT ![a] = h], order' = order, free' = free, held' = Hold(a, bytes)
    PROVE  Change({a}, {}, bytes)
<1>1. /\ block \in Headers /\ Tiles(block) /\ Sorted(order, BlocksOf(block)) /\ Listed(free, FreeOf(block))
      /\ a \in Addresses /\ block[a].type \in {"Allocated", "Locked"}
    BY DEF HeapInv, MemoryInv, Memory, UsedOf
<1>2. block' \in Headers /\ block'[a] = h /\ \A c \in Addresses \ {a} : block'[c] = block[c]
    BY <1>1 DEF Headers
<1>3. \A c \in Addresses : block'[c].size = block[c].size /\ (block'[c].type = "None" <=> block[c].type = "None")
    <2> TAKE c \in Addresses
    <2>1. CASE c = a
        BY <2>1, <1>1, <1>2
    <2>2. CASE c # a
        BY <2>2, <1>2
    <2> QED BY <2>1, <2>2
<1>4. PICK f, g : f = block /\ g = block'
    OBVIOUS
<1>5. Tiles(block') /\ BlocksOf(block') = BlocksOf(block) /\ \A c \in Addresses : End(block', c) = End(block, c)
    BY <1>1, <1>2, <1>3, <1>4, SameTiles
<1>6. FreeOf(block') = FreeOf(block) /\ UsedOf(block') = UsedOf(block)
    BY <1>1, <1>2 DEF FreeOf, UsedOf
<1>7. MemoryInv(Memory')
    BY <1>1, <1>2, <1>5, <1>6 DEF MemoryInv, Memory, Sorted, Listed
<1>8. Apart(block')
    BY <1>5, <1>6 DEF Apart, HeapInv, FreeOf
<1>9. HeapInv'
    BY <1>7, <1>8 DEF HeapInv
<1>10. Keeps(Memory, Memory', {a}, {})
    BY <1>2, <1>6 DEF Keeps, Memory, UsedOf
<1>11. held' = [x \in (DOMAIN held \cup {a}) \ {} |-> IF x \in {a} THEN bytes ELSE held[x]]
    BY DEF Hold
<1> QED BY <1>2, <1>9, <1>10, <1>11 DEF Change


-----------------------------------------------------------------------------
(* The entries of a guard. *)

\* One entry changes: the others stay known.
LEMMA EntryReplaced ==
    ASSUME NEW g \in Entries, NEW from, NEW to \in Addresses \cup {NoBlock}
    PROVE  /\ ReplaceEntry(g, from, to) \in Entries
           /\ \A x : x # from /\ Known(g, x) => Known(ReplaceEntry(g, from, to), x)
           /\ Known(g, from) => Known(ReplaceEntry(g, from, to), to)
<1> DEFINE places == {i \in DOMAIN g : g[i] = from}
           r == ReplaceEntry(g, from, to)
<1>1. DOMAIN g = 1 .. GuardEntries /\ 1 .. GuardEntries \subseteq Nat
    BY HeapAssumption DEF Entries
<1>2. CASE places = {}
    <2>1. r = g /\ ~Known(g, from)
        BY <1>1, <1>2 DEF ReplaceEntry, Known
    <2> QED BY <2>1
<1>3. CASE places # {}
    <2>1. First(places) \in places
        BY <1>1, <1>3, Least
    <2>2. PICK i \in 1 .. GuardEntries : i = First(places) /\ g[i] = from
        BY <1>1, <2>1
    <2>3. r = [g EXCEPT ![i] = to]
        BY <1>3, <2>2 DEF ReplaceEntry
    <2> HIDE DEF r
    <2>4. r \in Entries /\ r[i] = to /\ \A j \in 1 .. GuardEntries : j # i => r[j] = g[j]
        BY <2>3 DEF Entries
    <2>5. ASSUME NEW x, x # from, Known(g, x) PROVE Known(r, x)
        <3>1. PICK j \in 1 .. GuardEntries : g[j] = x
            BY <2>5 DEF Known
        <3>2. r[j] = x
            BY <3>1, <2>2, <2>4, <2>5
        <3> QED BY <3>2 DEF Known
    <2>6. Known(r, to)
        BY <2>4 DEF Known
    <2> QED BY <2>4, <2>5, <2>6 DEF r
<1> QED BY <1>2, <1>3

\* What is not among the blocks logged stays known.
LEMMA FreeingsLogged ==
    ASSUME NEW g \in Entries, NEW s \in Seq(Addresses), Len(s) \in 0 .. 3
    PROVE  /\ LogFreeings(g, s) \in Entries
           /\ \A x : Known(g, x) /\ (\A i \in 1 .. Len(s) : s[i] # x) => Known(LogFreeings(g, s), x)
<1>0. PICK k \in 0 .. 3 : k = Len(s)
    OBVIOUS
<1> DEFINE L(h, n) == ExpLogFreeing(h, s[n])
           F(f) == [n \in 0 .. k |-> IF n = 0 THEN g ELSE L(f[n - 1], n)]
           w == [n \in 0 .. k |-> IF n = 0 THEN g ELSE IF n = 1 THEN L(g, 1) ELSE
                                       IF n = 2 THEN L(L(g, 1), 2) ELSE L(L(L(g, 1), 2), 3)]
           logged == CHOOSE f : f = F(f)
           Good(h) == h \in Entries /\ \A x : Known(g, x) /\ (\A i \in 1 .. Len(s) : s[i] # x) => Known(h, x)
<1>1. LogFreeings(g, s) = logged[k]
    BY <1>0 DEF LogFreeings
<1> HIDE DEF L
<1>2. w = F(w)
    <2>1. \A n \in 0 .. k : n = 0 \/ n = 1 \/ n = 2 \/ n = 3
        OBVIOUS
    <2>2. \A n \in 0 .. k : n # 0 => n - 1 \in 0 .. k
        OBVIOUS
    <2>3. ASSUME NEW n \in 0 .. k PROVE w[n] = IF n = 0 THEN g ELSE L(w[n - 1], n)
        <3>1. CASE n = 0
            BY <3>1
        <3>2. CASE n = 1
            BY <3>2, <2>2
        <3>3. CASE n = 2
            BY <3>3, <2>2
        <3>4. CASE n = 3
            BY <3>4, <2>2
        <3> QED BY <2>1, <3>1, <3>2, <3>3, <3>4
    <2>4. w = [n \in 0 .. k |-> w[n]]
        OBVIOUS
    <2> HIDE DEF w
    <2>5. w = [n \in 0 .. k |-> IF n = 0 THEN g ELSE L(w[n - 1], n)]
        BY <2>3, <2>4
    <2> QED BY <2>5
<1>3. logged = F(logged)
    <2> HIDE DEF F, w
    <2> QED BY <1>2
<1> HIDE DEF logged, w
<1>4. \A n \in 0 .. k : logged[n] = IF n = 0 THEN g ELSE L(logged[n - 1], n)
    BY <1>3
<1>5. ASSUME NEW h, Good(h), NEW n \in 1 .. k PROVE Good(L(h, n))
    <2>1. s[n] \in Addresses
        BY <1>0, ElementOfSeq
    <2>2. PICK e : e = s[n]
        OBVIOUS
    <2>3. L(h, n) = ReplaceEntry(h, e, NoBlock)
        BY <2>2 DEF L, ExpLogFreeing
    <2>4. /\ ReplaceEntry(h, e, NoBlock) \in Entries
          /\ \A x : x # e /\ Known(h, x) => Known(ReplaceEntry(h, e, NoBlock), x)
        BY <1>5, EntryReplaced
    <2>5. ASSUME NEW x, Known(g, x), \A i \in 1 .. Len(s) : s[i] # x PROVE Known(ReplaceEntry(h, e, NoBlock), x)
        BY <1>0, <1>5, <2>2, <2>4, <2>5
    <2> QED BY <2>3, <2>4, <2>5
<1>6. Good(g)
    OBVIOUS
<1> HIDE DEF Good
<1>7. Good(logged[0])
    BY <1>4, <1>6
<1>8. k >= 1 => Good(logged[1])
    <2>1. k >= 1 => logged[1] = L(logged[0], 1) /\ 1 \in 1 .. k
        BY <1>4
    <2> QED BY <1>5, <1>7, <2>1
<1>9. k >= 2 => Good(logged[2])
    <2>1. k >= 2 => logged[2] = L(logged[1], 2) /\ 2 \in 1 .. k /\ k >= 1
        BY <1>4
    <2> QED BY <1>5, <1>8, <2>1
<1>10. k >= 3 => Good(logged[3])
    <2>1. k >= 3 => logged[3] = L(logged[2], 3) /\ 3 \in 1 .. k /\ k >= 2
        BY <1>4
    <2> QED BY <1>5, <1>9, <2>1
<1>11. k = 0 \/ k = 1 \/ k = 2 \/ k = 3
    BY <1>0
<1>12. Good(logged[k])
    <2>1. CASE k = 0
        BY <2>1, <1>7
    <2>2. CASE k = 1
        BY <2>2, <1>8
    <2>3. CASE k = 2
        BY <2>3, <1>9
    <2>4. CASE k = 3
        BY <2>4, <1>10
    <2> QED BY <1>11, <2>1, <2>2, <2>3, <2>4
<1> QED BY <1>1, <1>12 DEF Good

\* Freeing a block logs that block, and free blocks.
LEMMA FreeingsAre ==
    ASSUME NEW m, MemoryInv(m), Apart(m.block), NEW a \in UsedOf(m.block)
    PROVE  LET s == LoggedFreeings(m, a)
           IN  s \in Seq(Addresses) /\ Len(s) \in 0 .. 3
               /\ \A i \in 1 .. Len(s) : s[i] = a \/ s[i] \in FreeOf(m.block)
<1> DEFINE next == FollowingFree(m, a)
           last == IF LooksFree(m, PreviousOf(m, a)) THEN <<a>> ELSE << >>
           e == End(m.block, a)
<1>1. a \in BlocksOf(m.block) /\ a \in Addresses /\ m.block \in Headers
    BY KindsOf DEF MemoryInv, UsedOf
<1>2. next = << >> \/ (next = <<e>> /\ e \in FreeOf(m.block) /\ e \in Addresses)
    BY <1>1, Following DEF Apart, FreeOf
<1>3. last = << >> \/ last = <<a>>
    OBVIOUS
<1>4. PICK s : s = LoggedFreeings(m, a)
    OBVIOUS
<1>5. PICK p : p = <<a>> \o next
    OBVIOUS
<1>6. s = p \o last
    BY <1>4, <1>5 DEF LoggedFreeings
<1> HIDE DEF next, last, e
<1>7. next \in Seq(Addresses) /\ Len(next) \in 0 .. 1 /\ \A i \in 1 .. Len(next) : next[i] \in FreeOf(m.block)
    <2>1. CASE next = << >>
        BY <2>1
    <2>2. CASE next = <<e>> /\ e \in FreeOf(m.block) /\ e \in Addresses
        <3>1. next \in Seq(Addresses) /\ Len(next) = 1 /\ next[1] = e
            BY <2>2
        <3>2. \A i \in 1 .. Len(next) : i = 1
            BY <3>1
        <3> QED BY <2>2, <3>1, <3>2
    <2> QED BY <1>2, <2>1, <2>2
<1>8. last \in Seq(Addresses) /\ Len(last) \in 0 .. 1 /\ \A i \in 1 .. Len(last) : last[i] = a
    <2>1. CASE last = << >>
        BY <2>1
    <2>2. CASE last = <<a>>
        <3>1. last \in Seq(Addresses) /\ Len(last) = 1 /\ last[1] = a
            BY <2>2, <1>1
        <3>2. \A i \in 1 .. Len(last) : i = 1
            BY <3>1
        <3> QED BY <3>1, <3>2
    <2> QED BY <1>3, <2>1, <2>2
<1>9. <<a>> \in Seq(Addresses) /\ Len(<<a>>) = 1 /\ <<a>>[1] = a
    BY <1>1
<1>10. /\ p \in Seq(Addresses) /\ Len(p) = 1 + Len(next)
       /\ \A i \in 1 .. Len(p) : p[i] = IF i <= 1 THEN <<a>>[i] ELSE next[i - 1]
    BY <1>5, <1>7, <1>9, ConcatProperties
<1>11. /\ s \in Seq(Addresses) /\ Len(s) = Len(p) + Len(last)
       /\ \A i \in 1 .. Len(s) : s[i] = IF i <= Len(p) THEN p[i] ELSE last[i - Len(p)]
    <2>1. p \in Seq(Addresses) /\ last \in Seq(Addresses)
        BY <1>8, <1>10
    <2>2. PICK q : q = last
        OBVIOUS
    <2>3. /\ p \o q \in Seq(Addresses) /\ Len(p \o q) = Len(p) + Len(q)
          /\ \A i \in 1 .. Len(p) + Len(q) : (p \o q)[i] = IF i <= Len(p) THEN p[i] ELSE q[i - Len(p)]
        BY <2>1, <2>2, ConcatProperties
    <2>4. s = p \o q
        BY <1>6, <2>2
    <2> QED BY <2>2, <2>3, <2>4
<1>12. \A i \in 1 .. Len(p) : p[i] = a \/ p[i] \in FreeOf(m.block)
    <2> TAKE i \in 1 .. Len(p)
    <2>1. CASE i = 1
        BY <2>1, <1>9, <1>10
    <2>2. CASE i # 1
        <3>1. i - 1 \in 1 .. Len(next) /\ ~ (i <= 1)
            BY <2>2, <1>7, <1>10
        <3>2. p[i] = next[i - 1]
            BY <3>1, <1>10
        <3> QED BY <3>1, <3>2, <1>7
    <2> QED BY <2>1, <2>2
<1>13. \A i \in 1 .. Len(s) : s[i] = a \/ s[i] \in FreeOf(m.block)
    <2> TAKE i \in 1 .. Len(s)
    <2>1. CASE i <= Len(p)
        <3>1. i \in 1 .. Len(p)
            BY <2>1, <1>7, <1>10
        <3>2. s[i] = p[i]
            BY <2>1, <1>11
        <3> QED BY <3>1, <3>2, <1>12
    <2>2. CASE ~ (i <= Len(p))
        <3>1. i - Len(p) \in 1 .. Len(last)
            BY <2>2, <1>7, <1>8, <1>10, <1>11
        <3>2. s[i] = last[i - Len(p)]
            BY <2>2, <1>11
        <3> QED BY <3>1, <3>2, <1>8
    <2> QED BY <2>1, <2>2
<1>14. Len(s) \in 0 .. 3
    <2>1. Len(p) = 1 + Len(next) /\ Len(s) = Len(p) + Len(last)
        BY <1>10, <1>11, Zenon
    <2>2. Len(next) \in 0 .. 1 /\ Len(last) \in 0 .. 1
        BY <1>7, <1>8, Zenon
    <2>3. \A x, y \in 0 .. 1 : (1 + x) + y \in 0 .. 3
        OBVIOUS
    <2>4. Len(s) = (1 + Len(next)) + Len(last)
        BY <2>1, Zenon
    <2>5. (1 + Len(next)) + Len(last) \in 0 .. 3
        BY <2>2, <2>3, Zenon
    <2> QED BY <2>4, <2>5, Zenon
<1> QED BY <1>4, <1>11, <1>13, <1>14


-----------------------------------------------------------------------------
(* The steps. *)

\* The blocks a step takes and gives: one block at most each.
Simple(given, back) ==
    \/ \E a \in FreeOf(block) \cup UsedOf(block) : given = {a} /\ back = {}
    \/ \E a \in UsedOf(block) : given = {} /\ back = {a}
    \/ \E a \in UsedOf(block) : \E b \in FreeOf(block) : given = {b} /\ back = {a}

Steps == \E given, back \in SUBSET Addresses : \E bytes \in Nat \ {0} :
            Simple(given, back) /\ Change(given, back, bytes)

\* What threads do with their own blocks, in guarded regions and outside.
Work(given, back, bytes) ==
    /\ Simple(given, back) /\ Change(given, back, bytes)
    /\ (given \cup back) \cap OwnTables = {}
    /\ UNCHANGED <<guarded, tables, pc>> /\ stopped' \in Reasons
    /\ guard' \in [Threads -> Entries] /\ region' \in [Threads -> SUBSET Addresses]
    /\ \A u \in Threads :
          /\ region'[u] \subseteq (region[u] \ back) \cup (IF guarded[u] THEN given ELSE {})
          /\ \A a \in region'[u] : Known(guard'[u], a)

Works == \E given, back \in SUBSET Addresses : \E bytes \in Nat \ {0} : Work(given, back, bytes)

LEMMA WorkKeeps ==
    ASSUME Inv, Works
    PROVE  Inv' /\ Steps /\ guarded' = guarded
<1>1. PICK given \in SUBSET Addresses, back \in SUBSET Addresses, bytes \in Nat \ {0} : Work(given, back, bytes)
    BY DEF Works
<1>2. Simple(given, back) /\ Change(given, back, bytes) /\ (given \cup back) \cap OwnTables = {}
    BY <1>1 DEF Work
<1>3. UNCHANGED <<guarded, tables, pc>>
    BY <1>1 DEF Work
<1>4. HeapInv /\ HeldInv /\ GuardTypes /\ TablesInv /\ PhaseInv /\ RegionInv
    BY DEF Inv
<1>5. given \cap back = {}
    <2>1. UsedOf(block) \cap FreeOf(block) = {}
        BY <1>4, InUse
    <2> QED BY <1>2, <2>1 DEF Simple
<1>6. HeapInv' /\ HeldInv'
    BY <1>2, <1>4, <1>5, HeldKept DEF Change
<1>7. UsedOf(block') = (UsedOf(block) \ back) \cup given
    BY <1>2 DEF Change, Keeps, Memory
<1>8. OwnTables' = OwnTables
    BY <1>3 DEF OwnTables
<1>9. GuardTypes'
    BY <1>1, <1>3, <1>4 DEF GuardTypes, Work, Entries
<1>10. TablesInv'
    <2>1. OwnTables' \subseteq UsedOf(block') \cup {NoBlock}
        BY <1>2, <1>4, <1>7, <1>8 DEF TablesInv
    <2>2. tables' = tables
        BY <1>3
    <2> QED BY <1>4, <2>1, <2>2 DEF TablesInv
<1>11. PhaseInv'
    BY <1>3, <1>4 DEF PhaseInv
<1>12. RegionInv'
    <2> SUFFICES ASSUME NEW u \in Threads
                 PROVE  /\ region'[u] \subseteq UsedOf(block') /\ region'[u] \cap OwnTables' = {}
                        /\ ~guarded'[u] => region'[u] = {}
                        /\ \A a \in region'[u] : Known(guard'[u], a)
        BY DEF RegionInv
    <2>1. /\ region'[u] \subseteq (region[u] \ back) \cup (IF guarded[u] THEN given ELSE {})
          /\ \A a \in region'[u] : Known(guard'[u], a)
        BY <1>1 DEF Work
    <2>2. /\ region[u] \subseteq UsedOf(block) /\ region[u] \cap OwnTables = {}
          /\ ~guarded[u] => region[u] = {}
        BY <1>4 DEF RegionInv
    <2>3. region'[u] \subseteq UsedOf(block') /\ region'[u] \cap OwnTables' = {}
        BY <1>2, <1>7, <1>8, <2>1, <2>2
    <2>4. ~guarded'[u] => region'[u] = {}
        BY <1>3, <2>1, <2>2
    <2> QED BY <2>1, <2>3, <2>4
<1> QED BY <1>2, <1>3, <1>6, <1>9, <1>10, <1>11, <1>12 DEF Inv, Steps

\* A block that a caller may pass, and that is not locked or free.
LEMMA PassedIs ==
    ASSUME Inv, NEW a, Passed(a)
    PROVE  /\ a \in FreeOf(block) \cup UsedOf(block) /\ a \in Addresses /\ a \notin OwnTables
           /\ block[a].type # "Free" => a \in UsedOf(block)
<1>1. a \in BlocksOf(block) /\ BlocksOf(block) = FreeOf(block) \cup UsedOf(block)
    BY InUse DEF Inv, Passed
<1> QED BY <1>1 DEF Passed, FreeOf, UsedOf

\* A step that changes no guard and no region.
LEMMA QuietWork ==
    ASSUME Inv, NEW a \in UsedOf(block), a \notin OwnTables, NEW bytes \in Nat \ {0}, Change({a}, {}, bytes),
           UNCHANGED <<guardVars, region, stopped>>
    PROVE  Works
<1>1. a \in Addresses
    BY DEF UsedOf
<1>2. Simple({a}, {})
    BY DEF Simple
<1>3. /\ UNCHANGED <<guarded, tables, pc>> /\ stopped' \in Reasons
      /\ guard' \in [Threads -> Entries] /\ region' \in [Threads -> SUBSET Addresses]
      /\ guard' = guard /\ region' = region
    BY DEF Inv, GuardTypes, guardVars, Entries
<1>4. ASSUME NEW u \in Threads
      PROVE  /\ region'[u] \subseteq (region[u] \ {}) \cup (IF guarded[u] THEN {a} ELSE {})
             /\ \A x \in region'[u] : Known(guard'[u], x)
    BY <1>3 DEF Inv, RegionInv
<1>5. Work({a}, {}, bytes)
    BY <1>2, <1>3, <1>4 DEF Work
<1>6. {a} \in SUBSET Addresses /\ {} \in SUBSET Addresses
    BY <1>1
<1> QED BY <1>5, <1>6 DEF Works

LEMMA ExAllocateHeapWorks ==
    ASSUME Inv, NEW t \in Threads, NEW bytes \in Requests, ExAllocateHeap(t, bytes)
    PROVE  KeBugCheck("GuardTableFull") \/ Works
<1>1. PICK a : a = ExpFindIdealBlock(Memory, bytes)
    OBVIOUS
<1>2. bytes \in Nat \ {0}
    BY HeapAssumption
<1> SUFFICES ASSUME ~ (guarded[t] /\ GuardFull(guard[t])) PROVE Works
    BY DEF ExAllocateHeap
<1>3. /\ a # NoBlock /\ SetMemory(ExpAllocateHeapInBlock(Memory, a, bytes)) /\ held' = Hold(a, bytes)
      /\ guard' = IF guarded[t] THEN [guard EXCEPT ![t] = ExpLogAllocation(@, a)] ELSE guard
      /\ region' = IF guarded[t] THEN [region EXCEPT ![t] = @ \cup {a}] ELSE region
      /\ UNCHANGED <<guarded, tables, pc, stopped>>
    BY <1>1 DEF ExAllocateHeap
<1>4. HeapInv /\ HeldInv /\ GuardTypes /\ TablesInv /\ RegionInv
    BY DEF Inv
<1>5. Change({a}, {}, bytes) /\ a \in FreeOf(block)
    BY <1>1, <1>2, <1>3, <1>4, AllocateChanges
<1>6. a \in Addresses /\ a \notin OwnTables /\ NoBlock \notin Addresses
    BY <1>3, <1>4, <1>5, InUse, AddressType DEF TablesInv
<1>7. Simple({a}, {})
    BY <1>5 DEF Simple
<1>8. guard \in [Threads -> Entries] /\ region \in [Threads -> SUBSET Addresses] /\ stopped' \in Reasons
    BY <1>3, <1>4 DEF GuardTypes, Entries
<1>9. ASSUME guarded[t] PROVE /\ ExpLogAllocation(guard[t], a) \in Entries
                              /\ \A x \in region[t] \cup {a} : Known(ExpLogAllocation(guard[t], a), x)
    <2>1. guard[t] \in Entries
        BY <1>8
    <2>2. Known(guard[t], NoBlock)
        <3>1. DOMAIN guard[t] = 1 .. GuardEntries
            BY <2>1 DEF Entries
        <3> QED BY <1>9, <3>1 DEF GuardFull, Known
    <2>3. PICK g : g = guard[t]
        OBVIOUS
    <2>4. /\ ReplaceEntry(g, NoBlock, a) \in Entries /\ Known(ReplaceEntry(g, NoBlock, a), a)
          /\ \A x : x # NoBlock /\ Known(g, x) => Known(ReplaceEntry(g, NoBlock, a), x)
        BY <1>6, <2>1, <2>2, <2>3, EntryReplaced
    <2>5. \A x \in region[t] : x # NoBlock /\ Known(g, x)
        BY <1>4, <1>6, <1>8, <2>3 DEF RegionInv
    <2> QED BY <2>3, <2>4, <2>5 DEF ExpLogAllocation
<1>10. guard' \in [Threads -> Entries] /\ region' \in [Threads -> SUBSET Addresses]
    <2>1. CASE guarded[t]
        BY <2>1, <1>3, <1>6, <1>8, <1>9
    <2>2. CASE ~guarded[t]
        BY <2>2, <1>3, <1>8
    <2> QED BY <2>1, <2>2
<1>11. ASSUME NEW u \in Threads
       PROVE  /\ region'[u] \subseteq (region[u] \ {}) \cup (IF guarded[u] THEN {a} ELSE {})
              /\ \A x \in region'[u] : Known(guard'[u], x)
    <2>1. CASE u = t /\ guarded[t]
        <3>1. region'[u] = region[u] \cup {a} /\ guard'[u] = ExpLogAllocation(guard[t], a)
            BY <2>1, <1>3, <1>8
        <3> QED BY <2>1, <3>1, <1>9
    <2>2. CASE ~ (u = t /\ guarded[t])
        <3>1. region'[u] = region[u] /\ guard'[u] = guard[u]
            BY <2>2, <1>3, <1>8
        <3> QED BY <3>1, <1>4 DEF RegionInv
    <2> QED BY <2>1, <2>2
<1>12. Work({a}, {}, bytes)
    BY <1>3, <1>5, <1>6, <1>7, <1>8, <1>10, <1>11 DEF Work
<1>13. {a} \in SUBSET Addresses /\ {} \in SUBSET Addresses
    BY <1>6
<1> QED BY <1>2, <1>12, <1>13 DEF Works


\* What a freed block leaves known of a region.
LEMMA RegionAfterFreeing ==
    ASSUME NEW m, MemoryInv(m), Apart(m.block), NEW a \in UsedOf(m.block), NEW g \in Entries,
           NEW R \in SUBSET UsedOf(m.block), \A x \in R \ {a} : Known(g, x)
    PROVE  LET h == LogFreeings(g, LoggedFreeings(m, a))
           IN  h \in Entries /\ \A x \in R \ {a} : Known(h, x)
<1>1. PICK s : s = LoggedFreeings(m, a)
    OBVIOUS
<1>2. s \in Seq(Addresses) /\ Len(s) \in 0 .. 3 /\ \A i \in 1 .. Len(s) : s[i] = a \/ s[i] \in FreeOf(m.block)
    BY <1>1, FreeingsAre
<1>3. UsedOf(m.block) \cap FreeOf(m.block) = {}
    BY DEF UsedOf, FreeOf
<1>4. /\ LogFreeings(g, s) \in Entries
      /\ \A x : Known(g, x) /\ (\A i \in 1 .. Len(s) : s[i] # x) => Known(LogFreeings(g, s), x)
    BY <1>2, FreeingsLogged
<1>5. \A x \in R \ {a} : \A i \in 1 .. Len(s) : s[i] # x
    BY <1>2, <1>3
<1> QED BY <1>1, <1>4, <1>5

LEMMA ExFreeHeapWorks ==
    ASSUME Inv, NEW t \in Threads, NEW a, ExFreeHeap(t, a)
    PROVE  (\E r \in Reasons : KeBugCheck(r)) \/ Works
<1>1. Passed(a)
    BY DEF ExFreeHeap
<1>2. CASE block[a].type = "Locked"
    <2>1. KeBugCheck("LockedFreeing") \/ KeBugCheck("Corrupted")
        BY <1>2 DEF ExFreeHeap
    <2> QED BY <2>1 DEF Reasons
<1>3. CASE block[a].type = "Free"
    <2>1. KeBugCheck("FreeFreeing") \/ KeBugCheck("Corrupted")
        BY <1>3 DEF ExFreeHeap
    <2> QED BY <2>1 DEF Reasons
<1>4. CASE block[a].type # "Locked" /\ block[a].type # "Free" /\ WalksOverWipedHeader(Memory, a)
    <2>1. KeBugCheck("Corrupted")
        BY <1>4 DEF ExFreeHeap
    <2> QED BY <2>1 DEF Reasons
<1>5. CASE block[a].type # "Locked" /\ block[a].type # "Free" /\ ~WalksOverWipedHeader(Memory, a)
    <2>1. /\ SetMemory(ExpFreeHeapBlock(Memory, a)) /\ held' = LetGo(a)
          /\ guard' = IF guarded[t]
                      THEN [guard EXCEPT ![t] = LogFreeings(@, LoggedFreeings(Memory, a))]
                      ELSE guard
          /\ region' = [u \in Threads |-> region[u] \ {a}]
          /\ UNCHANGED <<guarded, tables, pc, stopped>>
        BY <1>5 DEF ExFreeHeap
    <2>2. HeapInv /\ HeldInv /\ GuardTypes /\ RegionInv
        BY DEF Inv
    <2>3. a \in UsedOf(block) /\ a \in Addresses /\ a \notin OwnTables
        BY <1>1, <1>5, PassedIs
    <2>4. Change({}, {a}, 1)
        BY <2>1, <2>2, <2>3, FreeChanges
    <2>5. Simple({}, {a})
        BY <2>3 DEF Simple
    <2>6. guard \in [Threads -> Entries] /\ region \in [Threads -> SUBSET Addresses] /\ stopped' \in Reasons
        BY <2>1, <2>2 DEF GuardTypes, Entries
    <2>7. PICK m : m = Memory
        OBVIOUS
    <2>8. MemoryInv(m) /\ Apart(m.block) /\ a \in UsedOf(m.block) /\ m.block = block
        BY <2>2, <2>3, <2>7 DEF HeapInv, Memory
    <2>9. /\ LogFreeings(guard[t], LoggedFreeings(m, a)) \in Entries
          /\ \A x \in region[t] \ {a} : Known(LogFreeings(guard[t], LoggedFreeings(m, a)), x)
        <3>1. PICK g, R : g = guard[t] /\ R = region[t]
            OBVIOUS
        <3>2. g \in Entries /\ R \in SUBSET UsedOf(m.block) /\ \A x \in R \ {a} : Known(g, x)
            BY <3>1, <2>2, <2>6, <2>8 DEF RegionInv
        <3>3. /\ LogFreeings(g, LoggedFreeings(m, a)) \in Entries
              /\ \A x \in R \ {a} : Known(LogFreeings(g, LoggedFreeings(m, a)), x)
            BY <3>2, <2>8, RegionAfterFreeing
        <3> QED BY <3>1, <3>3
    <2>10. guard' \in [Threads -> Entries] /\ region' \in [Threads -> SUBSET Addresses]
        <3>1. CASE guarded[t]
            BY <3>1, <2>1, <2>6, <2>7, <2>9
        <3>2. CASE ~guarded[t]
            BY <3>2, <2>1, <2>6
        <3> QED BY <3>1, <3>2
    <2>11. ASSUME NEW u \in Threads
           PROVE  /\ region'[u] \subseteq (region[u] \ {a}) \cup (IF guarded[u] THEN {} ELSE {})
                  /\ \A x \in region'[u] : Known(guard'[u], x)
        <3>1. region'[u] = region[u] \ {a}
            BY <2>1
        <3>2. CASE u = t /\ guarded[t]
            <4>1. guard'[u] = LogFreeings(guard[t], LoggedFreeings(m, a))
                BY <3>2, <2>1, <2>6, <2>7
            <4> QED BY <3>1, <3>2, <4>1, <2>9
        <3>3. CASE ~ (u = t /\ guarded[t])
            <4>1. guard'[u] = guard[u]
                BY <3>3, <2>1, <2>6
            <4> QED BY <3>1, <4>1, <2>2 DEF RegionInv
        <3> QED BY <3>2, <3>3
    <2>12. Work({}, {a}, 1)
        BY <2>1, <2>3, <2>4, <2>5, <2>6, <2>10, <2>11 DEF Work
    <2>13. {} \in SUBSET Addresses /\ {a} \in SUBSET Addresses /\ 1 \in Nat \ {0}
        BY <2>3
    <2> QED BY <2>12, <2>13 DEF Works
<1> QED BY <1>2, <1>3, <1>4, <1>5

LEMMA LocksWork ==
    ASSUME Inv, NEW t \in Threads, NEW a, ExLockHeapBlock(t, a) \/ ExUnlockHeapBlock(t, a)
    PROVE  (\E r \in Reasons : KeBugCheck(r)) \/ Works
<1>1. Passed(a)
    BY DEF ExLockHeapBlock, ExUnlockHeapBlock
<1>2. CASE KeBugCheck("Locking") \/ KeBugCheck("Unlocking")
    BY <1>2 DEF Reasons
<1>3. CASE ~ (KeBugCheck("Locking") \/ KeBugCheck("Unlocking"))
    <2>1. PICK type \in {"Allocated", "Locked"} : block' = [block EXCEPT ![a].type = type]
        BY <1>3 DEF ExLockHeapBlock, ExUnlockHeapBlock
    <2>2. block[a].type # "Free" /\ UNCHANGED <<order, free, held, guardVars, region, stopped>>
        BY <1>3 DEF ExLockHeapBlock, ExUnlockHeapBlock
    <2>3. a \in UsedOf(block) /\ a \in Addresses /\ a \notin OwnTables
        BY <1>1, <2>2, PassedIs
    <2>4. HeapInv /\ HeldInv /\ block \in Headers /\ DOMAIN held = UsedOf(block)
        BY InUse DEF Inv
    <2>5. PICK h : h = [block[a] EXCEPT !.type = type]
        OBVIOUS
    <2>6. h \in Header /\ h.size = block[a].size /\ h.type = type
        <3>1. block[a] \in Header
            BY <2>3, <2>4, HeaderType
        <3> QED BY <3>1, <2>5 DEF Header, BlockTypes
    <2>7. block' = [block EXCEPT ![a] = h]
        BY <2>1, <2>5
    <2>8. PICK bytes : bytes = held[a]
        OBVIOUS
    <2>9. bytes \in Nat \ {0} /\ UnitsOf(bytes) <= block[a].size
        BY <2>3, <2>4, <2>8 DEF HeldInv
    <2>10. held' = Hold(a, bytes)
        <3>1. held = [x \in UsedOf(block) |-> held[x]]
            BY <2>4 DEF HeldInv
        <3>2. Hold(a, bytes) = [x \in UsedOf(block) |-> held[x]]
            BY <2>3, <2>4, <2>8 DEF Hold
        <3> QED BY <2>2, <3>1, <3>2
    <2>11. Change({a}, {}, bytes)
        BY <2>2, <2>3, <2>4, <2>6, <2>7, <2>9, <2>10, TouchedChanges
    <2> QED BY <2>2, <2>3, <2>9, <2>11, QuietWork
<1> QED BY <1>2, <1>3


LEMMA ReallocatedIs ==
    ASSUME Inv, NEW t, NEW a, Reallocates(t, a)
    PROVE  a \in UsedOf(block) /\ a \in Addresses /\ a \notin OwnTables /\ block[a] \in Header
<1>1. Passed(a) /\ block[a].type = "Allocated"
    BY DEF Reallocates
<1>2. block \in Headers
    BY InUse DEF Inv
<1> QED BY <1>1, <1>2, PassedIs, HeaderType

\* Another padding, in a block that keeps its size.
LEMMA PaddingWorks ==
    ASSUME Inv, NEW t, NEW a, Reallocates(t, a), NEW bytes \in Nat \ {0}, UnitsOf(bytes) <= block[a].size,
           NEW pad \in 0 .. 255, block' = [block EXCEPT ![a].pad = pad], held' = Hold(a, bytes),
           UNCHANGED <<order, free, guardVars, region, stopped>>
    PROVE  Works
<1>1. a \in UsedOf(block) /\ a \notin OwnTables /\ block[a] \in Header /\ block[a].type = "Allocated"
    BY ReallocatedIs DEF Reallocates
<1>2. PICK h : h = [block[a] EXCEPT !.pad = pad]
    OBVIOUS
<1>3. h \in Header /\ h.size = block[a].size /\ h.type = "Allocated"
    BY <1>1, <1>2 DEF Header
<1>4. block' = [block EXCEPT ![a] = h]
    BY <1>2
<1>5. HeapInv /\ HeldInv
    BY DEF Inv
<1>6. Change({a}, {}, bytes)
    BY <1>1, <1>3, <1>4, <1>5, TouchedChanges
<1> QED BY <1>1, <1>6, QuietWork

LEMMA ReallocInPlaceWorks ==
    ASSUME Inv, NEW t, NEW a, NEW bytes \in Nat \ {0}, ReallocInPlace(t, a, bytes)
    PROVE  Works
<1>1. Reallocates(t, a) /\ UnitsOf(bytes) <= block[a].size
    BY DEF ReallocInPlace
<1>2. block[a].size \in Nat /\ Align \in Nat
    <2>1. block[a] \in Header
        BY <1>1, ReallocatedIs
    <2> QED BY <2>1, HeapAssumption DEF Header
<1>3. PICK pad : pad = Byte(block[a].size * Align - bytes)
    OBVIOUS
<1>4. pad \in 0 .. 255
    <2>1. block[a].size * Align \in Int
        BY <1>2
    <2>2. block[a].size * Align - bytes \in Int
        BY <2>1
    <2> QED BY <1>3, <2>2, ByteType
<1>5. /\ block' = [block EXCEPT ![a].pad = pad] /\ held' = Hold(a, bytes)
      /\ UNCHANGED <<order, free, guardVars, region, stopped>>
    BY <1>3 DEF ReallocInPlace
<1> QED BY <1>1, <1>4, <1>5, PaddingWorks

LEMMA ReallocShrinkWithinBlockWorks ==
    ASSUME Inv, NEW t, NEW a, NEW bytes \in Nat \ {0}, ReallocShrinkWithinBlock(t, a, bytes)
    PROVE  KeBugCheck("InvalidBlock") \/ Works
<1>1. Reallocates(t, a) /\ UnitsOf(bytes) <= block[a].size
    BY DEF ReallocShrinkWithinBlock
<1>2. block[a].pad \in Nat /\ Align \in Nat /\ UnitsOf(bytes) \in Nat
    <2>1. block[a] \in Header
        BY <1>1, ReallocatedIs
    <2> QED BY <2>1, HeapAssumption, UnitsType DEF Header
<1>3. PICK pad : pad = Byte(block[a].pad + bytes - UnitsOf(bytes) * Align)
    OBVIOUS
<1>4. pad \in 0 .. 255
    <2>1. UnitsOf(bytes) * Align \in Int
        BY <1>2
    <2>2. block[a].pad + bytes - UnitsOf(bytes) * Align \in Int
        BY <1>2, <2>1
    <2> QED BY <1>3, <2>2, ByteType
<1>5. CASE ~ExpCheckBlockValid(a, pad)
    BY <1>3, <1>5 DEF ReallocShrinkWithinBlock
<1>6. CASE ExpCheckBlockValid(a, pad)
    <2>1. /\ block' = [block EXCEPT ![a].pad = pad] /\ held' = Hold(a, bytes)
          /\ UNCHANGED <<order, free, guardVars, region, stopped>>
        BY <1>3, <1>6 DEF ReallocShrinkWithinBlock
    <2> QED BY <1>1, <1>4, <2>1, PaddingWorks
<1> QED BY <1>5, <1>6

LEMMA NextOfUsed ==
    ASSUME Inv, NEW a \in UsedOf(block), NEW b, b = NextOf(Memory, a)
    PROVE  /\ b = End(block, a) /\ (LooksFree(Memory, b) <=> b \in FreeOf(block))
           /\ LooksFree(Memory, b) => block[b].size \in Nat
<1>1. block \in Headers /\ FreeOf(block) \subseteq Addresses
    BY InUse DEF Inv
<1>2. PICK m : m = Memory
    OBVIOUS
<1>3. MemoryInv(m) /\ m.block = block /\ a \in BlocksOf(m.block)
    BY <1>1, <1>2, KindsOf DEF Inv, HeapInv, Memory
<1>4. b = End(block, a)
    BY <1>2, <1>3, NextIs
<1>5. b \in BlocksOf(block) \cup {HeapUnits}
    BY <1>3, <1>4 DEF MemoryInv, Tiles
<1>6. b \in Addresses \cup {NoBlock}
    BY <1>5 DEF NoBlock, BlocksOf
<1>7. LooksFree(Memory, b) <=> b \in FreeOf(block)
    BY <1>2, <1>3, <1>6, LooksFreeIs
<1>8. b \in FreeOf(block) => block[b].size \in Nat
    BY <1>1, HeaderType
<1> QED BY <1>4, <1>7, <1>8

\* The boundary to a free block moves.
LEMMA BoundaryWorks ==
    ASSUME Inv, NEW t, NEW a, Reallocates(t, a), NEW bytes \in Nat \ {0}, NEW b, b = NextOf(Memory, a),
           LooksFree(Memory, b), UnitsOf(bytes) # block[a].size,
           UnitsOf(bytes) < block[a].size + block[b].size,
           MoveBoundary(a, b, UnitsOf(bytes), bytes), held' = Hold(a, bytes),
           UNCHANGED <<guardVars, region, stopped>>
    PROVE  Works
<1>1. a \in UsedOf(block) /\ a \notin OwnTables
    BY ReallocatedIs
<1>2. HeapInv /\ HeldInv /\ MemoryInv(Memory) /\ Apart(block) /\ block \in Headers
    BY InUse DEF Inv, HeapInv
<1>7. b \in FreeOf(block) /\ b = End(block, a)
    BY <1>1, NextOfUsed
<1>8. PICK n : n = UnitsOf(bytes)
    OBVIOUS
<1>9. n \in Nat /\ bytes \in Nat
    BY <1>8, UnitsType
<1>10. MoveBoundary(a, b, n, bytes) /\ n # block[a].size /\ n < block[a].size + block[b].size /\ End(block, a) = b
    BY <1>7, <1>8
<1>11. /\ MemoryInv(Memory') /\ Apart(block') /\ Keeps(Memory, Memory', {a}, {})
       /\ block'[a].size = n
    BY <1>1, <1>2, <1>7, <1>9, <1>10, Moved
<1>12. HeapInv'
    BY <1>11 DEF HeapInv
<1>13. held' = [x \in (DOMAIN held \cup {a}) \ {} |-> IF x \in {a} THEN bytes ELSE held[x]]
    BY DEF Hold
<1>14. Change({a}, {}, bytes)
    <2>1. \A x \in {a} : UnitsOf(bytes) <= block'[x].size
        BY <1>8, <1>9, <1>11
    <2> QED BY <1>11, <1>12, <1>13, <2>1 DEF Change
<1> QED BY <1>1, <1>14, QuietWork

LEMMA ReallocShrinkIntoNextWorks ==
    ASSUME Inv, NEW t, NEW a, NEW bytes \in Nat \ {0}, ReallocShrinkIntoNext(t, a, bytes)
    PROVE  Works
<1>1. PICK b : b = NextOf(Memory, a)
    OBVIOUS
<1>2. /\ Reallocates(t, a) /\ UnitsOf(bytes) <= block[a].size /\ block[a].size - UnitsOf(bytes) >= HeaderUnits
      /\ LooksFree(Memory, b) /\ MoveBoundary(a, b, UnitsOf(bytes), bytes)
      /\ held' = Hold(a, bytes) /\ UNCHANGED <<guardVars, region, stopped>>
    BY <1>1 DEF ReallocShrinkIntoNext
<1>3. block[a].size \in Nat /\ block[b].size \in Nat
    <2>1. a \in UsedOf(block) /\ block[a] \in Header
        BY <1>2, ReallocatedIs
    <2> QED BY <1>1, <1>2, <2>1, NextOfUsed DEF Header
<1>4. UnitsOf(bytes) \in Nat /\ HeaderUnits \in Nat /\ HeaderUnits > 0
    BY UnitsType, HeapAssumption
<1>5. PICK n, x, y : n = UnitsOf(bytes) /\ x = block[a].size /\ y = block[b].size
    OBVIOUS
<1>6. n # x /\ n < x + y
    BY <1>2, <1>3, <1>4, <1>5
<1> QED BY <1>1, <1>2, <1>5, <1>6, BoundaryWorks

LEMMA ReallocGrowWorks ==
    ASSUME Inv, NEW t, NEW a, NEW bytes \in Nat \ {0}, ReallocGrow(t, a, bytes)
    PROVE  Works
<1>1. PICK b : b = NextOf(Memory, a)
    OBVIOUS
<1>2. /\ Reallocates(t, a) /\ UnitsOf(bytes) > block[a].size
      /\ LooksFree(Memory, b) /\ block[b].size + block[a].size > UnitsOf(bytes) + HeaderUnits
      /\ MoveBoundary(a, b, UnitsOf(bytes), bytes)
      /\ held' = Hold(a, bytes) /\ UNCHANGED <<guardVars, region, stopped>>
    BY <1>1 DEF ReallocGrow, CanGrow
<1>3. block[a].size \in Nat /\ block[b].size \in Nat
    <2>1. a \in UsedOf(block) /\ block[a] \in Header
        BY <1>2, ReallocatedIs
    <2> QED BY <1>1, <1>2, <2>1, NextOfUsed DEF Header
<1>4. UnitsOf(bytes) \in Nat /\ HeaderUnits \in Nat /\ HeaderUnits > 0
    BY UnitsType, HeapAssumption
<1>5. PICK n, x, y : n = UnitsOf(bytes) /\ x = block[a].size /\ y = block[b].size
    OBVIOUS
<1>6. n # x /\ n < x + y
    BY <1>2, <1>3, <1>4, <1>5
<1> QED BY <1>1, <1>2, <1>5, <1>6, BoundaryWorks


LEMMA ReallocSplitWorks ==
    ASSUME Inv, NEW t, NEW a, NEW bytes \in Nat \ {0}, ReallocSplit(t, a, bytes)
    PROVE  Works
<1>1. PICK m, n, p : m = Memory /\ n = UnitsOf(bytes) /\ p = Byte(n * Align - bytes)
    OBVIOUS
<1>2. PICK u : u = [m EXCEPT !.block[a].size = n, !.block[a].pad = p]
    OBVIOUS
<1>3. PICK h : h = [block[a] EXCEPT !.size = n, !.pad = p]
    OBVIOUS
<1>4. /\ Reallocates(t, a) /\ block[a].size - n > HeaderUnits /\ n <= block[a].size
      /\ ~LooksFree(Memory, NextOf(Memory, a))
      /\ SetMemory(NewFreeBlock(u, a, a + HeaderUnits + n, block[a].size - n - HeaderUnits))
      /\ held' = Hold(a, bytes) /\ UNCHANGED <<guardVars, region, stopped>>
    BY <1>1, <1>2 DEF ReallocSplit
<1>5. a \in UsedOf(block) /\ a \in Addresses /\ a \notin OwnTables /\ block[a] \in Header /\ block[a].type = "Allocated"
    BY <1>4, ReallocatedIs DEF Reallocates
<1>6. HeapInv /\ HeldInv /\ MemoryInv(m) /\ m.block = block /\ m.order = order /\ m.free = free /\ Apart(m.block)
    BY <1>1 DEF Inv, HeapInv, Memory
<1>7. n \in Nat /\ p \in 0 .. 255
    <2>1. n \in Nat /\ Align \in Nat
        BY <1>1, UnitsType, HeapAssumption
    <2>2. n * Align \in Int
        BY <2>1
    <2>3. n * Align - bytes \in Int
        BY <2>2
    <2> QED BY <1>1, <2>1, <2>3, ByteType
<1>8. h \in Header /\ h.type = "Allocated" /\ h.size = n
    <2>1. block[a].size \in 0 .. HeapUnits /\ HeapUnits \in Nat
        BY <1>5, HeapAssumption DEF Header
    <2>2. n \in 0 .. HeapUnits
        BY <1>4, <1>7, <2>1
    <2> QED BY <1>3, <1>5, <1>7, <2>2 DEF Header
<1>9. u.block = [block EXCEPT ![a] = h] /\ u.order = order /\ u.free = free
    <2>1. m \in [block : {block}, order : {order}, free : {free}]
        BY <1>1 DEF Memory
    <2>2. block = [x \in Addresses |-> block[x]]
        BY InUse DEF Inv, Headers
    <2>3. u.order = order /\ u.free = free
        BY <1>2, <2>1
    <2>4. u.block = [[block EXCEPT ![a].size = n] EXCEPT ![a].pad = p]
        BY <1>2, <2>1
    <2>5. u.block = [block EXCEPT ![a] = h]
        BY <1>3, <1>5, <2>2, <2>4
    <2> QED BY <2>3, <2>5
<1>10. PICK w : w = With(m, a, h, free)
    OBVIOUS
<1>11. w.block = [block EXCEPT ![a] = h] /\ w.order = order /\ w.free = free
    BY <1>6, <1>10 DEF With
<1>12. NewFreeBlock(u, a, a + HeaderUnits + n, block[a].size - n - HeaderUnits) = Cut(m, a, h, free)
    <2>1. \A x, y, i : NewFreeBlock(u, x, y, i) = NewFreeBlock(w, x, y, i)
        BY <1>9, <1>11 DEF NewFreeBlock
    <2>2. Cut(m, a, h, free) = NewFreeBlock(w, a, a + HeaderUnits + n, block[a].size - n - HeaderUnits)
        BY <1>6, <1>8, <1>10 DEF Cut
    <2> QED BY <2>1, <2>2
<1>13. a \in BlocksOf(m.block) /\ Listed(free, FreeOf(m.block) \ {a})
    <2>1. FreeOf(m.block) \ {a} = FreeOf(m.block) /\ a \in BlocksOf(m.block)
        BY <1>5, <1>6 DEF FreeOf, BlocksOf
    <2> QED BY <1>6, <2>1 DEF MemoryInv
<1>14. End(m.block, a) \notin FreeOf(m.block)
    <2>1. PICK b : b = NextOf(Memory, a)
        OBVIOUS
    <2> QED BY <1>4, <1>5, <1>6, <2>1, NextOfUsed
<1>15. m.block[a].size - h.size > HeaderUnits
    BY <1>4, <1>6, <1>8
<1>16. PICK s : s = free
    OBVIOUS
<1>17. PICK k : k = Cut(m, a, h, s)
    OBVIOUS
<1>18. MemoryInv(k) /\ Apart(k.block) /\ Keeps(m, k, {a}, {}) /\ k.block[a] = h
    <2>1. Listed(s, FreeOf(m.block) \ {a})
        BY <1>13, <1>16
    <2>2. /\ MemoryInv(m) /\ Apart(m.block) /\ a \in BlocksOf(m.block) /\ h \in Header /\ h.type = "Allocated"
          /\ m.block[a].size - h.size > HeaderUnits /\ End(m.block, a) \notin FreeOf(m.block)
        BY <1>6, <1>8, <1>13, <1>14, <1>15
    <2>3. /\ MemoryInv(Cut(m, a, h, s)) /\ Apart(Cut(m, a, h, s).block)
          /\ Keeps(m, Cut(m, a, h, s), {a}, {}) /\ Cut(m, a, h, s).block[a] = h
        BY <2>1, <2>2, Rest
    <2> QED BY <1>17, <2>3
<1>19. SetMemory(k)
    BY <1>4, <1>12, <1>16, <1>17
<1>20. Memory' = k
    BY <1>18, <1>19, SetIs
<1>21. block' = k.block
    BY <1>20 DEF Memory
<1>22. HeapInv'
    BY <1>18, <1>20, <1>21 DEF HeapInv
<1>23. held' = [x \in (DOMAIN held \cup {a}) \ {} |-> IF x \in {a} THEN bytes ELSE held[x]]
    BY <1>4 DEF Hold
<1>24. Change({a}, {}, bytes)
    <2>1. Keeps(Memory, Memory', {a}, {})
        BY <1>1, <1>18, <1>20
    <2>2. \A x \in {a} : UnitsOf(bytes) <= block'[x].size
        BY <1>1, <1>7, <1>8, <1>18, <1>21
    <2> QED BY <1>22, <1>23, <2>1, <2>2 DEF Change
<1> QED BY <1>4, <1>5, <1>24, QuietWork

LEMMA ReallocMoveWorks ==
    ASSUME Inv, NEW t \in Threads, NEW a, NEW bytes \in Nat \ {0}, ReallocMove(t, a, bytes)
    PROVE  (\E r \in Reasons : KeBugCheck(r)) \/ Works
<1>1. PICK m, b : m = Memory /\ b = ExpFindIdealBlock(m, bytes)
    OBVIOUS
<1>2. PICK after : after = ExpAllocateHeapInBlock(m, b, bytes)
    OBVIOUS
<1> DEFINE log(g) == LogFreeings(ExpLogRellocation(ExpLogAllocation(g, b), a, b), LoggedFreeings(after, a))
<1>3. Reallocates(t, a) /\ b # NoBlock
    BY <1>1 DEF ReallocMove
<1>4. CASE KeBugCheck("GuardTableFull") \/ KeBugCheck("Corrupted")
    BY <1>4 DEF Reasons
<1>5. CASE ~ (KeBugCheck("GuardTableFull") \/ KeBugCheck("Corrupted"))
    <2>1. /\ ~ (guarded[t] /\ GuardFull(guard[t])) /\ SetMemory(ExpFreeHeapBlock(after, a))
          /\ held' = [x \in (DOMAIN held \cup {b}) \ {a} |-> IF x = b THEN bytes ELSE held[x]]
          /\ guard' = IF guarded[t] THEN [guard EXCEPT ![t] = log(@)] ELSE guard
          /\ region' = [u \in Threads |-> (region[u] \ {a}) \cup (IF u = t /\ guarded[t] THEN {b} ELSE {})]
          /\ UNCHANGED <<guarded, tables, pc, stopped>>
        BY <1>1, <1>2, <1>5 DEF ReallocMove
    <2> HIDE DEF log
    <2>2. a \in UsedOf(block) /\ a \in Addresses /\ a \notin OwnTables
        BY <1>3, ReallocatedIs
    <2>3. /\ HeapInv /\ HeldInv /\ GuardTypes /\ TablesInv /\ RegionInv
          /\ MemoryInv(m) /\ Apart(m.block) /\ m.block = block
        BY <1>1 DEF Inv, HeapInv, Memory
    <2>4. b \in FreeOf(m.block) /\ UnitsOf(bytes) <= m.block[b].size
        BY <1>1, <1>3, <2>3, IdealBlock
    <2>5. /\ MemoryInv(after) /\ Apart(after.block) /\ Keeps(m, after, {b}, {})
          /\ UnitsOf(bytes) <= after.block[b].size
        BY <1>2, <2>3, <2>4, AllocatedIn
    <2>6. b \in Addresses /\ b # a /\ b \notin OwnTables /\ NoBlock \notin Addresses
        BY <1>3, <2>2, <2>3, <2>4, InUse, AddressType DEF TablesInv
    <2>7. UsedOf(after.block) = UsedOf(block) \cup {b} /\ a \in UsedOf(after.block) /\ b \in UsedOf(after.block)
        BY <2>2, <2>3, <2>5 DEF Keeps
    <2>8. PICK k : k = ExpFreeHeapBlock(after, a)
        OBVIOUS
    <2>9. MemoryInv(k) /\ Apart(k.block) /\ Keeps(after, k, {}, {a})
        BY <2>5, <2>7, <2>8, Freed
    <2>10. Memory' = k
        BY <2>1, <2>8, <2>9, SetIs
    <2>11. block' = k.block
        BY <2>10 DEF Memory
    <2>12. Keeps(m, k, {b}, {a})
        <3>1. UsedOf(k.block) = (UsedOf(m.block) \ {a}) \cup {b}
            BY <2>3, <2>6, <2>7, <2>9 DEF Keeps
        <3>2. \A c \in UsedOf(m.block) \ {a, b} : k.block[c] = m.block[c]
            <4> TAKE c \in UsedOf(m.block) \ {a, b}
            <4>1. after.block[c] = m.block[c]
                BY <2>5 DEF Keeps
            <4>2. k.block[c] = after.block[c]
                BY <2>3, <2>7, <2>9 DEF Keeps
            <4> QED BY <4>1, <4>2
        <3> QED BY <3>1, <3>2 DEF Keeps
    <2>13. k.block[b] = after.block[b]
        BY <2>6, <2>7, <2>9 DEF Keeps
    <2>14. Change({b}, {a}, bytes)
        <3>1. HeapInv'
            BY <2>9, <2>10, <2>11 DEF HeapInv
        <3>2. held' = [x \in (DOMAIN held \cup {b}) \ {a} |-> IF x \in {b} THEN bytes ELSE held[x]]
            BY <2>1
        <3>3. Keeps(Memory, Memory', {b}, {a})
            BY <1>1, <2>10, <2>12
        <3>4. \A x \in {b} : UnitsOf(bytes) <= block'[x].size
            BY <2>5, <2>11, <2>13
        <3> QED BY <3>1, <3>2, <3>3, <3>4 DEF Change
    <2>15. Simple({b}, {a})
        BY <2>2, <2>3, <2>4 DEF Simple
    <2>16. guard \in [Threads -> Entries] /\ region \in [Threads -> SUBSET Addresses] /\ stopped' \in Reasons
        BY <2>1, <2>3 DEF GuardTypes, Entries
    <2>17. ASSUME guarded[t]
           PROVE  log(guard[t]) \in Entries /\ \A x \in (region[t] \ {a}) \cup {b} : Known(log(guard[t]), x)
        <3>1. PICK g, R : g = guard[t] /\ R = region[t] \cup {b}
            OBVIOUS
        <3>2. g \in Entries /\ R \in SUBSET UsedOf(after.block) /\ \A x \in region[t] : x # NoBlock /\ Known(g, x)
            BY <3>1, <2>3, <2>6, <2>7, <2>16 DEF RegionInv
        <3>3. Known(g, NoBlock)
            <4>1. DOMAIN g = 1 .. GuardEntries
                BY <3>2 DEF Entries
            <4> QED BY <2>1, <2>17, <3>1, <4>1 DEF GuardFull, Known
        <3>4. PICK h : h = ReplaceEntry(g, NoBlock, b)
            OBVIOUS
        <3>5. h \in Entries /\ Known(h, b) /\ \A x : x # NoBlock /\ Known(g, x) => Known(h, x)
            BY <3>2, <3>3, <3>4, <2>6, EntryReplaced
        <3>6. PICK i : i = ReplaceEntry(h, a, b)
            OBVIOUS
        <3>7. i \in Entries /\ \A x : x # a /\ Known(h, x) => Known(i, x)
            BY <3>5, <3>6, <2>6, EntryReplaced
        <3>8. \A x \in R \ {a} : Known(i, x)
            BY <3>1, <3>2, <3>5, <3>7, <2>6
        <3>9. /\ LogFreeings(i, LoggedFreeings(after, a)) \in Entries
              /\ \A x \in R \ {a} : Known(LogFreeings(i, LoggedFreeings(after, a)), x)
            BY <3>2, <3>7, <3>8, <2>5, <2>7, RegionAfterFreeing
        <3>10. log(guard[t]) = LogFreeings(i, LoggedFreeings(after, a))
            BY <3>1, <3>4, <3>6 DEF log, ExpLogAllocation, ExpLogRellocation
        <3>11. (region[t] \ {a}) \cup {b} = R \ {a}
            BY <3>1, <2>6
        <3> QED BY <3>9, <3>10, <3>11
    <2>18. guard' \in [Threads -> Entries] /\ region' \in [Threads -> SUBSET Addresses]
        <3>1. CASE guarded[t]
            BY <3>1, <2>1, <2>6, <2>16, <2>17
        <3>2. CASE ~guarded[t]
            BY <3>2, <2>1, <2>16
        <3> QED BY <3>1, <3>2
    <2>19. ASSUME NEW u \in Threads
           PROVE  /\ region'[u] \subseteq (region[u] \ {a}) \cup (IF guarded[u] THEN {b} ELSE {})
                  /\ \A x \in region'[u] : Known(guard'[u], x)
        <3>1. CASE u = t /\ guarded[t]
            <4>1. region'[u] = (region[t] \ {a}) \cup {b} /\ guard'[u] = log(guard[t])
                BY <3>1, <2>1, <2>16
            <4> QED BY <3>1, <4>1, <2>17
        <3>2. CASE ~ (u = t /\ guarded[t])
            <4>1. guard'[u] = guard[u]
                BY <3>2, <2>1, <2>16
            <4>2. region'[u] = region[u] \ {a}
                BY <3>2, <2>1
            <4> QED BY <4>1, <4>2, <2>3 DEF RegionInv
        <3> QED BY <3>1, <3>2
    <2>20. ({b} \cup {a}) \cap OwnTables = {}
        BY <2>2, <2>6
    <2>21. Work({b}, {a}, bytes)
        BY <2>1, <2>14, <2>15, <2>16, <2>18, <2>19, <2>20 DEF Work
    <2>22. {b} \in SUBSET Addresses /\ {a} \in SUBSET Addresses
        BY <2>2, <2>6
    <2> QED BY <2>21, <2>22 DEF Works
<1> QED BY <1>4, <1>5


\* A thread gets one of the two blocks of its guard.
LEMMA AllocateTableKeeps ==
    ASSUME Inv, NEW t \in Threads, NEW i \in 1 .. 2, ~guarded[t], i = 2 => tables[t][1] # NoBlock,
           stopped \in Reasons, AllocateTable(t, i)
    PROVE  KeBugCheck("NullPointer") \/ (Inv' /\ Steps /\ \A u \in Threads : guarded[u] => guarded'[u])
<1>1. PICK a, bytes : a = ExpFindIdealBlock(Memory, GuardRequest[i]) /\ bytes = GuardRequest[i]
    OBVIOUS
<1>2. CASE a = NoBlock
    BY <1>1, <1>2 DEF AllocateTable
<1>3. CASE a # NoBlock
    <2>1. bytes \in Nat \ {0}
        BY <1>1, HeapAssumption
    <2>2. /\ SetMemory(ExpAllocateHeapInBlock(Memory, a, bytes)) /\ held' = Hold(a, bytes)
          /\ tables' = [tables EXCEPT ![t][i] = a]
          /\ pc' = [pc EXCEPT ![t] = IF i = 1 THEN "Enter" ELSE "Idle"]
          /\ guarded' = [guarded EXCEPT ![t] = i = 2]
          /\ guard' = [guard EXCEPT ![t] = EmptyGuard]
          /\ UNCHANGED <<region, stopped>>
        BY <1>1, <1>3 DEF AllocateTable
    <2>3. HeapInv /\ HeldInv /\ GuardTypes /\ TablesInv /\ PhaseInv /\ RegionInv
        BY DEF Inv
    <2>4. Change({a}, {}, bytes) /\ a \in FreeOf(block) /\ a \in Addresses
        BY <1>1, <1>3, <2>1, <2>2, <2>3, AllocateChanges, InUse
    <2>5. Simple({a}, {})
        BY <2>4 DEF Simple
    <2>6. HeapInv' /\ HeldInv'
        BY <2>1, <2>3, <2>4, HeldKept DEF Change
    <2>7. UsedOf(block') = UsedOf(block) \cup {a} /\ a \notin UsedOf(block)
        BY <2>3, <2>4, InUse DEF Change, Keeps, Memory
    <2>8. /\ guarded \in [Threads -> BOOLEAN] /\ guard \in [Threads -> Entries]
          /\ tables \in [Threads -> [1 .. 2 -> Addresses \cup {NoBlock}]]
          /\ pc \in [Threads -> {"Idle", "Enter", "Leave"}] /\ region \in [Threads -> SUBSET Addresses]
        BY <2>3 DEF GuardTypes, Entries
    <2>9. /\ tables' \in [Threads -> [1 .. 2 -> Addresses \cup {NoBlock}]]
          /\ tables'[t][i] = a /\ \A u \in Threads, j \in 1 .. 2 : ~ (u = t /\ j = i) => tables'[u][j] = tables[u][j]
        BY <2>2, <2>4, <2>8
    <2>10. guarded' \in [Threads -> BOOLEAN] /\ guarded'[t] = (i = 2) /\ \A u \in Threads \ {t} : guarded'[u] = guarded[u]
        BY <2>2, <2>8
    <2>11. /\ pc' \in [Threads -> {"Idle", "Enter", "Leave"}] /\ (pc'[t] = IF i = 1 THEN "Enter" ELSE "Idle")
           /\ \A u \in Threads \ {t} : pc'[u] = pc[u]
        BY <2>2, <2>8
    <2>12. guard' \in [Threads -> Entries] /\ \A u \in Threads \ {t} : guard'[u] = guard[u]
        <3>1. EmptyGuard \in Entries
            BY DEF EmptyGuard, Entries
        <3> QED BY <3>1, <2>2, <2>8
    <2>13. GuardTypes'
        BY <2>2, <2>3, <2>9, <2>10, <2>11, <2>12 DEF GuardTypes, Entries
    <2>14. OwnTables' \subseteq OwnTables \cup {a} /\ a \notin OwnTables
        <3>1. \A u \in Threads : {tables'[u][1], tables'[u][2]} \subseteq {tables[u][1], tables[u][2]} \cup {a}
            BY <2>9
        <3>2. a \notin OwnTables
            BY <1>3, <2>3, <2>7 DEF TablesInv
        <3> QED BY <3>1, <3>2 DEF OwnTables
    <2>15. \A u \in Threads, j \in 1 .. 2 : tables[u][j] \in OwnTables
        <3>1. \A j \in 1 .. 2 : j = 1 \/ j = 2
            OBVIOUS
        <3> QED BY <3>1 DEF OwnTables
    <2>16. TablesInv'
        <3>1. OwnTables' \subseteq UsedOf(block') \cup {NoBlock}
            BY <2>3, <2>7, <2>14 DEF TablesInv
        <3>2. ASSUME NEW u \in Threads, NEW v \in Threads, NEW j \in 1 .. 2, NEW k \in 1 .. 2,
                     tables'[u][j] = tables'[v][k], tables'[u][j] # NoBlock
              PROVE  u = v /\ j = k
            <4>1. CASE u = t /\ j = i
                BY <3>2, <4>1, <2>9, <2>14, <2>15
            <4>2. CASE v = t /\ k = i
                BY <3>2, <4>2, <2>9, <2>14, <2>15
            <4>3. CASE ~ (u = t /\ j = i) /\ ~ (v = t /\ k = i)
                <5>1. tables[u][j] = tables[v][k] /\ tables[u][j] # NoBlock
                    BY <3>2, <4>3, <2>9
                <5> QED BY <5>1, <2>3 DEF TablesInv
            <4> QED BY <4>1, <4>2, <4>3
        <3> QED BY <3>1, <3>2 DEF TablesInv
    <2>17. PhaseInv'
        <3> SUFFICES ASSUME NEW u \in Threads
                     PROVE  /\ guarded'[u] => pc'[u] = "Idle" /\ tables'[u][1] # NoBlock /\ tables'[u][2] # NoBlock
                            /\ pc'[u] # "Idle" => tables'[u][1] # NoBlock
            BY DEF PhaseInv
        <3>1. CASE u # t
            <4>1. tables'[u][1] = tables[u][1] /\ tables'[u][2] = tables[u][2]
                BY <3>1, <2>9
            <4> QED BY <3>1, <4>1, <2>3, <2>10, <2>11 DEF PhaseInv
        <3>2. CASE u = t /\ i = 1
            BY <3>2, <1>3, <2>9, <2>10, <2>11
        <3>3. CASE u = t /\ i = 2
            <4>1. tables'[u][1] = tables[t][1]
                BY <3>3, <2>9
            <4> QED BY <3>3, <4>1, <1>3, <2>9, <2>10, <2>11
        <3> QED BY <3>1, <3>2, <3>3
    <2>18. RegionInv'
        <3> SUFFICES ASSUME NEW u \in Threads
                     PROVE  /\ region'[u] \subseteq UsedOf(block') /\ region'[u] \cap OwnTables' = {}
                            /\ ~guarded'[u] => region'[u] = {}
                            /\ \A x \in region'[u] : Known(guard'[u], x)
            BY DEF RegionInv
        <3>1. region'[u] = region[u] /\ region[u] \subseteq UsedOf(block) /\ region[u] \cap OwnTables = {}
            BY <2>2, <2>3 DEF RegionInv
        <3>2. region'[u] \subseteq UsedOf(block') /\ region'[u] \cap OwnTables' = {}
            BY <3>1, <2>7, <2>14
        <3>3. CASE u = t
            <4>1. region[u] = {}
                BY <3>3, <2>3 DEF RegionInv
            <4> QED BY <3>1, <3>2, <4>1
        <3>4. CASE u # t
            <4>1. guarded'[u] = guarded[u] /\ guard'[u] = guard[u]
                BY <3>4, <2>10, <2>12
            <4> QED BY <3>1, <3>2, <4>1, <2>3 DEF RegionInv
        <3> QED BY <3>3, <3>4
    <2>19. Inv'
        BY <2>6, <2>13, <2>16, <2>17, <2>18 DEF Inv
    <2>20. {a} \in SUBSET Addresses /\ {} \in SUBSET Addresses
        BY <2>4
    <2>21. Steps
        BY <2>1, <2>4, <2>5, <2>20 DEF Steps
    <2>22. \A u \in Threads : guarded[u] => guarded'[u]
        BY <2>10
    <2> QED BY <2>19, <2>21, <2>22
<1> QED BY <1>2, <1>3

\* A thread frees one of the two blocks of its guard.
LEMMA FreeTableKeeps ==
    ASSUME Inv, NEW t \in Threads, NEW i \in 1 .. 2, tables[t][i] # NoBlock, i = 2 => guarded[t], FreeTable(t, i)
    PROVE  \/ KeBugCheck("Corrupted")
           \/ Inv' /\ Steps /\ \A u \in Threads \ {t} : guarded'[u] = guarded[u]
<1>1. PICK a : a = tables[t][i]
    OBVIOUS
<1>2. CASE WalksOverWipedHeader(Memory, tables[t][i])
    BY <1>2 DEF FreeTable
<1>3. CASE ~WalksOverWipedHeader(Memory, tables[t][i])
    <2>1. /\ SetMemory(ExpFreeHeapBlock(Memory, a)) /\ held' = LetGo(a)
          /\ tables' = [tables EXCEPT ![t][i] = NoBlock]
          /\ pc' = [pc EXCEPT ![t] = IF i = 2 THEN "Leave" ELSE "Idle"]
          /\ guarded' = [guarded EXCEPT ![t] = FALSE]
          /\ region' = [region EXCEPT ![t] = {}]
          /\ UNCHANGED <<guard, stopped>>
        BY <1>1, <1>3 DEF FreeTable
    <2>2. HeapInv /\ HeldInv /\ GuardTypes /\ TablesInv /\ PhaseInv /\ RegionInv
        BY DEF Inv
    <2>3. \A u \in Threads, j \in 1 .. 2 : tables[u][j] \in OwnTables
        <3>1. \A j \in 1 .. 2 : j = 1 \/ j = 2
            OBVIOUS
        <3> QED BY <3>1 DEF OwnTables
    <2>4. a \in UsedOf(block) /\ a \in OwnTables /\ a \in Addresses
        BY <1>1, <2>2, <2>3 DEF TablesInv, UsedOf
    <2>5. Change({}, {a}, 1)
        BY <2>1, <2>2, <2>4, FreeChanges
    <2>6. Simple({}, {a})
        BY <2>4 DEF Simple
    <2>7. HeapInv' /\ HeldInv'
        BY <2>2, <2>5, HeldKept DEF Change
    <2>8. UsedOf(block') = UsedOf(block) \ {a}
        BY <2>5 DEF Change, Keeps, Memory
    <2>9. /\ guarded \in [Threads -> BOOLEAN] /\ guard \in [Threads -> Entries]
          /\ tables \in [Threads -> [1 .. 2 -> Addresses \cup {NoBlock}]]
          /\ pc \in [Threads -> {"Idle", "Enter", "Leave"}] /\ region \in [Threads -> SUBSET Addresses]
        BY <2>2 DEF GuardTypes, Entries
    <2>10. /\ tables' \in [Threads -> [1 .. 2 -> Addresses \cup {NoBlock}]]
           /\ tables'[t][i] = NoBlock
           /\ \A u \in Threads, j \in 1 .. 2 : ~ (u = t /\ j = i) => tables'[u][j] = tables[u][j]
        BY <2>1, <2>9
    <2>11. guarded' \in [Threads -> BOOLEAN] /\ ~guarded'[t] /\ \A u \in Threads \ {t} : guarded'[u] = guarded[u]
        BY <2>1, <2>9
    <2>12. /\ pc' \in [Threads -> {"Idle", "Enter", "Leave"}] /\ (pc'[t] = IF i = 2 THEN "Leave" ELSE "Idle")
           /\ \A u \in Threads \ {t} : pc'[u] = pc[u]
        BY <2>1, <2>9
    <2>13. region' \in [Threads -> SUBSET Addresses] /\ region'[t] = {} /\ \A u \in Threads \ {t} : region'[u] = region[u]
        BY <2>1, <2>9
    <2>14. GuardTypes'
        BY <2>1, <2>2, <2>10, <2>11, <2>12, <2>13 DEF GuardTypes
    <2>15. OwnTables' \subseteq (OwnTables \ {a}) \cup {NoBlock}
        <3>1. ASSUME NEW u \in Threads, NEW j \in 1 .. 2 PROVE tables'[u][j] \in (OwnTables \ {a}) \cup {NoBlock}
            <4>1. CASE u = t /\ j = i
                BY <4>1, <2>10
            <4>2. CASE ~ (u = t /\ j = i)
                <5>1. tables'[u][j] = tables[u][j]
                    BY <4>2, <2>10
                <5>2. tables[u][j] # a
                    BY <4>2, <1>1, <2>2 DEF TablesInv
                <5> QED BY <5>1, <5>2, <2>3
            <4> QED BY <4>1, <4>2
        <3>2. 1 \in 1 .. 2 /\ 2 \in 1 .. 2
            OBVIOUS
        <3>3. \A u \in Threads : {tables'[u][1], tables'[u][2]} \subseteq (OwnTables \ {a}) \cup {NoBlock}
            BY <3>1, <3>2
        <3>4. OwnTables' = UNION {{tables'[u][1], tables'[u][2]} : u \in Threads}
            BY DEF OwnTables
        <3> QED BY <3>3, <3>4
    <2>16. TablesInv'
        <3>1. OwnTables' \subseteq UsedOf(block') \cup {NoBlock}
            BY <2>2, <2>8, <2>15 DEF TablesInv
        <3>2. ASSUME NEW u \in Threads, NEW v \in Threads, NEW j \in 1 .. 2, NEW k \in 1 .. 2,
                     tables'[u][j] = tables'[v][k], tables'[u][j] # NoBlock
              PROVE  u = v /\ j = k
            <4>1. ~ (u = t /\ j = i) /\ ~ (v = t /\ k = i)
                BY <3>2, <2>10
            <4>2. tables[u][j] = tables[v][k] /\ tables[u][j] # NoBlock
                BY <3>2, <4>1, <2>10
            <4> QED BY <4>2, <2>2 DEF TablesInv
        <3> QED BY <3>1, <3>2 DEF TablesInv
    <2>17. PhaseInv'
        <3> SUFFICES ASSUME NEW u \in Threads
                     PROVE  /\ guarded'[u] => pc'[u] = "Idle" /\ tables'[u][1] # NoBlock /\ tables'[u][2] # NoBlock
                            /\ pc'[u] # "Idle" => tables'[u][1] # NoBlock
            BY DEF PhaseInv
        <3>1. CASE u # t
            <4>1. tables'[u][1] = tables[u][1] /\ tables'[u][2] = tables[u][2]
                BY <3>1, <2>10
            <4> QED BY <3>1, <4>1, <2>2, <2>11, <2>12 DEF PhaseInv
        <3>2. CASE u = t /\ i = 1
            BY <3>2, <2>11, <2>12
        <3>3. CASE u = t /\ i = 2
            <4>1. tables'[u][1] = tables[t][1]
                BY <3>3, <2>10
            <4> QED BY <3>3, <4>1, <2>2, <2>11 DEF PhaseInv
        <3> QED BY <3>1, <3>2, <3>3
    <2>18. RegionInv'
        <3> SUFFICES ASSUME NEW u \in Threads
                     PROVE  /\ region'[u] \subseteq UsedOf(block') /\ region'[u] \cap OwnTables' = {}
                            /\ ~guarded'[u] => region'[u] = {}
                            /\ \A x \in region'[u] : Known(guard'[u], x)
            BY DEF RegionInv
        <3>1. CASE u = t
            BY <3>1, <2>13
        <3>2. CASE u # t
            <4>1. region'[u] = region[u] /\ guarded'[u] = guarded[u] /\ guard'[u] = guard[u]
                BY <3>2, <2>1, <2>11, <2>13
            <4>2. region[u] \subseteq UsedOf(block) /\ region[u] \cap OwnTables = {} /\ NoBlock \notin region[u]
                BY <2>2, AddressType DEF RegionInv, UsedOf
            <4>3. region'[u] \subseteq UsedOf(block') /\ region'[u] \cap OwnTables' = {}
                BY <4>1, <4>2, <2>4, <2>8, <2>15
            <4> QED BY <4>1, <4>3, <2>2 DEF RegionInv
        <3> QED BY <3>1, <3>2
    <2>19. Inv'
        BY <2>7, <2>14, <2>16, <2>17, <2>18 DEF Inv
    <2>20. {a} \in SUBSET Addresses /\ {} \in SUBSET Addresses /\ 1 \in Nat \ {0}
        BY <2>4
    <2>21. Steps
        BY <2>5, <2>6, <2>20 DEF Steps
    <2> QED BY <2>11, <2>19, <2>21
<1> QED BY <1>2, <1>3


LEMMA StoppingKeeps ==
    ASSUME Inv, (\E r \in Reasons : KeBugCheck(r)) \/ UNCHANGED vars
    PROVE  Inv' /\ UNCHANGED <<memoryVars, held>> /\ guarded' = guarded
<1>1. UNCHANGED <<memoryVars, held, guardVars, region>> /\ stopped' \in Reasons
    BY DEF KeBugCheck, vars, Inv, GuardTypes
<1>2. /\ block' = block /\ order' = order /\ free' = free /\ held' = held
      /\ guarded' = guarded /\ guard' = guard /\ tables' = tables /\ pc' = pc /\ region' = region
    BY <1>1 DEF memoryVars, guardVars
<1>3. Memory' = Memory /\ OwnTables' = OwnTables
    BY <1>2 DEF Memory, OwnTables
<1>4. HeapInv' /\ HeldInv'
    BY <1>2, <1>3 DEF Inv, HeapInv, HeldInv
<1>5. GuardTypes' /\ PhaseInv'
    BY <1>1, <1>2 DEF Inv, GuardTypes, PhaseInv
<1>6. TablesInv' /\ RegionInv'
    BY <1>2, <1>3 DEF Inv, TablesInv, RegionInv
<1> QED BY <1>1, <1>2, <1>4, <1>5, <1>6 DEF Inv

LEMMA ExReallocHeapKeeps ==
    ASSUME Inv, NEW t \in Threads, NEW a, ExReallocHeap(t, a)
    PROVE  (\E r \in Reasons : KeBugCheck(r)) \/ Works
<1>1. CASE ReallocRefused(t, a)
    BY <1>1 DEF ReallocRefused, Reasons
<1>2. ASSUME NEW bytes \in Requests,
             \/ ReallocInPlace(t, a, bytes) \/ ReallocShrinkIntoNext(t, a, bytes)
             \/ ReallocShrinkWithinBlock(t, a, bytes) \/ ReallocSplit(t, a, bytes)
             \/ ReallocGrow(t, a, bytes) \/ ReallocMove(t, a, bytes)
      PROVE  (\E r \in Reasons : KeBugCheck(r)) \/ Works
    <2>1. bytes \in Nat \ {0}
        BY HeapAssumption
    <2>2. CASE ReallocInPlace(t, a, bytes)
        BY <2>1, <2>2, ReallocInPlaceWorks
    <2>3. CASE ReallocShrinkIntoNext(t, a, bytes)
        BY <2>1, <2>3, ReallocShrinkIntoNextWorks
    <2>4. CASE ReallocShrinkWithinBlock(t, a, bytes)
        BY <2>1, <2>4, ReallocShrinkWithinBlockWorks DEF Reasons
    <2>5. CASE ReallocSplit(t, a, bytes)
        BY <2>1, <2>5, ReallocSplitWorks
    <2>6. CASE ReallocGrow(t, a, bytes)
        BY <2>1, <2>6, ReallocGrowWorks
    <2>7. CASE ReallocMove(t, a, bytes)
        BY <2>1, <2>7, ReallocMoveWorks
    <2> QED BY <1>2, <2>2, <2>3, <2>4, <2>5, <2>6, <2>7
<1> QED BY <1>1, <1>2 DEF ExReallocHeap

LEMMA EnterKeeps ==
    ASSUME Inv, NEW t \in Threads, ExEnterHeapGuardedRegion(t) \/ ExEnterHeapGuardedRegionTable(t)
    PROVE  (\E r \in Reasons : KeBugCheck(r)) \/ (Inv' /\ Steps /\ \A u \in Threads : guarded[u] => guarded'[u])
<1>1. stopped \in Reasons /\ PhaseInv
    BY DEF Inv, GuardTypes
<1>2. CASE KeBugCheck("AlreadyGuarded") \/ KeBugCheck("NullPointer")
    BY <1>2 DEF Reasons
<1>3. CASE ExEnterHeapGuardedRegion(t) /\ ~KeBugCheck("AlreadyGuarded") /\ ~KeBugCheck("NullPointer")
    <2>1. ~guarded[t] /\ AllocateTable(t, 1)
        BY <1>3 DEF ExEnterHeapGuardedRegion
    <2>2. 1 \in 1 .. 2 /\ 1 # 2
        OBVIOUS
    <2> QED BY <1>1, <1>3, <2>1, <2>2, AllocateTableKeeps
<1>4. CASE ExEnterHeapGuardedRegionTable(t) /\ ~KeBugCheck("NullPointer")
    <2>1. pc[t] = "Enter" /\ AllocateTable(t, 2)
        BY <1>4 DEF ExEnterHeapGuardedRegionTable
    <2>2. ~guarded[t] /\ tables[t][1] # NoBlock
        BY <1>1, <2>1 DEF PhaseInv
    <2>3. 2 \in 1 .. 2
        OBVIOUS
    <2> QED BY <1>1, <1>4, <2>1, <2>2, <2>3, AllocateTableKeeps
<1> QED BY <1>2, <1>3, <1>4

LEMMA LeaveKeeps ==
    ASSUME Inv, NEW t \in Threads, ExLeaveHeapGuardedRegion(t) \/ ExLeaveHeapGuardedRegionTable(t)
    PROVE  \/ \E r \in Reasons : KeBugCheck(r)
           \/ Inv' /\ Steps /\ \A u \in Threads : guarded[u] /\ ~guarded'[u] => region[u] = {}
<1>1. PhaseInv /\ RegionInv /\ region \in [Threads -> SUBSET Addresses]
    BY DEF Inv, GuardTypes
<1>2. CASE KeBugCheck("NotGuarded") \/ KeBugCheck("LeakDetected") \/ KeBugCheck("Corrupted")
    BY <1>2 DEF Reasons
<1>3. CASE ExLeaveHeapGuardedRegion(t) /\ ~KeBugCheck("NotGuarded") /\ ~KeBugCheck("LeakDetected")
           /\ ~KeBugCheck("Corrupted")
    <2>1. guarded[t] /\ guard[t] = EmptyGuard /\ FreeTable(t, 2)
        BY <1>3 DEF ExLeaveHeapGuardedRegion
    <2>2. tables[t][2] # NoBlock
        BY <1>1, <2>1 DEF PhaseInv
    <2>3. 2 \in 1 .. 2
        OBVIOUS
    <2>4. Inv' /\ Steps /\ \A u \in Threads \ {t} : guarded'[u] = guarded[u]
        BY <1>3, <2>1, <2>2, <2>3, FreeTableKeeps
    <2>5. region[t] = {}
        <3>1. \A x \in region[t] : x \in Addresses /\ Known(guard[t], x)
            BY <1>1 DEF RegionInv
        <3>2. \A x : Known(EmptyGuard, x) => x = NoBlock
            BY DEF Known, EmptyGuard
        <3> QED BY <2>1, <3>1, <3>2, AddressType
    <2> QED BY <2>4, <2>5
<1>4. CASE ExLeaveHeapGuardedRegionTable(t) /\ ~KeBugCheck("Corrupted")
    <2>1. pc[t] = "Leave" /\ FreeTable(t, 1)
        BY <1>4 DEF ExLeaveHeapGuardedRegionTable
    <2>2. ~guarded[t] /\ tables[t][1] # NoBlock
        BY <1>1, <2>1 DEF PhaseInv
    <2>3. 1 \in 1 .. 2 /\ 1 # 2
        OBVIOUS
    <2>4. Inv' /\ Steps /\ \A u \in Threads \ {t} : guarded'[u] = guarded[u]
        BY <1>4, <2>1, <2>2, <2>3, FreeTableKeeps
    <2> QED BY <2>2, <2>4
<1> QED BY <1>2, <1>3, <1>4

\* Every step keeps the invariant, takes and gives blocks as Steps says, and ends no
\* guarded region that still has blocks.
LEMMA NextKeeps ==
    ASSUME Inv, [Next]_vars
    PROVE  /\ Inv' /\ (Steps \/ UNCHANGED <<memoryVars, held>>)
           /\ \A u \in Threads : guarded[u] /\ ~guarded'[u] => region[u] = {}
<1>1. CASE (\E r \in Reasons : KeBugCheck(r)) \/ UNCHANGED vars
    BY <1>1, StoppingKeeps
<1>2. CASE Works
    BY <1>2, WorkKeeps
<1>3. CASE Next /\ ~ (\E r \in Reasons : KeBugCheck(r)) /\ ~Works
    <2>1. PICK t \in Threads :
            \/ \E bytes \in Requests : ExAllocateHeap(t, bytes)
            \/ \E a \in Addresses : \/ ExFreeHeap(t, a) \/ ExReallocHeap(t, a)
                                    \/ ExLockHeapBlock(t, a) \/ ExUnlockHeapBlock(t, a)
            \/ ExEnterHeapGuardedRegion(t) \/ ExEnterHeapGuardedRegionTable(t)
            \/ ExLeaveHeapGuardedRegion(t) \/ ExLeaveHeapGuardedRegionTable(t)
        BY <1>3, Zenon DEF Next
    <2>2. ~ \E bytes \in Requests : ExAllocateHeap(t, bytes)
        BY <1>3, ExAllocateHeapWorks DEF Reasons
    <2>3. ~ \E a \in Addresses : ExFreeHeap(t, a)
        BY <1>3, ExFreeHeapWorks
    <2>4. ~ \E a \in Addresses : ExReallocHeap(t, a)
        BY <1>3, ExReallocHeapKeeps
    <2>5. ~ \E a \in Addresses : ExLockHeapBlock(t, a) \/ ExUnlockHeapBlock(t, a)
        BY <1>3, LocksWork
    <2>6. CASE ExEnterHeapGuardedRegion(t) \/ ExEnterHeapGuardedRegionTable(t)
        BY <1>3, <2>6, EnterKeeps
    <2>7. CASE ExLeaveHeapGuardedRegion(t) \/ ExLeaveHeapGuardedRegionTable(t)
        BY <1>3, <2>7, LeaveKeeps
    <2> QED BY <2>1, <2>2, <2>3, <2>4, <2>5, <2>6, <2>7
<1> QED BY <1>1, <1>2, <1>3

LEMMA InitKeeps ==
    ASSUME Init
    PROVE  Inv
<1>1. HeapUnits \in Nat /\ HeaderUnits \in Nat /\ HeaderUnits > 0 /\ HeapUnits > HeaderUnits /\ 0 \in Addresses
    BY HeapAssumption DEF Addresses
<1>2. PICK h : h = [size |-> HeapUnits - HeaderUnits, type |-> "Free", pad |-> 0]
    OBVIOUS
<1>3. h \in Header /\ h.type = "Free" /\ h.size = HeapUnits - HeaderUnits
    BY <1>1, <1>2 DEF Header, BlockTypes
<1>4. NoHeader \in Header /\ NoHeader.type = "None"
    BY <1>1 DEF NoHeader, Header, BlockTypes
<1>5. block \in Headers /\ block[0] = h /\ \A a \in Addresses \ {0} : block[a] = NoHeader
    <2>1. block = [a \in Addresses |-> IF a = 0 THEN h ELSE NoHeader]
        BY <1>2 DEF Init
    <2> QED BY <2>1, <1>1, <1>3, <1>4 DEF Headers
<1>6. BlocksOf(block) = {0} /\ FreeOf(block) = {0} /\ UsedOf(block) = {}
    BY <1>1, <1>3, <1>4, <1>5 DEF BlocksOf, FreeOf, UsedOf
<1>7. End(block, 0) = HeapUnits
    BY <1>1, <1>3, <1>5 DEF End
<1>8. Tiles(block) /\ Apart(block)
    <2>1. HeapUnits # 0
        BY <1>1
    <2> QED BY <1>6, <1>7, <2>1 DEF Tiles, Apart
<1>9. order = <<0>> /\ free = <<0>>
    BY DEF Init
<1>10. \A s : s = <<0>> => Sorted(s, {0}) /\ Listed(s, {0})
    <2> TAKE s
    <2> HAVE s = <<0>>
    <2>1. s \in Seq(Addresses) /\ Len(s) = 1 /\ s[1] = 0
        BY <1>1
    <2>2. \A i \in 1 .. Len(s) : i = 1
        BY <2>1
    <2>3. 1 \in 1 .. Len(s)
        BY <2>1
    <2>4. IsRange(s, {0})
        BY <2>1, <2>2, <2>3 DEF IsRange
    <2> QED BY <2>1, <2>2, <2>4 DEF Sorted, Listed
<1>11. HeapInv
    <2>1. Sorted(order, {0}) /\ Listed(free, {0})
        BY <1>9, <1>10
    <2>2. order \in Seq(Addresses) /\ free \in Seq(Addresses)
        BY <2>1 DEF Sorted, Listed
    <2> QED BY <1>5, <1>6, <1>8, <2>1, <2>2 DEF HeapInv, MemoryInv, Memory
<1>12. HeldInv
    <2>1. held = << >>
        BY DEF Init
    <2>2. << >> = [a \in {} |-> << >>[a]]
        OBVIOUS
    <2> QED BY <1>6, <2>1, <2>2 DEF HeldInv
<1>13. GuardTypes
    <2>1. EmptyGuard \in [1 .. GuardEntries -> Addresses \cup {NoBlock}]
        BY DEF EmptyGuard
    <2> QED BY <2>1 DEF Init, GuardTypes, Reasons
<1>14. \A t \in Threads, i \in 1 .. 2 : tables[t][i] = NoBlock
    BY DEF Init
<1>15. OwnTables \subseteq {NoBlock}
    <2>1. \A t \in Threads : tables[t][1] = NoBlock /\ tables[t][2] = NoBlock
        BY <1>14
    <2> QED BY <2>1 DEF OwnTables
<1>16. TablesInv
    BY <1>14, <1>15 DEF TablesInv
<1>17. PhaseInv /\ RegionInv
    BY DEF Init, PhaseInv, RegionInv
<1> QED BY <1>11, <1>12, <1>13, <1>16, <1>17 DEF Inv

LEMMA InvAlways == Spec => []Inv
<1>1. Init => Inv
    BY InitKeeps
<1>2. Inv /\ [Next]_vars => Inv'
    BY NextKeeps
<1> QED BY <1>1, <1>2, PTL DEF Spec


-----------------------------------------------------------------------------
(* The theorems. *)

\* Every variable keeps its type: no size of a block goes below zero, and no entry of a
\* list is an address outside the heap (ex.cpp:300-880).
THEOREM TypeCorrect == Spec => []TypeOK
<1>1. Inv => TypeOK
    <2> HAVE Inv
    <2>1. block \in Headers /\ order \in Seq(Addresses) /\ free \in Seq(Addresses)
        BY DEF Inv, HeapInv, MemoryInv, Memory
    <2>2. DOMAIN held \subseteq Addresses /\ \A a \in DOMAIN held : held[a] \in Nat \ {0}
        BY InUse DEF Inv, HeldInv
    <2> QED BY <2>1, <2>2 DEF Inv, GuardTypes, TypeOK, Headers, Header
<1> QED BY <1>1, InvAlways, PTL

\* What is at a place of the list of blocks, and what follows it.
LEMMA PlacesOfBlocks ==
    ASSUME Inv, NEW i \in DOMAIN order
    PROVE  /\ i \in 1 .. Len(order) /\ Len(order) \in Nat /\ order[i] \in BlocksOf(block)
           /\ End(block, order[i]) = IF i = Len(order) THEN HeapUnits ELSE order[i + 1]
<1>1. /\ MemoryInv(Memory) /\ Sorted(order, BlocksOf(block)) /\ Listed(order, BlocksOf(block))
      /\ order \in Seq(Addresses)
    BY SortedIsListed DEF Inv, HeapInv, MemoryInv, Memory, Sorted
<1>2. i \in 1 .. Len(order) /\ Len(order) \in Nat
    BY <1>1, LenProperties
<1>3. PICK a : a = order[i]
    OBVIOUS
<1>4. a \in BlocksOf(block)
    BY <1>1, <1>2, <1>3 DEF Sorted, IsRange
<1>5. Position(order, a) = i
    <2>1. Position(order, a) \in 1 .. Len(order) /\ order[Position(order, a)] = a
        BY <1>1, <1>4, PlaceOf
    <2> QED BY <2>1, <1>1, <1>2, <1>3 DEF Listed
<1>6. PICK m : m = Memory
    OBVIOUS
<1>7. MemoryInv(m) /\ m.block = block /\ m.order = order
    BY <1>1, <1>6 DEF Memory
<1>8. NextOf(m, a) = End(block, a)
    BY <1>4, <1>7, NextIs
<1>9. NextOf(m, a) = IF i = Len(order) THEN HeapUnits ELSE order[i + 1]
    BY <1>5, <1>7 DEF NextOf, NoBlock
<1> QED BY <1>2, <1>3, <1>4, <1>8, <1>9

\* No unit of memory is lost or in two blocks: the blocks, in the order of the list, lie
\* end to end from the first unit of the heap to its last (ex.cpp:494, 530, 734, 859).
THEOREM HeapTiled == Spec => []BlocksTileTheHeap
<1>1. Inv => BlocksTileTheHeap
    <2> HAVE Inv
    <2>1. /\ block \in Headers /\ Tiles(block) /\ Sorted(order, BlocksOf(block)) /\ order \in Seq(Addresses)
          /\ ToSet(order) = BlocksOf(block)
        BY InUse DEF Inv, HeapInv, MemoryInv, Memory, Sorted
    <2>2. PICK i \in 1 .. Len(order) : order[i] = 0
        BY <2>1 DEF Tiles, Sorted, IsRange
    <2>3. Len(order) \in Nat /\ DOMAIN order = 1 .. Len(order)
        BY <2>1, LenProperties
    <2>4. 1 \in 1 .. Len(order)
        BY <2>2, <2>3
    <2>5. order[1] \in Nat
        BY <2>1, <2>4, ElementIs
    <2>6. ~ (1 < i)
        BY <2>1, <2>2, <2>4, <2>5 DEF Sorted
    <2>7. order[1] = 0
        BY <2>2, <2>3, <2>6
    <2>8. order # << >>
        <3>1. Len(order) # 0
            BY <2>3, <2>4
        <3> QED BY <3>1
    <2>9. \A j \in DOMAIN order :
             order[j] + HeaderUnits + block[order[j]].size = IF j = Len(order) THEN HeapUnits ELSE order[j + 1]
        BY PlacesOfBlocks DEF End
    <2>10. \A a \in Addresses : block[a].type # "None" <=> a \in ToSet(order)
        BY <2>1 DEF BlocksOf
    <2> QED BY <2>7, <2>8, <2>9, <2>10 DEF BlocksTileTheHeap
<1> QED BY <1>1, InvAlways, PTL

\* The free list holds exactly the free blocks, each once: no free memory is out of reach
\* and nothing in use is given out (ex.cpp:342-349, 497, 533, 737, 846).
THEOREM FreeListComplete == Spec => []FreeListIsComplete
<1>1. Inv => FreeListIsComplete
    <2> HAVE Inv
    <2>1. Listed(free, FreeOf(block)) /\ free \in Seq(Addresses)
        BY DEF Inv, HeapInv, MemoryInv, Memory, Listed
    <2>2. DOMAIN free = 1 .. Len(free)
        BY <2>1, LenProperties
    <2>3. IsInjective(free)
        BY <2>1, <2>2 DEF Listed, IsInjective
    <2>4. ToSet(free) = FreeOf(block)
        BY <2>1, <2>2 DEF Listed, IsRange, ToSet
    <2> QED BY <2>3, <2>4 DEF FreeListIsComplete, FreeOf
<1> QED BY <1>1, InvAlways, PTL

\* Two free blocks never touch: merging with one predecessor is enough, and no
\* reallocation leaves a pair behind (ex.cpp:517).
THEOREM FreeBlocksApart == Spec => []FreeBlocksDoNotTouch
<1>1. Inv => FreeBlocksDoNotTouch
    <2> HAVE Inv
    <2>1. Apart(block) /\ order \in Seq(Addresses)
        BY DEF Inv, HeapInv, MemoryInv, Memory
    <2>2. Len(order) \in Nat /\ DOMAIN order = 1 .. Len(order)
        BY <2>1, LenProperties
    <2> SUFFICES ASSUME NEW i \in 1 .. Len(order) - 1,
                        block[order[i]].type = "Free", block[order[i + 1]].type = "Free"
                 PROVE  FALSE
        BY DEF FreeBlocksDoNotTouch
    <2>3. i \in DOMAIN order /\ i + 1 \in DOMAIN order /\ i # Len(order)
        <3>1. \A n \in Nat : \A j \in 1 .. n - 1 : j \in 1 .. n /\ j + 1 \in 1 .. n /\ j # n
            OBVIOUS
        <3>2. i \in 1 .. Len(order) /\ i + 1 \in 1 .. Len(order) /\ i # Len(order)
            BY <2>2, <3>1, Zenon
        <3> QED BY <2>2, <3>2, Zenon
    <2>4. order[i] \in Addresses /\ order[i + 1] \in Addresses
        BY <2>1, <2>2, <2>3, ElementOfSeq
    <2>5. order[i] \in FreeOf(block) /\ order[i + 1] \in FreeOf(block)
        BY <2>4 DEF FreeOf
    <2>6. End(block, order[i]) = order[i + 1]
        BY <2>3, PlacesOfBlocks
    <2> QED BY <2>1, <2>5, <2>6 DEF Apart
<1> QED BY <1>1, InvAlways, PTL

\* A thread only leaves its guarded region when everything it allocated there, and still
\* answers for, was given back (ex.cpp:1103, 1133).
THEOREM LeaksDetected == Spec => LeaksAreDetected
<1>1. Inv /\ [Next]_vars => [\A t \in Threads : guarded[t] /\ ~guarded'[t] => region[t] = {}]_vars
    BY NextKeeps
<1> QED BY <1>1, InvAlways, PTL DEF Spec, LeaksAreDetected

\* The regions of the blocks U, held for the sizes h.
Start(a) == a + HeaderUnits
RegionsOf(U, h) == [s \in {Start(a) : a \in U} |-> UnitsOf(h[s - HeaderUnits])]

LEMMA RegionsAre ==
    ASSUME NEW U \in SUBSET Addresses, NEW h
    PROVE  /\ DOMAIN RegionsOf(U, h) = {Start(a) : a \in U}
           /\ \A a \in U : RegionsOf(U, h)[Start(a)] = UnitsOf(h[a])
           /\ RegionsOf(U, h) = [r \in DOMAIN RegionsOf(U, h) |-> RegionsOf(U, h)[r]]
<1>1. HeaderUnits \in Nat /\ \A a \in Addresses : a \in Nat
    BY HeapAssumption, AddressType
<1>2. \A a \in Addresses : Start(a) - HeaderUnits = a
    BY <1>1 DEF Start
<1> QED BY <1>2 DEF RegionsOf

LEMMA StartsDiffer == \A a, b \in Addresses : Start(a) = Start(b) => a = b
<1>1. HeaderUnits \in Nat /\ \A a \in Addresses : a \in Nat
    BY HeapAssumption, AddressType
<1> QED BY <1>1 DEF Start

\* The same regions but that of block a, of sizes that agree on the others.
SameBut(U, a, h, g) == \A b \in U \ {a} : g[b] = h[b]
Dropped(rs, s) == [r \in DOMAIN rs \ {s} |-> rs[r]]

LEMMA RegionsWithout ==
    ASSUME NEW U \in SUBSET Addresses, NEW h, NEW a \in U, NEW g, SameBut(U, a, h, g)
    PROVE  RegionsOf(U \ {a}, g) = Dropped(RegionsOf(U, h), Start(a))
<1>1. PICK W \in SUBSET Addresses : W = U \ {a}
    OBVIOUS
<1>2. PICK u, v : u = RegionsOf(U, h) /\ v = RegionsOf(W, g)
    OBVIOUS
<1>3. DOMAIN u = {Start(b) : b \in U} /\ \A b \in U : u[Start(b)] = UnitsOf(h[b])
    BY <1>2, RegionsAre
<1>4. DOMAIN v = {Start(b) : b \in W} /\ (\A b \in W : v[Start(b)] = UnitsOf(g[b])) /\ v = [r \in DOMAIN v |-> v[r]]
    BY <1>2, RegionsAre
<1>5. DOMAIN v = DOMAIN u \ {Start(a)}
    BY <1>1, <1>3, <1>4, StartsDiffer
<1>6. \A r \in DOMAIN v : v[r] = u[r]
    BY <1>1, <1>3, <1>4 DEF SameBut
<1>7. v = Dropped(u, Start(a))
    BY <1>4, <1>5, <1>6 DEF Dropped
<1> QED BY <1>1, <1>2, <1>7

\* The regions all are the regions rs and one more, which overlaps none of them.
Grants(rs, all) ==
    \E s \in (0 .. HeapUnits - 1) \ Promise!InUse(rs) : \E n \in 1 .. HeapUnits - s :
        /\ Promise!Extent(s, n) \cap Promise!InUse(rs) = {}
        /\ all = [r \in DOMAIN rs \cup {s} |-> IF r = s THEN n ELSE rs[r]]

\* One more block that is in use gives one more region, and it overlaps no other.
LEMMA Granted ==
    ASSUME NEW f \in Headers, Tiles(f), NEW h, NEW U, U = UsedOf(f),
           \A a \in U : h[a] \in Nat \ {0} /\ UnitsOf(h[a]) <= f[a].size,
           NEW b \in U, NEW rs, rs = RegionsOf(U \ {b}, h)
    PROVE  Grants(rs, RegionsOf(U, h))
<1>0. PICK s, n, all : s = Start(b) /\ n = UnitsOf(h[b]) /\ all = RegionsOf(U, h)
    OBVIOUS
<1>1. U \subseteq Addresses /\ U \subseteq BlocksOf(f) /\ HeapUnits \in Nat /\ HeaderUnits \in Nat \ {0}
    BY KindsOf, HeapAssumption DEF UsedOf
<1>2. ASSUME NEW a \in U
      PROVE  /\ a \in Nat /\ UnitsOf(h[a]) \in Nat \ {0} /\ f[a].size \in Nat /\ UnitsOf(h[a]) <= f[a].size
             /\ End(f, a) = a + HeaderUnits + f[a].size /\ End(f, a) \in Nat /\ End(f, a) <= HeapUnits
             /\ \A c \in U : a < c => End(f, a) <= c
    <2>1. a \in Nat /\ f[a].size \in Nat /\ End(f, a) \in Nat
        BY <1>1, <1>2, HeaderType
    <2>2. a \in BlocksOf(f)
        BY <1>1, <1>2
    <2>3. End(f, a) <= HeapUnits /\ \A c \in U : a < c => End(f, a) <= c
        BY <1>1, <2>2, EndIs
    <2>4. UnitsOf(h[a]) \in Nat \ {0} /\ UnitsOf(h[a]) <= f[a].size
        BY <1>2, UnitsType
    <2> QED BY <2>1, <2>3, <2>4 DEF End
<1>3. ASSUME NEW a \in U \ {b}
      PROVE  Promise!Extent(s, n) \cap Promise!Extent(Start(a), UnitsOf(h[a])) = {}
    <2>1. PICK k, x, y, r : k = UnitsOf(h[a]) /\ x = f[a].size /\ y = f[b].size /\ r = Start(a)
        OBVIOUS
    <2>2. /\ a \in Nat /\ k \in Nat \ {0} /\ k <= x /\ x \in Nat
          /\ (a < b => a + HeaderUnits + x <= b)
        BY <1>2, <2>1
    <2>3. /\ b \in Nat /\ n \in Nat \ {0} /\ n <= y /\ y \in Nat
          /\ (b < a => b + HeaderUnits + y <= a)
        BY <1>0, <1>2, <2>1
    <2>4. s = b + HeaderUnits /\ r = a + HeaderUnits
        BY <1>0, <2>1 DEF Start
    <2>5. a < b \/ b < a
        BY <2>2, <2>3
    <2>6. CASE a < b
        <3>1. \A z \in Int : ~ (s <= z /\ z <= r + k - 1)
            BY <1>1, <2>2, <2>3, <2>4, <2>6
        <3> QED BY <3>1, <2>1 DEF Promise!Extent
    <2>7. CASE b < a
        <3>1. \A z \in Int : ~ (r <= z /\ z <= s + n - 1)
            BY <1>1, <2>2, <2>3, <2>4, <2>7
        <3> QED BY <3>1, <2>1 DEF Promise!Extent
    <2> QED BY <2>5, <2>6, <2>7
<1>4. /\ s \in 0 .. HeapUnits - 1 /\ n \in 1 .. HeapUnits - s /\ s \in s .. s + n - 1
    <2>1. PICK y : y = f[b].size
        OBVIOUS
    <2>2. b \in Nat /\ n \in Nat \ {0} /\ n <= y /\ y \in Nat /\ b + HeaderUnits + y <= HeapUnits
        BY <1>0, <1>2, <2>1
    <2>3. s = b + HeaderUnits
        BY <1>0 DEF Start
    <2> QED BY <1>1, <2>2, <2>3
<1>5. PICK W \in SUBSET Addresses : W = U \ {b}
    BY <1>1
<1>6. DOMAIN rs = {Start(a) : a \in W} /\ \A a \in W : rs[Start(a)] = UnitsOf(h[a])
    <2>1. rs = RegionsOf(W, h)
        BY <1>5
    <2>2. DOMAIN RegionsOf(W, h) = {Start(a) : a \in W} /\ \A a \in W : RegionsOf(W, h)[Start(a)] = UnitsOf(h[a])
        BY ONLY <1>5, RegionsAre
    <2> QED BY <2>1, <2>2
<1>7. /\ DOMAIN all = {Start(a) : a \in U} /\ \A a \in U : all[Start(a)] = UnitsOf(h[a])
      /\ all = [r \in DOMAIN all |-> all[r]]
    <2>1. U \in SUBSET Addresses
        BY <1>1
    <2>2. /\ DOMAIN RegionsOf(U, h) = {Start(a) : a \in U} /\ \A a \in U : RegionsOf(U, h)[Start(a)] = UnitsOf(h[a])
          /\ RegionsOf(U, h) = [r \in DOMAIN RegionsOf(U, h) |-> RegionsOf(U, h)[r]]
        BY ONLY <2>1, RegionsAre
    <2> QED BY <2>2, <1>0
<1>8. \A x : x \in Promise!InUse(rs) => \E r \in DOMAIN rs : x \in Promise!Extent(r, rs[r])
    BY DEF Promise!InUse
<1>9. Promise!Extent(s, n) \cap Promise!InUse(rs) = {}
    <2>1. \A r \in DOMAIN rs : Promise!Extent(s, n) \cap Promise!Extent(r, rs[r]) = {}
        BY <1>3, <1>5, <1>6
    <2> QED BY <1>8, <2>1
<1>10. s \notin Promise!InUse(rs)
    <2>1. s \in Promise!Extent(s, n)
        BY <1>4 DEF Promise!Extent
    <2> QED BY <1>9, <2>1
<1>11. all = [r \in DOMAIN rs \cup {s} |-> IF r = s THEN n ELSE rs[r]]
    <2>1. DOMAIN all = DOMAIN rs \cup {s}
        BY <1>0, <1>5, <1>6, <1>7
    <2>2. \A r \in DOMAIN all : all[r] = IF r = s THEN n ELSE rs[r]
        <3> TAKE r \in DOMAIN all
        <3>1. PICK a \in U : r = Start(a)
            BY <1>7
        <3>2. CASE a = b
            BY <3>1, <3>2, <1>0, <1>7
        <3>3. CASE a # b
            <4>1. r # s
                BY <3>1, <3>3, <1>0, <1>1, StartsDiffer
            <4> QED BY <3>1, <3>3, <4>1, <1>5, <1>6, <1>7
        <3> QED BY <3>2, <3>3
    <2> QED BY <1>7, <2>1, <2>2
<1>12. \E m \in 1 .. HeapUnits - s :
          /\ Promise!Extent(s, m) \cap Promise!InUse(rs) = {}
          /\ all = [r \in DOMAIN rs \cup {s} |-> IF r = s THEN m ELSE rs[r]]
    BY <1>4, <1>9, <1>11, Zenon
<1>13. s \in (0 .. HeapUnits - 1) \ Promise!InUse(rs)
    BY <1>4, <1>10
<1>14. Grants(rs, all)
    BY <1>12, <1>13, Zenon DEF Grants
<1> QED BY <1>0, <1>14

LEMMA StepIsPromised ==
    ASSUME Inv, Inv', Steps
    PROVE  Promise!Next
<1>1. PICK given \in SUBSET Addresses, back \in SUBSET Addresses, bytes \in Nat \ {0} :
            Simple(given, back) /\ Change(given, back, bytes)
    BY DEF Steps
<1>2. /\ DOMAIN held = UsedOf(block) /\ UsedOf(block) \subseteq Addresses
      /\ UsedOf(block) \cap FreeOf(block) = {}
    BY InUse DEF Inv
<1>3. DOMAIN held' = UsedOf(block') /\ UsedOf(block') \subseteq Addresses
    BY DEF Inv, HeldInv, UsedOf
<1>4. PICK U, h : U = UsedOf(block) /\ h = held
    OBVIOUS
<1>5. PICK f, V, g : f = block' /\ V = UsedOf(block') /\ g = held'
    OBVIOUS
<1>6. Regions = RegionsOf(U, h)
    BY <1>2, <1>4 DEF Regions, RegionsOf, Start
<1>7. Regions' = RegionsOf(V, g)
    BY <1>3, <1>5 DEF Regions, RegionsOf, Start
<1>8. /\ f \in Headers /\ Tiles(f) /\ V = UsedOf(f) /\ V \in SUBSET Addresses /\ U \in SUBSET Addresses
      /\ \A a \in V : g[a] \in Nat \ {0} /\ UnitsOf(g[a]) <= f[a].size
    BY <1>2, <1>3, <1>4, <1>5 DEF Inv, HeapInv, MemoryInv, Memory, HeldInv
<1>9. /\ V = (U \ back) \cup given
      /\ \A x \in V \ given : g[x] = h[x]
    <2>1. V = (U \ back) \cup given
        BY <1>1, <1>4, <1>5 DEF Change, Keeps, Memory
    <2>2. g = [x \in (U \cup given) \ back |-> IF x \in given THEN bytes ELSE h[x]]
        BY <1>1, <1>2, <1>4, <1>5 DEF Change
    <2> QED BY <2>1, <2>2
<1>10. ASSUME NEW b \in V, NEW rs, rs = RegionsOf(V \ {b}, g) PROVE Promise!Grant(rs)
    <2>1. V = UsedOf(f) /\ f \in Headers /\ Tiles(f) /\ b \in V /\ rs = RegionsOf(V \ {b}, g)
        BY <1>8, <1>10
    <2>2. \A a \in V : g[a] \in Nat \ {0} /\ UnitsOf(g[a]) <= f[a].size
        BY <1>8
    <2>3. Grants(rs, RegionsOf(V, g))
        BY ONLY <2>1, <2>2, Granted, Zenon
    <2>4. Grants(rs, Regions')
        BY <2>3, <1>7
    <2> QED BY <2>4 DEF Promise!Grant, Grants
<1>11. ASSUME NEW a \in U
       PROVE  /\ Start(a) \in DOMAIN Regions
              /\ \A e : (\A x \in U \ {a} : e[x] = h[x]) => Promise!Without(Start(a)) = RegionsOf(U \ {a}, e)
    <2>1. Start(a) \in DOMAIN Regions
        <3>1. DOMAIN RegionsOf(U, h) = {Start(x) : x \in U}
            BY <1>8, RegionsAre
        <3> QED BY <3>1, <1>6, <1>11
    <2>2. ASSUME NEW e, \A x \in U \ {a} : e[x] = h[x]
          PROVE  Promise!Without(Start(a)) = RegionsOf(U \ {a}, e)
        <3>1. U \in SUBSET Addresses /\ a \in U /\ SameBut(U, a, h, e)
            BY <1>8, <1>11, <2>2 DEF SameBut
        <3>2. RegionsOf(U \ {a}, e) = Dropped(RegionsOf(U, h), Start(a))
            BY ONLY <3>1, RegionsWithout
        <3> QED BY <3>2, <1>6 DEF Promise!Without, Dropped
    <2> QED BY <2>1, <2>2
<1>12. ASSUME NEW a \in FreeOf(block), given = {a}, back = {} PROVE Promise!Next
    <2>1. V \ {a} = U /\ a \in V
        BY <1>2, <1>4, <1>9, <1>12
    <2>2. RegionsOf(V \ {a}, g) = RegionsOf(U, h)
        <3>1. \A x \in U : g[x] = h[x]
            BY <1>9, <1>12, <2>1
        <3>2. /\ DOMAIN RegionsOf(U, g) = {Start(x) : x \in U} /\ DOMAIN RegionsOf(U, h) = {Start(x) : x \in U}
              /\ \A x \in U : RegionsOf(U, g)[Start(x)] = RegionsOf(U, h)[Start(x)]
            <4>1. U \in SUBSET Addresses
                BY <1>8
            <4>2. DOMAIN RegionsOf(U, g) = {Start(x) : x \in U} /\ \A x \in U : RegionsOf(U, g)[Start(x)] = UnitsOf(g[x])
                BY <4>1, RegionsAre
            <4>3. DOMAIN RegionsOf(U, h) = {Start(x) : x \in U} /\ \A x \in U : RegionsOf(U, h)[Start(x)] = UnitsOf(h[x])
                BY <4>1, RegionsAre
            <4> QED BY <4>2, <4>3, <3>1
        <3>3. PICK u, v : u = RegionsOf(U, g) /\ v = RegionsOf(U, h)
            OBVIOUS
        <3>4. u = [r \in DOMAIN u |-> u[r]] /\ v = [r \in DOMAIN v |-> v[r]]
            BY <3>3 DEF RegionsOf
        <3>5. DOMAIN u = DOMAIN v /\ \A r \in DOMAIN u : u[r] = v[r]
            BY <3>2, <3>3
        <3>6. u = v
            BY <3>4, <3>5
        <3> QED BY <2>1, <3>3, <3>6
    <2>3. Promise!Grant(Regions)
        BY <1>6, <1>10, <2>1, <2>2
    <2> QED BY <2>3 DEF Promise!Next, Promise!Allocate
<1>13. ASSUME NEW a \in U, given = {a}, back = {} PROVE Promise!Next
    <2>1. V = U /\ a \in V /\ \A x \in U \ {a} : g[x] = h[x]
        BY <1>9, <1>13
    <2>2. Promise!Grant(Promise!Without(Start(a)))
        BY <1>10, <1>11, <2>1
    <2> QED BY <1>11, <2>2 DEF Promise!Next, Promise!Resize
<1>14. ASSUME NEW a \in U, given = {}, back = {a} PROVE Promise!Next
    <2>1. V = U \ {a} /\ \A x \in U \ {a} : g[x] = h[x]
        BY <1>9, <1>14
    <2>2. Regions' = Promise!Without(Start(a))
        BY <1>7, <1>11, <2>1
    <2> QED BY <1>11, <2>2 DEF Promise!Next, Promise!Release
<1>15. ASSUME NEW a \in U, NEW b \in FreeOf(block), given = {b}, back = {a} PROVE Promise!Next
    <2>1. V \ {b} = U \ {a} /\ b \in V /\ \A x \in U \ {a} : g[x] = h[x]
        BY <1>2, <1>4, <1>9, <1>15
    <2>2. Promise!Grant(Promise!Without(Start(a)))
        BY <1>10, <1>11, <2>1
    <2> QED BY <1>11, <2>2 DEF Promise!Next, Promise!Resize
<1> QED BY <1>1, <1>4, <1>12, <1>13, <1>14, <1>15 DEF Simple

\* The heap keeps what an allocator promises: every step hands out a region that overlaps
\* no other, takes one back, does both with one region, or changes none (ex.cpp:300-880).
THEOREM AllocatorImplemented == Spec => ImplementsAllocator
<1>1. Init => Promise!Init
    <2> HAVE Init
    <2>1. DOMAIN held = {}
        BY DEF Init
    <2>2. Regions = [s \in {} |-> UnitsOf(held[s - HeaderUnits])]
        BY <2>1 DEF Regions
    <2>3. Regions = << >>
        BY <2>2
    <2> QED BY <2>3 DEF Promise!Init
<1>2. Inv /\ [Next]_vars => [Promise!Next]_Regions
    <2> HAVE Inv /\ [Next]_vars
    <2>1. Inv' /\ (Steps \/ UNCHANGED <<memoryVars, held>>)
        BY NextKeeps
    <2>2. CASE Steps
        BY <2>1, <2>2, StepIsPromised
    <2>3. CASE UNCHANGED <<memoryVars, held>>
        <3>1. held' = held
            BY <2>3
        <3>2. Regions' = Regions
            BY <3>1 DEF Regions
        <3> QED BY <3>2
    <2> QED BY <2>1, <2>2, <2>3
<1> QED BY <1>1, <1>2, InvAlways, PTL DEF Spec, ImplementsAllocator, Promise!Spec
=============================================================================
