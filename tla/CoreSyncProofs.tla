--------------------------- MODULE CoreSyncProofs ---------------------------
(***************************************************************************)
(* For any number of IMSIs, operators, scripts and store edits, however    *)
(* many scripts overlap and however many are killed:                       *)
(*   - an IMSI has no more documents than scripts may run at one time      *)
(*     (WideInv: documents and scripts about to insert one are no more     *)
(*     than MaxRunning together);                                          *)
(*   - neither kind of script touches the documents of the other, and a    *)
(*     sync writes only differences, unless another script wrote between   *)
(*     its lookup and its write (WatchInv: what a script found when it     *)
(*     looked an IMSI up is still so when it writes, although UEs attach   *)
(*     in between);                                                        *)
(*   - until two scripts overlap, an IMSI has one document, a finished     *)
(*     sync mirrors its list, and the collection implements Registry.      *)
(*                                                                         *)
(* The last rests on SyncInv: what a sync has passed already says what its *)
(* list says, and nobody else has anything to write.                       *)
(***************************************************************************)
EXTENDS Overlaps, SequenceTheorems, FiniteSetTheorems, TLAPS

\* No two scripts overlap.
OneRunner == \A p, q \in Procs : kind[p] # "idle" /\ kind[q] # "idle" => p = q

\* A script has nothing pending before it starts, and carries a plan of its kind.
Plans ==
    \A p \in Procs :
        /\ kind[p] = "idle" => pending[p] = NoImsi
        /\ kind[p] = "sync" => plan[p] \in Rows
        /\ kind[p] = "import" => plan[p] \in [Imsi -> PolicyRecord \cup {NoRow}]
        /\ pending[p] # NoImsi => plan[p][pending[p]] # NoRow

\* What stands at the pending IMSI is still what the script found there.
StillSo(p) ==
    /\ kind[p] = "sync" =>
          /\ found[p] = Present(pending[p])
          /\ Present(pending[p]) =>
                /\ ~IsRoamer(Existing(pending[p]))
                /\ ~SameContent(Existing(pending[p]), plan[p][pending[p]])
    /\ kind[p] = "import" /\ Present(pending[p]) => IsRoamer(Existing(pending[p]))

FoundHolds == \A p \in Procs : pending[p] # NoImsi => StillSo(p)
WatchInv   == \A p \in Procs : pending[p] # NoImsi /\ ~beaten[p] => StillSo(p)

\* A listed IMSI that a sync has dealt with says what the list says.
PassedHolds ==
    \A p \in Procs, i \in Imsi :
        kind[p] = "sync" /\ plan[p][i] # NoRow /\ i \notin todo[p] /\ i # pending[p] =>
            /\ Present(i)
            /\ IsRoamer(Existing(i)) \/ SameContent(Existing(i), plan[p][i])

SyncInv == OnePerImsi /\ OneRunner /\ Plans /\ FoundHolds /\ PassedHolds

-----------------------------------------------------------------------------
(* Sequences of at most one document.                                       *)

LEMMA AtMostOne ==
    ASSUME NEW docs \in Seq(Doc), Len(docs) <= 1
    PROVE  \/ docs = <<>>
           \/ \E d \in Doc : docs = <<d>>
<1>1. CASE Len(docs) = 0
    BY <1>1
<1>2. CASE Len(docs) = 1
    <2>1. PICK d \in Doc : d = docs[1]
        BY <1>2
    <2>2. <<d>> \in Seq(Doc) /\ Len(docs) = Len(<<d>>)
        BY <1>2
    <2>3. \A k \in 1..Len(docs) : docs[k] = <<d>>[k]
        BY <1>2, <2>1
    <2>4. docs = <<d>>
        BY <2>2, <2>3, SeqEqual, Zenon
    <2>5. QED BY <2>1, <2>4, Zenon
<1>3. Len(docs) = 0 \/ Len(docs) = 1
    <2>1. Len(docs) \in Nat
        BY LenProperties
    <2>2. QED BY <2>1
<1>4. QED BY <1>1, <1>2, <1>3

LEMMA OneDocument ==
    ASSUME NEW d \in Doc, NEW e \in Doc
    PROVE  /\ <<d>> # <<>> /\ Head(<<d>>) = d /\ Len(<<d>>) = 1 /\ <<d>>[1] = d
           /\ <<d>> \in Seq(Doc)
           /\ ReplaceFirst(<<d>>, e) = <<e>>
           /\ Append(<<>>, d) = <<d>>
BY DEF ReplaceFirst

LEMMA NoPlaces == ASSUME NEW docs PROVE Places(docs, {}) = <<>>
BY FS_EmptySet DEF Places

LEMMA FirstPlace == ASSUME NEW d PROVE Places(<<d>>, {1}) = <<d>>
<1>1. Cardinality({1}) = 1
    BY FS_Singleton
<1>2. Cardinality({j \in {1} : j < 1}) = 0
    <2>1. {j \in {1} : j < 1} = {}
        OBVIOUS
    <2>2. QED BY <2>1, FS_EmptySet
<1> DEFINE IsNth(k, n) == Cardinality({j \in {1} : j < k}) = n - 1
<1>3. IsNth(1, 1)
    BY <1>2
<1> HIDE DEF IsNth
<1>4. (CHOOSE k \in {1} : IsNth(k, 1)) = 1
    <2>1. (CHOOSE k \in {1} : IsNth(k, 1)) \in {1}
        BY <1>3
    <2>2. QED BY <2>1
<1>5. Places(<<d>>, {1}) = [n \in 1..1 |-> <<d>>[CHOOSE k \in {1} : IsNth(k, n)]]
    BY <1>1 DEF Places, IsNth
<1> DEFINE Found(n) == <<d>>[CHOOSE k \in {1} : IsNth(k, n)]
<1>6. Found(1) = d
    <2>1. Found(1) = <<d>>[1]
        BY <1>4, Zenon DEF Found
    <2>2. QED BY <2>1
<1> HIDE DEF Found
<1>7. [n \in 1..1 |-> Found(n)] = <<d>>
    <2>1. \A n \in 1..1 : Found(n) = d
        BY <1>6
    <2>2. [n \in 1..1 |-> Found(n)] = [n \in 1..1 |-> d]
        BY <2>1
    <2>3. QED BY <2>2
<1>8. QED BY <1>5, <1>7 DEF Found

LEMMA WhereEmpty ==
    Where(<<>>, IsRoamer) = <<>> /\ Where(<<>>, IsLocal) = <<>>
<1>1. /\ {k \in DOMAIN <<>> : IsRoamer(<<>>[k])} = {}
      /\ {k \in DOMAIN <<>> : IsLocal(<<>>[k])} = {}
    OBVIOUS
<1>2. QED BY <1>1, NoPlaces DEF Where

LEMMA WhereOne ==
    ASSUME NEW d
    PROVE  /\ Where(<<d>>, IsRoamer) = IF IsRoamer(d) THEN <<d>> ELSE <<>>
           /\ Where(<<d>>, IsLocal) = IF IsRoamer(d) THEN <<>> ELSE <<d>>
<1>1. CASE IsRoamer(d)
    <2>1. {k \in DOMAIN <<d>> : IsRoamer(<<d>>[k])} = {1}
        BY <1>1
    <2>2. {k \in DOMAIN <<d>> : IsLocal(<<d>>[k])} = {}
        BY <1>1 DEF IsLocal
    <2>3. QED BY <1>1, <2>1, <2>2, NoPlaces, FirstPlace DEF Where
<1>2. CASE ~IsRoamer(d)
    <2>1. {k \in DOMAIN <<d>> : IsLocal(<<d>>[k])} = {1}
        BY <1>2 DEF IsLocal
    <2>2. {k \in DOMAIN <<d>> : IsRoamer(<<d>>[k])} = {}
        BY <1>2
    <2>3. QED BY <1>2, <2>1, <2>2, NoPlaces, FirstPlace DEF Where
<1>3. QED BY <1>1, <1>2

-----------------------------------------------------------------------------
(* What a filter leaves.                                                    *)

\* How many of the places come before k.
Rank(at, k) == Cardinality({j \in at : j < k})

LEMMA RankBounds ==
    ASSUME NEW n \in Nat, NEW at \in SUBSET (1..n)
    PROVE  /\ IsFiniteSet(at) /\ Cardinality(at) \in 0..n
           /\ \A k \in at : Rank(at, k) \in 0..(Cardinality(at) - 1)
           /\ \A k, l \in at : k < l => Rank(at, k) < Rank(at, l)
<1>1. IsFiniteSet(at) /\ Cardinality(at) \in 0..n
    <2>1. IsFiniteSet(1..n) /\ Cardinality(1..n) = n
        BY FS_Interval
    <2>2. IsFiniteSet(at) /\ Cardinality(at) <= n /\ Cardinality(at) \in Nat
        BY <2>1, FS_Subset, FS_CardinalityType
    <2>3. QED BY <2>2
<1>2. ASSUME NEW S \in SUBSET at, NEW T \in SUBSET at, S \subseteq T, NEW k \in T \ S
      PROVE  Cardinality(S) \in Nat /\ Cardinality(T) \in Nat /\ Cardinality(S) < Cardinality(T)
    <2>1. IsFiniteSet(T) /\ IsFiniteSet(S)
        BY <1>1, <1>2, FS_Subset
    <2>2. Cardinality(T) \in Nat /\ Cardinality(S) \in Nat
        BY <2>1, FS_CardinalityType
    <2>3. Cardinality(S) <= Cardinality(T) /\ (Cardinality(T) = Cardinality(S) => T = S)
        BY <1>2, <2>1, FS_Subset
    <2>4. QED BY <1>2, <2>2, <2>3
<1>3. \A k \in at : Rank(at, k) \in 0..(Cardinality(at) - 1)
    <2> TAKE k \in at
    <2>1. k \in at \ {j \in at : j < k}
        OBVIOUS
    <2>2. /\ Rank(at, k) \in Nat /\ Cardinality(at) \in Nat
          /\ Rank(at, k) < Cardinality(at)
        BY <1>2, <2>1 DEF Rank
    <2>3. QED BY <2>2
<1>4. \A k, l \in at : k < l => Rank(at, k) < Rank(at, l)
    <2> SUFFICES ASSUME NEW k \in at, NEW l \in at, k < l
                 PROVE  Rank(at, k) < Rank(at, l)
        OBVIOUS
    <2>1. /\ {j \in at : j < k} \subseteq {j \in at : j < l}
          /\ k \in {j \in at : j < l} \ {j \in at : j < k}
        <3>1. \A j \in at : j \in Nat
            OBVIOUS
        <3>2. \A j \in at : j < k => j < l
            BY <3>1
        <3>3. ~(k < k)
            BY <3>1
        <3>4. QED BY <3>2, <3>3
    <2>2. QED BY <1>2, <2>1 DEF Rank
<1>5. QED BY <1>1, <1>3, <1>4

\* Every place has its turn: an injection between sets of one size is onto.
LEMMA RankOnto ==
    ASSUME NEW n \in Nat, NEW at \in SUBSET (1..n), NEW m \in 1..Cardinality(at)
    PROVE  \E k \in at : Rank(at, k) = m - 1
<1> DEFINE c == Cardinality(at)
           f == [k \in at |-> Rank(at, k) + 1]
<1>1. /\ IsFiniteSet(at) /\ c \in Nat
      /\ \A k \in at : Rank(at, k) \in 0..(c - 1)
      /\ \A k, l \in at : k < l => Rank(at, k) < Rank(at, l)
    BY RankBounds
<1>2. f \in [at -> 1..c]
    BY <1>1
<1>3. ASSUME NEW k \in at, NEW l \in at, f[k] = f[l]
      PROVE  k = l
    <2>1. Rank(at, k) = Rank(at, l)
        BY <1>1, <1>3
    <2>2. ~(k < l) /\ ~(l < k)
        BY <1>1, <2>1
    <2>3. QED BY <2>2
<1>4. f \in Injection(at, 1..c)
    BY <1>2, <1>3 DEF Injection, IsInjective
<1>5. IsFiniteSet(1..c) /\ Cardinality(1..c) = c
    BY <1>1, FS_Interval
<1>6. f \in Surjection(at, 1..c)
    BY <1>4, <1>5, FS_Injection
<1>7. PICK k \in at : f[k] = m
    BY <1>6 DEF Surjection
<1>8. QED BY <1>1, <1>7

\* The documents at some places of a sequence are no more than there were.
LEMMA PlacesTyped ==
    ASSUME NEW docs \in Seq(Doc), NEW at \in SUBSET DOMAIN docs
    PROVE  /\ Places(docs, at) \in Seq(Doc)
           /\ Len(Places(docs, at)) <= Len(docs)
<1>1. Len(docs) \in Nat /\ DOMAIN docs = 1..Len(docs)
    BY LenProperties
<1>2. Cardinality(at) \in 0..Len(docs)
    BY <1>1, RankBounds
<1> DEFINE Nth(m) == CHOOSE k \in at : Rank(at, k) = m - 1
<1>3. ASSUME NEW m \in 1..Cardinality(at) PROVE docs[Nth(m)] \in Doc
    <2>1. \E k \in at : Rank(at, k) = m - 1
        BY <1>1, RankOnto
    <2>2. Nth(m) \in at
        BY <2>1, Zenon
    <2> HIDE DEF Nth
    <2>3. QED BY <1>1, <2>2, ElementOfSeq
<1>4. Places(docs, at) = [m \in 1..Cardinality(at) |-> docs[Nth(m)]]
    BY DEF Places, Rank
<1> HIDE DEF Nth
<1>5. QED BY <1>1, <1>2, <1>3, <1>4

LEMMA WhereTyped ==
    ASSUME NEW docs \in Seq(Doc)
    PROVE  Where(docs, IsRoamer) \in Seq(Doc) /\ Len(Where(docs, IsRoamer)) <= Len(docs)
BY PlacesTyped DEF Where

\* Two sequences that agree at the places agree in what stands there.
LEMMA PlacesAgree ==
    ASSUME NEW n \in Nat, NEW at \in SUBSET (1..n), NEW docs, NEW others,
           \A k \in at : docs[k] = others[k]
    PROVE  Places(docs, at) = Places(others, at)
<1> DEFINE Nth(m) == CHOOSE k \in at : Rank(at, k) = m - 1
<1>1. ASSUME NEW m \in 1..Cardinality(at) PROVE Nth(m) \in at
    <2>1. \E k \in at : Rank(at, k) = m - 1
        BY RankOnto
    <2>2. QED BY <2>1, Zenon
<1>2. /\ Places(docs, at) = [m \in 1..Cardinality(at) |-> docs[Nth(m)]]
      /\ Places(others, at) = [m \in 1..Cardinality(at) |-> others[Nth(m)]]
    BY DEF Places, Rank
<1> HIDE DEF Nth
<1>3. QED BY <1>1, <1>2

LEMMA PlacesAll ==
    ASSUME NEW docs \in Seq(Doc)
    PROVE  Places(docs, DOMAIN docs) = docs
<1> DEFINE n == Len(docs)
           Nth(m) == CHOOSE k \in 1..n : Rank(1..n, k) = m - 1
<1>1. n \in Nat /\ DOMAIN docs = 1..n /\ docs = [m \in 1..n |-> docs[m]]
    BY LenProperties
<1>2. Cardinality(1..n) = n
    BY <1>1, FS_Interval
<1>3. ASSUME NEW k \in 1..n PROVE Rank(1..n, k) = k - 1
    <2>1. {j \in 1..n : j < k} = 1..(k - 1)
        BY <1>1
    <2>2. Cardinality(1..(k - 1)) = k - 1
        BY <1>1, FS_Interval
    <2>3. QED BY <2>1, <2>2 DEF Rank
<1>4. ASSUME NEW m \in 1..n PROVE Nth(m) = m
    <2>1. Rank(1..n, m) = m - 1
        BY <1>3
    <2>2. Nth(m) \in 1..n /\ Rank(1..n, Nth(m)) = m - 1
        BY <2>1, Zenon
    <2> HIDE DEF Nth
    <2>3. Nth(m) - 1 = m - 1
        BY <1>3, <2>2
    <2>4. QED BY <1>1, <2>2, <2>3
<1>5. Places(docs, DOMAIN docs) = [m \in 1..n |-> docs[Nth(m)]]
    BY <1>1, <1>2 DEF Places, Rank
<1> HIDE DEF Nth
<1>6. QED BY <1>1, <1>4, <1>5

\* Replacing the first document leaves the others where they were.
LEMMA Replaced ==
    ASSUME NEW docs \in Seq(Doc), docs # <<>>, NEW d \in Doc
    PROVE  /\ DOMAIN ReplaceFirst(docs, d) = DOMAIN docs
           /\ ReplaceFirst(docs, d) # <<>> /\ Head(ReplaceFirst(docs, d)) = d
           /\ ReplaceFirst(docs, d)[1] = d /\ docs[1] = Head(docs)
           /\ \A k \in DOMAIN docs : k # 1 => ReplaceFirst(docs, d)[k] = docs[k]
<1> DEFINE new == <<d>> \o Tail(docs)
<1>1. /\ Len(docs) \in Nat \ {0} /\ DOMAIN docs = 1..Len(docs)
      /\ Tail(docs) \in Seq(Doc) /\ Len(Tail(docs)) = Len(docs) - 1
      /\ \A k \in 1..Len(Tail(docs)) : Tail(docs)[k] = docs[k + 1]
    BY HeadTailProperties, LenProperties, EmptySeq
<1>2. <<d>> \in Seq(Doc) /\ Len(<<d>>) = 1 /\ <<d>>[1] = d
    OBVIOUS
<1>3. /\ new \in Seq(Doc) /\ Len(new) = 1 + Len(Tail(docs))
      /\ \A k \in 1..(1 + Len(Tail(docs))) :
            new[k] = IF k <= 1 THEN <<d>>[k] ELSE Tail(docs)[k - 1]
    BY <1>1, <1>2, ConcatProperties
<1>4. Len(new) = Len(docs) /\ new[1] = d
    BY <1>1, <1>2, <1>3
<1>5. ASSUME NEW k \in 1..Len(docs), k # 1 PROVE new[k] = docs[k]
    <2>1. k \in 1..(1 + Len(Tail(docs))) /\ ~(k <= 1) /\ k - 1 \in 1..Len(Tail(docs))
        BY <1>1, <1>5
    <2>2. Tail(docs)[k - 1] = docs[(k - 1) + 1]
        BY <1>1, <2>1
    <2>3. QED BY <1>3, <2>1, <2>2
<1> HIDE DEF new
<1>6. DOMAIN new = 1..Len(docs) /\ new # <<>> /\ Head(new) = d
    BY <1>1, <1>3, <1>4
<1>7. docs[1] = Head(docs)
    BY <1>1
<1>8. QED BY <1>1, <1>4, <1>5, <1>6, <1>7 DEF ReplaceFirst, new

\* A filter that keeps neither the old first document nor the new one sees no
\* difference.
LEMMA SameFilter ==
    ASSUME NEW docs \in Seq(Doc), docs # <<>>, NEW d \in Doc
    PROVE  /\ ~IsRoamer(Head(docs)) /\ ~IsRoamer(d) =>
                 Where(ReplaceFirst(docs, d), IsRoamer) = Where(docs, IsRoamer)
           /\ IsRoamer(Head(docs)) /\ IsRoamer(d) =>
                 Where(ReplaceFirst(docs, d), IsLocal) = Where(docs, IsLocal)
<1> DEFINE new == ReplaceFirst(docs, d)
<1>1. /\ DOMAIN new = DOMAIN docs /\ new[1] = d /\ docs[1] = Head(docs)
      /\ \A k \in DOMAIN docs : k # 1 => new[k] = docs[k]
    BY Replaced
<1>2. Len(docs) \in Nat /\ DOMAIN docs = 1..Len(docs)
    BY LenProperties
<1> HIDE DEF new
<1>3. ASSUME ~IsRoamer(Head(docs)), ~IsRoamer(d)
      PROVE  Where(new, IsRoamer) = Where(docs, IsRoamer)
    <2> DEFINE at == {k \in DOMAIN docs : IsRoamer(docs[k])}
    <2>1. {k \in DOMAIN new : IsRoamer(new[k])} = at
        BY <1>1, <1>3
    <2>2. at \in SUBSET (1..Len(docs)) /\ \A k \in at : new[k] = docs[k]
        BY <1>1, <1>2, <1>3
    <2>3. Places(new, at) = Places(docs, at)
        <3> HIDE DEF at
        <3>1. QED BY <1>2, <2>2, PlacesAgree
    <2>4. QED BY <2>1, <2>3 DEF Where
<1>4. ASSUME IsRoamer(Head(docs)), IsRoamer(d)
      PROVE  Where(new, IsLocal) = Where(docs, IsLocal)
    <2> DEFINE at == {k \in DOMAIN docs : IsLocal(docs[k])}
    <2>1. {k \in DOMAIN new : IsLocal(new[k])} = at
        BY <1>1, <1>4 DEF IsLocal
    <2>2. at \in SUBSET (1..Len(docs)) /\ \A k \in at : new[k] = docs[k]
        BY <1>1, <1>2, <1>4 DEF IsLocal
    <2>3. Places(new, at) = Places(docs, at)
        <3> HIDE DEF at
        <3>1. QED BY <1>2, <2>2, PlacesAgree
    <2>4. QED BY <2>1, <2>3 DEF Where
<1>5. QED BY <1>3, <1>4 DEF new

\* What a filter has let through it lets through again.
LEMMA FilterTwice ==
    ASSUME NEW docs \in Seq(Doc)
    PROVE  Where(Where(docs, IsRoamer), IsRoamer) = Where(docs, IsRoamer)
<1> DEFINE at == {k \in DOMAIN docs : IsRoamer(docs[k])}
           new == Places(docs, at)
           Nth(m) == CHOOSE k \in at : Rank(at, k) = m - 1
<1>1. Len(docs) \in Nat /\ DOMAIN docs = 1..Len(docs) /\ at \in SUBSET (1..Len(docs))
    BY LenProperties
<1>2. new \in Seq(Doc)
    BY PlacesTyped
<1>3. new = [m \in 1..Cardinality(at) |-> docs[Nth(m)]]
    BY DEF Places, Rank
<1>4. ASSUME NEW m \in 1..Cardinality(at) PROVE Nth(m) \in at
    <2> HIDE DEF at
    <2>1. \E k \in at : Rank(at, k) = m - 1
        BY <1>1, RankOnto
    <2>2. QED BY <2>1, Zenon
<1> HIDE DEF Nth
<1>5. \A m \in DOMAIN new : IsRoamer(new[m])
    BY <1>3, <1>4
<1>6. Where(docs, IsRoamer) = new
    BY DEF Where
<1> HIDE DEF new
<1>7. {m \in DOMAIN new : IsRoamer(new[m])} = DOMAIN new
    BY <1>5
<1>8. Where(new, IsRoamer) = new
    BY <1>2, <1>7, PlacesAll DEF Where
<1>9. QED BY <1>6, <1>8

-----------------------------------------------------------------------------
(* However many scripts overlap.                                            *)

FewRun == IsFiniteSet(Running) /\ Cardinality(Running) <= MaxRunning

\* Scripts that have found no document of i and will insert one.
Inserters(i) == {p \in Procs : kind[p] = "sync" /\ pending[p] = i /\ ~found[p]}

\* Two scripts that both found no document both insert one, and it ends there.
RoomToInsert ==
    \A i \in Imsi : Len(mongo[i]) + Cardinality(Inserters(i)) <= MaxRunning

WideInv == TypeOK /\ Plans /\ FewRun /\ RoomToInsert

\* They are among those that run; if one that runs is not of them, they are fewer.
InsertersFew ==
    \A i \in Imsi :
        /\ IsFiniteSet(Inserters(i)) /\ Cardinality(Inserters(i)) \in Nat
        /\ Cardinality(Inserters(i)) <= MaxRunning
        /\ \A p \in Running \ Inserters(i) : Cardinality(Inserters(i)) <= MaxRunning - 1

LEMMA InsertersCount == FewRun => InsertersFew
<1> SUFFICES ASSUME FewRun, NEW i \in Imsi
             PROVE  /\ IsFiniteSet(Inserters(i)) /\ Cardinality(Inserters(i)) \in Nat
                    /\ Cardinality(Inserters(i)) <= MaxRunning
                    /\ \A p \in Running \ Inserters(i) :
                          Cardinality(Inserters(i)) <= MaxRunning - 1
    BY DEF InsertersFew
<1>1. IsFiniteSet(Running) /\ Cardinality(Running) \in Nat /\ Cardinality(Running) <= MaxRunning
    BY FS_CardinalityType DEF FewRun
<1>2. Inserters(i) \subseteq Running
    BY DEF Inserters, Running
<1>3. /\ IsFiniteSet(Inserters(i)) /\ Cardinality(Inserters(i)) \in Nat
      /\ Cardinality(Inserters(i)) <= Cardinality(Running)
    BY <1>1, <1>2, FS_Subset, FS_CardinalityType
<1>4. ASSUME NEW p \in Running \ Inserters(i)
      PROVE  Cardinality(Inserters(i)) <= MaxRunning - 1
    <2>1. IsFiniteSet(Running \ {p}) /\ Cardinality(Running \ {p}) = Cardinality(Running) - 1
        BY <1>1, FS_RemoveElement
    <2>2. Cardinality(Inserters(i)) <= Cardinality(Running \ {p})
        BY <1>2, <2>1, FS_Subset
    <2>3. QED BY <1>1, <1>3, <2>1, <2>2, CoreAssumption
<1>5. QED BY <1>1, <1>3, <1>4, CoreAssumption

\* Nobody starts: the scripts that run are among those that ran.
LEMMA StillFew ==
    ASSUME FewRun, \A p \in Procs : kind'[p] # "idle" => kind[p] # "idle"
    PROVE  FewRun'
<1>1. Running' \subseteq Running
    BY DEF Running
<1>2. IsFiniteSet(Running) /\ Cardinality(Running) \in Nat
    BY FS_CardinalityType DEF FewRun
<1>3. IsFiniteSet(Running') /\ Cardinality(Running') <= Cardinality(Running)
    BY <1>1, <1>2, FS_Subset
<1>4. Cardinality(Running') \in Nat
    BY <1>3, FS_CardinalityType
<1>5. QED BY <1>2, <1>3, <1>4, CoreAssumption DEF FewRun

\* No document more, and nobody more who will insert one.
LEMMA StillRoom ==
    ASSUME WideInv, TypeOK', NEW i \in Imsi, Inserters(i)' \subseteq Inserters(i),
           Len(mongo'[i]) <= Len(mongo[i])
    PROVE  Len(mongo'[i]) + Cardinality(Inserters(i)') <= MaxRunning
<1>1. IsFiniteSet(Inserters(i)) /\ Cardinality(Inserters(i)) \in Nat
    BY InsertersCount DEF WideInv, InsertersFew
<1>2. IsFiniteSet(Inserters(i)') /\ Cardinality(Inserters(i)') <= Cardinality(Inserters(i))
    BY <1>1, FS_Subset
<1>3. Cardinality(Inserters(i)') \in Nat
    BY <1>2, FS_CardinalityType
<1>4. Len(mongo[i]) \in Nat /\ Len(mongo'[i]) \in Nat
    BY LenProperties DEF WideInv, TypeOK
<1>5. QED BY <1>1, <1>2, <1>3, <1>4, CoreAssumption DEF WideInv, RoomToInsert

LEMMA InitWide == Init => WideInv
<1> SUFFICES ASSUME Init PROVE WideInv
    OBVIOUS
<1>1. 0 \in 0..MaxScripts /\ 0 \in 0..MaxEdits
    BY CoreAssumption
<1>2. NoPlan \in [Imsi -> PolicyRecord \cup {NoRow}]
    BY DEF NoPlan
<1>3. mongo \in [Imsi -> Seq(Doc)] /\ \A i \in Imsi : Len(mongo[i]) = 0
    BY DEF Init
<1>4. TypeOK
    BY <1>1, <1>2, <1>3 DEF Init, TypeOK
<1>5. Plans
    BY DEF Init, Plans
<1>6. FewRun
    <2>1. Running = {}
        BY DEF Init, Running
    <2>2. QED BY <2>1, FS_EmptySet, CoreAssumption DEF FewRun
<1>7. RoomToInsert
    <2>1. \A i \in Imsi : Inserters(i) = {}
        BY DEF Init, Inserters
    <2>2. \A i \in Imsi : Cardinality(Inserters(i)) = 0
        BY <2>1, FS_EmptySet
    <2>3. \A i \in Imsi : Len(mongo[i]) + Cardinality(Inserters(i)) = 0 /\ 0 <= MaxRunning
        BY <1>3, <2>2, CoreAssumption
    <2>4. QED BY <2>3, CoreAssumption DEF RoomToInsert
<1>8. QED BY <1>4, <1>5, <1>6, <1>7 DEF WideInv

LEMMA RunWide ==
    ASSUME WideInv, NEW p \in Procs, NEW k, NEW what, Run(p, k, what),
           \/ k = "sync" /\ what \in Rows
           \/ k = "import" /\ what \in [Imsi -> PolicyRecord \cup {NoRow}]
    PROVE  WideInv'
<1>1. /\ kind[p] = "idle" /\ pending[p] = NoImsi /\ Cardinality(Running) < MaxRunning
      /\ kind' = [kind EXCEPT ![p] = k] /\ plan' = [plan EXCEPT ![p] = what]
      /\ todo' = [todo EXCEPT ![p] = {i \in Imsi : what[i] # NoRow}]
      /\ UNCHANGED <<store, mongo, pending, found, edits>>
    BY DEF Run, Start, WideInv, Plans
<1>2. scripts' \in 0..MaxScripts
    BY CoreAssumption DEF Run, Start, WideInv, TypeOK
<1>3. TypeOK'
    BY <1>1, <1>2 DEF WideInv, TypeOK
<1>4. Plans'
    BY <1>1 DEF WideInv, TypeOK, Plans
<1>5. FewRun'
    <2>1. Running' = Running \cup {p}
        BY <1>1 DEF Running, WideInv, TypeOK
    <2>2. IsFiniteSet(Running) /\ Cardinality(Running) \in Nat
        BY FS_CardinalityType DEF WideInv, FewRun
    <2>3. /\ IsFiniteSet(Running') 
          /\ Cardinality(Running') = IF p \in Running THEN Cardinality(Running)
                                                      ELSE Cardinality(Running) + 1
        BY <2>1, <2>2, FS_AddElement
    <2>4. QED BY <1>1, <2>2, <2>3, CoreAssumption DEF FewRun
<1>6. RoomToInsert'
    <2> SUFFICES ASSUME NEW i \in Imsi
                 PROVE  Len(mongo'[i]) + Cardinality(Inserters(i)') <= MaxRunning
        BY DEF RoomToInsert
    <2>1. Inserters(i)' \subseteq Inserters(i)
        BY <1>1, CoreAssumption DEF Inserters, WideInv, TypeOK
    <2>2. Len(mongo[i]) \in Nat
        BY LenProperties DEF WideInv, TypeOK
    <2>3. QED BY <1>1, <1>3, <2>1, <2>2, StillRoom
<1>7. QED BY <1>3, <1>4, <1>5, <1>6 DEF WideInv

LEMMA QuitWide ==
    ASSUME WideInv, NEW p \in Procs, Quit(p), UNCHANGED <<store, scripts, edits>>,
           mongo' \in [Imsi -> Seq(Doc)], \A i \in Imsi : Len(mongo'[i]) <= Len(mongo[i])
    PROVE  WideInv'
<1>1. NoPlan \in [Imsi -> PolicyRecord \cup {NoRow}]
    BY DEF NoPlan
<1>2. TypeOK'
    BY <1>1 DEF Quit, WideInv, TypeOK
<1>3. Plans'
    BY DEF Quit, WideInv, TypeOK, Plans
<1>4. FewRun'
    <2>1. \A q \in Procs : kind'[q] # "idle" => kind[q] # "idle"
        BY DEF Quit, WideInv, TypeOK
    <2>2. QED BY <2>1, StillFew DEF WideInv
<1>5. RoomToInsert'
    <2>1. \A i \in Imsi : Inserters(i)' \subseteq Inserters(i)
        BY DEF Quit, Inserters, WideInv, TypeOK
    <2>2. QED BY <1>2, <2>1, StillRoom DEF RoomToInsert
<1>6. QED BY <1>2, <1>3, <1>4, <1>5 DEF WideInv

LEMMA LookWide ==
    ASSUME WideInv, NEW p \in Procs, NEW i \in Imsi, NEW k \in {"sync", "import"},
           LooksAt(p, k, i), Skip \/ GoesOnToWrite(p, i)
    PROVE  WideInv'
<1>1. /\ kind[p] = k /\ pending[p] = NoImsi /\ i \in todo[p]
      /\ todo' = [todo EXCEPT ![p] = @ \ {i}]
      /\ UNCHANGED <<store, mongo, kind, plan, scripts, edits>>
      /\ \/ UNCHANGED <<pending, found>>
         \/ pending' = [pending EXCEPT ![p] = i] /\ found' = [found EXCEPT ![p] = Present(i)]
    BY DEF LooksAt, Skip, GoesOnToWrite
<1>2. Present(i) \in BOOLEAN
    BY DEF Present
<1>3. TypeOK'
    BY <1>1, <1>2 DEF WideInv, TypeOK
<1>4. plan[p][i] # NoRow
    BY <1>1 DEF WideInv, TypeOK
<1>5. Plans'
    BY <1>1, <1>4 DEF WideInv, TypeOK, Plans
<1>6. FewRun'
    BY <1>1, StillFew DEF WideInv
<1>7. RoomToInsert'
    <2> SUFFICES ASSUME NEW j \in Imsi
                 PROVE  Len(mongo'[j]) + Cardinality(Inserters(j)') <= MaxRunning
        BY DEF RoomToInsert
    <2>1. Len(mongo[j]) \in Nat /\ mongo'[j] = mongo[j]
        BY <1>1, LenProperties DEF WideInv, TypeOK
    <2>2. CASE j = i /\ ~Present(i)
        <3>1. Len(mongo'[j]) = 0
            BY <2>1, <2>2 DEF Present
        <3>2. Cardinality(Inserters(j)') \in Nat /\ Cardinality(Inserters(j)') <= MaxRunning
            <4>1. InsertersFew'
                BY <1>6, InsertersCount, PTL
            <4>2. QED BY <4>1 DEF InsertersFew
        <3>3. QED BY <3>1, <3>2
    <2>3. CASE ~(j = i /\ ~Present(i))
        <3>1. Inserters(j)' \subseteq Inserters(j)
            BY <1>1, <2>3 DEF Inserters, WideInv, TypeOK
        <3>2. QED BY <1>3, <2>1, <3>1, StillRoom
    <2>4. QED BY <2>2, <2>3
<1>8. QED BY <1>3, <1>5, <1>6, <1>7 DEF WideInv

LEMMA ReplaceTyped ==
    ASSUME NEW docs \in Seq(Doc), docs # <<>>, NEW d \in Doc
    PROVE  ReplaceFirst(docs, d) \in Seq(Doc) /\ Len(ReplaceFirst(docs, d)) = Len(docs)
<1>1. Tail(docs) \in Seq(Doc) /\ Len(Tail(docs)) = Len(docs) - 1
    BY HeadTailProperties
<1>2. <<d>> \in Seq(Doc) /\ Len(<<d>>) = 1
    OBVIOUS
<1>3. <<d>> \o Tail(docs) \in Seq(Doc) /\ Len(<<d>> \o Tail(docs)) = 1 + Len(Tail(docs))
    BY <1>1, <1>2, ConcatProperties
<1>4. Len(docs) \in Nat
    BY LenProperties
<1>5. QED BY <1>1, <1>3, <1>4 DEF ReplaceFirst

\* A write to the pending IMSI makes no document more, or it is the insertion
\* that was counted, or there was none.
LEMMA WriteWide ==
    ASSUME WideInv, NEW p \in Procs, NEW i \in Imsi, pending[p] = i, kind[p] # "idle",
           NEW docs \in Seq(Doc), Writes(p, docs),
           \/ Len(docs) <= Len(mongo[i])
           \/ p \in Inserters(i) /\ Len(docs) = Len(mongo[i]) + 1
           \/ p \notin Inserters(i) /\ Len(docs) = 1
    PROVE  WideInv'
<1>1. /\ mongo' = [mongo EXCEPT ![i] = docs]
      /\ pending' = [pending EXCEPT ![p] = NoImsi] /\ found' = [found EXCEPT ![p] = FALSE]
      /\ UNCHANGED <<store, kind, plan, todo, scripts, edits>>
    BY DEF Writes
<1>2. TypeOK'
    BY <1>1 DEF WideInv, TypeOK
<1>3. Plans'
    BY <1>1 DEF WideInv, TypeOK, Plans
<1>4. FewRun'
    BY <1>1, StillFew DEF WideInv
<1>5. \A j \in Imsi : Inserters(j)' = Inserters(j) \ {p}
    BY <1>1, CoreAssumption DEF Inserters, WideInv, TypeOK
<1>6. RoomToInsert'
    <2> SUFFICES ASSUME NEW j \in Imsi
                 PROVE  Len(mongo'[j]) + Cardinality(Inserters(j)') <= MaxRunning
        BY DEF RoomToInsert
    <2>1. Len(mongo[j]) \in Nat /\ Len(docs) \in Nat
        BY LenProperties DEF WideInv, TypeOK
    <2>2. CASE j # i \/ Len(docs) <= Len(mongo[i])
        <3>1. Len(mongo'[j]) <= Len(mongo[j])
            BY <1>1, <2>1, <2>2 DEF WideInv, TypeOK
        <3>2. QED BY <1>2, <1>5, <3>1, StillRoom
    <2>3. CASE j = i /\ p \in Inserters(i) /\ Len(docs) = Len(mongo[i]) + 1
        <3>1. /\ IsFiniteSet(Inserters(i)) /\ Cardinality(Inserters(i)) \in Nat
              /\ Len(mongo[i]) + Cardinality(Inserters(i)) <= MaxRunning
            BY InsertersCount DEF WideInv, RoomToInsert, InsertersFew
        <3>2. Cardinality(Inserters(i)') = Cardinality(Inserters(i)) - 1
            BY <1>5, <2>3, <3>1, FS_RemoveElement
        <3>3. mongo'[i] = docs
            BY <1>1 DEF WideInv, TypeOK
        <3>4. QED BY <2>1, <2>3, <3>1, <3>2, <3>3, CoreAssumption
    <2>4. CASE j = i /\ p \notin Inserters(i) /\ Len(docs) = 1
        <3>1. /\ Cardinality(Inserters(i)) \in Nat
              /\ Cardinality(Inserters(i)) <= MaxRunning - 1
            <4>1. p \in Running \ Inserters(i)
                BY <2>4 DEF Running
            <4>2. QED BY <4>1, InsertersCount DEF WideInv, InsertersFew
        <3>2. Inserters(i)' = Inserters(i)
            BY <1>5, <2>4
        <3>3. mongo'[i] = docs
            BY <1>1 DEF WideInv, TypeOK
        <3>4. Len(mongo'[i]) = 1 /\ Cardinality(Inserters(i)') = Cardinality(Inserters(i))
            BY <2>4, <3>2, <3>3
        <3>5. 1 + Cardinality(Inserters(i)) <= MaxRunning
            BY <3>1, CoreAssumption
        <3>6. QED BY <2>4, <3>4, <3>5
    <2>5. QED BY <2>2, <2>3, <2>4
<1>7. QED BY <1>2, <1>3, <1>4, <1>6 DEF WideInv

LEMMA SyncWritesWide ==
    ASSUME WideInv, NEW p \in Procs, SyncWrites(p)
    PROVE  WideInv'
<1> DEFINE i == pending[p]
           d == LocalDocOf(plan[p][i])
           docs == IF ~found[p] THEN Append(mongo[i], d)
                   ELSE IF Present(i) THEN ReplaceFirst(mongo[i], d) ELSE <<>>
<1>1. kind[p] = "sync" /\ i # NoImsi /\ i \in Imsi /\ Writes(p, docs)
    BY DEF SyncWrites, WideInv, TypeOK
<1>2. plan[p][i] \in Row
    BY <1>1 DEF WideInv, Plans, Rows
<1>3. d \in Doc
    BY <1>2 DEF LocalDocOf, Doc, LocalDoc, Row
<1>4. mongo[i] \in Seq(Doc) /\ Len(mongo[i]) \in Nat
    BY <1>1, LenProperties DEF WideInv, TypeOK
<1> HIDE DEF d
<1>5. CASE ~found[p]
    <2>1. docs = Append(mongo[i], d)
        BY <1>5
    <2>2. docs \in Seq(Doc) /\ Len(docs) = Len(mongo[i]) + 1
        BY <1>3, <1>4, <2>1
    <2>3. p \in Inserters(i)
        BY <1>1, <1>5 DEF Inserters
    <2> HIDE DEF docs
    <2>4. QED BY <1>1, <2>2, <2>3, WriteWide
<1>6. CASE found[p] /\ Present(i)
    <2>1. docs = ReplaceFirst(mongo[i], d) /\ mongo[i] # <<>>
        BY <1>6 DEF Present
    <2> HIDE DEF docs, i
    <2>2. docs \in Seq(Doc) /\ Len(docs) <= Len(mongo[i])
        BY <1>3, <1>4, <2>1, ReplaceTyped
    <2>3. QED BY <1>1, <2>2, WriteWide DEF i
<1>7. CASE found[p] /\ ~Present(i)
    <2>1. docs = <<>>
        BY <1>7
    <2> HIDE DEF docs
    <2>2. docs \in Seq(Doc) /\ Len(docs) <= Len(mongo[i])
        BY <1>4, <2>1
    <2>3. QED BY <1>1, <2>2, WriteWide
<1>8. QED BY <1>5, <1>6, <1>7

LEMMA ImportWritesWide ==
    ASSUME WideInv, NEW p \in Procs, ImportWrites(p)
    PROVE  WideInv'
<1> DEFINE i == pending[p]
           d == RoamerDocOf(plan[p][i])
           docs == IF Present(i) THEN ReplaceFirst(mongo[i], d) ELSE <<d>>
<1>1. kind[p] = "import" /\ i # NoImsi /\ i \in Imsi /\ Writes(p, docs)
    BY DEF ImportWrites, WideInv, TypeOK
<1>2. plan[p][i] \in PolicyRecord
    BY <1>1 DEF WideInv, Plans
<1>3. d \in Doc
    BY <1>2 DEF RoamerDocOf, Doc, RoamerDoc, PolicyRecord
<1>4. mongo[i] \in Seq(Doc) /\ Len(mongo[i]) \in Nat
    BY <1>1, LenProperties DEF WideInv, TypeOK
<1> HIDE DEF d
<1>5. CASE Present(i)
    <2>1. docs = ReplaceFirst(mongo[i], d) /\ mongo[i] # <<>>
        BY <1>5 DEF Present
    <2> HIDE DEF docs, i
    <2>2. docs \in Seq(Doc) /\ Len(docs) <= Len(mongo[i])
        BY <1>3, <1>4, <2>1, ReplaceTyped
    <2>3. QED BY <1>1, <2>2, WriteWide DEF i
<1>6. CASE ~Present(i)
    <2>1. docs = <<d>>
        BY <1>6
    <2> HIDE DEF docs
    <2>2. docs \in Seq(Doc) /\ Len(docs) = 1
        BY <1>3, <2>1
    <2>3. p \notin Inserters(i)
        BY <1>1 DEF Inserters
    <2>4. QED BY <1>1, <2>2, <2>3, WriteWide
<1>7. QED BY <1>5, <1>6

\* Only documents change, and there are no more of them.
LEMMA DocumentsWide ==
    ASSUME WideInv, NEW i \in Imsi, NEW docs \in Seq(Doc), mongo' = [mongo EXCEPT ![i] = docs],
           Len(docs) <= Len(mongo[i]), UNCHANGED <<store, procVars, edits>>,
           scripts' \in 0..MaxScripts
    PROVE  WideInv'
<1>1. UNCHANGED <<kind, plan, todo, pending, found>>
    BY DEF procVars
<1>2. TypeOK'
    BY <1>1 DEF WideInv, TypeOK
<1>3. Plans'
    BY <1>1 DEF WideInv, Plans
<1>4. FewRun'
    BY <1>1, StillFew DEF WideInv
<1>5. RoomToInsert'
    <2> SUFFICES ASSUME NEW j \in Imsi
                 PROVE  Len(mongo'[j]) + Cardinality(Inserters(j)') <= MaxRunning
        BY DEF RoomToInsert
    <2>1. Inserters(j)' \subseteq Inserters(j)
        BY <1>1 DEF Inserters
    <2>2. Len(mongo'[j]) <= Len(mongo[j])
        <3>1. Len(mongo[j]) \in Nat
            BY LenProperties DEF WideInv, TypeOK
        <3>2. QED BY <3>1 DEF WideInv, TypeOK
    <2>3. QED BY <1>2, <2>1, <2>2, StillRoom
<1>6. QED BY <1>2, <1>3, <1>4, <1>5 DEF WideInv

LEMMA RemoveTyped ==
    ASSUME NEW docs \in Seq(Doc), NEW k \in DOMAIN docs
    PROVE  RemoveAt(docs, k) \in Seq(Doc) /\ Len(RemoveAt(docs, k)) <= Len(docs)
<1>1. Len(docs) \in Nat /\ DOMAIN docs = 1..Len(docs) /\ k \in 1..Len(docs)
    BY LenProperties
<1>2. \A n \in 1..Len(docs) : docs[n] \in Doc
    BY ElementOfSeq
<1>3. SubSeq(docs, 1, k - 1) \in Seq(Doc) /\ Len(SubSeq(docs, 1, k - 1)) = k - 1
    <2>1. k - 1 \in Int /\ \A n \in 1..(k - 1) : docs[n] \in Doc
        BY <1>1, <1>2
    <2>2. /\ SubSeq(docs, 1, k - 1) \in Seq(Doc)
          /\ Len(SubSeq(docs, 1, k - 1)) = IF 1 <= k - 1 THEN (k - 1) - 1 + 1 ELSE 0
        BY <2>1, SubSeqProperties
    <2>3. QED BY <1>1, <2>2
<1>4. /\ SubSeq(docs, k + 1, Len(docs)) \in Seq(Doc)
      /\ Len(SubSeq(docs, k + 1, Len(docs))) = Len(docs) - k
    <2>1. k + 1 \in Int /\ \A n \in (k + 1)..Len(docs) : docs[n] \in Doc
        BY <1>1, <1>2
    <2>2. /\ SubSeq(docs, k + 1, Len(docs)) \in Seq(Doc)
          /\ Len(SubSeq(docs, k + 1, Len(docs))) =
                IF k + 1 <= Len(docs) THEN Len(docs) - (k + 1) + 1 ELSE 0
        BY <1>1, <2>1, SubSeqProperties
    <2>3. QED BY <1>1, <2>2
<1>5. /\ RemoveAt(docs, k) \in Seq(Doc)
      /\ Len(RemoveAt(docs, k)) = (k - 1) + (Len(docs) - k)
    BY <1>3, <1>4, ConcatProperties DEF RemoveAt
<1>6. QED BY <1>1, <1>5

LEMMA StepWide == WideInv /\ [Next]_vars => WideInv'
<1> SUFFICES ASSUME WideInv, [Next]_vars PROVE WideInv'
    OBVIOUS
<1>1. ASSUME NEW p \in Procs, SyncStarts(p) PROVE WideInv'
    BY <1>1, RunWide DEF SyncStarts, WideInv, TypeOK
<1>2. ASSUME NEW p \in Procs, ImportStarts(p) PROVE WideInv'
    BY <1>2, RunWide DEF ImportStarts
<1>3. ASSUME NEW p \in Procs, SyncDeletes(p) PROVE WideInv'
    <2>1. /\ Quit(p) /\ UNCHANGED <<store, scripts, edits>>
          /\ mongo' = [i \in Imsi |-> IF plan[p][i] = NoRow
                                      THEN Where(mongo[i], IsRoamer) ELSE mongo[i]]
        BY <1>3 DEF SyncDeletes
    <2>2. ASSUME NEW i \in Imsi
          PROVE  mongo'[i] \in Seq(Doc) /\ Len(mongo'[i]) <= Len(mongo[i])
        <3>1. mongo[i] \in Seq(Doc) /\ Len(mongo[i]) \in Nat
            BY LenProperties DEF WideInv, TypeOK
        <3>2. mongo'[i] = mongo[i] \/ mongo'[i] = Where(mongo[i], IsRoamer)
            BY <2>1
        <3>3. QED BY <3>1, <3>2, WhereTyped
    <2>3. mongo' \in [Imsi -> Seq(Doc)]
        BY <2>1, <2>2
    <2>4. QED BY <2>1, <2>2, <2>3, QuitWide
<1>4. ASSUME NEW p \in Procs, Kill(p) \/ ImportEnds(p) PROVE WideInv'
    <2>1. Quit(p) /\ UNCHANGED <<store, mongo, scripts, edits>>
        BY <1>4 DEF Kill, ImportEnds
    <2>2. \A i \in Imsi : Len(mongo'[i]) <= Len(mongo[i])
        BY <2>1, LenProperties DEF WideInv, TypeOK
    <2>3. mongo' \in [Imsi -> Seq(Doc)]
        BY <2>1 DEF WideInv, TypeOK
    <2>4. QED BY <2>1, <2>2, <2>3, QuitWide
<1>5. ASSUME NEW p \in Procs, NEW i \in Imsi,
             SyncLeaves(p, i) \/ ImportRefuses(p, i) \/ SyncFinds(p, i) \/ ImportFinds(p, i)
      PROVE  WideInv'
    BY <1>5, LookWide DEF SyncLeaves, ImportRefuses, SyncFinds, ImportFinds
<1>6. ASSUME NEW p \in Procs, NEW i \in Imsi, RoamingRemove(p, i) PROVE WideInv'
    <2>1. Start /\ UNCHANGED <<store, procVars, edits>>
        BY <1>6 DEF RoamingRemove
    <2>2. PICK k \in DOMAIN mongo[i] : mongo' = [mongo EXCEPT ![i] = RemoveAt(mongo[i], k)]
        BY <1>6 DEF RoamingRemove
    <2>3. scripts' \in 0..MaxScripts
        BY <2>1, CoreAssumption DEF Start, WideInv, TypeOK
    <2>4. mongo[i] \in Seq(Doc)
        BY DEF WideInv, TypeOK
    <2>5. RemoveAt(mongo[i], k) \in Seq(Doc) /\ Len(RemoveAt(mongo[i], k)) <= Len(mongo[i])
        BY <2>2, <2>4, RemoveTyped
    <2>6. QED BY <2>1, <2>2, <2>3, <2>5, DocumentsWide
<1>7. ASSUME NEW i \in Imsi, Attach(i) PROVE WideInv'
    <2> DEFINE d == [Existing(i) EXCEPT !.used = TRUE]
    <2>1. /\ mongo[i] # <<>> /\ ~IsRoamer(Existing(i))
          /\ mongo' = [mongo EXCEPT ![i] = ReplaceFirst(mongo[i], d)]
          /\ UNCHANGED <<store, procVars, scripts, edits>>
        BY <1>7 DEF Attach, Present
    <2>2. mongo[i] \in Seq(Doc) /\ Len(mongo[i]) \in Nat /\ scripts \in 0..MaxScripts
        BY LenProperties DEF WideInv, TypeOK
    <2>3. Existing(i) \in Doc
        BY <2>1, <2>2, HeadTailProperties DEF Existing
    <2>4. Existing(i) \in LocalDoc
        BY <2>1, <2>3 DEF Doc, RoamerDoc, IsRoamer
    <2>5. d \in Doc
        BY <2>4 DEF LocalDoc, Doc
    <2> HIDE DEF d
    <2>6. ReplaceFirst(mongo[i], d) \in Seq(Doc) /\ Len(ReplaceFirst(mongo[i], d)) <= Len(mongo[i])
        <3>1. Len(ReplaceFirst(mongo[i], d)) = Len(mongo[i])
            BY <2>1, <2>2, <2>5, ReplaceTyped
        <3>2. QED BY <2>1, <2>2, <2>5, <3>1, ReplaceTyped
    <2>7. QED BY <2>1, <2>2, <2>6, DocumentsWide
<1>8. CASE LocalEdit
    <2>1. Local!Command /\ UNCHANGED <<mongo, procVars, scripts>>
        BY <1>8 DEF LocalEdit
    <2>2. store' \in Rows
        <3>1. store \in Rows
            BY DEF WideInv, TypeOK
        <3>2. QED BY <2>1, <3>1 DEF Local!Command, Local!Insert, Local!SetMode, Local!Delete,
                                 Local!Row, Local!Mode, Rows, Row, Mode
    <2>3. edits' \in 0..MaxEdits
        BY <1>8, CoreAssumption DEF LocalEdit, WideInv, TypeOK
    <2>4. TypeOK'
        BY <2>1, <2>2, <2>3 DEF procVars, WideInv, TypeOK
    <2>5. QED
        BY <2>1, <2>4 DEF procVars, WideInv, Plans, FewRun, Running, RoomToInsert, Inserters
<1>9. CASE UNCHANGED vars
    BY <1>9 DEF vars, WideInv, TypeOK, Plans, FewRun, Running, RoomToInsert, Inserters
<1>10. QED
    BY <1>1, <1>2, <1>3, <1>4, <1>5, <1>6, <1>7, <1>8, <1>9, SyncWritesWide, ImportWritesWide
       DEF Next

\* Every variable keeps to its kind, however many scripts overlap, and a loop
\* covers only what its script was generated from (sync.py, roaming.py).
THEOREM CoreTypes == Spec => []TypeOK
<1>1. WideInv => TypeOK
    BY DEF WideInv
<1>2. QED BY <1>1, InitWide, StepWide, PTL DEF Spec

\* Scripts that overlap can give an IMSI several documents, but never more than
\* the scripts that ever ran at one time: findOne and insertOne are two calls,
\* and only those whose findOne came before the first insertOne insert another
\* (sync.py:205-214, roaming.py:173-182).
THEOREM NoMoreThanOverlap == Spec => []DuplicatesBounded
<1>1. WideInv => DuplicatesBounded
    <2> SUFFICES ASSUME WideInv, NEW i \in Imsi PROVE Len(mongo[i]) <= MaxRunning
        BY DEF DuplicatesBounded
    <2>1. Cardinality(Inserters(i)) \in Nat /\ Len(mongo[i]) \in Nat
        BY InsertersCount, LenProperties DEF WideInv, TypeOK, InsertersFew
    <2>2. QED BY <2>1, CoreAssumption DEF WideInv, RoomToInsert
<1>2. QED BY <1>1, InitWide, StepWide, PTL DEF Spec

-----------------------------------------------------------------------------
(* What scripts do to each other's documents, however many overlap.         *)

\* Whoever waits to write is left alone by the others, and began with a lookup.
LEMMA WaitsOrLooks ==
    ASSUME WideInv, Next, NEW p \in Procs, pending'[p] # NoImsi
    PROVE  \/ /\ kind'[p] = kind[p] /\ plan'[p] = plan[p]
              /\ pending'[p] = pending[p] /\ found'[p] = found[p]
           \/ \E i \in Imsi : SyncFinds(p, i) \/ ImportFinds(p, i)
<1> DEFINE Waits == /\ kind'[p] = kind[p] /\ plan'[p] = plan[p]
                    /\ pending'[p] = pending[p] /\ found'[p] = found[p]
<1>1. ASSUME NEW q \in Procs, SyncStarts(q) \/ ImportStarts(q) PROVE Waits
    BY <1>1 DEF SyncStarts, ImportStarts, Run, WideInv, Plans, TypeOK
<1>2. ASSUME NEW q \in Procs, SyncWrites(q) \/ ImportWrites(q) PROVE Waits
    <2>1. /\ pending' = [pending EXCEPT ![q] = NoImsi]
          /\ found' = [found EXCEPT ![q] = FALSE] /\ UNCHANGED <<kind, plan>>
        BY <1>2 DEF SyncWrites, ImportWrites, Writes
    <2>2. QED BY <2>1 DEF WideInv, TypeOK
<1>3. ASSUME NEW q \in Procs, SyncDeletes(q) \/ ImportEnds(q) \/ Kill(q) PROVE Waits
    <2>1. Quit(q)
        BY <1>3 DEF SyncDeletes, ImportEnds, Kill
    <2>2. QED BY <2>1 DEF Quit, WideInv, TypeOK
<1>4. ASSUME NEW q \in Procs, NEW i \in Imsi, SyncLeaves(q, i) \/ ImportRefuses(q, i)
      PROVE  Waits
    BY <1>4 DEF SyncLeaves, ImportRefuses, Skip
<1>5. ASSUME NEW q \in Procs, NEW i \in Imsi, SyncFinds(q, i) \/ ImportFinds(q, i)
      PROVE  Waits \/ q = p
    <2>1. GoesOnToWrite(q, i)
        BY <1>5 DEF SyncFinds, ImportFinds
    <2>2. QED BY <2>1 DEF GoesOnToWrite, WideInv, TypeOK
<1>6. ASSUME UNCHANGED procVars PROVE Waits
    BY <1>6 DEF procVars
<1>7. ASSUME NEW q \in Procs, NEW i \in Imsi, RoamingRemove(q, i) PROVE Waits
    BY <1>6, <1>7 DEF RoamingRemove
<1>8. ASSUME (\E i \in Imsi : Attach(i)) \/ LocalEdit PROVE Waits
    BY <1>6, <1>8 DEF Attach, LocalEdit
<1> HIDE DEF Waits
<1>9. Waits \/ \E i \in Imsi : SyncFinds(p, i) \/ ImportFinds(p, i)
    BY <1>1, <1>2, <1>3, <1>4, <1>5, <1>7, <1>8, Zenon DEF Next
<1>10. QED BY <1>9 DEF Waits

LEMMA WatchStep == WideInv /\ WatchInv /\ [ONext]_ovars => WatchInv'
<1> SUFFICES ASSUME WideInv, WatchInv, [ONext]_ovars, NEW p \in Procs,
                    pending'[p] # NoImsi, ~beaten'[p]
             PROVE  StillSo(p)'
    BY DEF WatchInv
<1>1. ASSUME NEW i \in Imsi, ONext, SyncFinds(p, i) \/ ImportFinds(p, i)
      PROVE  StillSo(p)'
    <2>1. /\ pending'[p] = i /\ found'[p] = Present(i)
          /\ kind' = kind /\ plan' = plan /\ mongo' = mongo
        BY <1>1 DEF SyncFinds, ImportFinds, GoesOnToWrite, WideInv, TypeOK
    <2>2. Present(i)' = Present(i) /\ Existing(i)' = Existing(i)
        BY <2>1 DEF Present, Existing
    <2>3. CASE SyncFinds(p, i)
        <3>1. /\ kind[p] = "sync"
              /\ Present(i) => ~IsRoamer(Existing(i)) /\ ~SameContent(Existing(i), plan[p][i])
            BY <2>3 DEF SyncFinds, LooksAt
        <3>2. QED
            BY <2>1, <2>2, <3>1 DEF StillSo, Present, Existing, IsRoamer, SameContent
    <2>4. CASE ImportFinds(p, i)
        <3>1. kind[p] = "import" /\ (Present(i) => IsRoamer(Existing(i)))
            BY <2>4 DEF ImportFinds, LooksAt
        <3>2. QED BY <2>1, <2>2, <3>1 DEF StillSo, Present, Existing, IsRoamer
    <2>5. QED BY <1>1, <2>3, <2>4
<1>2. ASSUME ONext, kind'[p] = kind[p], plan'[p] = plan[p], pending'[p] = pending[p],
             found'[p] = found[p]
      PROVE  StillSo(p)'
    <2>1. PICK i \in Imsi : i = pending[p] /\ i # NoImsi
        BY <1>2 DEF WideInv, TypeOK
    <2>2. ~beaten[p] /\ (mongo'[i] = mongo[i] \/ Attach(i))
        BY <1>2, <2>1 DEF ONext, ScriptChanges
    <2>3. StillSo(p)
        BY <2>1, <2>2 DEF WatchInv
    <2>4. /\ Present(i)' = Present(i)
          /\ Present(i) =>
                /\ IsRoamer(Existing(i)') = IsRoamer(Existing(i))
                /\ SameContent(Existing(i)', plan[p][i]) = SameContent(Existing(i), plan[p][i])
        <3>1. CASE mongo'[i] = mongo[i]
            BY <1>2, <3>1 DEF Present, Existing
        <3>2. CASE Attach(i)
            <4> DEFINE d == [Existing(i) EXCEPT !.used = TRUE]
            <4>1. /\ Present(i) /\ ~IsRoamer(Existing(i))
                  /\ mongo' = [mongo EXCEPT ![i] = ReplaceFirst(mongo[i], d)]
                BY <3>2 DEF Attach
            <4>2. mongo[i] \in Seq(Doc) /\ mongo[i] # <<>>
                BY <2>1, <4>1 DEF WideInv, TypeOK, Present
            <4>3. Existing(i) \in LocalDoc
                <5>1. Existing(i) \in Doc
                    BY <4>2, HeadTailProperties DEF Existing
                <5>2. QED BY <4>1, <5>1 DEF Doc, RoamerDoc, IsRoamer
            <4>4. /\ d \in Doc /\ ~IsRoamer(d)
                  /\ d.cred = Existing(i).cred /\ d.mode = Existing(i).mode
                BY <4>3 DEF LocalDoc, Doc, IsRoamer
            <4> HIDE DEF d
            <4>5. mongo'[i] = ReplaceFirst(mongo[i], d)
                BY <2>1, <4>1 DEF WideInv, TypeOK
            <4>6. mongo'[i] # <<>> /\ Head(mongo'[i]) = d
                BY <4>2, <4>4, <4>5, Replaced
            <4>7. Present(i)' /\ Existing(i)' = d
                BY <4>6 DEF Present, Existing
            <4>8. QED BY <4>1, <4>4, <4>7 DEF SameContent, IsRoamer
        <3>3. QED BY <2>2, <3>1, <3>2
    <2>5. QED
        BY <1>2, <2>1, <2>3, <2>4 DEF StillSo, Present, Existing, IsRoamer, SameContent
<1>3. CASE ONext
    BY <1>1, <1>2, <1>3, WaitsOrLooks DEF ONext
<1>4. CASE UNCHANGED ovars
    BY <1>4 DEF ovars, vars, WatchInv, StillSo, Present, Existing
<1>5. QED BY <1>3, <1>4

\* Documents, scripts about to insert, and what those that wait have found.
LEMMA Watched == OSpec => [](WideInv /\ WatchInv)
<1>1. OInit => WideInv /\ WatchInv
    BY InitWide DEF OInit, Init, WatchInv
<1>2. WideInv /\ WatchInv /\ [ONext]_ovars => (WideInv /\ WatchInv)'
    BY StepWide, WatchStep DEF ONext, ovars
<1>3. QED BY <1>1, <1>2, PTL DEF OSpec

\* A step of p's script is an action of p, and only three write.
LEMMA Moves ==
    ASSUME TypeOK, Next, NEW p \in Procs, Steps(p)
    PROVE  mongo' = mongo \/ SyncWrites(p) \/ SyncDeletes(p) \/ ImportWrites(p)
<1>1. kind[p] # "idle" /\ <<kind[p], todo[p], pending[p]>>' # <<kind[p], todo[p], pending[p]>>
    BY DEF Steps
<1>2. ~(\E q \in Procs : \E i \in Imsi : RoamingRemove(q, i)) /\ ~(\E i \in Imsi : Attach(i))
    BY <1>1 DEF RoamingRemove, Attach, procVars
<1>3. ASSUME NEW q \in Procs, SyncWrites(q) \/ ImportWrites(q) PROVE q = p
    <2>1. pending' = [pending EXCEPT ![q] = NoImsi] /\ UNCHANGED <<kind, todo>>
        BY <1>3 DEF SyncWrites, ImportWrites, Writes
    <2>2. QED BY <1>1, <2>1 DEF TypeOK
<1>4. ASSUME NEW q \in Procs, SyncDeletes(q) PROVE q = p
    <2>1. Quit(q)
        BY <1>4 DEF SyncDeletes
    <2>2. QED BY <1>1, <2>1 DEF Quit, TypeOK
<1>5. ASSUME NEW q \in Procs,
             \/ SyncStarts(q) \/ ImportStarts(q) \/ ImportEnds(q) \/ Kill(q)
             \/ \E i \in Imsi : SyncLeaves(q, i) \/ SyncFinds(q, i)
                                 \/ ImportRefuses(q, i) \/ ImportFinds(q, i)
      PROVE  mongo' = mongo
    BY <1>5 DEF SyncStarts, ImportStarts, Run, ImportEnds, Kill, SyncLeaves, SyncFinds,
                ImportRefuses, ImportFinds, Skip, GoesOnToWrite
<1>6. mongo' = mongo \/ LocalEdit
        \/ \E q \in Procs : SyncWrites(q) \/ SyncDeletes(q) \/ ImportWrites(q)
    BY <1>2, <1>5, Zenon DEF Next
<1>7. LocalEdit => mongo' = mongo
    BY DEF LocalEdit
<1>8. QED BY <1>3, <1>4, <1>6, <1>7, Zenon

\* A sync's write turns a document that is not a roamer's into a local one, and
\* its filter leaves the roamers' as they are.
LEMMA SyncKeepsRoamers ==
    ASSUME WideInv, WatchInv, NEW p \in Procs, ~beaten[p],
           SyncWrites(p) \/ SyncDeletes(p), NEW i \in Imsi
    PROVE  Where(mongo'[i], IsRoamer) = Where(mongo[i], IsRoamer)
<1>1. mongo[i] \in Seq(Doc)
    BY DEF WideInv, TypeOK
<1>2. CASE SyncWrites(p)
    <2> DEFINE j == pending[p]
               d == LocalDocOf(plan[p][j])
               docs == IF ~found[p] THEN Append(mongo[j], d)
                       ELSE IF Present(j) THEN ReplaceFirst(mongo[j], d) ELSE <<>>
    <2>1. kind[p] = "sync" /\ j # NoImsi /\ j \in Imsi /\ Writes(p, docs)
        BY <1>2 DEF SyncWrites, WideInv, TypeOK
    <2>2. d \in Doc /\ ~IsRoamer(d)
        <3>1. plan[p][j] \in Row
            BY <2>1 DEF WideInv, Plans, Rows
        <3>2. QED BY <3>1, CoreAssumption DEF LocalDocOf, Doc, LocalDoc, Row, IsRoamer
    <2>3. found[p] = Present(j) /\ (Present(j) => ~IsRoamer(Existing(j)))
        BY <2>1 DEF WatchInv, StillSo
    <2>4. mongo'[i] = IF i = j THEN docs ELSE mongo[i]
        BY <2>1 DEF Writes, WideInv, TypeOK
    <2> HIDE DEF d
    <2>5. CASE i = j /\ Present(j)
        <3>1. docs = ReplaceFirst(mongo[i], d) /\ mongo[i] # <<>> /\ ~IsRoamer(Head(mongo[i]))
            BY <2>3, <2>5 DEF Present, Existing
        <3> HIDE DEF docs, j
        <3>2. Where(docs, IsRoamer) = Where(mongo[i], IsRoamer)
            BY <1>1, <2>2, <3>1, SameFilter
        <3>3. QED BY <2>4, <2>5, <3>2
    <2>6. CASE i = j /\ ~Present(j)
        <3>1. mongo[i] = <<>> /\ docs = Append(<<>>, d)
            BY <2>3, <2>6 DEF Present
        <3>2. docs = <<d>>
            BY <2>2, <3>1, OneDocument
        <3>3. Where(<<d>>, IsRoamer) = <<>> /\ Where(<<>>, IsRoamer) = <<>>
            BY <2>2, WhereOne, WhereEmpty
        <3> HIDE DEF docs
        <3>4. QED BY <2>4, <2>6, <3>1, <3>2, <3>3
    <2>7. CASE i # j
        BY <2>4, <2>7
    <2>8. QED BY <2>5, <2>6, <2>7
<1>3. CASE SyncDeletes(p)
    <2>1. mongo'[i] = IF plan[p][i] = NoRow THEN Where(mongo[i], IsRoamer) ELSE mongo[i]
        BY <1>3 DEF SyncDeletes
    <2>2. QED BY <1>1, <2>1, FilterTwice
<1>4. QED BY <1>2, <1>3

\* An import's write meets no document, or a roamer's.
LEMMA ImportKeepsLocal ==
    ASSUME WideInv, WatchInv, NEW p \in Procs, ~beaten[p], ImportWrites(p), NEW i \in Imsi
    PROVE  Where(mongo'[i], IsLocal) = Where(mongo[i], IsLocal)
<1> DEFINE j == pending[p]
           d == RoamerDocOf(plan[p][j])
           docs == IF Present(j) THEN ReplaceFirst(mongo[j], d) ELSE <<d>>
<1>1. mongo[i] \in Seq(Doc)
    BY DEF WideInv, TypeOK
<1>2. kind[p] = "import" /\ j # NoImsi /\ j \in Imsi /\ Writes(p, docs)
    BY DEF ImportWrites, WideInv, TypeOK
<1>3. d \in Doc /\ IsRoamer(d)
    <2>1. plan[p][j] \in PolicyRecord
        BY <1>2 DEF WideInv, Plans
    <2>2. QED BY <2>1 DEF RoamerDocOf, Doc, RoamerDoc, PolicyRecord, IsRoamer
<1>4. Present(j) => IsRoamer(Existing(j))
    BY <1>2 DEF WatchInv, StillSo
<1>5. mongo'[i] = IF i = j THEN docs ELSE mongo[i]
    BY <1>2 DEF Writes, WideInv, TypeOK
<1> HIDE DEF d
<1>6. CASE i = j /\ Present(j)
    <2>1. docs = ReplaceFirst(mongo[i], d) /\ mongo[i] # <<>> /\ IsRoamer(Head(mongo[i]))
        BY <1>4, <1>6 DEF Present, Existing
    <2>2. QED BY <1>1, <1>3, <1>5, <1>6, <2>1, SameFilter
<1>7. CASE i = j /\ ~Present(j)
    <2>1. mongo[i] = <<>> /\ docs = <<d>>
        BY <1>7 DEF Present
    <2>2. Where(<<d>>, IsLocal) = <<>> /\ Where(<<>>, IsLocal) = <<>>
        BY <1>3, WhereOne, WhereEmpty
    <2> HIDE DEF docs
    <2>3. QED BY <1>5, <1>7, <2>1, <2>2
<1>8. CASE i # j
    BY <1>5, <1>8
<1>9. QED BY <1>6, <1>7, <1>8

\* db sync leaves every document alone that roaming import made, marked as it is,
\* whatever the local store lists and whoever else runs, unless an import wrote
\* it between the sync's lookup and its write (sync.py:206-212, 223-230).
THEOREM RoamersSpared == OSpec => SyncSparesRoamers
<1>1. ASSUME WideInv, WatchInv, Next, NEW p \in Procs, kind[p] = "sync", ~beaten[p], Steps(p)
      PROVE  Docs(mongo', IsRoamer) = Docs(mongo, IsRoamer)
    <2>1. CASE mongo' = mongo
        BY <2>1 DEF Docs
    <2>2. CASE SyncWrites(p) \/ SyncDeletes(p)
        BY <1>1, <2>2, SyncKeepsRoamers, Zenon DEF Docs
    <2>3. QED BY <1>1, <2>1, <2>2, Moves DEF ImportWrites, WideInv
<1>2. WideInv /\ WatchInv /\ [ONext]_ovars =>
        [\A p \in Procs : kind[p] = "sync" /\ ~beaten[p] /\ Steps(p) =>
            Docs(mongo', IsRoamer) = Docs(mongo, IsRoamer)]_vars
    BY <1>1 DEF ONext, ovars, vars
<1>3. QED BY <1>2, Watched, PTL DEF OSpec, SyncSparesRoamers

\* roaming import changes no local subscriber's document, however many scripts
\* overlap it, unless one of them wrote to the IMSI between the import's lookup
\* and its own write (roaming.py:173-182, 185-205): its check is sound for all
\* that stood there when it looked.
THEOREM LocalSpared == OSpec => ImportSparesLocal
<1>1. ASSUME WideInv, WatchInv, Next, NEW p \in Procs, kind[p] = "import", ~beaten[p], Steps(p)
      PROVE  Docs(mongo', IsLocal) = Docs(mongo, IsLocal)
    <2>1. CASE mongo' = mongo
        BY <2>1 DEF Docs
    <2>2. CASE ImportWrites(p)
        BY <1>1, <2>2, ImportKeepsLocal, Zenon DEF Docs
    <2>3. QED BY <1>1, <2>1, <2>2, Moves DEF SyncWrites, SyncDeletes, WideInv
<1>2. WideInv /\ WatchInv /\ [ONext]_ovars =>
        [\A p \in Procs : kind[p] = "import" /\ ~beaten[p] /\ Steps(p) =>
            Docs(mongo', IsLocal) = Docs(mongo, IsLocal)]_vars
    BY <1>1 DEF ONext, ovars, vars
<1>3. QED BY <1>2, Watched, PTL DEF OSpec, ImportSparesLocal

\* A sync writes only where the content differs, at the moment it writes: a UE that
\* attached between lookup and write has not changed that (sync.py:17-41, 206-221),
\* and only another script's write there could have.
THEOREM WritesDifferences == OSpec => OnlyDifferencesWritten
<1>1. ASSUME WideInv, WatchInv, Next, NEW p \in Procs, NEW i \in Imsi,
             kind[p] = "sync", pending[p] = i, ~beaten[p], Steps(p),
             Present(i), IsLocal(Existing(i)), Says(Existing(i), plan[p][i])
      PROVE  mongo'[i] = mongo[i]
    <2>1. SameContent(Existing(i), plan[p][i])
        <3> DEFINE d == Existing(i)
                   row == plan[p][i]
        <3>1. [cred |-> d.cred, mode |-> d.mode] = row /\ ~IsRoamer(d)
            BY <1>1 DEF Says, IsLocal
        <3> HIDE DEF d, row
        <3>2. row.cred = d.cred /\ row.mode = d.mode
            BY <3>1
        <3>3. SameContent(d, row)
            BY <3>1, <3>2 DEF SameContent
        <3>4. QED BY <3>3 DEF d, row
    <2>2. i # NoImsi
        BY <1>1, CoreAssumption
    <2>3. FALSE
        BY <1>1, <2>1, <2>2 DEF WatchInv, StillSo
    <2>4. QED BY <2>3
<1>2. WideInv /\ WatchInv /\ [ONext]_ovars =>
        [\A p \in Procs, i \in Imsi :
            /\ kind[p] = "sync" /\ pending[p] = i /\ ~beaten[p] /\ Steps(p)
            /\ Present(i) /\ IsLocal(Existing(i))
            /\ Says(Existing(i), plan[p][i])
            => mongo'[i] = mongo[i]]_vars
    BY <1>1 DEF ONext, ovars, vars
<1>3. QED BY <1>2, Watched, PTL DEF OSpec, OnlyDifferencesWritten

-----------------------------------------------------------------------------
(* One script at a time.                                                    *)

Inv == TypeOK /\ SyncInv

\* A step that is not a script's start while another runs.
StartsAlone == scripts' # scripts => Running = {}

LEMMA NoneRuns ==
    ASSUME StartsAlone, TypeOK, Start, NEW p \in Procs
    PROVE  kind[p] = "idle"
<1>1. scripts' # scripts
    BY CoreAssumption DEF Start, TypeOK
<1>2. QED BY <1>1 DEF StartsAlone, Running

\* While p's script runs, nobody else has anything to write.
LEMMA Alone ==
    ASSUME Inv, NEW p \in Procs, kind[p] # "idle", NEW q \in Procs, q # p
    PROVE  kind[q] = "idle" /\ pending[q] = NoImsi
BY DEF Inv, SyncInv, OneRunner, Plans, TypeOK

LEMMA Shape ==
    ASSUME Inv, NEW i \in Imsi
    PROVE  \/ mongo[i] = <<>> /\ ~Present(i)
           \/ /\ Present(i) /\ Existing(i) \in Doc
              /\ mongo[i] = <<Existing(i)>>
<1>1. mongo[i] \in Seq(Doc) /\ Len(mongo[i]) <= 1
    BY DEF Inv, TypeOK, SyncInv, OnePerImsi
<1>2. CASE mongo[i] = <<>>
    BY <1>2 DEF Present
<1>3. CASE \E d \in Doc : mongo[i] = <<d>>
    BY <1>3, OneDocument DEF Present, Existing
<1>4. QED BY <1>1, <1>2, <1>3, AtMostOne

LEMMA Documents ==
    ASSUME NEW row \in Row, NEW rec \in PolicyRecord
    PROVE  /\ LocalDocOf(row) \in Doc /\ ~IsRoamer(LocalDocOf(row))
           /\ SameContent(LocalDocOf(row), row)
           /\ RoamerDocOf(rec) \in Doc /\ IsRoamer(RoamerDocOf(rec))
BY DEF LocalDocOf, RoamerDocOf, Doc, LocalDoc, RoamerDoc, Row, PolicyRecord, Mode, IsRoamer,
       SameContent

LEMMA InitInv == Init => Inv
<1> SUFFICES ASSUME Init PROVE Inv
    OBVIOUS
<1>1. 0 \in 0..MaxScripts /\ 0 \in 0..MaxEdits
    BY CoreAssumption
<1>2. NoPlan \in [Imsi -> PolicyRecord \cup {NoRow}]
    BY DEF NoPlan
<1>3. mongo \in [Imsi -> Seq(Doc)] /\ \A i \in Imsi : Len(mongo[i]) = 0
    BY DEF Init
<1>4. TypeOK
    BY <1>1, <1>2, <1>3 DEF Init, TypeOK
<1>5. OnePerImsi
    BY <1>3 DEF OnePerImsi
<1>6. OneRunner /\ Plans /\ FoundHolds /\ PassedHolds
    BY DEF Init, OneRunner, Plans, FoundHolds, StillSo, PassedHolds
<1>7. QED BY <1>4, <1>5, <1>6 DEF Inv, SyncInv

\* A script starts, from a list or from records.
LEMMA RunInv ==
    ASSUME StartsAlone, Inv, NEW p \in Procs, NEW k, NEW what, Run(p, k, what),
           \/ k = "sync" /\ what \in Rows
           \/ k = "import" /\ what \in [Imsi -> PolicyRecord \cup {NoRow}]
    PROVE  Inv'
<1>1. \A q \in Procs : kind[q] = "idle" /\ pending[q] = NoImsi
    BY NoneRuns DEF Run, Inv, SyncInv, Plans, TypeOK
<1>2. /\ kind' = [kind EXCEPT ![p] = k] /\ plan' = [plan EXCEPT ![p] = what]
      /\ todo' = [todo EXCEPT ![p] = {i \in Imsi : what[i] # NoRow}]
      /\ UNCHANGED <<store, mongo, pending, found, edits>>
    BY DEF Run
<1>3. scripts' \in 0..MaxScripts
    BY CoreAssumption DEF Run, Start, Inv, TypeOK
<1>4. TypeOK'
    BY <1>2, <1>3 DEF Inv, TypeOK
<1>5. OnePerImsi'
    BY <1>2 DEF Inv, SyncInv, OnePerImsi
<1>6. OneRunner'
    BY <1>1, <1>2 DEF OneRunner, Inv, TypeOK
<1>7. Plans' /\ FoundHolds'
    BY <1>1, <1>2 DEF Plans, FoundHolds, StillSo, Inv, TypeOK
<1>8. PassedHolds'
    BY <1>1, <1>2 DEF PassedHolds, Inv, TypeOK
<1>9. QED BY <1>4, <1>5, <1>6, <1>7, <1>8 DEF Inv, SyncInv

\* A script is over, or dead.
LEMMA QuitInv ==
    ASSUME Inv, NEW p \in Procs, Quit(p), UNCHANGED <<store, scripts, edits>>,
           mongo' \in [Imsi -> Seq(Doc)], OnePerImsi', kind[p] # "idle"
    PROVE  Inv'
<1>1. \A q \in Procs : kind'[q] = "idle" /\ pending'[q] = NoImsi
    BY Alone DEF Quit, Inv, TypeOK
<1>2. NoPlan \in [Imsi -> PolicyRecord \cup {NoRow}]
    BY DEF NoPlan
<1>3. TypeOK'
    BY <1>2 DEF Quit, Inv, TypeOK
<1>4. OneRunner' /\ Plans' /\ FoundHolds' /\ PassedHolds'
    BY <1>1 DEF OneRunner, Plans, FoundHolds, StillSo, PassedHolds
<1>5. QED BY <1>3, <1>4 DEF Inv, SyncInv

\* A lookup after which the script leaves the document alone.
LEMMA SkipInv ==
    ASSUME Inv, NEW p \in Procs, NEW i \in Imsi, NEW k \in {"sync", "import"},
           LooksAt(p, k, i), Skip,
           k = "sync" => /\ Present(i)
                         /\ IsRoamer(Existing(i)) \/ SameContent(Existing(i), plan[p][i])
    PROVE  Inv'
<1>1. /\ kind[p] = k /\ pending[p] = NoImsi /\ todo' = [todo EXCEPT ![p] = @ \ {i}]
      /\ UNCHANGED <<store, mongo, kind, plan, pending, found, scripts, edits>>
    BY DEF LooksAt, Skip
<1>2. TypeOK' /\ OnePerImsi' /\ OneRunner' /\ Plans'
    BY <1>1 DEF Inv, SyncInv, TypeOK, OnePerImsi, OneRunner, Plans
<1>3. \A j \in Imsi : Present(j)' = Present(j) /\ Existing(j)' = Existing(j)
    BY <1>1 DEF Present, Existing
<1>4. FoundHolds'
    BY <1>1, <1>3 DEF Inv, SyncInv, FoundHolds, StillSo, Present, Existing
<1>5. PassedHolds'
    <2> SUFFICES ASSUME NEW q \in Procs, NEW j \in Imsi,
                        kind[q] = "sync", plan[q][j] # NoRow, j \notin todo'[q], j # pending[q]
                 PROVE  /\ Present(j)
                        /\ IsRoamer(Existing(j)) \/ SameContent(Existing(j), plan[q][j])
        BY <1>1, <1>3 DEF PassedHolds
    <2>1. CASE q = p /\ j = i
        BY <1>1, <2>1
    <2>2. CASE ~(q = p /\ j = i)
        <3>1. j \notin todo[q]
            BY <1>1, <2>2 DEF Inv, TypeOK
        <3>2. QED BY <3>1 DEF Inv, SyncInv, PassedHolds
    <2>3. QED BY <2>1, <2>2
<1>6. QED BY <1>2, <1>4, <1>5 DEF Inv, SyncInv

\* A lookup after which it goes on to write.
LEMMA FindInv ==
    ASSUME Inv, NEW p \in Procs, NEW i \in Imsi, NEW k \in {"sync", "import"},
           LooksAt(p, k, i), GoesOnToWrite(p, i),
           k = "sync" /\ Present(i) => /\ ~IsRoamer(Existing(i))
                                       /\ ~SameContent(Existing(i), plan[p][i]),
           k = "import" /\ Present(i) => IsRoamer(Existing(i))
    PROVE  Inv'
<1>1. /\ kind[p] = k /\ pending[p] = NoImsi /\ i \in todo[p]
      /\ todo' = [todo EXCEPT ![p] = @ \ {i}]
      /\ pending' = [pending EXCEPT ![p] = i] /\ found' = [found EXCEPT ![p] = Present(i)]
      /\ UNCHANGED <<store, mongo, kind, plan, scripts, edits>>
    BY DEF LooksAt, GoesOnToWrite
<1>2. Present(i) \in BOOLEAN
    BY DEF Present
<1>3. TypeOK'
    BY <1>1, <1>2 DEF Inv, TypeOK
<1>4. OnePerImsi' /\ OneRunner'
    BY <1>1 DEF Inv, SyncInv, OnePerImsi, OneRunner
<1>5. plan[p][i] # NoRow
    BY <1>1 DEF Inv, TypeOK
<1>6. Plans'
    BY <1>1, <1>5 DEF Inv, SyncInv, TypeOK, Plans
<1>7. \A q \in Procs : q # p => kind'[q] = "idle" /\ pending'[q] = NoImsi
    BY <1>1, Alone DEF Inv, TypeOK
<1>8. pending'[p] = i /\ kind'[p] = k /\ found'[p] = Present(i)
    BY <1>1 DEF Inv, TypeOK
<1>9. \A j \in Imsi : Present(j)' = Present(j) /\ Existing(j)' = Existing(j)
    BY <1>1 DEF Present, Existing
<1>10. FoundHolds'
    <2> SUFFICES ASSUME NEW q \in Procs, pending'[q] # NoImsi
                 PROVE  /\ k = "sync" => /\ found'[p] = Present(i)
                                         /\ Present(i) => /\ ~IsRoamer(Existing(i))
                                                          /\ ~SameContent(Existing(i), plan[p][i])
                        /\ k = "import" /\ Present(i) => IsRoamer(Existing(i))
        BY <1>1, <1>7, <1>8 DEF FoundHolds, StillSo, Present, Existing
    <2>1. QED BY <1>8
<1>11. PassedHolds'
    <2> SUFFICES ASSUME NEW q \in Procs, NEW j \in Imsi,
                        kind[q] = "sync", plan[q][j] # NoRow, j \notin todo'[q], j # pending'[q]
                 PROVE  /\ Present(j)
                        /\ IsRoamer(Existing(j)) \/ SameContent(Existing(j), plan[q][j])
        BY <1>1, <1>9 DEF PassedHolds
    <2>1. q = p
        BY <1>1, <1>7
    <2>2. j \notin todo[q] /\ j # pending[q]
        BY <1>1, <1>8, <2>1, CoreAssumption DEF Inv, TypeOK
    <2>3. QED BY <2>2 DEF Inv, SyncInv, PassedHolds
<1>12. QED BY <1>3, <1>4, <1>6, <1>10, <1>11 DEF Inv, SyncInv

\* What a sync and an import write, and where.
LEMMA SyncWrite ==
    ASSUME Inv, NEW p \in Procs, SyncWrites(p)
    PROVE  LET d == LocalDocOf(plan[p][pending[p]]) IN
           /\ pending[p] \in Imsi /\ plan[p][pending[p]] \in Row
           /\ d \in Doc /\ Writes(p, <<d>>)
<1> DEFINE i == pending[p]
           d == LocalDocOf(plan[p][i])
<1>1. kind[p] = "sync" /\ i # NoImsi /\ i \in Imsi
    BY DEF SyncWrites, Inv, TypeOK
<1>2. plan[p][i] \in Row
    BY <1>1 DEF Inv, SyncInv, Plans, Rows
<1>3. d \in Doc
    BY <1>2 DEF LocalDocOf, Doc, LocalDoc, Row
<1>4. found[p] = Present(i)
    BY <1>1 DEF Inv, SyncInv, FoundHolds, StillSo
<1>5. Writes(p, IF ~found[p] THEN Append(mongo[i], d)
                ELSE IF Present(i) THEN ReplaceFirst(mongo[i], d) ELSE <<>>)
    BY DEF SyncWrites
<1>6. (IF ~found[p] THEN Append(mongo[i], d)
                ELSE IF Present(i) THEN ReplaceFirst(mongo[i], d) ELSE <<>>) = <<d>>
    <2>1. CASE mongo[i] = <<>> /\ ~Present(i)
        BY <1>3, <1>4, <2>1, OneDocument
    <2>2. CASE Present(i) /\ Existing(i) \in Doc /\ mongo[i] = <<Existing(i)>>
        <3>1. ReplaceFirst(mongo[i], d) = <<d>>
            BY <1>3, <2>2, OneDocument
        <3>2. QED BY <1>4, <2>2, <3>1
    <2>3. QED BY <1>1, <2>1, <2>2, Shape
<1>7. QED BY <1>1, <1>2, <1>3, <1>5, <1>6

LEMMA ImportWrite ==
    ASSUME Inv, NEW p \in Procs, ImportWrites(p)
    PROVE  LET d == RoamerDocOf(plan[p][pending[p]]) IN
           /\ pending[p] \in Imsi /\ plan[p][pending[p]] \in PolicyRecord
           /\ d \in Doc /\ Writes(p, <<d>>)
<1> DEFINE i == pending[p]
           d == RoamerDocOf(plan[p][i])
<1>1. kind[p] = "import" /\ i # NoImsi /\ i \in Imsi
    BY DEF ImportWrites, Inv, TypeOK
<1>2. plan[p][i] \in PolicyRecord
    BY <1>1 DEF Inv, SyncInv, Plans
<1>3. d \in Doc
    BY <1>2 DEF RoamerDocOf, Doc, RoamerDoc, PolicyRecord
<1>4. Writes(p, IF Present(i) THEN ReplaceFirst(mongo[i], d) ELSE <<d>>)
    BY DEF ImportWrites
<1>5. (IF Present(i) THEN ReplaceFirst(mongo[i], d) ELSE <<d>>) = <<d>>
    <2>1. CASE Present(i) /\ Existing(i) \in Doc /\ mongo[i] = <<Existing(i)>>
        BY <1>3, <2>1, OneDocument
    <2>2. QED BY <1>1, <2>1, Shape
<1>6. QED BY <1>1, <1>2, <1>3, <1>4, <1>5

LEMMA WriteInv ==
    ASSUME Inv, NEW p \in Procs, kind[p] # "idle", pending[p] \in Imsi, NEW d \in Doc,
           Writes(p, <<d>>), kind[p] = "sync" => SameContent(d, plan[p][pending[p]])
    PROVE  Inv'
<1> DEFINE i == pending[p]
<1>1. /\ mongo' = [mongo EXCEPT ![i] = <<d>>]
      /\ pending' = [pending EXCEPT ![p] = NoImsi] /\ found' = [found EXCEPT ![p] = FALSE]
      /\ UNCHANGED <<store, kind, plan, todo, scripts, edits>>
    BY DEF Writes
<1>2. <<d>> \in Seq(Doc) /\ Len(<<d>>) = 1
    OBVIOUS
<1>3. TypeOK'
    BY <1>1, <1>2 DEF Inv, TypeOK
<1>4. OnePerImsi'
    BY <1>1, <1>2 DEF Inv, SyncInv, TypeOK, OnePerImsi
<1>5. OneRunner'
    BY <1>1 DEF Inv, SyncInv, OneRunner
<1>6. \A q \in Procs : pending'[q] = NoImsi
    BY <1>1, Alone DEF Inv, TypeOK
<1>7. Plans' /\ FoundHolds'
    BY <1>1, <1>6 DEF Inv, SyncInv, Plans, FoundHolds, StillSo
<1>8. PassedHolds'
    <2> SUFFICES ASSUME NEW q \in Procs, NEW j \in Imsi,
                        kind[q] = "sync", plan[q][j] # NoRow, j \notin todo[q]
                 PROVE  /\ Present(j)'
                        /\ IsRoamer(Existing(j)') \/ SameContent(Existing(j)', plan[q][j])
        BY <1>1 DEF PassedHolds, SameContent, IsRoamer
    <2>1. q = p
        BY Alone
    <2>2. CASE j = i
        <3>1. mongo'[j] = <<d>>
            BY <1>1, <2>2 DEF Inv, TypeOK
        <3>2. Present(j)' /\ Existing(j)' = d
            BY <3>1 DEF Present, Existing
        <3>3. QED BY <2>1, <2>2, <3>2
    <2>3. CASE j # i
        <3>1. mongo'[j] = mongo[j]
            BY <1>1, <2>3 DEF Inv, TypeOK
        <3>2. Present(j)' = Present(j) /\ Existing(j)' = Existing(j)
            BY <3>1 DEF Present, Existing
        <3>3. QED BY <2>1, <2>3, <3>2 DEF Inv, SyncInv, PassedHolds
    <2>4. QED BY <2>2, <2>3
<1>9. QED BY <1>3, <1>4, <1>5, <1>7, <1>8 DEF Inv, SyncInv

\* Of the one document of an IMSI, a filter keeps all or nothing.
LEMMA Kept ==
    ASSUME Inv, NEW i \in Imsi
    PROVE  /\ Where(mongo[i], IsRoamer) = IF Present(i) /\ IsRoamer(Existing(i))
                                          THEN mongo[i] ELSE <<>>
           /\ Where(mongo[i], IsLocal) = IF Present(i) /\ ~IsRoamer(Existing(i))
                                         THEN mongo[i] ELSE <<>>
<1>1. CASE mongo[i] = <<>> /\ ~Present(i)
    BY <1>1, WhereEmpty
<1>2. CASE Present(i) /\ mongo[i] = <<Existing(i)>>
    <2> DEFINE d == Existing(i)
    <2>1. mongo[i] = <<d>>
        BY <1>2
    <2> HIDE DEF d
    <2>2. /\ Where(mongo[i], IsRoamer) = IF IsRoamer(d) THEN mongo[i] ELSE <<>>
          /\ Where(mongo[i], IsLocal) = IF IsRoamer(d) THEN <<>> ELSE mongo[i]
        BY <2>1, WhereOne
    <2>3. QED BY <1>2, <2>2 DEF d
<1>3. QED BY <1>1, <1>2, Shape

LEMMA DeletesInv ==
    ASSUME Inv, NEW p \in Procs, SyncDeletes(p)
    PROVE  Inv'
<1>1. /\ kind[p] = "sync" /\ Quit(p) /\ UNCHANGED <<store, scripts, edits>>
      /\ mongo' = [i \in Imsi |-> IF plan[p][i] = NoRow
                                  THEN Where(mongo[i], IsRoamer) ELSE mongo[i]]
    BY DEF SyncDeletes
<1>2. \A i \in Imsi : mongo'[i] = mongo[i] \/ mongo'[i] = <<>>
    BY <1>1, Kept, Zenon
<1>3. \A i \in Imsi : mongo[i] \in Seq(Doc) /\ Len(mongo[i]) <= 1
    BY DEF Inv, TypeOK, SyncInv, OnePerImsi
<1>4. \A i \in Imsi : mongo'[i] \in Seq(Doc) /\ Len(mongo'[i]) <= 1
    <2>1. <<>> \in Seq(Doc) /\ Len(<<>>) <= 1
        OBVIOUS
    <2>2. QED BY <1>2, <1>3, <2>1
<1>5. mongo' \in [Imsi -> Seq(Doc)]
    BY <1>1, <1>4
<1>6. OnePerImsi'
    BY <1>4 DEF OnePerImsi
<1>7. QED BY <1>1, <1>5, <1>6, QuitInv

LEMMA KillInv ==
    ASSUME Inv, NEW p \in Procs, Kill(p) \/ ImportEnds(p)
    PROVE  Inv'
<1>1. Quit(p) /\ kind[p] # "idle" /\ UNCHANGED <<store, mongo, scripts, edits>>
    BY DEF Kill, ImportEnds
<1>2. mongo' \in [Imsi -> Seq(Doc)]
    BY <1>1 DEF Inv, TypeOK
<1>3. OnePerImsi'
    BY <1>1 DEF Inv, SyncInv, OnePerImsi
<1>4. QED BY <1>1, <1>2, <1>3, QuitInv

\* Only documents change, and no script is waiting to write.
LEMMA RemoveInv ==
    ASSUME StartsAlone, Inv, NEW p \in Procs, NEW i \in Imsi, RoamingRemove(p, i)
    PROVE  Inv'
<1>1. /\ Start /\ UNCHANGED <<store, procVars, edits>>
      /\ \E k \in DOMAIN mongo[i] : mongo' = [mongo EXCEPT ![i] = RemoveAt(@, k)]
    BY DEF RoamingRemove
<1>2. mongo' = [mongo EXCEPT ![i] = <<>>]
    <2>1. PICK k \in DOMAIN mongo[i] : mongo' = [mongo EXCEPT ![i] = RemoveAt(@, k)]
        BY <1>1
    <2>2. PICK d \in Doc : mongo[i] = <<d>>
        BY <2>1, Shape
    <2>3. k = 1
        BY <2>1, <2>2
    <2>4. RemoveAt(<<d>>, 1) = <<>>
        BY DEF RemoveAt
    <2>5. RemoveAt(mongo[i], k) = <<>>
        BY <2>2, <2>3, <2>4
    <2>6. QED BY <2>1, <2>5
<1>3. \A q \in Procs : kind[q] = "idle" /\ pending[q] = NoImsi
    BY <1>1, NoneRuns DEF Inv, SyncInv, Plans, TypeOK
<1>4. scripts' \in 0..MaxScripts
    BY <1>1, CoreAssumption DEF Start, Inv, TypeOK
<1>5. <<>> \in Seq(Doc) /\ Len(<<>>) <= 1
    OBVIOUS
<1>6. TypeOK'
    BY <1>1, <1>2, <1>4, <1>5 DEF procVars, Inv, TypeOK
<1>7. OnePerImsi'
    BY <1>2, <1>5 DEF Inv, SyncInv, TypeOK, OnePerImsi
<1>8. OneRunner' /\ Plans' /\ FoundHolds' /\ PassedHolds'
    BY <1>1, <1>3 DEF procVars, OneRunner, Plans, FoundHolds, StillSo, PassedHolds, Inv, SyncInv
<1>9. QED BY <1>6, <1>7, <1>8 DEF Inv, SyncInv

LEMMA EditInv ==
    ASSUME Inv, LocalEdit
    PROVE  Inv'
<1>1. Local!Command /\ UNCHANGED <<mongo, procVars, scripts>>
    BY DEF LocalEdit
<1>2. store' \in Rows
    <2>1. store \in Rows
        BY DEF Inv, TypeOK
    <2>2. QED BY <1>1, <2>1 DEF Local!Command, Local!Insert, Local!SetMode, Local!Delete,
                             Local!Row, Local!Mode, Rows, Row, Mode
<1>3. edits' \in 0..MaxEdits
    BY CoreAssumption DEF LocalEdit, Inv, TypeOK
<1>4. TypeOK'
    BY <1>1, <1>2, <1>3 DEF procVars, Inv, TypeOK
<1>5. QED BY <1>1, <1>4 DEF procVars, Inv, SyncInv, OnePerImsi, OneRunner, Plans, FoundHolds,
                         StillSo, PassedHolds, Present, Existing

\* Open5GS's keys are not part of a document's content.
LEMMA AttachInv ==
    ASSUME Inv, NEW i \in Imsi, Attach(i)
    PROVE  Inv'
<1> DEFINE d == [Existing(i) EXCEPT !.used = TRUE]
<1>1. /\ Present(i) /\ ~IsRoamer(Existing(i))
      /\ mongo' = [mongo EXCEPT ![i] = ReplaceFirst(@, d)]
      /\ UNCHANGED <<store, procVars, scripts, edits>>
    BY DEF Attach
<1>2. Existing(i) \in LocalDoc /\ mongo[i] = <<Existing(i)>>
    <2>1. Existing(i) \in Doc /\ mongo[i] = <<Existing(i)>>
        BY <1>1, Shape
    <2>2. QED BY <1>1, <2>1 DEF Doc, RoamerDoc, IsRoamer
<1>3. /\ d \in Doc /\ ~IsRoamer(d)
      /\ d.kind = Existing(i).kind /\ d.cred = Existing(i).cred /\ d.mode = Existing(i).mode
    BY <1>2 DEF LocalDoc, Doc, IsRoamer
<1> HIDE DEF d
<1>4. mongo' = [mongo EXCEPT ![i] = <<d>>]
    <2>1. ReplaceFirst(mongo[i], d) = <<d>>
        BY <1>2, <1>3, OneDocument DEF Doc
    <2>2. QED BY <1>1, <2>1
<1>5. <<d>> \in Seq(Doc) /\ Len(<<d>>) <= 1
    BY <1>3
<1>6. TypeOK' /\ OnePerImsi'
    BY <1>1, <1>4, <1>5 DEF procVars, Inv, TypeOK, SyncInv, OnePerImsi
<1>7. \A j \in Imsi :
        /\ Present(j)' = Present(j)
        /\ Existing(j)'.kind = Existing(j).kind /\ Existing(j)'.cred = Existing(j).cred
        /\ Existing(j)'.mode = Existing(j).mode
    <2> TAKE j \in Imsi
    <2>1. CASE j = i
        <3>1. mongo'[i] = <<d>>
            BY <1>4 DEF Inv, TypeOK
        <3>2. Present(i)' /\ Existing(i)' = d
            BY <3>1 DEF Present, Existing
        <3>3. QED BY <1>1, <1>3, <2>1, <3>2
    <2>2. CASE j # i
        BY <1>4, <2>2 DEF Inv, TypeOK, Present, Existing
    <2>3. QED BY <2>1, <2>2
<1>8. \A j \in Imsi : \A row :
        /\ IsRoamer(Existing(j)') = IsRoamer(Existing(j))
        /\ SameContent(Existing(j)', row) = SameContent(Existing(j), row)
    BY <1>7 DEF IsRoamer, SameContent
<1>9. OneRunner' /\ Plans'
    BY <1>1 DEF procVars, Inv, SyncInv, OneRunner, Plans
<1>10. FoundHolds'
    <2>1. ASSUME NEW p \in Procs, NEW j \in Imsi, pending[p] # NoImsi, j = pending[p]
          PROVE  /\ kind[p] = "sync" =>
                       /\ found[p] = Present(j)'
                       /\ Present(j)' => /\ ~IsRoamer(Existing(j)')
                                         /\ ~SameContent(Existing(j)', plan[p][j])
                 /\ kind[p] = "import" /\ Present(j)' => IsRoamer(Existing(j)')
        BY <1>7, <1>8, <2>1 DEF Inv, SyncInv, FoundHolds, StillSo
    <2>2. \A p \in Procs : pending[p] # NoImsi => pending[p] \in Imsi
        BY DEF Inv, TypeOK
    <2>3. QED
        BY <1>1, <2>1, <2>2 DEF procVars, FoundHolds, StillSo, SameContent, IsRoamer, Present,
                                Existing
<1>11. PassedHolds'
    <2> SUFFICES ASSUME NEW p \in Procs, NEW j \in Imsi, kind[p] = "sync",
                        plan[p][j] # NoRow, j \notin todo[p], j # pending[p]
                 PROVE  /\ Present(j)'
                        /\ IsRoamer(Existing(j)') \/ SameContent(Existing(j)', plan[p][j])
        BY <1>1 DEF procVars, PassedHolds, SameContent, IsRoamer
    <2>1. QED BY <1>7, <1>8 DEF Inv, SyncInv, PassedHolds
<1>12. QED BY <1>6, <1>9, <1>10, <1>11 DEF Inv, SyncInv

LEMMA StutterInv == Inv /\ UNCHANGED vars => Inv'
BY DEF vars, Inv, TypeOK, SyncInv, OnePerImsi, OneRunner, Plans, FoundHolds, StillSo, PassedHolds,
       Present, Existing

LEMMA StepInv ==
    ASSUME StartsAlone, Inv, [Next]_vars
    PROVE  Inv'
<1>1. ASSUME NEW p \in Procs, SyncStarts(p) PROVE Inv'
    BY <1>1, RunInv DEF SyncStarts, Inv, TypeOK
<1>2. ASSUME NEW p \in Procs, ImportStarts(p) PROVE Inv'
    BY <1>2, RunInv DEF ImportStarts
<1>3. ASSUME NEW p \in Procs, SyncWrites(p) PROVE Inv'
    <2>1. SameContent(LocalDocOf(plan[p][pending[p]]), plan[p][pending[p]])
        BY DEF SameContent, LocalDocOf, IsRoamer
    <2>2. kind[p] = "sync"
        BY <1>3 DEF SyncWrites
    <2>3. QED BY <1>3, <2>1, <2>2, SyncWrite, WriteInv
<1>4. ASSUME NEW p \in Procs, ImportWrites(p) PROVE Inv'
    <2>1. kind[p] = "import"
        BY <1>4 DEF ImportWrites
    <2>2. QED BY <1>4, <2>1, ImportWrite, WriteInv
<1>5. ASSUME NEW p \in Procs, SyncDeletes(p) PROVE Inv'
    BY <1>5, DeletesInv
<1>6. ASSUME NEW p \in Procs, Kill(p) \/ ImportEnds(p) PROVE Inv'
    BY <1>6, KillInv
<1>7. ASSUME NEW p \in Procs, NEW i \in Imsi, SyncLeaves(p, i) \/ ImportRefuses(p, i)
      PROVE Inv'
    BY <1>7, SkipInv DEF SyncLeaves, ImportRefuses
<1>8. ASSUME NEW p \in Procs, NEW i \in Imsi, SyncFinds(p, i) \/ ImportFinds(p, i)
      PROVE Inv'
    BY <1>8, FindInv DEF SyncFinds, ImportFinds
<1>9. ASSUME NEW p \in Procs, NEW i \in Imsi, RoamingRemove(p, i) PROVE Inv'
    BY <1>9, RemoveInv
<1>10. ASSUME NEW i \in Imsi, Attach(i) PROVE Inv'
    BY <1>10, AttachInv
<1>11. CASE LocalEdit
    BY <1>11, EditInv
<1>12. CASE UNCHANGED vars
    BY <1>12, StutterInv
<1>13. QED
    BY <1>1, <1>2, <1>3, <1>4, <1>5, <1>6, <1>7, <1>8, <1>9, <1>10, <1>11, <1>12 DEF Next

\* Scripts that never overlapped keep the invariant.
LEMMA ApartInv == (~overlapped => Inv) /\ [ONext]_ovars => (~overlapped' => Inv')
<1> SUFFICES ASSUME ~overlapped => Inv, [ONext]_ovars, ~overlapped' PROVE Inv'
    OBVIOUS
<1>1. CASE ONext
    <2>1. ~overlapped /\ StartsAlone
        BY <1>1 DEF ONext, StartsAlone
    <2>2. QED BY <1>1, <2>1, StepInv DEF ONext
<1>2. CASE UNCHANGED ovars
    BY <1>2, StutterInv DEF ovars
<1>3. QED BY <1>1, <1>2

THEOREM CoreInvariant == OSpec => [](~overlapped => Inv)
<1>1. OInit => Inv
    BY InitInv DEF OInit
<1>2. QED BY <1>1, ApartInv, PTL DEF OSpec

\* Until two scripts overlap, an IMSI never has two documents, however many are
\* killed and run again (sync.py:206-221, roaming.py:185-205).
THEOREM OneDocumentEach == OSpec => []OneUntilOverlap
<1>1. (~overlapped => Inv) => OneUntilOverlap
    BY DEF Inv, SyncInv, OneUntilOverlap
<1>2. QED BY <1>1, CoreInvariant, PTL

-----------------------------------------------------------------------------
(* What a sync leaves.                                                      *)

\* Whoever attaches, edits or imports in between, a sync that ends has made the
\* collection say what its list says, until two scripts overlap
\* (sync.py:187-195, 206-212).
THEOREM SyncMirrors == OSpec => MirrorAfterSync
<1>1. ASSUME Inv, NEW p \in Procs, SyncDeletes(p), NEW i \in Imsi
      PROVE  LET docs == Where(mongo'[i], IsLocal) IN
             \/ mongo'[i] # <<>> /\ IsRoamer(Head(mongo'[i]))
             \/ plan[p][i] = NoRow /\ docs = <<>>
             \/ /\ plan[p][i] # NoRow
                /\ Len(docs) = 1 /\ Says(docs[1], plan[p][i])
    <2>1. /\ kind[p] = "sync" /\ todo[p] = {} /\ pending[p] = NoImsi
          /\ mongo'[i] = IF plan[p][i] = NoRow THEN Where(mongo[i], IsRoamer) ELSE mongo[i]
        BY <1>1 DEF SyncDeletes
    <2>2. CASE plan[p][i] = NoRow
        <3>1. CASE Present(i) /\ IsRoamer(Existing(i))
            BY <1>1, <2>1, <2>2, <3>1, Kept DEF Present, Existing
        <3>2. CASE ~(Present(i) /\ IsRoamer(Existing(i)))
            <4>1. mongo'[i] = <<>>
                BY <1>1, <2>1, <2>2, <3>2, Kept
            <4>2. QED BY <2>2, <4>1, WhereEmpty
        <3>3. QED BY <3>1, <3>2
    <2>3. CASE plan[p][i] # NoRow
        <3>1. mongo'[i] = mongo[i]
            BY <2>1, <2>3
        <3>2. /\ Present(i)
              /\ IsRoamer(Existing(i)) \/ SameContent(Existing(i), plan[p][i])
            BY <1>1, <2>1, <2>3, CoreAssumption DEF Inv, SyncInv, PassedHolds
        <3>3. CASE IsRoamer(Existing(i))
            BY <3>1, <3>2, <3>3 DEF Present, Existing
        <3>4. CASE ~IsRoamer(Existing(i))
            <4>1. Where(mongo[i], IsLocal) = mongo[i]
                BY <1>1, <3>2, <3>4, Kept
            <4>2. mongo[i] = <<Existing(i)>> /\ Existing(i) \in Doc
                BY <1>1, <3>2, Shape
            <4>3. Len(mongo[i]) = 1 /\ mongo[i][1] = Existing(i)
                BY <4>2, OneDocument
            <4>4. plan[p][i] \in Row
                BY <1>1, <2>1, <2>3 DEF Inv, SyncInv, Plans, Rows
            <4>5. Says(Existing(i), plan[p][i])
                BY <3>2, <3>4, <4>4 DEF SameContent, Says, Row
            <4>6. QED BY <2>3, <3>1, <4>1, <4>3, <4>5
        <3>5. QED BY <3>3, <3>4
    <2>4. QED BY <2>2, <2>3
<1>2. (~overlapped => Inv) => \A p \in Procs :
          ~overlapped /\ SyncDeletes(p) =>
          \A i \in Imsi :
             LET docs == Docs(mongo', IsLocal)[i] IN
             \/ mongo'[i] # <<>> /\ IsRoamer(Head(mongo'[i]))
             \/ plan[p][i] = NoRow /\ docs = <<>>
             \/ /\ plan[p][i] # NoRow
                /\ Len(docs) = 1 /\ Says(docs[1], plan[p][i])
    BY <1>1 DEF Docs
<1>3. QED BY <1>2, CoreInvariant, PTL DEF OSpec, MirrorAfterSync

-----------------------------------------------------------------------------
(* The collection implements Registry.                                      *)

\* What a document shows of itself in the two tables.
LEMMA Shown ==
    ASSUME NEW d \in Doc
    PROVE  /\ ~IsRoamer(d) => [cred |-> d.cred, mode |-> d.mode] \in Row
           /\ [mode |-> d.mode] \in PolicyRecord
<1>1. d \in LocalDoc \/ d \in RoamerDoc
    BY DEF Doc
<1>2. CASE d \in LocalDoc
    BY <1>2 DEF LocalDoc, Row, PolicyRecord
<1>3. CASE d \in RoamerDoc
    BY <1>3 DEF RoamerDoc, PolicyRecord, IsRoamer
<1>4. QED BY <1>1, <1>2, <1>3

\* With no two scripts at a time, the list is that of the one sync there is.
OneList ==
    /\ \A p \in Procs : kind[p] = "sync" => syncingBar /\ listBar = plan[p]
    /\ (\A p \in Procs : kind[p] # "sync") => ~syncingBar /\ listBar = NoPlan

LEMMA InvOneList == Inv => OneList
<1> SUFFICES ASSUME Inv PROVE OneList
    OBVIOUS
<1>1. ASSUME NEW p \in Procs, kind[p] = "sync" PROVE syncingBar /\ listBar = plan[p]
    <2>1. syncingBar
        BY <1>1 DEF syncingBar
    <2>2. \A q \in Procs : kind[q] = "sync" => q = p
        BY <1>1 DEF Inv, SyncInv, OneRunner
    <2>3. (CHOOSE q \in Procs : kind[q] = "sync") = p
        BY <1>1, <2>2, Zenon
    <2>4. QED BY <2>1, <2>3 DEF listBar
<1>2. ASSUME \A p \in Procs : kind[p] # "sync" PROVE ~syncingBar /\ listBar = NoPlan
    BY <1>2 DEF syncingBar, listBar
<1>3. QED BY <1>1, <1>2 DEF OneList

\* A step that leaves all documents alone leaves the tables alone.
LEMMA SameTables ==
    ASSUME UNCHANGED mongo
    PROVE  UNCHANGED <<oursBar, guestsBar>>
BY DEF oursBar, guestsBar, HasLocal, HasRoamer, Present, Existing

LEMMA SameList ==
    ASSUME UNCHANGED <<kind, plan>>
    PROVE  UNCHANGED <<syncingBar, listBar>>
BY DEF syncingBar, listBar

\* A write shows in the table its document belongs to.
LEMMA WriteShows ==
    ASSUME Inv, NEW j \in Imsi, NEW d \in Doc, mongo' = [mongo EXCEPT ![j] = <<d>>]
    PROVE  /\ oursBar' = [oursBar EXCEPT ![j] =
                 IF IsRoamer(d) THEN NoRow ELSE [cred |-> d.cred, mode |-> d.mode]]
           /\ guestsBar' = [guestsBar EXCEPT ![j] =
                 IF IsRoamer(d) THEN [mode |-> d.mode] ELSE NoRow]
<1>1. mongo'[j] = <<d>> /\ \A i \in Imsi : i # j => mongo'[i] = mongo[i]
    BY DEF Inv, TypeOK
<1>2. Present(j)' /\ Existing(j)' = d
    BY <1>1 DEF Present, Existing
<1>3. /\ oursBar'[j] = IF IsRoamer(d) THEN NoRow ELSE [cred |-> d.cred, mode |-> d.mode]
      /\ guestsBar'[j] = IF IsRoamer(d) THEN [mode |-> d.mode] ELSE NoRow
    BY <1>2 DEF oursBar, guestsBar, HasLocal, HasRoamer, IsLocal
<1>4. \A i \in Imsi : i # j => oursBar'[i] = oursBar[i] /\ guestsBar'[i] = guestsBar[i]
    BY <1>1 DEF oursBar, guestsBar, HasLocal, HasRoamer, Present, Existing
<1>5. /\ DOMAIN oursBar = Imsi /\ DOMAIN oursBar' = Imsi
      /\ DOMAIN guestsBar = Imsi /\ DOMAIN guestsBar' = Imsi
      /\ oursBar = [i \in Imsi |-> oursBar[i]] /\ oursBar' = [i \in Imsi |-> oursBar'[i]]
      /\ guestsBar = [i \in Imsi |-> guestsBar[i]]
      /\ guestsBar' = [i \in Imsi |-> guestsBar'[i]]
    BY DEF oursBar, guestsBar
<1>6. QED BY <1>3, <1>4, <1>5

LEMMA InitRegistry == Init /\ overlapped = FALSE => Collection!Init
<1> SUFFICES ASSUME Init, overlapped = FALSE PROVE Collection!Init
    OBVIOUS
<1>1. \A i \in Imsi : ~Present(i)
    BY DEF Init, Present
<1>2. oursBar = NoPlan /\ guestsBar = NoPlan
    BY <1>1 DEF oursBar, guestsBar, HasLocal, HasRoamer, NoPlan
<1>3. \A p \in Procs : kind[p] # "sync"
    BY DEF Init
<1>4. ~syncingBar /\ listBar = NoPlan
    BY <1>3 DEF syncingBar, listBar
<1>5. store \in Rows
    BY DEF Init
<1>6. QED
    BY <1>2, <1>4, <1>5
       DEF Collection!Init, Collection!Nobody, Collection!Rows, Collection!Row,
           Collection!Mode, Rows, Row, Mode, NoPlan

\* A sync's write is a row put into the own table.
LEMMA WritePuts ==
    ASSUME Inv, NEW p \in Procs, SyncWrites(p)
    PROVE  \E i \in Imsi : Collection!Put(i)
<1> DEFINE j == pending[p]
           row == plan[p][j]
           d == LocalDocOf(row)
<1>1. /\ j \in Imsi /\ row \in Row /\ d \in Doc
      /\ mongo' = [mongo EXCEPT ![j] = <<d>>] /\ UNCHANGED <<store, kind, plan>>
    BY SyncWrite DEF Writes
<1>2. kind[p] = "sync" /\ pending[p] # NoImsi
    BY DEF SyncWrites
<1>3. syncingBar /\ listBar = plan[p] /\ UNCHANGED <<syncingBar, listBar>>
    BY <1>1, <1>2, InvOneList, SameList DEF OneList
<1>4. Present(j) => ~IsRoamer(Existing(j)) /\ ~SameContent(Existing(j), row)
    BY <1>2 DEF Inv, SyncInv, FoundHolds, StillSo
<1>5. guestsBar[j] = NoRow
    BY <1>1, <1>4 DEF guestsBar, HasRoamer
<1>6. row # NoRow
    BY <1>1, CoreAssumption
<1>7. oursBar[j] # row
    <2>1. CASE Present(j)
        <3>1. oursBar[j] = [cred |-> Existing(j).cred, mode |-> Existing(j).mode]
            BY <1>1, <1>4, <2>1 DEF oursBar, HasLocal, IsLocal
        <3>2. Existing(j).cred # row.cred \/ Existing(j).mode # row.mode
            BY <1>4, <2>1 DEF SameContent
        <3>3. QED BY <3>1, <3>2
    <2>2. CASE ~Present(j)
        BY <1>1, <1>6, <2>2 DEF oursBar, HasLocal
    <2>3. QED BY <2>1, <2>2
<1>8. ~IsRoamer(d) /\ [cred |-> d.cred, mode |-> d.mode] = row
    BY <1>1 DEF LocalDocOf, IsRoamer, Row
<1>9. oursBar' = [oursBar EXCEPT ![j] = row] /\ guestsBar' = [guestsBar EXCEPT ![j] = NoRow]
    <2> HIDE DEF d, j, row
    <2>1. /\ oursBar' = [oursBar EXCEPT ![j] =
                IF IsRoamer(d) THEN NoRow ELSE [cred |-> d.cred, mode |-> d.mode]]
          /\ guestsBar' = [guestsBar EXCEPT ![j] =
                IF IsRoamer(d) THEN [mode |-> d.mode] ELSE NoRow]
        BY <1>1, WriteShows
    <2>2. QED BY <1>8, <2>1
<1>10. guestsBar' = guestsBar
    BY <1>5, <1>9 DEF guestsBar
<1>11. Collection!Put(j)
    BY <1>1, <1>3, <1>5, <1>6, <1>7, <1>9, <1>10 DEF Collection!Put
<1>12. QED BY <1>1, <1>11

\* An import's write is a guest let in.
LEMMA WriteAdmits ==
    ASSUME Inv, NEW p \in Procs, ImportWrites(p)
    PROVE  \E i \in Imsi : \E policy \in Collection!PolicyRecord : Collection!Admit(i, policy)
<1> DEFINE j == pending[p]
           rec == plan[p][j]
           d == RoamerDocOf(rec)
<1>1. /\ j \in Imsi /\ rec \in PolicyRecord /\ d \in Doc
      /\ mongo' = [mongo EXCEPT ![j] = <<d>>] /\ UNCHANGED <<store, kind, plan>>
    BY ImportWrite DEF Writes
<1>2. kind[p] = "import" /\ pending[p] # NoImsi
    BY DEF ImportWrites
<1>3. \A q \in Procs : kind[q] # "sync"
    BY <1>2, Alone
<1>4. ~syncingBar /\ UNCHANGED <<syncingBar, listBar>>
    BY <1>1, <1>3, InvOneList, SameList DEF OneList
<1>5. Present(j) => IsRoamer(Existing(j))
    BY <1>2 DEF Inv, SyncInv, FoundHolds, StillSo
<1>6. oursBar[j] = NoRow
    BY <1>1, <1>5 DEF oursBar, HasLocal, IsLocal
<1>7. IsRoamer(d) /\ [mode |-> d.mode] = rec
    BY <1>1 DEF RoamerDocOf, IsRoamer, PolicyRecord
<1>8. guestsBar' = [guestsBar EXCEPT ![j] = rec] /\ oursBar' = [oursBar EXCEPT ![j] = NoRow]
    BY <1>1, <1>7, WriteShows
<1>9. oursBar' = oursBar
    BY <1>6, <1>8 DEF oursBar
<1>10. Collection!Admit(j, rec)
    BY <1>1, <1>4, <1>6, <1>8, <1>9 DEF Collection!Admit
<1>11. rec \in Collection!PolicyRecord
    BY <1>1 DEF PolicyRecord, Mode, Collection!PolicyRecord, Collection!Mode
<1>12. QED BY <1>1, <1>10, <1>11

\* A sync that gets to its end finishes.
LEMMA DeleteFinishes ==
    ASSUME StartsAlone, Inv, Inv', NEW p \in Procs, SyncDeletes(p)
    PROVE  Collection!Finish
<1>1. /\ kind[p] = "sync" /\ todo[p] = {} /\ pending[p] = NoImsi
      /\ Quit(p) /\ UNCHANGED store
      /\ mongo' = [i \in Imsi |-> IF plan[p][i] = NoRow
                                  THEN Where(mongo[i], IsRoamer) ELSE mongo[i]]
    BY DEF SyncDeletes
<1>2. syncingBar /\ listBar = plan[p]
    BY <1>1, InvOneList DEF OneList
<1>3. \A q \in Procs : kind'[q] # "sync"
    BY <1>1, Alone DEF Quit, Inv, TypeOK
<1>4. ~syncingBar' /\ listBar' = NoPlan
    <2>1. OneList'
        BY InvOneList, PTL
    <2>2. QED BY <1>3, <2>1 DEF OneList
<1>5. ASSUME NEW i \in Imsi
      PROVE  /\ plan[p][i] # NoRow /\ guestsBar[i] = NoRow => oursBar[i] = plan[p][i]
             /\ oursBar'[i] = IF plan[p][i] = NoRow THEN NoRow ELSE oursBar[i]
             /\ guestsBar'[i] = guestsBar[i]
    <2>1. mongo'[i] = IF plan[p][i] = NoRow THEN Where(mongo[i], IsRoamer) ELSE mongo[i]
        BY <1>1
    <2>2. CASE plan[p][i] # NoRow
        <3>1. Present(i)' = Present(i) /\ Existing(i)' = Existing(i)
            BY <2>1, <2>2 DEF Present, Existing
        <3>2. oursBar'[i] = oursBar[i] /\ guestsBar'[i] = guestsBar[i]
            BY <3>1 DEF oursBar, guestsBar, HasLocal, HasRoamer
        <3>3. /\ Present(i) /\ Existing(i) \in Doc
              /\ IsRoamer(Existing(i)) \/ SameContent(Existing(i), plan[p][i])
            BY <1>1, <2>2, Shape, CoreAssumption DEF Inv, SyncInv, PassedHolds
        <3>4. CASE IsRoamer(Existing(i))
            <4>1. guestsBar[i] = [mode |-> Existing(i).mode]
                BY <3>3, <3>4 DEF guestsBar, HasRoamer
            <4>2. guestsBar[i] # NoRow
                BY <3>3, <4>1, Shown, CoreAssumption
            <4>3. QED BY <2>2, <3>2, <4>2
        <3>5. CASE ~IsRoamer(Existing(i))
            <4>1. oursBar[i] = [cred |-> Existing(i).cred, mode |-> Existing(i).mode]
                BY <3>3, <3>5 DEF oursBar, HasLocal, IsLocal
            <4>2. plan[p][i] \in Row
                BY <1>1, <2>2 DEF Inv, SyncInv, Plans, Rows
            <4>3. Existing(i).cred = plan[p][i].cred /\ Existing(i).mode = plan[p][i].mode
                BY <3>3, <3>5 DEF SameContent
            <4>4. oursBar[i] = plan[p][i]
                BY <4>1, <4>2, <4>3 DEF Row
            <4>5. QED BY <2>2, <3>2, <4>4
        <3>6. QED BY <3>4, <3>5
    <2>3. CASE plan[p][i] = NoRow
        <3>1. CASE HasRoamer(i)
            <4>1. mongo'[i] = mongo[i]
                <5>1. Where(mongo[i], IsRoamer) = mongo[i]
                    BY <3>1, Kept DEF HasRoamer
                <5>2. QED BY <2>1, <5>1
            <4>2. Present(i)' = Present(i) /\ Existing(i)' = Existing(i)
                BY <4>1 DEF Present, Existing
            <4>3. QED
                BY <2>3, <3>1, <4>2 DEF oursBar, guestsBar, HasLocal, HasRoamer, IsLocal
        <3>2. CASE ~HasRoamer(i)
            <4>1. mongo'[i] = <<>>
                <5>1. Where(mongo[i], IsRoamer) = <<>>
                    BY <3>2, Kept DEF HasRoamer
                <5>2. QED BY <2>1, <2>3, <5>1
            <4>2. ~Present(i)'
                BY <4>1 DEF Present
            <4>3. QED BY <2>3, <3>2, <4>2 DEF oursBar, guestsBar, HasLocal, HasRoamer
        <3>3. QED BY <3>1, <3>2
    <2>4. QED BY <2>2, <2>3
<1>6. oursBar' = [i \in Imsi |-> IF listBar[i] = NoRow THEN NoRow ELSE oursBar[i]]
    <2>1. oursBar' = [i \in Imsi |-> oursBar'[i]]
        BY DEF oursBar
    <2>2. QED BY <1>2, <1>5, <2>1
<1>7. guestsBar' = guestsBar
    <2>1. guestsBar' = [i \in Imsi |-> guestsBar'[i]] /\ guestsBar = [i \in Imsi |-> guestsBar[i]]
        BY DEF guestsBar
    <2>2. QED BY <1>5, <2>1
<1>8. QED
    BY <1>1, <1>2, <1>4, <1>5, <1>6, <1>7
       DEF Collection!Finish, Collection!Nobody, NoPlan

LEMMA RemoveDismisses ==
    ASSUME StartsAlone, Inv, NEW p \in Procs, NEW i \in Imsi, RoamingRemove(p, i)
    PROVE  Collection!Dismiss(i)
<1>1. Start /\ UNCHANGED <<store, procVars, edits>>
    BY DEF RoamingRemove
<1>2. PICK k \in DOMAIN mongo[i] :
        IsRoamer(mongo[i][k]) /\ mongo' = [mongo EXCEPT ![i] = RemoveAt(@, k)]
    BY DEF RoamingRemove
<1>3. Present(i) /\ Existing(i) \in Doc /\ mongo[i] = <<Existing(i)>>
    BY <1>2, Shape
<1>4. k = 1 /\ IsRoamer(Existing(i))
    BY <1>2, <1>3
<1>5. mongo' = [mongo EXCEPT ![i] = <<>>]
    <2>1. RemoveAt(<<Existing(i)>>, 1) = <<>>
        BY DEF RemoveAt
    <2>2. RemoveAt(mongo[i], k) = <<>>
        BY <1>3, <1>4, <2>1
    <2>3. QED BY <1>2, <2>2
<1>6. mongo'[i] = <<>> /\ \A j \in Imsi : j # i => mongo'[j] = mongo[j]
    BY <1>5 DEF Inv, TypeOK
<1>7. ~Present(i)'
    BY <1>6 DEF Present
<1>8. oursBar' = oursBar
    <2>1. \A j \in Imsi : oursBar'[j] = oursBar[j]
        <3> TAKE j \in Imsi
        <3>1. CASE j = i
            BY <1>3, <1>4, <1>7, <3>1 DEF oursBar, HasLocal, IsLocal
        <3>2. CASE j # i
            BY <1>6, <3>2 DEF oursBar, HasLocal, Present, Existing
        <3>3. QED BY <3>1, <3>2
    <2>2. oursBar' = [j \in Imsi |-> oursBar'[j]] /\ oursBar = [j \in Imsi |-> oursBar[j]]
        BY DEF oursBar
    <2>3. QED BY <2>1, <2>2
<1>9. guestsBar' = [guestsBar EXCEPT ![i] = NoRow]
    <2>1. \A j \in Imsi : j # i => guestsBar'[j] = guestsBar[j]
        BY <1>6 DEF guestsBar, HasRoamer, Present, Existing
    <2>2. guestsBar'[i] = NoRow
        BY <1>7 DEF guestsBar, HasRoamer
    <2>3. guestsBar' = [j \in Imsi |-> guestsBar'[j]] /\ guestsBar = [j \in Imsi |-> guestsBar[j]]
        BY DEF guestsBar
    <2>4. QED BY <2>1, <2>2, <2>3
<1>10. guestsBar[i] # NoRow
    <2>1. guestsBar[i] = [mode |-> Existing(i).mode]
        BY <1>3, <1>4 DEF guestsBar, HasRoamer
    <2>2. QED BY <1>3, <2>1, Shown, CoreAssumption
<1>11. \A q \in Procs : kind[q] # "sync"
    BY <1>1, NoneRuns DEF Inv, SyncInv, TypeOK
<1>12. ~syncingBar /\ UNCHANGED <<syncingBar, listBar>>
    BY <1>1, <1>11, InvOneList, SameList DEF OneList, procVars
<1>13. QED
    BY <1>1, <1>8, <1>9, <1>10, <1>12 DEF Collection!Dismiss

\* What Open5GS adds does not show.
LEMMA AttachHides ==
    ASSUME Inv, NEW i \in Imsi, Attach(i), UNCHANGED overlapped
    PROVE  UNCHANGED Collection!absVars
<1> DEFINE e == Existing(i)
           d == [e EXCEPT !.used = TRUE]
<1>1. /\ Present(i) /\ ~IsRoamer(e)
      /\ mongo' = [mongo EXCEPT ![i] = ReplaceFirst(@, d)]
      /\ UNCHANGED <<store, procVars, scripts, edits>>
    BY DEF Attach
<1>2. e \in LocalDoc /\ mongo[i] = <<e>>
    <2>1. e \in Doc /\ mongo[i] = <<e>>
        BY <1>1, Shape
    <2>2. QED BY <1>1, <2>1 DEF Doc, RoamerDoc, IsRoamer
<1>3. d \in Doc /\ ~IsRoamer(d) /\ d.cred = e.cred /\ d.mode = e.mode
    <2> HIDE DEF e
    <2>1. e \in LocalDoc
        BY <1>2
    <2>2. QED BY <2>1 DEF LocalDoc, Doc, IsRoamer
<1>4. oursBar[i] = [cred |-> e.cred, mode |-> e.mode] /\ guestsBar[i] = NoRow
    BY <1>1 DEF oursBar, guestsBar, HasLocal, HasRoamer, IsLocal
<1> HIDE DEF d
<1>5. mongo' = [mongo EXCEPT ![i] = <<d>>]
    <2>1. e \in Doc
        BY <1>2 DEF Doc
    <2>2. ReplaceFirst(mongo[i], d) = <<d>>
        BY <1>2, <1>3, <2>1, OneDocument
    <2>3. QED BY <1>1, <2>2
<1> HIDE DEF e
<1>6. /\ oursBar' = [oursBar EXCEPT ![i] = oursBar[i]]
      /\ guestsBar' = [guestsBar EXCEPT ![i] = guestsBar[i]]
    <2>1. /\ oursBar' = [oursBar EXCEPT ![i] =
                IF IsRoamer(d) THEN NoRow ELSE [cred |-> d.cred, mode |-> d.mode]]
          /\ guestsBar' = [guestsBar EXCEPT ![i] =
                IF IsRoamer(d) THEN [mode |-> d.mode] ELSE NoRow]
        BY <1>3, <1>5, WriteShows
    <2>2. QED BY <1>3, <1>4, <2>1
<1>7. oursBar' = oursBar /\ guestsBar' = guestsBar
    BY <1>6 DEF oursBar, guestsBar
<1>8. UNCHANGED <<syncingBar, listBar>>
    BY <1>1, SameList DEF procVars
<1>9. QED BY <1>1, <1>7, <1>8 DEF Collection!absVars

LEMMA NextRegistry ==
    ASSUME StartsAlone, Inv, [Next]_vars, ~overlapped, UNCHANGED overlapped
    PROVE  [Collection!Next]_Collection!absVars
<1>1. Inv' /\ OneList /\ OneList'
    <2>1. Inv'
        BY StepInv
    <2>2. OneList /\ OneList'
        BY <2>1, InvOneList, PTL
    <2>3. QED BY <2>1, <2>2
<1>2. ASSUME NEW p \in Procs, SyncStarts(p) PROVE Collection!Begin
    <2>1. /\ Run(p, "sync", store) /\ Start /\ UNCHANGED <<store, mongo>>
          /\ kind' = [kind EXCEPT ![p] = "sync"] /\ plan' = [plan EXCEPT ![p] = store]
        BY <1>2 DEF SyncStarts, Run
    <2>2. \A q \in Procs : kind[q] # "sync"
        BY <2>1, NoneRuns DEF Inv, SyncInv, TypeOK
    <2>3. ~syncingBar
        BY <1>1, <2>2 DEF OneList
    <2>4. kind'[p] = "sync" /\ plan'[p] = store
        BY <2>1 DEF Inv, TypeOK
    <2>5. syncingBar' /\ listBar' = store
        BY <1>1, <2>4 DEF OneList
    <2>6. QED BY <2>1, <2>3, <2>5, SameTables DEF Collection!Begin
<1>3. ASSUME NEW p \in Procs, ImportStarts(p) PROVE UNCHANGED Collection!absVars
    <2>1. /\ Start /\ UNCHANGED <<store, mongo>>
          /\ kind' = [kind EXCEPT ![p] = "import"]
        BY <1>3 DEF ImportStarts, Run
    <2>2. \A q \in Procs : kind[q] # "sync" /\ kind'[q] # "sync"
        BY <2>1, NoneRuns DEF Inv, SyncInv, TypeOK
    <2>3. /\ ~syncingBar /\ listBar = NoPlan
          /\ ~syncingBar' /\ listBar' = NoPlan
        BY <1>1, <2>2 DEF OneList
    <2>4. syncingBar' = syncingBar
        BY <2>3 DEF syncingBar
    <2>5. QED BY <2>1, <2>3, <2>4, SameTables DEF Collection!absVars
<1>4. ASSUME NEW p \in Procs, Kill(p) \/ ImportEnds(p)
      PROVE  Collection!GiveUp \/ UNCHANGED Collection!absVars
    <2>1. Quit(p) /\ kind[p] # "idle" /\ UNCHANGED <<store, mongo>>
        BY <1>4 DEF Kill, ImportEnds
    <2>2. \A q \in Procs : kind'[q] # "sync"
        BY <2>1, Alone DEF Quit, Inv, TypeOK
    <2>3. ~syncingBar' /\ listBar' = NoPlan
        BY <1>1, <2>2 DEF OneList
    <2>4. CASE syncingBar
        BY <2>1, <2>3, <2>4, SameTables
           DEF Collection!GiveUp, Collection!Nobody, NoPlan
    <2>5. CASE ~syncingBar
        <3>1. listBar = NoPlan
            BY <2>5 DEF listBar
        <3>2. syncingBar' = syncingBar
            BY <2>3, <2>5 DEF syncingBar
        <3>3. QED BY <2>1, <2>3, <3>1, <3>2, SameTables DEF Collection!absVars
    <2>6. QED BY <2>4, <2>5
<1>5. ASSUME NEW p \in Procs, NEW i \in Imsi,
             SyncLeaves(p, i) \/ SyncFinds(p, i) \/ ImportRefuses(p, i) \/ ImportFinds(p, i)
      PROVE  UNCHANGED Collection!absVars
    <2>1. UNCHANGED <<store, mongo, kind, plan>>
        BY <1>5 DEF SyncLeaves, SyncFinds, ImportRefuses, ImportFinds, Skip, GoesOnToWrite
    <2>2. QED BY <2>1, SameTables, SameList DEF Collection!absVars
<1>6. CASE LocalEdit
    <2>1. UNCHANGED <<mongo, kind, plan>>
        BY <1>6 DEF LocalEdit, procVars
    <2>2. store' \in Collection!Rows
        BY <1>1 DEF Inv, TypeOK, Rows, Row, Mode, Collection!Rows, Collection!Row,
                    Collection!Mode
    <2>3. Collection!Edit
        BY <2>1, <2>2, SameTables, SameList DEF Collection!Edit
    <2>4. QED BY <2>3 DEF Collection!Next, Collection!Apart
<1>7. CASE UNCHANGED vars
    BY <1>7, SameTables, SameList DEF vars, Collection!absVars
<1>8. QED
    BY <1>2, <1>3, <1>4, <1>5, <1>6, <1>7, WritePuts, WriteAdmits, DeleteFinishes,
       RemoveDismisses, AttachHides, <1>1
       DEF Next, Collection!Next, Collection!Apart

HistoryTyped == overlapped \in BOOLEAN

\* To a reader who sees only who is in the collection, whose it is and what it
\* says, the scripts are the steps of two tables that never share an IMSI,
\* however many were killed at any point, until two of them overlap
\* (sync.py:187-233, roaming.py:156-222).
THEOREM CollectionIsRegistry == OSpec => ImplementsRegistry
<1>1. OInit => Collection!Init
    BY InitRegistry DEF OInit, Collection!Init
<1>2. HistoryTyped /\ (~overlapped => Inv) /\ [ONext]_ovars
        => [Collection!Next]_Collection!absVars
    <2> SUFFICES ASSUME HistoryTyped, ~overlapped => Inv, [ONext]_ovars
                 PROVE  [Collection!Next]_Collection!absVars
        OBVIOUS
    <2>1. overlapped' \in BOOLEAN /\ (overlapped => overlapped')
        BY DEF ONext, ovars, HistoryTyped
    <2>2. CASE overlapped'
        BY <2>1, <2>2 DEF Collection!Next, Collection!Race
    <2>3. CASE ~overlapped'
        <3>1. ~overlapped /\ UNCHANGED overlapped /\ [Next]_vars /\ StartsAlone
            BY <2>1, <2>3 DEF ONext, ovars, vars, StartsAlone, HistoryTyped
        <3>2. QED BY <3>1, NextRegistry
    <2>4. QED BY <2>2, <2>3
<1>3. OInit => HistoryTyped
    BY DEF OInit, HistoryTyped
<1>4. HistoryTyped /\ [ONext]_ovars => HistoryTyped'
    BY DEF ONext, ovars, HistoryTyped
<1>5. QED
    BY <1>1, <1>2, <1>3, <1>4, CoreInvariant, PTL
       DEF OSpec, ImplementsRegistry, Collection!Spec
=============================================================================
