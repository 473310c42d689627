------------------------- MODULE ProfileIndexProofs -------------------------
(***************************************************************************)
(* Proofs about the two components that read a sealed inventory: the       *)
(* language profile and the index of context documents, for any inventory. *)
(***************************************************************************)
EXTENDS ContextIndex, LanguageProfile, DataLemmas

-----------------------------------------------------------------------------
(* Sums of sizes.                                                          *)

\* The bytes of some files are a sum, as DataLemmas has it.
LEMMA BytesIsSum ==
    ASSUME NEW S
    PROVE  Bytes(S) = SumFunctionOnSet([f \in S |-> f.size], S)
<1> DEFINE w == [f \in S |-> f.size]
           P(it) == it = [s \in SUBSET S |->
                            IF s = {} THEN 0
                            ELSE (CHOOSE x \in s : TRUE).size
                                 + it[s \ {CHOOSE x \in s : TRUE}]]
<1>1. Bytes(S) = (CHOOSE it : P(it))[S]
  BY DEF Bytes, MapThenSumSet, MapThenFoldSet
<1>2. \A it : P(it) <=> IsSumTable(w, S, it)
  <2> SUFFICES ASSUME NEW it PROVE P(it) <=> IsSumTable(w, S, it)
    OBVIOUS
  <2>1. \A s \in SUBSET S :
          s # {} => w[CHOOSE x \in s : TRUE] = (CHOOSE x \in s : TRUE).size
    OBVIOUS
  <2> QED BY <2>1 DEF IsSumTable
<1> HIDE DEF P
<1>3. (CHOOSE it : P(it)) = (CHOOSE it : IsSumTable(w, S, it))
  BY <1>2
<1> QED BY <1>1, <1>3, SumIsChosen

\* The same over a larger set of files.
LEMMA BytesWithin ==
    ASSUME NEW S, IsFiniteSet(S), NEW T \in SUBSET S
    PROVE  Bytes(T) = SumFunctionOnSet([f \in S |-> f.size], T)
<1> DEFINE v == [f \in T |-> f.size]
           w == [f \in S |-> f.size]
<1>1. IsFiniteSet(T) /\ \A f \in T : v[f] = w[f]
  BY FS_Subset
<1>2. Bytes(T) = SumFunctionOnSet(v, T)
  BY BytesIsSum
<1> HIDE DEF v, w
<1> QED BY <1>1, <1>2, SumSame DEF v, w

LEMMA BytesType ==
    ASSUME NEW S, IsFiniteSet(S), \A f \in S : f.size \in Nat
    PROVE  Bytes(S) \in Nat
<1> DEFINE w == [f \in S |-> f.size]
<1>1. \A f \in S : w[f] \in Nat
  OBVIOUS
<1>2. Bytes(S) = SumFunctionOnSet(w, S)
  BY BytesIsSum
<1> HIDE DEF w
<1> QED BY <1>1, <1>2, SumType

LEMMA BytesOfNone == Bytes({}) = 0
<1> DEFINE w == [f \in {} |-> f.size]
<1>1. Bytes({}) = SumFunctionOnSet(w, {})
  BY BytesIsSum
<1> HIDE DEF w
<1> QED BY <1>1, SumUnfolds, FS_EmptySet

LEMMA BytesJoin ==
    ASSUME NEW A, NEW B, IsFiniteSet(A), IsFiniteSet(B), A \cap B = {},
           \A f \in A \cup B : f.size \in Nat
    PROVE  Bytes(A \cup B) = Bytes(A) + Bytes(B)
<1> DEFINE S == A \cup B
           w == [f \in S |-> f.size]
<1>1. IsFiniteSet(S) /\ \A f \in A \cup B : w[f] \in Nat
  BY FS_Union
<1>2. /\ A \in SUBSET S /\ B \in SUBSET S /\ S \in SUBSET S
  OBVIOUS
<1>3. /\ Bytes(A) = SumFunctionOnSet(w, A)
      /\ Bytes(B) = SumFunctionOnSet(w, B)
      /\ Bytes(S) = SumFunctionOnSet(w, S)
  <2> HIDE DEF S
  <2> QED BY <1>1, <1>2, BytesWithin
<1>4. SumFunctionOnSet(w, A \cup B) = SumFunctionOnSet(w, A) + SumFunctionOnSet(w, B)
  <2> HIDE DEF w
  <2> QED BY <1>1, SumJoin
<1> QED BY <1>3, <1>4

\* One file more.
LEMMA BytesAdd ==
    ASSUME NEW A, IsFiniteSet(A), NEW x, x \notin A, \A f \in A \cup {x} : f.size \in Nat
    PROVE  Bytes(A \cup {x}) = Bytes(A) + x.size
<1> DEFINE S == A \cup {x}
           w == [f \in S |-> f.size]
<1>1. IsFiniteSet(S) /\ \A f \in A \cup {x} : w[f] \in Nat
  BY FS_AddElement
<1>2. A \in SUBSET S /\ S \in SUBSET S
  OBVIOUS
<1>3. /\ Bytes(A) = SumFunctionOnSet(w, A)
      /\ Bytes(S) = SumFunctionOnSet(w, S)
  <2> HIDE DEF S
  <2> QED BY <1>1, <1>2, BytesWithin
<1>4. w[x] = x.size
  OBVIOUS
<1>5. SumFunctionOnSet(w, A \cup {x}) = SumFunctionOnSet(w, A) + w[x]
  <2> HIDE DEF w
  <2> QED BY <1>1, SumAdd
<1> QED BY <1>3, <1>4, <1>5

-----------------------------------------------------------------------------
(* The language profile.                                                   *)

\* The first-party source of a language among some files, and the files met.
Source(l, files) ==
    {f \in files : /\ Detected(f) = l /\ ~f.generated /\ ~f.vendored
                   /\ f.category \in {"SOURCE", "TEST"}}
Met == inventory \ uncounted

KindCounts == [generated : Nat, vendored : Nat, source : Nat]

\* What Summarize makes of the counts.
Leader == IF Ranked = {} THEN "NONE" ELSE CHOOSE l \in Ranked : Primary(l)
Made == [type      |-> RepositoryType,
         primary   |-> Leader,
         files     |-> Total("files"),
         bytes     |-> Total("bytes"),
         languages |-> Listed,
         supported |-> Listed \cap Registered]

\* The counters of a language are those of its first-party files met so far, and
\* a marker speaks for languages with such files only.
ProfileInv ==
    /\ IsFiniteSet(inventory) /\ \A f \in inventory : IsProfiled(f)
    /\ uncounted \subseteq inventory
    /\ profiling \in {"counting", "marked", "done"}
    /\ profiling # "counting" => uncounted = {}
    /\ counts \in [Languages -> [files : KindCounts, bytes : KindCounts]]
    /\ DOMAIN components = Languages
    /\ \A l \in Languages :
         /\ components[l] = Source(l, Met)
         /\ counts[l].bytes.source = Bytes(Source(l, Met))
         /\ Source(l, Met) # {} => counts[l].files.source > 0
    /\ \A l \in marked : l \in Languages /\ Source(l, Met) # {}
    /\ profiling = "done" => profile = Made

\* A file is first-party source of its language exactly when its kind is "source".
LEMMA KindIsSource ==
    ASSUME NEW f, IsProfiled(f), NEW l \in Languages
    PROVE  f \in Source(l, {f}) <=> Detected(f) = l /\ KindOf(f) = "source"
BY DEF Source, KindOf, IsProfiled

LEMMA SourceGrows ==
    ASSUME NEW S, NEW f, IsProfiled(f), NEW l \in Languages
    PROVE  Source(l, S \cup {f}) = IF Detected(f) = l /\ KindOf(f) = "source"
                                   THEN Source(l, S) \cup {f} ELSE Source(l, S)
BY KindIsSource DEF Source

LEMMA CountStep ==
    ASSUME ProfileInv, NEW f \in uncounted, CountFile(f)
    PROVE  ProfileInv'
<1> USE DEF ProfileInv
<1> DEFINE language == Detected(f)
           kind     == KindOf(f)
<1>1. /\ f \in inventory /\ IsProfiled(f) /\ f.size \in Nat
      /\ language \in Languages \cup {"NONE"}
      /\ kind \in {"generated", "vendored", "source", "none"}
  BY DEF IsProfiled, Detected, KindOf
<1>2. /\ inventory' = inventory /\ uncounted' = uncounted \ {f}
      /\ profiling = "counting" /\ profiling' = profiling
      /\ marked' = marked /\ profile' = profile
  BY DEF CountFile
<1>3. Met' = Met \cup {f} /\ f \notin Met /\ Met \subseteq inventory
  BY <1>1, <1>2 DEF Met
<1>4. \A l \in Languages :
        Source(l, Met') = IF language = l /\ kind = "source"
                          THEN Source(l, Met) \cup {f} ELSE Source(l, Met)
  <2> SUFFICES ASSUME NEW l \in Languages
               PROVE  Source(l, Met') = IF Detected(f) = l /\ KindOf(f) = "source"
                                        THEN Source(l, Met) \cup {f} ELSE Source(l, Met)
    OBVIOUS
  <2>1. IsProfiled(f) /\ Met' = Met \cup {f}
    BY <1>1, <1>3
  <2>2. Source(l, Met \cup {f}) = IF Detected(f) = l /\ KindOf(f) = "source"
                                 THEN Source(l, Met) \cup {f} ELSE Source(l, Met)
    BY ONLY <2>1, SourceGrows, l \in Languages
  <2> QED BY ONLY <2>1, <2>2
<1>5. CASE language = "NONE" \/ kind = "none"
  <2>1. counts' = counts /\ components' = components
    BY <1>5 DEF CountFile
  <2>2. \A l \in Languages : Source(l, Met') = Source(l, Met)
    BY <1>4, <1>5, ProfileConstants
  <2> QED BY <1>2, <2>1, <2>2
<1>6. CASE ~(language = "NONE" \/ kind = "none")
  <2>1. /\ language \in Languages /\ kind \in {"generated", "vendored", "source"}
        /\ counts' = [counts EXCEPT ![language].files[kind] = @ + 1,
                                    ![language].bytes[kind] = @ + f.size]
        /\ components' = IF kind = "source"
                         THEN [components EXCEPT ![language] = @ \cup {f}]
                         ELSE components
    BY <1>1, <1>6 DEF CountFile
  <2> HIDE DEF language, kind
  <2>2. counts' \in [Languages -> [files : KindCounts, bytes : KindCounts]]
    <3> DEFINE c == counts[language]
               d == [c EXCEPT !.files[kind] = @ + 1, !.bytes[kind] = @ + f.size]
    <3>1. c.files \in KindCounts /\ c.bytes \in KindCounts /\ c \in [files : KindCounts, bytes : KindCounts]
      BY <2>1
    <3>2. /\ [c.files EXCEPT ![kind] = c.files[kind] + 1] \in KindCounts
          /\ [c.bytes EXCEPT ![kind] = c.bytes[kind] + f.size] \in KindCounts
      BY <1>1, <2>1, <3>1 DEF KindCounts
    <3>3. d = [c EXCEPT !.files = [c.files EXCEPT ![kind] = c.files[kind] + 1],
                        !.bytes = [c.bytes EXCEPT ![kind] = c.bytes[kind] + f.size]]
      BY <3>1
    <3>4. d \in [files : KindCounts, bytes : KindCounts]
      BY <3>1, <3>2, <3>3
    <3>5. counts' = [counts EXCEPT ![language] = d]
      BY <2>1
    <3> QED BY <3>4, <3>5
  <2>3. ASSUME NEW l \in Languages
        PROVE  /\ components'[l] = Source(l, Met')
               /\ counts'[l].bytes.source = Bytes(Source(l, Met'))
               /\ Source(l, Met') # {} => counts'[l].files.source > 0
    <3>1. CASE language = l /\ kind = "source"
      <4>1. Source(l, Met') = Source(l, Met) \cup {f} /\ f \notin Source(l, Met)
        BY <1>3, <1>4, <3>1 DEF Source
      <4>2. /\ components'[l] = components[l] \cup {f}
            /\ counts'[l].bytes.source = counts[l].bytes.source + f.size
            /\ counts'[l].files.source = counts[l].files.source + 1
            /\ counts[l].files.source \in Nat
        BY <2>1, <3>1 DEF KindCounts
      <4>3. IsFiniteSet(Source(l, Met)) /\ \A g \in Source(l, Met) \cup {f} : g.size \in Nat
        <5>1. Source(l, Met) \in SUBSET inventory
          BY <1>3 DEF Source
        <5> QED BY <1>1, <5>1, FS_Subset DEF IsProfiled
      <4>4. Bytes(Source(l, Met) \cup {f}) = Bytes(Source(l, Met)) + f.size
        BY <4>1, <4>3, BytesAdd
      <4> QED BY <4>1, <4>2, <4>4
    <3>2. CASE ~(language = l /\ kind = "source")
      <4>1. /\ components'[l] = components[l]
            /\ counts'[l].bytes.source = counts[l].bytes.source
            /\ counts'[l].files.source = counts[l].files.source
        BY <2>1, <3>2 DEF KindCounts
      <4>2. Source(l, Met') = Source(l, Met)
        BY <1>4, <3>2
      <4> QED BY <4>1, <4>2
    <3> QED BY <3>1, <3>2
  <2>4. DOMAIN components' = Languages
    BY <2>1
  <2>5. \A l \in marked' : l \in Languages /\ Source(l, Met') # {}
    <3>1. \A l \in Languages : Source(l, Met) # {} => Source(l, Met') # {}
      BY <1>3 DEF Source
    <3> QED BY <1>2, <3>1
  <2> QED BY <1>2, <2>2, <2>3, <2>4, <2>5
<1> QED BY <1>5, <1>6

\* The record follows from the counters.
LEMMA MadeSame ==
    ASSUME UNCHANGED <<counts, marked>>
    PROVE  Made' = Made
<1>1. /\ Total("files")' = Total("files")
      /\ Total("bytes")' = Total("bytes")
  BY DEF Total, MapThenSumSet, MapThenFoldSet
<1>2. Ranked' = Ranked /\ Listed' = Listed
  BY DEF Ranked, Listed
<1>3. \A l \in Ranked : Primary(l)' <=> Primary(l)
  BY <1>2 DEF Primary
<1>4. Material' = Material
  BY <1>1, <1>2 DEF Material
<1>5. RepositoryType' = RepositoryType
  BY <1>2, <1>4 DEF RepositoryType
<1>6. Leader' = Leader
  BY DEF Leader, Primary, Ranked, Listed
<1> QED BY <1>1, <1>2, <1>5, <1>6 DEF Made

THEOREM ProfileInvariant == ProfileSpec => []ProfileInv
<1>1. ProfileInit => ProfileInv
  <2> SUFFICES ASSUME ProfileInit PROVE ProfileInv
    OBVIOUS
  <2>1. IsFiniteSet(inventory) /\ \A f \in inventory : IsProfiled(f)
    BY ProfileConstants DEF ProfileInit
  <2>2. \A l \in Languages : Source(l, Met) = {}
    BY DEF ProfileInit, Met, Source
  <2>3. \A l \in Languages : counts[l].bytes.source = 0 /\ components[l] = {}
    BY DEF ProfileInit, NoCounts, Kinds0
  <2>4. counts \in [Languages -> [files : KindCounts, bytes : KindCounts]]
    BY DEF ProfileInit, NoCounts, Kinds0, KindCounts
  <2> QED BY <2>1, <2>2, <2>3, <2>4, BytesOfNone DEF ProfileInv, ProfileInit, NoCounts
<1>2. ProfileInv /\ [ProfileNext]_profileVars => ProfileInv'
  <2> SUFFICES ASSUME ProfileInv, [ProfileNext]_profileVars PROVE ProfileInv'
    OBVIOUS
  <2>1. ASSUME NEW f \in uncounted, CountFile(f) PROVE ProfileInv'
    BY <2>1, CountStep
  <2>2. ASSUME ReadMarkers PROVE ProfileInv'
    <3>1. /\ UNCHANGED <<inventory, uncounted, counts, components, profile>>
          /\ profiling' = "marked" /\ uncounted = {}
          /\ \A l \in marked' : l \in Languages /\ components[l] # {}
      BY <2>2 DEF ReadMarkers
    <3> QED BY <3>1 DEF ProfileInv, Met
  <2>3. ASSUME Summarize PROVE ProfileInv'
    <3>1. /\ UNCHANGED <<inventory, uncounted, counts, components, marked>>
          /\ profiling = "marked" /\ profiling' = "done"
      BY <2>3 DEF Summarize
    <3>2. profile' = Made
      BY <2>3 DEF Summarize, Made, Leader
    <3>3. Made' = Made
      BY <3>1, MadeSame
    <3> QED BY <3>1, <3>2, <3>3 DEF ProfileInv, Met
  <2>4. ASSUME UNCHANGED profileVars PROVE ProfileInv'
    <3>1. Made' = Made
      BY <2>4, MadeSame DEF profileVars
    <3> QED BY <2>4, <3>1 DEF ProfileInv, profileVars, Met
  <2> QED BY <2>1, <2>2, <2>3, <2>4 DEF ProfileNext
<1> QED BY <1>1, <1>2, PTL DEF ProfileSpec

LEMMA FinitelyManyLanguages == IsFiniteSet(Languages)
<1>1. LanguageOrder \in Seq(Languages)
  BY ProfileConstants
<1>2. DOMAIN LanguageOrder = 1 .. Len(LanguageOrder) /\ Len(LanguageOrder) \in Nat
  BY <1>1
<1>3. IsFiniteSet(DOMAIN LanguageOrder)
  BY <1>2, FS_Interval
<1>4. LanguageOrder \in Surjection(DOMAIN LanguageOrder, Languages)
  BY <1>1 DEF Languages, Surjection
<1> QED BY <1>3, <1>4, FS_Surjection

\* The place of a language among the names tells which it is.
LEMMA RankFinds ==
    ASSUME NEW l \in Languages
    PROVE  Rank(l) \in Nat /\ LanguageOrder[Rank(l)] = l
<1>1. \E i \in DOMAIN LanguageOrder : LanguageOrder[i] = l
  BY DEF Languages
<1>2. DOMAIN LanguageOrder \subseteq Nat
  BY ProfileConstants
<1> QED BY <1>1, <1>2 DEF Rank

LEMMA PrimaryExists ==
    ASSUME ProfileInv, Ranked # {}
    PROVE  \E l \in Ranked : Primary(l)
<1> DEFINE size(l) == counts[l].bytes.source
           B       == {size(l) : l \in Ranked}
<1>1. Ranked \subseteq Languages /\ \A l \in Ranked : size(l) \in Nat
  BY DEF Ranked, Listed, ProfileInv, KindCounts
<1>2. PICK b \in B : \A c \in B : c <= b
  <2> DEFINE f == [l \in Ranked |-> size(l)]
  <2>1. IsFiniteSet(Ranked)
    BY <1>1, FinitelyManyLanguages, FS_Subset
  <2>2. f \in Surjection(Ranked, B)
    BY DEF Surjection
  <2>3. B # {} /\ B \subseteq Nat
    BY <1>1
  <2> HIDE DEF B, f
  <2>4. IsFiniteSet(B)
    BY <2>1, <2>2, FS_Surjection
  <2> QED BY ONLY <2>3, <2>4, GreatestNatural
<1> DEFINE Best == {l \in Ranked : size(l) = b}
           R    == {Rank(l) : l \in Best}
<1>3. PICK r \in R : \A q \in R : r <= q
  <2>1. R # {} /\ R \subseteq Nat
    BY <1>1, <1>2, RankFinds
  <2> HIDE DEF R
  <2> QED BY <2>1, LeastNatural
<1>4. PICK l \in Best : Rank(l) = r
  OBVIOUS
<1>5. ASSUME NEW m \in Ranked \ {l}
      PROVE  \/ size(l) > size(m)
             \/ size(l) = size(m) /\ Rank(l) < Rank(m)
  <2>1. size(l) \in Nat /\ size(m) \in Nat /\ size(m) <= size(l)
    BY <1>1, <1>2, <1>4
  <2>2. Rank(l) \in Nat /\ Rank(m) \in Nat /\ Rank(l) # Rank(m)
    BY <1>1, <1>4, <1>5, RankFinds
  <2>3. size(l) = size(m) => Rank(l) <= Rank(m)
    BY <1>3, <1>4, <1>5
  <2> HIDE DEF size
  <2> QED BY <2>1, <2>2, <2>3
<1> QED BY <1>4, <1>5 DEF Primary

\* The bytes of the profile are those of all first-party source.
LEMMA TotalIsSum ==
    Total("bytes") = SumFunctionOnSet([l \in Languages |-> counts[l].bytes.source], Languages)
<1> DEFINE w == [l \in Languages |-> counts[l].bytes.source]
           P(it) == it = [s \in SUBSET Languages |->
                            IF s = {} THEN 0
                            ELSE counts[CHOOSE x \in s : TRUE]["bytes"].source
                                 + it[s \ {CHOOSE x \in s : TRUE}]]
<1>1. Total("bytes") = (CHOOSE it : P(it))[Languages]
  BY DEF Total, MapThenSumSet, MapThenFoldSet
<1>2. \A it : P(it) <=> IsSumTable(w, Languages, it)
  <2> SUFFICES ASSUME NEW it PROVE P(it) <=> IsSumTable(w, Languages, it)
    OBVIOUS
  <2>1. \A s \in SUBSET Languages :
          s # {} => w[CHOOSE x \in s : TRUE] = counts[CHOOSE x \in s : TRUE]["bytes"].source
    OBVIOUS
  <2> QED BY <2>1 DEF IsSumTable
<1> HIDE DEF P
<1>3. (CHOOSE it : P(it)) = (CHOOSE it : IsSumTable(w, Languages, it))
  BY <1>2
<1> QED BY <1>1, <1>3, SumIsChosen

LEMMA SourceIsFinite ==
    ASSUME ProfileInv, NEW L \in SUBSET Languages
    PROVE  LET U == UNION {FirstParty(l) : l \in L} IN
           /\ IsFiniteSet(U) /\ \A f \in U : f.size \in Nat
           /\ U = {f \in inventory : \E l \in L : f \in FirstParty(l)}
<1> DEFINE U == UNION {FirstParty(l) : l \in L}
<1>1. U = {f \in inventory : \E l \in L : f \in FirstParty(l)}
  BY DEF FirstParty
<1> QED BY <1>1, FS_Subset DEF ProfileInv, IsProfiled

LEMMA TotalIsFirstParty ==
    ASSUME ProfileInv, uncounted = {}
    PROVE  Total("bytes") = Bytes(UNION {FirstParty(l) : l \in Languages})
<1> DEFINE w    == [l \in Languages |-> counts[l].bytes.source]
           U(L) == UNION {FirstParty(l) : l \in L}
           F    == {L \in SUBSET Languages : SumFunctionOnSet(w, L) # Bytes(U(L))}
<1>1. Total("bytes") = SumFunctionOnSet(w, Languages)
  BY TotalIsSum
<1>2. \A l \in Languages : w[l] = Bytes(FirstParty(l)) /\ w[l] \in Nat
  <2>1. Met = inventory
    BY DEF Met
  <2> QED BY <2>1 DEF ProfileInv, FirstParty, Source, KindCounts
<1> SUFFICES ASSUME F # {} PROVE FALSE
  BY <1>1
<1>3. PICK L \in F : \A M \in F : M \subseteq L => M = L
  <2>1. F \subseteq SUBSET Languages /\ IsFiniteSet(Languages) /\ F # {}
    BY FinitelyManyLanguages
  <2> HIDE DEF F
  <2> QED BY ONLY <2>1, SmallestSet
<1>4. /\ L \in SUBSET Languages /\ IsFiniteSet(L)
      /\ SumFunctionOnSet(w, L) # Bytes(U(L))
  BY FinitelyManyLanguages, FS_Subset
<1>5. PICK l \in L : TRUE
  <2>1. SUFFICES ASSUME L = {} PROVE FALSE
    OBVIOUS
  <2>2. U({}) = {} /\ SumFunctionOnSet(w, {}) = 0
    BY FS_EmptySet, SumUnfolds
  <2> QED BY <1>4, <2>1, <2>2, BytesOfNone
<1>6. SumFunctionOnSet(w, L \ {l}) = Bytes(U(L \ {l}))
  BY <1>3, <1>4, <1>5
<1>7. SumFunctionOnSet(w, L) = w[l] + SumFunctionOnSet(w, L \ {l})
  <2> HIDE DEF w
  <2> QED BY <1>2, <1>4, SumRemove
<1>8. /\ U(L) = U(L \ {l}) \cup FirstParty(l)
      /\ U(L \ {l}) \cap FirstParty(l) = {}
  BY DEF FirstParty
<1>9. /\ IsFiniteSet(U(L \ {l})) /\ IsFiniteSet(FirstParty(l))
      /\ \A f \in U(L \ {l}) \cup FirstParty(l) : f.size \in Nat
  <2>1. L \ {l} \in SUBSET Languages /\ {l} \in SUBSET Languages /\ U({l}) = FirstParty(l)
    BY <1>4
  <2> QED BY <2>1, SourceIsFinite
<1>10. Bytes(U(L \ {l}) \cup FirstParty(l)) = Bytes(U(L \ {l})) + Bytes(FirstParty(l))
  BY <1>8, <1>9, BytesJoin
<1>11. Bytes(U(L \ {l})) \in Nat
  BY <1>9, BytesType
<1>12. Bytes(U(L)) = Bytes(U(L \ {l})) + Bytes(FirstParty(l))
  BY <1>8, <1>10
<1>13. w[l] = Bytes(FirstParty(l)) /\ w[l] \in Nat
  BY <1>2, <1>4
<1> HIDE DEF U, w, F
<1> QED BY <1>4, <1>6, <1>7, <1>11, <1>12, <1>13

\* What is vendored, generated or no source never shapes the profile, for any
\* inventory and any markers: its type, its primary language and its bytes are
\* those of first-party source.
THEOREM FirstPartyTheorem == ProfileSpec => []ProfileIsFirstParty
<1>1. ProfileInv => ProfileIsFirstParty
  <2> SUFFICES ASSUME ProfileInv, profiling = "done" PROVE ProfileIsFirstParty
    BY DEF ProfileIsFirstParty
  <2> DEFINE present == {l \in Languages : FirstParty(l) # {}}
             size(l) == counts[l].bytes.source
  <2>1. uncounted = {} /\ profile = Made /\ Met = inventory
    BY DEF ProfileInv, Met
  <2>2. \A l \in Languages : /\ size(l) = Bytes(FirstParty(l)) /\ size(l) \in Nat
                             /\ FirstParty(l) # {} => counts[l].files.source > 0
    BY <2>1 DEF ProfileInv, FirstParty, Source, KindCounts
  <2>3. \A l \in Languages : size(l) > 0 => l \in present
    BY <2>2, BytesOfNone
  <2>4. present \subseteq Listed
    <3>1. "source" \in DOMAIN Kinds0
      BY DEF Kinds0
    <3> QED BY <2>2, <3>1 DEF Listed
  <2>5. Ranked = {l \in present : size(l) > 0}
    BY <2>3, <2>4 DEF Ranked, Listed
  <2>6. profile.type = "POLYGLOT" => Cardinality(present) >= 2
    <3>1. Material \subseteq present /\ marked \subseteq present
      BY <2>1, <2>5 DEF Material, ProfileInv, FirstParty, Source
    <3>2. IsFiniteSet(present)
      BY FinitelyManyLanguages, FS_Subset
    <3> HIDE DEF present
    <3>3. /\ Cardinality(present) \in Nat
          /\ Cardinality(Material) \in Nat /\ Cardinality(Material) <= Cardinality(present)
          /\ Cardinality(marked) \in Nat /\ Cardinality(marked) <= Cardinality(present)
      BY <3>1, <3>2, FS_Subset, FS_CardinalityType
    <3>4. profile.type = RepositoryType
      BY <2>1 DEF Made
    <3> QED BY <3>3, <3>4 DEF RepositoryType
  <2>7. profile.type = "UNKNOWN" <=> \A l \in present : Bytes(FirstParty(l)) = 0
    <3>1. profile.type = "UNKNOWN" <=> Ranked = {}
      BY <2>1 DEF Made, RepositoryType
    <3> QED BY <2>2, <2>5, <3>1
  <2>8. ASSUME profile.primary # "NONE", NEW l \in present
        PROVE  Bytes(FirstParty(l)) <= Bytes(FirstParty(profile.primary))
    <3>1. Ranked # {} /\ profile.primary = CHOOSE m \in Ranked : Primary(m)
      BY <2>1, <2>8 DEF Made, Leader
    <3>2. profile.primary \in Ranked /\ Primary(profile.primary)
      BY <3>1, PrimaryExists
    <3>3. CASE l \in Ranked
      BY <2>2, <2>5, <3>2, <3>3 DEF Primary
    <3>4. CASE l \notin Ranked
      BY <2>2, <2>5, <3>2, <3>4
    <3> QED BY <3>3, <3>4
  <2>9. profile.bytes = Bytes(UNION {FirstParty(l) : l \in Languages})
    BY <2>1, TotalIsFirstParty DEF Made
  <2>10. present \subseteq profile.languages
    BY <2>1, <2>4 DEF Made
  <2> QED BY <2>6, <2>7, <2>8, <2>9, <2>10 DEF ProfileIsFirstParty
<1> QED BY ProfileInvariant, <1>1, PTL

-----------------------------------------------------------------------------
(* FlattenSeq of the module SequencesExt.                                  *)

\* The first values of the recursive function that FlattenSeq defines.
Join(s, t) == s \o t
IsFlat(ss, n, t) == t = [i \in 1 .. n |-> IF i = 1 THEN ss[i] ELSE Join(t[i - 1], ss[i])]

LEMMA FlatExists == ASSUME NEW ss PROVE \A n \in Nat : \E t : IsFlat(ss, n, t)
<1> DEFINE S == {n \in Nat : \E t : IsFlat(ss, n, t)}
<1>1. 0 \in S
  <2> DEFINE t == [i \in 1 .. 0 |-> ss]
  <2>1. t = [i \in 1 .. 0 |-> IF i = 1 THEN ss[i] ELSE Join(t[i - 1], ss[i])]
    OBVIOUS
  <2> HIDE DEF t
  <2>2. IsFlat(ss, 0, t)
    BY <2>1 DEF IsFlat
  <2> QED BY <2>2
<1>2. ASSUME NEW n \in Nat, n \in S PROVE n + 1 \in S
  <2>1. PICK u : IsFlat(ss, n, u)
    BY <1>2
  <2> DEFINE last == IF n = 0 THEN ss[1] ELSE Join(u[n], ss[n + 1])
             v == [i \in 1 .. n + 1 |-> IF i = n + 1 THEN last ELSE u[i]]
             w == [i \in 1 .. n + 1 |-> IF i = 1 THEN ss[i] ELSE Join(v[i - 1], ss[i])]
  <2>2. ASSUME NEW i \in 1 .. n + 1 PROVE v[i] = w[i]
    <3>1. CASE i = n + 1
      BY <3>1
    <3>2. CASE i # n + 1
      <4>1. i \in 1 .. n /\ (i # 1 => i - 1 \in 1 .. n /\ v[i - 1] = u[i - 1])
        BY <3>2
      <4>2. u[i] = IF i = 1 THEN ss[i] ELSE Join(u[i - 1], ss[i])
        BY <2>1, <4>1 DEF IsFlat
      <4> QED BY <3>2, <4>1, <4>2
    <3> QED BY <3>1, <3>2
  <2>3. v = w
    BY <2>2
  <2>4. v = [i \in 1 .. n + 1 |-> IF i = 1 THEN ss[i] ELSE Join(v[i - 1], ss[i])]
    BY <2>3
  <2> HIDE DEF v
  <2>5. IsFlat(ss, n + 1, v)
    BY <2>4 DEF IsFlat
  <2> QED BY <2>5
<1> HIDE DEF S
<1>3. Nat \subseteq S
  BY <1>1, <1>2, NaturalInduction
<1> QED BY <1>3 DEF S

LEMMA FlatValue ==
    ASSUME NEW ss, NEW n \in Nat, NEW t, IsFlat(ss, n, t), NEW i \in 1 .. n
    PROVE  t[i] = IF i = 1 THEN ss[i] ELSE Join(t[i - 1], ss[i])
BY DEF IsFlat

\* Two of them agree as far as the sequences do.
LEMMA FlatsAgree ==
    ASSUME NEW ss, NEW zz, NEW n \in Nat, NEW m \in Nat, NEW t, NEW u,
           IsFlat(ss, n, t), IsFlat(zz, m, u), m <= n,
           \A i \in 1 .. m : ss[i] = zz[i]
    PROVE  \A i \in 1 .. m : t[i] = u[i]
<1> DEFINE S == {i \in 1 .. m : t[i] # u[i]}
<1> SUFFICES ASSUME S # {} PROVE FALSE
  OBVIOUS
<1>1. PICK i \in S : \A j \in S : i <= j
  <2>1. S \subseteq Nat /\ S # {}
    OBVIOUS
  <2> HIDE DEF S
  <2> QED BY ONLY <2>1, LeastNatural
<1>2. i \in 1 .. m /\ t[i] # u[i]
  OBVIOUS
<1>3. i # 1 => i - 1 \in 1 .. m /\ i - 1 \notin S
  BY <1>1, <1>2
<1>4. i # 1 => t[i - 1] = u[i - 1]
  BY <1>3
<1>5. t[i] = (IF i = 1 THEN ss[i] ELSE Join(t[i - 1], ss[i]))
  <2>1. i \in 1 .. n
    BY <1>2
  <2> HIDE DEF S
  <2> QED BY <2>1, FlatValue
<1>6. u[i] = (IF i = 1 THEN zz[i] ELSE Join(u[i - 1], zz[i]))
  <2> HIDE DEF S
  <2> QED BY <1>2, FlatValue
<1> QED BY <1>2, <1>4, <1>5, <1>6

LEMMA FlattenUnfolds ==
    ASSUME NEW T, NEW ss \in Seq(T)
    PROVE  /\ Len(ss) = 0 => FlattenSeq(ss) = <<>>
           /\ Len(ss) # 0 => \E t : IsFlat(ss, Len(ss), t) /\ FlattenSeq(ss) = t[Len(ss)]
<1>1. CASE Len(ss) = 0
  BY <1>1 DEF FlattenSeq
<1>2. CASE Len(ss) # 0
  <2> DEFINE t == CHOOSE f : IsFlat(ss, Len(ss), f)
  <2>1. \E f : IsFlat(ss, Len(ss), f)
    BY FlatExists
  <2>2. IsFlat(ss, Len(ss), t)
    BY <2>1
  <2>3. FlattenSeq(ss) = t[Len(ss)]
    BY <1>2 DEF FlattenSeq, IsFlat, Join
  <2> HIDE DEF t
  <2> QED BY <1>2, <2>2, <2>3
<1> QED BY <1>1, <1>2

SameTo(ss, zz, m) == \A i \in 1 .. m : ss[i] = zz[i]

LEMMA FlatsAgreeTo ==
    ASSUME NEW ss, NEW zz, NEW n \in Nat, NEW m \in Nat, NEW t, NEW u,
           IsFlat(ss, n, t), IsFlat(zz, m, u), m <= n, SameTo(ss, zz, m), m # 0
    PROVE  t[m] = u[m]
BY FlatsAgree DEF SameTo

\* One more sequence is appended at the end.
LEMMA FlattenAppend ==
    ASSUME NEW T, NEW ss \in Seq(Seq(T)), NEW s \in Seq(T)
    PROVE  FlattenSeq(Append(ss, s)) = FlattenSeq(ss) \o s
<1> DEFINE n  == Len(ss)
           zz == Append(ss, s)
<1>1. /\ zz \in Seq(Seq(T)) /\ Len(zz) = n + 1 /\ n \in Nat
      /\ zz[n + 1] = s
  OBVIOUS
<1>s. SameTo(zz, ss, n)
  <2> SUFFICES ASSUME NEW i \in 1 .. n PROVE zz[i] = ss[i]
    BY DEF SameTo
  <2> QED OBVIOUS
<1> HIDE DEF zz
<1>2. PICK t : IsFlat(zz, n + 1, t) /\ FlattenSeq(zz) = t[n + 1]
  <2>1. Len(zz) # 0
    BY <1>1
  <2>2. \E t : IsFlat(zz, Len(zz), t) /\ FlattenSeq(zz) = t[Len(zz)]
    BY <1>1, <2>1, FlattenUnfolds
  <2> QED BY <1>1, <2>2
<1>3. CASE n = 0
  <2>1. t[1] = s
    BY <1>1, <1>2, <1>3 DEF IsFlat
  <2>2. FlattenSeq(ss) = <<>>
    BY <1>3, FlattenUnfolds
  <2> QED BY <1>2, <1>3, <2>1, <2>2 DEF zz
<1>4. CASE n # 0
  <2>1. PICK u : IsFlat(ss, n, u) /\ FlattenSeq(ss) = u[n]
    BY <1>4, FlattenUnfolds
  <2>2. t[n] = u[n]
    <3> DEFINE m == n + 1
    <3>1. n \in Nat /\ n # 0 /\ m \in Nat /\ n <= m /\ SameTo(zz, ss, n)
      BY <1>1, <1>s, <1>4
    <3>2. IsFlat(zz, m, t) /\ IsFlat(ss, n, u)
      BY <1>2, <2>1
    <3> HIDE DEF n, m
    <3> QED BY ONLY <3>1, <3>2, FlatsAgreeTo
  <2>3. t[n + 1] = Join(t[n], zz[n + 1])
    <3>1. n + 1 \in 1 .. n + 1 /\ n + 1 \in Nat /\ n + 1 # 1 /\ (n + 1) - 1 = n
      BY <1>1, <1>4
    <3> HIDE DEF n
    <3>2. t[n + 1] = IF n + 1 = 1 THEN zz[n + 1] ELSE Join(t[(n + 1) - 1], zz[n + 1])
      BY <1>2, <3>1, FlatValue
    <3> QED BY <3>1, <3>2
  <2> QED BY <1>1, <1>2, <2>1, <2>2, <2>3 DEF zz, Join
<1> QED BY <1>3, <1>4

\* What holds of nothing and is kept by each sequence in turn holds of them all.
LEMMA FlattenInduction ==
    ASSUME NEW T, NEW ss \in Seq(Seq(T)), NEW G, <<>> \in G[0],
           \A k \in 0 .. Len(ss) - 1 : \A x \in Seq(T) :
               x \in G[k] => Join(x, ss[k + 1]) \in G[k + 1]
    PROVE  FlattenSeq(ss) \in G[Len(ss)] /\ FlattenSeq(ss) \in Seq(T)
<1> DEFINE n == Len(ss)
<1>1. n \in Nat /\ \A i \in 1 .. n : ss[i] \in Seq(T)
  OBVIOUS
<1>2. CASE n = 0
  <2>1. FlattenSeq(ss) = <<>>
    BY <1>2, FlattenUnfolds
  <2> QED BY <1>2, <2>1
<1>3. CASE n # 0
  <2>1. PICK t : IsFlat(ss, n, t) /\ FlattenSeq(ss) = t[n]
    BY <1>3, FlattenUnfolds
  <2> DEFINE Holds(k) == t[k] \in Seq(T) /\ t[k] \in G[k]
             S == {k \in Nat : k \in 1 .. n => Holds(k)}
  <2>2. 0 \in S
    OBVIOUS
  <2>3. ASSUME NEW k \in Nat, k \in S PROVE k + 1 \in S
    <3> SUFFICES ASSUME k + 1 \in 1 .. n PROVE Holds(k + 1)
      OBVIOUS
    <3>s. ss[k + 1] \in Seq(T) /\ k \in 0 .. n - 1
      BY <1>1
    <3>1. CASE k = 0
      <4>1. t[1] = ss[1]
        BY <1>3, <1>1, <2>1 DEF IsFlat
      <4>2. Join(<<>>, ss[1]) \in G[1]
        <5>1. 0 \in 0 .. Len(ss) - 1 /\ 0 + 1 = 1 /\ <<>> \in Seq(T)
          BY <3>1, <3>s
        <5>2. Join(<<>>, ss[0 + 1]) \in G[0 + 1]
          BY ONLY <5>1, <<>> \in G[0],
             \A j \in 0 .. Len(ss) - 1 : \A x \in Seq(T) :
                 x \in G[j] => Join(x, ss[j + 1]) \in G[j + 1]
        <5> QED BY <5>1, <5>2
      <4>3. Join(<<>>, ss[1]) = ss[1]
        BY <3>1, <3>s DEF Join
      <4> QED BY <3>1, <3>s, <4>1, <4>2, <4>3
    <3>2. CASE k # 0
      <4>1. k \in 1 .. n /\ Holds(k)
        BY <1>1, <2>3, <3>2
      <4>2. t[k + 1] = Join(t[k], ss[k + 1])
        <5>1. k + 1 \in 1 .. n /\ k + 1 # 1 /\ (k + 1) - 1 = k
          BY <3>2
        <5> HIDE DEF n
        <5> QED BY <2>1, <5>1 DEF IsFlat
      <4>3. Join(t[k], ss[k + 1]) \in G[k + 1]
        BY <3>s, <4>1
      <4>4. Join(t[k], ss[k + 1]) \in Seq(T)
        BY <3>s, <4>1 DEF Join
      <4> QED BY <4>2, <4>3, <4>4
    <3> QED BY <3>1, <3>2
  <2> HIDE DEF S
  <2>4. Nat \subseteq S
    BY <2>2, <2>3, NaturalInduction
  <2>5. Holds(n)
    BY <1>1, <1>3, <2>4 DEF S
  <2> QED BY <2>1, <2>5
<1> QED BY <1>2, <1>3

LEMMA FlattenType ==
    ASSUME NEW T, NEW ss \in Seq(Seq(T))
    PROVE  FlattenSeq(ss) \in Seq(T)
<1> DEFINE G == [k \in Nat |-> Seq(T)]
<1>1. <<>> \in G[0]
  OBVIOUS
<1>2. ASSUME NEW k \in 0 .. Len(ss) - 1, NEW x \in Seq(T)
      PROVE  Join(x, ss[k + 1]) \in G[k + 1]
  <2>1. k + 1 \in 1 .. Len(ss) /\ k + 1 \in Nat
    OBVIOUS
  <2>2. ss[k + 1] \in Seq(T)
    BY <2>1
  <2>3. x \o ss[k + 1] \in Seq(T)
    BY <2>2
  <2> QED BY <2>1, <2>3 DEF Join
<1> HIDE DEF G
<1> QED BY <1>1, <1>2, FlattenInduction

-----------------------------------------------------------------------------
(* The parts of a text.                                                    *)

PartSet == [length : 0 .. MaxCharacters, blank : BOOLEAN, line : Nat]

\* Parts come in the order of their lines.
Ordered(s) == \A i, j \in DOMAIN s : i <= j => s[i].line <= s[j].line

LEMMA PartsOfLineType ==
    ASSUME NEW line \in Pieces, NEW number \in Nat
    PROVE  /\ PartsOfLine(line, number) \in Seq(PartSet)
           /\ \A i \in DOMAIN PartsOfLine(line, number) :
                PartsOfLine(line, number)[i].line = number
<1> DEFINE n == (line.length + MaxCharacters - 1) \div MaxCharacters
<1>1. MaxCharacters \in Nat \ {0} /\ line.length \in Nat
  BY IndexConstants DEF Pieces
<1>2. n \in Nat
  BY <1>1
<1>3. line.length % MaxCharacters \in 0 .. MaxCharacters
  BY <1>1
<1> HIDE DEF n
<1>4. \A i \in 1 .. n :
        [length |-> IF i * MaxCharacters <= line.length THEN MaxCharacters
                    ELSE line.length % MaxCharacters,
         blank |-> line.blank, line |-> number] \in PartSet
  BY <1>1, <1>3 DEF PartSet, Pieces
<1>5. PartsOfLine(line, number) =
        [i \in 1 .. n |->
            [length |-> IF i * MaxCharacters <= line.length THEN MaxCharacters
                        ELSE line.length % MaxCharacters,
             blank |-> line.blank, line |-> number]]
  BY DEF PartsOfLine, n
<1>6. PartsOfLine(line, number) \in [1 .. n -> PartSet]
  BY <1>4, <1>5
<1> QED BY <1>2, <1>5, <1>6

LEMMA JoinOrdered ==
    ASSUME NEW x \in Seq(PartSet), NEW s \in Seq(PartSet), NEW b \in Nat, Ordered(x),
           \A i \in DOMAIN x : x[i].line < b,
           \A i \in DOMAIN s : s[i].line = b
    PROVE  /\ Join(x, s) \in Seq(PartSet) /\ Ordered(Join(x, s))
           /\ \A i \in DOMAIN Join(x, s) : Join(x, s)[i].line < b + 1
<1> DEFINE y == Join(x, s)
<1>1. y \in Seq(PartSet) /\ Len(y) = Len(x) + Len(s)
  BY DEF Join
<1>2. \A i \in 1 .. Len(y) : y[i] = IF i <= Len(x) THEN x[i] ELSE s[i - Len(x)]
  BY DEF Join
<1> HIDE DEF y
<1>3. \A i \in 1 .. Len(y) :
        /\ y[i].line \in Nat
        /\ y[i].line = IF i <= Len(x) THEN x[i].line ELSE b
        /\ y[i].line < b + 1
  <2> SUFFICES ASSUME NEW i \in 1 .. Len(y)
               PROVE  /\ y[i].line \in Nat
                      /\ y[i].line = IF i <= Len(x) THEN x[i].line ELSE b
                      /\ y[i].line < b + 1
    OBVIOUS
  <2>1. CASE i <= Len(x)
    <3>1. i \in DOMAIN x /\ y[i] = x[i] /\ x[i] \in PartSet
      BY <1>2, <2>1
    <3>2. x[i].line \in Nat /\ x[i].line < b
      BY <3>1 DEF PartSet
    <3> QED BY <2>1, <3>1, <3>2
  <2>2. CASE ~(i <= Len(x))
    <3>1. i - Len(x) \in DOMAIN s /\ y[i] = s[i - Len(x)]
      BY <1>1, <1>2, <2>2
    <3> QED BY <2>2, <3>1
  <2> QED BY <2>1, <2>2
<1>4. \A i, j \in 1 .. Len(y) : i <= j => y[i].line <= y[j].line
  <2> SUFFICES ASSUME NEW i \in 1 .. Len(y), NEW j \in 1 .. Len(y), i <= j
               PROVE  y[i].line <= y[j].line
    OBVIOUS
  <2>1. CASE j <= Len(x)
    <3>1. i \in DOMAIN x /\ j \in DOMAIN x
      BY <2>1
    <3> QED BY <1>3, <2>1, <3>1 DEF Ordered
  <2>2. CASE ~(j <= Len(x))
    BY <1>3, <2>2
  <2> QED BY <2>1, <2>2
<1> QED BY <1>1, <1>3, <1>4 DEF Ordered, y

DocumentTypes == {"TEST", "DOCUMENTATION_SECTION", "CONFIGURATION_SECTION", "MODULE",
                  "CLASS", "FUNCTION", "METHOD"}
TextRows == [symbol : Nat, type : DocumentTypes, lines : Seq(Pieces), base : Nat]

\* The parts of a text are small enough and in the order of their lines.
LEMMA PartsAreOrdered ==
    ASSUME NEW t \in TextRows
    PROVE  Parts(t) \in Seq(PartSet) /\ Ordered(Parts(t))
<1> DEFINE ss == [i \in DOMAIN t.lines |-> PartsOfLine(t.lines[i], t.base + i - 1)]
           G  == [k \in Nat |-> {x \in Seq(PartSet) :
                                   Ordered(x) /\ \A i \in DOMAIN x : x[i].line < t.base + k}]
<1>1. t.lines \in Seq(Pieces) /\ t.base \in Nat
  BY DEF TextRows
<1>2. DOMAIN t.lines = 1 .. Len(t.lines) /\ Len(t.lines) \in Nat
  BY <1>1
<1>3. \A i \in 1 .. Len(t.lines) :
        /\ t.lines[i] \in Pieces /\ t.base + i - 1 \in Nat
        /\ ss[i] = PartsOfLine(t.lines[i], t.base + i - 1)
  BY <1>1, <1>2
<1>4. \A i \in 1 .. Len(t.lines) :
        ss[i] \in Seq(PartSet) /\ \A j \in DOMAIN ss[i] : ss[i][j].line = t.base + i - 1
  <2> SUFFICES ASSUME NEW i \in 1 .. Len(t.lines)
               PROVE  /\ ss[i] \in Seq(PartSet)
                      /\ \A j \in DOMAIN ss[i] : ss[i][j].line = t.base + i - 1
    OBVIOUS
  <2> DEFINE line == t.lines[i]
             number == t.base + i - 1
  <2>1. line \in Pieces /\ number \in Nat /\ ss[i] = PartsOfLine(line, number)
    BY <1>3
  <2> HIDE DEF line, number, ss
  <2>2. /\ PartsOfLine(line, number) \in Seq(PartSet)
        /\ \A j \in DOMAIN PartsOfLine(line, number) :
             PartsOfLine(line, number)[j].line = number
    BY <2>1, PartsOfLineType
  <2> QED BY <2>1, <2>2 DEF number
<1>5. ss \in [1 .. Len(t.lines) -> Seq(PartSet)]
  BY <1>2, <1>4
<1>6. ss \in Seq(Seq(PartSet)) /\ Len(ss) = Len(t.lines)
  BY <1>2, <1>5
<1>7. Parts(t) = FlattenSeq(ss)
  BY DEF Parts
<1> HIDE DEF ss
<1>8. <<>> \in G[0]
  BY DEF Ordered
<1>9. ASSUME NEW k \in 0 .. Len(ss) - 1, NEW x \in Seq(PartSet), x \in G[k]
      PROVE  Join(x, ss[k + 1]) \in G[k + 1]
  <2> DEFINE s == ss[k + 1]
             b == t.base + k
  <2>1. k \in Nat /\ k + 1 \in 1 .. Len(t.lines) /\ b \in Nat /\ t.base + (k + 1) - 1 = b
    BY <1>1, <1>6
  <2>2. s \in Seq(PartSet) /\ \A j \in DOMAIN s : s[j].line = b
    BY <1>4, <2>1
  <2>3. Ordered(x) /\ \A i \in DOMAIN x : x[i].line < b
    BY <1>9, <2>1
  <2>4. t.base + (k + 1) = b + 1
    <3> DEFINE a == t.base
    <3>1. a \in Nat /\ k \in Nat /\ b = a + k
      BY <1>1, <2>1
    <3> HIDE DEF a, b, s
    <3>2. a + (k + 1) = b + 1
      BY <3>1
    <3> QED BY <3>2 DEF a
  <2> HIDE DEF s, b
  <2>5. /\ Join(x, s) \in Seq(PartSet) /\ Ordered(Join(x, s))
        /\ \A i \in DOMAIN Join(x, s) : Join(x, s)[i].line < b + 1
    BY <2>1, <2>2, <2>3, JoinOrdered
  <2> QED BY <2>1, <2>4, <2>5 DEF s
<1>10. FlattenSeq(ss) \in G[Len(ss)]
  <2> HIDE DEF G
  <2> QED BY <1>6, <1>8, <1>9, FlattenInduction
<1> QED BY <1>6, <1>7, <1>10

-----------------------------------------------------------------------------
(* The chunks of a text.                                                   *)

LEMMA PartType ==
    ASSUME NEW part \in PartSet
    PROVE  part.length \in Nat /\ part.length <= MaxCharacters /\ part.line \in Nat
BY IndexConstants DEF PartSet

LEMMA CharactersType ==
    ASSUME NEW s \in Seq(PartSet)
    PROVE  Characters(s) \in Nat
<1> DEFINE w == [i \in DOMAIN s |-> s[i].length]
<1>1. DOMAIN s = 1 .. Len(s) /\ Len(s) \in Nat
  OBVIOUS
<1>2. IsFiniteSet(DOMAIN s) /\ \A i \in DOMAIN s : w[i] \in Nat
  <2>1. IsFiniteSet(DOMAIN s)
    BY <1>1, FS_Interval
  <2>2. ASSUME NEW i \in DOMAIN s PROVE w[i] \in Nat
    <3>1. s[i] \in PartSet /\ w[i] = s[i].length
      OBVIOUS
    <3> QED BY <3>1, PartType
  <2> QED BY <2>1, <2>2
<1>3. Characters(s) = SumFunctionOnSet(w, DOMAIN s)
  BY DEF Characters, SumFunction
<1> HIDE DEF w
<1> QED BY <1>2, <1>3, SumType

LEMMA CharactersAppend ==
    ASSUME NEW s \in Seq(PartSet), NEW part \in PartSet
    PROVE  Characters(Append(s, part)) = Characters(s) + part.length
<1> DEFINE t == Append(s, part)
           D == DOMAIN s
           x == Len(s) + 1
           v == [i \in DOMAIN s |-> s[i].length]
           w == [i \in DOMAIN t |-> t[i].length]
<1>1. /\ t \in Seq(PartSet) /\ D = 1 .. Len(s) /\ Len(s) \in Nat
      /\ DOMAIN t = D \cup {x} /\ x \notin D
  OBVIOUS
<1>2. IsFiniteSet(D)
  BY <1>1, FS_Interval
<1>3. /\ \A i \in D \cup {x} : w[i] \in Nat
      /\ \A i \in D : v[i] = w[i]
      /\ w[x] = part.length
  <2>1. \A i \in D \cup {x} : w[i] = t[i].length /\ t[i] \in PartSet
    BY <1>1
  <2>2. t[x] = part /\ \A i \in D : t[i] = s[i]
    BY <1>1
  <2>3. \A i \in D \cup {x} : t[i].length \in Nat
    BY <2>1, PartType
  <2>4. \A i \in D : v[i] = s[i].length /\ w[i] = t[i].length
    BY <1>1
  <2> HIDE DEF t, D, x, v, w
  <2> QED BY <2>1, <2>2, <2>3, <2>4
<1>4. /\ Characters(s) = SumFunctionOnSet(v, D)
      /\ Characters(t) = SumFunctionOnSet(w, D \cup {x})
  BY <1>1 DEF Characters, SumFunction
<1> HIDE DEF t, D, x, v, w
<1>5. SumFunctionOnSet(v, D) = SumFunctionOnSet(w, D)
  BY <1>2, <1>3, SumSame
<1>6. SumFunctionOnSet(w, D \cup {x}) = SumFunctionOnSet(w, D) + w[x]
  <2>1. x \notin D /\ IsFiniteSet(D) /\ \A i \in D \cup {x} : w[i] \in Nat
    BY <1>1, <1>2, <1>3
  <2> QED BY ONLY <2>1, SumAdd
<1> QED BY <1>3, <1>4, <1>5, <1>6 DEF t

LEMMA CharactersOfOne ==
    ASSUME NEW part \in PartSet
    PROVE  Characters(<<part>>) = part.length
<1>1. Characters(<<>>) = 0
  <2> DEFINE w == [i \in {} |-> i]
  <2>1. Characters(<<>>) = SumFunctionOnSet(w, {})
    BY DEF Characters, SumFunction
  <2> HIDE DEF w
  <2> QED BY <2>1, SumUnfolds, FS_EmptySet
<1>2. <<>> \in Seq(PartSet) /\ Append(<<>>, part) = <<part>>
  OBVIOUS
<1>3. Characters(Append(<<>>, part)) = Characters(<<>>) + part.length
  BY <1>2, CharactersAppend
<1>4. part.length \in Nat
  BY IndexConstants DEF PartSet
<1> QED BY <1>1, <1>2, <1>3, <1>4

\* A chunk within the limits that spans the lines it says.
ChunkRows == [parts : Seq(PartSet), start : Nat, end : Nat]
GoodChunk(c) ==
    /\ c \in ChunkRows /\ c.parts # <<>> /\ Ordered(c.parts)
    /\ c.start = c.parts[1].line /\ c.end = c.parts[Len(c.parts)].line
    /\ Characters(c.parts) <= MaxCharacters
    /\ c.end - c.start + 1 <= MaxLines

LEMMA ChunkOfOne ==
    ASSUME NEW part \in PartSet
    PROVE  GoodChunk(Chunk(<<part>>))
<1>1. Characters(<<part>>) = part.length
  BY CharactersOfOne
<1>2. part.length <= MaxCharacters /\ part.line \in Nat
  BY IndexConstants DEF PartSet
<1>3. Chunk(<<part>>) = [parts |-> <<part>>, start |-> part.line, end |-> part.line]
  BY DEF Chunk, Last
<1>4. <<part>> \in Seq(PartSet) /\ Ordered(<<part>>)
  BY <1>2 DEF Ordered
<1>5. part.line - part.line + 1 <= MaxLines
  BY <1>2, IndexConstants
<1> DEFINE s == <<part>>
           c == Chunk(s)
<1>6. /\ c.parts = s /\ c.start = part.line /\ c.end = part.line
      /\ s # <<>> /\ s[1] = part /\ Len(s) = 1
  BY <1>3
<1>7. c \in ChunkRows
  <2>1. c = [parts |-> s, start |-> part.line, end |-> part.line]
    BY <1>3
  <2>2. s \in Seq(PartSet)
    BY <1>4
  <2> HIDE DEF c, s
  <2> QED BY <1>2, <2>1, <2>2 DEF ChunkRows
<1> HIDE DEF c, s
<1>8. GoodChunk(c)
  BY <1>1, <1>2, <1>4, <1>5, <1>6, <1>7 DEF GoodChunk, s
<1> QED BY <1>8 DEF c, s

LEMMA ChunkOfMore ==
    ASSUME NEW s \in Seq(PartSet), s # <<>>, GoodChunk(Chunk(s)), NEW part \in PartSet,
           s[Len(s)].line <= part.line,
           Characters(s) + part.length <= MaxCharacters,
           part.line - s[1].line + 1 <= MaxLines
    PROVE  GoodChunk(Chunk(Append(s, part)))
<1> DEFINE t == Append(s, part)
           n == Len(s)
<1>1. /\ t \in Seq(PartSet) /\ Len(t) = n + 1 /\ n \in Nat \ {0} /\ t # <<>>
      /\ t[n + 1] = part /\ t[1] = s[1]
  OBVIOUS
<1>2. ASSUME NEW i \in 1 .. n PROVE t[i] = s[i] /\ s[i].line \in Nat
  <2>1. t[i] = s[i] /\ s[i] \in PartSet
    OBVIOUS
  <2> QED BY <2>1, PartType
<1>3. Characters(t) <= MaxCharacters
  BY CharactersAppend
<1>4. Ordered(s)
  BY DEF GoodChunk, Chunk
<1>5. part.line \in Nat /\ s[1].line \in Nat /\ s[n].line <= part.line
  <2>1. part.line \in Nat
    BY PartType
  <2>2. 1 \in 1 .. n
    BY <1>1
  <2>3. s[1].line \in Nat
    BY <1>2, <2>2, Zenon
  <2> QED BY <2>1, <2>3, Zenon
<1> HIDE DEF t
<1>6. Ordered(t)
  <2> SUFFICES ASSUME NEW i \in 1 .. n + 1, NEW j \in 1 .. n + 1, i <= j
               PROVE  t[i].line <= t[j].line
    BY <1>1 DEF Ordered
  <2>1. CASE j = n + 1 /\ i = n + 1
    BY <1>1, <1>5, <2>1
  <2>2. CASE j = n + 1 /\ i # n + 1
    <3>1. i \in 1 .. n /\ n \in 1 .. n /\ i <= n
      BY <1>1, <2>2
    <3>2. s[i].line <= s[n].line
      BY <1>4, <3>1 DEF Ordered
    <3>3. t[i].line = s[i].line /\ s[i].line \in Nat /\ s[n].line \in Nat
      BY <1>2, <3>1
    <3>4. t[j].line = part.line
      BY <1>1, <2>2
    <3> QED BY ONLY <1>5, <3>2, <3>3, <3>4
  <2>3. CASE j # n + 1
    <3>1. i \in 1 .. n /\ j \in 1 .. n
      BY <1>1, <2>3
    <3> QED BY <1>2, <1>4, <3>1 DEF Ordered
  <2> QED BY <2>1, <2>2, <2>3
<1>7. Chunk(t) = [parts |-> t, start |-> s[1].line, end |-> part.line]
  BY <1>1 DEF Chunk, Last
<1>8. GoodChunk(Chunk(t))
  BY <1>1, <1>3, <1>5, <1>6, <1>7 DEF GoodChunk, ChunkRows
<1> QED BY <1>8 DEF t

\* The parts of chunks, and one chunk more.
PartsOf(cs) == [i \in DOMAIN cs |-> cs[i].parts]

LEMMA PartsOfType ==
    ASSUME NEW cs \in Seq(ChunkRows)
    PROVE  PartsOf(cs) \in Seq(Seq(PartSet))
<1>1. DOMAIN cs = 1 .. Len(cs) /\ Len(cs) \in Nat
  OBVIOUS
<1>2. \A i \in 1 .. Len(cs) : cs[i].parts \in Seq(PartSet)
  <2>1. \A i \in 1 .. Len(cs) : cs[i] \in ChunkRows
    OBVIOUS
  <2> QED BY <2>1 DEF ChunkRows
<1>3. PartsOf(cs) \in [1 .. Len(cs) -> Seq(PartSet)]
  BY <1>1, <1>2 DEF PartsOf
<1> QED BY <1>1, <1>3

LEMMA PartsOfMore ==
    ASSUME NEW cs \in Seq(ChunkRows), NEW c \in ChunkRows
    PROVE  /\ PartsOf(cs) \in Seq(Seq(PartSet))
           /\ FlattenSeq(PartsOf(Append(cs, c))) = Join(FlattenSeq(PartsOf(cs)), c.parts)
<1>1. PartsOf(cs) \in Seq(Seq(PartSet)) /\ c.parts \in Seq(PartSet)
  BY PartsOfType DEF ChunkRows
<1>2. PartsOf(Append(cs, c)) = Append(PartsOf(cs), c.parts)
  BY DEF PartsOf
<1>3. FlattenSeq(Append(PartsOf(cs), c.parts)) = FlattenSeq(PartsOf(cs)) \o c.parts
  <2> DEFINE ss == PartsOf(cs)
             s == c.parts
  <2>1. ss \in Seq(Seq(PartSet)) /\ s \in Seq(PartSet)
    BY <1>1
  <2> HIDE DEF ss, s
  <2>2. FlattenSeq(Append(ss, s)) = FlattenSeq(ss) \o s
    BY <2>1, FlattenAppend
  <2> QED BY <2>2 DEF ss, s
<1> QED BY <1>1, <1>2, <1>3 DEF Join

\* The chunks and the open one hold the first parts, and are within the limits.
TilesOf(P, n, cs, s) ==
    /\ n \in 0 .. Len(P)
    /\ cs \in Seq(ChunkRows) /\ \A i \in DOMAIN cs : GoodChunk(cs[i])
    /\ s \in Seq(PartSet)
    /\ Join(FlattenSeq(PartsOf(cs)), s) = SubSeq(P, 1, n)
    /\ s # <<>> => GoodChunk(Chunk(s)) /\ n >= 1 /\ s[Len(s)] = P[n]

LEMMA NoTiles ==
    ASSUME NEW P \in Seq(PartSet)
    PROVE  TilesOf(P, 0, <<>>, <<>>)
<1>1. PartsOf(<<>>) = <<>>
  BY DEF PartsOf
<1>2. FlattenSeq(<<>>) = <<>>
  <2>1. <<>> \in Seq({}) /\ Len(<<>>) = 0
    OBVIOUS
  <2> QED BY <2>1, FlattenUnfolds
<1>3. Join(<<>>, <<>>) = <<>> /\ SubSeq(P, 1, 0) = <<>>
  BY DEF Join
<1>4. <<>> \in Seq(ChunkRows) /\ <<>> \in Seq(PartSet) /\ 0 \in 0 .. Len(P)
  OBVIOUS
<1> DEFINE none == <<>>
<1>5. /\ none \in Seq(ChunkRows) /\ \A i \in DOMAIN none : GoodChunk(none[i])
      /\ none \in Seq(PartSet) /\ ~(none # <<>>)
  BY <1>4
<1>6. Join(FlattenSeq(PartsOf(none)), none) = SubSeq(P, 1, 0)
  BY <1>1, <1>2, <1>3
<1> HIDE DEF none
<1>7. TilesOf(P, 0, none, none)
  BY <1>4, <1>5, <1>6 DEF TilesOf
<1> QED BY <1>7 DEF none

\* The part of the next round is kept after those before it.
LEMMA TakeTile ==
    ASSUME NEW P \in Seq(PartSet), NEW n \in 0 .. Len(P), n < Len(P),
           NEW cs, NEW s, TilesOf(P, n, cs, s)
    PROVE  /\ Join(Join(FlattenSeq(PartsOf(cs)), s), <<P[n + 1]>>) = SubSeq(P, 1, n + 1)
           /\ FlattenSeq(PartsOf(cs)) \in Seq(PartSet)
<1> DEFINE front == FlattenSeq(PartsOf(cs))
<1>1. PartsOf(cs) \in Seq(Seq(PartSet))
  BY PartsOfType DEF TilesOf
<1>2. front \in Seq(PartSet)
  <2> DEFINE ss == PartsOf(cs)
  <2>1. ss \in Seq(Seq(PartSet))
    BY <1>1
  <2> HIDE DEF ss
  <2> QED BY <2>1, FlattenType DEF ss
<1>3. SubSeq(P, 1, n + 1) = SubSeq(P, 1, n) \o <<P[n + 1]>>
  OBVIOUS
<1>4. Join(front, s) = SubSeq(P, 1, n)
  BY DEF TilesOf
<1> QED BY <1>2, <1>3, <1>4 DEF Join

LEMMA JoinAppend ==
    ASSUME NEW T, NEW a \in Seq(T), NEW b \in Seq(T), NEW x \in T
    PROVE  Join(a, Append(b, x)) = Join(Join(a, b), <<x>>)
<1> DEFINE l == a \o Append(b, x)
           r == (a \o b) \o <<x>>
<1>1. /\ l \in Seq(T) /\ Len(l) = Len(a) + (Len(b) + 1)
      /\ r \in Seq(T) /\ Len(r) = (Len(a) + Len(b)) + 1
  OBVIOUS
<1>2. ASSUME NEW i \in 1 .. Len(a) + (Len(b) + 1) PROVE l[i] = r[i]
  <2>1. CASE i <= Len(a)
    BY <2>1
  <2>2. CASE i > Len(a) /\ i <= Len(a) + Len(b)
    BY <2>2
  <2>3. CASE i = Len(a) + Len(b) + 1
    BY <2>3
  <2> QED BY <2>1, <2>2, <2>3
<1>3. Len(a) + (Len(b) + 1) = (Len(a) + Len(b)) + 1
  OBVIOUS
<1> HIDE DEF l, r
<1>4. l = r
  BY <1>1, <1>2, <1>3
<1> QED BY <1>4 DEF l, r, Join

LastOf(s) == s[Len(s)]

LEMMA LastAppended ==
    ASSUME NEW T, NEW s \in Seq(T), NEW x \in T
    PROVE  Append(s, x) \in Seq(T) /\ Append(s, x) # <<>> /\ LastOf(Append(s, x)) = x
BY DEF LastOf

LEMMA OpenGrows ==
    ASSUME NEW P \in Seq(PartSet), Ordered(P), NEW n \in 0 .. Len(P), n < Len(P),
           NEW cs, NEW s, TilesOf(P, n, cs, s),
           s # <<>> => /\ Characters(s) + P[n + 1].length <= MaxCharacters
                       /\ P[n + 1].line - s[1].line + 1 <= MaxLines
    PROVE  TilesOf(P, n + 1, cs, Append(s, P[n + 1]))
<1> DEFINE part == P[n + 1]
<1>j. Join(Join(FlattenSeq(PartsOf(cs)), s), <<part>>) = SubSeq(P, 1, n + 1)
  <2>1. TilesOf(P, n, cs, s) /\ n < Len(P)
    OBVIOUS
  <2> QED BY ONLY <2>1, TakeTile
<1>2. FlattenSeq(PartsOf(cs)) \in Seq(PartSet)
  <2>1. TilesOf(P, n, cs, s) /\ n < Len(P)
    OBVIOUS
  <2> QED BY ONLY <2>1, TakeTile
<1> DEFINE t == Append(s, part)
           front == FlattenSeq(PartsOf(cs))
<1>1. /\ part \in PartSet /\ n + 1 \in 0 .. Len(P) /\ n + 1 >= 1 /\ s \in Seq(PartSet)
      /\ cs \in Seq(ChunkRows) /\ \A i \in DOMAIN cs : GoodChunk(cs[i])
  BY DEF TilesOf
<1>3. t \in Seq(PartSet) /\ t # <<>> /\ t[Len(t)] = part
  <2>1. /\ Append(s, part) \in Seq(PartSet) /\ Append(s, part) # <<>>
        /\ LastOf(Append(s, part)) = part
    <3> HIDE DEF part
    <3> QED BY <1>1, LastAppended
  <2> HIDE DEF part
  <2> QED BY <2>1 DEF LastOf
<1>4. Join(front, t) = Join(Join(front, s), <<part>>)
  <2> HIDE DEF part
  <2> QED BY <1>1, <1>2, JoinAppend
<1>5. GoodChunk(Chunk(t))
  <2>1. CASE s = <<>>
    <3>1. t = <<part>>
      BY <2>1
    <3> HIDE DEF t, part
    <3> QED BY <1>1, <3>1, ChunkOfOne
  <2>2. CASE s # <<>>
    <3>1. n \in DOMAIN P /\ n + 1 \in DOMAIN P /\ n <= n + 1
      BY <2>2 DEF TilesOf
    <3>2. P[n].line <= P[n + 1].line
      BY <3>1 DEF Ordered
    <3>3. s[Len(s)].line <= part.line
      BY <2>2, <3>2 DEF TilesOf
    <3>4. GoodChunk(Chunk(s))
      BY <2>2 DEF TilesOf
    <3>5. /\ Characters(s) + part.length <= MaxCharacters
          /\ part.line - s[1].line + 1 <= MaxLines
      BY <2>2
    <3> HIDE DEF part
    <3> QED BY <1>1, <2>2, <3>3, <3>4, <3>5, ChunkOfMore
  <2> QED BY <2>1, <2>2
<1> HIDE DEF t
<1>6. TilesOf(P, n + 1, cs, t)
  BY <1>1, <1>j, <1>3, <1>4, <1>5 DEF TilesOf
<1> QED BY <1>6 DEF t

LEMMA ChunkIsClosed ==
    ASSUME NEW P \in Seq(PartSet), NEW n \in 0 .. Len(P), n < Len(P),
           NEW cs, NEW s, s # <<>>, TilesOf(P, n, cs, s)
    PROVE  TilesOf(P, n + 1, Append(cs, Chunk(s)), <<P[n + 1]>>)
<1> DEFINE part == P[n + 1]
           c == Chunk(s)
           ds == Append(cs, c)
<1>1. /\ part \in PartSet /\ n + 1 \in 0 .. Len(P) /\ n + 1 >= 1
      /\ s \in Seq(PartSet) /\ cs \in Seq(ChunkRows) /\ GoodChunk(c)
  BY DEF TilesOf
<1>2. c \in ChunkRows /\ c.parts = s
  BY <1>1 DEF GoodChunk, Chunk
<1>3. ds \in Seq(ChunkRows) /\ \A i \in DOMAIN ds : GoodChunk(ds[i])
  <2>1. \A i \in DOMAIN cs : GoodChunk(cs[i])
    BY DEF TilesOf
  <2> HIDE DEF c
  <2> QED BY <1>1, <1>2, <2>1
<1>4. FlattenSeq(PartsOf(ds)) = Join(FlattenSeq(PartsOf(cs)), s)
  <2> HIDE DEF c
  <2> QED BY <1>1, <1>2, PartsOfMore
<1>5. Join(Join(FlattenSeq(PartsOf(cs)), s), <<part>>) = SubSeq(P, 1, n + 1)
  BY TakeTile
<1>6. <<part>> \in Seq(PartSet) /\ <<part>> # <<>> /\ Len(<<part>>) = 1 /\ <<part>>[1] = part
  BY <1>1
<1>7. GoodChunk(Chunk(<<part>>))
  BY <1>1, ChunkOfOne
<1> HIDE DEF ds
<1>8. TilesOf(P, n + 1, ds, <<part>>)
  BY <1>1, <1>3, <1>4, <1>5, <1>6, <1>7 DEF TilesOf
<1> QED BY <1>8 DEF ds

-----------------------------------------------------------------------------
(* The texts of a file.                                                    *)

\* splitlines gives no fewer lines than the parser, and where the two count alike
\* they are the same.
LEMMA SourceLinesAre ==
    ASSUME NEW f, IsIndexed(f)
    PROVE  /\ SourceLines(f) \in Seq(Pieces)
           /\ Len(SourceLines(f)) >= Len(f.lines)
           /\ CountedAlike(f) =>
                /\ Len(SourceLines(f)) = Len(f.lines)
                /\ \A i \in 1 .. Len(f.lines) : SourceLines(f)[i] = f.lines[i][1]
<1> DEFINE ss == f.lines
           Alike(k, x) == Len(x) = k /\ \A i \in 1 .. k : x[i] = ss[i][1]
           G == [k \in Nat |-> {x \in Seq(Pieces) :
                                  Len(x) >= k /\ (CountedAlike(f) => Alike(k, x))}]
<1>1. ss \in Seq(Seq(Pieces)) /\ Len(ss) \in Nat
  BY DEF IsIndexed
<1>2. \A k \in 1 .. Len(ss) : /\ ss[k] \in Seq(Pieces) /\ Len(ss[k]) >= 1
                              /\ CountedAlike(f) => Len(ss[k]) = 1
  BY DEF IsIndexed, CountedAlike
<1> HIDE DEF ss
<1>3. <<>> \in G[0]
  OBVIOUS
<1>4. ASSUME NEW k \in 0 .. Len(ss) - 1, NEW x \in Seq(Pieces), x \in G[k]
      PROVE  Join(x, ss[k + 1]) \in G[k + 1]
  <2> DEFINE s == ss[k + 1]
             y == x \o s
  <2>1. k \in Nat /\ k + 1 \in Nat /\ k + 1 \in 1 .. Len(ss)
    BY <1>1
  <2>2. s \in Seq(Pieces) /\ Len(s) >= 1 /\ (CountedAlike(f) => Len(s) = 1)
    BY <1>2, <2>1
  <2>3. Len(x) >= k /\ (CountedAlike(f) => Alike(k, x))
    BY <1>4, <2>1
  <2>4. s[1] = ss[k + 1][1]
    OBVIOUS
  <2> HIDE DEF s
  <2>5. y \in Seq(Pieces) /\ Len(y) >= k + 1
    BY <2>1, <2>2, <2>3
  <2>6. ASSUME CountedAlike(f) PROVE Alike(k + 1, y)
    <3>1. Len(y) = k + 1 /\ Len(x) = k /\ Len(s) = 1
      <4>1. Len(y) = Len(x) + Len(s)
        BY <2>2
      <4>2. Len(x) = k /\ Len(s) = 1
        BY <2>2, <2>3, <2>6
      <4> HIDE DEF y
      <4> QED BY <2>1, <4>1, <4>2
    <3>2. ASSUME NEW i \in 1 .. k + 1 PROVE y[i] = ss[i][1]
      <4>1. CASE i = k + 1
        <5>1. y[k + 1] = s[1]
          BY <2>1, <2>2, <3>1
        <5> QED BY <2>4, <4>1, <5>1
      <4>2. CASE i # k + 1
        <5>1. i \in 1 .. k
          BY <2>1, <4>2
        <5>2. y[i] = x[i]
          BY <2>1, <2>2, <3>1, <5>1
        <5>3. x[i] = ss[i][1]
          BY <2>3, <2>6, <5>1
        <5> QED BY <5>2, <5>3
      <4> QED BY <4>1, <4>2
    <3> QED BY <3>1, <3>2
  <2> HIDE DEF y, Alike
  <2>7. y \in G[k + 1]
    BY <2>1, <2>5, <2>6
  <2> QED BY <2>7 DEF y, Join, s
<1>5. FlattenSeq(ss) \in G[Len(ss)] /\ FlattenSeq(ss) \in Seq(Pieces)
  <2> HIDE DEF G
  <2> QED BY <1>1, <1>3, <1>4, FlattenInduction
<1>6. SourceLines(f) = FlattenSeq(ss)
  BY DEF SourceLines, ss
<1> DEFINE z == FlattenSeq(ss)
<1>7. /\ z \in Seq(Pieces) /\ Len(z) >= Len(ss)
      /\ CountedAlike(f) => Alike(Len(ss), z)
  <2> HIDE DEF z, Alike
  <2>1. z \in G[Len(ss)]
    BY <1>5 DEF z
  <2> QED BY <1>1, <1>5, <2>1
<1> HIDE DEF z
<1> QED BY <1>6, <1>7 DEF ss, z

\* A symbol of a file that has a document type.
HasDocument(f, s) ==
    \E j \in DOMAIN f.symbols : s = f.symbols[j] /\ s.type \in DOMAIN SymbolDocumentType

LEMMA DocumentedAre ==
    ASSUME NEW f, IsIndexed(f)
    PROVE  /\ Documented(f) \in Seq(SymbolRows)
           /\ \A i \in DOMAIN Documented(f) : HasDocument(f, Documented(f)[i])
<1> DEFINE One(j) == IF f.symbols[j].type \in DOMAIN SymbolDocumentType
                     THEN <<f.symbols[j]>> ELSE <<>>
           ss == [j \in DOMAIN f.symbols |-> One(j)]
           G == [k \in Nat |-> {x \in Seq(SymbolRows) :
                                  \A i \in DOMAIN x : HasDocument(f, x[i])}]
<1>1. f.symbols \in Seq(SymbolRows)
  BY DEF IsIndexed
<1>2. DOMAIN f.symbols = 1 .. Len(f.symbols) /\ Len(f.symbols) \in Nat
  BY <1>1
<1>3. ASSUME NEW j \in 1 .. Len(f.symbols)
      PROVE  One(j) \in Seq(SymbolRows) /\ \A i \in DOMAIN One(j) : HasDocument(f, One(j)[i])
  <2>1. f.symbols[j] \in SymbolRows /\ j \in DOMAIN f.symbols
    BY <1>1, <1>2
  <2>2. CASE f.symbols[j].type \in DOMAIN SymbolDocumentType
    BY <2>1, <2>2 DEF HasDocument
  <2>3. CASE f.symbols[j].type \notin DOMAIN SymbolDocumentType
    BY <2>3
  <2> QED BY <2>2, <2>3
<1>4. \A j \in 1 .. Len(f.symbols) : ss[j] = One(j)
  BY <1>2
<1>5. ss \in [1 .. Len(f.symbols) -> Seq(SymbolRows)]
  BY <1>2, <1>3
<1>6. ss \in Seq(Seq(SymbolRows)) /\ Len(ss) = Len(f.symbols)
  BY <1>2, <1>5
<1>7. Documented(f) = FlattenSeq(ss)
  BY DEF Documented
<1>8. \A j \in 1 .. Len(f.symbols) :
         ss[j] \in Seq(SymbolRows) /\ \A i \in DOMAIN ss[j] : HasDocument(f, ss[j][i])
  <2> HIDE DEF One, ss
  <2> QED BY <1>3, <1>4
<1> HIDE DEF ss, One
<1>9. <<>> \in G[0]
  OBVIOUS
<1>10. ASSUME NEW k \in 0 .. Len(ss) - 1, NEW x \in Seq(SymbolRows), x \in G[k]
       PROVE  Join(x, ss[k + 1]) \in G[k + 1]
  <2> DEFINE s == ss[k + 1]
             y == x \o s
  <2>1. k \in Nat /\ k + 1 \in Nat /\ k + 1 \in 1 .. Len(f.symbols)
    BY <1>6, <1>2
  <2>2. s \in Seq(SymbolRows) /\ \A i \in DOMAIN s : HasDocument(f, s[i])
    BY <1>8, <2>1
  <2>3. \A i \in DOMAIN x : HasDocument(f, x[i])
    BY <1>10, <2>1
  <2> HIDE DEF s
  <2>4. y \in Seq(SymbolRows)
    BY <2>2
  <2>5. ASSUME NEW i \in DOMAIN y PROVE HasDocument(f, y[i])
    <3>1. \/ i \in DOMAIN x /\ y[i] = x[i]
          \/ i - Len(x) \in DOMAIN s /\ y[i] = s[i - Len(x)]
      BY <2>2
    <3> HIDE DEF y
    <3> QED BY <2>2, <2>3, <3>1
  <2> HIDE DEF y
  <2>6. y \in G[k + 1]
    BY <2>1, <2>4, <2>5
  <2> QED BY <2>6 DEF y, Join, s
<1>11. FlattenSeq(ss) \in G[Len(ss)]
  <2> HIDE DEF G
  <2> QED BY <1>6, <1>9, <1>10, FlattenInduction
<1>12. Len(ss) \in Nat
  BY <1>6
<1> DEFINE z == FlattenSeq(ss)
<1> HIDE DEF z
<1>13. z \in G[Len(ss)]
  BY <1>11 DEF z
<1>14. z \in Seq(SymbolRows) /\ \A i \in DOMAIN z : HasDocument(f, z[i])
  BY <1>12, <1>13
<1> QED BY <1>7, <1>14 DEF z

-----------------------------------------------------------------------------
(* The index.                                                              *)

\* The text of a symbol is that of its lines.
TextOf(t, f) ==
    \E j \in DOMAIN f.symbols :
       LET s == f.symbols[j] IN
       /\ s.id = t.symbol
       /\ t.base = s.first
       /\ t.lines = [n \in 1 .. (s.last - s.first + 1) |-> f.lines[s.first + n - 1][1]]

\* What a span of the parser gives, in a file whose lines are counted alike or not.
LEMMA SymbolTextIs ==
    ASSUME NEW f, IsIndexed(f), NEW s, HasDocument(f, s), s \in SymbolRows
    PROVE  /\ SpanValid(f, s)
           /\ SymbolText(f, s) \in TextRows
           /\ CountedAlike(f) => TextOf(SymbolText(f, s), f)
<1> DEFINE l == SourceLines(f)
           t == SymbolText(f, s)
<1>1. /\ l \in Seq(Pieces) /\ Len(l) >= Len(f.lines) /\ Len(l) \in Nat
      /\ CountedAlike(f) => /\ Len(l) = Len(f.lines)
                            /\ \A i \in 1 .. Len(f.lines) : l[i] = f.lines[i][1]
  BY SourceLinesAre
<1>2. /\ s.first \in Nat /\ s.last \in Nat /\ s.id \in Nat
      /\ 1 <= s.first /\ s.first <= s.last /\ s.last <= Len(f.lines)
      /\ s.type \in DOMAIN SymbolDocumentType /\ Len(f.lines) \in Nat
  <2> HIDE DEF l, t
  <2>1. PICK j \in DOMAIN f.symbols : s = f.symbols[j] /\ s.type \in DOMAIN SymbolDocumentType
    BY DEF HasDocument
  <2>2. /\ 1 <= s.first /\ s.first <= s.last /\ s.last <= Len(f.lines)
        /\ f.lines \in Seq(Seq(Pieces) \ {<<>>})
    BY <2>1 DEF IsIndexed
  <2>3. Len(f.lines) \in Nat
    BY <2>2
  <2>4. s.first \in Nat /\ s.last \in Nat /\ s.id \in Nat
    BY DEF SymbolRows
  <2> QED BY <2>1, <2>2, <2>3, <2>4, Zenon
<1>3. s.last <= Len(l) /\ l # <<>>
  BY <1>1, <1>2
<1>4. SpanValid(f, s)
  BY <1>2, <1>3 DEF SpanValid
<1>5. /\ t.symbol = s.id /\ t.base = s.first /\ t.lines = SubSeq(l, s.first, s.last)
      /\ t = [symbol |-> s.id, type |-> SymbolDocumentType[s.type],
              lines |-> SubSeq(l, s.first, s.last), base |-> s.first]
  BY DEF SymbolText, Text
<1>6. SymbolDocumentType[s.type] \in DocumentTypes
  <2>1. DOMAIN SymbolDocumentType = {"CLASS", "MODEL", "FUNCTION", "ROUTE", "METHOD"}
    BY DEF SymbolDocumentType
  <2>2. \A x \in DOMAIN SymbolDocumentType : SymbolDocumentType[x] \in DocumentTypes
    BY <2>1 DEF SymbolDocumentType, DocumentTypes
  <2> QED BY <1>2, <2>2
<1> DEFINE a == s.first
           b == s.last
<1>7. a \in 1 .. Len(l) /\ b \in 1 .. Len(l)
  BY <1>1, <1>2, <1>3
<1> HIDE DEF l, a, b
<1>8. /\ SubSeq(l, a, b) \in Seq(Pieces)
      /\ SubSeq(l, a, b) = [n \in 1 .. (b - a + 1) |-> l[a + n - 1]]
  BY <1>1, <1>7
<1>9. t \in TextRows
  BY <1>2, <1>5, <1>6, <1>8 DEF TextRows, a, b
<1>10. ASSUME CountedAlike(f) PROVE TextOf(t, f)
  <2>1. \A n \in 1 .. (b - a + 1) : l[a + n - 1] = f.lines[a + n - 1][1]
    BY <1>1, <1>7, <1>10
  <2>2. SubSeq(l, a, b) = [n \in 1 .. (b - a + 1) |-> f.lines[a + n - 1][1]]
    BY <1>8, <2>1
  <2>3. PICK j \in DOMAIN f.symbols : s = f.symbols[j]
    BY DEF HasDocument
  <2> QED BY <1>5, <2>2, <2>3 DEF TextOf, a, b
<1> QED BY <1>4, <1>9, <1>10

\* The texts and the tiles of the one in work.
IndexInv ==
    /\ \A f \in unindexed : IsIndexed(f)
    /\ indexing \in {"files", "chunks", "persisted", "SourceSnapshotError"}
    /\ texts \in Seq(TextRows)
    /\ indexing # "chunks" => texts = <<>>
    /\ texts = <<>> => consumed = 0 /\ open = <<>> /\ chunks = <<>>
    /\ texts # <<>> => TilesOf(Parts(texts[1]), consumed, chunks, open)
    /\ CountedAlike(current) =>
         \A i \in DOMAIN texts : texts[i].symbol # 0 => TextOf(texts[i], current)

LEMMA ReadFileStep ==
    ASSUME IndexInv, NEW f \in unindexed, ReadFile(f)
    PROVE  IndexInv'
<1> DEFINE whole == Text(0, FileDocumentType(f.category), SourceLines(f), 1)
           found == IF f.category = "SOURCE" THEN Documented(f) ELSE <<>>
           rest  == [i \in DOMAIN found |-> SymbolText(f, found[i])]
<1>1. IsIndexed(f) /\ texts = <<>> /\ consumed = 0 /\ open = <<>> /\ chunks = <<>>
  BY DEF IndexInv, ReadFile
<1>2. found \in Seq(SymbolRows) /\ \A i \in DOMAIN found : HasDocument(f, found[i])
  BY <1>1, DocumentedAre
<1>3. ReadFile(f) =>
        /\ unindexed' = unindexed \ {f} /\ current' = f
        /\ IF \A i \in DOMAIN found : SpanValid(f, found[i])
           THEN indexing' = "chunks" /\ texts' = <<whole>> \o rest
           ELSE indexing' = "INVALID_SYMBOL_SPAN" /\ texts' = <<>>
        /\ UNCHANGED <<consumed, open, chunks, documents, exclusions>>
  BY DEF ReadFile
<1>4. whole \in TextRows /\ whole.symbol = 0
  <2>1. FileDocumentType(f.category) \in DocumentTypes
    BY DEF FileDocumentType, DocumentTypes
  <2>2. SourceLines(f) \in Seq(Pieces)
    BY <1>1, SourceLinesAre
  <2> QED BY <2>1, <2>2 DEF Text, TextRows
<1> HIDE DEF found, whole
<1>5. \A i \in DOMAIN found : /\ SpanValid(f, found[i])
                              /\ rest[i] \in TextRows
                              /\ CountedAlike(f) => TextOf(rest[i], f)
  <2> SUFFICES ASSUME NEW i \in DOMAIN found
               PROVE  /\ SpanValid(f, found[i])
                      /\ rest[i] \in TextRows
                      /\ CountedAlike(f) => TextOf(rest[i], f)
    OBVIOUS
  <2> DEFINE s == found[i]
  <2>1. s \in SymbolRows /\ HasDocument(f, s) /\ rest[i] = SymbolText(f, s)
    BY <1>2
  <2> HIDE DEF s, rest
  <2> QED BY <1>1, <2>1, SymbolTextIs DEF s
<1>6. rest \in Seq(TextRows) /\ DOMAIN rest = DOMAIN found
  <2>1. DOMAIN found = 1 .. Len(found) /\ Len(found) \in Nat
    BY <1>2
  <2>2. rest \in [1 .. Len(found) -> TextRows]
    BY <1>5, <2>1
  <2> QED BY <2>1, <2>2
<1>7. indexing' = "chunks" /\ texts' = <<whole>> \o rest
  BY <1>3, <1>5
<1> HIDE DEF rest
<1>8. /\ texts' \in Seq(TextRows) /\ texts' # <<>> /\ texts'[1] = whole
      /\ \A i \in DOMAIN texts' : i # 1 => i - 1 \in DOMAIN rest /\ texts'[i] = rest[i - 1]
  BY <1>4, <1>6, <1>7
<1>9. TilesOf(Parts(whole), 0, <<>>, <<>>)
  BY <1>4, PartsAreOrdered, NoTiles
<1>10. TilesOf(Parts(texts'[1]), consumed', chunks', open')
  BY <1>1, <1>3, <1>8, <1>9
<1>11. ASSUME CountedAlike(f), NEW i \in DOMAIN texts', texts'[i].symbol # 0
       PROVE  TextOf(texts'[i], f)
  BY <1>4, <1>5, <1>6, <1>8, <1>11
<1> QED BY <1>3, <1>7, <1>8, <1>10, <1>11 DEF IndexInv

LEMMA TakePartStep ==
    ASSUME IndexInv, TakePart
    PROVE  IndexInv'
<1> DEFINE P == Parts(texts[1])
           n == consumed
           part == P[n + 1]
<1>1. texts # <<>> /\ texts[1] \in TextRows /\ indexing = "chunks"
  BY DEF IndexInv, TakePart
<1>2. P \in Seq(PartSet) /\ Ordered(P)
  BY <1>1, PartsAreOrdered
<1>3. TilesOf(P, n, chunks, open)
  BY <1>1 DEF IndexInv
<1>4. n \in 0 .. Len(P) /\ n < Len(P)
  <2>1. n \in 0 .. Len(P) /\ Len(P) \in Nat /\ Len(P) - n > 0
    BY <1>2, <1>3 DEF TilesOf, TakePart, Remaining
  <2> HIDE DEF P, n
  <2> QED BY <2>1
<1>5. /\ UNCHANGED <<indexing, unindexed, current, texts>> /\ consumed' = n + 1
      /\ IF Full(part)
         THEN chunks' = Append(chunks, Chunk(open)) /\ open' = <<part>>
         ELSE chunks' = chunks /\ open' = Append(open, part)
  BY DEF TakePart
<1>6. Full(part) <=> /\ open # <<>>
                     /\ \/ Characters(open) + part.length > MaxCharacters
                        \/ part.line - open[1].line + 1 > MaxLines
  BY DEF Full
<1>7. part \in PartSet
  BY <1>2, <1>4
<1> HIDE DEF P, n
<1>8. TilesOf(P, n + 1, chunks', open')
  <2>1. CASE Full(part)
    <3>1. open # <<>>
      BY <1>6, <2>1
    <3>2. TilesOf(P, n + 1, Append(chunks, Chunk(open)), <<P[n + 1]>>)
      BY <1>2, <1>3, <1>4, <3>1, ChunkIsClosed
    <3> QED BY <1>5, <2>1, <3>2
  <2>2. CASE ~Full(part)
    <3>1. open # <<>> => /\ Characters(open) + part.length <= MaxCharacters
                         /\ part.line - open[1].line + 1 <= MaxLines
      <4> SUFFICES ASSUME open # <<>>
                   PROVE  /\ Characters(open) + part.length <= MaxCharacters
                          /\ part.line - open[1].line + 1 <= MaxLines
        OBVIOUS
      <4>1. open \in Seq(PartSet) /\ open[1] \in PartSet
        BY <1>3 DEF TilesOf
      <4>2. /\ Characters(open) \in Nat /\ part.length \in Nat
            /\ part.line \in Nat /\ open[1].line \in Nat
        BY <1>7, <4>1, CharactersType, PartType
      <4> HIDE DEF part
      <4> QED BY <1>6, <2>2, <4>2, IndexConstants
    <3>2. TilesOf(P, n + 1, chunks, Append(open, P[n + 1]))
      BY <1>2, <1>3, <1>4, <3>1, OpenGrows
    <3> QED BY <1>5, <2>2, <3>2
  <2> QED BY <2>1, <2>2
<1> QED BY <1>1, <1>5, <1>8 DEF IndexInv, P, n

LEMMA EndTextStep ==
    ASSUME IndexInv, EndText
    PROVE  IndexInv'
<1>1. /\ texts # <<>> /\ texts \in Seq(TextRows) /\ indexing = "chunks"
      /\ texts' = Tail(texts) /\ consumed' = 0 /\ open' = <<>> /\ chunks' = <<>>
      /\ UNCHANGED <<indexing, unindexed, current>>
  BY DEF IndexInv, EndText
<1>2. /\ texts' \in Seq(TextRows)
      /\ \A i \in DOMAIN texts' : i + 1 \in DOMAIN texts /\ texts'[i] = texts[i + 1]
  BY <1>1
<1>3. ASSUME texts' # <<>> PROVE TilesOf(Parts(texts'[1]), 0, <<>>, <<>>)
  <2>1. texts'[1] \in TextRows
    BY <1>2, <1>3
  <2> QED BY <2>1, PartsAreOrdered, NoTiles
<1> QED BY <1>1, <1>2, <1>3 DEF IndexInv

THEOREM IndexInvariant == IndexSpec => []IndexInv
<1>1. IndexInit => IndexInv
  BY IndexConstants DEF IndexInit, IndexInv
<1>2. IndexInv /\ [IndexNext]_indexVars => IndexInv'
  <2> SUFFICES ASSUME IndexInv, [IndexNext]_indexVars PROVE IndexInv'
    OBVIOUS
  <2>1. ASSUME NEW f \in unindexed, Exclude(f) PROVE IndexInv'
    BY <2>1 DEF Exclude, IndexInv
  <2>2. ASSUME NEW f \in unindexed, ReadFails(f) PROVE IndexInv'
    BY <2>2 DEF ReadFails, IndexInv
  <2>3. ASSUME NEW f \in unindexed, ReadFile(f) PROVE IndexInv'
    BY <2>3, ReadFileStep
  <2>4. ASSUME TakePart PROVE IndexInv'
    BY <2>4, TakePartStep
  <2>5. ASSUME EndText PROVE IndexInv'
    BY <2>5, EndTextStep
  <2>6. ASSUME EndIndexedFile PROVE IndexInv'
    BY <2>6 DEF EndIndexedFile, IndexInv
  <2>7. ASSUME PersistDocuments PROVE IndexInv'
    BY <2>7 DEF PersistDocuments, IndexInv
  <2>8. ASSUME UNCHANGED indexVars PROVE IndexInv'
    BY <2>8 DEF indexVars, IndexInv
  <2> QED BY <2>1, <2>2, <2>3, <2>4, <2>5, <2>6, <2>7, <2>8 DEF IndexNext
<1> QED BY <1>1, <1>2, PTL DEF IndexSpec

\* The chunks of a text and the open one hold its parts, in order and each once,
\* within both limits, for every file and any limits.
THEOREM ChunksTheorem == IndexSpec => []ChunksTile
<1>1. IndexInv => ChunksTile
  <2> SUFFICES ASSUME IndexInv, indexing = "chunks", texts # <<>> PROVE ChunksTile
    BY DEF ChunksTile
  <2> DEFINE P == Parts(texts[1])
             all == IF open = <<>> THEN chunks ELSE Append(chunks, Chunk(open))
  <2>1. TilesOf(P, consumed, chunks, open)
    BY DEF IndexInv
  <2>2. /\ all \in Seq(ChunkRows) /\ \A i \in DOMAIN all : GoodChunk(all[i])
        /\ FlattenSeq(PartsOf(all)) = SubSeq(P, 1, consumed)
    <3>1. /\ chunks \in Seq(ChunkRows) /\ \A i \in DOMAIN chunks : GoodChunk(chunks[i])
          /\ open \in Seq(PartSet)
          /\ Join(FlattenSeq(PartsOf(chunks)), open) = SubSeq(P, 1, consumed)
      BY <2>1 DEF TilesOf
    <3>2. CASE open = <<>>
      <4>1. FlattenSeq(PartsOf(chunks)) \in Seq(PartSet)
        BY <3>1, PartsOfType, FlattenType
      <4>2. Join(FlattenSeq(PartsOf(chunks)), <<>>) = FlattenSeq(PartsOf(chunks))
        BY <4>1 DEF Join
      <4>3. all = chunks
        BY <3>2
      <4> QED BY <3>1, <3>2, <4>2, <4>3
    <3>3. CASE open # <<>>
      <4> DEFINE c == Chunk(open)
      <4>1. GoodChunk(c) /\ c \in ChunkRows /\ c.parts = open /\ all = Append(chunks, c)
        BY <2>1, <3>3 DEF TilesOf, GoodChunk, Chunk
      <4> HIDE DEF c, all
      <4>2. FlattenSeq(PartsOf(Append(chunks, c))) = Join(FlattenSeq(PartsOf(chunks)), open)
        BY <3>1, <4>1, PartsOfMore
      <4>3. Append(chunks, c) \in Seq(ChunkRows)
            /\ \A i \in DOMAIN Append(chunks, c) : GoodChunk(Append(chunks, c)[i])
        BY <3>1, <4>1
      <4> QED BY <3>1, <4>1, <4>2, <4>3
    <3> QED BY <3>2, <3>3
  <2> HIDE DEF all
  <2>3. [i \in DOMAIN all |-> all[i].parts] = PartsOf(all)
    BY DEF PartsOf
  <2>4. ASSUME NEW i \in DOMAIN all
        PROVE  /\ Characters(all[i].parts) <= MaxCharacters
               /\ all[i].end - all[i].start + 1 <= MaxLines
               /\ \A j \in DOMAIN all[i].parts :
                    all[i].parts[j].line \in all[i].start .. all[i].end
    <3> DEFINE c == all[i]
               ps == c.parts
    <3>1. GoodChunk(c)
      BY <2>2
    <3>2. /\ ps \in Seq(PartSet) /\ ps # <<>> /\ Ordered(ps)
          /\ c.start = ps[1].line /\ c.end = ps[Len(ps)].line
      BY <3>1 DEF GoodChunk, ChunkRows
    <3> HIDE DEF c, ps
    <3>3. ASSUME NEW j \in DOMAIN ps PROVE ps[j].line \in c.start .. c.end
      <4>1. 1 \in DOMAIN ps /\ Len(ps) \in DOMAIN ps /\ 1 <= j /\ j <= Len(ps)
        BY <3>2
      <4>2. ps[1].line <= ps[j].line /\ ps[j].line <= ps[Len(ps)].line
        BY <3>2, <4>1 DEF Ordered
      <4>3. ps[j].line \in Nat /\ ps[1].line \in Nat /\ ps[Len(ps)].line \in Nat
        BY <3>2, <4>1, PartType
      <4> QED BY <3>2, <4>2, <4>3
    <3> QED BY <3>1, <3>3 DEF GoodChunk, c, ps
  <2> QED BY <2>2, <2>3, <2>4 DEF ChunksTile, all
<1> QED BY IndexInvariant, <1>1, PTL

\* In a file whose lines str.splitlines and the parser count alike, no span of a
\* symbol is refused and its text is the text of its lines.
THEOREM SymbolTextTheorem == IndexSpec => []SymbolTextIsItsLines
<1>1. IndexInv => SymbolTextIsItsLines
  BY DEF IndexInv, SymbolTextIsItsLines, TextOf
<1> QED BY IndexInvariant, <1>1, PTL

=============================================================================
