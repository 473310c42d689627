--------------------------- MODULE LanguageProfile ---------------------------
(***************************************************************************)
(* detect_language (languages/detector.py) and                             *)
(* profile_repository_languages (languages/profiler.py): each file of the  *)
(* inventory is counted under its language as generated, vendored or       *)
(* first-party source; a project marker names the languages of its         *)
(* component; then the languages are ranked by bytes and the repository is *)
(* UNKNOWN, SINGLE_LANGUAGE or POLYGLOT.                                   *)
(***************************************************************************)
EXTENDS Naturals, Sequences, FiniteSets, FiniteSetsExt

CONSTANTS
    Inventories,        \* sets of files; a file is a record
    LanguageOrder,      \* the languages in the order of their names
    MarkerLanguages,    \* marker file name -> its languages
    Registered,         \* languages of the registered extractors
    Threshold           \* polyglot_threshold_percent

Languages == {LanguageOrder[i] : i \in DOMAIN LanguageOrder}

\* What the profiler reads of a file; "NONE" is no language.
IsProfiled(f) ==
    /\ {f.extension, f.filename, f.shebang} \subseteq Languages \cup {"NONE"}
    /\ {f.generated, f.vendored} \subseteq BOOLEAN
    /\ f.size \in Nat

\* An inventory is finite, and the names of the languages are distinct.
ASSUME ProfileConstants ==
    /\ \A files \in Inventories : IsFiniteSet(files) /\ \A f \in files : IsProfiled(f)
    /\ LanguageOrder \in Seq(Languages) /\ "NONE" \notin Languages
    /\ \A i, j \in DOMAIN LanguageOrder : LanguageOrder[i] = LanguageOrder[j] => i = j
    /\ Registered \subseteq Languages
    /\ \A n \in DOMAIN MarkerLanguages : MarkerLanguages[n] \subseteq Languages
    /\ Threshold \in Nat

VARIABLES
    profiling,      \* where the profiler is
    inventory,      \* result.files
    uncounted,      \* those the first loop has not met
    counts,         \* language -> files and bytes of each kind
    components,     \* source_files_by_language
    unprofiled,     \* unprofiled_file_count
    marked,         \* marker_component_languages
    profile         \* RepositoryLanguageProfile, <<>> before the end

profileVars == <<profiling, inventory, uncounted, counts, components, unprofiled, marked,
                 profile>>

-----------------------------------------------------------------------------
\* detect_language: extension, then file name, then the interpreter line; each
\* field holds the language that evidence points to, or "NONE".
Detected(f) ==
    IF f.extension # "NONE" THEN f.extension
    ELSE IF f.filename # "NONE" THEN f.filename
    ELSE f.shebang

\* Bug: a vendored file is taken for source before it is looked at.
KindByCategoryFirst(f) ==
    IF f.category \in {"SOURCE", "TEST"} THEN "source"
    ELSE IF f.generated THEN "generated"
    ELSE IF f.vendored THEN "vendored"
    ELSE "none"

\* The branches of the first loop.
KindOf(f) ==
    IF f.generated THEN "generated"
    ELSE IF f.vendored THEN "vendored"
    ELSE IF f.category \in {"SOURCE", "TEST"} THEN "source"
    ELSE "none"

Kinds0 == [generated |-> 0, vendored |-> 0, source |-> 0]

\* One file of the first loop.
CountFile(f) ==
    LET language == Detected(f)
        kind     == KindOf(f)
    IN
    /\ profiling = "counting"
    /\ uncounted' = uncounted \ {f}
    /\ unprofiled' = IF language = "NONE" /\ f.category = "OTHER"
                     THEN unprofiled + 1 ELSE unprofiled
    /\ IF language = "NONE" \/ kind = "none"
       THEN UNCHANGED <<counts, components>>
       ELSE /\ counts' = [counts EXCEPT ![language].files[kind] = @ + 1,
                                        ![language].bytes[kind] = @ + f.size]
            /\ components' = IF kind = "source"
                             THEN [components EXCEPT ![language] = @ \cup {f}]
                             ELSE components
    /\ UNCHANGED <<profiling, inventory, marked, profile>>

IsBelow(f, directory) ==
    Len(directory) <= Len(f.directory) /\ SubSeq(f.directory, 1, Len(directory)) = directory

\* The second loop: a marker speaks for the languages of its component.
ReadMarkers ==
    /\ profiling = "counting"
    /\ uncounted = {}
    /\ profiling' = "marked"
    /\ marked' = {l \in Languages : \E m \in inventory :
                     /\ m.name \in DOMAIN MarkerLanguages
                     /\ l \in MarkerLanguages[m.name]
                     /\ \E f \in components[l] : IsBelow(f, m.directory)}
    /\ UNCHANGED <<inventory, uncounted, counts, components, unprofiled, profile>>

Total(field) == MapThenSumSet(LAMBDA l : counts[l][field].source, Languages)

\* The languages that counts has a key for, and those ranked by source bytes.
Listed == {l \in Languages : \E k \in DOMAIN Kinds0 : counts[l].files[k] > 0}
Ranked == {l \in Listed : counts[l].bytes.source > 0}

Rank(l) == CHOOSE i \in DOMAIN LanguageOrder : LanguageOrder[i] = l

\* ranked[0]: most bytes, then the name.
Primary(l) ==
    /\ l \in Ranked
    /\ \A m \in Ranked \ {l} :
         \/ counts[l].bytes.source > counts[m].bytes.source
         \/ counts[l].bytes.source = counts[m].bytes.source /\ Rank(l) < Rank(m)

\* The threshold is compared with the percentage rounded to four digits; the
\* rounding is left out.
Material == {l \in Ranked : counts[l].bytes.source * 100 >= Threshold * Total("bytes")}

RepositoryType ==
    IF Ranked = {} THEN "UNKNOWN"
    ELSE IF Cardinality(Material) >= 2 \/ Cardinality(marked) >= 2 THEN "POLYGLOT"
    ELSE "SINGLE_LANGUAGE"

\* Statistics, ranking and type; a language without an extractor is UNSUPPORTED
\* (ExtractorRegistry.descriptor_for).
Summarize ==
    /\ profiling = "marked"
    /\ profiling' = "done"
    /\ profile' = [type      |-> RepositoryType,
                   primary   |-> IF Ranked = {} THEN "NONE" ELSE CHOOSE l \in Ranked : Primary(l),
                   files     |-> Total("files"),
                   bytes     |-> Total("bytes"),
                   languages |-> Listed,
                   supported |-> Listed \cap Registered]
    /\ UNCHANGED <<inventory, uncounted, counts, components, unprofiled, marked>>

NoCounts ==
    /\ counts = [l \in Languages |-> [files |-> Kinds0, bytes |-> Kinds0]]
    /\ components = [l \in Languages |-> {}]
    /\ unprofiled = 0 /\ marked = {} /\ profile = <<>>

ProfileIdle ==
    profiling = "idle" /\ inventory = {} /\ uncounted = {} /\ NoCounts

ProfileInit ==
    /\ profiling = "counting" /\ inventory \in Inventories /\ uncounted = inventory /\ NoCounts

ProfileNext ==
    \/ \E f \in uncounted : (\A g \in uncounted : f.id <= g.id) /\ CountFile(f)
    \/ ReadMarkers \/ Summarize

ProfileSpec == ProfileInit /\ [][ProfileNext]_profileVars

-----------------------------------------------------------------------------
FirstParty(l) ==
    {f \in inventory : /\ Detected(f) = l /\ ~f.generated /\ ~f.vendored
                       /\ f.category \in {"SOURCE", "TEST"}}

Bytes(files) == MapThenSumSet(LAMBDA f : f.size, files)

\* What is vendored, generated or no source at all never shapes the profile: the
\* type and primary language follow from the bytes of first-party source, and
\* POLYGLOT needs two languages with first-party files.
ProfileIsFirstParty ==
    profiling = "done" =>
        LET present == {l \in Languages : FirstParty(l) # {}} IN
        /\ profile.type = "POLYGLOT" => Cardinality(present) >= 2
        /\ profile.type = "UNKNOWN" <=> \A l \in present : Bytes(FirstParty(l)) = 0
        /\ profile.primary # "NONE" =>
             \A l \in present : Bytes(FirstParty(l)) <= Bytes(FirstParty(profile.primary))
        /\ profile.bytes = Bytes(UNION {FirstParty(l) : l \in Languages})
        /\ present \subseteq profile.languages
=============================================================================
