---------------------------- MODULE ContextIndex ----------------------------
(***************************************************************************)
(* build_context_documents and persist_context_documents                   *)
(* (retrieval/indexing.py): the files of a scan, in path order, are left   *)
(* out for a reason or read again and cut into documents: first the text   *)
(* of the file, then, for a SOURCE file, the text of each symbol that has  *)
(* a document type.  _bounded_chunks cuts a text at line ends so that no   *)
(* chunk passes either limit, and a line that is too long into parts.      *)
(*                                                                         *)
(* A line of a file is a line of the Python parser: the sequence of the    *)
(* pieces str.splitlines makes of it, more than one when it holds a form   *)
(* feed or another separator that is no line end for the parser.  A piece  *)
(* is its length and whether it is white space only.                       *)
(***************************************************************************)
EXTENDS Naturals, Sequences, SequencesExt

CONSTANTS
    IndexFiles,         \* sets of files of a scan; a file is a record
    MaxCharacters,      \* MAX_DOCUMENT_CHARACTERS
    MaxLines            \* MAX_DOCUMENT_LINES


VARIABLES
    indexing,       \* where the index is
    unindexed,      \* files of the scan not yet considered
    current,        \* the file whose texts are being cut
    texts,          \* its texts still to be cut, the first one in work
    consumed,       \* parts of that text already taken
    open,           \* the parts of the chunk being filled: current in the code
    chunks,         \* the chunks of that text: parts, start_line, end_line
    documents,      \* the drafts
    exclusions      \* <<file, reason>>

indexVars == <<indexing, unindexed, current, texts, consumed, open, chunks, documents,
               exclusions>>

-----------------------------------------------------------------------------
IndexedCategories == {"SOURCE", "TEST", "DOCUMENTATION", "CONFIGURATION", "DEPENDENCY"}

\* _exclusion_reason
ExclusionReason(f) ==
    IF f.category \notin IndexedCategories THEN "UNAPPROVED_CATEGORY"
    ELSE IF f.generated THEN "GENERATED"
    ELSE IF f.vendored THEN "VENDORED"
    ELSE IF f.secrets THEN "SECRET_FLAGGED"
    ELSE "NONE"

\* _file_document_type
FileDocumentType(category) ==
    CASE category = "TEST"                           -> "TEST"
      [] category = "DOCUMENTATION"                  -> "DOCUMENTATION_SECTION"
      [] category \in {"CONFIGURATION", "DEPENDENCY"} -> "CONFIGURATION_SECTION"
      [] OTHER                                       -> "MODULE"

\* _symbol_document_type; the others have no document.
SymbolDocumentType ==
    [CLASS |-> "CLASS", MODEL |-> "CLASS", FUNCTION |-> "FUNCTION", ROUTE |-> "FUNCTION",
     METHOD |-> "METHOD"]

Pieces      == [length : Nat, blank : BOOLEAN]
SymbolRows  == [id : Nat \ {0}, type : STRING, first : Nat, last : Nat]

\* What the index reads of a file: its lines, and symbols whose spans are lines of
\* the parser.
IsIndexed(f) ==
    /\ f.lines \in Seq(Seq(Pieces) \ {<<>>}) /\ f.symbols \in Seq(SymbolRows)
    /\ \A i \in DOMAIN f.symbols :
         f.symbols[i].type \in DOMAIN SymbolDocumentType =>
             /\ 1 <= f.symbols[i].first /\ f.symbols[i].first <= f.symbols[i].last
             /\ f.symbols[i].last <= Len(f.lines)

ASSUME IndexConstants ==
    /\ MaxCharacters \in Nat \ {0} /\ MaxLines \in Nat \ {0}
    /\ \A files \in IndexFiles : \A f \in files : IsIndexed(f)

\* content.splitlines(keepends=True)
SourceLines(f) == FlattenSeq(f.lines)

Text(symbol, type, lines, base) ==
    [symbol |-> symbol, type |-> type, lines |-> lines, base |-> base]

\* The symbols of a file that have a document type, in their order.
Documented(f) ==
    FlattenSeq([i \in DOMAIN f.symbols |->
                    IF f.symbols[i].type \in DOMAIN SymbolDocumentType
                    THEN <<f.symbols[i]>> ELSE <<>>])

\* Bug: a slice that leaves out the last line of the symbol.
SymbolTextShort(f, s) ==
    Text(s.id, SymbolDocumentType[s.type], SubSeq(SourceLines(f), s.first, s.last - 1), s.first)

\* source_lines[start_line - 1 : end_line]
SymbolText(f, s) ==
    Text(s.id, SymbolDocumentType[s.type], SubSeq(SourceLines(f), s.first, s.last), s.first)

SpanValid(f, s) ==
    /\ 1 <= s.first /\ s.first <= s.last
    /\ s.last <= IF SourceLines(f) = <<>> THEN 1 ELSE Len(SourceLines(f))

-----------------------------------------------------------------------------
\* The parts of a text: a line in pieces of at most MaxCharacters, each with the
\* number of its line.
PartsOfLine(line, number) ==
    [i \in 1 .. ((line.length + MaxCharacters - 1) \div MaxCharacters) |->
        [length |-> IF i * MaxCharacters <= line.length THEN MaxCharacters
                    ELSE line.length % MaxCharacters,
         blank |-> line.blank, line |-> number]]

Parts(text) ==
    FlattenSeq([i \in DOMAIN text.lines |->
                    PartsOfLine(text.lines[i], text.base + i - 1)])

Characters(parts) == SumFunction([i \in DOMAIN parts |-> parts[i].length])

\* Bug: the part itself is not counted before it is added.
FullBefore(part) ==
    /\ open # <<>>
    /\ \/ Characters(open) > MaxCharacters
       \/ part.line - open[1].line + 1 > MaxLines

\* The test of the loop: the part does not fit into the chunk being filled.
Full(part) ==
    /\ open # <<>>
    /\ \/ Characters(open) + part.length > MaxCharacters
       \/ part.line - open[1].line + 1 > MaxLines

Chunk(parts) == [parts |-> parts, start |-> parts[1].line, end |-> Last(parts).line]

\* The next file is left out.
Exclude(f) ==
    /\ indexing = "files"
    /\ ExclusionReason(f) # "NONE"
    /\ exclusions' = exclusions \cup {<<f.path, ExclusionReason(f)>>}
    /\ unindexed' = unindexed \ {f}
    /\ UNCHANGED <<indexing, current, texts, consumed, open, chunks, documents>>

\* The next file is read and its hash compared; any failure ends the index
\* (_read_verified_text raises), and the scan.
ReadFails(f) ==
    /\ indexing = "files"
    /\ ExclusionReason(f) = "NONE"
    /\ indexing' = "SourceSnapshotError"
    /\ UNCHANGED <<unindexed, current, texts, consumed, open, chunks, documents, exclusions>>

ReadFile(f) ==
    LET whole == Text(0, FileDocumentType(f.category), SourceLines(f), 1)
        found == IF f.category = "SOURCE" THEN Documented(f) ELSE <<>>
    IN
    /\ indexing = "files"
    /\ ExclusionReason(f) = "NONE"
    /\ unindexed' = unindexed \ {f}
    /\ current' = f
    /\ IF \A i \in DOMAIN found : SpanValid(f, found[i])
       THEN /\ indexing' = "chunks"
            /\ texts' = <<whole>> \o [i \in DOMAIN found |-> SymbolText(f, found[i])]
       ELSE /\ indexing' = "INVALID_SYMBOL_SPAN"
            /\ texts' = <<>>
    /\ UNCHANGED <<consumed, open, chunks, documents, exclusions>>

Remaining == Len(Parts(texts[1])) - consumed

\* One round of the loop of _bounded_chunks.
TakePart ==
    /\ indexing = "chunks"
    /\ texts # <<>>
    /\ Remaining > 0
    /\ LET part == Parts(texts[1])[consumed + 1] IN
         IF Full(part)
         THEN chunks' = Append(chunks, Chunk(open)) /\ open' = <<part>>
         ELSE chunks' = chunks /\ open' = Append(open, part)
    /\ consumed' = consumed + 1
    /\ UNCHANGED <<indexing, unindexed, current, texts, documents, exclusions>>

\* The last flush, and the drafts of the chunks that are not blank.
EndText ==
    LET all  == IF open = <<>> THEN chunks ELSE Append(chunks, Chunk(open))
        kept == SelectSeq(all, LAMBDA c : \E i \in DOMAIN c.parts : ~c.parts[i].blank)
    IN
    /\ indexing = "chunks"
    /\ texts # <<>>
    /\ Remaining = 0
    /\ documents' = documents \cup
           {[path |-> current.path, symbol |-> texts[1].symbol, type |-> texts[1].type,
             chunk |-> kept[i]] : i \in DOMAIN kept}
    /\ texts' = Tail(texts)
    /\ consumed' = 0 /\ open' = <<>> /\ chunks' = <<>>
    /\ UNCHANGED <<indexing, unindexed, current, exclusions>>

EndIndexedFile ==
    /\ indexing = "chunks"
    /\ texts = <<>>
    /\ indexing' = "files"
    /\ UNCHANGED <<unindexed, current, texts, consumed, open, chunks, documents, exclusions>>

\* persist_context_documents: the drafts are added and flushed.
PersistDocuments ==
    /\ indexing = "files"
    /\ unindexed = {}
    /\ indexing' = "persisted"
    /\ UNCHANGED <<unindexed, current, texts, consumed, open, chunks, documents, exclusions>>

NextIndexed(f) == f \in unindexed /\ \A g \in unindexed : f.path <= g.path

IndexIdle ==
    /\ indexing = "idle" /\ unindexed = {} /\ current = <<>>
    /\ texts = <<>> /\ consumed = 0 /\ open = <<>> /\ chunks = <<>>
    /\ documents = {} /\ exclusions = {}

IndexInit ==
    /\ indexing = "files" /\ unindexed \in IndexFiles /\ current = <<>>
    /\ texts = <<>> /\ consumed = 0 /\ open = <<>> /\ chunks = <<>>
    /\ documents = {} /\ exclusions = {}

IndexNext ==
    \/ \E f \in unindexed : NextIndexed(f) /\ (Exclude(f) \/ ReadFails(f) \/ ReadFile(f))
    \/ TakePart \/ EndText \/ EndIndexedFile \/ PersistDocuments

IndexSpec == IndexInit /\ [][IndexNext]_indexVars

-----------------------------------------------------------------------------
\* The chunks of a text, with the one being filled, hold the parts of the text
\* taken so far, in order and each once; none passes a limit; and the lines a
\* chunk says it spans are those of its first and last part.
ChunksTile ==
    indexing = "chunks" /\ texts # <<>> =>
        LET all == IF open = <<>> THEN chunks ELSE Append(chunks, Chunk(open)) IN
        /\ FlattenSeq([i \in DOMAIN all |-> all[i].parts])
               = SubSeq(Parts(texts[1]), 1, consumed)
        /\ \A i \in DOMAIN all :
             /\ Characters(all[i].parts) <= MaxCharacters
             /\ all[i].end - all[i].start + 1 <= MaxLines
             /\ \A j \in DOMAIN all[i].parts :
                  all[i].parts[j].line \in all[i].start .. all[i].end

\* A file whose lines str.splitlines and the parser count alike.
CountedAlike(f) == \A i \in DOMAIN f.lines : Len(f.lines[i]) = 1

\* In such a file no symbol span is refused, and when a symbol's text is cut it is
\* the text of its lines: what a citation of the symbol shows is the symbol.
SymbolTextIsItsLines ==
    indexing \in {"chunks", "INVALID_SYMBOL_SPAN"} /\ CountedAlike(current) =>
        /\ indexing = "chunks"
        /\ \A i \in DOMAIN texts : texts[i].symbol # 0 =>
             \E j \in DOMAIN current.symbols :
                LET s == current.symbols[j] IN
                /\ s.id = texts[i].symbol
                /\ texts[i].base = s.first
                /\ texts[i].lines =
                     [n \in 1 .. (s.last - s.first + 1) |-> current.lines[s.first + n - 1][1]]
=============================================================================
