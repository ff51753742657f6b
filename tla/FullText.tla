------------------------------ MODULE FullText ------------------------------
(***************************************************************************)
(* FullTextService (src/src/features/fulltext/service.py): the cache of    *)
(* paper contents that the relevance and the translation phase share.  A   *)
(* paper has two files, its text and the metadata that name the text by    *)
(* its hash; they are written one after the other, and a process may die   *)
(* before, between and inside the two writes.                              *)
(***************************************************************************)
EXTENDS Naturals, Sequences, SequencesExt

CONSTANTS
    Papers,         \* the stories _is_paper accepts, as a sequence
    Candidates,     \* paper -> its _candidate_urls, by source format
    Lengths         \* what an extraction can measure: "fits", "long"

PaperSet == ToSet(Papers)
NoFile == [format |-> "absent", status |-> "absent"]
Torn == [format |-> "torn", status |-> "torn"]

VARIABLES
    text,           \* paper -> its .txt file
    meta,           \* paper -> its .json file
    aged,           \* the papers whose .json is older than 180 days
    documents,      \* what load_for_stories has collected
    todo,           \* the papers it has yet to load
    saving          \* the document whose .json is still to be written

filesVars == <<text, meta, aged>>
textVars == <<text, meta, aged, documents, todo, saving>>

NoDocuments == [p \in {} |-> NoFile]

(* _build_document: a text over the limit is compacted whatever it is, and    *)
(* the note on missing pages counts only for a text that is not.  Format and  *)
(* status stand for the text: two documents that agree on them have one hash. *)
BuildDocument(format, length, note) ==
    [format |-> format,
     status |-> IF length = "long" THEN "compacted"
               ELSE IF format = "abstract" THEN "abstract_only"
               ELSE IF note THEN "partial"
               ELSE "complete"]

(* _extract_html: every failure is one the loop over the candidates catches.  *)
ExtractHtml == {BuildDocument("html", l, FALSE) : l \in Lengths}
(* _extract_pdf: pages that cannot be read leave a note.                      *)
ExtractPdf == {BuildDocument("pdf", l, note) : l \in Lengths, note \in BOOLEAN}
Extract(format) == IF format = "html" THEN ExtractHtml ELSE ExtractPdf

(* load_for_story falls back to the abstract when every candidate failed, or  *)
(* when there is none.                                                        *)
Abstract == BuildDocument("abstract", "fits", FALSE)
Fetched(p) ==
    {Abstract} \cup UNION {Extract(f) : f \in ToSet(Candidates[p])}

(* Faulty variant: the metadata are believed whatever the text is.            *)
LoadCacheUnchecked(p) ==
    IF meta[p] \in {NoFile, Torn} \/ text[p] = NoFile THEN NoFile ELSE meta[p]

(* _load_cache: both files, readable, and the hash of the one in the other.   *)
LoadCache(p) ==
    IF meta[p] \in {NoFile, Torn} \/ text[p] # meta[p] THEN NoFile ELSE meta[p]

-----------------------------------------------------------------------------
FilesInit ==
    /\ text = [p \in PaperSet |-> NoFile]
    /\ meta = [p \in PaperSet |-> NoFile]
    /\ aged = {}

ServiceIdle ==
    /\ documents = NoDocuments
    /\ todo = <<>>
    /\ saving = NoFile

(* The constructor prunes: the age of the .json decides for both files, and a *)
(* file that cannot be unlinked stays without its other half.                 *)
OpenService ==
    /\ \E kept_text \in SUBSET aged, kept_meta \in SUBSET aged :
         /\ text' = [p \in PaperSet |-> IF p \in aged \ kept_text THEN NoFile ELSE text[p]]
         /\ meta' = [p \in PaperSet |-> IF p \in aged \ kept_meta THEN NoFile ELSE meta[p]]
         /\ aged' = kept_meta
    /\ documents' = NoDocuments
    /\ todo' = Papers
    /\ saving' = NoFile

Loading == todo # <<>>
Keep(p, document) == [q \in DOMAIN documents \cup {p} |-> IF q = p THEN document ELSE documents[q]]

ServeCached ==
    /\ Loading /\ saving = NoFile
    /\ LoadCache(Head(todo)) # NoFile
    /\ documents' = Keep(Head(todo), LoadCache(Head(todo)))
    /\ todo' = Tail(todo)
    /\ UNCHANGED <<filesVars, saving>>

(* A download, and the first of the two writes of _save_cache.                *)
FetchAndSaveText ==
    /\ Loading /\ saving = NoFile
    /\ LoadCache(Head(todo)) = NoFile
    /\ \E document \in Fetched(Head(todo)) :
         /\ saving' = document
         /\ text' = [text EXCEPT ![Head(todo)] = document]
    /\ UNCHANGED <<meta, aged, documents, todo>>

SaveMetadata ==
    /\ saving # NoFile
    /\ meta' = [meta EXCEPT ![Head(todo)] = saving]
    /\ documents' = Keep(Head(todo), saving)
    /\ todo' = Tail(todo)
    /\ saving' = NoFile
    /\ aged' = aged \ {Head(todo)}
    /\ UNCHANGED text

(* The process dies: the file it was writing, if any, is left torn.           *)
DieInService ==
    /\ IF saving # NoFile
         THEN \/ meta' = [meta EXCEPT ![Head(todo)] = Torn] /\ UNCHANGED text
              \/ text' = [text EXCEPT ![Head(todo)] = Torn] /\ UNCHANGED meta
              \/ UNCHANGED <<text, meta>>
         ELSE UNCHANGED <<text, meta>>
    /\ documents' = NoDocuments
    /\ todo' = <<>>
    /\ saving' = NoFile
    /\ UNCHANGED aged

(* Half a year passes for one pair of files.                                  *)
Age(p) ==
    /\ p \notin aged /\ meta[p] # NoFile
    /\ aged' = aged \cup {p}
    /\ UNCHANGED <<text, meta, documents, todo, saving>>
=============================================================================
