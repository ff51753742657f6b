----------------------------- MODULE Relevance -----------------------------
(***************************************************************************)
(* The relevance phase of a run: _run_llm_phase (src/src/cli/digest.py)    *)
(* with its score file llm_scores.json, over LlmRelevanceProcessor         *)
(* (src/src/features/llm/processor.py) and the full texts of FullText.     *)
(* Runs follow one another and each may die at any step; the files stay.   *)
(* MAX_BATCH_SIZE is 1, so a batch is one story.                           *)
(***************************************************************************)
EXTENDS FullText, FiniteSets

CONSTANTS
    Stories,        \* what the linker gave, as a sequence
    Evaluatable,    \* those with an arXiv id or an abstract
    Workers,        \* the threads of the executor
    MaxRuns         \* bounds the runs of a behaviour

LastAttempt == 2    \* _MAX_SINGLE_RETRIES

StorySet == ToSet(Stories)
Nobody == 0

ASSUME StoriesAssumption ==
    Stories \in Seq(StorySet) /\ Evaluatable \subseteq StorySet /\ Nobody \notin StorySet

VARIABLES
    file,           \* llm_scores.json
    cached,         \* cached_entries: story -> the document it was scored on
    fallback,       \* cached_scores, a flat file's included
    queue,          \* the places in Stories no thread has taken
    sequential,     \* one thread, or one story: no executor
    job,            \* thread -> its story and attempt
    results,        \* story -> what its batch came to
    scores,         \* what the phase returned
    pc,
    runs,
    answered,       \* history: the documents the model has scored
    kept            \* history: story -> the document of its last saved answer

phaseVars == <<cached, fallback, queue, sequential, job, results, scores>>
vars == <<textVars, phaseVars, file, pc, runs, answered, kept>>

Nothing == [s \in {} |-> NoFile]
Idle == [story |-> Nobody, attempt |-> 0]
File(kind, entries) == [kind |-> kind, entries |-> entries]
Score(by, of) == [by |-> by, of |-> of]
Override(old, new) == [s \in DOMAIN old \cup DOMAIN new |->
                         IF s \in DOMAIN new THEN new[s] ELSE old[s]]
DocumentFor(s) == IF s \in DOMAIN documents THEN documents[s] ELSE NoFile

-----------------------------------------------------------------------------
(* A versioned file gives entries and scores; an older, flat one scores only; *)
(* a file that cannot be parsed, or none, gives nothing.                      *)
CachedEntries == IF file.kind = "entries" THEN file.entries ELSE Nothing
CachedScores ==
    IF file.kind = "entries" THEN [s \in DOMAIN file.entries |-> Score("llm", file.entries[s])]
    ELSE IF file.kind = "flat" THEN [s \in StorySet |-> Score("flat", NoFile)]
    ELSE Nothing

Init ==
    /\ FilesInit /\ ServiceIdle
    /\ file \in {File(k, Nothing) : k \in {"absent", "flat"}}
    /\ cached = Nothing /\ fallback = Nothing
    /\ queue = {} /\ sequential = TRUE
    /\ job = [w \in Workers |-> Idle]
    /\ results = Nothing /\ scores = Nothing
    /\ pc = "idle" /\ runs = 0
    /\ answered = {} /\ kept = Nothing

LoadScores ==
    /\ pc = "idle" /\ runs < MaxRuns
    /\ runs' = runs + 1
    /\ cached' = CachedEntries
    /\ fallback' = CachedScores
    /\ pc' = "loaded"
    /\ UNCHANGED <<textVars, queue, sequential, job, results, scores, file, answered, kept>>

(* Without credentials the phase is the cached scores; so it is when anything *)
(* in the try block raises.                                                   *)
UseCached(from) ==
    /\ pc \in from
    /\ scores' = fallback
    /\ pc' = "cached"
    /\ queue' = {} /\ job' = [w \in Workers |-> Idle] /\ results' = Nothing
    /\ UNCHANGED <<textVars, cached, fallback, sequential, file, runs, answered, kept>>
NoCredentials == UseCached({"loaded"})
PhaseFails == saving = NoFile /\ UseCached({"documents", "save", "writing"})

OpenDocuments ==
    /\ pc = "loaded"
    /\ OpenService
    /\ pc' = "documents"
    /\ UNCHANGED <<phaseVars, file, runs, answered, kept>>

LoadDocument ==
    /\ pc = "documents"
    /\ ServeCached \/ FetchAndSaveText \/ SaveMetadata
    /\ UNCHANGED <<phaseVars, file, pc, runs, answered, kept>>

(* Faulty variant: a story is current when it has an entry.                   *)
IsCurrentByStory(s) == s \in DOMAIN documents /\ s \in DOMAIN cached

(* A story without a document is never current.                               *)
IsCurrent(s) ==
    /\ s \in DOMAIN documents /\ s \in DOMAIN cached
    /\ cached[s] = documents[s]

(* evaluate_stories: the stories that are not current and can be evaluated.   *)
Plan ==
    /\ pc = "documents" /\ ~Loading
    /\ queue' = {i \in DOMAIN Stories : ~IsCurrent(Stories[i]) /\ Stories[i] \in Evaluatable}
    /\ sequential' = (Cardinality(Workers) = 1 \/ Cardinality(queue') <= 1)
    /\ pc' = "evaluate"
    /\ UNCHANGED <<textVars, cached, fallback, job, results, scores, file, runs, answered, kept>>

Take(w) ==
    /\ pc = "evaluate" /\ job[w] = Idle
    /\ sequential => \A v \in Workers : job[v] = Idle
    /\ \E first \in queue :
         /\ \A i \in queue : first <= i
         /\ job' = [job EXCEPT ![w] = [story |-> Stories[first], attempt |-> 0]]
         /\ queue' = queue \ {first}
    /\ UNCHANGED <<textVars, cached, fallback, sequential, results, scores, file, pc, runs, answered, kept>>

Settle(w, score) ==
    /\ results' = Override(results, [s \in {job[w].story} |-> score])
    /\ job' = [job EXCEPT ![w] = Idle]

(* The answer names the story, and its score is kept with the document.       *)
Answer(w) ==
    /\ pc = "evaluate" /\ job[w] # Idle
    /\ Settle(w, Score("llm", DocumentFor(job[w].story)))
    /\ answered' = answered \cup {<<job[w].story, DocumentFor(job[w].story)>>}
    /\ UNCHANGED <<textVars, cached, fallback, queue, sequential, scores, file, pc, runs, kept>>

(* An API error, an answer that cannot be parsed, or one without the story.   *)
Retry(w) ==
    /\ pc = "evaluate" /\ job[w] # Idle /\ job[w].attempt < LastAttempt
    /\ job' = [job EXCEPT ![w].attempt = @ + 1]
    /\ UNCHANGED <<textVars, cached, fallback, queue, sequential, results, scores, file, pc, runs, answered, kept>>

AssignNeutral(w) ==
    /\ pc = "evaluate" /\ job[w] # Idle /\ job[w].attempt = LastAttempt
    /\ Settle(w, Score("neutral", DocumentFor(job[w].story)))
    /\ UNCHANGED <<textVars, cached, fallback, queue, sequential, scores, file, pc, runs, answered, kept>>

(* Any other exception: neutral scores with the executor, the end of the      *)
(* phase, and of what was paid for in it, without.                            *)
Raise(w) ==
    /\ pc = "evaluate" /\ job[w] # Idle
    /\ IF sequential
         THEN UseCached({"evaluate"})
         ELSE /\ Settle(w, Score("neutral", DocumentFor(job[w].story)))
              /\ UNCHANGED <<textVars, cached, fallback, queue, sequential, scores, file, pc, runs, answered, kept>>

Evaluated == queue = {} /\ \A w \in Workers : job[w] = Idle

Merge ==
    /\ pc = "evaluate" /\ Evaluated
    /\ scores' = Override(fallback, results)
    /\ pc' = IF scores' = Nothing THEN "returned" ELSE "save"
    /\ UNCHANGED <<textVars, cached, fallback, queue, sequential, job, results, file, runs, answered, kept>>

FromModel == {s \in DOMAIN results : results[s].by = "llm"}

(* Faulty variant: every score of the phase is cached, the neutral ones too.  *)
NewEntriesOfScores == Override(cached, [s \in DOMAIN results |-> results[s].of])

(* Faulty variant: the file is rewritten with the answers of this run alone.  *)
NewEntriesOfRun == [s \in FromModel |-> results[s].of]

(* Only what the model answered becomes an entry; a flat file's scores do not.*)
NewEntries == Override(cached, [s \in FromModel |-> results[s].of])

(* write_text truncates the file first.                                       *)
BeginSave ==
    /\ pc = "save"
    /\ file' = File("torn", Nothing)
    /\ kept' = Nothing
    /\ pc' = "writing"
    /\ UNCHANGED <<textVars, phaseVars, runs, answered>>
EndSave ==
    /\ pc = "writing"
    /\ file' = File("entries", NewEntries)
    /\ kept' = Override([s \in DOMAIN cached |-> cached[s]], [s \in FromModel |-> results[s].of])
    /\ pc' = "returned"
    /\ UNCHANGED <<textVars, phaseVars, runs, answered>>

(* The run ends, here or in a later phase.                                    *)
EndRun ==
    /\ pc \in {"returned", "cached"}
    /\ pc' = "idle"
    /\ cached' = Nothing /\ fallback' = Nothing
    /\ queue' = {} /\ sequential' = TRUE
    /\ job' = [w \in Workers |-> Idle]
    /\ results' = Nothing /\ scores' = Nothing
    /\ documents' = NoDocuments /\ todo' = <<>> /\ saving' = NoFile
    /\ UNCHANGED <<filesVars, file, runs, answered, kept>>
Die ==
    /\ pc \notin {"idle", "returned", "cached"}
    /\ DieInService
    /\ pc' = "idle"
    /\ cached' = Nothing /\ fallback' = Nothing
    /\ queue' = {} /\ sequential' = TRUE
    /\ job' = [w \in Workers |-> Idle]
    /\ results' = Nothing /\ scores' = Nothing
    /\ UNCHANGED <<file, runs, answered, kept>>

HalfYear ==
    /\ pc = "idle"
    /\ \E p \in PaperSet : Age(p)
    /\ UNCHANGED <<phaseVars, file, pc, runs, answered, kept>>

Step ==
    \/ LoadScores \/ NoCredentials \/ OpenDocuments \/ LoadDocument \/ Plan
    \/ \E w \in Workers : Take(w) \/ Answer(w) \/ Retry(w) \/ AssignNeutral(w) \/ Raise(w)
    \/ PhaseFails \/ Merge \/ BeginSave \/ EndSave \/ EndRun
Next == Step \/ Die \/ HalfYear

Spec == Init /\ [][Next]_vars

-----------------------------------------------------------------------------
(* What the phase hands to the ranker: a score for every story that can be    *)
(* evaluated, the model's on the document of this run or a neutral one, and   *)
(* never one of an older document (digest.py:484 "Merge cached + new scores").*)
ScoresComplete ==
    pc = "returned" =>
        \A s \in Evaluatable :
            /\ s \in DOMAIN scores
            /\ scores[s].by \in {"llm", "neutral"} /\ scores[s].of = DocumentFor(s)

(* The file never says of a document what the model did not: no neutral score,*)
(* no score of another document (the entries of digest.py:491-505).           *)
CacheHonest ==
    \A s \in DOMAIN file.entries : <<s, file.entries[s]>> \in answered

(* No document whose score has been saved is sent to the model again, unless  *)
(* the file was torn since (digest.py:445 "Filter to only uncached stories"). *)
PaidOnce ==
    \A w \in Workers :
        job[w] # Idle => LET s == job[w].story IN
            ~(s \in DOMAIN kept /\ s \in DOMAIN documents /\ kept[s] = documents[s])

(* A document is served only with its own text (service.py:223).              *)
ServedWhole == \A p \in DOMAIN documents : text[p] = documents[p]
=============================================================================
