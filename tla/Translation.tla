---------------------------- MODULE Translation ----------------------------
(***************************************************************************)
(* The translation phase of a run: _run_translation_phase                  *)
(* (src/src/cli/digest.py) over TranslationProcessor and TranslationCache  *)
(* (src/src/features/translation/), and the deletion of the cache file by  *)
(* scripts/retranslate-cache.sh.  A batch whose answer is incomplete is    *)
(* split; threads of an executor put what they get into one dictionary,    *)
(* which the main thread writes to the file after every batch.             *)
(***************************************************************************)
EXTENDS Naturals, Sequences, FiniteSets

CONSTANTS
    Visible,        \* the visible stories, numbered in the order of the page
    BatchSize,      \* LLM_TRANSLATION_BATCH_SIZE
    Threads,        \* the threads of the executor
    Contents,       \* the fulltext_sha256 a story can have
    MaxPhases,      \* bounds the runs of a behaviour
    MaxDisturbances \* bounds the retranslations and the new texts of a behaviour

NoText == 0         \* the fulltext_sha256 of a story without a full text
MaxSingleRetries == 2

(* _resolve_batch_size *)
ASSUME TranslationAssumption ==
    /\ Visible \subseteq Nat /\ IsFiniteSet(Visible)
    /\ BatchSize \in 1..16
    /\ Threads # {}
    /\ NoText \in Contents

VARIABLES
    cache,          \* translations_zh.json
    content,        \* story -> its fulltext_sha256
    entries,        \* the dictionary of the cache: story -> the content translated
    reuse,          \* cached_translations, read before the processor's own load
    batches,        \* those no thread has taken
    stack,          \* thread -> the requests its batch has still to make
    unsaved,        \* batches done whose save has not begun
    alone,          \* concurrency 1 or one batch: a loop, and no executor
    main,           \* what the main thread does
    returned,       \* what the phase returned
    script,         \* retranslate-cache.sh
    processes, disturbances,
    asked,          \* history: story -> the last request it was part of
    got,            \* history: the entries this run's finished batches obtained
    getting         \* history: thread -> the entries its batch obtained so far

memory == <<entries, reuse, returned>>
threadVars == <<batches, stack, unsaved, alone>>
historyVars == <<asked, got, getting>>
translationVars ==
    <<cache, content, memory, threadVars, main, script, processes, disturbances, historyVars>>

NoEntries == [s \in {} |-> NoText]
CacheFile(kind, es) == [kind |-> kind, entries |-> es]
Updated(old, new) == [s \in DOMAIN old \cup DOMAIN new |->
                        IF s \in DOMAIN new THEN new[s] ELSE old[s]]
NoRequest == [size |-> 0, attempt |-> 0]
GivenUp == [size |-> 0, attempt |-> MaxSingleRetries]   \* its batch raised
TheLoop == CHOOSE w \in Threads : TRUE                  \* the main thread, without an executor

(* is_current: this content, by this model and prompt.                        *)
UpToDate(es, s) == s \in DOMAIN es /\ es[s] = content[s]
Missing(es, S) == {s \in S : ~UpToDate(es, s)}

(* Slices of a list of stories, which is a set since the order is theirs.     *)
Before(S, s) == Cardinality({t \in S : t < s})
FirstOf(n, S) == {s \in S : Before(S, s) < n}
AfterFirst(n, S) == {s \in S : Before(S, s) >= n}

(* _create_batches *)
CreateBatches(S) ==
    [k \in 1..((Cardinality(S) + BatchSize - 1) \div BatchSize) |->
        {s \in S : Before(S, s) \div BatchSize = k - 1}]

QuietThreads ==
    /\ batches' = <<>> /\ unsaved' = 0 /\ alone' = TRUE
    /\ stack' = [w \in Threads |-> <<>>]
QuietHistory ==
    /\ asked' = [s \in Visible |-> NoRequest]
    /\ got' = NoEntries /\ getting' = [w \in Threads |-> NoEntries]

TranslationInit ==
    /\ cache = CacheFile("absent", NoEntries)
    /\ content = [s \in Visible |-> NoText]
    /\ entries = NoEntries /\ reuse = NoEntries
    /\ batches = <<>> /\ stack = [w \in Threads |-> <<>>] /\ unsaved = 0
    /\ alone = TRUE
    /\ main = "idle" /\ returned = NoEntries /\ script = "none"
    /\ processes = 0 /\ disturbances = 0
    /\ asked = [s \in Visible |-> NoRequest]
    /\ got = NoEntries /\ getting = [w \in Threads |-> NoEntries]

-----------------------------------------------------------------------------
Loaded == IF cache.kind = "whole" THEN cache.entries ELSE NoEntries

(* The phase reads the file for its fallback, what it keeps of it being the   *)
(* visible stories; without credentials that is all it returns.               *)
LoadFallback ==
    /\ main = "idle" /\ processes < MaxPhases
    /\ processes' = processes + 1
    /\ reuse' = [s \in DOMAIN Loaded \cap Visible |-> Loaded[s]]
    /\ main' = "fallback"
    /\ UNCHANGED <<cache, content, entries, returned, threadVars, script, disturbances, historyVars>>

(* Any exception of the phase ends in the same place as no credentials.       *)
FallBack ==
    /\ returned' = reuse
    /\ main' = "failed"
NoTranslator ==
    /\ main = "fallback"
    /\ FallBack
    /\ UNCHANGED <<cache, content, entries, reuse, threadVars, script, processes, disturbances, historyVars>>

(* translate reads the file again and batches what is not current.            *)
Translate ==
    /\ main = "fallback"
    /\ entries' = Loaded
    /\ batches' = CreateBatches(Missing(entries', Visible))
    /\ alone' \in {TRUE, Len(batches') <= 1}
    /\ IF batches' = <<>>
         THEN main' = "returned" /\ returned' = entries'
         ELSE main' = "wait" /\ UNCHANGED returned
    /\ UNCHANGED <<cache, content, reuse, stack, unsaved, script, processes, disturbances, historyVars>>

(* Faulty variant: the loop goes on with the next batch before the save.      *)
TakeBatchUnsaved(w) ==
    /\ main = "wait" /\ batches # <<>> /\ stack[w] = <<>>
    /\ alone => w = TheLoop
    /\ stack' = [stack EXCEPT ![w] = <<[todo |-> Head(batches), attempt |-> 0]>>]
    /\ batches' = Tail(batches)
    /\ UNCHANGED <<cache, content, memory, unsaved, alone, main, script, processes, disturbances, historyVars>>

(* The executor gives a thread the next batch while the main thread saves; in *)
(* the loop the save of the last one comes first.                             *)
TakeBatch(w) ==
    /\ main \in {"wait", "snapshot", "truncate", "raise"} /\ batches # <<>> /\ stack[w] = <<>>
    /\ alone => w = TheLoop /\ main = "wait" /\ unsaved = 0
    /\ stack' = [stack EXCEPT ![w] = <<[todo |-> Head(batches), attempt |-> 0]>>]
    /\ batches' = Tail(batches)
    /\ UNCHANGED <<cache, content, memory, unsaved, alone, main, script, processes, disturbances, historyVars>>

(* Faulty variant: whatever an answer leaves out is given up.                 *)
NoRemainder(missing, attempt) == <<>>

(* Faulty variant: a story alone is halved as well, and no attempt counted.   *)
RemainderHalved(missing, attempt) ==
    LET mid == Cardinality(missing) \div 2 IN
    IF missing = {} THEN <<>>
    ELSE <<[todo |-> FirstOf(mid, missing), attempt |-> attempt],
           [todo |-> AfterFirst(mid, missing), attempt |-> attempt]>>

(* What _process_batch_adaptive goes on with: one story alone is tried again, *)
(* several are halved.                                                        *)
Remainder(missing, attempt) ==
    LET n == Cardinality(missing)
        Later(S) == [todo |-> S, attempt |-> attempt + 1] IN
    CASE n = 0 -> <<>>
      [] n = 1 -> IF attempt < MaxSingleRetries THEN <<Later(missing)>> ELSE <<>>
      [] OTHER -> <<Later(FirstOf(n \div 2, missing)), Later(AfterFirst(n \div 2, missing))>>

(* One request and what becomes of it: a subset of the batch is translated,   *)
(* none of it if the call or the parsing fails.  A key added while the main   *)
(* thread iterates over the dictionary breaks the iteration.                  *)
Request(w, translated) ==
    /\ stack[w] # <<>>
    /\ LET top == Head(stack[w])
           new == [s \in translated |-> content[s]]
           rest == Remainder(Missing(Updated(entries, new), top.todo), top.attempt) \o Tail(stack[w])
       IN  /\ translated \subseteq top.todo
           /\ entries' = Updated(entries, new)
           /\ stack' = [stack EXCEPT ![w] = rest]
           /\ asked' = [s \in Visible |->
                          IF s \in top.todo
                            THEN [size |-> Cardinality(top.todo), attempt |-> top.attempt]
                            ELSE asked[s]]
           /\ getting' = [getting EXCEPT ![w] = IF rest = <<>> THEN NoEntries ELSE Updated(@, new)]
           /\ got' = IF rest = <<>> THEN Updated(got, Updated(getting[w], new)) ELSE got
           /\ unsaved' = unsaved + (IF rest = <<>> THEN 1 ELSE 0)
           /\ main' = IF main = "snapshot" /\ translated \ DOMAIN entries # {}
                        THEN "raise" ELSE main
    /\ UNCHANGED <<cache, content, reuse, batches, alone, returned, script, processes, disturbances>>

(* Any other exception: the executor gives up the batch, the loop the phase.  *)
BatchRaises(w) ==
    /\ stack[w] # <<>>
    /\ stack' = [stack EXCEPT ![w] = <<>>]
    /\ getting' = [getting EXCEPT ![w] = NoEntries]
    /\ asked' = [s \in Visible |->
                   IF \E i \in DOMAIN stack[w] : s \in stack[w][i].todo THEN GivenUp ELSE asked[s]]
    /\ IF alone
         THEN FallBack /\ batches' = <<>> /\ UNCHANGED unsaved
         ELSE unsaved' = unsaved + 1 /\ UNCHANGED <<batches, main, returned>>
    /\ UNCHANGED <<cache, content, entries, reuse, alone, script, processes, disturbances, got>>

-----------------------------------------------------------------------------
(* save: the dictionary is serialised, then write_text truncates the file and *)
(* writes it, to nowhere if the file is deleted in between.                   *)
Snapshot ==
    /\ main = "wait" /\ unsaved > 0
    /\ unsaved' = unsaved - 1
    /\ main' = "snapshot"
    /\ UNCHANGED <<cache, content, memory, batches, stack, alone, script, processes, disturbances, historyVars>>
Truncate ==
    /\ main = "snapshot"
    /\ cache' = CacheFile("torn", entries)
    /\ main' = "truncate"
    /\ UNCHANGED <<content, memory, threadVars, script, processes, disturbances, historyVars>>
Written == IF cache.kind = "torn" THEN CacheFile("whole", cache.entries) ELSE cache
Write ==
    /\ main = "truncate"
    /\ cache' = Written
    /\ main' = "wait"
    /\ UNCHANGED <<content, memory, threadVars, script, processes, disturbances, historyVars>>

(* Every future is done and saved: one more save, and the phase returns the   *)
(* whole dictionary.                                                          *)
Working == batches # <<>> \/ unsaved > 0 \/ \E w \in Threads : stack[w] # <<>>
TruncateLast ==
    /\ main = "wait" /\ ~Working
    /\ cache' = CacheFile("torn", entries)
    /\ main' = "last"
    /\ UNCHANGED <<content, memory, threadVars, script, processes, disturbances, historyVars>>
WriteLast ==
    /\ main = "last"
    /\ cache' = Written
    /\ returned' = entries
    /\ main' = "returned"
    /\ UNCHANGED <<content, entries, reuse, threadVars, script, processes, disturbances, historyVars>>

(* The exception of a broken iteration leaves the with block, which waits for *)
(* the threads and the batches they have still to take.                       *)
Leave ==
    /\ main = "raise"
    /\ batches = <<>> /\ \A w \in Threads : stack[w] = <<>>
    /\ FallBack
    /\ UNCHANGED <<cache, content, entries, reuse, threadVars, script, processes, disturbances, historyVars>>

(* The process ends, after its phase or in the middle of it.                  *)
Exit ==
    /\ main' = "idle"
    /\ QuietThreads /\ QuietHistory
    /\ entries' = NoEntries /\ reuse' = NoEntries /\ returned' = NoEntries
    /\ script' = IF script = "locked" THEN "none" ELSE script
    /\ UNCHANGED <<cache, content, processes, disturbances>>
PhaseOver == main \in {"returned", "failed"} /\ Exit
Killed == main \notin {"idle", "returned", "failed"} /\ Exit

(* Between two runs the full text of a story arrives or changes.              *)
NewContent(s) ==
    /\ main = "idle" /\ disturbances < MaxDisturbances
    /\ disturbances' = disturbances + 1
    /\ \E c \in Contents \ {content[s]} : content' = [content EXCEPT ![s] = c]
    /\ UNCHANGED <<cache, memory, threadVars, main, script, processes, historyVars>>

(* retranslate-cache.sh deletes the file, then asks for the pipeline lock and *)
(* gives up if a run holds it.                                                *)
DeleteCache ==
    /\ script = "none" /\ disturbances < MaxDisturbances
    /\ disturbances' = disturbances + 1
    /\ cache' = CacheFile("absent", NoEntries)
    /\ script' = "deleted"
    /\ got' = NoEntries
    /\ UNCHANGED <<content, memory, threadVars, main, processes, asked, getting>>
TryLock ==
    /\ script = "deleted"
    /\ script' = IF main = "idle" /\ processes < MaxPhases THEN "locked" ELSE "none"
    /\ UNCHANGED <<cache, content, memory, threadVars, main, processes, disturbances, historyVars>>

TranslationStep ==
    \/ LoadFallback \/ Translate
    \/ \E w \in Threads : TakeBatch(w) \/ \E some \in SUBSET Visible : Request(w, some)
    \/ Snapshot \/ Truncate \/ Write \/ TruncateLast \/ WriteLast \/ Leave \/ PhaseOver
TranslationNext ==
    \/ TranslationStep \/ NoTranslator \/ Killed \/ DeleteCache \/ TryLock
    \/ \E w \in Threads : BatchRaises(w)
    \/ \E s \in Visible : NewContent(s)

(* The phase is a program that goes on; the model may fail every request.     *)
TranslationSpec ==
    /\ TranslationInit /\ [][TranslationNext]_translationVars
    /\ WF_translationVars(TranslationStep)

-----------------------------------------------------------------------------
(* What a batch that is done obtained is in the file when the phase ends, the *)
(* way it ends notwithstanding: each batch is a checkpoint (processor.py:164).*)
(* With an executor the failed phase may not have come to the last saves.     *)
PaidKept ==
    main = "returned" \/ (alone /\ main = "failed") =>
        \A s \in DOMAIN got : s \in DOMAIN cache.entries /\ cache.entries[s] = got[s]

(* A story is left without a translation of its content only after a request  *)
(* that no further one can follow (processor.py:261-276).  As long as four    *)
(* stories are halved at most twice, it was the only story of that request;   *)
(* with batches of more the attempts of the halves count as its own.          *)
GivenUpAlone ==
    main = "returned" =>
        \A s \in Visible : ~UpToDate(returned, s) =>
            /\ asked[s].attempt >= MaxSingleRetries
            /\ BatchSize <= 4 => asked[s].size <= 1

(* However often the model answers with nothing, the phase comes to an end.   *)
PhaseEnds == main = "wait" ~> main \in {"returned", "failed", "idle"}

(* processor.py:107 "Map of story_id to TranslationEntry for all stories      *)
(* (cached + newly translated)": what the batches obtained is in the digest,  *)
(* if no batch raised.  Not so, see the README.                               *)
TranslationsReturned ==
    main \in {"returned", "failed"} /\ (\A s \in Visible : asked[s] # GivenUp) =>
        \A s \in DOMAIN got : s \in DOMAIN returned /\ returned[s] = got[s]

(* retranslate-cache.sh:2 "Clear the translation cache and rerun backfill so  *)
(* every visible story is retranslated".  Not so, see the README.             *)
Retranslated == script = "locked" /\ main = "fallback" => reuse = NoEntries
=============================================================================
