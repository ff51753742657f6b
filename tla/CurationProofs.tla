--------------------------- MODULE CurationProofs ---------------------------
(***************************************************************************)
(* Proofs about Relevance, the FullText it extends, and Translation, for   *)
(* any stories, papers, threads, batch size and number of runs: what       *)
(* llm_scores.json may hold, which text a document is served with, what    *)
(* the LLM phase hands on and what it never pays for twice; what is kept   *)
(* of the translations paid for, and which stories stay without one; and,  *)
(* for any periods and archives, what a report and their index say.        *)
(* That a finite set in an order has ranks is taken from SelectionProofs.  *)
(***************************************************************************)
EXTENDS Relevance, Translation, Report, SelectionProofs, FiniteSetTheorems, SequenceTheorems, TLAPS

(* An entry the phase has in hand came from the model or from the file, whose *)
(* entries came from the model.                                               *)
Honest(es) == \A s \in DOMAIN es : <<s, es[s]>> \in answered
Answered == \A s \in DOMAIN results : results[s].by = "llm" => <<s, results[s].of>> \in answered
Sources == Honest(file.entries) /\ Honest(cached) /\ Answered

LEMMA InitSources == Init => Sources
BY DEF Init, Sources, Honest, Answered, File, Nothing

LEMMA NewEntriesHonest == Sources => Honest(NewEntries)
<1> SUFFICES ASSUME Sources, NEW s \in DOMAIN NewEntries
             PROVE  <<s, NewEntries[s]>> \in answered
    BY DEF Honest
<1> DEFINE new == [q \in FromModel |-> results[q].of]
<1>1. DOMAIN new = FromModel
    OBVIOUS
<1>2. \A q \in FromModel : new[q] = results[q].of /\ <<q, results[q].of>> \in answered
    BY DEF FromModel, Sources, Answered
<1>3. NewEntries = Override(cached, new)
    BY DEF NewEntries
<1> HIDE DEF new
<1>4. /\ s \in DOMAIN cached \cup FromModel
      /\ NewEntries[s] = IF s \in FromModel THEN new[s] ELSE cached[s]
    BY <1>1, <1>3 DEF Override
<1>5. CASE s \in FromModel
    BY <1>2, <1>4, <1>5
<1>6. CASE s \notin FromModel
    BY <1>4, <1>6 DEF Sources, Honest
<1>7. QED
    BY <1>5, <1>6

LEMMA SettleSources ==
    ASSUME Sources, NEW w, NEW by, Settle(w, Score(by, DocumentFor(job[w].story))),
           UNCHANGED <<file, cached>>, answered \subseteq answered',
           by = "llm" => <<job[w].story, DocumentFor(job[w].story)>> \in answered'
    PROVE  Sources'
<1> DEFINE of == DocumentFor(job[w].story)
           new == [s \in {job[w].story} |-> Score(by, of)]
<1>1. results' = Override(results, new)
    BY DEF Settle
<1>2. DOMAIN new = {job[w].story} /\ new[job[w].story].by = by /\ new[job[w].story].of = of
    BY DEF Score
<1> HIDE DEF new, of
<1>3. Answered'
  <2> SUFFICES ASSUME NEW s \in DOMAIN results', results'[s].by = "llm"
               PROVE  <<s, results'[s].of>> \in answered'
      BY DEF Answered
  <2>1. /\ s = job[w].story \/ s \in DOMAIN results
        /\ results'[s] = IF s = job[w].story THEN new[s] ELSE results[s]
      BY <1>1, <1>2 DEF Override
  <2>2. CASE s = job[w].story
      BY <1>2, <2>1, <2>2 DEF of
  <2>3. CASE s # job[w].story
      BY <2>1, <2>3 DEF Sources, Answered
  <2>4. QED
      BY <2>2, <2>3
<1>4. QED
    BY <1>3 DEF Sources, Honest

LEMMA StepSources == Sources /\ [Next]_vars => Sources'
<1> SUFFICES ASSUME Sources, [Next]_vars PROVE Sources'
    OBVIOUS
<1> USE DEF Sources, Honest, Answered
<1>1. CASE LoadScores
    BY <1>1 DEF LoadScores, CachedEntries, Nothing
<1>2. ASSUME NEW from, UseCached(from) PROVE Sources'
    BY <1>2 DEF UseCached, Nothing
<1>3. ASSUME NEW w \in Workers, Answer(w) PROVE Sources'
    BY <1>3, SettleSources DEF Answer
<1>4. ASSUME NEW w \in Workers, AssignNeutral(w) PROVE Sources'
    BY <1>4, SettleSources DEF AssignNeutral
<1>5. ASSUME NEW w \in Workers, Raise(w) PROVE Sources'
  <2>1. CASE sequential
      BY <1>2, <1>5, <2>1 DEF Raise
  <2>2. CASE ~sequential
      BY <1>5, <2>2, SettleSources DEF Raise
  <2>3. QED
      BY <2>1, <2>2
<1>6. CASE BeginSave
    BY <1>6 DEF BeginSave, phaseVars, File, Nothing
<1>7. CASE EndSave
  <2>1. file'.entries = NewEntries /\ UNCHANGED <<cached, results, answered>>
      BY <1>7 DEF EndSave, phaseVars, File
  <2>2. QED
      BY <2>1, NewEntriesHonest
<1>8. CASE EndRun \/ Die
    BY <1>8 DEF EndRun, Die, Nothing
<1>9. CASE OpenDocuments \/ LoadDocument \/ Plan \/ Merge \/ HalfYear \/ UNCHANGED vars
    BY <1>9 DEF OpenDocuments, LoadDocument, Plan, Merge, HalfYear, phaseVars, vars
<1>10. ASSUME NEW w \in Workers, Take(w) \/ Retry(w) PROVE Sources'
    BY <1>10 DEF Take, Retry
<1>11. QED
    BY <1>1, <1>2, <1>3, <1>4, <1>5, <1>6, <1>7, <1>8, <1>9, <1>10
       DEF Next, Step, NoCredentials, PhaseFails

(* _save_llm_cache never writes a score the model did not give to that very   *)
(* document, whatever dies or raises.                                         *)
THEOREM OnlyAnswersCached == Spec => []CacheHonest
<1>1. Sources => CacheHonest
    BY DEF Sources, Honest, CacheHonest
<1>2. QED
    BY <1>1, InitSources, StepSources, PTL DEF Spec
-----------------------------------------------------------------------------
(* No paper comes twice, which linking the stories by their id ensures.       *)
DistinctPapers ==
    /\ Papers \in Seq(PaperSet)
    /\ \A i, j \in 1..Len(Papers) : Papers[i] = Papers[j] => i = j

(* A paper still to load has no document yet, so that writing its text cannot *)
(* change one that was served; the text being saved is on disk already.       *)
Waiting ==
    /\ todo \in Seq(PaperSet)
    /\ \A i, j \in 1..Len(todo) : todo[i] = todo[j] => i = j
    /\ \A i \in 1..Len(todo) : todo[i] \notin DOMAIN documents
OnDisk == saving # NoFile => todo # <<>> /\ text[Head(todo)] = saving
Served == DOMAIN text = PaperSet /\ Waiting /\ OnDisk /\ ServedWhole

LEMMA InitServed == Init => Served
BY DEF Init, FilesInit, ServiceIdle, NoDocuments, Served, Waiting, OnDisk, ServedWhole

(* Whatever starts the list again forgets the documents first.                *)
LEMMA Restarted ==
    ASSUME documents' = NoDocuments, saving' = NoFile, DOMAIN text' = PaperSet,
           todo' = <<>> \/ (DistinctPapers /\ todo' = Papers)
    PROVE  Served'
<1>1. DOMAIN documents' = {}
    BY DEF NoDocuments
<1>2. todo' \in Seq(PaperSet) /\ \A i, j \in 1..Len(todo') : todo'[i] = todo'[j] => i = j
  <2>1. CASE todo' = <<>>
      BY <2>1
  <2>2. CASE DistinctPapers /\ todo' = Papers
      BY <2>2 DEF DistinctPapers
  <2>3. QED
      BY <2>1, <2>2
<1>3. Waiting'
    BY <1>1, <1>2 DEF Waiting
<1>4. OnDisk' /\ ServedWhole'
    BY <1>1 DEF OnDisk, ServedWhole
<1>5. QED
    BY <1>3, <1>4 DEF Served

LEMMA First ==
    ASSUME Waiting, todo # <<>>
    PROVE  /\ Head(todo) \in PaperSet /\ Head(todo) \notin DOMAIN documents
           /\ Tail(todo) \in Seq(PaperSet)
           /\ \A i, j \in 1..Len(Tail(todo)) : Tail(todo)[i] = Tail(todo)[j] => i = j
           /\ \A i \in 1..Len(Tail(todo)) :
                Tail(todo)[i] \notin DOMAIN documents /\ Tail(todo)[i] # Head(todo)
<1>1. todo \in Seq(PaperSet) /\ Len(todo) >= 1 /\ Head(todo) = todo[1]
    BY DEF Waiting
<1>2. /\ Tail(todo) \in Seq(PaperSet) /\ Len(Tail(todo)) = Len(todo) - 1
      /\ \A i \in 1..Len(Tail(todo)) : Tail(todo)[i] = todo[i + 1] /\ i + 1 \in 1..Len(todo)
    BY <1>1
<1>3. \A i, j \in 1..Len(Tail(todo)) : Tail(todo)[i] = Tail(todo)[j] => i = j
  <2> SUFFICES ASSUME NEW i \in 1..Len(Tail(todo)), NEW j \in 1..Len(Tail(todo)), todo[i + 1] = todo[j + 1]
               PROVE  i = j
      BY <1>2
  <2>1. i + 1 = j + 1
      BY <1>2 DEF Waiting
  <2>2. QED
      BY <2>1
<1>4. \A i \in 1..Len(Tail(todo)) : Tail(todo)[i] # todo[1]
  <2> SUFFICES ASSUME NEW i \in 1..Len(Tail(todo)), todo[i + 1] = todo[1] PROVE FALSE
      BY <1>2
  <2>1. i + 1 = 1
      BY <1>1, <1>2 DEF Waiting
  <2>2. QED
      BY <2>1
<1>5. QED
    BY <1>1, <1>2, <1>3, <1>4 DEF Waiting

(* A document whose text is on disk is handed over, and its paper is done.    *)
LEMMA HandedOver ==
    ASSUME Served, todo # <<>>, NEW document, text[Head(todo)] = document,
           documents' = Keep(Head(todo), document), todo' = Tail(todo),
           saving' = NoFile, text' = text
    PROVE  Served'
<1>1. Waiting
    BY DEF Served
<1>2. DOMAIN documents' = DOMAIN documents \cup {Head(todo)}
      /\ \A p \in DOMAIN documents' :
            documents'[p] = IF p = Head(todo) THEN document ELSE documents[p]
    BY DEF Keep
<1>3. Waiting'
    BY <1>1, <1>2, First DEF Waiting
<1>4. ServedWhole'
    BY <1>2 DEF Served, ServedWhole
<1>5. QED
    BY <1>3, <1>4 DEF Served, OnDisk

LEMMA LoadServed == ASSUME Served, LoadDocument PROVE Served'
<1>1. Waiting /\ DOMAIN text = PaperSet
    BY DEF Served
<1>2. CASE ServeCached
  <2>1. /\ todo # <<>> /\ saving' = NoFile /\ text' = text
        /\ documents' = Keep(Head(todo), LoadCache(Head(todo))) /\ todo' = Tail(todo)
      BY <1>2 DEF ServeCached, Loading, filesVars
  <2>2. text[Head(todo)] = LoadCache(Head(todo))
      BY <1>2 DEF ServeCached, LoadCache
  <2>3. QED
      BY <2>1, <2>2, HandedOver
<1>3. CASE FetchAndSaveText
  <2>1. PICK document : /\ text' = [text EXCEPT ![Head(todo)] = document]
                        /\ saving' = document
      BY <1>3 DEF FetchAndSaveText
  <2>2. todo # <<>> /\ todo' = todo /\ documents' = documents
      BY <1>3 DEF FetchAndSaveText, Loading
  <2>3. Head(todo) \in PaperSet /\ Head(todo) \notin DOMAIN documents
      BY <1>1, <2>2, First
  <2>4. Waiting'
      BY <1>1, <2>2 DEF Waiting
  <2>5. ServedWhole'
      BY <1>1, <2>1, <2>2, <2>3 DEF Served, ServedWhole
  <2>6. OnDisk' /\ DOMAIN text' = PaperSet
      BY <1>1, <2>1, <2>2, <2>3 DEF OnDisk
  <2>7. QED
      BY <2>4, <2>5, <2>6 DEF Served
<1>4. CASE SaveMetadata
  <2>1. /\ todo # <<>> /\ text[Head(todo)] = saving /\ saving' = NoFile /\ text' = text
        /\ documents' = Keep(Head(todo), saving) /\ todo' = Tail(todo)
      BY <1>4 DEF SaveMetadata, Served, OnDisk
  <2>2. QED
      BY <2>1, HandedOver
<1>5. QED
    BY <1>2, <1>3, <1>4 DEF LoadDocument

LEMMA StepServed == ASSUME DistinctPapers, Served, [Next]_vars PROVE Served'
<1>1. DOMAIN text = PaperSet
    BY DEF Served
<1>2. CASE OpenDocuments
  <2>1. /\ documents' = NoDocuments /\ saving' = NoFile /\ todo' = Papers
        /\ DOMAIN text' = PaperSet
      BY <1>2 DEF OpenDocuments, OpenService
  <2>2. QED
      BY <2>1, Restarted
<1>3. CASE LoadDocument
    BY <1>3, LoadServed
<1>4. CASE EndRun
    BY <1>1, <1>4, Restarted DEF EndRun, filesVars
<1>5. CASE Die
  <2>1. /\ documents' = NoDocuments /\ saving' = NoFile /\ todo' = <<>>
        /\ DOMAIN text' = PaperSet
      BY <1>1, <1>5 DEF Die, DieInService
  <2>2. QED
      BY <2>1, Restarted
<1>6. CASE UNCHANGED <<text, documents, todo, saving>>
    BY <1>6 DEF Served, Waiting, OnDisk, ServedWhole
<1>7. CASE ~(OpenDocuments \/ LoadDocument \/ EndRun \/ Die)
  <2>1. UNCHANGED <<text, documents, todo, saving>>
      BY <1>7 DEF Next, Step, LoadScores, NoCredentials, UseCached, Plan, Take, Answer, Retry,
         AssignNeutral, Raise, PhaseFails, Merge, BeginSave, EndSave, HalfYear, Age, textVars, vars
  <2>2. QED
      BY <2>1, <1>6
<1>8. QED
    BY <1>2, <1>3, <1>4, <1>5, <1>7

(* FullTextService.load_for_stories never hands out a document whose text on  *)
(* disk is another: the hash in the metadata is what protects a pair of files *)
(* that a crash or a failed unlink has taken apart.                           *)
THEOREM TextIsItsOwn == ASSUME DistinctPapers PROVE Spec => []ServedWhole
<1>1. Served => ServedWhole
    BY DEF Served
<1>2. Init /\ [][Next]_vars => []Served
    BY InitServed, StepServed, PTL
<1>3. QED
    BY <1>1, <1>2, PTL DEF Spec
-----------------------------------------------------------------------------
(* ScoresComplete and PaidOnce say nothing of a phase under way.  Until it    *)
(* returns, a story is current, waiting, with a thread or settled; what is    *)
(* waiting or with a thread is not current; and what was loaded is what the   *)
(* file and so the last saved answers are.                                    *)
Jobs == [story: StorySet \cup {Nobody}, attempt: 0..LastAttempt]
ScoredOnce(table, s) ==
    s \in DOMAIN table /\ table[s].by \in {"llm", "neutral"} /\ table[s].of = DocumentFor(s)

AtWork ==
    /\ job \in [Workers -> Jobs] /\ queue \subseteq DOMAIN Stories
    /\ pc # "evaluate" => \A w \in Workers : job[w] = Idle
Shown == \A s \in DOMAIN cached : s \in DOMAIN fallback /\ fallback[s] = Score("llm", cached[s])
Settled ==
    /\ pc = "evaluate" => \A s \in DOMAIN results : ScoredOnce(results, s)
    /\ pc \in {"idle", "loaded", "documents"} => DOMAIN results = {}
Underway ==
    pc = "evaluate" => \A s \in Evaluatable :
        \/ IsCurrent(s) \/ s \in DOMAIN results
        \/ \E i \in queue : Stories[i] = s
        \/ \E w \in Workers : job[w].story = s
HandedOn == pc \in {"save", "writing", "returned"} => \A s \in Evaluatable : ScoredOnce(scores, s)
LoadedIsFile ==
    /\ kept = CachedEntries
    /\ pc \in {"loaded", "documents", "evaluate", "save"} => cached = CachedEntries
Unpaid ==
    pc = "evaluate" =>
        /\ \A w \in Workers : job[w] # Idle => ~IsCurrent(job[w].story)
        /\ \A i \in queue : ~IsCurrent(Stories[i])

PhaseInv == AtWork /\ Shown /\ Settled /\ Underway /\ HandedOn /\ LoadedIsFile /\ Unpaid

LEMMA PhaseStarts == Init => PhaseInv
<1> SUFFICES ASSUME Init PROVE PhaseInv
    OBVIOUS
<1>1. AtWork
    BY DEF Init, AtWork, Jobs, Idle, LastAttempt
<1>2. Shown /\ Settled /\ Underway /\ HandedOn /\ Unpaid
    BY DEF Init, Shown, Settled, Underway, HandedOn, Unpaid, Nothing
<1>3. LoadedIsFile
    BY DEF Init, LoadedIsFile, CachedEntries, File
<1>4. QED
    BY <1>1, <1>2, <1>3 DEF PhaseInv

(* Nobody is at work, and there is nothing to hand on.                        *)
LEMMA Quiet ==
    ASSUME LoadedIsFile, UNCHANGED <<file, kept>>, queue' = {}, job' = [w \in Workers |-> Idle],
           pc' \in {"idle", "cached"}, DOMAIN results' = {}, Shown'
    PROVE  PhaseInv'
<1>1. AtWork'
    BY DEF AtWork, Jobs, Idle, LastAttempt
<1>2. Settled' /\ Underway' /\ HandedOn' /\ Unpaid'
    BY DEF Settled, Underway, HandedOn, Unpaid
<1>3. LoadedIsFile'
    BY DEF LoadedIsFile, CachedEntries
<1>4. QED
    BY <1>1, <1>2, <1>3 DEF PhaseInv

(* Whoever settles a story keeps every other where it is.                     *)
LEMMA SettleKeeps ==
    ASSUME PhaseInv, NEW w \in Workers, job[w] # Idle, pc = "evaluate",
           NEW by \in {"llm", "neutral"}, Settle(w, Score(by, DocumentFor(job[w].story))),
           UNCHANGED <<textVars, cached, fallback, queue, scores, file, pc, kept>>
    PROVE  PhaseInv'
<1> DEFINE story == job[w].story
           new == [s \in {story} |-> Score(by, DocumentFor(story))]
<1>1. /\ documents' = documents /\ UNCHANGED <<cached, fallback, queue, scores, file, pc, kept>>
    BY DEF textVars
<1>2. \A s : DocumentFor(s)' = DocumentFor(s) /\ IsCurrent(s)' = IsCurrent(s)
    BY <1>1 DEF DocumentFor, IsCurrent
<1>3. /\ results' = Override(results, new) /\ job' = [job EXCEPT ![w] = Idle]
    BY DEF Settle
<1>4. DOMAIN new = {story} /\ new[story].by = by /\ new[story].of = DocumentFor(story)
    BY DEF Score
<1> HIDE DEF new
<1>5. /\ DOMAIN results' = DOMAIN results \cup {story}
      /\ \A s \in DOMAIN results' : results'[s] = IF s = story THEN new[s] ELSE results[s]
    BY <1>3, <1>4 DEF Override
<1>6. /\ job \in [Workers -> Jobs] /\ job' \in [Workers -> Jobs] /\ job'[w] = Idle
      /\ \A v \in Workers : v # w => job'[v] = job[v]
    BY <1>3 DEF PhaseInv, AtWork, Jobs, Idle, LastAttempt
<1> HIDE DEF story
<1>7. AtWork' /\ Shown' /\ HandedOn' /\ LoadedIsFile'
    BY <1>1, <1>2, <1>6 DEF PhaseInv, AtWork, Shown, HandedOn, LoadedIsFile, CachedEntries, ScoredOnce
<1>8. Settled'
  <2>1. ASSUME NEW s \in DOMAIN results'
        PROVE  results'[s].by \in {"llm", "neutral"} /\ results'[s].of = DocumentFor(s)
    <3>1. CASE s = story
        BY <1>4, <1>5, <3>1
    <3>2. CASE s # story
        BY <1>5, <3>2 DEF PhaseInv, Settled, ScoredOnce
    <3>3. QED
        BY <3>1, <3>2
  <2>2. \A s \in DOMAIN results' : DocumentFor(s)' = DocumentFor(s)
      BY <1>2
  <2>3. QED
      BY <1>1, <2>1, <2>2 DEF Settled, ScoredOnce
<1>9. Underway'
  <2> SUFFICES ASSUME NEW s \in Evaluatable
               PROVE  \/ IsCurrent(s) \/ s \in DOMAIN results'
                      \/ \E i \in queue : Stories[i] = s
                      \/ \E v \in Workers : job'[v].story = s
      BY <1>1, <1>2 DEF Underway
  <2>1. CASE \E v \in Workers : job[v].story = s
    <3>1. PICK v \in Workers : job[v].story = s
        BY <2>1
    <3>2. CASE v = w
        BY <1>5, <3>1, <3>2 DEF story
    <3>3. CASE v # w
        BY <1>6, <3>1, <3>3
    <3>4. QED
        BY <3>2, <3>3
  <2>2. CASE ~\E v \in Workers : job[v].story = s
      BY <1>5, <2>2 DEF PhaseInv, Underway
  <2>3. QED
      BY <2>1, <2>2
<1>10. Unpaid'
    BY <1>1, <1>2, <1>6 DEF PhaseInv, Unpaid
<1>11. QED
    BY <1>7, <1>8, <1>9, <1>10 DEF PhaseInv

LEMMA TakeKeeps == ASSUME PhaseInv, NEW w \in Workers, Take(w) PROVE PhaseInv'
<1>1. PICK first \in queue :
        /\ job' = [job EXCEPT ![w] = [story |-> Stories[first], attempt |-> 0]]
        /\ queue' = queue \ {first}
    BY DEF Take
<1>2. /\ pc = "evaluate" /\ job[w] = Idle
      /\ UNCHANGED <<documents, cached, fallback, results, scores, file, pc, kept>>
    BY DEF Take, textVars
<1>3. \A s : DocumentFor(s)' = DocumentFor(s) /\ IsCurrent(s)' = IsCurrent(s)
    BY <1>2 DEF DocumentFor, IsCurrent
<1>4. first \in DOMAIN Stories /\ Stories[first] \in StorySet
    BY <1>1, StoriesAssumption DEF PhaseInv, AtWork
<1>5. /\ job' \in [Workers -> Jobs] /\ job'[w].story = Stories[first]
      /\ \A v \in Workers : v # w => job'[v] = job[v]
    BY <1>1, <1>4 DEF PhaseInv, AtWork, Jobs, LastAttempt
<1>6. AtWork' /\ Shown' /\ HandedOn' /\ LoadedIsFile'
    BY <1>1, <1>2, <1>3, <1>5 DEF PhaseInv, AtWork, Shown, HandedOn, LoadedIsFile, CachedEntries
<1>7. Settled'
    BY <1>2, <1>3 DEF PhaseInv, Settled, ScoredOnce
<1>8. Underway'
  <2> SUFFICES ASSUME NEW s \in Evaluatable
               PROVE  \/ IsCurrent(s) \/ s \in DOMAIN results
                      \/ \E i \in queue' : Stories[i] = s
                      \/ \E v \in Workers : job'[v].story = s
      BY <1>2, <1>3 DEF Underway
  <2>1. \/ IsCurrent(s) \/ s \in DOMAIN results
        \/ \E i \in queue : Stories[i] = s
        \/ \E v \in Workers : job[v].story = s
      BY <1>2 DEF PhaseInv, Underway
  <2>2. ASSUME NEW i \in queue, Stories[i] = s PROVE i \in queue' \/ job'[w].story = s
      BY <1>1, <1>5, <2>2
  <2>3. ASSUME NEW v \in Workers, job[v].story = s PROVE job'[v].story = s
    <3>1. s # Nobody
        BY StoriesAssumption
    <3>2. v # w
        BY <1>2, <2>3, <3>1 DEF Idle
    <3>3. QED
        BY <1>5, <2>3, <3>2
  <2>4. QED
      BY <2>1, <2>2, <2>3
<1>9. Unpaid'
  <2>1. ASSUME NEW v \in Workers, job'[v] # Idle PROVE ~IsCurrent(job'[v].story)
    <3>1. CASE v = w
        BY <1>1, <1>2, <1>5, <3>1 DEF PhaseInv, Unpaid
    <3>2. CASE v # w
        BY <1>2, <1>5, <2>1, <3>2 DEF PhaseInv, Unpaid
    <3>3. QED
        BY <3>1, <3>2
  <2>2. \A i \in queue' : ~IsCurrent(Stories[i])
      BY <1>1, <1>2 DEF PhaseInv, Unpaid
  <2>3. QED
      BY <1>3, <2>1, <2>2 DEF Unpaid
<1>10. QED
    BY <1>6, <1>7, <1>8, <1>9 DEF PhaseInv

(* What is not planned is current.                                            *)
LEMMA PlanCovers == PhaseInv /\ Plan => PhaseInv'
<1> SUFFICES ASSUME PhaseInv, Plan PROVE PhaseInv'
    OBVIOUS
<1>1. /\ pc = "documents" /\ pc' = "evaluate"
      /\ queue' = {i \in DOMAIN Stories : ~IsCurrent(Stories[i]) /\ Stories[i] \in Evaluatable}
      /\ UNCHANGED <<documents, cached, fallback, job, results, file, kept>>
    BY DEF Plan, textVars
<1>2. \A s : DocumentFor(s)' = DocumentFor(s) /\ IsCurrent(s)' = IsCurrent(s)
    BY <1>1 DEF DocumentFor, IsCurrent
<1>3. AtWork' /\ Shown' /\ Settled' /\ HandedOn' /\ LoadedIsFile'
    BY <1>1 DEF PhaseInv, AtWork, Shown, Settled, HandedOn, LoadedIsFile, CachedEntries
<1>4. Underway'
  <2> SUFFICES ASSUME NEW s \in Evaluatable, ~IsCurrent(s) PROVE \E i \in queue' : Stories[i] = s
      BY <1>2 DEF Underway
  <2>1. PICK i \in DOMAIN Stories : Stories[i] = s
      BY StoriesAssumption DEF StorySet, ToSet
  <2>2. i \in queue'
      BY <1>1, <2>1
  <2>3. QED
      BY <2>1, <2>2
<1>5. Unpaid'
    BY <1>1, <1>2 DEF PhaseInv, AtWork, Unpaid
<1>6. QED
    BY <1>3, <1>4, <1>5 DEF PhaseInv

(* When all are settled, the fallback and the results are the whole answer.   *)
LEMMA MergeCompletes == PhaseInv /\ Merge => PhaseInv'
<1> SUFFICES ASSUME PhaseInv, Merge PROVE PhaseInv'
    OBVIOUS
<1>1. /\ pc = "evaluate" /\ queue = {} /\ \A w \in Workers : job[w] = Idle
      /\ scores' = Override(fallback, results) /\ pc' \in {"save", "returned"}
      /\ UNCHANGED <<documents, cached, fallback, queue, job, results, file, kept>>
    BY DEF Merge, Evaluated, textVars
<1>2. \A s : DocumentFor(s)' = DocumentFor(s)
    BY <1>1 DEF DocumentFor
<1>3. AtWork' /\ Shown' /\ Settled' /\ Underway' /\ LoadedIsFile' /\ Unpaid'
    BY <1>1 DEF PhaseInv, AtWork, Shown, Settled, Underway, LoadedIsFile, Unpaid, CachedEntries
<1>4. ASSUME NEW s \in Evaluatable
      PROVE  s \in DOMAIN scores' /\ scores'[s].by \in {"llm", "neutral"} /\ scores'[s].of = DocumentFor(s)
  <2>1. /\ DOMAIN scores' = DOMAIN fallback \cup DOMAIN results
        /\ \A q \in DOMAIN scores' : scores'[q] = IF q \in DOMAIN results THEN results[q] ELSE fallback[q]
      BY <1>1 DEF Override
  <2>2. IsCurrent(s) \/ s \in DOMAIN results
    <3>1. s # Nobody
        BY StoriesAssumption
    <3>2. ~\E w \in Workers : job[w].story = s
        BY <1>1, <3>1 DEF Idle
    <3>3. QED
        BY <1>1, <3>2 DEF PhaseInv, Underway
  <2>3. CASE s \in DOMAIN results
      BY <1>1, <2>1, <2>3 DEF PhaseInv, Settled, ScoredOnce
  <2>4. CASE s \notin DOMAIN results
    <3>1. s \in DOMAIN cached /\ s \in DOMAIN documents /\ cached[s] = documents[s]
        BY <2>2, <2>4 DEF IsCurrent
    <3>2. s \in DOMAIN fallback /\ fallback[s] = Score("llm", cached[s])
        BY <3>1 DEF PhaseInv, Shown
    <3>3. fallback[s].by = "llm" /\ fallback[s].of = DocumentFor(s)
        BY <3>1, <3>2 DEF Score, DocumentFor
    <3>4. QED
        BY <2>1, <2>4, <3>2, <3>3
  <2>5. QED
      BY <2>3, <2>4
<1>5. HandedOn'
    BY <1>2, <1>4 DEF HandedOn, ScoredOnce
<1>6. QED
    BY <1>3, <1>5 DEF PhaseInv

(* The answers last saved are the entries of the file that saved them.        *)
LEMMA SavedIsFile == EndSave => kept' = CachedEntries'
<1> SUFFICES ASSUME EndSave PROVE kept' = CachedEntries'
    OBVIOUS
<1> DEFINE new == [s \in FromModel |-> results[s].of]
<1>1. CachedEntries' = Override(cached, new)
    BY DEF EndSave, CachedEntries, File, NewEntries
<1>2. kept' = Override([s \in DOMAIN cached |-> cached[s]], new)
    BY DEF EndSave
<1> HIDE DEF new
<1>3. QED
    BY <1>1, <1>2 DEF Override

LEMMA PhaseSteps == PhaseInv /\ [Next]_vars => PhaseInv'
<1> SUFFICES ASSUME PhaseInv, [Next]_vars PROVE PhaseInv'
    OBVIOUS
<1>1. CASE LoadScores
  <2>1. /\ pc = "idle" /\ pc' = "loaded" /\ cached' = CachedEntries /\ fallback' = CachedScores
        /\ UNCHANGED <<queue, job, results, file, kept>>
      BY <1>1 DEF LoadScores
  <2>2. Shown'
      BY <2>1 DEF Shown, CachedEntries, CachedScores, Nothing
  <2>3. AtWork' /\ Settled' /\ Underway' /\ HandedOn' /\ Unpaid'
      BY <2>1 DEF PhaseInv, AtWork, Settled, Underway, HandedOn, Unpaid
  <2>4. LoadedIsFile'
      BY <2>1 DEF PhaseInv, LoadedIsFile, CachedEntries
  <2>5. QED
      BY <2>2, <2>3, <2>4 DEF PhaseInv
<1>2. ASSUME NEW from, UseCached(from) PROVE PhaseInv'
  <2>1. /\ queue' = {} /\ job' = [w \in Workers |-> Idle] /\ DOMAIN results' = {} /\ pc' = "cached"
        /\ UNCHANGED <<cached, fallback, file, kept>>
      BY <1>2 DEF UseCached, Nothing
  <2>2. Shown'
      BY <2>1 DEF PhaseInv, Shown
  <2>3. QED
      BY <2>1, <2>2, Quiet DEF PhaseInv
<1>3. CASE OpenDocuments \/ LoadDocument
  <2>1. /\ pc \in {"loaded", "documents"} /\ pc' = "documents"
        /\ UNCHANGED <<cached, fallback, queue, job, results, file, kept>>
      BY <1>3 DEF OpenDocuments, LoadDocument, phaseVars
  <2>2. QED
      BY <2>1 DEF PhaseInv, AtWork, Shown, Settled, Underway, HandedOn, LoadedIsFile, Unpaid, CachedEntries
<1>4. CASE Plan
    BY <1>4, PlanCovers
<1>5. ASSUME NEW w \in Workers, Take(w) PROVE PhaseInv'
    BY <1>5, TakeKeeps
<1>6. ASSUME NEW w \in Workers, Answer(w) PROVE PhaseInv'
    BY <1>6, SettleKeeps DEF Answer
<1>7. ASSUME NEW w \in Workers, AssignNeutral(w) PROVE PhaseInv'
    BY <1>7, SettleKeeps DEF AssignNeutral
<1>8. ASSUME NEW w \in Workers, Raise(w) PROVE PhaseInv'
  <2>1. CASE sequential
      BY <1>2, <1>8, <2>1 DEF Raise
  <2>2. CASE ~sequential
      BY <1>8, <2>2, SettleKeeps DEF Raise
  <2>3. QED
      BY <2>1, <2>2
<1>9. ASSUME NEW w \in Workers, Retry(w) PROVE PhaseInv'
  <2>1. /\ job' = [job EXCEPT ![w].attempt = @ + 1] /\ job[w].attempt < LastAttempt /\ job[w] # Idle
        /\ pc = "evaluate" /\ UNCHANGED <<documents, cached, fallback, queue, results, scores, file, pc, kept>>
      BY <1>9 DEF Retry, textVars
  <2>2. /\ job' \in [Workers -> Jobs] /\ \A v \in Workers : job'[v].story = job[v].story
        /\ \A v \in Workers : v # w => job'[v] = job[v]
      BY <2>1 DEF PhaseInv, AtWork, Jobs, LastAttempt
  <2>3. \A s : DocumentFor(s)' = DocumentFor(s) /\ IsCurrent(s)' = IsCurrent(s)
      BY <2>1 DEF DocumentFor, IsCurrent
  <2>4. AtWork' /\ Shown' /\ HandedOn' /\ LoadedIsFile'
      BY <2>1, <2>2 DEF PhaseInv, AtWork, Shown, HandedOn, LoadedIsFile, CachedEntries
  <2>5. Settled' /\ Underway'
      BY <2>1, <2>2, <2>3 DEF PhaseInv, Settled, Underway, ScoredOnce
  <2>6. Unpaid'
      BY <2>1, <2>2, <2>3 DEF PhaseInv, Unpaid
  <2>7. QED
      BY <2>4, <2>5, <2>6 DEF PhaseInv
<1>10. CASE Merge
    BY <1>10, MergeCompletes
<1>11. CASE BeginSave \/ EndSave
  <2>1. /\ pc \in {"save", "writing"} /\ pc' \in {"writing", "returned"}
        /\ UNCHANGED <<documents, cached, fallback, queue, job, results, scores>>
      BY <1>11 DEF BeginSave, EndSave, phaseVars, textVars
  <2>2. kept' = CachedEntries'
      BY <1>11, SavedIsFile DEF BeginSave, CachedEntries, File
  <2>3. AtWork' /\ Shown' /\ Settled' /\ Underway' /\ LoadedIsFile' /\ Unpaid'
      BY <2>1, <2>2 DEF PhaseInv, AtWork, Shown, Settled, Underway, LoadedIsFile, Unpaid
  <2>4. HandedOn'
      BY <2>1 DEF PhaseInv, HandedOn, ScoredOnce, DocumentFor
  <2>5. QED
      BY <2>3, <2>4 DEF PhaseInv
<1>12. CASE EndRun \/ Die
  <2>1. /\ queue' = {} /\ job' = [w \in Workers |-> Idle] /\ DOMAIN results' = {} /\ pc' = "idle"
        /\ DOMAIN cached' = {} /\ UNCHANGED <<file, kept>>
      BY <1>12 DEF EndRun, Die, Nothing
  <2>2. Shown'
      BY <2>1 DEF Shown
  <2>3. QED
      BY <2>1, <2>2, Quiet DEF PhaseInv
<1>13. CASE HalfYear
  <2>1. pc = "idle" /\ UNCHANGED <<cached, fallback, queue, job, results, scores, file, pc, kept>>
      BY <1>13 DEF HalfYear, phaseVars
  <2>2. QED
      BY <2>1 DEF PhaseInv, AtWork, Shown, Settled, Underway, HandedOn, LoadedIsFile, Unpaid, CachedEntries
<1>14. CASE UNCHANGED vars
    BY <1>14 DEF vars, phaseVars, textVars, PhaseInv, AtWork, Shown, Settled, Underway, HandedOn, LoadedIsFile,
       Unpaid, CachedEntries, ScoredOnce, DocumentFor, IsCurrent
<1>15. QED
    BY <1>1, <1>2, <1>3, <1>4, <1>5, <1>6, <1>7, <1>8, <1>9, <1>10, <1>11, <1>12, <1>13, <1>14
       DEF Next, Step, NoCredentials, PhaseFails

LEMMA PhaseInvariance == Spec => []PhaseInv
BY PhaseStarts, PhaseSteps, PTL DEF Spec

(* _run_llm_phase: the ranker gets a score for every story that can be        *)
(* evaluated, on the document of this very run, however the threads share     *)
(* the stories, fail and retry.                                               *)
THEOREM AllScored == Spec => []ScoresComplete
<1>1. PhaseInv => ScoresComplete
    BY DEF PhaseInv, HandedOn, ScoresComplete, ScoredOnce
<1>2. QED
    BY <1>1, PhaseInvariance, PTL

(* A document whose score was saved is not sent to the model again, over any  *)
(* number of runs, whichever of them die, unless the file was torn since.     *)
THEOREM NothingPaidTwice == Spec => []PaidOnce
<1>1. PhaseInv => PaidOnce
  <2> SUFFICES ASSUME PhaseInv, NEW w \in Workers, job[w] # Idle, job[w].story \in DOMAIN kept,
                      job[w].story \in DOMAIN documents, kept[job[w].story] = documents[job[w].story]
               PROVE  FALSE
      BY DEF PaidOnce
  <2>1. pc = "evaluate"
      BY DEF PhaseInv, AtWork
  <2>2. kept = cached
      BY <2>1 DEF PhaseInv, LoadedIsFile
  <2>3. IsCurrent(job[w].story)
      BY <2>2 DEF IsCurrent
  <2>4. QED
      BY <2>1, <2>3 DEF PhaseInv, Unpaid
<1>2. QED
    BY <1>1, PhaseInvariance, PTL

-----------------------------------------------------------------------------
(* Translation.                                                               *)
Requests == [todo : SUBSET Visible, attempt : Nat]
TranslationTyped ==
    /\ stack \in [Threads -> Seq(Requests)]
    /\ batches \in Seq(SUBSET Visible)
    /\ unsaved \in Nat
    /\ getting = [w \in Threads |-> getting[w]]
    /\ TheLoop \in Threads

(* A run begins with nothing obtained, taken or to save.                      *)
Fresh ==
    main \in {"idle", "fallback"} =>
        /\ batches = <<>> /\ unsaved = 0 /\ DOMAIN got = {}
        /\ \A w \in Threads : stack[w] = <<>> /\ DOMAIN getting[w] = {}

(* What was obtained is in the dictionary, and stays so: nothing else is put  *)
(* there for the same story.                                                  *)
InDictionary(f, es, texts) ==
    \A s \in DOMAIN f : s \in DOMAIN es /\ es[s] = f[s] /\ f[s] = texts[s]
Obtained ==
    /\ InDictionary(got, entries, content)
    /\ \A w \in Threads : InDictionary(getting[w], entries, content)

(* The loop has one batch under way, and none while it saves; when the phase  *)
(* is over, or its last save begun, no batch is under way.                    *)
OneByOne ==
    alone =>
        /\ main # "raise"
        /\ \A w \in Threads : stack[w] # <<>> => w = TheLoop /\ main = "wait" /\ unsaved = 0
AllDone ==
    main \in {"last", "returned"} \/ (alone /\ main = "failed") =>
        \A w \in Threads : stack[w] = <<>>

(* What PaidKept says of the end of a phase holds, in the loop, since the     *)
(* save after each batch.                                                     *)
Saved ==
    \/ main \in {"last", "returned"}
    \/ alone /\ main \in {"truncate", "failed"}
    \/ alone /\ main = "wait" /\ unsaved = 0
InFile == \A s \in DOMAIN got : s \in DOMAIN cache.entries /\ cache.entries[s] = got[s]
CheckpointInv ==
    /\ TranslationTyped /\ Fresh /\ Obtained /\ OneByOne /\ AllDone
    /\ (Saved => InFile)

-----------------------------------------------------------------------------
LEMMA AThread == TheLoop \in Threads
BY TranslationAssumption DEF TheLoop

LEMMA NothingThere == DOMAIN NoEntries = {}
BY DEF NoEntries

(* A batch is of the stories it was made from.                                *)
LEMMA BatchesTyped ==
    ASSUME NEW S \in SUBSET Visible
    PROVE  CreateBatches(S) \in Seq(SUBSET Visible)
<1> DEFINE n == (Cardinality(S) + BatchSize - 1) \div BatchSize
<1>1. Cardinality(S) \in Nat
    BY FS_Subset, FS_CardinalityType, TranslationAssumption
<1>2. n \in Nat
    BY <1>1, TranslationAssumption
<1>3. CreateBatches(S) = [k \in 1..n |-> {s \in S : Before(S, s) \div BatchSize = k - 1}]
    BY DEF CreateBatches
<1> HIDE DEF n
<1>4. QED
    BY <1>2, <1>3

LEMMA RemainderTyped ==
    ASSUME NEW missing \in SUBSET Visible, NEW attempt \in Nat
    PROVE  Remainder(missing, attempt) \in Seq(Requests)
<1>1. missing \in SUBSET Visible
    OBVIOUS
<1>2. \A n : FirstOf(n, missing) \in SUBSET Visible /\ AfterFirst(n, missing) \in SUBSET Visible
    BY DEF FirstOf, AfterFirst
<1>3. \A S \in SUBSET Visible : [todo |-> S, attempt |-> attempt + 1] \in Requests
    BY DEF Requests
<1>4. CASE Cardinality(missing) = 0
    BY <1>4 DEF Remainder
<1>5. CASE Cardinality(missing) = 1
    BY <1>3, <1>5 DEF Remainder
<1>6. CASE Cardinality(missing) # 0 /\ Cardinality(missing) # 1
  <2> DEFINE n == Cardinality(missing) \div 2
             one == [todo |-> FirstOf(n, missing), attempt |-> attempt + 1]
             two == [todo |-> AfterFirst(n, missing), attempt |-> attempt + 1]
  <2>1. one \in Requests /\ two \in Requests
      BY <1>2, <1>3
  <2>2. Remainder(missing, attempt) = <<one, two>>
      BY <1>6 DEF Remainder
  <2> HIDE DEF one, two
  <2>3. QED
      BY <2>1, <2>2
<1>7. QED
    BY <1>4, <1>5, <1>6

(* The requests a thread goes on with after one of them.                      *)
Rest(w, translated) ==
    LET top == Head(stack[w])
        new == [s \in translated |-> content[s]]
    IN  Remainder(Missing(Updated(entries, new), top.todo), top.attempt) \o Tail(stack[w])

LEMMA RestTyped ==
    ASSUME TranslationTyped, NEW w \in Threads, NEW translated, stack[w] # <<>>
    PROVE  /\ Head(stack[w]) \in Requests
           /\ Tail(stack[w]) \in Seq(Requests)
           /\ Rest(w, translated) \in Seq(Requests)
<1> DEFINE top == Head(stack[w])
           new == [s \in translated |-> content[s]]
           missing == Missing(Updated(entries, new), top.todo)
<1>1. stack[w] \in Seq(Requests)
    BY DEF TranslationTyped
<1>2. top \in Requests /\ Tail(stack[w]) \in Seq(Requests)
    BY <1>1, HeadTailProperties
<1>3. missing \in SUBSET Visible /\ top.attempt \in Nat
    BY <1>2 DEF Missing, Requests
<1>4. Remainder(missing, top.attempt) \in Seq(Requests)
    BY <1>3, RemainderTyped
<1>5. Rest(w, translated) = Remainder(missing, top.attempt) \o Tail(stack[w])
    BY DEF Rest
<1> HIDE DEF missing
<1>6. QED
    BY <1>2, <1>4, <1>5, ConcatProperties

-----------------------------------------------------------------------------
LEMMA CheckpointStarts == TranslationInit => CheckpointInv
<1> SUFFICES ASSUME TranslationInit PROVE CheckpointInv
    OBVIOUS
<1> USE DEF TranslationInit
<1>1. TranslationTyped
    BY AThread DEF TranslationTyped
<1>2. Fresh /\ Obtained /\ OneByOne /\ AllDone
    BY NothingThere DEF Fresh, Obtained, InDictionary, OneByOne, AllDone
<1>3. InFile
    BY NothingThere DEF InFile
<1>4. QED
    BY <1>1, <1>2, <1>3 DEF CheckpointInv

(* What an answer adds to a dictionary agrees with all that was obtained.     *)
LEMMA AnswerAgrees ==
    ASSUME NEW translated, NEW f, NEW es, NEW texts, InDictionary(f, es, texts)
    PROVE  LET new == [s \in translated |-> texts[s]] IN
           /\ InDictionary(f, Updated(es, new), texts)
           /\ InDictionary(Updated(f, new), Updated(es, new), texts)
<1> DEFINE new == [s \in translated |-> texts[s]]
           later == Updated(es, new)
           gained == Updated(f, new)
<1>1. DOMAIN new = translated /\ \A s \in translated : new[s] = texts[s]
    OBVIOUS
<1> HIDE DEF new
<1>2. /\ DOMAIN later = DOMAIN es \cup translated
      /\ \A s \in translated : later[s] = texts[s]
      /\ \A s \in DOMAIN es \ translated : later[s] = es[s]
    BY <1>1 DEF Updated
<1>3. /\ DOMAIN gained = DOMAIN f \cup translated
      /\ \A s \in translated : gained[s] = texts[s]
      /\ \A s \in DOMAIN f \ translated : gained[s] = f[s]
    BY <1>1 DEF Updated
<1> HIDE DEF later, gained
<1>4. InDictionary(f, later, texts)
    BY <1>2 DEF InDictionary
<1>5. InDictionary(gained, later, texts)
    BY <1>2, <1>3, <1>4 DEF InDictionary
<1>6. QED
    BY <1>4, <1>5 DEF later, gained, new

(* Two dictionaries that agree with a third one.                              *)
LEMMA BothAgree ==
    ASSUME NEW f, NEW g, NEW es, NEW texts, InDictionary(f, es, texts), InDictionary(g, es, texts)
    PROVE  InDictionary(Updated(f, g), es, texts)
<1> DEFINE both == Updated(f, g)
<1>1. /\ DOMAIN both = DOMAIN f \cup DOMAIN g
      /\ \A s \in DOMAIN g : both[s] = g[s]
      /\ \A s \in DOMAIN f \ DOMAIN g : both[s] = f[s]
    BY DEF Updated
<1> HIDE DEF both
<1>2. InDictionary(both, es, texts)
    BY <1>1 DEF InDictionary
<1>3. QED
    BY <1>2 DEF both

LEMMA RequestKeeps ==
    ASSUME CheckpointInv, NEW w \in Threads, NEW translated \in SUBSET Visible, Request(w, translated)
    PROVE  CheckpointInv'
<1> DEFINE new == [s \in translated |-> content[s]]
           rest == Rest(w, translated)
           gained == Updated(getting[w], new)
<1>1. /\ stack[w] # <<>> /\ TranslationTyped /\ Fresh /\ Obtained /\ OneByOne /\ AllDone
      /\ Saved => InFile
    BY DEF Request, CheckpointInv
<1>2. /\ entries' = Updated(entries, new)
      /\ stack' = [stack EXCEPT ![w] = rest]
      /\ getting' = [getting EXCEPT ![w] = IF rest = <<>> THEN NoEntries ELSE gained]
      /\ got' = IF rest = <<>> THEN Updated(got, gained) ELSE got
      /\ unsaved' = unsaved + (IF rest = <<>> THEN 1 ELSE 0)
      /\ main' = main \/ (main = "snapshot" /\ main' = "raise")
      /\ UNCHANGED <<cache, content, reuse, batches, alone, returned, script, processes, disturbances>>
    BY DEF Request, Rest
<1>3. rest \in Seq(Requests)
    BY <1>1, RestTyped
<1>4. /\ InDictionary(got, entries', content) /\ InDictionary(gained, entries', content)
      /\ \A v \in Threads : InDictionary(getting[v], entries', content)
  <2>1. InDictionary(got, entries, content) /\ \A v \in Threads : InDictionary(getting[v], entries, content)
      BY <1>1 DEF Obtained
  <2>2. QED
      BY <1>2, <2>1, AnswerAgrees
<1>5. InDictionary(Updated(got, gained), entries', content)
    BY <1>4, BothAgree
<1>6. InDictionary(NoEntries, entries', content)
    BY NothingThere DEF InDictionary
<1> HIDE DEF new, rest, gained
<1>7. TranslationTyped'
  <2>1. unsaved' \in Nat
      BY <1>1, <1>2 DEF TranslationTyped
  <2>2. stack' \in [Threads -> Seq(Requests)]
      BY <1>1, <1>2, <1>3 DEF TranslationTyped
  <2>3. getting' = [v \in Threads |-> getting'[v]]
      BY <1>1, <1>2 DEF TranslationTyped
  <2>4. QED
      BY <1>1, <1>2, <2>1, <2>2, <2>3 DEF TranslationTyped
<1>8. Obtained'
  <2>1. InDictionary(got', entries', content')
      BY <1>2, <1>4, <1>5
  <2>2. \A v \in Threads : InDictionary(getting'[v], entries', content')
      BY <1>1, <1>2, <1>4, <1>6 DEF TranslationTyped
  <2>3. QED
      BY <2>1, <2>2 DEF Obtained
<1>9. main \notin {"idle", "fallback", "last", "returned"} /\ ~(alone /\ main = "failed")
    BY <1>1 DEF Fresh, AllDone
<1>10. Fresh' /\ AllDone'
    BY <1>2, <1>9 DEF Fresh, AllDone
<1>11. OneByOne'
  <2> SUFFICES ASSUME alone PROVE OneByOne'
      BY <1>2 DEF OneByOne
  <2>1. w = TheLoop /\ main = "wait" /\ unsaved = 0
      BY <1>1 DEF OneByOne
  <2>2. \A v \in Threads : stack'[v] # <<>> => v = w /\ rest # <<>>
      BY <1>1, <1>2, <2>1 DEF OneByOne, TranslationTyped
  <2>3. QED
      BY <1>2, <2>1, <2>2 DEF OneByOne
<1>12. Saved' => InFile'
  <2> SUFFICES ASSUME Saved' PROVE InFile'
      OBVIOUS
  <2>1. alone
      BY <1>2, <1>9 DEF Saved
  <2>2. main = "wait" /\ main' = "wait" /\ unsaved = 0
      BY <1>1, <1>2, <2>1 DEF OneByOne
  <2>3. unsaved' = 0
      BY <1>2, <2>2 DEF Saved
  <2>4. got' = got
      BY <1>2, <2>2, <2>3
  <2>5. InFile
      BY <1>1, <2>1, <2>2 DEF Saved
  <2>6. QED
      BY <1>2, <2>4, <2>5 DEF InFile
<1>13. QED
    BY <1>7, <1>8, <1>10, <1>11, <1>12 DEF CheckpointInv

LEMMA CheckpointStep == CheckpointInv /\ [TranslationNext]_translationVars => CheckpointInv'
<1> SUFFICES ASSUME CheckpointInv, [TranslationNext]_translationVars
             PROVE  CheckpointInv'
    OBVIOUS
<1>0. /\ TranslationTyped /\ Fresh /\ Obtained /\ OneByOne /\ AllDone
      /\ Saved => InFile
      /\ InDictionary(got, entries, content)
      /\ \A w \in Threads : InDictionary(getting[w], entries, content)
    BY DEF CheckpointInv, Obtained
<1>e. \A es, texts : InDictionary(NoEntries, es, texts)
    BY NothingThere DEF InDictionary
<1>f. \A f, es, texts : DOMAIN f = {} => InDictionary(f, es, texts)
    BY DEF InDictionary
<1>1. CASE LoadFallback
    BY <1>0, <1>1 DEF LoadFallback, CheckpointInv, TranslationTyped, Fresh, Obtained, OneByOne, AllDone,
                      Saved, InFile, memory, threadVars, historyVars
<1>2. CASE Translate
  <2>1. CreateBatches(Missing(entries', Visible)) \in Seq(SUBSET Visible)
      BY BatchesTyped DEF Missing
  <2>2. TranslationTyped'
      BY <1>0, <1>2, <2>1 DEF Translate, TranslationTyped, historyVars
  <2>3. /\ main' \in {"wait", "returned"} /\ got' = got /\ stack' = stack /\ getting' = getting /\ unsaved' = 0
        /\ DOMAIN got = {} /\ \A w \in Threads : stack[w] = <<>> /\ DOMAIN getting[w] = {}
      BY <1>0, <1>2 DEF Translate, Fresh, historyVars
  <2>4. Fresh' /\ OneByOne' /\ AllDone' /\ InFile'
      BY <2>3 DEF Fresh, OneByOne, AllDone, InFile
  <2>5. Obtained'
      BY <1>f, <2>3 DEF Obtained
  <2>6. QED
      BY <2>2, <2>4, <2>5 DEF CheckpointInv
<1>3. ASSUME NEW w \in Threads, TakeBatch(w) PROVE CheckpointInv'
  <2>1. /\ batches \in Seq(SUBSET Visible) /\ batches # <<>>
        /\ stack' = [stack EXCEPT ![w] = <<[todo |-> Head(batches), attempt |-> 0]>>]
        /\ batches' = Tail(batches) /\ stack \in [Threads -> Seq(Requests)]
        /\ main \in {"wait", "snapshot", "truncate", "raise"}
        /\ alone => w = TheLoop /\ main = "wait" /\ unsaved = 0
        /\ UNCHANGED <<cache, content, memory, unsaved, alone, main, historyVars>>
      BY <1>0, <1>3 DEF TakeBatch, TranslationTyped
  <2>2. Head(batches) \in SUBSET Visible /\ Tail(batches) \in Seq(SUBSET Visible)
      BY <2>1, HeadTailProperties
  <2>3. [todo |-> Head(batches), attempt |-> 0] \in Requests
      BY <2>2 DEF Requests
  <2>4. TranslationTyped'
      BY <1>0, <2>1, <2>2, <2>3 DEF TranslationTyped, historyVars
  <2>5. Fresh' /\ AllDone'
      BY <2>1 DEF Fresh, AllDone
  <2>6. Obtained'
      BY <1>0, <2>1 DEF Obtained, memory, historyVars
  <2>7. OneByOne'
      BY <1>0, <2>1 DEF OneByOne
  <2>8. Saved' => InFile'
      BY <1>0, <2>1 DEF Saved, InFile, historyVars
  <2>9. QED
      BY <2>4, <2>5, <2>6, <2>7, <2>8 DEF CheckpointInv
<1>4. ASSUME NEW w \in Threads, NEW some \in SUBSET Visible, Request(w, some) PROVE CheckpointInv'
    BY <1>4, RequestKeeps
<1>5. CASE Snapshot
    BY <1>0, <1>5 DEF Snapshot, CheckpointInv, TranslationTyped, Fresh, Obtained, OneByOne, AllDone,
                      Saved, InFile, memory, historyVars
<1>6. CASE Truncate
  <2>1. /\ cache'.entries = entries /\ main = "snapshot" /\ main' = "truncate"
        /\ UNCHANGED <<content, memory, threadVars, historyVars>>
      BY <1>6 DEF Truncate, CacheFile
  <2>2. InFile'
      BY <1>0, <2>1 DEF InDictionary, InFile, historyVars
  <2>3. QED
      BY <1>0, <2>1, <2>2 DEF CheckpointInv, TranslationTyped, Fresh, Obtained, OneByOne, AllDone,
                              memory, threadVars, historyVars
<1>7. CASE Write
  <2>1. /\ cache'.entries = cache.entries /\ main = "truncate" /\ main' = "wait"
        /\ UNCHANGED <<content, memory, threadVars, historyVars>>
      BY <1>7 DEF Write, Written, CacheFile
  <2>2. Saved' => InFile'
      BY <1>0, <2>1 DEF InFile, Saved, threadVars, historyVars
  <2>3. QED
      BY <1>0, <2>1, <2>2 DEF CheckpointInv, TranslationTyped, Fresh, Obtained, OneByOne, AllDone,
                              memory, threadVars, historyVars
<1>8. CASE TruncateLast
  <2>1. /\ cache'.entries = entries /\ main = "wait" /\ main' = "last"
        /\ \A w \in Threads : stack[w] = <<>>
        /\ UNCHANGED <<content, memory, threadVars, historyVars>>
      BY <1>8 DEF TruncateLast, Working, CacheFile
  <2>2. InFile'
      BY <1>0, <2>1 DEF InDictionary, InFile, historyVars
  <2>3. QED
      BY <1>0, <2>1, <2>2 DEF CheckpointInv, TranslationTyped, Fresh, Obtained, OneByOne, AllDone,
                              memory, threadVars, historyVars
<1>9. CASE WriteLast
  <2>1. /\ cache'.entries = cache.entries /\ main = "last" /\ main' = "returned"
        /\ UNCHANGED <<content, entries, threadVars, historyVars>>
      BY <1>9 DEF WriteLast, Written, CacheFile
  <2>2. InFile'
      BY <1>0, <2>1 DEF InFile, Saved, threadVars, historyVars
  <2>3. QED
      BY <1>0, <2>1, <2>2 DEF CheckpointInv, TranslationTyped, Fresh, Obtained, OneByOne, AllDone,
                              threadVars, historyVars
<1>10. CASE Leave
    BY <1>0, <1>10 DEF Leave, FallBack, CheckpointInv, TranslationTyped, Fresh, Obtained, OneByOne, AllDone,
                       Saved, InFile, threadVars, historyVars
<1>11. CASE Exit
  <2>1. TranslationTyped'
      BY <1>11, AThread DEF Exit, QuietThreads, QuietHistory, TranslationTyped
  <2>2. Fresh' /\ Obtained' /\ OneByOne' /\ AllDone' /\ InFile'
      BY <1>11, <1>e, NothingThere
         DEF Exit, QuietThreads, QuietHistory, Fresh, Obtained, OneByOne, AllDone, InFile
  <2>3. QED
      BY <2>1, <2>2 DEF CheckpointInv
<1>12. CASE NoTranslator
    BY <1>0, <1>12 DEF NoTranslator, FallBack, CheckpointInv, TranslationTyped, Fresh, Obtained, OneByOne,
                       AllDone, InFile, threadVars, historyVars
<1>13. CASE DeleteCache
  <2>1. InFile' /\ InDictionary(got', entries', content')
      BY <1>13, <1>e, NothingThere DEF DeleteCache, InFile
  <2>2. QED
      BY <1>0, <1>13, <2>1, NothingThere DEF DeleteCache, CheckpointInv, TranslationTyped, Fresh, Obtained,
                       OneByOne, AllDone, memory, threadVars
<1>14. CASE TryLock
    BY <1>0, <1>14 DEF TryLock, CheckpointInv, TranslationTyped, Fresh, Obtained, OneByOne, AllDone,
                       Saved, InFile, memory, threadVars, historyVars
<1>15. ASSUME NEW w \in Threads, BatchRaises(w) PROVE CheckpointInv'
  <2>1. /\ stack[w] # <<>>
        /\ stack' = [stack EXCEPT ![w] = <<>>]
        /\ getting' = [getting EXCEPT ![w] = NoEntries]
        /\ UNCHANGED <<cache, content, entries, alone, got>>
        /\ \/ alone /\ main' = "failed" /\ batches' = <<>> /\ unsaved' = unsaved
           \/ ~alone /\ unsaved' = unsaved + 1 /\ main' = main /\ batches' = batches
      BY <1>15 DEF BatchRaises, FallBack
  <2>2. main \notin {"idle", "fallback", "last", "returned"}
      BY <1>0, <2>1 DEF Fresh, AllDone
  <2>3. TranslationTyped'
    <3>1. stack' \in [Threads -> Seq(Requests)] /\ unsaved' \in Nat
        BY <1>0, <2>1 DEF TranslationTyped
    <3>2. getting' = [v \in Threads |-> getting'[v]]
        BY <1>0, <2>1 DEF TranslationTyped
    <3>3. batches' \in Seq(SUBSET Visible)
      <4>1. batches' = <<>> \/ batches' = batches
          BY <2>1
      <4>2. <<>> \in Seq(SUBSET Visible)
          OBVIOUS
      <4>3. QED
          BY <1>0, <4>1, <4>2 DEF TranslationTyped
    <3>4. QED
        BY <3>1, <3>2, <3>3, AThread DEF TranslationTyped
  <2>4. Obtained'
      BY <1>0, <1>e, <2>1 DEF Obtained, TranslationTyped
  <2>5. Fresh'
      BY <2>1, <2>2 DEF Fresh
  <2>6. OneByOne' /\ AllDone'
      BY <1>0, <2>1, <2>2 DEF OneByOne, AllDone, TranslationTyped
  <2>7. Saved' => InFile'
      BY <1>0, <2>1, <2>2 DEF Saved, InFile, OneByOne
  <2>8. QED
      BY <2>3, <2>4, <2>5, <2>6, <2>7 DEF CheckpointInv
<1>16. ASSUME NEW s \in Visible, NewContent(s) PROVE CheckpointInv'
  <2>1. main = "idle" /\ UNCHANGED <<cache, memory, threadVars, main, historyVars>>
      BY <1>16 DEF NewContent
  <2>2. DOMAIN got = {} /\ \A w \in Threads : DOMAIN getting[w] = {}
      BY <1>0, <2>1 DEF Fresh
  <2>3. Obtained'
      BY <1>f, <2>1, <2>2 DEF Obtained, historyVars
  <2>4. QED
      BY <1>0, <2>1, <2>3 DEF CheckpointInv, TranslationTyped, Fresh, OneByOne, AllDone, Saved, InFile,
                       threadVars, historyVars
<1>17. CASE UNCHANGED translationVars
    BY <1>0, <1>17 DEF translationVars, CheckpointInv, TranslationTyped, Fresh, Obtained, OneByOne, AllDone,
                       Saved, InFile, memory, threadVars, historyVars
<1>18. QED
    BY <1>1, <1>2, <1>3, <1>4, <1>5, <1>6, <1>7, <1>8, <1>9, <1>10, <1>11, <1>12, <1>13, <1>14, <1>15,
       <1>16, <1>17 DEF TranslationNext, TranslationStep, PhaseOver, Killed

(* What a batch that is done obtained is in translations_zh.json when the     *)
(* phase ends (processor.py:164-188), for any stories, batches and threads,   *)
(* and with the file deleted at any moment.                                   *)
THEOREM CheckpointsKeep == TranslationSpec => []PaidKept
<1>1. CheckpointInv => PaidKept
    BY DEF CheckpointInv, PaidKept, Saved, InFile
<1>2. QED
    BY <1>1, CheckpointStarts, CheckpointStep, PTL DEF TranslationSpec

-----------------------------------------------------------------------------
(* The stories of a list in their order.                                      *)
LEMMA Order ==
    ASSUME NEW S \in SUBSET Nat, IsFiniteSet(S), NEW s \in S
    PROVE  /\ Before(S, s) \in Nat /\ Before(S, s) < Cardinality(S)
           /\ \A t \in S : t < s => Before(S, t) < Before(S, s)
<1> DEFINE under(t) == {u \in S : u < t}
<1>1. \A t : IsFiniteSet(under(t)) /\ Cardinality(under(t)) \in Nat
    BY FS_Subset, FS_CardinalityType
<1>2. Cardinality(S) \in Nat
    BY FS_CardinalityType
<1>3. Cardinality(under(s)) <= Cardinality(S) /\ (Cardinality(S) = Cardinality(under(s)) => S = under(s))
    BY FS_Subset
<1>4. S # under(s)
    <2>1. s \notin under(s)
        OBVIOUS
    <2>2. QED
        BY <2>1
<1>5. ASSUME NEW t \in S, t < s
      PROVE  Cardinality(under(t)) < Cardinality(under(s))
  <2>0. s \in Nat /\ t \in Nat /\ \A u \in S : u \in Nat
      OBVIOUS
  <2>1. /\ \A u \in under(t) : u \in under(s)
        /\ t \in under(s) /\ t \notin under(t)
      BY <1>5, <2>0
  <2>2. Cardinality(under(t)) <= Cardinality(under(s)) /\ Cardinality(under(t)) # Cardinality(under(s))
    <3> HIDE DEF under
    <3>1. under(t) \in SUBSET under(s)
        BY <2>1
    <3>2. QED
        BY <1>1, <2>1, <3>1, FS_Subset
  <2>3. QED
      BY <1>1, <2>2
<1>6. \A t : Before(S, t) = Cardinality(under(t))
    BY DEF Before
<1> HIDE DEF under
<1>7. QED
    BY <1>1, <1>2, <1>3, <1>4, <1>5, <1>6

(* Between n positions there are no more than n stories.                      *)
LEMMA Slice ==
    ASSUME NEW S \in SUBSET Nat, IsFiniteSet(S), NEW T \in SUBSET S, NEW a \in Nat, NEW n \in Nat,
           \A t \in T : a <= Before(S, t) /\ Before(S, t) < a + n
    PROVE  IsFiniteSet(T) /\ Cardinality(T) \in Nat /\ Cardinality(T) <= n
<1> DEFINE f == [t \in T |-> Before(S, t)]
           R == a..(a + n - 1)
<1>1. \A s \in S : Before(S, s) \in Nat /\ \A t \in S : t < s => Before(S, t) < Before(S, s)
    BY Order
<1>2. f \in [T -> R]
    BY <1>1
<1>3. \A s, t \in T : f[s] = f[t] => s = t
  <2> SUFFICES ASSUME NEW s \in T, NEW t \in T, s # t PROVE f[s] # f[t]
      OBVIOUS
  <2>1. s \in Nat /\ t \in Nat /\ s \in S /\ t \in S
      OBVIOUS
  <2>2. s < t \/ t < s
      BY <2>1
  <2>3. QED
      BY <1>1, <2>1, <2>2
<1>4. f \in Injection(T, R)
    BY <1>2, <1>3 DEF Injection, IsInjective
<1>5. IsFiniteSet(R) /\ Cardinality(R) = n
    BY FS_Interval
<1>6. IsFiniteSet(T) /\ Cardinality(T) <= Cardinality(R)
    BY <1>4, <1>5, FS_Injection
<1>7. QED
    BY <1>5, <1>6, FS_CardinalityType

LEMMA Divided ==
    ASSUME NEW b \in Nat \ {0}, NEW m \in Nat
    PROVE  /\ m \div b \in Nat
           /\ b * (m \div b) <= m /\ m < b * (m \div b) + b
           /\ b * (m \div b) \in Nat
OBVIOUS
LEMMA LastBatch ==
    ASSUME NEW b \in Nat \ {0}, NEW m \in Nat, NEW c \in Nat, m < c
    PROVE  (m \div b) + 1 <= (c + b - 1) \div b
OBVIOUS

LEMMA BatchesCover ==
    ASSUME NEW S \in SUBSET Visible
    PROVE  /\ \A s \in S : \E k \in DOMAIN CreateBatches(S) : s \in CreateBatches(S)[k]
           /\ \A k \in DOMAIN CreateBatches(S) :
                  Cardinality(CreateBatches(S)[k]) \in Nat /\ Cardinality(CreateBatches(S)[k]) <= BatchSize
<1> DEFINE n == (Cardinality(S) + BatchSize - 1) \div BatchSize
           batch(k) == {s \in S : Before(S, s) \div BatchSize = k - 1}
<1>1. IsFiniteSet(S) /\ S \in SUBSET Nat /\ Cardinality(S) \in Nat /\ BatchSize \in Nat \ {0}
  <2>1. IsFiniteSet(S) /\ Cardinality(S) \in Nat
      BY FS_Subset, FS_CardinalityType, TranslationAssumption
  <2>2. S \in SUBSET Nat /\ BatchSize \in Nat \ {0}
      BY TranslationAssumption
  <2>3. QED
      BY <2>1, <2>2
<1>2. n \in Nat
    BY <1>1
<1>3. CreateBatches(S) = [k \in 1..n |-> batch(k)]
    BY DEF CreateBatches
<1>4. ASSUME NEW s \in S PROVE \E k \in 1..n : s \in batch(k)
  <2>1. Before(S, s) \in Nat /\ Before(S, s) < Cardinality(S)
      BY <1>1, Order
  <2>2. Before(S, s) \div BatchSize \in Nat /\ (Before(S, s) \div BatchSize) + 1 <= n
      BY <1>1, <2>1, Divided, LastBatch
  <2> DEFINE k == (Before(S, s) \div BatchSize) + 1
  <2>3. k \in 1..n /\ Before(S, s) \div BatchSize = k - 1
      BY <1>2, <2>2
  <2>4. QED
      BY <2>3
<1>5. ASSUME NEW k \in 1..n PROVE Cardinality(batch(k)) \in Nat /\ Cardinality(batch(k)) <= BatchSize
  <2> DEFINE a == BatchSize * (k - 1)
  <2>1. a \in Nat
      BY <1>1, <1>2
  <2>2. batch(k) \in SUBSET S
      OBVIOUS
  <2>3. ASSUME NEW s \in batch(k) PROVE a <= Before(S, s) /\ Before(S, s) < a + BatchSize
    <3>1. Before(S, s) \in Nat /\ Before(S, s) \div BatchSize = k - 1
        BY <1>1, Order
    <3>2. QED
        BY <1>1, <3>1, Divided
  <2> HIDE DEF a, batch
  <2>4. QED
      BY <1>1, <2>1, <2>2, <2>3, Slice
<1> HIDE DEF n, batch
<1>6. QED
    BY <1>3, <1>4, <1>5

Members(q) == {q[i] : i \in DOMAIN q}

(* What Remainder makes of the stories an answer left out: each of them is    *)
(* asked for again, except one that was alone and has no attempt left.        *)
LEMMA RemainderCovers ==
    ASSUME NEW missing \in SUBSET Visible, NEW attempt \in Nat, NEW s \in missing
    PROVE  \/ \E r \in Members(Remainder(missing, attempt)) : s \in r.todo
           \/ attempt >= MaxSingleRetries
<1>1. IsFiniteSet(missing) /\ missing \in SUBSET Nat
    BY FS_Subset, TranslationAssumption
<1>2. Cardinality(missing) \in Nat /\ Cardinality(missing) # 0
    BY <1>1, FS_CardinalityType, FS_EmptySet
<1>3. CASE Cardinality(missing) = 1
    BY <1>3 DEF Remainder, MaxSingleRetries, Members
<1>4. CASE Cardinality(missing) # 1
  <2> DEFINE n == Cardinality(missing) \div 2
             one == [todo |-> FirstOf(n, missing), attempt |-> attempt + 1]
             two == [todo |-> AfterFirst(n, missing), attempt |-> attempt + 1]
  <2>1. Remainder(missing, attempt) = <<one, two>>
      BY <1>2, <1>4 DEF Remainder
  <2>2. Before(missing, s) \in Nat /\ n \in Nat
      BY <1>1, <1>2, Order
  <2>3. s \in one.todo \/ s \in two.todo
      BY <2>2 DEF FirstOf, AfterFirst
  <2> HIDE DEF one, two
  <2>4. QED
      BY <2>1, <2>3 DEF Members
<1>5. QED
    BY <1>3, <1>4

(* With batches of four, two halvings leave one story, which is then tried    *)
(* for the last time.                                                         *)
Bounded(r) ==
    /\ Cardinality(r.todo) <= BatchSize
    /\ r.attempt = 1 => Cardinality(r.todo) <= 2
    /\ r.attempt >= 2 => Cardinality(r.todo) <= 1

LEMMA RemainderBounded ==
    ASSUME BatchSize <= 4, NEW r \in Requests, Bounded(r), NEW missing \in SUBSET r.todo,
           NEW q \in Members(Remainder(missing, r.attempt))
    PROVE  Bounded(q)
<1> DEFINE c == Cardinality(missing)
           rem == Remainder(missing, r.attempt)
<1>1. /\ r.todo \in SUBSET Visible /\ r.attempt \in Nat
      /\ BatchSize \in Nat
    BY TranslationAssumption DEF Requests
<1>2. /\ IsFiniteSet(missing) /\ missing \in SUBSET Nat
      /\ c \in Nat /\ Cardinality(r.todo) \in Nat /\ c <= Cardinality(r.todo)
    BY <1>1, FS_Subset, FS_CardinalityType, TranslationAssumption
<1>3. c <= BatchSize /\ c <= 4 /\ (r.attempt = 1 => c <= 2) /\ (r.attempt >= 2 => c <= 1)
    BY <1>1, <1>2 DEF Bounded
<1>4. CASE c = 0
    BY <1>4 DEF Remainder, Members
<1>5. CASE c = 1
  <2> DEFINE next == [todo |-> missing, attempt |-> r.attempt + 1]
  <2>1. rem = <<next>> \/ rem = <<>>
      BY <1>5 DEF Remainder
  <2>2. Bounded(next)
      BY <1>1, <1>3, <1>5 DEF Bounded
  <2> HIDE DEF next, rem
  <2>3. q = next
      BY <2>1 DEF rem, Members
  <2>4. QED
      BY <2>2, <2>3 DEF rem
<1>6. CASE c > 1
  <2> DEFINE n == c \div 2
             one == [todo |-> FirstOf(n, missing), attempt |-> r.attempt + 1]
             two == [todo |-> AfterFirst(n, missing), attempt |-> r.attempt + 1]
  <2>1. rem = <<one, two>>
      BY <1>2, <1>6 DEF Remainder
  <2>2. n \in Nat /\ c - n \in Nat /\ n <= 2 /\ c - n <= 2 /\ (c <= 2 => n <= 1 /\ c - n <= 1) /\ n <= c /\ c - n <= c
      BY <1>2, <1>3, <1>6
  <2>3. \A s \in missing : Before(missing, s) \in Nat /\ Before(missing, s) < c
      BY <1>2, Order
  <2>4. Cardinality(FirstOf(n, missing)) \in Nat /\ Cardinality(FirstOf(n, missing)) <= n
    <3>1. FirstOf(n, missing) \in SUBSET missing
        BY DEF FirstOf
    <3>2. \A s \in FirstOf(n, missing) : 0 <= Before(missing, s) /\ Before(missing, s) < 0 + n
        BY <2>2, <2>3 DEF FirstOf
    <3> HIDE DEF n, c
    <3>3. QED
        BY <1>2, <2>2, <3>1, <3>2, Slice
  <2>5. Cardinality(AfterFirst(n, missing)) \in Nat /\ Cardinality(AfterFirst(n, missing)) <= c - n
    <3>1. AfterFirst(n, missing) \in SUBSET missing
        BY DEF AfterFirst
    <3>2. \A s \in AfterFirst(n, missing) : n <= Before(missing, s) /\ Before(missing, s) < n + (c - n)
        BY <1>2, <2>2, <2>3 DEF AfterFirst
    <3> HIDE DEF n, c
    <3>3. QED
        BY <1>2, <2>2, <3>1, <3>2, Slice
  <2>6. Bounded(one)
      BY <1>1, <1>2, <1>3, <2>2, <2>4 DEF Bounded
  <2>7. Bounded(two)
      BY <1>1, <1>2, <1>3, <2>2, <2>5 DEF Bounded
  <2> HIDE DEF one, two, rem
  <2>8. q = one \/ q = two
      BY <2>1 DEF rem, Members
  <2>9. QED
      BY <2>1, <2>6, <2>7, <2>8 DEF rem
<1>7. QED
    BY <1>2, <1>4, <1>5, <1>6

-----------------------------------------------------------------------------
LEMMA HeadOrTail ==
    ASSUME NEW R, NEW q \in Seq(R), q # <<>>
    PROVE  Members(q) = {Head(q)} \cup Members(Tail(q))
<1>1. /\ Len(q) \in Nat /\ Len(q) > 0 /\ DOMAIN q = 1..Len(q) /\ Head(q) = q[1]
      /\ Len(Tail(q)) = Len(q) - 1 /\ Tail(q) \in Seq(R)
    OBVIOUS
<1>2. DOMAIN Tail(q) = 1..(Len(q) - 1) /\ \A j \in 1..(Len(q) - 1) : Tail(q)[j] = q[j + 1]
    BY <1>1
<1>3. ASSUME NEW i \in DOMAIN q PROVE q[i] \in {Head(q)} \cup Members(Tail(q))
  <2>1. CASE i = 1
      BY <1>1, <2>1
  <2>2. CASE i # 1
    <3>1. i - 1 \in DOMAIN Tail(q) /\ Tail(q)[i - 1] = q[(i - 1) + 1] /\ (i - 1) + 1 = i
        BY <1>1, <1>2, <2>2
    <3>2. QED
        BY <3>1 DEF Members
  <2>3. QED
      BY <2>1, <2>2
<1>4. ASSUME NEW j \in DOMAIN Tail(q) PROVE Tail(q)[j] \in Members(q)
  <2>1. j + 1 \in DOMAIN q /\ Tail(q)[j] = q[j + 1]
      BY <1>1, <1>2
  <2>2. QED
      BY <2>1 DEF Members
<1>5. Head(q) \in Members(q)
  <2>1. 1 \in DOMAIN q
      BY <1>1
  <2>2. QED
      BY <1>1, <2>1 DEF Members
<1>6. Members(q) \subseteq {Head(q)} \cup Members(Tail(q))
    BY <1>3 DEF Members
<1>7. Members(Tail(q)) \subseteq Members(q)
    BY <1>4 DEF Members
<1>8. QED
    BY <1>5, <1>6, <1>7

LEMMA EitherPart ==
    ASSUME NEW R, NEW p \in Seq(R), NEW q \in Seq(R)
    PROVE  Members(p \o q) = Members(p) \cup Members(q)
<1> DEFINE c == p \o q
<1>1. /\ Len(p) \in Nat /\ Len(q) \in Nat /\ DOMAIN p = 1..Len(p) /\ DOMAIN q = 1..Len(q)
      /\ c \in Seq(R) /\ Len(c) = Len(p) + Len(q)
    BY ConcatProperties
<1>2. DOMAIN c = 1..(Len(p) + Len(q))
    BY <1>1
<1>3. /\ \A i \in 1..Len(p) : c[i] = p[i]
      /\ \A i \in 1..(Len(p) + Len(q)) : i > Len(p) => c[i] = q[i - Len(p)]
    BY <1>1, ConcatProperties
<1> HIDE DEF c
<1>4. ASSUME NEW i \in DOMAIN c PROVE c[i] \in Members(p) \cup Members(q)
  <2>1. CASE i <= Len(p)
    <3>1. i \in DOMAIN p /\ p[i] = c[i]
        BY <1>1, <1>2, <1>3, <2>1
    <3>2. QED
        BY <3>1 DEF Members
  <2>2. CASE i > Len(p)
    <3>1. i - Len(p) \in DOMAIN q /\ q[i - Len(p)] = c[i]
        BY <1>1, <1>2, <1>3, <2>2
    <3>2. QED
        BY <3>1 DEF Members
  <2>3. QED
      BY <1>1, <1>2, <2>1, <2>2
<1>5. ASSUME NEW j \in DOMAIN p PROVE p[j] \in Members(c)
  <2>1. j \in DOMAIN c /\ c[j] = p[j]
      BY <1>1, <1>2, <1>3
  <2>2. QED
      BY <2>1 DEF Members
<1>6. ASSUME NEW j \in DOMAIN q PROVE q[j] \in Members(c)
  <2> DEFINE i == Len(p) + j
  <2>1. i \in 1..(Len(p) + Len(q)) /\ i > Len(p) /\ i - Len(p) = j
      BY <1>1
  <2> HIDE DEF i
  <2>2. i \in DOMAIN c /\ c[i] = q[j]
      BY <1>2, <1>3, <2>1
  <2>3. QED
      BY <2>2 DEF Members
<1>7. Members(c) \subseteq Members(p) \cup Members(q)
    BY <1>4 DEF Members
<1>8. Members(p) \subseteq Members(c) /\ Members(q) \subseteq Members(c)
    BY <1>5, <1>6 DEF Members
<1>9. QED
    BY <1>7, <1>8 DEF c

(* A story of the page is translated, or is in a batch, or will be asked for, *)
(* or has been asked for the last time.                                       *)
Asks(q, s) == \E r \in Members(q) : s \in r.todo
Waits(s) == \E S \in Members(batches) : s \in S
Pending(s) == Waits(s) \/ \E w \in Threads : Asks(stack[w], s)
Spent(s) ==
    /\ asked[s].attempt >= MaxSingleRetries
    /\ BatchSize <= 4 => asked[s].size <= 1
Accounted ==
    main \in {"wait", "snapshot", "truncate", "last"} =>
        \A s \in Visible : UpToDate(entries, s) \/ Pending(s) \/ Spent(s)
SmallRequests ==
    BatchSize <= 4 =>
        /\ \A S \in Members(batches) : Cardinality(S) <= BatchSize
        /\ \A w \in Threads : \A r \in Members(stack[w]) : Bounded(r)
NoneLeft == main = "last" => batches = <<>>
AskedInv == Accounted /\ SmallRequests /\ NoneLeft /\ GivenUpAlone

LEMMA RestAsks ==
    ASSUME TranslationTyped, NEW w \in Threads, NEW translated, stack[w] # <<>>
    PROVE  LET top == Head(stack[w])
               es == Updated(entries, [s \in translated |-> content[s]])
           IN  /\ \A s \in Visible : Asks(stack[w], s) => s \in top.todo \/ Asks(Rest(w, translated), s)
               /\ \A s \in top.todo :
                      UpToDate(es, s) \/ Asks(Rest(w, translated), s) \/ top.attempt >= MaxSingleRetries
               /\ BatchSize <= 4 /\ (\A r \in Members(stack[w]) : Bounded(r)) =>
                      /\ Bounded(top)
                      /\ \A r \in Members(Rest(w, translated)) : Bounded(r)
<1> DEFINE top == Head(stack[w])
           es == Updated(entries, [s \in translated |-> content[s]])
           missing == Missing(es, top.todo)
           rem == Remainder(missing, top.attempt)
           tail == Tail(stack[w])
           rest == rem \o tail
<1>1. /\ stack[w] \in Seq(Requests) /\ top \in Requests /\ tail \in Seq(Requests)
      /\ rest = Rest(w, translated)
    BY RestTyped DEF TranslationTyped, Rest
<1> HIDE DEF es
<1>2. /\ missing \in SUBSET top.todo /\ missing \in SUBSET Visible /\ top.attempt \in Nat
      /\ \A s \in top.todo : UpToDate(es, s) \/ s \in missing
    BY <1>1 DEF Missing, Requests
<1> HIDE DEF missing
<1>3. rem \in Seq(Requests)
    BY <1>2, RemainderTyped
<1>4. \A s \in missing : Asks(rem, s) \/ top.attempt >= MaxSingleRetries
    BY <1>2, RemainderCovers DEF Asks
<1>5. BatchSize <= 4 /\ Bounded(top) => \A r \in Members(rem) : Bounded(r)
    BY <1>1, <1>2, RemainderBounded
<1> HIDE DEF rem, top, tail
<1>6. Members(stack[w]) = {top} \cup Members(tail)
    BY <1>1, HeadOrTail DEF top, tail
<1>7. Members(rest) = Members(rem) \cup Members(tail)
  <2>1. tail \in Seq(Requests)
      BY <1>1
  <2>2. QED
      BY <1>3, <2>1, EitherPart
<1> HIDE DEF rest
<1>8. \A s : Asks(stack[w], s) => s \in top.todo \/ Asks(rest, s)
    BY <1>6, <1>7 DEF Asks
<1>9. \A s \in top.todo : UpToDate(es, s) \/ Asks(rest, s) \/ top.attempt >= MaxSingleRetries
    BY <1>2, <1>4, <1>7 DEF Asks
<1>10. ASSUME BatchSize <= 4, \A r \in Members(stack[w]) : Bounded(r)
       PROVE  Bounded(top) /\ \A r \in Members(rest) : Bounded(r)
    BY <1>5, <1>6, <1>7, <1>10
<1>11. QED
    BY <1>1, <1>8, <1>9, <1>10 DEF top, es

LEMMA AskedStarts == TranslationInit => AskedInv
BY DEF TranslationInit, AskedInv, Accounted, SmallRequests, NoneLeft, GivenUpAlone, Members

LEMMA RequestAccounts ==
    ASSUME CheckpointInv, AskedInv, NEW w \in Threads, NEW translated \in SUBSET Visible, Request(w, translated)
    PROVE  AskedInv'
<1> DEFINE top == Head(stack[w])
           es == Updated(entries, [s \in translated |-> content[s]])
           rest == Rest(w, translated)
<1>1. /\ TranslationTyped /\ Fresh /\ AllDone /\ Accounted /\ SmallRequests /\ NoneLeft
      /\ stack[w] # <<>> /\ stack \in [Threads -> Seq(Requests)]
    BY DEF CheckpointInv, AskedInv, Request, TranslationTyped
<1>2. /\ entries' = es
      /\ stack' = [stack EXCEPT ![w] = rest]
      /\ asked' = [s \in Visible |-> IF s \in top.todo
                                       THEN [size |-> Cardinality(top.todo), attempt |-> top.attempt]
                                       ELSE asked[s]]
      /\ main' = main \/ main' = "raise"
      /\ batches' = batches /\ content' = content
    BY DEF Request, Rest
<1>3. main \notin {"last", "returned"}
    BY <1>1 DEF AllDone
<1>4. /\ \A s \in Visible : Asks(stack[w], s) => s \in top.todo \/ Asks(rest, s)
      /\ \A s \in top.todo : UpToDate(es, s) \/ Asks(rest, s) \/ top.attempt >= MaxSingleRetries
      /\ BatchSize <= 4 /\ (\A r \in Members(stack[w]) : Bounded(r)) =>
             Bounded(top) /\ \A r \in Members(rest) : Bounded(r)
    BY <1>1, RestAsks
<1>5. top \in Requests
    BY <1>1, RestTyped
<1>6. \A s \in Visible : UpToDate(entries, s) => UpToDate(es, s)
    BY DEF UpToDate, Updated
<1> HIDE DEF top, es, rest
<1>7. BatchSize <= 4 => Bounded(top) /\ \A r \in Members(rest) : Bounded(r)
    BY <1>1, <1>4 DEF SmallRequests
<1>8. SmallRequests'
    BY <1>1, <1>2, <1>7 DEF SmallRequests
<1>9. Accounted'
  <2> SUFFICES ASSUME main' \in {"wait", "snapshot", "truncate", "last"}, NEW s \in Visible
               PROVE  UpToDate(entries, s)' \/ Pending(s)' \/ Spent(s)'
      BY DEF Accounted
  <2>1. UpToDate(es, s) => UpToDate(entries, s)'
      BY <1>2 DEF UpToDate
  <2>2. Waits(s) => Waits(s)'
      BY <1>2 DEF Waits
  <2>3. /\ Asks(rest, s) => Pending(s)'
        /\ \A v \in Threads \ {w} : Asks(stack[v], s) => Pending(s)'
      BY <1>1, <1>2 DEF Pending, Asks
  <2>4. s \in top.todo /\ top.attempt >= MaxSingleRetries => Spent(s)'
      BY <1>2, <1>7 DEF Spent, Bounded, MaxSingleRetries
  <2>5. s \notin top.todo /\ Spent(s) => Spent(s)'
      BY <1>2 DEF Spent
  <2>6. UpToDate(entries, s) \/ Pending(s) \/ Spent(s)
      BY <1>1, <1>2, <1>3 DEF Accounted
  <2>7. CASE s \in top.todo
      BY <1>4, <2>1, <2>3, <2>4, <2>7
  <2>8. CASE s \notin top.todo
    <3>1. CASE UpToDate(entries, s)
        BY <1>6, <2>1, <3>1
    <3>2. CASE Waits(s)
        BY <2>2, <3>2 DEF Pending
    <3>3. CASE \E v \in Threads : Asks(stack[v], s)
        BY <1>4, <2>3, <2>8, <3>3
    <3>4. QED
        BY <2>5, <2>6, <2>8, <3>1, <3>2, <3>3 DEF Pending
  <2>9. QED
      BY <2>7, <2>8
<1>10. NoneLeft' /\ GivenUpAlone'
    BY <1>2, <1>3 DEF NoneLeft, GivenUpAlone
<1>11. QED
    BY <1>8, <1>9, <1>10 DEF AskedInv

LEMMA AskedStep ==
    CheckpointInv /\ AskedInv /\ [TranslationNext]_translationVars => AskedInv'
<1> SUFFICES ASSUME CheckpointInv, AskedInv, [TranslationNext]_translationVars
             PROVE  AskedInv'
    OBVIOUS
<1>0. /\ TranslationTyped /\ Fresh /\ AllDone /\ OneByOne
      /\ Accounted /\ SmallRequests /\ NoneLeft /\ GivenUpAlone
    BY DEF CheckpointInv, AskedInv
<1>u. ASSUME UNCHANGED <<content, entries, batches, stack, asked, returned>>,
             \/ main' = main
             \/ /\ main' \notin {"last", "returned"}
                /\ main' \in {"wait", "snapshot", "truncate"} => main \in {"wait", "snapshot", "truncate"}
      PROVE  AskedInv'
    BY <1>0, <1>u DEF AskedInv, Accounted, SmallRequests, NoneLeft, GivenUpAlone, UpToDate, Pending, Waits, Spent
<1>1. CASE LoadFallback
    BY <1>u, <1>1 DEF LoadFallback, threadVars, historyVars
<1>2. CASE Translate
  <2> DEFINE missing == Missing(entries', Visible)
  <2>1. /\ main = "fallback" /\ batches' = CreateBatches(missing)
        /\ content' = content /\ stack' = stack /\ \A w \in Threads : stack[w] = <<>>
        /\ \/ main' = "wait"
           \/ main' = "returned" /\ returned' = entries' /\ batches' = <<>>
      BY <1>0, <1>2 DEF Translate, Fresh
  <2>2. missing \in SUBSET Visible
      BY DEF Missing
  <2>3. /\ \A s \in missing : \E k \in DOMAIN batches' : s \in batches'[k]
        /\ \A k \in DOMAIN batches' : Cardinality(batches'[k]) <= BatchSize
    <3> HIDE DEF missing
    <3>1. QED
        BY <2>1, <2>2, BatchesCover
  <2>4. \A s \in Visible : UpToDate(entries, s)' \/ s \in missing
      BY <2>1 DEF Missing, UpToDate
  <2> HIDE DEF missing
  <2>5. \A s \in missing : Waits(s)'
      BY <2>3 DEF Waits, Members
  <2>6. SmallRequests'
      BY <2>1, <2>3 DEF SmallRequests, Members
  <2>7. Accounted'
      BY <2>4, <2>5 DEF Accounted, Pending
  <2>8. NoneLeft'
      BY <2>1 DEF NoneLeft
  <2>9. GivenUpAlone'
    <3> SUFFICES ASSUME main' = "returned" PROVE \A s \in Visible : UpToDate(returned, s)'
        BY DEF GivenUpAlone
    <3>1. missing = {}
        BY <2>1, <2>5 DEF Waits, Members
    <3>2. QED
        BY <2>1, <2>4, <3>1 DEF UpToDate
  <2>10. QED
      BY <2>6, <2>7, <2>8, <2>9 DEF AskedInv
<1>3. ASSUME NEW w \in Threads, TakeBatch(w) PROVE AskedInv'
  <2> DEFINE request == [todo |-> Head(batches), attempt |-> 0]
  <2>1. /\ batches \in Seq(SUBSET Visible) /\ batches # <<>> /\ stack[w] = <<>>
        /\ stack' = [stack EXCEPT ![w] = <<request>>]
        /\ batches' = Tail(batches) /\ stack \in [Threads -> Seq(Requests)]
        /\ main' = main /\ main \notin {"last", "returned"}
        /\ UNCHANGED <<content, entries, returned, asked>>
      BY <1>0, <1>3 DEF TakeBatch, TranslationTyped, memory, historyVars
  <2>2. Members(batches) = {Head(batches)} \cup Members(batches')
      BY <2>1, HeadOrTail
  <2> HIDE DEF request
  <2>3. Members(<<request>>) = {request} /\ Members(stack[w]) = {}
      BY <2>1 DEF Members
  <2>4. \A v \in Threads : stack'[v] = IF v = w THEN <<request>> ELSE stack[v]
      BY <2>1
  <2>5. SmallRequests'
    <3> SUFFICES ASSUME BatchSize <= 4 PROVE SmallRequests'
        BY DEF SmallRequests
    <3>1. Bounded(request)
        BY <1>0, <2>2 DEF SmallRequests, Bounded, request
    <3>2. \A v \in Threads : \A r \in Members(stack'[v]) : Bounded(r)
        BY <1>0, <2>3, <2>4, <3>1 DEF SmallRequests
    <3>3. \A S \in Members(batches') : Cardinality(S) <= BatchSize
        BY <1>0, <2>2 DEF SmallRequests
    <3>4. QED
        BY <3>2, <3>3 DEF SmallRequests
  <2>6. Accounted'
    <3> SUFFICES ASSUME main \in {"wait", "snapshot", "truncate"}, NEW s \in Visible
                 PROVE  UpToDate(entries, s)' \/ Pending(s)' \/ Spent(s)'
        BY <2>1 DEF Accounted
    <3>1. CASE UpToDate(entries, s) \/ Spent(s)
        BY <2>1, <3>1 DEF UpToDate, Spent
    <3>2. CASE Waits(s)
      <4>1. s \in Head(batches) \/ Waits(s)'
          BY <2>2, <3>2 DEF Waits
      <4>2. s \in Head(batches) => Asks(stack'[w], s)
          BY <2>3, <2>4 DEF Asks, request
      <4>3. QED
          BY <4>1, <4>2 DEF Pending
    <3>3. CASE \E v \in Threads : Asks(stack[v], s)
        BY <2>3, <2>4, <3>3 DEF Pending, Asks
    <3>4. QED
        BY <1>0, <3>1, <3>2, <3>3 DEF Accounted, Pending
  <2>7. NoneLeft' /\ GivenUpAlone'
      BY <2>1 DEF NoneLeft, GivenUpAlone
  <2>8. QED
      BY <2>5, <2>6, <2>7 DEF AskedInv
<1>4. ASSUME NEW w \in Threads, NEW some \in SUBSET Visible, Request(w, some) PROVE AskedInv'
    BY <1>4, RequestAccounts
<1>5. CASE Snapshot
    BY <1>u, <1>5 DEF Snapshot, memory, historyVars
<1>6. CASE Truncate
    BY <1>u, <1>6 DEF Truncate, memory, threadVars, historyVars
<1>7. CASE Write
    BY <1>u, <1>7 DEF Write, memory, threadVars, historyVars
<1>8. CASE TruncateLast
  <2>1. /\ main = "wait" /\ main' = "last" /\ batches = <<>>
        /\ UNCHANGED <<content, entries, batches, stack, asked, returned>>
      BY <1>8 DEF TruncateLast, Working, memory, threadVars, historyVars
  <2>2. QED
      BY <1>0, <2>1 DEF AskedInv, Accounted, SmallRequests, NoneLeft, GivenUpAlone, UpToDate, Pending, Waits, Spent
<1>9. CASE WriteLast
  <2>1. /\ main = "last" /\ main' = "returned" /\ returned' = entries
        /\ UNCHANGED <<content, entries, batches, stack, asked>>
      BY <1>9 DEF WriteLast, threadVars, historyVars
  <2>2. batches = <<>> /\ \A w \in Threads : stack[w] = <<>>
      BY <1>0, <2>1 DEF NoneLeft, AllDone
  <2>3. \A s \in Visible : ~Pending(s)
      BY <2>2 DEF Pending, Waits, Asks, Members
  <2>4. \A s \in Visible : UpToDate(entries, s) \/ Spent(s)
      BY <1>0, <2>1, <2>3 DEF Accounted
  <2>5. GivenUpAlone'
      BY <2>1, <2>4 DEF GivenUpAlone, UpToDate, Spent
  <2>6. QED
      BY <1>0, <2>1, <2>5 DEF AskedInv, Accounted, SmallRequests, NoneLeft
<1>10. CASE Leave
  <2>1. main' = "failed" /\ UNCHANGED <<batches, stack>>
      BY <1>10 DEF Leave, FallBack, threadVars
  <2>2. QED
      BY <1>0, <2>1 DEF AskedInv, Accounted, SmallRequests, NoneLeft, GivenUpAlone
<1>11. CASE Exit
  <2>1. main' = "idle" /\ batches' = <<>> /\ stack' = [w \in Threads |-> <<>>]
      BY <1>11 DEF Exit, QuietThreads
  <2>2. QED
      BY <2>1 DEF AskedInv, Accounted, SmallRequests, NoneLeft, GivenUpAlone, Members
<1>12. CASE NoTranslator
  <2>1. main' = "failed" /\ UNCHANGED <<batches, stack>>
      BY <1>12 DEF NoTranslator, FallBack, threadVars
  <2>2. QED
      BY <1>0, <2>1 DEF AskedInv, Accounted, SmallRequests, NoneLeft, GivenUpAlone
<1>13. CASE DeleteCache
    BY <1>u, <1>13 DEF DeleteCache, memory, threadVars
<1>14. CASE TryLock
    BY <1>u, <1>14 DEF TryLock, memory, threadVars, historyVars
<1>15. ASSUME NEW w \in Threads, BatchRaises(w) PROVE AskedInv'
  <2>1. /\ stack[w] # <<>> /\ stack \in [Threads -> Seq(Requests)]
        /\ stack' = [stack EXCEPT ![w] = <<>>]
        /\ asked' = [s \in Visible |-> IF \E i \in DOMAIN stack[w] : s \in stack[w][i].todo
                                         THEN GivenUp ELSE asked[s]]
        /\ UNCHANGED <<content, entries>>
        /\ \/ main' = "failed" /\ batches' = <<>>
           \/ main' = main /\ batches' = batches
      BY <1>0, <1>15 DEF BatchRaises, FallBack, TranslationTyped
  <2>2. main \notin {"last", "returned"}
      BY <1>0, <2>1 DEF AllDone
  <2>3. \A v \in Threads : stack'[v] = IF v = w THEN <<>> ELSE stack[v]
      BY <2>1
  <2>4. Members(<<>>) = {}
      BY DEF Members
  <2>5. SmallRequests'
    <3>1. \A v \in Threads : Members(stack'[v]) \subseteq Members(stack[v])
        BY <2>3, <2>4
    <3>2. Members(batches') \subseteq Members(batches)
        BY <2>1, <2>4
    <3>3. QED
        BY <1>0, <3>1, <3>2 DEF SmallRequests
  <2>6. Accounted'
    <3> SUFFICES ASSUME main' = main, batches' = batches, main \in {"wait", "snapshot", "truncate"}, NEW s \in Visible
                 PROVE  UpToDate(entries, s)' \/ Pending(s)' \/ Spent(s)'
        BY <2>1, <2>2 DEF Accounted
    <3>1. CASE Asks(stack[w], s)
      <4>1. asked'[s] = GivenUp
          BY <2>1, <3>1 DEF Asks, Members
      <4>2. QED
          BY <4>1 DEF Spent, GivenUp, MaxSingleRetries
    <3>2. CASE ~Asks(stack[w], s)
      <4>1. asked'[s] = asked[s]
          BY <2>1, <3>2 DEF Asks, Members
      <4>2. CASE UpToDate(entries, s) \/ Spent(s)
          BY <2>1, <4>1, <4>2 DEF UpToDate, Spent
      <4>3. CASE Pending(s)
          BY <2>3, <3>2, <4>3 DEF Pending, Waits, Asks
      <4>4. QED
          BY <1>0, <4>2, <4>3 DEF Accounted
    <3>3. QED
        BY <3>1, <3>2
  <2>7. NoneLeft' /\ GivenUpAlone'
      BY <2>1, <2>2 DEF NoneLeft, GivenUpAlone
  <2>8. QED
      BY <2>5, <2>6, <2>7 DEF AskedInv
<1>16. ASSUME NEW s \in Visible, NewContent(s) PROVE AskedInv'
  <2>1. main' = "idle" /\ UNCHANGED <<batches, stack>>
      BY <1>16 DEF NewContent, threadVars
  <2>2. QED
      BY <1>0, <2>1 DEF AskedInv, Accounted, SmallRequests, NoneLeft, GivenUpAlone
<1>17. CASE UNCHANGED translationVars
    BY <1>u, <1>17 DEF translationVars, memory, threadVars, historyVars
<1>18. QED
    BY <1>1, <1>2, <1>3, <1>4, <1>5, <1>6, <1>7, <1>8, <1>9, <1>10, <1>11, <1>12, <1>13, <1>14, <1>15,
       <1>16, <1>17 DEF TranslationNext, TranslationStep, PhaseOver, Killed

(* A story the phase leaves untranslated had its last attempt, and, in batches*)
(* of at most four, alone (processor.py:194-277): however the answers are     *)
(* spread over requests and threads, none is lost from the halves.            *)
THEOREM AskedToTheEnd == TranslationSpec => []GivenUpAlone
<1>1. AskedInv => GivenUpAlone
    BY DEF AskedInv
<1>2. QED
    BY <1>1, CheckpointStarts, CheckpointStep, AskedStarts, AskedStep, PTL DEF TranslationSpec

-----------------------------------------------------------------------------
(* Report: candidates as CollectCandidates gives them.                        *)
AreCandidates(C) ==
    /\ C \subseteq Nat \X Nat /\ IsFiniteSet(C)
    /\ \A c \in C : StoryAt(c) \in ArchivedStory
ScanPairs(C) == {pair \in C \X C : ScannedBefore(pair[1], pair[2])}
OutdoesPairs(C) == {pair \in C \X C : Outdoes(pair[1], pair[2])}
AheadPairs(C, U) == {pair \in U \X U : Ahead(C, pair[1], pair[2])}
AppearancesOf(a, C) == {c \in C : SameStory(c, a)}

LEMMA ScanOrders ==
    ASSUME NEW C \in SUBSET (Nat \X Nat)
    PROVE  StrictlyOrders(ScanPairs(C), C)
BY DEF StrictlyOrders, ScanPairs, ScannedBefore

LEMMA OutdoesOrders ==
    ASSUME NEW C \in SUBSET (Nat \X Nat), \A c \in C : StoryAt(c) \in ArchivedStory
    PROVE  StrictlyOrders(OutdoesPairs(C), C)
<1> DEFINE score(c) == StoryAt(c).score
<1>1. \A c \in C : score(c) \in Int
    BY DEF ArchivedStory
<1>2. \A a, b \in C : <<a, b>> \in OutdoesPairs(C) <=>
                        score(a) > score(b) \/ (score(a) = score(b) /\ ScannedBefore(a, b))
    BY DEF OutdoesPairs, Outdoes
<1> HIDE DEF score
<1>3. \A a, b \in C : <<a, b>> \in ScanPairs(C) <=> ScannedBefore(a, b)
    BY DEF ScanPairs
<1>4. StrictlyOrders(ScanPairs(C), C)
    BY ScanOrders
<1>5. \A a \in C : ~ScannedBefore(a, a)
    BY <1>3, <1>4 DEF StrictlyOrders
<1>6. \A a, b, c \in C : ScannedBefore(a, b) /\ ScannedBefore(b, c) => ScannedBefore(a, c)
    BY <1>3, <1>4 DEF StrictlyOrders
<1>7. \A a, b \in C : a = b \/ ScannedBefore(a, b) \/ ScannedBefore(b, a)
    BY <1>3, <1>4 DEF StrictlyOrders
<1>8. \A a \in C : <<a, a>> \notin OutdoesPairs(C)
    BY <1>1, <1>2, <1>5
<1>9. \A a, b, c \in C : <<a, b>> \in OutdoesPairs(C) /\ <<b, c>> \in OutdoesPairs(C) =>
                           <<a, c>> \in OutdoesPairs(C)
    BY <1>1, <1>2, <1>6
<1>10. ASSUME NEW a \in C, NEW b \in C, a # b
       PROVE  <<a, b>> \in OutdoesPairs(C) \/ <<b, a>> \in OutdoesPairs(C)
  <2>1. score(a) > score(b) \/ score(b) > score(a) \/ score(a) = score(b)
      BY <1>1
  <2>2. ScannedBefore(a, b) \/ ScannedBefore(b, a)
      BY <1>7, <1>10
  <2>3. QED
      BY <1>2, <2>1, <2>2
<1>11. QED
    BY <1>8, <1>9, <1>10 DEF StrictlyOrders

(* Of each story one appearance stays, and none has a better score.           *)
LEMMA BestAppears ==
    ASSUME NEW C, AreCandidates(C)
    PROVE  /\ BestAppearances(C) \subseteq C /\ IsFiniteSet(BestAppearances(C))
           /\ \A a, b \in BestAppearances(C) : SameStory(a, b) => a = b
           /\ \A c \in C : \E u \in BestAppearances(C) :
                SameStory(u, c) /\ StoryAt(c).score <= StoryAt(u).score
<1>1. StrictlyOrders(OutdoesPairs(C), C)
    BY OutdoesOrders DEF AreCandidates
<1>2. BestAppearances(C) \subseteq C
    BY DEF BestAppearances
<1>3. IsFiniteSet(BestAppearances(C))
    BY <1>2, FS_Subset DEF AreCandidates
<1>4. ASSUME NEW a \in BestAppearances(C), NEW b \in BestAppearances(C), SameStory(a, b), a # b
      PROVE  FALSE
  <2>1. Outdoes(a, b) /\ Outdoes(b, a)
      BY <1>2, <1>4 DEF BestAppearances, SameStory
  <2>2. <<a, b>> \in OutdoesPairs(C) /\ <<b, a>> \in OutdoesPairs(C)
      BY <1>2, <2>1 DEF OutdoesPairs
  <2>3. QED
      BY <1>1, <1>2, <2>2 DEF StrictlyOrders
<1>5. ASSUME NEW c \in C
      PROVE  \E u \in BestAppearances(C) : SameStory(u, c) /\ StoryAt(c).score <= StoryAt(u).score
  <2> DEFINE S == AppearancesOf(c, C)
  <2>1. c \in S /\ S \subseteq C
      BY DEF AppearancesOf, SameStory
  <2>2. IsFiniteSet(S)
      BY <2>1, FS_Subset DEF AreCandidates
  <2>3. StrictlyOrders(OutdoesPairs(C), S)
      BY <1>1, <2>1 DEF StrictlyOrders
  <2>4. PICK u \in S : \A y \in S : u = y \/ <<u, y>> \in OutdoesPairs(C)
      BY <2>1, <2>2, <2>3, FirstExists
  <2>5. \A y \in S : u = y \/ Outdoes(u, y)
      BY <2>4 DEF OutdoesPairs
  <2>6. u \in BestAppearances(C)
      BY <2>1, <2>5 DEF BestAppearances, AppearancesOf, SameStory
  <2>7. StoryAt(c).score <= StoryAt(u).score
    <3>1. StoryAt(c).score \in Int /\ StoryAt(u).score \in Int
        BY <2>1 DEF AreCandidates, ArchivedStory
    <3>2. QED
        BY <2>1, <2>5, <3>1 DEF Outdoes
  <2>8. SameStory(u, c)
      BY DEF AppearancesOf
  <2>9. QED
      BY <2>6, <2>7, <2>8
<1>6. QED
    BY <1>2, <1>3, <1>4, <1>5

(* The keys of the dictionary have an order.                                  *)
LEMMA KeysOrdered ==
    ASSUME NEW C, AreCandidates(C)
    PROVE  /\ \A a \in C : ~KeyedBefore(C, a, a)
           /\ \A a, b, c \in C : KeyedBefore(C, a, b) /\ KeyedBefore(C, b, c) => KeyedBefore(C, a, c)
           /\ \A a, b \in C : SameStory(a, b) \/ KeyedBefore(C, a, b) \/ KeyedBefore(C, b, a)
<1>1. StrictlyOrders(ScanPairs(C), C)
    BY ScanOrders DEF AreCandidates
<1>2. \A a, b \in C : <<a, b>> \in ScanPairs(C) <=> ScannedBefore(a, b)
    BY DEF ScanPairs
<1>3. /\ \A a \in C : ~ScannedBefore(a, a)
      /\ \A a, b, c \in C : ScannedBefore(a, b) /\ ScannedBefore(b, c) => ScannedBefore(a, c)
      /\ \A a, b \in C : a = b \/ ScannedBefore(a, b) \/ ScannedBefore(b, a)
  <2>1. \A a \in C : ~ScannedBefore(a, a)
      BY <1>1, <1>2 DEF StrictlyOrders
  <2>2. \A a, b, c \in C : ScannedBefore(a, b) /\ ScannedBefore(b, c) => ScannedBefore(a, c)
      BY <1>1, <1>2 DEF StrictlyOrders
  <2>3. \A a, b \in C : a = b \/ ScannedBefore(a, b) \/ ScannedBefore(b, a)
      BY <1>1, <1>2 DEF StrictlyOrders
  <2>4. QED
      BY <2>1, <2>2, <2>3
<1>4. \A a \in C : ~KeyedBefore(C, a, a)
    BY <1>3 DEF KeyedBefore
<1>5. ASSUME NEW a \in C, NEW b \in C, NEW c \in C, KeyedBefore(C, a, b), KeyedBefore(C, b, c)
      PROVE  KeyedBefore(C, a, c)
  <2>1. PICK x \in C : SameStory(x, a) /\ \A z \in C : SameStory(z, b) => ScannedBefore(x, z)
      BY <1>5 DEF KeyedBefore
  <2>2. PICK y \in C : SameStory(y, b) /\ \A z \in C : SameStory(z, c) => ScannedBefore(y, z)
      BY <1>5 DEF KeyedBefore
  <2>3. ScannedBefore(x, y)
      BY <2>1, <2>2
  <2>4. \A z \in C : SameStory(z, c) => ScannedBefore(x, z)
      BY <1>3, <2>2, <2>3
  <2>5. QED
      BY <2>1, <2>4 DEF KeyedBefore
<1>6. ASSUME NEW a \in C
      PROVE  \E x \in C : SameStory(x, a) /\ \A z \in C : SameStory(z, a) => x = z \/ ScannedBefore(x, z)
  <2> DEFINE S == AppearancesOf(a, C)
  <2>1. a \in S /\ S \subseteq C
      BY DEF AppearancesOf, SameStory
  <2>2. IsFiniteSet(S)
      BY <2>1, FS_Subset DEF AreCandidates
  <2>3. StrictlyOrders(ScanPairs(C), S)
      BY <1>1, <2>1 DEF StrictlyOrders
  <2>4. PICK x \in S : \A y \in S : x = y \/ <<x, y>> \in ScanPairs(C)
      BY <2>1, <2>2, <2>3, FirstExists
  <2>5. QED
      BY <1>2, <2>1, <2>4 DEF AppearancesOf
<1>7. ASSUME NEW a \in C, NEW b \in C, ~SameStory(a, b)
      PROVE  KeyedBefore(C, a, b) \/ KeyedBefore(C, b, a)
  <2>1. PICK x \in C : SameStory(x, a) /\ \A z \in C : SameStory(z, a) => x = z \/ ScannedBefore(x, z)
      BY <1>6
  <2>2. PICK y \in C : SameStory(y, b) /\ \A z \in C : SameStory(z, b) => y = z \/ ScannedBefore(y, z)
      BY <1>6
  <2>3. x # y
      BY <1>7, <2>1, <2>2 DEF SameStory
  <2>4. CASE ScannedBefore(x, y)
    <3>1. \A z \in C : SameStory(z, b) => ScannedBefore(x, z)
        BY <1>3, <2>2, <2>4
    <3>2. QED
        BY <2>1, <3>1 DEF KeyedBefore
  <2>5. CASE ScannedBefore(y, x)
    <3>1. \A z \in C : SameStory(z, a) => ScannedBefore(y, z)
        BY <1>3, <2>1, <2>5
    <3>2. QED
        BY <2>2, <3>1 DEF KeyedBefore
  <2>6. QED
      BY <1>3, <2>3, <2>4, <2>5
<1>8. QED
    BY <1>4, <1>5, <1>7

LEMMA AheadOrders ==
    ASSUME NEW C, AreCandidates(C)
    PROVE  StrictlyOrders(AheadPairs(C, BestAppearances(C)), BestAppearances(C))
<1> DEFINE U == BestAppearances(C)
           score(c) == StoryAt(c).score
           date(c) == StoryAt(c).date
           title(c) == StoryAt(c).title
<1>1. U \subseteq C /\ \A a, b \in U : SameStory(a, b) => a = b
    BY BestAppears
<1>2. \A c \in U : score(c) \in Int /\ date(c) \in Int /\ title(c) \in Int
    BY <1>1 DEF AreCandidates, ArchivedStory
<1>3. \A a, b \in U : <<a, b>> \in AheadPairs(C, U) <=>
        \/ score(a) > score(b)
        \/ score(a) = score(b) /\ date(a) > date(b)
        \/ score(a) = score(b) /\ date(a) = date(b) /\ title(a) < title(b)
        \/ score(a) = score(b) /\ date(a) = date(b) /\ title(a) = title(b) /\ KeyedBefore(C, a, b)
    BY DEF AheadPairs, Ahead
<1> HIDE DEF score, date, title, U
<1>4. /\ \A a \in U : ~KeyedBefore(C, a, a)
      /\ \A a, b, c \in U : KeyedBefore(C, a, b) /\ KeyedBefore(C, b, c) => KeyedBefore(C, a, c)
      /\ \A a, b \in U : a = b \/ KeyedBefore(C, a, b) \/ KeyedBefore(C, b, a)
  <2>1. \A a \in U : ~KeyedBefore(C, a, a)
      BY <1>1, KeysOrdered
  <2>2. \A a, b, c \in U : KeyedBefore(C, a, b) /\ KeyedBefore(C, b, c) => KeyedBefore(C, a, c)
      BY <1>1, KeysOrdered
  <2>3. \A a, b \in U : a = b \/ KeyedBefore(C, a, b) \/ KeyedBefore(C, b, a)
      BY <1>1, KeysOrdered
  <2>4. QED
      BY <2>1, <2>2, <2>3
<1>5. \A a \in U : <<a, a>> \notin AheadPairs(C, U)
    BY <1>2, <1>3, <1>4
<1>6. \A a, b, c \in U : <<a, b>> \in AheadPairs(C, U) /\ <<b, c>> \in AheadPairs(C, U) =>
                           <<a, c>> \in AheadPairs(C, U)
    BY <1>2, <1>3, <1>4
<1>7. ASSUME NEW a \in U, NEW b \in U, a # b
      PROVE  <<a, b>> \in AheadPairs(C, U) \/ <<b, a>> \in AheadPairs(C, U)
  <2>1. /\ score(a) > score(b) \/ score(b) > score(a) \/ score(a) = score(b)
        /\ date(a) > date(b) \/ date(b) > date(a) \/ date(a) = date(b)
        /\ title(a) < title(b) \/ title(b) < title(a) \/ title(a) = title(b)
      BY <1>2
  <2>2. KeyedBefore(C, a, b) \/ KeyedBefore(C, b, a)
      BY <1>4, <1>7
  <2>3. CASE score(a) # score(b)
      BY <1>3, <2>1, <2>3
  <2>4. CASE score(a) = score(b) /\ date(a) # date(b)
      BY <1>3, <2>1, <2>4
  <2>5. CASE score(a) = score(b) /\ date(a) = date(b)
      BY <1>3, <2>1, <2>2, <2>5
  <2>6. QED
      BY <2>3, <2>4, <2>5
<1>8. QED
    BY <1>5, <1>6, <1>7 DEF StrictlyOrders, U

(* What is recommended is the best of the candidates.                         *)
LEMMA RecommendsBest ==
    ASSUME NEW C, AreCandidates(C), NEW limit \in Nat
    PROVE  /\ BestOf(Recommend(C, limit), {StoryAt(c) : c \in C}, limit)
           /\ Recommend(C, limit) \in Seq(ArchivedStory)
<1> DEFINE U == BestAppearances(C)
           R == AheadPairs(C, U)
           uniques == InOrder(U, R)
           m == Cardinality(U)
           n == Fewer(limit, m)
           chosen == Recommend(C, limit)
           archived == {StoryAt(c) : c \in C}
<1>1. IsFiniteSet(U) /\ StrictlyOrders(R, U) /\ U \subseteq C
    BY BestAppears, AheadOrders
<1>2. m \in Nat
    BY <1>1, FS_CardinalityType
<1>3. /\ uniques \in Seq(U) /\ Len(uniques) = m
      /\ \A x \in U : \E i \in 1..m : uniques[i] = x
      /\ \A i, j \in 1..m : i < j => <<uniques[i], uniques[j]>> \in R
    BY <1>1, InOrderListed
<1>4. uniques = RankUniqueStories(C)
    BY DEF RankUniqueStories, AheadPairs
<1>5. chosen = [i \in 1..n |-> StoryAt(uniques[i])]
    BY <1>3, <1>4 DEF Recommend
<1>6. n \in Nat /\ n <= limit /\ n <= m /\ (n = limit \/ n = m)
    BY <1>2 DEF Fewer
<1>7. \A i \in 1..m : uniques[i] \in U
    BY <1>2, <1>3
<1>8. \A u \in C : StoryAt(u) \in ArchivedStory
    BY DEF AreCandidates
<1> HIDE DEF U, R, uniques, m, n, chosen
<1>9. \A i \in 1..n : i \in 1..m /\ uniques[i] \in C /\ chosen[i] = StoryAt(uniques[i])
    BY <1>1, <1>2, <1>5, <1>6, <1>7
<1>10. chosen \in Seq(ArchivedStory) /\ Len(chosen) = n /\ DOMAIN chosen = 1..n
  <2>1. chosen \in [1..n -> ArchivedStory]
      BY <1>5, <1>8, <1>9
  <2>2. QED
      BY <1>6, <2>1
<1>11. ToSet(chosen) \subseteq archived
    BY <1>9, <1>10 DEF ToSet
<1>12. ASSUME NEW a \in U, NEW b \in U, <<a, b>> \in R
       PROVE  \/ StoryAt(a).score > StoryAt(b).score
              \/ StoryAt(a).score = StoryAt(b).score /\ StoryAt(a).date >= StoryAt(b).date
  <2>1. Ahead(C, a, b)
      BY <1>12 DEF R, AheadPairs
  <2>2. /\ StoryAt(a).score \in Int /\ StoryAt(b).score \in Int
        /\ StoryAt(a).date \in Int /\ StoryAt(b).date \in Int
      BY <1>1, <1>8 DEF ArchivedStory
  <2>3. QED
      BY <2>1, <2>2 DEF Ahead
<1>13. ASSUME NEW i \in 1..n, NEW s \in archived, StoryKey(s) = StoryKey(chosen[i])
       PROVE  s.score <= chosen[i].score
  <2>1. PICK c \in C : s = StoryAt(c)
      OBVIOUS
  <2>2. PICK u \in U : SameStory(u, c) /\ StoryAt(c).score <= StoryAt(u).score
      BY BestAppears DEF U
  <2>3. SameStory(u, uniques[i]) /\ uniques[i] \in U
      BY <1>7, <1>9, <1>13, <2>1, <2>2 DEF SameStory
  <2>4. u = uniques[i]
      BY <2>3, BestAppears DEF U
  <2>5. QED
      BY <1>9, <2>1, <2>2, <2>4
<1>14. ASSUME NEW i \in 1..n, NEW j \in 1..n, i < j
       PROVE  /\ StoryKey(chosen[i]) # StoryKey(chosen[j])
              /\ \/ chosen[i].score > chosen[j].score
                 \/ chosen[i].score = chosen[j].score /\ chosen[i].date >= chosen[j].date
  <2>1. /\ <<uniques[i], uniques[j]>> \in R /\ uniques[i] \in U /\ uniques[j] \in U
        /\ chosen[i] = StoryAt(uniques[i]) /\ chosen[j] = StoryAt(uniques[j])
      BY <1>3, <1>7, <1>9, <1>14
  <2>2. uniques[i] # uniques[j]
      BY <1>1, <2>1 DEF StrictlyOrders
  <2>3. ~SameStory(uniques[i], uniques[j])
      BY <2>1, <2>2, BestAppears DEF U
  <2>4. QED
      BY <1>12, <2>1, <2>3 DEF SameStory
<1>15. ASSUME NEW s \in archived, ~\E i \in 1..n : StoryKey(chosen[i]) = StoryKey(s)
       PROVE  n = limit /\ \A i \in 1..n : s.score <= chosen[i].score
  <2>1. PICK c \in C : s = StoryAt(c)
      OBVIOUS
  <2>2. PICK u \in U : SameStory(u, c) /\ StoryAt(c).score <= StoryAt(u).score
      BY BestAppears DEF U
  <2>3. PICK k \in 1..m : uniques[k] = u
      BY <1>3, <2>2
  <2>4. k \notin 1..n
      BY <1>9, <1>15, <2>1, <2>2, <2>3 DEF SameStory
  <2>5. n = limit /\ n < k
      BY <1>2, <1>6, <2>4
  <2>6. ASSUME NEW i \in 1..n
        PROVE  s.score <= chosen[i].score
    <3>1. i \in 1..m /\ i < k
        BY <1>2, <1>6, <2>5
    <3>2. <<uniques[i], u>> \in R /\ uniques[i] \in U
        BY <1>3, <1>7, <2>3, <3>1
    <3>3. StoryAt(u).score <= StoryAt(uniques[i]).score
      <4>1. StoryAt(u).score \in Int /\ StoryAt(uniques[i]).score \in Int
          BY <1>1, <1>8, <3>2 DEF ArchivedStory
      <4>2. QED
          BY <1>12, <3>2, <4>1
    <3>4. /\ StoryAt(u).score \in Int /\ StoryAt(uniques[i]).score \in Int /\ s.score \in Int
        BY <1>1, <1>8, <2>1, <3>2 DEF ArchivedStory
    <3>5. QED
        BY <1>9, <2>1, <2>2, <3>3, <3>4
  <2>7. QED
      BY <2>5, <2>6
<1>16. BestOf(chosen, archived, limit)
    BY <1>6, <1>10, <1>11, <1>13, <1>14, <1>15 DEF BestOf
<1>17. QED
    BY <1>10, <1>16 DEF chosen

ArchiveTypes == archives \in [Days -> Digests \cup {NoArchive}]

(* The candidates of a period are finitely many places, and their stories the *)
(* ones its report is to choose from.                                         *)
LEMMA CandidatesFound ==
    ASSUME ArchiveTypes, NEW p \in Periods, NEW kind
    PROVE  /\ AreCandidates(CollectCandidates(p, kind))
           /\ {StoryAt(c) : c \in CollectCandidates(p, kind)} = Eligible(archives, p, kind)
<1> DEFINE C == CollectCandidates(p, kind)
           D == {d \in ScanDates(p) : Covered(d)}
           places == [d \in D |-> {d} \X DOMAIN archives[d]]
           all == UNION {{d} \X DOMAIN archives[d] : d \in D}
<1>1. p.first \in Nat /\ p.last \in Nat /\ Lookahead \in Nat
    BY ReportAssumption
<1>2. \A d \in D : d \in Nat /\ d \in Days /\ archives[d] \in Digests
    BY ReportAssumption DEF Covered, ArchiveTypes
<1>3. \A d \in D : archives[d] \in Seq(ArchivedStory)
    BY <1>2, ReportAssumption
<1>4. \A d \in D : /\ DOMAIN archives[d] = 1..Len(archives[d]) /\ Len(archives[d]) \in Nat
                   /\ \A i \in DOMAIN archives[d] : archives[d][i] \in ArchivedStory
    BY <1>3
<1>5. IsFiniteSet(D)
  <2>1. IsFiniteSet(ScanDates(p))
    <3>1. p.first \in Int /\ p.last + Lookahead \in Int
        BY <1>1
    <3>2. QED
        BY <3>1, FS_Interval DEF ScanDates
  <2>2. QED
      BY <2>1, FS_Subset
<1> HIDE DEF D
<1>6. IsFiniteSet(all)
  <2>1. \A d \in D : IsFiniteSet({d} \X DOMAIN archives[d])
    <3>1. SUFFICES ASSUME NEW d \in D
                   PROVE  IsFiniteSet({d} \X DOMAIN archives[d])
        OBVIOUS
    <3>2. IsFiniteSet({d})
        BY FS_Singleton
    <3>3. IsFiniteSet(DOMAIN archives[d])
        BY <1>4, FS_Interval
    <3>4. QED
        BY <3>2, <3>3, FS_Product
  <2> DEFINE T == {{d} \X DOMAIN archives[d] : d \in D}
  <2>2. places \in Surjection(D, T)
      BY DEF Surjection
  <2>3. IsFiniteSet(T)
      BY <1>5, <2>2, FS_Surjection
  <2>4. QED
      BY <2>1, <2>3, FS_UNION
<1>7. \A c : c \in all <=> \E d \in D : \E i \in DOMAIN archives[d] : c = <<d, i>>
    OBVIOUS
<1>8. C = {c \in all : StoryAt(c).kind = kind /\ InPeriod(p, StoryLocalDate(StoryAt(c), c[1]))}
    BY DEF CollectCandidates, D
<1> HIDE DEF C, all
<1>9. AreCandidates(C)
  <2>1. IsFiniteSet(C)
    <3>1. C \in SUBSET all
        BY <1>8
    <3>2. QED
        BY <1>6, <3>1, FS_Subset
  <2>2. C \subseteq Nat \X Nat
    <3>1. \A c \in C : \E d \in D : \E i \in DOMAIN archives[d] : c = <<d, i>>
        BY <1>7, <1>8
    <3>2. QED
        BY <1>2, <1>4, <3>1
  <2>3. \A c \in C : StoryAt(c) \in ArchivedStory
    <3>1. \A c \in C : \E d \in D : \E i \in DOMAIN archives[d] : c = <<d, i>>
        BY <1>7, <1>8
    <3>2. QED
        BY <1>4, <3>1 DEF StoryAt
  <2>4. QED
      BY <2>1, <2>2, <2>3 DEF AreCandidates
<1>10. ASSUME NEW c \in C
       PROVE  StoryAt(c) \in Eligible(archives, p, kind)
  <2>1. PICK d \in D : \E i \in DOMAIN archives[d] : c = <<d, i>>
      BY <1>7, <1>8
  <2>2. PICK i \in DOMAIN archives[d] : c = <<d, i>>
      BY <2>1
  <2>3. /\ StoryAt(c) = archives[d][i] /\ c[1] = d
        /\ StoryAt(c).kind = kind /\ InPeriod(p, StoryLocalDate(StoryAt(c), d))
      BY <1>8, <2>2 DEF StoryAt
  <2>4. d \in {x \in Days : p.first <= x /\ x <= p.last + Lookahead /\ archives[x] # NoArchive}
      BY <1>1, <1>2 DEF D, ScanDates, Covered
  <2>5. QED
      BY <2>3, <2>4 DEF Eligible, ToSet
<1>11. ASSUME NEW s \in Eligible(archives, p, kind)
       PROVE  \E c \in C : StoryAt(c) = s
  <2>1. PICK d \in {x \in Days : p.first <= x /\ x <= p.last + Lookahead /\ archives[x] # NoArchive} :
          s \in ToSet(archives[d]) /\ s.kind = kind /\ InPeriod(p, StoryLocalDate(s, d))
      BY DEF Eligible
  <2>2. d \in D
      BY <1>1, <2>1, ReportAssumption DEF D, ScanDates, Covered
  <2>3. PICK i \in DOMAIN archives[d] : s = archives[d][i]
      BY <2>1 DEF ToSet
  <2>4. <<d, i>> \in all /\ StoryAt(<<d, i>>) = s
      BY <1>7, <2>2, <2>3 DEF StoryAt
  <2>5. QED
      BY <1>8, <2>1, <2>4
<1>12. QED
    BY <1>9, <1>10, <1>11 DEF C

-----------------------------------------------------------------------------
MadeReport == [made : Nat, papers : Seq(ArchivedStory), blogs : Seq(ArchivedStory), missing : SUBSET Nat]
IndexEntry == [period : Periods, made : Nat, papers : Nat, blogs : Nat, missing : SUBSET Nat]
FileKinds == {"absent", "torn", "whole"}
WritingReport == {"built", "opened"}
ReportWritten == {"written", "indexing"}

ReportTypes ==
    /\ ArchiveTypes
    /\ files \in [Periods -> [kind : FileKinds, report : MadeReport]]
    /\ index \in [kind : FileKinds, lists : [Types -> Seq(IndexEntry)]]
    /\ command \in [pc : {"idle", "creating"} \cup WritingReport \cup ReportWritten,
                    period : Periods \cup {NoPeriod}, report : MadeReport]
    /\ command.pc \in WritingReport \cup ReportWritten => command.period \in Periods
    /\ reported \in Nat /\ rewritten \in Nat
    /\ basis \in [Periods -> [Days -> Digests \cup {NoArchive}]]
    /\ indexed \subseteq Periods

(* Chosen(r, a, p): r recommends the best of the archives a for the period p. *)
Chosen(report, made, p) ==
    /\ BestOf(report.papers, Eligible(made, p, "paper"), Limit)
    /\ BestOf(report.blogs, Eligible(made, p, "blog"), Fewer(Limit, BlogLimit))
(* A report in hand is the best of the archives that are there, and once its  *)
(* file is open, of those the file will be made from.                         *)
BestInHand ==
    /\ command.pc = "built" => Chosen(command.report, archives, command.period)
    /\ command.pc = "opened" => Chosen(command.report, basis[command.period], command.period)

(* A report in hand is newer than every file and every entry, until it is the *)
(* file.                                                                      *)
NewestInHand ==
    /\ command.pc \in WritingReport \cup ReportWritten => command.report.made = reported
    /\ command.pc \in WritingReport =>
         \A t \in Types : \A i \in DOMAIN index.lists[t] : index.lists[t][i].made < reported
    /\ command.pc \in ReportWritten => files[command.period] = ReportFile("whole", command.report)

(* What IndexAgrees says of a whole index holds of what one was torn from.    *)
EntryTrue(t, entry) ==
    /\ entry.period.type = t /\ entry.made <= reported /\ files[entry.period].kind # "absent"
    /\ files[entry.period].kind = "whole" =>
         entry = EntryOf(entry.period, files[entry.period].report) \/ entry.made < files[entry.period].report.made
LatestFirst(list) == \A i, j \in DOMAIN list : i < j => list[j].period.first < list[i].period.first
ListsTrue ==
    /\ \A t \in Types : \A i \in DOMAIN index.lists[t] : EntryTrue(t, index.lists[t][i])
    /\ \A t \in Types : LatestFirst(index.lists[t])
    /\ \A p \in indexed : \E i \in DOMAIN index.lists[p.type] : index.lists[p.type][i].period = p

ReportInv == ReportTypes /\ BestInHand /\ BestSelected /\ NewestInHand /\ ListsTrue

LEMMA FewerTyped == \A a, b \in Nat : Fewer(a, b) \in Nat
BY DEF Fewer

LEMMA BuildsBest ==
    ASSUME ReportTypes, NEW p \in Periods
    PROVE  Build(p) \in MadeReport /\ Chosen(Build(p), archives, p) /\ Build(p).made = reported + 1
<1> DEFINE papers == CollectCandidates(p, "paper")
           blogs == CollectCandidates(p, "blog")
<1>1. /\ AreCandidates(papers) /\ {StoryAt(c) : c \in papers} = Eligible(archives, p, "paper")
      /\ AreCandidates(blogs) /\ {StoryAt(c) : c \in blogs} = Eligible(archives, p, "blog")
    BY CandidatesFound DEF ReportTypes
<1>2. Limit \in Nat /\ Fewer(Limit, BlogLimit) \in Nat
    BY FewerTyped, ReportAssumption
<1> HIDE DEF papers, blogs
<1>3. /\ BestOf(Recommend(papers, Limit), {StoryAt(c) : c \in papers}, Limit)
      /\ Recommend(papers, Limit) \in Seq(ArchivedStory)
    BY <1>1, <1>2, RecommendsBest
<1>4. /\ BestOf(Recommend(blogs, Fewer(Limit, BlogLimit)), {StoryAt(c) : c \in blogs}, Fewer(Limit, BlogLimit))
      /\ Recommend(blogs, Fewer(Limit, BlogLimit)) \in Seq(ArchivedStory)
    BY <1>1, <1>2, RecommendsBest
<1>5. MissingDates(p) \in SUBSET Nat
  <2>1. p.first \in Nat /\ p.last \in Nat
      BY ReportAssumption
  <2>2. QED
      BY <2>1 DEF MissingDates, PeriodDates
<1>6. Build(p) = [made |-> reported + 1, papers |-> Recommend(papers, Limit),
                  blogs |-> Recommend(blogs, Fewer(Limit, BlogLimit)), missing |-> MissingDates(p)]
    BY DEF Build, papers, blogs
<1>7. Build(p) \in MadeReport /\ Build(p).made = reported + 1
    BY <1>3, <1>4, <1>5, <1>6 DEF MadeReport, ReportTypes
<1>8. /\ Build(p).papers = Recommend(papers, Limit)
      /\ Build(p).blogs = Recommend(blogs, Fewer(Limit, BlogLimit))
    BY <1>6
<1>9. Chosen(Build(p), archives, p)
    BY <1>1, <1>3, <1>4, <1>8 DEF Chosen
<1>10. QED
    BY <1>7, <1>9

(* The list of a type with one more entry.                                    *)
LEMMA WithEntryListed ==
    ASSUME NEW list \in Seq(IndexEntry), NEW t \in Types, LatestFirst(list),
           \A i \in DOMAIN list : list[i].period.type = t,
           NEW entry \in IndexEntry, entry.period.type = t
    PROVE  /\ WithEntry(list, entry) \in Seq(IndexEntry) /\ LatestFirst(WithEntry(list, entry))
           /\ \A i \in DOMAIN WithEntry(list, entry) :
                \/ WithEntry(list, entry)[i] = entry
                \/ \E j \in DOMAIN list : WithEntry(list, entry)[i] = list[j]
           /\ \E i \in DOMAIN WithEntry(list, entry) : WithEntry(list, entry)[i] = entry
           /\ \A j \in DOMAIN list : list[j].period # entry.period =>
                \E i \in DOMAIN WithEntry(list, entry) : WithEntry(list, entry)[i] = list[j]
<1> DEFINE others == {e \in ToSet(list) : e.period # entry.period}
           S == others \cup {entry}
           R == {pair \in S \X S : pair[1].period.first > pair[2].period.first}
           l == WithEntry(list, entry)
           m == Cardinality(S)
<1>1. DOMAIN list = 1..Len(list) /\ Len(list) \in Nat /\ \A i \in DOMAIN list : list[i] \in IndexEntry
    OBVIOUS
<1>2. l = InOrder(S, R)
    BY DEF WithEntry
<1>3. \A e \in others : \E j \in DOMAIN list : e = list[j] /\ list[j].period # entry.period
    BY DEF ToSet
<1>4. \A j \in DOMAIN list : list[j].period # entry.period => list[j] \in others
    BY DEF ToSet
<1>5. IsFiniteSet(S)
  <2> DEFINE at == [i \in DOMAIN list |-> list[i]]
  <2>1. at \in Surjection(DOMAIN list, ToSet(list))
      BY DEF Surjection, ToSet
  <2>2. IsFiniteSet(DOMAIN list)
      BY <1>1, FS_Interval
  <2>3. IsFiniteSet(ToSet(list))
      BY <2>1, <2>2, FS_Surjection
  <2>4. others \in SUBSET ToSet(list)
      OBVIOUS
  <2>5. IsFiniteSet(others)
      BY <2>3, <2>4, FS_Subset
  <2>6. QED
      BY <2>5, FS_AddElement
<1> HIDE DEF others, l
<1>6. \A e \in S : e \in IndexEntry /\ e.period \in Periods /\ e.period.type = t /\ e.period.first \in Nat
  <2>1. \A e \in S : e \in IndexEntry /\ e.period.type = t
      BY <1>1, <1>3
  <2>2. \A e \in IndexEntry : e.period \in Periods
      BY DEF IndexEntry
  <2>3. \A p \in Periods : p.first \in Nat
      BY ReportAssumption
  <2>4. QED
      BY <2>1, <2>2, <2>3
<1>7. ASSUME NEW a \in S, NEW b \in S, a.period.first = b.period.first
      PROVE  a = b
  <2>1. a.period = b.period
      BY <1>6, <1>7, ReportAssumption
  <2>2. CASE a \in others /\ b \in others
    <3>1. PICK i \in DOMAIN list : a = list[i]
        BY <1>3, <2>2
    <3>2. PICK j \in DOMAIN list : b = list[j]
        BY <1>3, <2>2
    <3>3. ~(i < j) /\ ~(j < i)
      <4>1. list[i].period.first \in Nat /\ list[i].period.first = list[j].period.first
          BY <1>6, <1>7, <3>1, <3>2
      <4>2. QED
          BY <4>1 DEF LatestFirst
    <3>4. i = j
        BY <1>1, <3>3
    <3>5. QED
        BY <3>1, <3>2, <3>4
  <2>3. CASE a = entry /\ b = entry
      BY <2>3
  <2>4. \A e \in others : e.period # entry.period
      BY <1>3
  <2>5. QED
      BY <2>1, <2>2, <2>3, <2>4
<1> DEFINE day(e) == e.period.first
<1>8. \A a, b \in S : <<a, b>> \in R <=> day(a) > day(b)
    OBVIOUS
<1>9. \A e \in S : day(e) \in Nat
    BY <1>6
<1>10. \A a, b \in S : day(a) = day(b) => a = b
    BY <1>7
<1> HIDE DEF S, R, day
<1>11. StrictlyOrders(R, S)
  <2>1. \A a \in S : <<a, a>> \notin R
      BY <1>8, <1>9
  <2>2. \A a, b, c \in S : <<a, b>> \in R /\ <<b, c>> \in R => <<a, c>> \in R
      BY <1>8, <1>9
  <2>3. \A a, b \in S : a = b \/ <<a, b>> \in R \/ <<b, a>> \in R
    <3>1. SUFFICES ASSUME NEW a \in S, NEW b \in S, a # b
                   PROVE  <<a, b>> \in R \/ <<b, a>> \in R
        OBVIOUS
    <3>2. day(a) # day(b) /\ day(a) \in Nat /\ day(b) \in Nat
        BY <1>9, <1>10, <3>1
    <3>3. QED
        BY <1>8, <3>2
  <2>4. QED
      BY <2>1, <2>2, <2>3 DEF StrictlyOrders
<1>12. /\ l \in Seq(S) /\ Len(l) = m
       /\ \A x \in S : \E n \in 1..m : l[n] = x
       /\ \A i, j \in 1..m : i < j => <<l[i], l[j]>> \in R
    BY <1>2, <1>5, <1>11, InOrderListed
<1>13. DOMAIN l = 1..m /\ \A i \in DOMAIN l : l[i] \in S
    BY <1>12
<1>14. S \subseteq IndexEntry
    BY <1>6
<1>15. l \in Seq(IndexEntry)
    BY <1>12, <1>14
<1>16. LatestFirst(l)
  <2>1. SUFFICES ASSUME NEW i \in DOMAIN l, NEW j \in DOMAIN l, i < j
                 PROVE  l[j].period.first < l[i].period.first
      BY DEF LatestFirst
  <2>2. <<l[i], l[j]>> \in R /\ l[i] \in S /\ l[j] \in S
      BY <1>12, <1>13, <2>1
  <2>3. day(l[i]) > day(l[j]) /\ day(l[i]) \in Nat /\ day(l[j]) \in Nat
      BY <1>8, <1>9, <2>2
  <2>4. QED
      BY <2>3 DEF day
<1>17. \A i \in DOMAIN l : l[i] = entry \/ \E j \in DOMAIN list : l[i] = list[j]
    BY <1>3, <1>13 DEF S
<1>18. entry \in S /\ \A j \in DOMAIN list : list[j].period # entry.period => list[j] \in S
    BY <1>4 DEF S
<1>19. /\ \E i \in DOMAIN l : l[i] = entry
       /\ \A j \in DOMAIN list : list[j].period # entry.period => \E i \in DOMAIN l : l[i] = list[j]
    BY <1>12, <1>13, <1>18
<1>20. QED
    BY <1>15, <1>16, <1>17, <1>19 DEF l

-----------------------------------------------------------------------------
LEMMA NoPeriodApart == NoPeriod \notin Periods
BY ReportAssumption DEF NoPeriod, Types

LEMMA NoReportTyped == NoReport \in MadeReport
BY DEF NoReport, MadeReport

LEMMA InitReportInv == ReportInit => ReportInv
<1> SUFFICES ASSUME ReportInit
             PROVE  ReportInv
    OBVIOUS
<1>1. ReportTypes
  <2>1. files \in [Periods -> [kind : FileKinds, report : MadeReport]]
      BY NoReportTyped DEF ReportInit, ReportFile, FileKinds
  <2>2. index \in [kind : FileKinds, lists : [Types -> Seq(IndexEntry)]]
      BY DEF ReportInit, Index, NoLists, FileKinds
  <2>3. /\ command = At("idle", NoPeriod, NoReport) /\ command.pc = "idle"
        /\ command \in [pc : {"idle", "creating"} \cup WritingReport \cup ReportWritten,
                        period : Periods \cup {NoPeriod}, report : MadeReport]
      BY NoReportTyped DEF ReportInit, NoCommand, At
  <2>4. QED
      BY <2>1, <2>2, <2>3 DEF ReportInit, ReportTypes, ArchiveTypes, WritingReport, ReportWritten
<1>2. BestInHand /\ NewestInHand
    BY DEF ReportInit, BestInHand, NewestInHand, NoCommand, At, WritingReport, ReportWritten
<1>3. BestSelected
    BY DEF ReportInit, BestSelected, ReportFile
<1>4. ListsTrue
  <2>1. \A t \in Types : DOMAIN index.lists[t] = {}
      BY DEF ReportInit, Index, NoLists
  <2>2. QED
      BY <2>1 DEF ReportInit, ListsTrue, LatestFirst
<1>5. QED
    BY <1>1, <1>2, <1>3, <1>4 DEF ReportInv

(* The step of a command that leaves the lists alone keeps them true, unless  *)
(* a file they name goes, or becomes a report older than its entry.           *)
LEMMA ListsKept ==
    ASSUME ReportTypes, ListsTrue, index'.lists = index.lists, indexed' = indexed, reported' \in Nat,
           reported <= reported',
           \A p \in Periods :
             \/ files'[p] = files[p]
             \/ files'[p].kind = "torn"
             \/ /\ files'[p].kind # "absent"
                /\ \A t \in Types : \A i \in DOMAIN index.lists[t] :
                     index.lists[t][i].made < files'[p].report.made
    PROVE  ListsTrue'
<1>1. ASSUME NEW t \in Types, NEW i \in DOMAIN index.lists[t]
      PROVE  EntryTrue(t, index.lists[t][i])'
  <2> DEFINE e == index.lists[t][i]
  <2>1. EntryTrue(t, e)
      BY DEF ListsTrue
  <2>2. e \in IndexEntry
      BY DEF ReportTypes
  <2>3. e.period \in Periods /\ e.made \in Nat
      BY <2>2 DEF IndexEntry
  <2>4. index'.lists[t][i] = e
      OBVIOUS
  <2> HIDE DEF e
  <2>5. e.made <= reported'
      BY <2>1, <2>3 DEF EntryTrue, ReportTypes
  <2>6. files'[e.period].kind # "absent"
      BY <2>1, <2>3 DEF EntryTrue
  <2>7. files'[e.period].kind = "whole" =>
          e = EntryOf(e.period, files'[e.period].report) \/ e.made < files'[e.period].report.made
      BY <2>1, <2>3 DEF EntryTrue, e
  <2>8. e.period.type = t
      BY <2>1 DEF EntryTrue
  <2>9. QED
      BY <2>4, <2>5, <2>6, <2>7, <2>8 DEF EntryTrue
<1>2. (\A t \in Types : \A i \in DOMAIN index.lists[t] : EntryTrue(t, index.lists[t][i]))'
    BY <1>1
<1>3. (\A t \in Types : LatestFirst(index.lists[t]))'
    BY DEF ListsTrue, LatestFirst
<1>4. (\A p \in indexed : \E i \in DOMAIN index.lists[p.type] : index.lists[p.type][i].period = p)'
    BY DEF ListsTrue
<1>5. QED
    BY <1>2, <1>3, <1>4 DEF ListsTrue

LEMMA StartKeeps ==
    ASSUME ReportInv, NEW p \in Periods, StartReport(p)
    PROVE  ReportInv'
<1>1. /\ Build(p) \in MadeReport /\ Chosen(Build(p), archives, p) /\ Build(p).made = reported + 1
    BY BuildsBest DEF ReportInv
<1>2. /\ command' = [pc |-> "built", period |-> p, report |-> Build(p)] /\ reported' = reported + 1
      /\ UNCHANGED <<archives, files, index, rewritten, basis, indexed>>
    BY DEF StartReport, At
<1>3. reported \in Nat
    BY DEF ReportInv, ReportTypes
<1> DEFINE r == Build(p)
<1> HIDE DEF r
<1>4. r \in MadeReport /\ Chosen(r, archives, p) /\ r.made = reported + 1
    BY <1>1 DEF r
<1>5. command' = [pc |-> "built", period |-> p, report |-> r]
    BY <1>2 DEF r
<1>6. ReportTypes'
    BY <1>2, <1>3, <1>4, <1>5 DEF ReportInv, ReportTypes, ArchiveTypes, WritingReport, ReportWritten
<1>7. BestInHand'
  <2>1. Chosen(r, archives', p)
      BY <1>2, <1>4
  <2>2. command'.pc = "built" /\ command'.report = r /\ command'.period = p
      BY <1>5
  <2>3. Chosen(command'.report, archives', command'.period)
      BY <2>1, <2>2
  <2>4. QED
      BY <2>2, <2>3 DEF BestInHand, Chosen
<1>8. BestSelected'
    BY <1>2 DEF ReportInv, BestSelected
<1>9. NewestInHand'
  <2>1. command'.pc = "built" /\ command'.report.made = reported'
      BY <1>2, <1>4, <1>5
  <2>2. \A t \in Types : \A i \in DOMAIN index.lists[t] : index.lists[t][i].made < reported'
    <3>1. SUFFICES ASSUME NEW t \in Types, NEW i \in DOMAIN index.lists[t]
                   PROVE  index.lists[t][i].made < reported'
        OBVIOUS
    <3>2. EntryTrue(t, index.lists[t][i]) /\ index.lists[t][i] \in IndexEntry
        BY DEF ReportInv, ReportTypes, ListsTrue
    <3>3. QED
        BY <1>2, <1>3, <3>2 DEF EntryTrue, IndexEntry
  <2>3. QED
      BY <1>2, <2>1, <2>2 DEF NewestInHand, WritingReport, ReportWritten
<1>10. ListsTrue'
    BY <1>2, <1>3, ListsKept DEF ReportInv
<1>11. QED
    BY <1>6, <1>7, <1>8, <1>9, <1>10 DEF ReportInv

LEMMA OpenReportKeeps ==
    ASSUME ReportInv, OpenReport
    PROVE  ReportInv'
<1> DEFINE p == command.period
<1>1. /\ command.pc = "built" /\ p \in Periods /\ command.report \in MadeReport
      /\ command' = [pc |-> "opened", period |-> p, report |-> command.report]
    BY DEF OpenReport, ReportInv, ReportTypes, WritingReport
<1>2. /\ files' = [files EXCEPT ![p] = ReportFile("torn", NoReport)]
      /\ basis' = [basis EXCEPT ![p] = archives]
      /\ UNCHANGED <<archives, index, reported, rewritten, indexed>>
    BY DEF OpenReport
<1> HIDE DEF p
<1>3. ReportTypes
    BY DEF ReportInv
<1>4. /\ files'[p].kind = "torn" /\ basis'[p] = archives
      /\ \A q \in Periods : q # p => files'[q] = files[q] /\ basis'[q] = basis[q]
    BY <1>1, <1>2, <1>3 DEF ReportTypes, ReportFile
<1>5. ReportTypes'
  <2>1. files' \in [Periods -> [kind : FileKinds, report : MadeReport]]
      BY <1>2, <1>3, NoReportTyped DEF ReportTypes, ReportFile, FileKinds
  <2>2. basis' \in [Periods -> [Days -> Digests \cup {NoArchive}]]
      BY <1>2, <1>3 DEF ReportTypes, ArchiveTypes
  <2>3. QED
      BY <1>1, <1>2, <1>3, <2>1, <2>2 DEF ReportTypes, ArchiveTypes, WritingReport
<1>6. BestInHand'
  <2>1. Chosen(command.report, archives, p)
      BY <1>1 DEF ReportInv, BestInHand, p
  <2>2. command'.pc = "opened" /\ command'.report = command.report /\ command'.period = p
      BY <1>1
  <2>3. basis'[command'.period] = archives
      BY <1>4, <2>2
  <2>4. Chosen(command'.report, basis'[command'.period], command'.period)
      BY <2>1, <2>2, <2>3
  <2>5. QED
      BY <2>2, <2>4 DEF BestInHand, Chosen
<1>7. BestSelected'
  <2>1. SUFFICES ASSUME NEW q \in Periods, files'[q].kind = "whole"
                 PROVE  /\ BestOf(files'[q].report.papers, Eligible(basis'[q], q, "paper"), Limit)
                        /\ BestOf(files'[q].report.blogs, Eligible(basis'[q], q, "blog"), Fewer(Limit, BlogLimit))
      BY DEF BestSelected
  <2>2. q # p /\ files'[q] = files[q] /\ basis'[q] = basis[q]
      BY <1>4, <2>1
  <2>3. QED
      BY <2>1, <2>2 DEF ReportInv, BestSelected
<1>8. NewestInHand'
    BY <1>1, <1>2 DEF ReportInv, NewestInHand, WritingReport, ReportWritten
<1>9. ListsTrue'
    BY <1>2, <1>3, <1>4, ListsKept DEF ReportInv, ReportTypes
<1>10. QED
    BY <1>5, <1>6, <1>7, <1>8, <1>9 DEF ReportInv

LEMMA WriteReportKeeps ==
    ASSUME ReportInv, WriteReport
    PROVE  ReportInv'
<1> DEFINE p == command.period
<1>1. /\ command.pc = "opened" /\ p \in Periods /\ command.report \in MadeReport
      /\ command' = [pc |-> "written", period |-> p, report |-> command.report]
    BY DEF WriteReport, ReportInv, ReportTypes, WritingReport
<1>2. /\ files' = [files EXCEPT ![p] = ReportFile("whole", command.report)]
      /\ UNCHANGED <<archives, index, reported, rewritten, basis, indexed>>
    BY DEF WriteReport
<1> HIDE DEF p
<1>3. ReportTypes
    BY DEF ReportInv
<1>4. /\ files'[p] = ReportFile("whole", command.report)
      /\ \A q \in Periods : q # p => files'[q] = files[q]
    BY <1>1, <1>2, <1>3 DEF ReportTypes
<1>5. ReportTypes'
  <2>1. files' \in [Periods -> [kind : FileKinds, report : MadeReport]]
      BY <1>1, <1>2, <1>3 DEF ReportTypes, ReportFile, FileKinds
  <2>2. QED
      BY <1>1, <1>2, <1>3, <2>1 DEF ReportTypes, ArchiveTypes, WritingReport, ReportWritten
<1>6. BestInHand'
    BY <1>1 DEF BestInHand
<1>7. BestSelected'
  <2>1. SUFFICES ASSUME NEW q \in Periods, files'[q].kind = "whole"
                 PROVE  /\ BestOf(files'[q].report.papers, Eligible(basis'[q], q, "paper"), Limit)
                        /\ BestOf(files'[q].report.blogs, Eligible(basis'[q], q, "blog"), Fewer(Limit, BlogLimit))
      BY DEF BestSelected
  <2>2. CASE q # p
    <3>1. files'[q] = files[q] /\ basis'[q] = basis[q]
        BY <1>2, <1>4, <2>2
    <3>2. QED
        BY <2>1, <3>1 DEF ReportInv, BestSelected
  <2>3. CASE q = p
    <3>1. Chosen(command.report, basis[p], p)
        BY <1>1 DEF ReportInv, BestInHand, p
    <3>2. files'[q].report = command.report /\ basis'[q] = basis[p]
        BY <1>2, <1>4, <2>3 DEF ReportFile
    <3>3. QED
        BY <2>3, <3>1, <3>2 DEF Chosen
  <2>4. QED
      BY <2>2, <2>3
<1>8. NewestInHand'
  <2>1. command'.pc = "written" /\ command'.period = p /\ command'.report = command.report
      BY <1>1
  <2>2. command.report.made = reported
      BY <1>1 DEF ReportInv, NewestInHand, WritingReport
  <2>3. QED
      BY <1>2, <1>4, <2>1, <2>2 DEF NewestInHand, WritingReport, ReportWritten
<1>9. ListsTrue'
  <2>1. /\ command.report.made = reported
        /\ \A t \in Types : \A i \in DOMAIN index.lists[t] : index.lists[t][i].made < reported
      BY <1>1 DEF ReportInv, NewestInHand, WritingReport
  <2>2. files'[p].kind # "absent" /\ files'[p].report.made = reported
      BY <1>4, <2>1 DEF ReportFile
  <2>3. QED
      BY <1>2, <1>3, <1>4, <2>1, <2>2, ListsKept DEF ReportInv, ReportTypes
<1>10. QED
    BY <1>5, <1>6, <1>7, <1>8, <1>9 DEF ReportInv

(* The command ends, or the index is emptied or made whole, its lists as they *)
(* are.                                                                       *)
LEMMA ListsAsTheyAre ==
    ASSUME ReportInv, index'.lists = index.lists, index' \in [kind : FileKinds, lists : [Types -> Seq(IndexEntry)]],
           UNCHANGED <<files, reported, rewritten, basis, indexed>>, ArchiveTypes',
           \/ command' = NoCommand
           \/ command' = At("creating", NoPeriod, NoReport)
           \/ command.pc = "written" /\ command' = [command EXCEPT !.pc = "indexing"]
           \/ command' = command /\ archives' = archives
    PROVE  ReportInv'
<1>1. ReportTypes
    BY DEF ReportInv
<1>2. CASE command' = NoCommand \/ command' = At("creating", NoPeriod, NoReport)
  <2>1. /\ command'.pc \in {"idle", "creating"}
        /\ command' \in [pc : {"idle", "creating"} \cup WritingReport \cup ReportWritten,
                         period : Periods \cup {NoPeriod}, report : MadeReport]
      BY <1>2, NoReportTyped DEF NoCommand, At
  <2>2. ReportTypes'
      BY <1>1, <2>1 DEF ReportTypes, ArchiveTypes, WritingReport, ReportWritten
  <2>3. BestInHand' /\ NewestInHand'
      BY <2>1 DEF BestInHand, NewestInHand, WritingReport, ReportWritten
  <2>4. QED
      BY <1>1, <2>2, <2>3, ListsKept DEF ReportInv, ReportTypes, BestSelected
<1>3. CASE command.pc = "written" /\ command' = [command EXCEPT !.pc = "indexing"]
  <2>1. /\ command'.pc = "indexing" /\ command'.period = command.period /\ command'.report = command.report
        /\ command.period \in Periods
        /\ command' \in [pc : {"idle", "creating"} \cup WritingReport \cup ReportWritten,
                         period : Periods \cup {NoPeriod}, report : MadeReport]
      BY <1>1, <1>3 DEF ReportTypes, ReportWritten
  <2>2. ReportTypes'
      BY <1>1, <2>1 DEF ReportTypes, ArchiveTypes
  <2>3. BestInHand' /\ NewestInHand'
      BY <1>3, <2>1 DEF ReportInv, BestInHand, NewestInHand, WritingReport, ReportWritten
  <2>4. QED
      BY <1>1, <2>2, <2>3, ListsKept DEF ReportInv, ReportTypes, BestSelected
<1>4. CASE command' = command /\ archives' = archives
  <2>1. ReportTypes'
      BY <1>1, <1>4 DEF ReportTypes, ArchiveTypes
  <2>2. BestInHand'
      BY <1>4 DEF ReportInv, BestInHand, Chosen
  <2>3. NewestInHand'
      BY <1>4 DEF ReportInv, NewestInHand
  <2>4. QED
      BY <1>1, <2>1, <2>2, <2>3, ListsKept DEF ReportInv, ReportTypes, BestSelected
<1>5. QED
    BY <1>2, <1>3, <1>4

LEMMA WriteIndexKeeps ==
    ASSUME ReportInv, WriteIndex
    PROVE  ReportInv'
<1>1. ReportTypes
    BY DEF ReportInv
<1>2. PICK p \in Periods : p = command.period /\ p.type \in Types
  <2>1. command.period \in Periods
      BY <1>1 DEF WriteIndex, ReportTypes, ReportWritten
  <2>2. \A q \in Periods : q.type \in Types
      BY ReportAssumption
  <2>3. QED
      BY <2>1, <2>2
<1>3. PICK entry : entry = EntryOf(p, command.report)
    OBVIOUS
<1>4. PICK t \in Types : t = p.type
    BY <1>2
<1>5. PICK list \in Seq(IndexEntry) : list = index.lists[t]
    BY <1>1 DEF ReportTypes
<1>6. /\ command.pc = "indexing" /\ command' = NoCommand
      /\ index' = [kind |-> "whole", lists |-> [index.lists EXCEPT ![t] = WithEntry(list, entry)]]
      /\ indexed' = indexed \cup {p}
      /\ UNCHANGED <<archives, files, reported, rewritten, basis>>
    BY <1>2, <1>3, <1>4, <1>5 DEF WriteIndex, Index
<1>7. /\ command.report \in MadeReport /\ command.report.made = reported
      /\ files[p] = ReportFile("whole", command.report)
    BY <1>1, <1>2, <1>6 DEF ReportInv, ReportTypes, NewestInHand, ReportWritten
<1>8. entry \in IndexEntry /\ entry.period = p /\ EntryTrue(t, entry)
  <2>1. /\ entry.period = p /\ entry.made = reported /\ entry \in IndexEntry
      BY <1>1, <1>3, <1>7 DEF EntryOf, IndexEntry, MadeReport, ReportTypes
  <2>2. files[p].kind = "whole" /\ files[p].report = command.report
      BY <1>7 DEF ReportFile
  <2>3. QED
      BY <1>1, <1>3, <1>4, <2>1, <2>2 DEF EntryTrue, ReportTypes
<1>9. /\ \A i \in DOMAIN list : EntryTrue(t, list[i]) /\ list[i].period.type = t
      /\ LatestFirst(list)
    BY <1>5 DEF ReportInv, ListsTrue, EntryTrue
<1>10. PICK new : new = WithEntry(list, entry)
    OBVIOUS
<1>11. /\ new \in Seq(IndexEntry) /\ LatestFirst(new)
       /\ \A i \in DOMAIN new : new[i] = entry \/ \E j \in DOMAIN list : new[i] = list[j]
       /\ \E i \in DOMAIN new : new[i] = entry
       /\ \A j \in DOMAIN list : list[j].period # entry.period => \E i \in DOMAIN new : new[i] = list[j]
    BY <1>4, <1>8, <1>9, <1>10, WithEntryListed
<1>12. /\ index'.lists[t] = new /\ \A u \in Types : u # t => index'.lists[u] = index.lists[u]
       /\ index' \in [kind : FileKinds, lists : [Types -> Seq(IndexEntry)]]
  <2>1. index.lists \in [Types -> Seq(IndexEntry)]
      BY <1>1 DEF ReportTypes
  <2>2. index'.lists = [index.lists EXCEPT ![t] = new] /\ index'.kind = "whole"
      BY <1>6, <1>10
  <2>3. QED
      BY <1>6, <1>11, <2>1, <2>2 DEF FileKinds
<1>13. /\ command'.pc = "idle"
       /\ command' \in [pc : {"idle", "creating"} \cup WritingReport \cup ReportWritten,
                        period : Periods \cup {NoPeriod}, report : MadeReport]
    BY <1>6, NoReportTyped DEF NoCommand, At
<1>14. ReportTypes'
    BY <1>1, <1>6, <1>12, <1>13 DEF ReportTypes, ArchiveTypes, WritingReport, ReportWritten
<1>15. BestInHand' /\ NewestInHand'
    BY <1>13 DEF BestInHand, NewestInHand, WritingReport, ReportWritten
<1>16. BestSelected'
    BY <1>6 DEF ReportInv, BestSelected
<1>17. (\A u \in Types : \A i \in DOMAIN index.lists[u] : EntryTrue(u, index.lists[u][i]))'
  <2>1. SUFFICES ASSUME NEW u \in Types, NEW i \in DOMAIN index'.lists[u]
                 PROVE  EntryTrue(u, index.lists[u][i])'
      OBVIOUS
  <2>2. PICK e : e = index'.lists[u][i] /\ EntryTrue(u, e)
    <3>1. CASE u = t
      <4>1. i \in DOMAIN new /\ index'.lists[u][i] = new[i]
          BY <1>12, <2>1, <3>1
      <4>2. EntryTrue(u, new[i])
          BY <1>8, <1>9, <1>11, <3>1, <4>1
      <4>3. QED
          BY <4>1, <4>2
    <3>2. CASE u # t
      <4>1. index'.lists[u] = index.lists[u] /\ i \in DOMAIN index.lists[u]
          BY <1>12, <2>1, <3>2
      <4>2. EntryTrue(u, index.lists[u][i])
          BY <4>1 DEF ReportInv, ListsTrue
      <4>3. QED
          BY <4>1, <4>2
    <3>3. QED
        BY <3>1, <3>2
  <2>3. QED
      BY <1>6, <2>2 DEF EntryTrue
<1>18. (\A u \in Types : LatestFirst(index.lists[u]))'
  <2>1. SUFFICES ASSUME NEW u \in Types
                 PROVE  LatestFirst(index'.lists[u])
      BY DEF LatestFirst
  <2>2. LatestFirst(index.lists[u])
      BY DEF ReportInv, ListsTrue
  <2>3. QED
      BY <1>11, <1>12, <2>2
<1>19. (\A q \in indexed : \E i \in DOMAIN index.lists[q.type] : index.lists[q.type][i].period = q)'
  <2>1. SUFFICES ASSUME NEW q \in indexed \cup {p}
                 PROVE  \E i \in DOMAIN index'.lists[q.type] : index'.lists[q.type][i].period = q
      BY <1>6
  <2>2. CASE q = p
      BY <1>4, <1>8, <1>11, <1>12, <2>2
  <2>3. CASE q # p /\ q.type = t
    <3>1. PICK j \in DOMAIN list : list[j].period = q
        BY <1>5, <2>3 DEF ReportInv, ListsTrue
    <3>2. PICK i \in DOMAIN new : new[i] = list[j]
        BY <1>8, <1>11, <2>3, <3>1
    <3>3. QED
        BY <1>12, <2>3, <3>1, <3>2
  <2>4. CASE q # p /\ q.type # t
    <3>1. q.type \in Types
        BY <1>1, <2>4, ReportAssumption DEF ReportTypes
    <3>2. index'.lists[q.type] = index.lists[q.type]
        BY <1>12, <2>4, <3>1
    <3>3. QED
        BY <2>4, <3>2 DEF ReportInv, ListsTrue
  <2>5. QED
      BY <2>2, <2>3, <2>4
<1>20. ListsTrue'
    BY <1>17, <1>18, <1>19 DEF ListsTrue
<1>21. QED
    BY <1>14, <1>15, <1>16, <1>20 DEF ReportInv

LEMMA ReportStepKeeps == ReportInv /\ [ReportNext]_reportVars => ReportInv'
<1> SUFFICES ASSUME ReportInv, [ReportNext]_reportVars
             PROVE  ReportInv'
    OBVIOUS
<1>1. /\ ArchiveTypes /\ index \in [kind : FileKinds, lists : [Types -> Seq(IndexEntry)]]
    BY DEF ReportInv, ReportTypes
<1>2. \A k \in FileKinds : /\ [index EXCEPT !.kind = k].lists = index.lists
                           /\ [index EXCEPT !.kind = k] \in [kind : FileKinds, lists : [Types -> Seq(IndexEntry)]]
    BY <1>1
<1>3. CASE \E p \in Periods : StartReport(p)
    BY <1>3, StartKeeps
<1>4. CASE OpenReport
    BY <1>4, OpenReportKeeps
<1>5. CASE WriteReport
    BY <1>5, WriteReportKeeps
<1>6. CASE WriteIndex
    BY <1>6, WriteIndexKeeps
<1>7. CASE OpenIndex
    BY <1>1, <1>2, <1>7, ListsAsTheyAre DEF OpenIndex, FileKinds, ArchiveTypes
<1>8. CASE IndexUnreadable
    BY <1>1, <1>8, ListsAsTheyAre DEF IndexUnreadable, ArchiveTypes
<1>9. CASE CreateIndex
    BY <1>1, <1>2, <1>9, ListsAsTheyAre DEF CreateIndex, FileKinds, ArchiveTypes
<1>10. CASE FillIndex
    BY <1>1, <1>2, <1>10, ListsAsTheyAre DEF FillIndex, FileKinds, ArchiveTypes
<1>11. CASE ReportKilled
    BY <1>1, <1>11, ListsAsTheyAre DEF ReportKilled, ArchiveTypes
<1>12. CASE \E day \in Days : RewriteArchive(day)
  <2>1. PICK day \in Days : RewriteArchive(day)
      BY <1>12
  <2>2. /\ archives' \in [Days -> Digests \cup {NoArchive}] /\ rewritten' = rewritten + 1
        /\ UNCHANGED <<files, index, command, reported, basis, indexed>>
        /\ command.pc = "idle"
      BY <1>1, <2>1 DEF RewriteArchive, ArchiveTypes, NoCommand, At
  <2>3. ReportTypes'
      BY <2>2 DEF ReportInv, ReportTypes, ArchiveTypes
  <2>4. BestInHand' /\ BestSelected' /\ NewestInHand'
      BY <2>2 DEF ReportInv, BestInHand, BestSelected, NewestInHand, WritingReport, ReportWritten
  <2>5. ListsTrue'
      BY <2>2, ListsKept DEF ReportInv, ReportTypes
  <2>6. QED
      BY <2>3, <2>4, <2>5 DEF ReportInv
<1>13. CASE UNCHANGED reportVars
  <2>1. UNCHANGED <<archives, files, index, command, reported, rewritten, basis, indexed>>
      BY <1>13 DEF reportVars
  <2>2. QED
      BY <1>1, <2>1, ListsAsTheyAre DEF ArchiveTypes
<1>14. QED
    BY <1>3, <1>4, <1>5, <1>6, <1>7, <1>8, <1>9, <1>10, <1>11, <1>12, <1>13 DEF ReportNext

LEMMA ReportInvTrue == ReportInv => ReportsTrue
<1> SUFFICES ASSUME ReportInv
             PROVE  IndexAgrees
    BY DEF ReportInv, ReportsTrue
<1>1. ASSUME NEW t \in Types, NEW i \in DOMAIN index.lists[t]
      PROVE  /\ EntryTrue(t, index.lists[t][i])
             /\ \A j \in DOMAIN index.lists[t] : i < j =>
                  index.lists[t][j].period.first < index.lists[t][i].period.first
    BY DEF ReportInv, ListsTrue, LatestFirst
<1>2. QED
    BY <1>1 DEF IndexAgrees, ReportInv, ListsTrue, EntryTrue

(* Every report recommends each story of its period once, at its best score,  *)
(* and none better is left out; the index has one entry for each period it    *)
(* ever had, the latest first, none that says more than the report it names:  *)
(* whatever is made again and wherever a command dies (aggregator.py), for    *)
(* any periods, archives, limits and lookahead.                               *)
THEOREM ReportsAreTrue == ReportSpec => []ReportsTrue
<1>1. ReportSpec => []ReportInv
    BY InitReportInv, ReportStepKeeps, PTL DEF ReportSpec
<1>2. QED
    BY <1>1, ReportInvTrue, PTL

(* What the report command and the pages read and write has the shape each    *)
(* reader takes it to have (reports/models.py).                               *)
THEOREM ReportsTyped == ReportSpec => []ReportTypes
<1>1. ReportSpec => []ReportInv
    BY InitReportInv, ReportStepKeeps, PTL DEF ReportSpec
<1>2. ReportInv => ReportTypes
    BY DEF ReportInv
<1>3. QED
    BY <1>1, <1>2, PTL
=============================================================================
