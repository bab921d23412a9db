---------------------------- MODULE RosettaImport ----------------------------
(***************************************************************************)
(* The code corpus: run_import (src/gither/codegraph/rosetta.py) lists the *)
(* tasks of a wiki page by page, fetches them one by one and writes        *)
(* tasks.jsonl, chunks.jsonl and bridges.jsonl one after the other, while  *)
(* the wiki is edited; Corpus.load (query.py) reads the first two.  Both   *)
(* are processes that may run at the same time, and the import may be      *)
(* killed at any step.                                                     *)
(*                                                                         *)
(* Titles are numbers, in the order the wiki lists them.  The text of a    *)
(* page is the sequence of its code blocks, each with its language; what   *)
(* the extraction helpers of models.py make of the text is left out.       *)
(***************************************************************************)
EXTENDS Ordering, FiniteSetsExt, SequencesExt

CONSTANTS Title,
          Language, Code,
          Splitting,   \* code that holds a line separator JSON does not escape
          Texts,       \* texts the pages take
          Limits,      \* limits given to run_import; 0 is none
          PageSize,    \* titles in one answer
          MaxEdits, MaxRuns, MaxKills,  \* bounds
          None,        \* no page; no value; also no file
          Torn         \* a file whose last line is cut off

Block == [language : Language, code : Code]

ASSUME TitleAssumption == Title \subseteq Nat \ {0} /\ IsFiniteSet(Title)
ASSUME TextAssumption == Texts \subseteq Seq(Block) /\ Splitting \subseteq Code
ASSUME BoundAssumption == /\ Limits \subseteq Nat
                          /\ {MaxEdits, MaxRuns, MaxKills} \subseteq Nat
                          /\ PageSize \in Nat \ {0}

(* CodeChunk; its id is the code.  LangBridge, as to_json renders it.        *)
Chunk == [task : Title, language : Language, code : Code]
Bridge == [task : Title, languages : SUBSET Language, chunk_ids : Seq(Code)]

ASSUME NoneAssumption == None \notin Texts \cup Language \cup Seq(Title) \cup Seq(Chunk)

VARIABLES
  wiki,     \* title -> the text of its page, or None
  edits,
  pc,       \* where the import is
  limit,    \* of the import
  titles,   \* list_tasks: the titles listed
  continue, \* the title the next answer begins with, 0 at first
  todo,     \* import_tasks: the titles to fetch
  concepts, chunks,  \* what was parsed
  tasks_file, chunks_file, bridges_file,
  reader,   \* Corpus.load: its step, and the corpus loaded last
  runs, kills,
  present,  \* history: the titles on the wiki throughout the listing
  failed,   \* history: titles whose fetch failed in this run
  fetched,  \* history: <<title, text>> of the pages this run has parsed
  complete  \* history: what the files hold is what one import wrote

import == <<limit, titles, continue, todo, concepts, chunks>>
files == <<tasks_file, chunks_file, bridges_file>>
history == <<present, failed, fetched, complete>>
vars == <<wiki, edits, pc, import, files, reader, runs, kills, history>>

NoCorpus == [pc |-> "idle", tasks |-> {}, chunks |-> <<>>, quiet |-> FALSE]

TypeOK ==
  /\ wiki \in [Title -> Texts \cup {None}] /\ edits \in 0..MaxEdits
  /\ pc \in {"idle", "list", "fetch", "open_tasks", "tasks", "open_chunks", "chunks",
             "open_bridges", "bridges"}
  /\ titles \in Seq(Title) /\ continue \in Title \cup {0}
  /\ limit \in Limits \cup {0}
  /\ todo \in Seq(Title) /\ concepts \in Seq(Title) /\ chunks \in Seq(Chunk)
  /\ tasks_file \in Seq(Title) \cup {None, Torn}
  /\ chunks_file \in Seq(Chunk) \cup {None, Torn}
  /\ bridges_file \in Seq(Bridge) \cup {None, Torn}
  /\ reader \in [pc : {"idle", "chunks", "loaded", "raised"}, tasks : SUBSET Title,
                 chunks : Seq(Chunk), quiet : BOOLEAN]
  /\ runs \in 0..MaxRuns /\ kills \in 0..MaxKills
  /\ present \in SUBSET Title /\ failed \in SUBSET Title
  /\ fetched \in SUBSET (Title \X Texts) /\ complete \in BOOLEAN

OnWiki == {t \in Title : wiki[t] # None}

Init ==
  /\ wiki \in [Title -> Texts \cup {None}] /\ edits = 0
  /\ pc = "idle"
  /\ limit = 0 /\ titles = <<>> /\ continue = 0 /\ todo = <<>> /\ concepts = <<>> /\ chunks = <<>>
  /\ tasks_file = None /\ chunks_file = None /\ bridges_file = None
  /\ reader = NoCorpus
  /\ runs = 0 /\ kills = 0
  /\ present = {} /\ failed = {} /\ fetched = {} /\ complete = TRUE

-----------------------------------------------------------------------------
(* Wiki pages are created, edited and deleted. *)
Edit(t) ==
  /\ edits < MaxEdits
  /\ edits' = edits + 1
  /\ \E text \in (Texts \cup {None}) \ {wiki[t]} : wiki' = [wiki EXCEPT ![t] = text]
  /\ present' = present \cap OnWiki'
  /\ UNCHANGED <<pc, import, files, reader, runs, kills, failed, fetched, complete>>

-----------------------------------------------------------------------------
(* run_import *)
Begin ==
  /\ pc = "idle"
  /\ runs < MaxRuns
  /\ runs' = runs + 1
  /\ pc' = "list"
  /\ limit' \in Limits
  /\ titles' = <<>> /\ continue' = 0 /\ todo' = <<>> /\ concepts' = <<>> /\ chunks' = <<>>
  /\ present' = OnWiki /\ failed' = {} /\ fetched' = {}
  /\ UNCHANGED <<wiki, edits, files, reader, kills, complete>>

(* The wiki answers with the titles from continue on, and with the title     *)
(* after them if there is one.                                               *)
From(t) == InOrder({u \in OnWiki : u >= t}, {p \in Title \X Title : p[1] < p[2]})
Members(t) == SubSeq(From(t), 1, Min({PageSize, Len(From(t))}))
NextFrom(t) == IF Len(From(t)) > PageSize THEN From(t)[PageSize + 1] ELSE 0

(* Variant: the titles of the last answer are not added. *)
ListedBeforeLast(sofar, members, next) == IF next = 0 THEN sofar ELSE sofar \o members

Listed(sofar, members, next) == sofar \o members

(* titles[:limit], once there are that many *)
Limited(ts) == IF limit # 0 /\ Len(ts) >= limit THEN SubSeq(ts, 1, limit) ELSE ts

(* list_tasks, one answer; todo is what import_tasks iterates over.          *)
ListPage ==
  /\ pc = "list"
  /\ LET next == NextFrom(continue)
         all == Listed(titles, Members(continue), next)
         done == next = 0 \/ (limit # 0 /\ Len(all) >= limit)
     IN /\ titles' = Limited(all)
        /\ continue' = IF done THEN 0 ELSE next
        /\ todo' = IF done THEN titles' ELSE <<>>
        /\ pc' = IF done THEN "fetch" ELSE "list"
  /\ UNCHANGED <<wiki, edits, limit, concepts, chunks, files, reader, runs, kills, history>>

(* curl fails, or the answer is not one: the import ends. *)
ListFails ==
  /\ pc = "list"
  /\ pc' = "idle"
  /\ UNCHANGED <<wiki, edits, import, files, reader, runs, kills, history>>

(* parse_task *)
ChunksOf(t, text) ==
  [i \in DOMAIN text |-> [task |-> t, language |-> text[i].language, code |-> text[i].code]]

Fetch ==
  /\ pc = "fetch" /\ todo # <<>>
  /\ LET t == Head(todo) IN
     /\ wiki[t] # None
     /\ concepts' = Append(concepts, t)
     /\ chunks' = chunks \o ChunksOf(t, wiki[t])
     /\ fetched' = fetched \cup {<<t, wiki[t]>>}
  /\ todo' = Tail(todo)
  /\ UNCHANGED <<wiki, edits, pc, limit, titles, continue, files, reader, runs, kills, present,
                 failed, complete>>

(* Variant: a failure does not go on with the next title, but parses the     *)
(* text fetched before it.                                                   *)
SkipReusing ==
  /\ pc = "fetch" /\ todo # <<>>
  /\ concepts # <<>>
  /\ \E text \in Texts :
       /\ <<Last(concepts), text>> \in fetched
       /\ chunks' = chunks \o ChunksOf(Head(todo), text)
  /\ concepts' = Append(concepts, Head(todo))
  /\ failed' = failed \cup {Head(todo)}
  /\ todo' = Tail(todo)
  /\ UNCHANGED <<wiki, edits, pc, limit, titles, continue, files, reader, runs, kills, present,
                 fetched, complete>>

(* A page that cannot be fetched, or is gone by now, is skipped. *)
Skip ==
  /\ pc = "fetch" /\ todo # <<>>
  /\ failed' = failed \cup {Head(todo)}
  /\ todo' = Tail(todo)
  /\ UNCHANGED <<wiki, edits, pc, limit, titles, continue, concepts, chunks, files, reader, runs,
                 kills, present, fetched, complete>>

Fetched ==
  /\ pc = "fetch" /\ todo = <<>>
  /\ pc' = "open_tasks"
  /\ UNCHANGED <<wiki, edits, import, files, reader, runs, kills, history>>

Tasks(cs) == {cs[i].task : i \in DOMAIN cs}
Places(t, cs) == {i \in DOMAIN cs : cs[i].task = t}
First(t, cs) == Min(Places(t, cs))

(* build_bridges: tasks in the order of their first chunk. *)
BridgeOf(t, cs) ==
  LET group == Kept(cs, Places(t, cs))
  IN [task |-> t, languages |-> {group[i].language : i \in DOMAIN group},
      chunk_ids |-> [i \in DOMAIN group |-> group[i].code]]

Bridged(cs) ==
  LET tasks == InOrder(Tasks(cs), {p \in Title \X Title : First(p[1], cs) < First(p[2], cs)})
  IN  [i \in DOMAIN tasks |-> BridgeOf(tasks[i], cs)]

(* Variant: the last chunk is left out. *)
BridgesButLast(cs) == Bridged(IF cs = <<>> THEN <<>> ELSE SubSeq(cs, 1, Len(cs) - 1))

Bridges(cs) == Bridged(cs)

(* write_jsonl: open empties the file; what was buffered is written in       *)
(* blocks, which may end within a line; close writes the rest.               *)
OpenTasks ==
  /\ pc = "open_tasks" /\ pc' = "tasks"
  /\ tasks_file' = <<>> /\ UNCHANGED <<chunks_file, bridges_file>>

FlushTasks ==
  /\ pc = "tasks" /\ UNCHANGED pc
  /\ concepts # <<>>
  /\ tasks_file' = Torn /\ UNCHANGED <<chunks_file, bridges_file>>

CloseTasks ==
  /\ pc = "tasks" /\ pc' = "open_chunks"
  /\ tasks_file' = concepts /\ UNCHANGED <<chunks_file, bridges_file>>

OpenChunks ==
  /\ pc = "open_chunks" /\ pc' = "chunks"
  /\ chunks_file' = <<>> /\ UNCHANGED <<tasks_file, bridges_file>>

FlushChunks ==
  /\ pc = "chunks" /\ UNCHANGED pc
  /\ chunks # <<>>
  /\ chunks_file' = Torn /\ UNCHANGED <<tasks_file, bridges_file>>

CloseChunks ==
  /\ pc = "chunks" /\ pc' = "open_bridges"
  /\ chunks_file' = chunks /\ UNCHANGED <<tasks_file, bridges_file>>

OpenBridges ==
  /\ pc = "open_bridges" /\ pc' = "bridges"
  /\ bridges_file' = <<>> /\ UNCHANGED <<tasks_file, chunks_file>>

CloseBridges ==
  /\ pc = "bridges" /\ pc' = "idle"
  /\ bridges_file' = Bridges(chunks) /\ UNCHANGED <<tasks_file, chunks_file>>

(* A reader that is amid its two reads sees files of different states.       *)
WriteFile ==
  /\ \/ OpenTasks \/ FlushTasks \/ CloseTasks
     \/ OpenChunks \/ FlushChunks \/ CloseChunks
     \/ OpenBridges \/ CloseBridges
  /\ reader' = [reader EXCEPT !.quiet = FALSE]
  /\ complete' = (pc' = "idle")
  /\ UNCHANGED <<wiki, edits, import, runs, kills, present, failed, fetched>>

Kill ==
  /\ pc # "idle"
  /\ kills < MaxKills
  /\ kills' = kills + 1
  /\ pc' = "idle"
  /\ UNCHANGED <<wiki, edits, import, files, reader, runs, history>>

-----------------------------------------------------------------------------
(* Corpus.load: tasks.jsonl, then chunks.jsonl; a file that is not there is  *)
(* an empty one, a line that does not parse raises.  splitlines also splits  *)
(* at separators such as U+2028 and U+0085, which the importer writes as     *)
(* they are, so a chunk with one of them in its code cannot be loaded.       *)
Lines(file) == IF file = None THEN <<>> ELSE file

LoadTasks ==
  /\ reader.pc # "chunks"
  /\ reader' = IF tasks_file = Torn THEN [NoCorpus EXCEPT !.pc = "raised"]
               ELSE [pc |-> "chunks", tasks |-> ToSet(Lines(tasks_file)), chunks |-> <<>>,
                     quiet |-> complete]
  /\ UNCHANGED <<wiki, edits, pc, import, files, runs, kills, history>>

LoadChunks ==
  /\ reader.pc = "chunks"
  /\ reader' = IF chunks_file = Torn
                  \/ \E i \in DOMAIN Lines(chunks_file) : chunks_file[i].code \in Splitting
               THEN [NoCorpus EXCEPT !.pc = "raised"]
               ELSE [reader EXCEPT !.pc = "loaded", !.chunks = Lines(chunks_file)]
  /\ UNCHANGED <<wiki, edits, pc, import, files, runs, kills, history>>

(* The queries of rosetta-query; without a language, None, chunks of all.    *)
ChunksForTask(t, language) ==
  Kept(reader.chunks,
       {i \in Places(t, reader.chunks) : language \in {None, reader.chunks[i].language}})

LanguagesForTask(t) == {c.language : c \in ToSet(ChunksForTask(t, None))}

(* Tasks by the number of their languages, as they were imported where that  *)
(* is the same.                                                              *)
TopTasks ==
  LET many(t) == Cardinality(LanguagesForTask(t))
  IN  InOrder(Tasks(reader.chunks),
              {p \in Title \X Title :
                 \/ many(p[1]) > many(p[2])
                 \/ /\ many(p[1]) = many(p[2])
                    /\ First(p[1], reader.chunks) < First(p[2], reader.chunks)})

Next == \/ \E t \in Title : Edit(t)
        \/ Begin \/ ListPage \/ ListFails \/ Fetch \/ Skip \/ Fetched \/ WriteFile \/ Kill
        \/ LoadTasks \/ LoadChunks

Spec == Init /\ [][Next]_vars
-----------------------------------------------------------------------------
(* Properties *)

(* Paging lists no title twice, and every title that was on the wiki         *)
(* throughout, whatever is created and deleted between two answers; with a   *)
(* limit, the first so many of them.                                         *)
ListingComplete ==
  pc = "fetch" =>
    /\ IsInjective(titles)
    /\ limit # 0 => Len(titles) <= limit
    /\ \A t \in present \ ToSet(titles) :
         limit # 0 /\ Len(titles) = limit /\ \A u \in ToSet(titles) : u < t

(* "skipping and logging failures": when an import writes, each listed title *)
(* was parsed once or failed, and the chunks are those of the pages parsed,  *)
(* each as it was at one moment, whatever failed or was edited in between.   *)
FailuresSkipped ==
  pc = "open_tasks" =>
    /\ IsInjective(concepts)
    /\ ToSet(titles) = ToSet(concepts) \cup failed
    /\ \A t \in ToSet(concepts) : \E text \in Texts :
         /\ <<t, text>> \in fetched
         /\ BridgeOf(t, chunks) = BridgeOf(t, ChunksOf(t, text))

(* A corpus loaded while no import writes, from what a complete import left, *)
(* has a task for every chunk, and its answers are those of the bridges:     *)
(* "it always reflects the chunks that were actually imported".  A task has  *)
(* the languages and the chunks of its bridge, in one language or in all,    *)
(* and none has more languages than those ranked before it.                  *)
CorpusMatchesBridges ==
  reader.pc = "loaded" /\ reader.quiet =>
    /\ Tasks(reader.chunks) \subseteq reader.tasks
    /\ bridges_file # None =>
         /\ {b.task : b \in ToSet(bridges_file)} = Tasks(reader.chunks)
         /\ \A b \in ToSet(bridges_file) :
              /\ LanguagesForTask(b.task) = b.languages
              /\ [i \in DOMAIN ChunksForTask(b.task, None) |->
                    ChunksForTask(b.task, None)[i].code] = b.chunk_ids
              /\ \A l \in Language : ChunksForTask(b.task, l) # <<>> <=> l \in b.languages
         /\ \A b, c \in ToSet(bridges_file), i, j \in DOMAIN TopTasks :
              TopTasks[i] = b.task /\ TopTasks[j] = c.task /\ i < j =>
                Cardinality(b.languages) >= Cardinality(c.languages)
=============================================================================
