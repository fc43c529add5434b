# Verification of fxh-nju

TLA+ models of the study assistant "福小禾" (Vue 3, FastAPI, LangGraph, PostgreSQL with pgvector),
the TLC runs that check them on small instances, and theorems about them that TLAPS checks for
every value of the constants. Paths below are relative to the root of the repository; the map in
`PROJECT.json` writes them below `src/`.

Contents: 1 the system, 2 the models, 3 the runs, 4 the proofs, 5 disagreements between
documents and code, 6 behaviour worth knowing, 7 what is not modelled, 8 what would come next.

## 1. The system

The browser (`apps/web`) talks to one FastAPI process (`apps/api`). Requests run on one event
loop, each with its own database session (`get_db` in `apps/api/database.py`); two requests
interleave at every `await`. Isolation between them is PostgreSQL's READ COMMITTED with the row
locks the code asks for. Work after a response (refreshing summary and memories) runs as a
background task with a session of its own; three workers are scripts that run beside the server:
verification delivery, notifications, synchronisation.

| component | state | operations | interacts with |
|---|---|---|---|
| conversation context (`services/memory/conversation.py`) | none: computes over `messages` | group turns, build the context | read by the chat request and the summary refresh |
| rolling summary (`services/memory/summarizer.py`) | `conversation_summaries`: text, cursor, revision | read, call the model, compare-and-swap | background task of an answered request |
| memory capture and store (`services/memory/maintenance.py`, `store.py`) | `user_memories` | check consent, extract, lock, merge, commit | the same background task; reads the preferences |
| extraction and sanitizing (`services/memory/extraction.py`, `security.py`) | none | sentences, local rules, filter on a model's candidates | called by the capture |
| memory routes and their view (`apps/api/routes/memories.py`, `MemorySettingsView.vue`) | `user_memories`; the list shown | list by pages, create, update, delete | race with captures and with their own answers |
| preferences (`apps/api/routes/preferences.py`) | one JSON document in `users.preferences` | replace, save one section | its flag governs capture and recall |
| chat stream (`apps/api/routes/chat.py`) | messages, event stream, queue, graph task | one request from the question to the last event | memories, agents, browser, background task |
| chat store and client (`apps/web/src/stores/chat.ts`, `api/client.ts`) | the open conversation, its messages | send, stop, retry, select | reads the event stream |
| accounts and sessions (`apps/api/routes/auth.py`) | `users`, `user_sessions`, links | register, login, logout, change password, revoke, link, switch | every other route asks it who calls |
| contacts and verification (`apps/api/routes/account.py`) | `user_contacts`, `verification_challenges` | request a code, verify, choose the primary, deliver, receipts | delivery worker, provider |
| notifications (`apps/api/routes/notifications.py`) | `notifications` | enqueue, list, remind, post, read | worker, provider, feedback |
| feedback (`apps/api/routes/feedback.py`) | `feedback`, attachments | upload, reply | scanner, object store, notifications |
| friends (`apps/api/routes/friends.py`) | `user_friendships` | request, accept, remove | the same row from both sides |
| profile, reports, plans (`profile.py`, `planning.py`) | rows with versions and states | save, recommend, adopt, edit | reports depend on the profile's version |
| records (`account.py`, `planning.py`, `knowledge.py`, `cache.py`) | one row per key | upsert, delete | unique constraints only |
| synchronisation (`apps/api/routes/sync.py`) | `sync_records` | export, push, import | writes the tables of the two rows above |
| planning engines (`services/planning`) | none | choose classes, lay out courses, judge, recommend | plan routes |
| retrieval (`services/rag`), agents (`services/agent_runtime`) | stored chunks | cut, search, show, cite | external models |
| rate limiter, migrations, injection guard, other views, data scripts | small or none | | |

`PROJECT.json` lists every component with its files and its status.

**Where it is hard.**
1. *State read, then a long call, then a write*: the summary task reads row and messages, calls
   a model with no transaction open and writes; the capture does the same with the consent flag;
   a logout with the token column; an import with the rows it will overwrite.
2. *Whole-document writes*: every preference section is saved by writing the document loaded at
   the start of the request; two uploads rewrite one list, which its author wrote first.
3. *Two actors on one row*: captures and hand edits of one memory; requester and addressee of a
   friendship; two adoptions; a deletion and an update.
4. *Order by `created_at`*, which is set before the commit makes a message visible.
5. *Three ways for a request to stop* that race: result, time-out and disconnection; the browser
   has a timer of its own beside them.
6. *Post first, commit later*: both workers call a provider for a batch and commit once.
7. *Boundaries*: budgets and limits of context, batches, chunks, schedules and semesters.
8. *The same question answered in two places*: credits, sensitivity of a sentence.

The hazards in `PROJECT.json` give each its line and the property that guards it.

**What makes each component correct.**
Context: whole turns only, the newest ones, within the limits, and what leaves the window never
returns. Summary: each turn is raw, waiting or summarised, and summarised once. Capture: nothing
without consent, one row per key, no hand-written text lost, no deleted memory back. Extraction:
sentences are cut where they end, and two gates agree. Chat stream: one terminal event, an
honest final event, an end to every request. Browser: each answer under its own question, no
endless waiting, a list that shows what is stored. Sessions: ended is ended, and what nobody
ended lives. Contacts: a contact is verified by its own code, posts are bounded. Notifications:
accepted once unless an answer or a batch is lost, settled in the end. Friends: both agreed.
Feedback: rows have files, what uploads list has rows. Reports, plans, records, imports: nothing
is called fresh that is not, one plan is adopted, no row takes another's place, nothing comes in
twice, local data survive. Engines: a schedule called feasible is one and is found when there is
one; order of courses; one count of credits.

## 2. The models

| module | models | role |
|---|---|---|
| `Turns`, `TurnLoops` | context and summary batches: as sets, and as the loops of the code | the loops are compared with the sets |
| `RollingSummary` | a summary that changes by indivisible folds | abstract specification |
| `SummaryRefresh` | requests and refresh tasks on one conversation | implements `RollingSummary` |
| `MemoryCapture` | captures, hand edits, preference saves of one user | |
| `SseStream` | the promised event stream | abstract specification |
| `ChatStream` | generator, graph task, queue, client, clock of one request | implements `SseStream` |
| `ChatClient` | the browser's chat store and stream reader | reads what `SseStream` promises |
| `Sessions`, `Contacts`, `Friends` | accounts, contacts and codes, friendships | put together by `MCAccounts` |
| `Notifications`, `Feedback` | what leaves the system | put together with `ChatClient` by `MCEdges` |
| `Study`, `Records` | profile, reports, plans; rows kept one per key | |
| `Sync` | export, push, import | EXTENDS `Study` and `Records`: imports run beside their handlers |
| `Planning`, `Extraction`, `Retrieval` | engines, extraction, retrieval: one request and its answer | compared with definitions of their own |
| `MemorySettings` | the list of memories in the browser and the rows on the server | put together with these by `MCAlgorithms` |
| `NoValue`, `Ranking` | the value that stands for null; sorted lists | used by the others |
| `MC*` | finite constants for TLC, and which machine a behaviour is about | |
| `*Proofs` | theorems about the module they extend | |

Names ending in `_Something` (`SwapSummary_NoRevisionCheck`, ...), placed just before the
definition they vary, are that definition with a plausible mistake in it. No specification uses
them. For each property of a passing run `PROJECT.json` names one that breaks it.

**Machines that share no state.** `MCAccounts`, `MCEdges`, `MCStudy` and `MCAlgorithms` hold
several machines that write no common row. Exploring all interleavings of two such machines says
nothing that exploring each does not, so a variable `part`, chosen at the start, says which one
a behaviour is about; the others stand still. Machines that do meet are composed properly:
`SummaryRefresh` has the chat request and the background task, `MemoryCapture` the captures,
edits and saves, `Sync` the imports beside the handlers of `Study` and `Records`.

**A handler in two steps.** A route loads what it needs, awaits something and commits. Where the
awaits matter it is two actions: the first puts what was read into the slot of the request
(`request[r]`, `handling[h]`, `call[k]`, `flight[h]`, `pending[s]`, `importing[d]`), the second
takes it from there and writes. A write is what SQLAlchemy sends: the columns the handler
changed, computed from what it had read, for the row with that id; an UPDATE that finds no row,
and an INSERT that meets a unique key, fail and change nothing.

### Context (`Turns`, `TurnLoops`)

A message is a role and a length. `Turns` says that a turn is the user messages before an answer
together with it (`TurnOf`), that the window is the pending messages and the longest suffix of
at most `RecentTurnLimit` turns that fits `CharacterBudget` (`KeptEnds`, `Window`), and that the
rest are candidates. `TurnLoops` follows the loops as folds: `AddToTurns` is the body of the
loop of `group_turns`, `KeepTurn` that of `assemble_conversation_context`, `TakeTurn` that of
the batch builder; `Halve` is one pass of the binary search of the clipping (`SearchLimit`). The
JSON around a batch is three constants (envelope, wrapping of a message, truncation marker).
`Receive` grows a conversation message by message, so that every conversation of the bounded
length is a state.

### Rolling summary (`SummaryRefresh`)

`log` has the messages in `created_at` order with what each session sees of them (`flushed`,
`committed`, `gone`); `pc[r]` follows request `r` and then its background task; `task[r]` is
what the task read; `revision`, `cursor` are the row's columns. What the model wrote is
abstracted to `content[i]`: how many times message `i` is accounted for in the text.
`ReadSnapshot` is the read with the trigger check and the choice of the batch; any non-empty
prefix of turns may be the batch, because its length depends on the previous text (`TurnLoops`
has the choice itself). `SwapSummary` is the compare-and-swap with the cursor's foreign key,
`AbandonRefresh` every other way the task ends, `DeleteMessage` a deletion with `ON DELETE SET
NULL`.

### Memories and consent (`MemoryCapture`, `Extraction`)

`rows` are the committed memories; `capture[t]` is a task with its candidates, the rows its
transaction wrote (`staged`) and those it locked (`held`). `CheckConsent`, `Extract`,
`LockUser`, `Merge` (one candidate), `CommitCapture` are `_refresh_memory_state` and
`upsert_memory_candidates` in order; `AbandonCapture` is any failure or the time limit.
`StartUpdate`/`FinishUpdate` hold a row locked across the embedding call, as the route does.
`StartSave`/`CommitSave` are a preferences request: the document is the one loaded with the
user, and is written as a whole when it differs. `Similar` is any relation on texts: a cosine
above a threshold (`store.py:150`) is not transitive, so nothing of the kind is assumed, and the
run has a text similar to two that are not similar to each other. `byHand`, in the row, and
`merged`, the texts of the candidates a task has merged, are history. A row lock makes others
wait (a guard), and the waiter sees the row as it is then.

`Extraction` has the other half. A text is a sequence of kinds of characters; whether a full
stop belongs to a number, a host name or an address is part of its kind. `Scan` is the loop of
`_source_sentences`, `SentencesAreCuts` compares it with a definition of where sentences end. A
sentence inside a message is what the patterns say of it (asks to remember or to forget,
sensitivity, kind, category, length); `DeterministicCandidates` and
`ValidateAndFilterCandidates` are the two gates.

### Chat request and browser (`ChatStream`, `ChatClient`)

`pc` is the generator's place between two awaits or yields, `graph` the task that runs the
agents, `queue` the asyncio queue between them, `sent` the yielded events. `TimeOutGraph` is
`asyncio.wait_for` at its limit. `Disconnect` and `Abandon` are separate because the server
notices a lost client later; a cancelled generator passes every `except Exception` and runs only
the inner `finally` (`CancelGraph`, `Close`). `FailCommit` leaves open whether the database
committed. `clock` advances only in the two waits that have a limit. `StreamState` maps the
generator to `SseStream`.

`ChatClient` numbers the questions. `streams[n]` is the request of question `n`: open, answered,
failed, closed. `FinalEvent`, `ErrorEvent`, `ServerCloses`, `ConnectionBreaks`, `Timeout` are
what `sendMessage` reports; `Cancel`, `NewChat`, `Retry`, `OpenConversation`, `MessagesLoaded`
are the store. Late events of an older stream reach the store, as they do in the code.
`disturbed` is history: whether another conversation was loaded, or the store lost track of the
answer under way, since a question was sent.

`MemorySettings` gives every request two moments, `Serve*` on the server and `*Arrives` or
`*Fails` in the view, with the request number that makes a late page count for nothing
(`IsCurrent`). `Page` is the cursor query; `Listed` puts a set in an order, `RowsWithout` is the
filter that drops a row.

### Accounts (`Sessions`, `Contacts`, `Friends`)

`users` has the token column, the password and its history, `sessions` the rows by token. A
token is accepted through either (`Accepted`, as `get_current_user` does). Login, logout, change
of password, linking and switching are two actions each; revocation, unlinking and registration,
which do not await between reading and writing anything another request may change, are one.
`alive` and `ended` are history.

`Contacts` follows one user's contacts of one type. The choice of the primary one is
`StartPrimary`, which reads the rows, and `FinishPrimary`, which writes the columns that
changed. A code is a number, in the order of posting; `posted` remembers for whom and for what.
`RequestCode` posts and `CommitCode` stores, after consuming older challenges; `StartVerify`
checks a code against the row and `FinishVerify` writes attempt and verification; `WakeWorker`,
`RetryDelivery` and `CommitDeliveries` are the worker's one transaction over a batch,
`CrashWorker` its end before the commit; `Receipt` is the provider's callback. `Minute` is the
clock that cooldown and lifetime are measured by.

`Friends` has one row per ordered pair. Its rows are numbered, so that a request withdrawn and
sent again is another row, and an acceptance in flight names the one that was read.

### Notifications and feedback

In `Notifications`, `StartList`/`FinishList` are the list request with the reminder it makes up
for, `StartScan`, `FinishScan`, `PostNext`, `FinishBatch` one round of the worker, `CrashWorker`
its end, `Minute` the time of day; the back-off is the minutes that are left of it. What the
provider does and what the worker sees are two things (`Outcome`): a post is accepted and its
answer seen, accepted and its answer lost, late or an error (counted in the history `unheard`),
or refused. The worker takes the last two for a failure and tries again. `AdminReply` is the
reply to a feedback that enqueues a notice in the same commit. `Feedback`: the list starts with
the names the client sent, of which only the number matters, because they identify no row. An
upload counts the attachments once, saves file after file in the object store, and commits rows
and list at the end, or stops on the way and leaves what it stored. Its entries in the list have
the names of its files, but no ids: those are given at the flush, after the entries are made.

### Study, records, synchronisation

`Study`: profiles by `updated_at`, reports with the version and (as history) the content of the
profile they come from, plans with their state. Saving a profile marks reports stale by a bulk
update; adopting archives the others by one, whose row locks (`holds`) make the next wait until
the commit. `overlooked` and `overlaps` are history that says which reports no bulk update could
see and how many adoptions overlapped. `Records` has one key of each of eight tables and says
what two handlers on one key do to each other. `Sync` adds snapshots that left the server
(`copies`), imports in flight with everything they read, and the checkpoints. `FinishImport` is
the whole commit: profile, plans, reports, favourites, records, preferences, checkpoints, or
nothing (`Refused`).

### Engines and retrieval (`Planning`, `Retrieval`)

A behaviour is one request and its answer. `BuildScheduleOptions`, `AutoSelectSchedule`,
`GeneratePlan`, `EvaluateProgramEligibility`, `Recommend` are the functions of
`services/planning` with what their routes add. `SplitText` and `HybridSearch`, `BuildContext`,
`PolicyAnswer` are `services/rag` and the policy agent. Texts are lengths, words are sets of the
answers that matter, similarities are numbers and may be negative, as the cosine can. The label
before a chunk has the length of its number and of its own title (`Prefix`). Which of equally
near chunks, and which of too many chunks that match by words, the database returns is free
(`VectorMatches`, `TextMatches`). A list the code sorts by a key is a ranking: `Ranked` puts
each element at the place given by how many come before it.

## 3. The runs

✗ marks the runs that show a disagreement (section 5).

| run | instance | shows |
|---|---|---|
| `algorithms` | conversations of up to 6 messages of length 1 or 6, budget 13, 2 turns; all schedules of 3 courses with up to 2 of 5 times each; 128 course plans with 16 profiles; up to 3 records; 4 programs; texts of up to 6 characters; messages of up to 2 sentences; documents of up to 2 paragraphs of 3 sentences; 5 chunks with titles of different lengths and a pool of 4; 2 memories in 2 categories, pages of 1 row, 3 writes, 3 reads | `WindowAgrees`: loops and sets agree. `LeavesForGood`: a turn that left the window stays out. `BatchIsFull`: a batch is never empty, fits, and wastes nothing. `FeasibleIffPossible`, `OrderKept`, `CreditsAgree`, `FreedomNeverHurts`: the engines. `SentencesAreCuts`, `GatesAgree`: the extraction. `ChunksKeepText`, `FoundUnlessCrowded`, `ShownFillsBudget`: retrieval. `ShownIsStored`: the list of memories shows the server's rows in whatever order answers come |
| `summary_serial` | 4 requests, one at a time, 8 messages | `NothingForgotten`: every message of a complete turn is raw, waiting or summarised; `SummarisedLeftWindow`: none is both |
| `summary_concurrent` | 3 overlapping requests, 6 messages, 1 deletion | `FoldedOnce`: once, and once more per lost cursor; `RollingSpec`: the tasks implement indivisible folds |
| `capture_consent` | 2 captures, 2 savers, 1 editor, 3 saves, 1 row | `CaptureNeedsConsent`; under fairness `SaveEnds` |
| `capture_merge` | 2 captures of up to 2 candidates, 1 editor, 2 rows, 2 categories, 3 texts of which one is similar to two that are not similar to each other | `KeysUnique`, `ManualTextKept`, `NoResurrection` |
| `capture_off` ✗ | 1 capture, 2 savers | `OffMeansOff` fails |
| `stream_request` | answers of up to 3 fragments and 2 citations, limits of 1 and 2 ticks | `AnswerAccounted`: the final event and the scheduled refresh agree with what is stored; `SseSpec`; under fairness `StreamEnds` |
| `accounts` | 2 users, 2 passwords, 3 tokens, 2 requests in flight; 2 contacts, 2 challenges, 3 codes, 3 minutes, 2 deliveries and 2 tries, 1 crash; 4 rows of friendships | `EndedStaysEnded`, `LiveStaysLive`, `VerifiedByOwnCode`, `PostsBounded`, `FriendsAgreed` |
| `edges` | 2 notices with 2 posts each and three outcomes of a post, days of 2 minutes, 1 crash; 2 uploads, 2 attachments, 4 files with 2 names, 0 to 2 names of the client's; 3 questions, 2 conversations opened | `AcceptedOnce`, `AttachmentsBacked`, `AnswersOwnQuestion`; under fairness `ExternalSettles`, `StreamingEnds` |
| `study` | 5 requests with 2 handlers; 3 writes with 2 slots; imports from 2 devices with 2 request ids and 1 snapshot kept, beside 1 handler and 1 slot (4 requests that ask for all scopes, or 3 that ask for some) | `FreshReports`, `OneAdopted`, `ImportedOnce`, `RowsKeepIdentity`, `LocalKept` |
| `sync_retry` ✗ | the same | `AdvancesOnce` fails |
| `plan_load` ✗ | the same as `algorithms` | `LoadKept` fails |

**Exceptions inside properties.** Several properties say "once, and once more for each ...": a
lost cursor (`FoldedOnce`), a post whose answer was lost (`AcceptedOnce`), a batch whose commit
was lost (`AcceptedOnce`, `PostsBounded`), adoptions or imports in flight together
(`OneAdopted`, `ImportedOnce`). That is what the code gives; the counters on the right are
history variables that count exactly those events, and the runs reach states with the counter at
0 and above. `FreshReports` leaves out reports a bulk update cannot see, `AnswersOwnQuestion`
answers during which the user opened another conversation, `ShownIsStored` rows of writes whose
answer was lost: section 6 says what happens to them.

**Why these bounds.** Six messages are three full turns with a limit of two: one in and one out
of the window, plus pending or orphaned messages around them; lengths 1 and 6 with budget 13
make a turn fit exactly, miss by one, and exceed the budget alone. In `summary_serial` the
trigger is exactly the text of one turn, so that it is met at its boundary; in
`summary_concurrent` three tasks can hold snapshots of two revisions at once, and a deletion can
hit the cursor before, between and after them. In the capture runs a save can fall on each side
of both checks of the flag while another save holds an older document; two rows are enough for a
candidate to hit a row by key, another by similarity, and neither. Three tokens are one that is
ended, one that replaces it and one of the other user or of a login that was in flight. Three
codes are a first, its replacement by the worker and one of another challenge. Two notices with
two posts let one be given up while the other is in its back-off, and one be accepted twice
because the first answer was lost. Two files can share a name or differ in it. Three questions
are an answer, its retry and the next question. Five requests of `Study` are a profile, a report
and a change of the profile with two left to race. Three writes are an insert, a deletion and
the update in flight. Imports beside a handler are kept to four requests because the state of an
import holds all the rows it read; four are a local change, an export's source, and two imports.
Five chunks are one more than the pool of 2 * `top_k` nearest, two of them equally near, so that
the choice among equals and the crowding out happen. The five class times of `Planning` are two
that touch, one over both, one on two days, and one that ends before it starts.

**Deadlock** is not checked (`CHECK_DEADLOCK FALSE`) where the modelled requests, tasks and
writes are finite and may all be done; liveness is stated instead.

**Fairness.** `ChatStream!FairSpec`: the generator's next step (the event loop runs what is
ready; a database or embedding call answers or raises), `Tick` and `TimeOutGraph` (timers fire),
`Cleanup` (an abandoned generator is finalised). The graph owes nothing: it may hang; the client
need not disconnect. `MemoryCapture!FairSpec`: a capture goes on or is abandoned
(`memory_background_timeout_seconds` bounds it), an edit that locked a row ends, PostgreSQL
grants a free lock to a save that waits. `MCEdges!Spec`: the clock goes on and the notification
worker's loop (`scripts/notification_worker.py`) takes its next step, with nothing said of what
the provider answers; the browser's timer of `CLIENT_STREAM_TIMEOUT_MS` fires on a request that
has not ended, with nothing said of the server. No user is obliged to do anything. All of it is
weak fairness: no modelled wait is interrupted for ever.

## 4. The proofs

For every value of the constants, from the assumptions on constants that the modules state
(`TurnsAssumption`, `LoopsAssumption`, `SummaryAssumption`, `CaptureAssumption`,
`StreamAssumption`, `SessionAssumption`, `ContactAssumption`, `FriendAssumption`,
`FeedbackAssumption`, `NotificationAssumption`, `SettingsAssumption`, `RecordsAssumption`,
`StudyAssumption`, `SyncAssumption`, `RetrievalAssumption`, `ExtractionAssumption`,
`PlanningAssumption`; TLC evaluates them on the runs). They say that bounds are natural numbers,
that null is none of the values it is mixed with, and which types the rows and inputs of the
algorithms have. Each proof module states an inductive invariant, proves it preserved action by
action, and concludes what a reader wants to know.

* **`SummaryRefreshProofs`**: `TypeCorrect`, `SummaryInvariant`, `FoldedAtMostOnce`,
  `ImplementsRollingSummary`. `FoldedOnce` alone is not inductive: a swap adds a batch to a
  text, so one must know that the text is the current one and that the batch is not in it.
  `SummaryInv` adds both: a message beyond the cursor is accounted for at most `lostCursors`
  times, and a task whose revision is still current holds the current text and a batch beyond
  the current cursor. The second part survives a lost cursor, because the cursor then only goes
  back. Refinement: `SwapSummary` is a fold, `DeleteMessage` a lost cursor or nothing, all else
  a stutter. The other two are about one conversation whose requests come one by one and that
  nobody deletes from (`OneByOne`, as in the run `summary_serial`; with requests that overlap
  they are false, section 6). `NoTurnForgotten`: a complete turn that is neither in the window
  nor in the summary is one the next refresh reads. `SummarisedOutOfWindow`: what the summary
  stands for is not among the raw messages as well. They rest on `TurnsProofs`. `TalkInv` says
  that answers stand right behind their questions; `FoldInv` that the cursor stands at the end
  of a turn that left the window, that the text stands exactly for the turns up to it, and that
  a batch whose revision is still current is exactly the turns from the cursor to its end
  (`SerialInvariant`).
* **`TurnsProofs`**: lemmas about `Turns` that two other modules need. Turns do not overlap
  (`TurnsApart`), what is older than a turn that left the window left it too (`DroppedBefore`),
  a conversation that grows at its end never takes a turn back (`DroppedStays`), and the
  candidates after a cursor are whole turns (`CandidateTurns`).
* **`MemoryCaptureProofs`**: `LockKeepsConsent` is inductive with the types: a save writes only
  while nobody holds the user's row. `CapturesOnlyWithConsent` follows. `KeysUnique` is not
  inductive, since a commit replaces rows by what was staged some time ago. `StagingInv` adds
  what the locks give: staged rows that exist are held, no editor has a held row, the rows a
  transaction sees have distinct keys, and each key is made of its row's category and either a
  slug or the row's own id. From it `DistinctCanonicalKeys`, `KeysNameCategories` and
  `DeletedStaysDeleted`. `HandTextsKept` takes one more invariant (`TextsInv`): what a capture
  is about to write over a hand-written text is reached from it in similar steps, each to the
  text of a candidate it has merged (`LeadsTo`). Two candidates of one extraction can therefore
  lead a text in two steps to one that is not similar to it; that is what the code gives, since
  similarity is not transitive, and no more is claimed.
* **`ChatStreamProofs`**: `StreamInvariant` relates the generator's place with the terminal
  events, the graph and the stored answer; from it `FinalTellsOfStoredAnswer`,
  `NoGraphOutlivesRequest` and `ImplementsSseStream`. The part about the queue (a result or
  error is put only by a task that has ended) is what makes the graph end before the answer is
  stored.
* **`AccountsProofs`**, three machines. Sessions: `EndedForGood` and `AliveAccepted`: neither is
  inductive, because a commit writes what was read before. The invariant says who owns what:
  tokens are numbered as they are issued, every token has a session of its user, a column holds
  a token of its own user, and for each kind of request in flight how what it loaded relates to
  the rows now. The two arguments that carry it: a logout that saw another token in the column
  will not find its own there later, because tokens never come back; a change of password
  revokes every session it saw that is not revoked already. Friends: `FriendshipsAgreed`: an
  acceptance in flight names a row that was agreed to, and a row that was withdrawn and sent
  again has another number. Contacts: `VerifiedOnlyByOwnCode` and `ChallengesPostedBounded`. The
  invariant follows a code through every place it passes: the row a handler is about to commit,
  the stored row, the attempts in the worker's batch, the attempt to verify in flight. Ids are
  never used again, so a row the worker looked up cannot come back as another one. A challenge's
  posts are its counted deliveries, the one in the batch, and one for each lost batch at most.
* **`EdgesProofs`**, four machines. `AttachmentsAreBacked`: an upload in flight has its files in
  the store, no two uploads have the same file, and the list it loaded has no more entries of a
  name than there are rows of it; rows are never removed, so that still holds when it commits.
  `AcceptedOnceAlways`: a notice that may still be posted was accepted only by posts whose
  answer was lost and by batches whose commit was lost (`OnlyByLost`), so one more post stays
  within the first bound; its posts are its counted retries, the one in the batch, and one for
  each lost batch at most, which gives the second; `BatchOK` says what the worker holds of each
  notice in its batch, whose rows may be read and marked meanwhile. `AnswersOwnQuestionAlways`:
  an answer under way that nothing disturbed is the only open one, and its question is the last
  entry of the list (`OwnQuestionLast`), so the final event can only be appended below it.
  `ShownIsStoredAlways`: the answer under way must fit the rows shown now although both may be
  older than the store. `Sure` are the memories whose row must be right: all but those of writes
  that failed for the view, the one a save just wrote and the one a deletion just removed. For
  these the rows are what is stored down to the cursor (`RowsInv`), and the answer that may
  still arrive has what is stored from the cursor to its own end and no row twice (`PageFits`).
  Any write gives a stamp later than every cursor, or removes the row, so it disturbs neither
  (`ListsLater`, `BelowLater`). When a deletion arrives, a further page under way starts below
  the deleted row, which is still shown, and cannot bring it back; a list asked for again can
  (`DeleteInv`).
* **`SyncProofs`**: one account. `RowsKeptApart`: a request that leaves a program has found its
  row, and every commit keeps the identity of the rows it touches (`Kept`), one lemma per form
  of write. `StudySafe`: `FreshReports` is inductive with the shapes of the rows; `OneAdopted`
  is not, because an adoption archives the plans it locked when it read. `AdoptInv` adds that
  the adopted plans no adoption in flight has locked, but for the one it chose, are at most as
  many as the adoptions that overlapped another, so its own makes one more at most.
  `SyncInvariant` is the conjunction of both with what an import knows: a fingerprint that an
  import in flight has not read is carried by at most as many rows as imports crossed another
  (`OnceInv`). From it `ImportedOnceAlways`, `StudySafeUnderSync`, `IdentityUnderSync`; the step
  lemmas of the handlers are used twice, for the handlers alone and beside imports.
  `LocalKeptAlways`: such an import updates nothing, and a row it adds has a new id or is
  refused by its unique key together with the whole commit.
* **`AlgorithmProofs`**: what `TurnLoops`, `Retrieval`, `Extraction` and `Planning` compute, for
  every input of the types assumed and not only for the small sets of the run. The loops are
  folds of the library, and a fold is defined by a function chosen to satisfy a recursive
  equation. `FoldTable` shows, by the least number for which there is none, that such a function
  exists for the numbers up to `n`; `FoldWalk` reads it as a walk: `F[0]` is what the loop
  starts with and `F[k]` what it has after `k` elements. Each loop has a lemma (`ShownSteps`,
  `ParagraphSteps`, `AcceptedSteps`, ...) that gives its walk, and `UpTo` carries what is
  claimed along it. `RankedAll`: in a strict total order every element of a finite set is at
  exactly one place of the ranking, behind those before it. `ChunksKeepTextAlways`: `Holds(acc,
  sentences)` says that the pieces made so far, and the one being filled, have exactly these
  sentences in order, and that a piece that is too long is a single sentence; both loops keep it
  (`SentenceAdded`, `ParagraphAdded`), and it needs that a sentence is not empty.
  `FoundUnlessCrowdedAlways`: a chunk that matches and is not listed has `top_k` before it
  (`SearchFinds`); one that is not among the nearest has the whole pool as near as itself.
  `ShownFillsBudgetAlways`: `Filled` relates the context to the first `k` chunks: shown is a
  beginning, its cost is what was counted, with the label of each chunk as long as its title
  makes it, and the first chunk left out has no room behind its own label. `GatesAgreeAlways`:
  what the local loop takes are sentences the filter accepts (`LocalOnesTaken`, `GatesMeet`),
  and a filter that accepts everything returns its input (`AcceptedOnes`).
  `SentencesAreCutsAlways`: after `k` characters the sentences made so far are the pieces
  between the cuts before the start of the next one, and no mark that ends a sentence is left
  behind (`ScannedTo`); from there to the end of the next marks is one piece and no other ends
  there (`NextPiece`, `CutAfter`). `OrderKeptAlways`: an item is in the semester wanted for its
  course or the next, so two courses that are wanted in different semesters can at most meet
  (`PlanFollows`). `CreditsAgreeAlways`: along the records what is counted once stays at most
  what is shown, and equal while no course has come twice (`CountedOnce`).
  `FreedomNeverHurtsAlways`: the filter and each part of the score are monotone in the freedom
  (`FreerScores`), and every program that passes is recommended (`RecommendedPass`).
  `FeasibleIffPossibleAlways`: a list sorted by keys that tell its elements apart has all of
  them, the one with the smallest key first (`SortedAll`); the search goes through the choices
  in the order of the places of their classes and the choices are the ways to take every course
  (`ChoicesAreWays`, `VisitedSome`); the first choice has the fewest conflicts
  (`FewestConflicts`), and a choice has none exactly when its classes share no hour
  (`ConflictsMeet`). It assumes that no two classes have one id, which the catalogue enforces
  (`apps/api/models.py:435`), and a limit of at least one combination. `LeavesForGoodAlways` is
  `DroppedStays` for a conversation whose messages are numbered in order. `WindowAgreesAlways`:
  after `k` messages the turns made so far are exactly the turns that ended (`TurnList`,
  `GroupedOneMore`), and their characters are those of the set (`ListText`); along the newest
  first loop, what is kept are the newest turns, and it stops at the first that is not kept by
  `Turns` either (`KeptOneMore`), so that both end with the same window (`LoopKeepsWindow`).
  `SearchResult`: the binary search returns its default or a number that fits, and the largest
  one when all numbers below one that fits do. `BatchIsFullAlways`: the candidates are complete
  turns, so grouping them again loses nothing (`TurnsUnbroken`, `UnbrokenParts`); along the
  loop, what is taken are the first turns as long as they fit (`TakenAt`); a first turn that is
  too long is cut at the largest limit that fits, since a larger limit never makes it shorter
  (`ClipFits`).

Type correctness is a theorem of its own for `SummaryRefresh`, `MemoryCapture`, `ChatStream`,
`Sessions`, `Contacts`, `Friends`, `Feedback` and `Records`; elsewhere the inductive invariants
have the shapes their argument needs (`NoticeTypes`, `ChatTypes`, `ViewOK`, `StoreOK`).

**Model-checked only**: the liveness properties (`SaveEnds`, `StreamEnds`, `ExternalSettles`,
`StreamingEnds`), since neither fairness nor ENABLED can be reasoned about with these provers.

## 5. Disagreements between documents and code

1. `capture_off`: a save of another preference section that overlaps switching memories off
   switches them on again (`apps/api/routes/preferences.py:90`). The design
   (`docs/superpowers/specs/2026-09-13-conversation-and-long-term-memory-design.md:139`) says
   that extraction stops when it is switched off.
2. `sync_retry`: only the last request id of a scope is remembered
   (`apps/api/routes/sync.py:88`), so a request repeated after another one, or while its first
   try has not committed, advances the version again; `docs/backend-gap-checklist.md:177` says
   that it does not.
3. `plan_load`: a course that would overload its semester is moved one semester on, where the
   load is not looked at (`services/planning/course_planner.py:99`); the comment on the same
   lines promises at most eight credits a semester.

## 6. Behaviour worth knowing

Met while modelling. The models have these behaviours unless noted; no run fails on them,
because the properties are stated so that they are allowed, or because no document says
otherwise.

* *Context.* The pending questions are never truncated, so a context can exceed its budget
  (`services/memory/conversation.py:80`). With two requests on one conversation the first answer
  closes the turns of both questions (`:50`); the second can leave the window while it is being
  answered. Messages order by `created_at`, so an answer that commits late can land before a
  cursor that passed it (`:143`), and is then never summarised.
* *Memories.* A candidate whose key exists overwrites that row without being compared with the
  others of its category (`services/memory/store.py:136`), so two rows may say the same. An
  exception in the summary refresh ends the capture of the same answer (`maintenance.py:49`).
* *Chat.* The response limit covers the graph, not the retrieval of memories before it
  (`apps/api/routes/chat.py:129`). The preferences that decide about recall are those of the
  start of the request (`:318`). An error event can follow a stored answer when the final event
  cannot be serialised.
* *Browser.* The store learns a conversation's id from the final event: if the first message
  fails, the next begins another conversation (`stores/chat.ts:74`). After opening another
  conversation, an answer that still streams is added to the list shown now. A connection that
  breaks after the final event ends the waiting for the *next* answer. The memory view shows a
  row whose deletion was under way when the list was loaded until the next load.
* *Sessions.* `get_current_user` accepts the token column without looking at the session's row
  (`auth.py:111`): an expired or revoked session whose token is still in the column is accepted.
* *Contacts.* Two contacts verified, or chosen, at the same time can both be primary
  (`account.py:482`, `:643`). From then on the lookups of a verification (`:480`) and of a
  password reset (`:543`, `:596`), which ask for at most one row, raise. Provider receipts
  overwrite the delivery status in the order they arrive (`:521`). `confirm_password_reset`
  checks its code and then uses a name the module does not import (`:587`), so it changes
  nothing.
* *Notifications.* A provider that accepts a notification but whose answer is lost, late or an
  error gets it again after the back-off, and nothing in the request tells it that it is the
  same attempt but the id (`notifications.py:119`). The list request and the worker each look
  for today's reminder before they insert one, so there can be two (`notifications.py:241`).
* *Feedback.* The list holds what the client sent (`feedback.py:155`), whether or not such files
  exist. The entries an upload adds are made before the rows have ids and are stored with the id
  `None` (`:367`), so that only their filenames lead to rows. Two uploads that overlap can
  exceed the limit (`:330`), and one loses its entries in the list, not its rows.
* *Profile and reports.* Deleting the profile and making a new one starts its version again, and
  neither a deletion, nor a first profile, nor an import (`sync.py:437`) marks reports stale.
* *Synchronisation.* `remote_wins` overwrites the preferences even of a duplicate request
  (`sync.py:592`). An account's own export, imported again after a plan changed, adds the old
  plan as a draft. The checkpoint's version is a read-modify-write and may lose an advance.
  `sync_worker` uses one session for all accounts.
* *Planning.* Classes of different terms conflict, slots without a length never do, and the
  search stops after a fixed number of combinations. Two classes that touch in an hour do not
  conflict: hours are half-open in the conflict check and in its tests
  (`tests/test_backend_contracts.py:1425`), while the seeded courses take over the number of the
  last hour, included (`scripts/seed_courses.py:43`; "10-11节" in
  `scripts/fetched/courses_campus4.json:106`), so two seeded classes that share only that hour
  are taken as compatible. The automatic choice sees the first 5000 classes.
* *Retrieval.* The pool of nearest chunks is taken before it is asked which may be served, so
  chunks that are not can crowd out those that are (`retrieval.py:94`); the policy agent cites
  chunks the context had no room for. Once a chunk does not fit behind its label, all later ones
  are left out, even one whose shorter title would leave it room (`retrieval.py:143`).
  `ChunksKeepText` is about the pieces as they are cut: the overlap that is put before each
  afterwards repeats the end of the piece before, lengthens the stored chunk, and is no part of
  the property. `hybrid_search` calls a blocking embedding request on the event loop (`:63`);
  `ChatStream` assumes that the loop runs.

## 7. Not modelled

* *Wording*: prompts, extraction patterns, scanning of URLs, addresses and credentials inside a
  text, ranking scores and embeddings. What they say is an input of the models.
* *Memories*: importance, confidence and sources of a row. The advisory lock per category: every
  capture of a user holds the user's row first. A scan of a category under READ COMMITTED may
  miss a row that an edit it waited for has just moved there; the model's scan sees rows as they
  are when it runs.
* *Accounts*: the marking of risky logins (`auth.py:61`), editing and deleting the account, the
  router and the auth store of the browser. The first looks only at earlier sessions and changes
  one flag; the others are one statement or presentation.
* *Documents*: activation and deletion of versions (`knowledge.py`); `Retrieval` takes any set
  of served chunks instead. The knowledge graph is a constant table.
* *`career_engine`*: a static score per job. *Exports* format what is stored and keep a history
  of themselves.
* *Rate limiter*: one list of times per address, read and changed without an await in between.
  *Migrations*: a list of statements run once at the start. *Injection guard*: text patterns;
  `ChatStream` takes either outcome. *Other views, data scripts, agents' prompts*: presentation,
  one-off imports, external models.
* *A crash of the server process*: background tasks are not persisted; one that dies is
  `AbandonRefresh` or `AbandonCapture`, a handler that dies never takes its second action. The
  workers, which post before they commit, crash explicitly.

## 8. What would come next

1. The type invariants of `Study`, `Sync` and `Notifications`.
2. An abstract specification of an idempotent import which `Sync` implements for requests that
   do not cross.
3. The activation of document versions beside `Retrieval`, and the risk marking beside
   `Sessions`.
4. One composition of `ChatStream`'s outcome, `SummaryRefresh` and `MemoryCapture` over one
   user, with the shared background task whose first half can end the second.
