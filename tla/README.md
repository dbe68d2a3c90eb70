# TLA+ models of Kemory Community

Kemory Community is a memory server for AI agents: agents write memories into
namespaces over HTTP or MCP, a browser extension pushes captured AI chats, and
background tasks enrich, compress, route and tag what was written. The server
is one asyncio process over PostgreSQL. Its handlers are short; what is hard is
that they read, await (a database, an encoder, an LLM) and then write, while
other requests and fire-and-forget tasks do the same to the same rows.

These modules model that: the control of the handlers and tasks, cut where
another one can come in between, over abstract data.

## Inventory

| Component | State | Operations | Talks to |
|---|---|---|---|
| Memory vault (`backend/services/memory_service.py`) | `kemory_memories` rows, vector rows | create (gate, matcher, two dedup layers, insert, schedule tasks), get, update, soft delete, search, list, summaries | matcher, gatekeeper, enrichment, pipeline, audit |
| Enrichment (`enrichment_service.py`) | status, quality score, metadata, embedding of a row | one memory, a batch of pending ones, in the background | vault |
| Compression pipeline (`compression_pipeline.py`, `plugins/cognition`) | debounce counters and locks in memory, `namespace_policies` row, concept rows | L2 stamp, L3 summary, session summaries, L3.1 concept | vault, LLM |
| Chat capture (`ai_chat_service.py`) | `kemory_ai_chats`, turns, artifacts, mappings | upsert, append, move, soft delete, mapping CRUD | matcher, router, tagger |
| Auto-router (`chat_classifier.py`) | the chat's namespace and metadata | background classification | chat capture |
| Segment tagger (`namespace_tag_service.py`) | tag profiles, the chat's tag | background resolution | chat capture |
| Namespace matcher (`namespace_matcher.py`) | policy descriptions | resolve, apply | vault, chats |
| Session digest (`session_digest_service.py`) | rolling digest and summaries per session | context, rehydrate, summary stage | vault, chats, LLM |
| Artifact store (`artifact_service.py`, `artifact_storage.py`, blob store) | artifact rows, bodies on disk, signed URLs | upload, read, delete | chats, vault |
| Gatekeeper, pairing (`gatekeeper_service.py`, `pair_service.py`) | permission rules, consents, pair codes | evaluate, rule CRUD, resolve, claim | every guarded operation |
| Audit (`audit_service.py`) | hash-chained log | append, verify | every request |
| Search (`kemory/search`) | none of its own; vector rows | hybrid and text search, aggregation | vault, vector store, LLM |
| Consolidation (`consolidation_service.py`, worker), compression cache, timeline | weights, statuses, policies; an entry per namespace; a client's cursor | decay, archive; cached read; page | vault, chats |
| Tag scripts (`scripts/*_namespace_tag*.py`) | the tags and namespaces of rows | backfill, promote | chats, vault, next to a running server |
| Library (`kemory/service`, `kemory/storage`, `kemory/consolidation`, `kemory/context`) | episodes, edges, indexes over SQLite or PostgreSQL, a cached context | remember, get, forget, link, resolve, prune, recall, consolidate | agents in process |
| Settings, tenancy, rate limits, transports, prompts, dashboard, launcher | see `PROJECT.json` | | |

The weightiest hazards of this code are listed, each at its line, under "hazards"
in `PROJECT.json`. They fall in six groups:

* **reads that are stale when they are used**: a row read before an await and
  written after it (versions, enrichment, router, tagger, pipeline sources);
* **check, then insert** where only a unique index stands between two requests
  (memory hashes, chats, turns, tag profiles);
* **tasks scheduled in memory**, before the commit they depend on, lost in a
  restart, debounced by counters that move on before the commit;
* **copies that must follow their original**: artifact namespaces, content
  hashes, embeddings, tags, search indexes, cached answers;
* **two stores and one request**: a body and its row, a row and its index, an
  edge and the episode it supersedes, with a crash in between;
* **reads of several statements**, each of which sees other commits: searches,
  timelines, preflights, digests.

## Modules

| Module | Models | Composes |
|---|---|---|
| `MemoryVault` | vault, enrichment and the L2 stamp, as transactions | |
| `KeyedStore` | what the memory table promises: unique keys, ids never reused | implemented by `MemoryVault` |
| `MemoryVaultProofs` | proofs about `MemoryVault` | |
| `ChatLifecycle` | one chat with its turns and artifacts, the router and the tagger | |
| `ChatLifecycleProofs` | proofs about `ChatLifecycle` | |
| `CompressionPipeline` | the L3 and L3.1 stages of the pipelines of one namespace | |
| `CompressionPipelineProofs` | proofs about `CompressionPipeline` | |
| `SessionContext` | the context of one session: rolling digest, rehydration, session summaries | |
| `SessionContextProofs` | proofs about `SessionContext` | |
| `ArtifactStore` | artifact rows, their bodies and their signed URLs | |
| `ArtifactStoreProofs` | proofs about `ArtifactStore` | |
| `AgentAccess` | permission rules, consents, pair codes | |
| `VaultReads` | namespace listing, hybrid and text search, aggregation | extends `AgentAccess` |
| `AuditTrail` | the hash-chained audit log | extends `AgentAccess` |
| `AgentGateway` | what stands between an agent and the vault | composes the three above over one set of rules and one clock |
| `AgentGatewayProofs` | proofs about `AgentGateway` and its parts | |
| `EpisodeStore` | what a storage backend of the library promises about an episode's lifetime | implemented by `LibraryVault` |
| `LibraryVault` | the embedded library on its two backends, its worker and its cached context | |
| `LibraryVaultProofs` | proofs about `LibraryVault` | |
| `NamespaceUpkeep` | consolidation passes, the compressed read and its cache, the timeline | |
| `SegmentScripts` | the two tag scripts against the running server | extends `NamespaceUpkeep` |
| `NamespaceUpkeepProofs` | proofs about `NamespaceUpkeep` and `SegmentScripts` | |
| `MC*` | constants, definitions of relations and symmetry for TLC | |

`PROJECT.json` maps every definition that models code to its lines.

### MemoryVault

`row` is the committed table. Each request and task (`tx`) is a PostgreSQL
transaction at READ COMMITTED: a SELECT reads `row`, a flush takes the row's
`lock` and puts the new version in `dirty`, where only its owner sees it, and
`Commit` publishes it. A flush on a row locked by another transaction waits: the
action is disabled. The partial unique index is `Clashes`: a write that collides
with an uncommitted row waits, one that collides with a committed row raises
(`IntegrityError`).

`create_memory` is `CreateStart` (gate and matcher), `CreateLookup` (exact
hash), `CreateSemantic` (stored embeddings), `CreateInsert` (insert, and the
two background tasks created at once) and `CreateRelookup` after a clash; a
dedup hit goes to `Bump`, which it shares with `get_memory`. `update_memory` is
`UpdateStart`, `UpdateCollide`, `UpdateWrite`; `delete_memory` `DeleteStart`,
`DeleteWrite`; a batch enrichment is `BatchStart`, then `BatchPick` and
`EnrichWrite` or `BatchFail` per row, all in one transaction. The ORM sends only
columns whose value changed from what it loaded, so a written row is the row as
it is now with those columns replaced: `UpdatedRow`, `BumpedRow`, `DeletedRow`.
Raw SQL statements (`EnrichedRow`, `L2Row`) merge metadata in the database.

Abstractions: contents stand for their hashes; `vec` and `qual` are the content
an embedding or a quality score was computed from; `Similar` and `Related` are
the outcome of the similarity scores; metadata is the set of keys the writers
own. Both dedup layers are enabled, as in the default settings. A 409 of the
matcher and a denial of the gatekeeper change nothing and are `RequestFails`.

### ChatLifecycle

One conversation: `chat` is its row, `turns` and `artNs` its turns and the
namespace copied to each artifact, `members` the tag profiles, `queued` the
tasks created and not yet started. A handler reads in its `...Start` action and
commits in its `...Write` action; the first write takes the chat row's lock and
everything after it happens under that lock, so one step is enough. `append_turns`
is the exception, it reads the turns before it locks anything: `AppendLookup`.
`Column` is the unit of work: a column whose assigned value equals the loaded
one is not in the UPDATE, so a concurrent change of it survives.

A push has one of three `Intents`: it names a namespace (as such, through a
mapping or by a project name), it carries only a `source_project_id` that no
mapping knows, or it says nothing. The last two derive the inbox; only the last
is not `Explicit` (`caller_was_explicit`), which is the subject of
`chat_snapback`. A handler keeps of the row it read only the columns it goes on
to use (`Read`). Every turn has a source id and one artifact.

### CompressionPipeline

Every memory has one pipeline, started by `Insert` before `Commit`. `holder` is
the asyncio lock of the namespace, `lastSum` and `lastSyn` the debounce
counters, `draft` the policy row as an open transaction has written it. A
summary is the set of memories it was generated from. Nothing is awaited between
the test of the lock and its acquisition, so `SumSkip` and `SumEnter` decide it
in one step. `SynUpdate` and `SynRetire` are one UPDATE statement: it takes its
snapshot, waits for rows other transactions have changed, and re-checks them.
The caps on the number of sources are not reached by the instances.

### SessionContext

Items of a session are numbered by their time; `Arrive` makes them visible in
any order, which is what concurrent commits do. The lists of exchanges that the
code keeps sorted by time are sets here, and an exchange's place in the list is
the number of exchanges before it (`Before`, `After`). A context request is
`CtxMemories`, `CtxChat`, `CtxRow` (three statements), `CtxGenerate` per batch
and `CtxCommit`; nothing locks the digest row, so two requests interleave at
every step. `Written` is the unit of work: only columns that changed since the
row was read are written. A text is a sequence of lines and a line is the set of
items it carries, so the two generators can be told apart by what they lose: the
LLM rewrites everything into one line, of which the fit to the budget may leave
only its marker, the extractive digest lists the batch and cuts at the budget.

The history variable `lossy` records the two ways in which a digest may stop
carrying what it counts. One is a cut at the budget, of either generator. The other was found in the
proof, as a step that did not go through: an LLM may answer with the very text
it was to bring up to date, the commit then writes the longer list of ids and
leaves the text column alone, and if a slower request has replaced the text
meanwhile, the row pairs its text with ids it does not carry.

`RehStart` and `RehLoad` are a rehydration; `SessRead`, `SessGates`, `SessWrite`,
`SessCommit` the session stage of a memory's pipeline, with its debounce counter.
`lastRead` records which memories the counter stands for. A slower run may set
the counter back, which only makes later runs less reluctant; a deletion makes
the count stand for fewer memories than it did, and `DebounceSkipsOnlySeen`
excepts it.

### ArtifactStore

`body` and `meta` are the two files of the local store, `row` the database row.
An upload is `UploadPut` (body stored, row flushed) and `UploadCommit`, or one of
its failures: `UploadRollback`, `UploadBadMetadata` (the chat route parses the
metadata after the body is stored), `UploadTorn` (a crash between the two files).
A delete removes the body in `DeleteStart` and the row in `DeleteCommit`; the
first may fail silently and the second may be rolled back. `parted` records the
artifacts one of these failures has touched: the properties say that nothing
else parts a body from its row.

### AgentAccess, VaultReads, AuditTrail, AgentGateway

A permission rule is what it matches: its scope string and its glob are sets.
`Evaluate` reads the rules once, in any order that respects priority, and
decides; counting the decision (`CountDecision`) and storing a consent request
(`LeaveConsent`) are later steps, since the counter has a transaction of its own
and the consent has that of the request. A resolution makes its answer when it reads and
flushes it later, without another look at the status; a claim of a pair code kept
in Redis loads and saves in two steps, and one kept in the process does both
without an await. What a second resolver or a second Redis claim does to the
first is only followed, since the code promises less than it should (see below).

`VaultReads` models a hybrid search as the four statements it is: `VectorHits`
from the vector store's own table, `DenseHydrate`, `DenseLegacy` and
`SparsePass`, which also merges, ranks and pages; or `EncodeFails`, after which
the dense pass has nothing, the legacy rows included. Embeddings of another
dimension (`Foreign`) are neither indexed nor compared. A text search is
`FtsCount` and `FtsPage`. Writers commit between any two of them. A list of results is the set of
its docs, each with the key it is sorted by, so that a doc's place is its `Rank`
and a page is a range of ranks. `seen` and `steady` record
which contents were there at some time, and which memories stayed, during the
search: the first is what may be answered, the second what must be; `blind` and
`cut` record that the dense or the sparse pass was left short. `Allowed` is
the second implementation of rule evaluation, inside `list_namespaces`.

`AuditTrail` takes the time, reads the predecessor and commits in three steps;
SHA-256 is taken as injective, so a hash is the sequence of what was hashed, which
is three columns of a row; the others are its `detail`. `rivals` records which
requests overlapped.

The three share the rules and the clock in `AgentGateway`. A behaviour is of one
workload (`load`): the parts do not write each other's state, so mixing them
would only multiply states.

### LibraryVault

All coroutines of a local backend share one SQLite connection. `db` is what the
connection sees, `saved` what is committed: any commit makes everybody's
statements durable, and `Stop`, which is a close or a crash, goes back to
`saved`. An insert commits its row, then each index entry; `resolve_conflict`
is two commits, in an order that depends on the backend; the worker stores its
reflection and marks the sources one by one; a prune commits only at its end.
A tracked read is up to four awaits, `GetTracked`, `PromoteRow`, `PromoteEdges`
and `AccessCommit`, so that another caller's commit can make half of it durable
and another access can overlap it. Recall is the set of possible results of
`SearchEpisodes`, with its over-fetch, its fallback, and searches that fail or
lack their extension. `StoreSpec` states that what is committed implements
`EpisodeStore`, through the mapping of rows to lifetimes and of callers to the
accesses under way: an access that read an episode as faded may bring it back
although it was forgotten since, and nothing else may. `VaultContext` takes a
session or none, a limit and a token budget, and all share one cached entry.

### NamespaceUpkeep

A consolidation pass is a transaction: `PassPage` picks any memories of the
size the query would return, since it has no ORDER BY, `PassWrite` updates them
one by one and locks them, an empty page commits, `PassPolicy` and `PassArchive`
are the second phase. The worker starts only where it finds a live memory that
is not a concept. `met` and `seen` count the decays of a pass and of all
committed ones, since pages without an order can show a memory twice. Two passes can wait for each other, and the database then
aborts one (`PassDeadlock`). The compressed read is one step when it is cached or
needs no LLM and two otherwise; the cache holds one entry per namespace, and
`edited` records which memories were ever updated. A
client walks the timeline with `WalkPage`, and `Retime` is a re-push that
changes the time of a chat and of the memories bridged from it.

### SegmentScripts

`BackfillChats`, `BackfillMems`, `BackfillPropose`, `BackfillApply` and
`PromoteStart`, `PromoteChats`, `PromoteMems`, `Preflight`, `PromoteApply` are the
statements of the scripts; the writes of each are one transaction. Requests and
tag tasks are single steps with their committed effects. `GroupItems` is
`group_items` as a fold.

## Runs

Every instance is small on purpose: each hazard needs two actors on one row, or
two rows and a crash, and both fit. The server may be idle, and a bounded supply
of ids runs out, so deadlock is not checked; the liveness properties say what
must not get stuck.

Bounds: `MaxVersion`, `MaxNow`, `MaxDay` stop updates and clocks; `MaxAccess` and
`MaxQueued` saturate; `MaxMembers` stops a profile from growing; `MaxWrites`,
`MaxEdits`, `MaxRequests`, `MaxFails` limit how often the environment acts; a
create is only accepted while an id is left. The constraint `TwoInFlight` of `chat`
keeps any two of its requests and tasks under way, of either kind, and no third. Thresholds and page sizes of the
code are constants that the runs scale down so that two or three rows cross
them; `comp_groq` uses the code's own L3 values.

Large modules take their workloads one at a time: `load`, `mix` and `Workloads`
choose at the start which callers a behaviour has. A mix holds every actor whose
steps can meet (context requests with arrivals, rehydrations with deletes, two
passes on one memory, two workers on one session), so no interleaving that
matters is cut away; what is left out is the product of parts that share no
state.

| Run | Bounds | Shows |
|---|---|---|
| `vault_core` | 2 requests, 2 ids, 2 namespaces, 2 contents | creates, updates, deletes, failures, crashes: one active memory per key, the inductive invariant, refinement of `KeyedStore`; dedup answers name committed memories, through redirects and the IntegrityError path |
| `vault_tasks` | 1 request, 2 tasks, 1 id, 2 contents, clock | enrichment and L2 stamp keep each other's metadata, nothing brings a deleted memory back |
| `vault_batch` | 2 requests, 2 ids | every request is answered, deadlock victims included (liveness) |
| `chat` | 2 requests, 2 workers (two at a time), 2 namespaces, 1 turn of 2 texts, failures and crashes | well-formed rows under upserts, appends, moves, deletes, router and tagger, through both refused inserts; only an append parts turns from the stored hash; a chat that left the inbox returns only by a request explicit for the code, a deleted one never |
| `chat_snapback` | 2 requests: upserts and moves | violation: a re-push with only a `source_project_id` snaps a moved chat back to the inbox |
| `comp` | 2 pipelines, deletes, failures, crashes | exact locks, L3.1 never downgraded, L3 never replaced by an older read, every pipeline ends (liveness) |
| `comp_groq` | 5 pipelines | violation: no L3 summary from five memories on |
| `session_ctx` | 3 turns, 2 memories (one bridged), 2 alike requests (symmetry), budgets 2 and 4 lines | the digest carries what it counts as compacted; each item is in the tail or the digest; rehydrations account for every source; the debounce drops nothing unseen; `_pair_chat_turns` against its meaning |
| `artifacts` | 3 artifacts of size 1 or 2, quota 3, 2 deleters, clock | bodies accounted for, quota held, live URLs stream, URLs of deleted artifacts do not |
| `access` | 2 rules of 5 bodies, 2 evaluations, 2 resolvers, 2 claimers; 3 memories (one of another dimension), 3 writes, 1 search; 3 audited requests | first match wins, listing agrees with the gatekeeper, counters exact, an in-process code claimed once, search and aggregation exact, the chain reports what the hash covers and nothing else without an overlap |
| `library` | 2 to 4 episodes, 2 callers, both backends; contexts hash 2 of up to 3 episodes | refinement of `EpisodeStore` under overlapping and half-committed accesses; recall follows rows through failing searches; superseded episodes linked; marks match reflections; cached contexts have what their hash covers |
| `upkeep` | 1 chat and 2 memories (one a concept), pages of 1, 2 passes, 2 readers, 1 walk; 2 chats and 2 memories for the scripts | decays accounted for over several pages, answers of the requested ids and contents, complete walks, retention enforced (liveness), unique hashes under promotion, settled tags |

The two violation runs state what a docstring or comment says and show that the
code breaks it: `_summarize_with_groq` uses a name its module never imports, so
namespaces of five memories or more get no L3 summary; and a push with only a
`source_project_id` counts as explicit but derives the inbox, so it takes a chat
back that the user has moved.

Reading the code for the models showed more places where a comment promises
more than the code keeps. They are in the models as the code has them, the
properties exempt them by name and say so, and none has a run of its own:

* vault: dedup matches the old content's embedding after an update, and expired
  memories; the L2 task is scheduled before the commit and may find nothing;
  version increments are lost; a content that was not enriched can be marked
  completed;
* chats: the router overwrites a move made since it read the chat; a push after
  a soft delete is refused for ever; artifacts are left behind by the router;
  tags are stamped twice;
* pipeline: two active concepts; stages that share one try block; the
  cumulative summary and `up_to_ts` can go back;
* artifacts: with `core_backend` keys and a local blob backend the signed URL
  is one the local store cannot serve (`artifact_storage.py:217`); pushes and chat
  deletes leave bodies behind;
* access: an approved consent is not consulted again; of two resolvers of one
  consent the last one's answer is stored; REST routes roll their consent request
  back; `memories.py:428` reads a field the evaluation does not have; a window that
  wraps midnight never matches; `mark_claimed` promises to flip a code "atomically"
  (`pair_service.py:155`), and with Redis grants it to every claim that loaded it
  before the first one saved;
* audit: concurrent requests break the chain of an untouched log; "any modification
  to a historical entry would break the chain" (`audit_service.py:117`), but outcome,
  details, namespace and agent are not hashed; `check_rate_limit` counts an action
  that is never logged (`audit_service.py:415`);
* search: vectors of deleted memories crowd out live ones; a query that cannot be
  encoded loses the whole dense pass; the aggregator counts items whose memory ids
  it never checks (`aggregator.py:250`);
* library: overlapping tracked reads revive a forgotten episode (`local.py:519`), and
  any commit makes half of a promotion durable; a cached context is not
  regenerated when an episode beyond the twenty newest changes, or for another
  token budget, and can then show another session's; a session can be reflected
  twice; `find_similar` of the platform returns invalid episodes; the text index is
  never backfilled;
* upkeep: a cached compressed answer keeps old contents after an update, although
  "any change to the namespace contents invalidates the entry" (`cache.py:8`,
  `memory_service.py:1682`); the worker archives exempt namespaces
  (`consolidation_service.py:135`) and never visits one that has only concepts left
  (`consolidation_loop.py:91`); pages of a decay have no order, so that a memory is
  met twice or never; a promotion overwrites a move, a retired tag profile is used
  as it is.

Fairness: a request, once accepted, runs to its end, because the event loop
resumes every task that can go on. `MemoryVault` assumes strong fairness of a
transaction's steps: a contended row lock is granted to its waiters in turn, so
a step that is enabled again and again is taken; and weak fairness of the
deadlock detector. `CompressionPipeline` needs weak fairness of each pipeline
only. `NamespaceUpkeep` assumes weak fairness of the worker's start, since its
loop runs a pass every interval whatever became of the last one, and of the
steps of a running pass; failures of passes are bounded by `MaxFails`. No client
is ever forced to send a request.

## Proofs

The theorems hold for every value of the constants that satisfies the named
assumption of each module (`VaultAssumption`, `ChatAssumption`,
`PipelineAssumption`, `SessionAssumption`, `ArtifactAssumption`,
`AccessAssumption`, `ReadsAssumption`, `AuditAssumption`, `LibraryAssumption`,
`UpkeepAssumption`, `SegmentAssumption`). They give types, say that the sets of
rows are finite and keep `None` apart from the other values. A theorem that
needs more states it as a hypothesis of its own, and the list below says why.

`MemoryVaultProofs`

* `VaultInvariant`: `Spec => []VaultInv`. `UniqueActiveHash` is not inductive,
  because a commit publishes `dirty` versions it says nothing about. `IndexInv`
  extends it to every pair of committed and uncommitted versions; `RowInv` says
  that a live row has its key; `NoRevival` that no uncommitted version of a
  deleted memory is live; `PhaseInv` that a handler about to write knows what
  it writes. One lemma covers a flush, one a release, one a commit; each action
  is a case of one of them. `TypeCorrect`, `ActiveHashesAreUnique` and
  `NothingIsRevived` follow.
* `MergedKeysSurvive`: the two writers of metadata, and the ORM's updates between
  them, lose each other's keys only when an update replaces the whole column.
* `CreatesAnswerCommittedRows`: a create that commits names a committed memory,
  on each of its three paths (inserted, deduplicated, redirected).
* `VaultImplementsStore`: the refinement of `KeyedStore`. Commits are its steps,
  every other step stutters.

`ChatLifecycleProofs`

* `ChatInvariant`: `Spec => []ChatInv`. What a handler has read (`ReadInv`)
  stays true enough of the present row for its write: a row once there is
  there for good, a turn once stored is stored. `DeletedChatIsFinal` follows.
  `InboxIsLeftForGood` is about any inboxes and any matcher, and names each way
  back: a request explicit for the code, a push that was to leave another inbox,
  a target of the router that the matcher redirects. `HashIsOfTurns` has every
  endpoint: an append is the only step that parts a turn from the hash, and only
  the turns it pushed.

`CompressionPipelineProofs`

* `LocksAreExact` and `SummaryTierNeverFalls`: the owner of each lock is the one
  pipeline in its critical region, and a draft written over an L3.1 summary is
  itself L3.1.
* `SummaryOnlyGrows`: while nothing is deleted, an L3 summary is never replaced by
  one of an older read. The debounce compares only how many memories were read;
  `OrderInv` says why that is enough. What the pipelines have read is a chain of
  sets, so fewer means older; the counter has counted every summary that is
  stored or drafted; and a pipeline past the debounce test read more than that.

`SessionContextProofs`

* `SessionInvariant`: `Spec => []SessionInv`, whose parts are proved together. The
  row, and the base and text of every request, carry the items of the ids they
  list unless `lossy`; the exchanges of a request are those of the items it read,
  each covering its own. `ContextsAreComplete` adds up what a finished request
  kept raw, compacted and found compacted.
* `RehydrationsAreHonest`: every source is selected, omitted or missing, the
  selection is within both limits, and an omitted item would not have fitted.
* `DebounceIsSafe`: a stage stopped by the counter belongs to a memory that the
  counted run had read, deletions of counted memories excepted.

`ArtifactStoreProofs`

* `ArtifactInvariant`: `Spec => []ArtifactInv`, which is inductive as it stands.
  `DeletedBodiesAreGone` follows, and `UrlsOfLiveArtifactsStream` with
  `Backend = "local_fs"`: see the finding about `core_backend` keys above.
* `QuotaIsHeld`: the sum of the sizes on disk never exceeds the limit, although
  the limit is tested before the body is written, since the store awaits nothing
  in between; bodies that have lost their row count.

`AgentGatewayProofs`

* `GatekeeperInvariant`: counters of the decisions that were made, consents that are
  never taken back, and in-process codes granted to one claimer.
* `FirstMatchDecides`: for any rules and any order of equal priorities, an
  evaluation decides by the first match of the sorted rules. `ListingFollowsRules`:
  the second implementation, in `list_namespaces`, agrees.
* `AuditInvariant` and `AuditChainIsHonest`. The invariant says what a request has
  read of the log and which requests overlapped; a row that is alone is then
  chained to the row before it if that one is alone too, so that a reported row
  of an untouched log, or its predecessor, had company; and a row that verifies
  no longer does once a hashed column is altered or its predecessor taken out.
* `SearchInvariant`: what each statement of a search has read is related to what
  was there and to what stayed. A pass holds a memory once, because a memory that
  got its vector row keeps it: what the vector store answered and what the scan
  for missing vectors finds are apart. Ranks are distinct and fill an interval,
  so a page has the size it should and one that is not full is everything.
  `GatewayInvariant` puts the three invariants together, and `AnswersAreExact` adds
  the arithmetic of an aggregation, for every list of items.

`LibraryVaultProofs`

* `LibraryInvariant`: `Spec => []LibraryInv`, on both backends, with a stop between
  any two commits: it relates what the connection sees to what is saved.
  `SupersededAreLinked` follows.
* `LibraryImplementsStore`: what waits for a commit are demotions, and promotions of
  accesses still under way (`LivesPend`), so every commit, whoever makes it, is a
  move of the abstract store. `ReadsFollowRows` is about any outcome of the two
  searches.
* `CachedContextIsExact`: sets with the same newest members are the same when they
  are fewer than the hash covers, whatever session, limit and budget made the entry.

`NamespaceUpkeepProofs`

* `MaintenanceInvariant`, for any size of a page: what a pass has read or written of
  a weight is accounted for by the committed decays and its own. Its parts also
  relate a walk to what it has shown, a script's proposal to the rows, and say
  that hashes stay unique under promotion.
* `CompressedAnswersExact` (ids and contents, edited memories excepted),
  `WalksAreExact` and `TagsStaySettled`.

The library's induction theorems take an operator, which the provers cannot
instantiate. Where a result is computed by a fold the proofs use a set or a
function in its place: the subsets of a finite set on which the claim holds
contain the empty set and are closed under adding an element (`SubsetInduction`),
and a fold is the value of a function defined on those subsets (`FoldExists`).
`PairChatTurns`, `GroupItems`, the fitting of rehydrated sources, the sizes on
disk and the aggregation are proved in this way for every input. These few lemmas
are stated again in each module that uses them, with the types of that module.

Every safety invariant, action property and refinement that the runs check is
stated by a theorem. Only model-checked is liveness (`EveryRequestAnswered`,
`EveryPipelineEnds`, `RetentionEnforced`), which with ENABLED is outside what the
installed provers do. No module declares a RECURSIVE operator.

## Plan

1. Done: the modules above and their runs, and theorems about every invariant,
   action property and refinement that the runs check.
2. Next: what the exemptions leave open, stated more finely: which of several
   overlapping decays is lost, which appends a later push makes good, and how long a
   cached context may lag behind the episodes its hash does not cover.

## Not modelled

Date expressions, cross-encoder scores and prompt assembly (text and floating
point), encryption helpers, transports, the dashboard and the launcher,
migrations, community settings, chat mapping CRUD, provenance columns, the rate
limiters and team caches that no mounted route uses, and multi-tenant filtering:
the models are of one user. The list, with reasons, is under "components" in
`PROJECT.json`.
