# A TLA+ verification of zig-directory

zig-directory is a directory in the manner of the Open Directory: a tree of
categories, links in the categories, full text, vector and facts search. A
server written in Zig keeps the data and speaks a binary protocol; a web tier
written in TypeScript (Deno Fresh) is its only client, with the pages readers
see, the pages on which the directory is moderated, accounts, and an OAuth
server for API clients.

This project models both: what a commit, a crash and a recovery do; what link
records, the category tree and the indexes derived from them promise each
other; what crosses the connection and in which order; what the pages make of
several answers taken one after the other; and what requests that overlap do to
accounts, grants and links. TLC checks the models on small instances, TLAPS
proves theorems about nine of them for every value of their constants.
`PROJECT.json` maps each definition to the source lines it stands for. Paths
below are relative to the repository.

To run a check: `tlc -config MCLinkIndex.cfg MCLinkIndex` (section 4 has the
module and configuration of each run). To check proofs: `tlapm
LinkIndexProofs.tla`.

## 1. The system

### 1.1 Who runs, and what they share

| actor | what it does | source |
|---|---|---|
| request workers | read; or, for a write, validate, compute, append, apply and wait for the fsync | `src/binary_protocol.zig`, `src/operations/` |
| WAL flusher (zigstore) | fsyncs the log every 2 ms | `src/directory.zig:602` |
| memtable flusher | drains memtables into trees every 5 ms | `src/directory.zig:602` |
| checkpointer | persists the tree, truncates the log, then writes `derived.snap` | `src/directory.zig:794` |
| repair worker | takes queued slug-path repairs a chunk at a time | `src/repair/repair_worker.zig` |
| loaders | seed the url Bloom filter, the facts index and the vector indexes after a boot | `src/directory.zig:637` |
| web requests | handlers that interleave at every `await`; they share the key-value store and one protocol connection | `web/routes/`, `web/lib/` |
| read loops | one per connection ever opened; hand replies to the waiting requests by order | `web/lib/dmoz-client.ts:524` |
| browsers and API clients | forms, double submissions, retried token calls | `web/islands/`, `web/routes/auth/oauth/` |

`write_mutex` serialises the validate-compute-commit part of every write,
`apply_mutex` serialises applies, and each index in memory has a lock of its
own. Readers take none of the first two. A write is acknowledged after its log
record is fsynced, but readers see it as soon as it is applied. The web tier has
no locks: its store offers a check-and-commit of single keys
(`atomic().check(...)`), and some handlers use it.

The log, the trees, the memtables and the page store come from the library
zigstore; the key-value store is Deno KV; neither is part of this repository.
They are modelled from their use.

### 1.2 Components

| component | state it keeps | what makes it correct | models |
|---|---|---|---|
| commit pipeline, checkpoint, recovery (`src/directory.zig`) | WAL, checkpoint image and journal, superblock and header counters, atomics | an acknowledged write survives; a reader sees a prefix of the log; replay counts nothing twice; ids are not issued twice | `CommitRecovery` over `DurableStore` |
| link records (`operations_link.zig`, `apply_link.zig`) | `links_by_id`, three indexes, stored vectors | indexes and records agree; the hash index finds duplicates and only live links | `LinkIndex` |
| category tree, slug paths, repairs (`operations_category.zig`, `operations_slug.zig`, `apply_category.zig`, `repair/`) | records, parent index, slug-path and slug-only indexes, repair queue, the worker's walk | the path index is exact, or becomes so when the queue drains; a lookup never answers with a category that did not have the name | `SlugPaths` |
| ancestor counts (`apply.zig`, `operations_changeset_compute.zig`) | four counts in each category record | equal to a count of the subtree | `CategoryCounts` |
| derived indexes (`facts_index.zig`, `ivf_index.zig`, Bloom filter, `derived_snapshot.zig`) | sets in memory, a snapshot file | an index that is ready misses nothing and invents nothing | `DerivedIndexes` |
| binary protocol and the client's methods (`binary_protocol.zig`, `web/lib/dmoz-client.ts`) | none; payloads | each side reads what the other meant, over all frames of a call | `WireFormat`, `WireCalls` |
| the client's connection (`web/lib/dmoz-client.ts`) | sockets, a send chain, queues of waiting requests, read loops | a request is settled once, by its own answer or an error; none hangs | `ClientPipeline` over `RequestPromises` |
| reading pages and API (`web/routes/search`, `category`, `link`, `api/v1`, ...) | the page being built | answers that belong together stay together; no part of a query is dropped in silence | `SitePages`, `ReaderPages`, `Website` |
| forms (`web/routes/submit`, `web/components/submit`, `web/islands/`) | what the browser holds between steps | what is sent is what was shown | `SubmitForms` |
| facts of a text (`web/lib/entities.ts`) | none | whatever is read out of a text is within what the server takes | `EntityFacts` |
| moderation (`web/routes/admin`, `web/lib/link-enrichment.ts`, ...) | requests half-way through their calls | vectors and facts belong to the present text; no text is left without them in silence; lists miss nothing | `Moderation` |
| accounts and sessions (`web/lib/kv-users.ts`, `session.ts`, `web/routes/auth`) | users, two indexes of them, sessions | indexes and records agree; no write undoes another | `Accounts` |
| OAuth (`web/lib/oauth.ts`, `web/routes/auth/oauth`) | codes, tokens, clients | one authorization has one heir; tokens carry the rights of the moment | `OAuthGrants` over `Accounts` |

How they meet: a page or API route calls methods of `DmozClient`
(`WireFormat`, `WireCalls`), which share a connection (`ClientPipeline`); the
server dispatches to an operation, which reads the trees under `write_mutex`
and computes a change set (`LinkIndex`, `SlugPaths`, `CategoryCounts`: what it
must contain), and hands it to `Directory.commit` (`CommitRecovery`: what
becomes of it); `apply` writes the trees, adjusts the counts, feeds the derived
indexes (`DerivedIndexes`). After a crash the same `apply` runs over the log's
tail. The repair worker and `delete_category` are clients of the same path, with
commits of their own. Nothing is locked between two calls of a route, which is
what `Moderation` and the page modules are about.

### 1.3 What is hard to test here

The list with lines is in `PROJECT.json` under `hazards`. In short: crashes
between the three steps of a checkpoint; counters that live in an atomic, in the
header and in the superblock; a repair that gives up the lock between chunks and
resumes by offset into a list that has changed; loaders that scan trees being
written; a snapshot cut after the checkpoint whose sequence it carries; hash
collisions among live links; replies matched to requests by order alone while
connections break and requests time out; payloads without field names, told
apart by length and split over frames; handlers that read, wait and write; codes
and tokens redeemed twice; pages put together from answers of different moments;
edits that are several writes and an enrichment, one of which fails.

## 2. Modules

| module | models | proofs |
|---|---|---|
| `DurableStore` | the promise of the store: one log, readers see a prefix, acknowledgements cover a prefix, a crash cuts only behind them | |
| `CommitRecovery` | the commit pipeline; implements `DurableStore` | `CommitRecoveryProofs` |
| `LinkIndex` | link records and their indexes, with category deletion | `LinkIndexProofs` |
| `SlugPaths` | slug paths, repair queue, worker, rebuild, lookups | `SlugPathsProofs` |
| `CategoryCounts` | the stored counts of the category tree | `CategoryCountsProofs` |
| `DerivedIndexes` | Bloom filter, facts and vectors: loaders, snapshot, replay | `DerivedIndexesProofs` |
| `RequestPromises` | the promise of the client to its callers, without sockets or queues | |
| `ClientPipeline` | the connection; implements `RequestPromises` | `WebProofs` |
| `Accounts` | users, indexes, sessions and their handlers | `AccountsProofs` |
| `OAuthGrants` | extends `Accounts`: authorize page and token endpoint | `AccountsProofs` |
| `WireFormat` | the payload of every method and what the server reads in it, and back | |
| `WireCalls` | extends `WireFormat`: a call over all its frames | |
| `SitePages` | extends `WireCalls`: search, category page, API query | |
| `ReaderPages` | extends `SitePages`: the other pages and API routes that read | |
| `EntityFacts` | what is read out of a title and a description | |
| `SubmitForms` | the submit wizard, category picker, bulk bar | `WebProofs` |
| `Website` | extends `ReaderPages`, `EntityFacts`, `SubmitForms`: the site | |
| `Moderation` | moderation, submission and enrichment, call by call | `ModerationProofs` |
| `MC...` | constants of the instances that need definitions, and symmetry | |

`LinkIndex`, `SlugPaths` and `CategoryCounts` take a write as one step, because
it holds `write_mutex` from its first read to the end of its apply;
`CommitRecovery` shows what a crash does to a sequence of such steps.
`DerivedIndexes` takes a checkpoint and a recovery as single steps and keeps the
steps between the parts of one apply. `Moderation` takes a call to the server as
one step and keeps the steps between calls; what a failing call may still do is
what `RequestPromises` allows. Definitions marked `mutant` are broken versions of
the definition that follows them; no specification uses them. They exist to
show that each checked property can fail.

## 3. How each model corresponds to the code

**CommitRecovery.** The trees are reduced to the status of each link id; a
change set writes one link. `log` is every change set appended and not lost, of
which `wal.bin` holds those above `walFrom`; `durable` is how far it is fsynced.
`disk` is `store.dat` (records, counters, superblock sequence), `journal` the
image a redo of `checkpoint.journal` would leave. The counters appear three
times, as in the code: atomics (`nextId`, `counts`), the header in memory
(`hdr`), and those in `disk`. `CreateLink`, `SetStatus`, `DeleteLink` are the
writers up to the append; `Apply` is `apply_or_abort`; `FlushWal`,
`Acknowledge` the flusher and `awaitDurable`. `SyncLoad` and `SyncStore` are the
two halves of `sync_persisted_counters`, which `checkpoint` runs outside
`apply_mutex`; `CheckpointJournal`, `CheckpointInPlace`, `CheckpointTruncate`
the three durable steps of zigstore's checkpoint, a crash possible after each.
`Boot`, `ReplayEntry`, `RestoreDerivedCounts` are `Directory.init` and
`recover`; recovery ends with a checkpoint of its own. A clean stop is a
checkpoint followed by a crash that loses nothing; a failed apply aborts the
process, which is the same crash.

**LinkIndex.** One action per operation on a link, with the whole of the change
set's apply inside: `byCategory`, `bySubmitter` and `byHash` are key sets and a
function, `Hash` any function from urls to hashes, so that collisions happen.
`delete_category` holds `write_mutex` over many commits: its start, each link
it deletes and its end are steps, and `Restart` may come between any two of
them. `overtaken` is a history: which live links have lost their hash entry to
another link, by a collision or by an `update_link` to their url.

**SlugPaths.** A path is the sequence of its slugs. The path index and the
slug-only index are functions, the repair queue a sequence of tasks, the worker
a stack of (category, offset) frames as in `repair_worker.zig`. Creates, renames,
moves and deletes are one step each; a chunk of the worker is one step, and what
the worker keeps between chunks is what a `WalkFrame` keeps. A lookup takes no lock
and is several steps: the search, the decision it makes from the length of the
queue, and, when something is queued, the canonical path it compares, which
`build_slug_path` reads one record at a time, first the ids up the chain
(`LookupClimb`), then the slug of each from the top down (`LookupName`). Writes fall
between any two of these reads; `wrote` counts those that fell within one
reading, two or more as two. A
restart empties the worker's walk and keeps the queue. `disturbed` is a history:
a write met what a queued task is about (`MeetsQueuedTask`,
`SharesWithQueuedTask`): it touched a category below the root of the task, or gave
one a path at, above or below those the task has yet to free. Any other write may
fall between the chunks of a task. `Climb` is the loop up the parents that every
path is built by, with the limit it is given; `WalkBelow` expands the last
category found at most `MaxCat` times, which is once for each, and leaves out, with
all below it, a category too deep for its path to be put together; `ScanChunk` reads
a page of children at a time (`ScanPage`) until the chunk is full, a path does
not compose or the stack is empty; `Rebuild` says what inserting the records in
id order leaves: the last of those that share a path, and the first, by length of
path and id, of those that share a slug.

**CategoryCounts.** The records of `categories_by_id` are split into `parent`
and `counts`. `Ancestors` is `collect_ancestor_updates` with its limit of
`depth_max` levels; `Cascade` is `cascade_ancestor_counts` with the floor at
zero. Paths of more than `DepthMax` slugs do not build, which is why
`create_category` admits one level more than a walk covers and `move_category`
may push a subtree further down. `deep` counts the writes since that happened:
from there on the counts above may drift, and without bound, so that the bound
`MaxDeep` is on those writes. `Recount` is `recompute_category_counts`, children
before parents.

**DerivedIndexes.** `trees` is what a reader sees, `drained` the link tree
without its memtable, which is what the Bloom seeder scans. `apply` is a
sequence of steps: trees, vectors, Bloom, facts, each under its own lock, as in
`apply.zig` and `apply_link.zig`. A loader reads one record of the tree in one
step and loads it in the next; the facts index refuses what a write has touched
meanwhile. After a checkpoint the sections are cut one by one. A boot restores
the snapshot if its sequence is that of the superblock, starts loaders for the
sections it does not have, and replays the tail. `ahead` is a history: the
snapshot in force, or one the process wrote after restoring such a one, holds a
change that a crash then took back.

**ClientPipeline.** `chain` is the promise chain through which requests are sent
one at a time, `pipe` the two directions of each connection as one sequence of
frames, `queue` the entries a reply is matched to. A reply travels as
two fragments, so that a frame may be cut anywhere. `SendStart`, `ConnectOk`,
`ConnectFails`, `Push`, `WriteOk`, `WriteFails` are `request()`, `send()` and
`connect()` between their awaits; `ReadData`, `ReadEnd` a read loop with
`drainFrames`; `Execute` the server; `Timeout`, `Close` and `Drop` (the server's
end of a connection goes) what may happen at any moment. The loop of an old
connection ends in `disconnect()`, which acts on the connection that is current
then, as in the code. A timed-out entry stays in the queue and its request may
still be executed.

Two things put a connection *out of step*. `Push` is one `conn.write()`, which may
take the beginning of the frame only; nobody looks at how much it took, and what is
written next is read as the rest. From then on (`short`) the server may make of a
request's bytes nothing, a frame that is nobody's request, or that request
(`Framed`). And a read that resolved before its connection was closed may be
handled afterwards (`ReadStray`): its bytes are appended to the one buffer there is
and settle whichever entries wait now; what is left over begins the buffer of the
next connection, for which `ensureConnected` does not look (`mixed`). `lost` is a
history: the requests that waited on a connection while it was out of step.
`MaxSlips` bounds how many connections are out of step before another of the two
happens; what follows from it is not bounded.

**Accounts, OAuthGrants.** Every `await` of a handler is a step; between two of
them the other open requests run. `atomic().check(e)...commit()` is one step
that looks at the store again. What a request creates is named after it (a
random UUID). Register, log in, log out, profile, change of role and deletion of
an account are the handlers of `Accounts`; a session may be found expired
whenever it is looked at. `OAuthGrants` adds the authorize page, as one more
request of a browser, and calls of the token endpoint that carry no cookie;
answers may be lost, so that a caller sends a code or a refresh token again.
A client has registered patterns, with `*` for a host, for the front of one, in a
path or for a port; `HostsOf` and `PathsOf` say what a pattern stands for.
Passwords, PKCE and signatures are taken to work.

**WireFormat, WireCalls.** A payload is a sequence of fields of a width and a
value. A `...Payload` operator is what a method of `DmozClient` builds, a
`Parse...` operator what the handler of `binary_protocol.zig` takes from it, by
position and length, with the limits by which it refuses one; the `...Body`
operators and the client's `Read...` do the same for replies. A reader that expects other
widths than were written reads nothing. Packed options, sentinels and optional
tails are computed as in the code. `WireCalls` runs a call: frames of at most
`IdsMax` ids, an answer per frame that may hold fewer rows than asked for, the
next frame from the first id without a row. The directory behind is open: an
operation answers anything its handler can write.

**SitePages, ReaderPages, Website.** `page` is a handler at one of its calls: it
asks, waits for the call to end and takes up the result, or its failure, as the
handler does. A query is a sequence of tokens; understanding it follows
`web/routes/search` step by step: operators, names the server knows, places,
countries, religions, the relaxations tried when nothing is found. The server's
answers are arbitrary, so calls the code makes at the same time are asked here
one after the other (a link's breadcrumbs and peers, the dashboard's three lists,
a category desk's children and parent). `Website` adds the pages and programs
that write what was read out of links, and composes all with the forms, one form
or one page at a time since they share no state.

**EntityFacts.** A text is a sequence of tokens with the labels of the network
given; spans, their cleaning, the dropping of lone or common words, countries by
name, demonym and language, religions and the limits are those of
`web/lib/entities.ts`. That every country named is one the server knows is not in
that code, which sorts and cuts; it rests on what the tables hold
(`TableAssumption`, with the test of the gazetteer, `web/lib/entities_test.ts:7`),
as does `FactsAreAccepted` there. A token the tokenizer does not know counts whole.

**SubmitForms.** The wizard's four steps post a hidden copy of what was filled in
before; the lists of top categories and subcategories are fetched by the island
and arrive in any order. The category picker and the bulk bar with its
confirmation are the islands of those names. Categories do not change while a
form is open; a list may fail to load; two requests for the children of one
category count as one.

**Moderation.** A slot holds a request: its form, where it is, and what it has read.
`Begin`, one step per call, `Finish`. A call may fail (`MaxFaults` of them) and the
write it stood for may be carried out later (`late`). `Accepts` and `Perform` are
the server's operations reduced to what the properties tell apart: a link has a
category, a status and a text, and `vector` and `facts` say which text they were
made of. The server refuses a vector or facts whose fingerprint is not that of the
link's text. Urls, the category names in link documents and the reading of
breadcrumbs are left out. `reported` is a history: the ids about which some request
met an error. A walk reads a list by cursor, a page at a time; the load of a page
may fail, and the walk is then over (`failed`), because what the moderator sees is
an empty page without a next.

## 4. Runs

| run | module, configuration | properties | instance |
|---|---|---|---|
| `commit_recovery` | `MCCommitRecovery` | `ServedIsPrefix`, `AckedIsRecoverable`, `ImplementsDurableStore`, `WritesAreAcknowledged`, `RecoveryTerminates` | 2 ids, 3 change sets, 2 crashes |
| `slug_paths_inline` | `MCSlugPaths`, `SlugPathsInline.cfg` | `LookupsAreCurrent` | 4 categories, 3 slugs, 5 writes, 1 reader, 1 restart, nothing queued |
| `slug_paths_live` | `MCSlugPaths`, `SlugPathsLive.cfg` | `RepairConverges`, `RepairLosesNoCategory`, `ValidatedLookupsAreCurrent`, `RepairQueueDrains` | 3 categories, 2 slugs, 4 writes, chunk 1, everything with descendants queued |
| `link_index` | `MCLinkIndex` | `IndexesExact`, `EntryKeptUnlessOvertaken`, `LinksHaveCategory`, `NoDuplicateCreated` | 2 links, 3 urls of which 2 collide, 2 categories, 2 texts |
| `category_counts` | `CategoryCounts`, `MCCategoryCounts.cfg` | `DirectCountsExact`, `SubtreeCountsExact`, `RecountIsExact` | 4 categories, 2 links, walks of 3 levels |
| `derived_indexes` | `MCDerivedIndexes` | `BloomCoversLinks`, `FactsComplete`, `VectorsComplete` | 1 stored link and 1 new, 2 writes, 1 crash, 1 loader a boot |
| `client_pipeline` | `ClientPipeline`, `MCClientPipeline.cfg` | `PipelineKept`, `ImplementsPromises`, `RequestsSettle` | 3 requests, one of them impatient, 2 connections, one of them out of step |
| `accounts` | `MCAccounts` | `IndexesAgree`, `WritesAreIsolated`, `LastAdminNeedsARace` | 2 administrators, 3 requests, 2 at a time, 1 free e-mail and name |
| `oauth_grants` | `MCOAuthGrants` | `GrantNeverForks`, `TokensAreAllowed`, `TokensAreCurrent` | 2 requests and 3 token calls, 2 of each at a time, 2 clients |
| `website` | `MCWebsite` | `RequestUnderstood`, `ReplyUnderstood`, `WordsAreAccountedFor`, `QueryAsksForTargets`, `LabelsAreOwn`, `FactsAreAccepted`, `SubcategoryIsOfTop`, `SubmittedIsShown` | 3 ids, 2 in a frame, sampled arguments and queries, 7 link texts, 2 categories with one below each, 3 rows |
| `moderation` | `MCModeration` | `FactsMatchText`, `EveryTextIsEnriched`, `WalksMissNothing` | 3 requests of 15 kinds, 2 at a time, 3 links and a new one, 3 nested categories, 1 fault |
| `id_reissue` | `MCCommitRecovery`, `CommitRecoveryReissue.cfg` | `IdsNeverReissued` (violated) | 2 change sets, 1 crash |

What they show:

- *No acknowledged write is lost, and a restart serves a prefix of the log.*
  `ImplementsDurableStore` is a refinement: the pipeline with its checkpoint and
  replay implements a store that has neither. Every write is acknowledged or
  overtaken by a crash; every boot ends in service.
- *Indexes and records agree*, with urls that collide: a link that lost its hash
  entry to another one does not take the other's with it when it goes.
- *Repairs converge.* With every large rename queued, and the worker interrupted
  at each chunk by further writes and a restart, the queue drains to an exact
  index, unless a write met what a task is about (`disturbed`, section 6). A lookup
  that validates its match is not misled by one write in the middle of its reading;
  by two it can be (section 6).
- *Counts match the tree*, while no walk is cut short; the direct counts even
  then; and a recount heals any drift.
- *An index that says it is ready is complete*, whichever of a loader, a live
  apply, a snapshot or a replay contributed each record, unless the snapshot was
  ahead of the log that survived (section 6).
- *A reply goes to its own request.* `ImplementsPromises` is a refinement: with
  connections cut, requests timed out and the client closed at any moment, each
  request is settled at most once and only by its own answer; and none hangs. Where
  a write was cut short or late bytes came in, this holds of every request but those
  that waited on the connection concerned: they are settled at most once too, or
  left to their timers, and executed at most once, but by what answer is anyone's
  guess.
- *Both sides read the protocol alike*, over sampled arguments of every method
  and every answer, with one exception (`rebuildIndex`, section 6). The limits that
  callers measure themselves are never met by the server; those of a link query
  they do not measure, and the server refuses just the queries that are over.
- *Pages account for what they show.* Each word of a query ends as a target, as
  text or as noise; links are asked for by every target the page shows; a row
  carries the name of its own category although the two come from two calls.
- *Facts are within the server's limits*, whatever the network labels, though
  the limits are written down twice.
- *A form sends what it showed*, to a category below the chosen one, unless
  replies overtook each other (section 6).
- *Accounts, their indexes and their roles* survive any overlap of two requests;
  the last administrator goes only when two of them race.
- *A grant never forks.* Of an authorization at most one code or refresh token
  is alive or on its way; tokens go to the client and address they were meant
  for, with a role the account held during the call.
- *Vectors and facts never outlive their text*, no text is left without them
  unless some request met an error, and a list read page by page to its end
  shows every link that stayed in it. A page that failed to load looks like the
  end of the list; then what was shown is complete up to the last page before.

### Bounds

Two links are enough for one to lose something to the other, two crashes for one
to interrupt the recovery from the other, four categories for a parent, a moved
subtree and two families, one reader because readers affect neither each other
nor the state. Three requests on a connection are one answered, one timed out
and one behind it; two connections are an old read loop beside a new
connection, either of which may be the one out of step. In `slug_paths_live` one
write can fall within the reading of a lookup: a category, one below it and a
queued task take three of the four. The two writes that mislead a lookup need five, which
is section 6. Two requests of accounts or moderation at a time and a third after
them are a race and what is found later; the races this code has are between
two. In `website` the ids, texts and queries are chosen so that each form of a
query, each optional tail and each split of a frame occurs, and each limit is
met and passed: two ids a frame, one name of an entity, six bytes a name. In a
form a text is empty, too short, too long or ends in a space, and each of two
categories has a list below it that may arrive for the other.

Constants that are bounds rather than parameters of the code carry the word `bound`
where they are declared: `MaxId`, `MaxLog`, `MaxCrashes`, `MaxCategory`, `MaxCat`,
`MaxLink`, `MaxWrites`, `MaxRestarts`, `MaxLoaders`, `MaxDeep`, `MaxConn`,
`MaxSlips`, `Impatient`, `MaxOpen`, `MaxCalls`, `MaxRequests`, `MaxFaults`. Limits
the code has are scaled down: `depth_max` 64 to 3 or 4, the inline threshold 5000 to
0 (everything queued) or 4 (nothing), a chunk to one descendant,
`delete_link_pages_max` 65536 pages of 64 links to one page of one, a page of a list
to one link. `CHECK_DEADLOCK FALSE` is set because behaviours end when their bounds
are used up; `website` has no such bound and is checked for deadlock. `accounts`,
`oauth_grants` and `moderation` use symmetry over the identities of requests, which
no property tells apart and which have no liveness property.

### Fairness

`CommitRecovery!FairSpec`: the flusher is a 2 ms timer; an append is applied and
awaited by the thread that made it; a checkpoint once begun is finished by its
thread; and nothing else runs while a recovery does. None on clients, on the
start of a checkpoint or on crashes. `SlugPaths!FairSpec`: the worker ticks on a
timer and takes a chunk when there is one; none on writers, whose number is
bounded (the queue drains *once writes stop*). `ClientPipeline!FairSpec`: the
event loop runs the steps of a send that has begun, each read loop reads or ends
while there is something to read or the end of its connection, and the server
carries out what has reached it; none on callers, timers, failures or `close()`.
The other models have no liveness property.

## 5. Proofs

The theorems hold for every value of the constants, the bounds of the models
included, under the named assumptions declared with them. Those say that bounds
are natural numbers, that sentinels (`NoReply`, `Anonymous`, `Absent`, `NoUser`,
`NoEntry`, `None`) are not values, that the identities of requests, calls and
seeds are distinct, that the store starts with records of the declared types, in
`ModerationAssumption`, that there are finitely many links and an edit form is
about one of them, and in `CategoryAssumption`, that ids of categories begin with 1
and the lists of them name categories. Nothing is assumed of the hash function but its type.

**`CommitRecoveryProofs`.** The invariant is `TypeOK`, `PhaseInv`,
`IdsStartAtOne`, `AckedIsRecoverable`, `ServedIsPrefix`, `ImagesArePrefixes`. That
requests read a prefix of the log is not inductive alone: after a crash they
read an image with the tail replayed on it, so the image must be a prefix too,
and the log must still reach from the image to what was acknowledged. Two lemmas
about `Reflects` carry it: applying the next change set reflects one more
(`ReflectsApply`), and cutting or extending the log behind a prefix leaves it
(`ReflectsAgree`). Results: `TypeCorrect`, `ServesAPrefix`, `AcknowledgedIsKept`,
`ImagesAreKept`, `IdZeroIsNeverIssued`, and `Implementation`, the refinement of
`DurableStore`: a crash, whatever the checkpoint was doing, is one abstract crash,
and checkpoint and replay steps stutter.

**`LinkIndexProofs`.** The invariant is `TypeOK`, `DeletingIsLive` and the safety
properties together, because each needs others: `delete_category` may remove its
record only because the category index is exact; a delete may remove a hash
entry only because the entry's owner is live and is compared; a new link has no
left-over vector because ids are fresh. Results: `TypeCorrect`,
`IndexesAreExact`, `HashOwnersStayLive`, `EntriesAreKept`, `CreatesNoDuplicate`,
`VectorsAreCurrent`, `CategoriesOutliveLinks`.

**Induction over data.** The induction theorems of the library take a predicate,
which the provers cannot instantiate. Here a set takes its place: a
set of natural numbers that is not empty has a least member (`LeastNumber`, from
the well-foundedness of `<`), so a set that has 0 and, with n, n + 1 has all of
them (`AllNumbers`). With it a recursive function is shown to exist, and then to
do what its equation says, for trees of any shape and walks of any length.
`CategoryCountsProofs` and `SlugPathsProofs` rest on it; `DerivedIndexesProofs`
needs the least member only.

**`CategoryCountsProofs`.** `IInv` is a finite forest with a record for each
category, and exact direct counts. A count is the size of the set of arguments
that `home` or `parent` maps to the category; `CountAdded`, `CountRemoved` and
`CountMoved` say what a write does to it, `CascadeDirect` what the cascade does
to the column, and `CountPositive` that the floor at zero is never reached where a
count goes down. The depth cap does not enter: the first category of a walk is
on it however short it is (`WalkStarts`). Results: `InductiveInvariant`,
`DirectCountsAreExact`.

`TreeInv` adds that the parents have no cycle and that, while no category has been
below level `DepthMax`, no walk is cut and the subtree counts are exact. The
argument needs no walk: the ancestors of a category are the least set that has it
and, with a category, its parent (`Above`), and what a create, a move and a
delete do to subtrees is then set theory (`AboveAdded`, `AboveMoved`,
`AboveRemoved`, `UnderMoved`). A walk of enough levels meets all of `Above`
(`ShortChain`). What a recount adds up over the children is the size of the
subtree, whatever was stored before (`FoldIsSize`, `AggregateIsSizes`, by
induction on that size). Results: `TreeIsSound`, `SubtreeCountsAreExact`,
`RecountsAreExact`.

**`SlugPathsProofs`.** A climb ends at the top iff there is a line of live
categories below it, and no line is longer than there are categories, so a path
that is found with the depth cap is the path (`PathFound`). `LookupInv` says of each
lookup under way that it has seen its match name its category if it ever did;
it holds for every write, repair and restart. Of the path a lookup reads record by
record to compare it, `ReadInv` says that what was read is what the records say as
long as no write came between (`Consistent`), and that as long as at most one did
the reading cannot come to the match's path unless the match named its category
at some moment of the lookup (`Promised`, over all ways the reading may go on:
`Trail`, `Reading`). The step that matters is that one write
(`TornPromises`). It gives one category another slug or another parent, or touches
none that was read. If slugs were being read already, the chain is that of the tree
before; if the chain was being climbed, all slugs are yet to be read, and the chain
is the old one or the new one, because a way up does not come back to where it
began (`NoReturn`). Either way the path is the category's in the tree before the
write or after it (`SlugsTorn`, `ClimbTorn`), and the lookup saw both. Result:
`ValidatedAnswersAreCurrent`, for lookups whose reading met at most one write; for
two it is false (section 6).

`InlineInv` is a tree in which every category has a path (`Sound`), ids not issued
yet, a path index that is exactly that of the tree (`Exact`), a slug-only index
whose entries name live categories with that slug (`SlugsNamed`), and lookups
whose matches are right. It holds as long as `Calm` does: nothing has been
queued and no chain of parents is longer than the writes can follow. Both are
needed, see section 6 for what happens without them; both are conditions on what was
written and not on the constants, and since a behaviour may stutter for ever
the theorem covers every behaviour up to the first step that ends them. The steps:
the walk of `collect_descendant_swaps` finds the descendants and each of them
(`WalkIsAll`, from the order of `list_children`); after a rename or move the paths
outside the subtree are what they were, inside it the old ones with the new prefix
(`ResettledPaths`); if the new path of the category is free, so is that of every
descendant (`NewPathsFresh`, since an index that is exact has the path of every
ancestor); so the swaps, applied in order, are one exchange of the old paths for the new
(`SwappedIs`, `MovedIsExact`), and the uniqueness that `ensure_slug_path_free`
checks on the index alone is uniqueness in the tree (`FreshSiblings`). Results:
`InlineAnswersAreCurrent`, `InlineIndexIsExact`.

`RepairInv` is about renames and moves that are queued, one behind the other, and
repaired in chunks. A task knows a category below its root by its old path, so a
category has several *names*: its canonical path and one old path for each task it
is below the root of. `Kept` says that each live category is indexed once, under
one of its names (`Indexed`), that no name is that of two categories (`Apart`),
and that no category has come to lie where a task has paths to free (`Vacated`).
Exactness is not inductive here and `Indexed` alone is not either: without `Apart`
a chunk's swap could overwrite the entry of another category, without `Vacated`
the old path it frees could be the canonical one of a category that moved in.
`OnWalk` says that every category which is still under an old path of the task lies
ahead of the worker's stack: among the children of a frame from its offset on, or
below one of those. It is what makes it safe to resume by offset, and with an
empty stack it says that nothing is left under an old path, so that the task may
leave the queue (`CompleteKeeps`); with no task left the only name is the canonical
path (`KeptIsExact`). A chunk is followed page by page and child by child
(`Scanning`, `Visiting`): what was ahead is swapped or still ahead, whether the
chunk ends because it is full or because the walk does. A restart puts the whole
subtree ahead again; a rebuild leaves nothing under an old path. A write between
the chunks that does not meet a task leaves what lies below the task's root as it
is (`Aside`), so that the old paths and the walk are what they were (`AsideNames`,
`WalkAside`), and exchanges paths no other category has a name at (`Beside`,
`BesideKeeps`). That its new path is such a one is what the uniqueness check
on the lagging index is worth: a category in its way would be below the root of a
task, and so would the one that is written (`QueuedPathFresh`, `GrownBeside`).

The condition is `ChainsFit`: no chain of parents is longer than a write can
follow. It is needed. With `DepthMax` below `MaxCat` TLC refutes `RepairConverges` by
three nested creates, of which the last is one below the cap, and a `Rebuild`, which
fails at that category and leaves a partial index (section 6). It is a condition
on what was written, and where there are no more categories than levels, as in
the runs, it holds of every behaviour (`FewCategoriesFit`). Results:
`RepairedIndexIsExact`, `QueuedCategoriesStayIndexed`.

**`DerivedIndexesProofs`.** What an index has of one id is right, or `apply` has
still to tell it (`Pending`), or its loader has the id before it; the last of
these needs that what the loader has read of an id is either still so or marked
as touched (`ScanKept`, `PageKept`), and that a scan leaves no key out
(`FromFinds`, `FromIsNext`, from the least element of a set of numbers). Across
a crash the argument goes by the ids that the log touches: the trees differ from
store.dat only there (`TreesKept`), a section is right of store.dat elsewhere
(`FileKept`, true when it is cut, kept while the log grows, and kept by a crash
that leaves the log as long as it was at the cut), and a replay makes right the
ids it comes to (`RestoredKept`). `StoreInv` and `IndexInv` group these; there is
one lemma per action. Results: `BloomNeverMisses`, `FactsAreComplete`,
`VectorsAreComplete`.

**`WebProofs`.** Of the connection: `PipelineKept`, the matching of replies to entries by
order, is inductive as it stands: unless the current connection is out of step, what
is still to come on it and what waits are the same sequence; what the client keeps
of a connection that is gone is nothing but late bytes; and whatever waits on a
connection out of step is in `lost`. The refinement needs four facts more: only asked
requests wait, travel or are lost (`OnlyAsked`), an entry waits once (`WaitingOnce`),
a request is sent on one connection, once (`SentOnce`), and is executed at most once
(`ExecutedOnce`), both also where frames are cut. Results: `RepliesStayInStep` and
`Implementation`, the refinement of `RequestPromises`: reading a reply off a
connection in step settles its own request; a connection that gets out of step,
and whatever is read on it, is `Lose`, which may answer requests that are lost and
no other; everything a broken connection does is an error or a stutter.

Of the forms, in the same module: `FormsSpec` is what `Website` does to the
variables of `SubmitForms`, each of whose steps is one of `FormsNext` or leaves them
alone. `FormsKept` adds to the two properties what makes them inductive. A page's
fields read the same when they are read again (`PageIsRead`, from `ReadTwice`: what is
trimmed and cut is not trimmed or cut further), so the last form posts what its review
listed. The lower list is that of the category chosen unless it is loading or came
late (`ListIsOfTop`), what is chosen in it is in it (`ChosenIsListed`), and a list that
is loading is not sent, so what reaches the review is below what was chosen
(`ReviewIsOfTop`). A page the site makes is as good as what it is made of
(`BuildKeeps`), whichever of its lists failed to load. Results: `FormsAreKept`,
`SubmissionsStayBelow`, `FormsSendWhatTheyShow`.

**`AccountsProofs`.** `IInv` has three parts: the store (types, and the records
against both indexes in both directions), the handlers (what a handler that is
past a check still holds and may still write), and that a request that has not
created its account finds no trace of it. The two-way agreement survives
because each commit looks again at exactly the entries its read may have become
stale about. Results: `IndexesAlwaysAgree`, `WritesStayIsolated`,
`LastAdminGoesOnlyInARace`, the last two action properties proved from the same
invariant.

In the same module, for `OAuthGrants`: `GrantNeverForks` is made inductive by
`MapsKept` (types), `CodesAreFresh` (a request that is not over has left no code,
token or call behind), `GivenWasAnswered` (the token a call was given was issued in
an answer) and `ReadIsTaken` (what a call read is of the authorization of what it is
about to take). A second invariant, `KInv`, is about what tokens say: every record
of a grant goes back to a request that allowed it and is over (`Granted`), the
authorize page makes a code only for a host the client registered (`PageKept`), and
a call keeps what it was asked, what it read, what it compared and the account it
looked up until it answers (`CallKept`, one conjunct each). A browser's step
disturbs none of it, because the request it works on has no code yet and the roles
it writes are seen by every open call (`BrowserTokens`); of the calls, only the one
that takes a step changes (`OthersKept`). Results: `GrantsNeverFork`,
`TokensStayAllowed`, `TokensStayCurrent`.

**`ModerationProofs`.** `EveryTextIsEnriched` says that a live link has its vector
and facts, or a request in progress still owes them, or an error was reported. It
needs what each request remembers about its form (`RequestsKept`), and that
only reported ids have a write outstanding (`LateIsReported`). `Covering` and
`Keeping` carry it past a step: a request that owes a text goes on owing it until
it has stored both parts, and a write that changes a text is made by a request
that then owes it. One lemma per handler. Results: `TextsAndFactsAgree`,
`NoTextIsForgotten`.

`WalkInv` is about lists read page by page: the pages of a walk go up in the order
of the list, and every link up to where it has got that is on the list and that
nobody touched since it began has been seen. A page is the beginning of what the
list has after the cursor (`PageInOrder`), in order and complete because a finite
set of ids is listed once each (`InOrderIs`). A step of another request touches what
it changes, so a link that is not touched is on the list throughout (`WalkStays`). A
load that fails ends the walk where it is and changes nothing of this; it only takes
from the end of the walk that nothing lies behind it. Result: `WalksSeeAll`.

Only model-checked, and why. Liveness (`WritesAreAcknowledged`,
`RecoveryTerminates`, `RequestsSettle`, `RepairQueueDrains`) rests on fairness,
which is outside what the prover does.
`RequestUnderstood`, `ReplyUnderstood`, `WordsAreAccountedFor`, `QueryAsksForTargets`,
`LabelsAreOwn` and `FactsAreAccepted` say what readers of payloads, queries and texts
compute. Those readers are folds and recursive functions over sequences, and what they
return for every input would need an induction for each of them and for the
operators of the community modules they are written with. TLC evaluates them over
every sampled request, answer, query and labelled text.

## 6. Findings and divergences

`id_reissue` is a counterexample to what the code says of itself: `checkpoint`
loads and stores the id counter outside `apply_mutex` (`src/directory.zig:1101`);
a write in between is rolled back in the superblock, and after a crash its id is
issued again and overwrites the link.

The following were met while the models were built. They are kept in the models
as guards, histories, exceptions in a property, or as a definition whose comment
says that the code refutes it, so that the properties that remain say exactly
what does hold.

Server, refuted definitions:

- `RecoveryCountsExact`: replay raises the status atomics but not the header
  counters, and the checkpoint at the end of recovery persists the old ones
  (`src/directory.zig:1013`; README.md:173).
- `StalePathsAreHidden`: a small delete, rename or move removes the canonical path
  only; the stale entry a queued repair had not reached stays, and lookups trust
  it once the queue is empty (`src/apply/apply_category.zig:93`; README.md:922,
  1199).
- `TaskLeavesNoDescendant`: a repair resumes by its offset into a child list; a
  child that left meanwhile makes it skip another
  (`src/repair/repair_worker.zig:207` against its comment at 3-6).

Server, others:

- two siblings can get one slug while a repair is queued, because the duplicate
  check reads the index under repair (`operations_slug.zig:73`; README.md:383);
- the slug-only entry is not given to the shallowest remaining category when its
  owner goes (`apply_category.zig:195`; README.md:906);
- a lookup reads the queue's length after its search (`operations_slug.zig:51`;
  README.md:922);
- the path a lookup validates its match against is read without a lock, ids before
  slugs (`operations_slug.zig:101`-`126`), and two writes in between can make it
  equal to a stale entry that names no category any more, against "never returning a
  wrong cat_id" (README.md:922). With the slugs `top`, `a`, `b`, two categories, `Threshold`
  0, a cap of 3 and five writes TLC finds it in twelve states: X is created as `a`, C
  as `top` in X, X renamed to `b` (queued, so `a/top` is stale); a lookup of `a/top`
  finds C and reads that X is above it; C is moved to the root and X renamed back to `a`;
  the lookup reads the slugs `a` and `top` and takes `a/top` for the path of C;
- a small rename or move leaves out the descendants that are too deep for a path,
  which keep their stale entries (`operations_changeset_compute.zig:292`-`304`); the
  theorems about inline changes except it (`Calm`), in the runs no chain is so long;
- a rebuild truncates the index before it can fail on a path that is too deep
  (`repair.zig:103`), and a task whose subtree is too deep is retried for ever
  (`repair_worker.zig:144`; README.md:1198);
- a repair drained after a rebuild may remove another category's fresh entry
  (`repair_worker.zig:152`);
- `update_link` does not look for another link with the new url, which
  `create_link` does (`overtaken` of `LinkIndex`);
- `create_category` admits one level more than an ancestor walk covers
  (`operations_changeset_compute.zig:81`; README.md:979), so that counts above
  drift and the floor at zero hides it (`deep` of `CategoryCounts`);
- a snapshot section is cut after the checkpoint whose sequence it carries, from
  indexes that hold changes not yet fsynced, and keeps one that a crash then
  loses (`ahead` of `DerivedIndexes`; `src/directory.zig:635` calls a restored
  index complete after replay);
- a category vector carries no fingerprint, so one computed before a rename can
  be stored after it (`operations_vector.zig:121`);
- paging of a subtree ends early when the link its cursor stands on is gone
  (`binary_protocol.zig:917`-`920`), also where a list switches modes between
  pages (`web/routes/admin/links.tsx:120`-`151`).

Protocol and client:

- a write that takes less than a frame is not noticed
  (`dmoz-client.ts:589`): the frames that follow are read as the rest, the server may
  carry out a request whose end is another's beginning, and callers may be given
  each other's replies until the connection is dropped. Nothing drops it but a
  failure: a reply that makes no sense is thrown to its caller only;
- bytes that a closed connection's read still returns go to the buffer of the
  connection opened since (`dmoz-client.ts:531`-`535`), and what they leave there begins
  the buffer of one opened later, which `ensureConnected` does not clear
  (`dmoz-client.ts:469`-`478`);
- the server refuses a link query whose words, name, site or country are beyond its
  limits (`binary_protocol.zig:1348`-`1364`). The search page sends any two letters
  as a country (`targets.ts:95`), a name and words of any length (`targets.ts:330`),
  and shows the refusal as an outage (`search/index.tsx:295`-`301`); the API, as a
  bad request;
- `rebuildIndex(name)` sends the name of an index, at which the server does not look: it
  rebuilds all (`binary_protocol.zig:456`);
- the reply to `rebuildIndex` is three `u64` (`binary_protocol.zig:1709`-`1724`);
  the client reads a `u64` and a `u32` (`dmoz-client.ts:1066`-`1079`) and the
  integrity page shows it (`ReplyUnderstood` excepts it);
- the limits of entities are written twice (`dmoz-client.ts:185`-`187` and
  `entities.ts:29`-`32` against `facts/entities.zig`), `via: []` packs to 0,
  which the server reads as all, a length of text wraps at 2^16, and a limit
  over 255 spills into the next byte.

Moderation and submission:

- a page of a list that fails to load, a timeout included, is rendered as an empty
  last page with no error shown (`links.tsx:144`-`160`, `233`-`259`): to the moderator
  the list ends there;
- two edits of one link may undo each other (`links/[id]/edit.tsx:78`, `99`);
  neither a bulk move (`bulk-move.ts:25`) nor a category's new name enriches the
  links again, whose documents name the category;
- that links do not live in a root category is checked by `new.tsx` and
  `edit.tsx` only;
- an edit that fails half-way is not repaired (`reported` of `Moderation`);
- the comment on bulk deletion says that links are kept
  (`bulk-delete-categories.ts:9`-`11`), the server deletes them
  (`operations_category.zig:166`-`205`);
- the subcategories of a category chosen before may arrive after those of the
  present one (`SubmitCategoryFields.tsx:43`-`46`; `SubcategoryIsOfTop` excepts
  raced lists), and the server does not check the parent;
- a url is cut at 64 characters in silence, so that "too long" is never said; a
  submission that timed out and was carried out is reported as not saved and
  refused as a duplicate when tried again;
- `ConfirmModal` shows the phrase typed before until its effect runs.

Reading:

- the counts of category facets ignore the year that is chosen
  (`facts.ts:64`-`93`); a failing relaxation discards the page; a query of one
  letter is refused by the server and shown as an outage; a category's page shows
  an outage as 404;
- the dashboard reads three lists one beside the other
  (`routes/dashboard/index.tsx:64`-`86`): a link whose status changes in between
  is counted twice or not at all;
- `demonymCountries` does not know of people's names, and a leading apostrophe
  hides a religion's word.

Accounts and OAuth:

- the last administrator can go in a race of two; a role in an access token is
  up to an hour old; sessions, codes and tokens of a deleted account remain;
- a lost answer to a refresh loses the grant; the next token is stored before
  the account is looked at and stays when that fails;
- `deleteUser` does not look at the result of its commit
  (`kv-users.ts:222`-`230`); registration can report an error after the account
  exists (`register.tsx:74`); `userIdToSubmitterId` has 32 bits (`utils.ts:40`).

Scripts: `migrate-canonical-root.ts` lists children up to 500, of which the
server gives 100, and then fails to delete the parent.

## 7. Not modelled

- *Keyword, vector and hybrid search, ranking, text and url parsers, filters of
  facts, countries and sites of a url*: read-only functions of trees the models
  keep exact, or arithmetic on floats and bytes. Their requests and replies are
  in `WireFormat`.
- *Cells of the vector indexes, the vector model, the embedder's and the entity
  network*: numeric kernels. `DerivedIndexes` has the membership of the indexes,
  `EntityFacts` takes labels as given.
- *The subtree cache*: `Moderation` walks the subtree as it is. What a stale list
  shows meanwhile is listed as a hazard; nothing in the repository promises
  otherwise.
- *Header upgrade*: a one-time upgrade of an old file format.
- *The verifier*: it reports; what it looks for are invariants here.
- *The codec, scratch memory, code generation, tests*: no state shared after
  they return, or none at run time.
- *A WAL that fails to write*, which refuses every later append; *bootstrap of
  the roots* and *the importer*, which are sequences of ordinary commits.
- *Paging by offset* (`backfill-category-vectors.ts` walks by it), *snapshot,
  latency and bulk import* of the protocol, which the web client does not use.
- *Expiry of OAuth codes and tokens* as times (a record may be found too old
  whenever it is looked at), *the listing of users*.
- *Markup, styles, menus, themes, MCP server, benchmarks, deployment*: front ends
  and tools without state of their own.

## 8. What could follow

- `HeaderUpgrade`: side file, page 0, fsyncs and a crash between any two.
- The subtree cache on top of `CategoryCounts`: is what it holds, once writes
  stop, the present tree?
- Two simultaneous forms and pages over one directory, with categories that
  change while a form is open.
