# A verification development of codesearch as a service

TLA+ modules of the program in `src/`, TLC configurations that check them on
small instances, and TLAPS proofs of what holds for every size. The reference is
the code: each definition is a translation of the lines `PROJECT.json` ("map")
gives for it. `src/cmd/cindex-serve/main.go` is called `main.go` below,
`src/cmd/cindex-serve/cache/cache.go` `cache.go`, `src/repo/repo.go` `repo.go`.

## 1. The system

    origin --fetch--> cindex-git --metadata calls--> IndexMetadataService --> manifest directory
                          |                               ^   (cindex-serve)
                          +------WriteShard--> storage    | ListRepoRefs
                                                 ^        |
    browser --> csearch-ui --SearchShard--> SearchService + shard cache --ReadShard--> storage

Beside the service stand the original local tools: `cindex` writes and merges an
index file, `csearch` and `cgrep` search it.

| component | state | operations | what makes it correct |
|---|---|---|---|
| shard cache (`cache.go`) | map of entries, LRU list, three token counters under one mutex; a goroutine per load | Acquire, Get, Release, finish | tokens conserved and accounted, counts are handles, bytes stable under a reader, map, list and counters agree, nobody stuck, no panic |
| manifest (`repo.go`) | repos, refs, shards with a life cycle | CreateShard, Created, ReconcileShardStates | a ref points to a complete shard; states follow refs; defaults resolve |
| manifest directory (`repo.go`) | one directory per revision | LoadManifest, WriteManifest, CleanupManifests | behaves as one atomic manifest, across handlers, crashes and the cleaner |
| IndexMetadataService (`main.go`) | none of its own | AllocateShard, CompleteShard, UpdateRepoShard, SetDefaultRepoRef, five readers | an answered call took effect exactly once and stays in effect |
| indexer job (`cmd/cindex-git`, `k8s/cron.yaml`) | a clone, nothing else | fetch, look up, build, write, complete, update | a ref serves the tree of its commit; the ref catches up with its origin |
| storage (`cmd/storage`) | two files per shard | WriteShard, ReadShard, GetShardMetadata | what is complete stays so; a short read is an error |
| search service (`main.go`) | a request's handles and response | SearchShard: filters, match loop, snippets | the documents asked for are in the answer, counts and ranges are honest, handles go back, it ends |
| shard format (`index2`) | the writer's lists and blobs, then immutable bytes | AddObject, ToBytes, PostingQuery | posting lists are exactly the documents of their trigrams, ranges locate contents |
| local index (`index`, `cmd/cindex`) | files | Add, flush, merge, posting queries, trigram queries | postings sorted and exact; merge is the union with the newer side winning; a trigram query never misses a match |
| matcher (`regexp`), `sparse` | lazily built DFA, sparse sets | match, Add, Reset | agrees with the regular expression; is a set |
| expressions (`expr`) | none | Parse | the tree of the query |
| web interface (`cmd/csearch-ui`) | a result page | Search | a page has the results of every shard or is an error |

Behaviours that are hard here: requests that share a load and give it up
(cache), optimistic writers that race for a revision (manifest directory), jobs
that die between two of the five calls that publish a shard (indexer), late
calls of dead jobs, a file that is truncated under its reader (storage),
goroutines that share a counter (web interface), slices that share an array
(trigram queries), and the boundary cases of the index formats. Section
"hazards" of `PROJECT.json` lists each at its line with the properties about it.

## 2. Modules

| module | models |
|---|---|
| `ShardCache` | the cache; one action per handler, the eviction loop by iterations |
| `MCShardCache` | instances of it |
| `ShardCache_proofs` | its theorems |
| `Manifest` | values of `repo.Manifest`, the transition table, and what each handler does to a manifest, as operators |
| `Metadata` | the abstract service: one manifest, calls that commit atomically |
| `ManifestStore` | the directory of revisions, one action per system call; implements `Metadata` |
| `MCMetadata`, `MCManifestStore` | instances |
| `ManifestStore_proofs` | the refinement, and what readers of the directory find |
| `Manifest_proofs` | what each function of `Manifest` does and preserves |
| `Metadata_proofs` | theorems about every manifest that can be written |
| `Indexer` | the cron jobs over the atomic service and the shard files |
| `MCIndexer` | instances of it |
| `Indexer_proofs` | theorems about what the jobs publish |
| `MetadataReads` | the five calls that only read the manifest, and what their clients do with stale answers |
| `WebSearch`, `MCWebSearch` | the search page: a goroutine per ref, over `MetadataReads` |
| `WebSearch_proofs` | theorems about both |
| `SearchRequest`, `MCSearchRequest` | one SearchShard call |
| `SearchRequest_proofs` | theorems about its answers |
| `Snippets` | line numbers recorded per block, and the snippets cut from a match |
| `ShardRead` | a storage file between the stream that writes it and the loader that reads a range |
| `ShardFormat` | the flat shard: writer, layout, trigram lookup, posting queries |
| `LocalIndex` | the local index: trigram scan, sorted runs, heap merge, delta coded lists, posting queries |
| `IndexMerge` | runs of `cindex` and the merge of two local indexes |
| `MCIndexFiles` | instances of the four modules about index files |
| `TrigramQuery`, `MCTrigramQuery` | the query of a regular expression, string sets with their storage |
| `ExprParse` | the parser of search expressions |
| `SparseSet`, `InsertionOrder` | `sparse.Set` and the set it implements |
| `MCAlgorithms` | `SparseSet` with instances of `Snippets`, `ExprParse` and `TrigramQuery` |
| `ShardFiles`, `SnippetLines` | the parameters, variables and properties of `ShardFormat` with `ShardRead`, and of `Snippets`, for runs and proofs alike |
| `Parts_proofs` | theorems about `SparseSet`, `ShardRead`, `Snippets` and `ShardFormat` |

**ShardCache.** A Go handle (`*prepare`, `*loading`, `*entry`) is a record of its
kind and the loading object it leads to; `status`, `hash`, `count`, `element`,
`cancelled` are the fields of those objects. Everything under `Cache.mu` is one
step, except `tryLoad`, whose loop is split: `mu` names the client inside. The
waits of `loading.Get` and at the end of `Release` are steps of their own. A
collected object may be allocated again (`Reusable`), which bounds the objects
without bounding the loads. `Cancellable` says whether callers' contexts may end
during a load, `LoaderObeysCancel` whether a cancelled `Load` always fails
(`cacheLoader.Load` may return nil when the last block is in already).

**Manifest, Metadata, ManifestStore.** Requests are records; `Accepts` and
`Result` are the closures the handlers pass to `manifestTxn`. `Metadata` applies
them to one variable. `ManifestStore` has a directory instead: `ReadDir`, `Open`,
`Stat`, `Rename` are the system calls of `LoadManifest` and `WriteManifest`, in
their order, and other handlers, `CleanupManifests`, I/O errors and crashes come
in between. `Service == INSTANCE Metadata WITH manifest <- Current, ...` is the
refinement: a call takes effect when its rename succeeds. `Age` carries the one
assumption about time: from listing the directory to the rename a handler needs
less than the 24 hours of `repo.go:313`, however often it has started again.
`MaxRev` bounds the revisions, and `RevsLeft` the calls: one is only made while
there is a revision for it and for those under way, so the bound ends no race.
`MCManifestStore` adds `Renumber`: a directory that holds the latest revision
alone, numbered 1, is one that the same handlers may meet again. Races then have no
end, and a handler can lose for ever, as in the loop of `main.go:582-599`.

**Indexer.** Metadata calls are single steps, as `ManifestStore` justifies. A
shard file is absent, partial, or holds the index of a tree. `Die` is any
`log.Fatal`, signal or lost node; the call the job had sent may be executed later
(`Late`), since `manifestTxn` never looks at its context before the rename. One
job at a time per ref is what `concurrencyPolicy: Replace` gives; a job an
operator runs beside the cron's is not modelled, one run with `-force` in its
place is (`StartForced`).

**MetadataReads, WebSearch.** An answer is kept beside the manifest while others
change it, so the properties speak of what a client still may conclude when it
acts. `WebSearch` puts the page of `csearch-ui` on top of ListRepoRefs: one
goroutine per ref, each with its response, documents added one by one, and
`data.ResultCount` read and written in two steps since nothing locks it.

**SearchRequest.** One call from `Expr` to the response: validation, the shard by
its cache key, `toFilterChain`, each filter, the scan of the content filter over
the raw blobs, the loop over documents with its limit (`MaxDocs`, 100 in the
code) and the loop over matches. An expression is what `toFilterChain` makes of it
first, `byCode`: the parts of each code in their order; the order between codes
has no effect. Documents left to visit are a set, taken from the lowest id up as
a bitmap is. The cache is what it is to a request: blobs that load or fail, and
handles that must go back.

A regular expression is the list of its branches in the order of preference: a
word, which may be empty, with what the branch asserts of the bytes before and
after it, as `^`, `$`, `\b` and `\B` do (`Contexts` is no assertion). `a*` has the
branches aa, a and the empty word in texts of that length. The bytes a regular
expression is given have an `Edge` at both ends. `RawOf` is the DocInner: header,
content and padding, so an assertion sees other neighbours at the ends of the
content there than in the content by itself, and `FindIndex` of `b[off:]` sees an
edge where it goes on. The query of an expression has the pairs of letters of its
words, and is QAll if a word has none, so that the query filter lets through more
than the expression does, as trigrams do. The header is the same for
all documents: nothing is asked of it but that it stands before the content.
`MaxRanges` bounds the matches of a
document that a run looks at; no text of the instance is longer, so
only a loop that does not advance gets there.

**Snippets.** `BlockToLine` is what `computeTrigrams` records, `Snippet` what
`buildSnippets` makes of a match. A text is its newlines.

**ShardRead.** `OpenTrunc`, `WriteBlock`, `CloseWrite` are WriteShard;
`Size`, `OpenRead`, `ReadBlock`, `Recv` are GetShardMetadata, ReadShard and
`cacheLoader.Load`, with the blocks under way in `wire`. A byte is its version
and its place in the run, so that a byte in the wrong place shows.

**ShardFormat, LocalIndex.** The two index formats, from contents to queries.
Numbers are scaled: a few byte values with the classes of UTF-8 among them, file
ids below `Ids` with arithmetic modulo it, runs of `Npost` entries. What a
buffer or flatbuffers stores is the value a reader gets back. The reference is
the meaning of a query for one file (`Satisfies` in `LocalIndex`, `Satisfying` in
`ShardFormat`). The loops of `ShardFormat` (the scan, the lists, the bisection, the
three kinds of query) are functions of the number of rounds, and `Queries` comes
in levels, those of a level having only queries of lower levels in them: thus
`Answers` gives PostingQuery, which calls itself, as a function of the level.

**IndexMerge.** Files change, `cindex` indexes the paths it is given and merges,
and merged indexes are merged again. A name is a sequence of bytes with "/" and a
byte below it, because the order of a directory walk and of bytes differ there.

**TrigramQuery.** `analyze` in postfix order on a stack. A `stringSet` is a slice
`[a, n]` into an array of the heap, whose length is its capacity: `union`
appends in place as Go's append does, and `shared` records that two live sets
came to lie in one array.

**ExprParse.** The loop of `Parse` by steps; the consume functions return the
next position or fail. What `regexp/syntax` would call the inside of a class,
group or quotation is `Outside`, written independently of them.

**SparseSet.** Positions and stale entries as in the code; `InsertionOrder` is the
set with the order of insertion that it refines.

**Sums.** `MCIndexFiles` and `MCAlgorithms` run several modules that share
nothing: `program` or `algorithm` says which one a behaviour is of, and the
variables of the others stay `Nil`. Their properties are those of the modules, under the
condition that the behaviour is of that module; the assumptions on constants are
assumed there of each instance.

## 3. Runs

| run | configuration | shows |
|---|---|---|
| `cache_patient` | 3 clients, 2 keys of 1 and 2 tokens, 5 objects, capacity 2, with and without IgnoreLimit | while nobody gives up, map, list and counters agree: `TokensAccounted`, `HeldIsFound`, `LRUEvictable` |
| `cache_cancel` | 2 clients, 2 keys of 1 and 2 tokens, 4 objects, limit enforced, callers may give up, a cancelled load may succeed, fair | what survives: `TokensConserved`, `CountIsHandles`, `HeldBytes`, `WithinCapacity`, `InUseCovers`, and `Served`: Get and Release end |
| `cache_evict` | 2 clients, 2 keys of 1 token, cancelled loads fail | a defect, section 4 |
| `metadata` | 2 calls, 2 shards, 1 repo, refs "", main, dev | `Consistent`, `Acknowledged`, `CompletedForever`: the manifest can be read unchecked, answers stay true |
| `manifest_store` | 2 handlers, 2 shards, 1 ref, 3 revisions at a time, numbered from 1 again, and the cleaner, fair | `Implements`: the directory is the atomic `Metadata`; `RevisionsAreImmutable`; `Answered`: a call ends, unless others publish for ever |
| `indexer` | 2 jobs, 3 commits of 2 trees (commit 3 reverts to the tree of commit 1), 3 shards, 2 troubles | `RefServesItsCommit`, `CompletedIsStored`, `ForwardUnlessLate`: refs serve their commits, completed shards are stored, refs go back only by a late call |
| `indexer_live` | 1 job, 2 commits, 4 shards, 2 troubles, fair | `CatchesUp`: the ref catches up for good |
| `search` | 4 shards of 2 or 4 documents, inline or not, 81 expressions, with and without assertions and empty matches, 2 documents per answer, fair | `AnswerComplete`, `MatchesHonest`, `MatchesCover`, `AllReleased`, `SearchAnswers`, `PanicsOnPathsOnly` |
| `web_search` | 2 repositories, 2 shards, all requests between the reads | `ReadsStayTrue`, `PageComplete`, `CountBounded` |
| `index_files` | `LocalIndex`: up to 4 files of 9 contents, 8 byte values; `IndexMerge`: 3 files, 3 paths, 3 runs, 1 edit; `ShardFormat`: up to 3 files of 7 contents; `ShardRead`: files of 0 to 7 bytes and blocks of 2, 4 ranges; fair | `LocalExact`, `MergeExact`, `MergedConsistent`, `ShardExact`, `LoadExact`, `WorkEnds` |
| `algorithms` | sets below 4; texts of 6 bytes in blocks of 2; all query texts of 4 or 5 bytes over four alphabets; all expressions of two operators over nine atoms with limits of 2 | `HasIsMembership`, `ImplementsOrder`, `SnippetsExact`, `PartsExact`, `ParseEnds`, `SoundUnlessShared` |
| `trigram_shared` | one expression, the limits of the code | a defect, section 4 |

Several of these are conjunctions whose parts are named and explained in the
modules: `LocalExact` is `TakesLeast` (the heap gives the least entry),
`ListsExact` and `QueriesExact`; `ShardExact` is `PostingsExact`, `QueriesExact`
and `RangesLocate`; `MergedConsistent` is `NoPanic`, `PostingsFollow` and
`PathsReach`; and so on.

Bounds. Capacity 2 with contents of 1 and 2 tokens makes eviction, memory
pressure and loads beyond the limit all happen; three clients are needed for one
to hold what a second releases and a third loads. Two handlers suffice for every
race for a revision, since each handler only meets "somebody has published".
Three revisions are one for each handler and one before them; two shards let one
handler publish twice, and the cleaner remove the first, while the other still
holds what it loaded before both. The bound keeps
calls from being made, never one that was made from going on, and `Renumber` lets
calls follow each other for ever: that every call ends is false then, one handler
can lose each race (`main.go:582-599`), and `Answered` says that this is the
only way not to end. In
`Metadata` and `ManifestStore` an allocation is only requested while a fresh id is
left; in `Indexer` an allocation without one fails, as any call may.
`MaxTrouble` bounds deaths and forced runs: two deaths are enough for a late call
to meet a job that has restarted and died itself. Two documents per answer and
shards of four make the limit of SearchShard bind. Four files and runs of three
entries give up to four runs to merge, full and not, and file ids at both ends of
a list; three runs of cindex are the fewest in which a merged index is merged
again. Blocks of two bytes put a newline at every place of a block. Limits of two
strings and two characters make every simplification of the trigram sets happen.

Deadlock is not checked where the program ends: a panic may stop the server
(`cache_cancel`), a request, a page, a parse or a file's life has a last step
(`search`, `web_search`, `index_files`, `algorithms`, `trigram_shared`).

Fairness. `ShardCache`: a caller with a handle goes on to Get and Release
(`main.go` releases by defer) and loads end; steps that need the mutex are
strongly fair, since Go's mutex goes to a starving waiter. Nobody is made to
Acquire or give up. `ManifestStore`: weak fairness of each handler's next system
call; none for crashes, the cleaner or new requests, and nothing that lets a
handler win a race. `Indexer`: weak fairness of
starting each job (the cron), of its steps and of late calls; none for pushes,
deaths and forced runs, which the bounds make finite. `SearchRequest` and
`ExprParse`: a single goroutine runs until it returns. `LocalIndex` and
`IndexMerge`: the merge runs to its end once it has begun; nobody has to add a
file or to start a run. `ShardRead`: handler, stream and loader go on; nobody has
to write, to begin a load or to break the connection.

Every property of a passing run has a mutant: a variant of one definition, as a
plausible slip in that code would make it, under which TLC finds the property
violated (`PROJECT.json`, "mutants"; the variants stand before the originals in
the modules, marked as such).

## 4. What the runs found

Two runs contradict what the repository says of itself.

1. `cache_evict`: `finish` of a failed load deletes the mapping of its key
   (`cache.go:183`), which after a cancellation may be that of a newer load. The
   newer load's entry reaches the LRU list without a mapping; the eviction loop's
   type assertion (`cache.go:101`) then panics. `cache_test.go:83-85` asks for the
   map to cover the tokens.
2. `trigram_shared`: `alternate` takes two unions of one exact set
   (`index/regexp.go:607`), and `union` appends in place. With spare capacity both
   results lie in one array, and a prefix is lost: the query of
   `ff(aa|bb|cc|dd.*ee)` refuses texts that match. `index/regexp.go:17` says that
   a query "matches everything the regexp would match".

Other places where the code does less than one would expect are stated in
the properties as the exact condition under which they hold:

- A load that succeeds after its last handle was released keeps its tokens in
  use for ever (`cache.go:188`): `InUseCovers` is an inequality.
- A search without a content expression looks the raw blobs up under a name the
  loader refuses (`main.go:511`) and panics: `PanicsOnPathsOnly`.
- `manifestTxn` starts again as often as another call takes the revision it wanted
  (`main.go:582-599`); a handler that always loses never answers: the alternative in
  `Answered`.
- The loop over matches goes on where the last match ended (`main.go:535`). At an
  empty match it stays there for ever, and its list of ranges grows. `a*`, `x?`, `\b`
  and `$` have empty matches and are accepted as snippet expressions
  (`expr.go:200`, `main.go:373-383`); so has the alternation of no expressions:
  the condition `NeverEmpty` of `SearchAnswers`.
- The content filter matches the bytes of the DocInner (`main.go:336-339`), of which
  the content is a part. What is in the header or the padding may match, so answers
  may hold more than was asked for where no snippet is. They may also hold less:
  `^` is the beginning of the DocInner, and `$` and `\b` see header and
  padding where the content begins and ends, so `^package` drops every document.
  `expr.proto:21` says of such a part "Required the expression matches the content".
  `AnswerComplete` and `MatchesHonest` promise the documents that match within
  their content (`InnerMatch`), wherever that begins and ends.
- The search for the next match is in `b[off:]` (`main.go:528`), which has nothing
  before it: `^a` matches again after a match, and `\Ba` is missed just after one. The
  latter is the exception in `MatchesCover`.
- The line of a block is recorded before a newline that ends the block before it
  is counted (`index2/write.go:136`), so the first line of a snippet is one too
  small there, though `service.proto:20` calls it the line number: the exception
  in `FirstLineUnlessBoundary`.
- Merge takes a path for a string prefix (`merge.go:69`) and names for sorted by
  bytes, while the walk sorts by path elements (`merge.go:65`): the condition of
  `MergeExact`. Files of a sibling whose name begins like the path are dropped
  from the index.
- The merged list of paths leaves out a path that has another one as a string
  prefix (`merge.go:124`): `PathsReach` promises a prefix, not a directory.
- A merged index has no list for the sentinel trigram (`merge.go:337`), which an
  index written directly has.
- Concurrent searches lose additions to `ResultCount`
  (`csearch-ui/main.go:160`): `CountBounded` is an inequality when there are two.
- The parser ends a class at the "]" of a named class (`expr.go:55`), and drops a
  code that ends the query (`expr.go:293`): the conditions of `SplitsExact` and
  `WordsAreParts`.

## 5. Proofs

Every invariant and action property of the runs of `ShardCache`, `Metadata`,
`ManifestStore`, `Indexer`, `MetadataReads`, `WebSearch`, `SearchRequest`,
`SparseSet`, `ShardRead`, `Snippets` and `ShardFormat` is a theorem, and so are
the two refinements.

| module | theorems | of |
|---|---|---|
| `ShardCache_proofs` | `TokensAreConserved`, `CountsAreHandles`, `HeldBytesStay`, `UseIsCovered`, `CapacityIsKept` | any finite set of clients, any keys, objects, sizes and capacity; callers may give up |
| | `PatientTokens`, `PatientFound`, `PatientEvictable`, `PatientNoPanic` | the same, while no caller gives up |
| `Metadata_proofs` | `AlwaysConsistent`, `AnswersHold`, `NothingIsTakenBack` | any shards, repositories, refs, commits and clients |
| `ManifestStore_proofs` | `DirectoryImplements`, `RevisionsNeverRewritten`, `EveryRevisionSound`, `LatestNeverGoesBack` | any number of handlers and revisions, with errors, crashes and the cleaner |
| `Indexer_proofs` | `CompleteShardsAreStored`, `RefsServeTheirCommits`, `CommitsInOrder`, `BackOnlyByLateCalls` | any jobs, commits and trees, any number of deaths and late calls |
| `WebSearch_proofs` | `ReadersMayRely`, `PagesAreComplete`, `CountsAreBounded` | any manifest, any shards and results |
| `SearchRequest_proofs` | `AnswersAreComplete`, `CountsAreHonest`, `OccurrencesAreCovered`, `EverythingIsReleased`, `ContentNeverPanics` | any shards, expressions of any branches, header, padding and limit |
| `Parts_proofs` | `HasCorrect`, `DenseCorrect`, `SetRefines` | sparse sets of any capacity |
| | `LoadsAreExact` | files, blocks and ranges of any length |
| | `SnippetsAreExact` | texts, matches and blocks of any length |
| | `FormatCorrect` | any number of files, of any contents over any alphabet, queries of any depth |

Type invariants are proved where a module has proofs, and no run repeats them.
Each inductive invariant was checked by TLC on the instance of a run before it
was proved.

**ShardCache.** The first invariant, `IInv`, adds to the types and the sum of the
counters that only objects in use are listed, held or mapped: an object that is
"free" has no key. `CountIsHandles` needs finite cardinalities: a handle given
out or returned adds one to or takes one from the set of holders.

`CacheInv` is what holds in every configuration. `Shape` says how the parts fit:
the map has loads of its keys, a handle is of the key that was asked for, the LRU
list has idle bodies, each once, and what `tryLoad` has found out under the lock
is still so when it starts the load. `Sums` says what the counters cover: `inLRU`
is the total of the list, `inUse` at least that of the loads that are held or in
flight. None of these is inductive alone. An eviction gives back the tokens of the
entry the map has for the key, not of the element on the list; that these agree is
`Shape`, and that the eviction loop ends with room for the load is `Sums`.
`PatientInv` adds what cancellation destroys: a load in flight, held or listed is
what the map has for its key (`LoadingMapped`, `HeldMapped`, `ListedMapped`), and
`inUse` is exact. It holds under the hypothesis `~Cancellable`, which is
`cache_patient`; `cache_evict` shows that without it the map and the list come
apart, so the hypothesis is needed.

**Manifest and Metadata.** `Manifest_proofs` is about single manifests and serves
three developments. `Sound`, a predicate of a manifest, is preserved by the
function of each of the four calls (`AllocateSound`, `CompleteSound`,
`UpdateSound`, `SetDefaultSound`). `Sound` strengthens `Consistent` by
`DefaultIsRef` (a default that is set is a ref of the repo: without it the first
ref of a repo could leave a dangling default in place) and `Whole` (tree and sum
are recorded together: without it a half described shard could be described
again). `ResultKeeps` shows that no call takes back what another was told;
`AllocateEffect`, `CompleteEffect` and `UpdateEffect` say what a call does to each
shard and ref. `IInv` of `Metadata_proofs` adds to `Sound` the bookkeeping of
answered calls.

**ManifestStore.** The refinement rests on what a handler may still believe of the
directory it listed some system calls ago. The invariant has it for each handler
(`Handler`): its base is no later than the latest revision; if it is earlier, then
the very next revision is there (`Succeeded`), so that Stat or the rename refuses
the handler; if it is the latest, then the manifest the handler is about to write
is what its function makes of the current one (`UpToDate`). `Succeeded` holds
because `CleanupManifests` only removes what is older than 24 hours, and no
revision that a handler has not seen is that old (`SeenOld`). All steps but a
successful rename leave `Current` alone, and that one is a step of the call in
`Metadata`: the proof has one lemma for each system call. That revisions are never
rewritten and the latest never goes back follows from the same invariant.

**Indexer.** That completed shards are stored and refs serve the tree of their
commit is not inductive: that a late `CompleteShard` describes whole files depends
on who may still write to them. `IInv` therefore says who owns a shard. A job
between AllocateShard and CompleteShard owns the one it was given, alone
(`Owners`, `Alone`), and its files are as far as the job is; an id out of the
manifest has no files (`Fresh`); a completion left behind by a dead job is about
finished files that nobody owns (`LateCompletions`); an update, in time or late,
joins a shard to a commit of its tree (`Updates`, `LateUpdates`). There is one
lemma for each step of a job, one for its death and one for late calls.
`ForwardUnlessLate` needs the order of commits as well, `OrderInv`: a ref, and
every call a dead job has left behind, is no newer than the commit the ref's
running job has fetched. A job fetches the newest commit of its origin, which
bounds whatever earlier jobs have fetched because the origin only goes forward.

**MetadataReads and WebSearch.** An answer was true when it was given, and what it
says of complete shards no call takes back (`Told`, `Usable`, by `ResultKeeps`).
`UpdateRepoShard` accepts such a shard at any later time because no call leads to
DELETING (`NoneDeleting`). Of a page, `Added` joins what a goroutine has added to
what is left of its response. For the count, a goroutine's reading of
`ResultCount` is no more than what all have added up by now (`InStep`): additions
of others only make that sum larger, so writing back a stale one may lose counts
and never makes any up. That a page lists finitely many refs is proved too, from
the finitely many the manifest can have (`FiniteOK`).

**SearchRequest.** The invariant follows a request through its phases. Filters
take nothing that was asked for (`AskedInv`); documents are visited in order, so
the limit cuts off what comes after the last one returned (`OrderInv`); the count
is that of documents returned and of those to visit (`CountInv`); what the content
filter has let through is loaded, so the wrong name is never asked for
(`ChainInv`). That filters take nothing rests on `MatchWithin`: a match that asserts
nothing of where the content begins and ends is one in the DocInner too, whatever
stands before and after the content there. The matches of a document cover what
the expressions match up to the offset of the loop (`FindInv`), which rests on
`FindIndex` being the leftmost match (`Finding`), or the loop has met an empty
match where it stands and will not move any more (`Stuck`): no expression is
excluded, and no answer comes out of a loop that is stuck. A place that the search
of `b[off:]` cannot see is next to the last match (`Gap`, `FoundBefore`). The loader
has each key once, and all of them are released at each end (`LoaderInv`).

**SparseSet.** The inductive invariant says that the entry of every listed value
points to it (`Pointed`) and nothing about other entries: those may be left from
before a `Reset`. An entry that is believed has been checked against `dense`,
hence `HasLemma`, and the refinement follows from it: `Add` appends exactly when
the value is new.

**ShardRead.** What the loader has copied and what is under way follow each other:
`OnTheWire` gives each block its offset in the range, the last one ends where the
server reads, and no offset is beyond the length asked for, so that the copy never
cuts a block off. A byte fits a place (`Fits`) when it is that of the file before
or of the new one there, and of the new one where the load began after the write;
`FileFits` says so of the file at any time, whether or not it is being written,
since what the writer has written is the beginning of what it sends. After an
error nothing is said of the blocks: such a load fails.

**Snippets.** Each snippet is that of its match, and the rest is about one match.
`NewlinesAdd` counts newlines part by part. The record of the block before counts
up to its last byte without that one (`LineNumber`), which is the exception of
`FirstLineUnlessBoundary`. `StartOfLine` and `EndOfLine` need the last and the
first newline of a part to exist.

**ShardFormat.** `FormatInv` joins the writer to the documents it has taken in.
`Listed`: each trigram of the dense array is there once, its slot in the sparse
array points to it, and its list has exactly the documents that contain it;
entries of trigrams without a list may be anything. `DocsKept`: each document
begins where the one before ends and is as long as its piece (`Adjoin`). A file
that is refused after some lines changes neither, for its trigrams are in the set of
the current file only and `StartSet` empties that (`TrigramsComputed`, which also
shows that bytes across a newline make trigrams). After `ToBytes`, `Laid`: the
trigrams rise, each has its own list beside it, and the raw data or the hashes are
where the documents say. `FlushSorts` shows that the order of the flush is a
permutation that sorts, by ranks (`RanksSort`), and `FlatPlaces` that joining the
pieces keeps their places. From `Laid` follow the three parts of `ShardExact`: the
bisection keeps the trigram it looks for in its range (`Bisect`, `TrigramFound`),
a range cuts out its piece (`PlacedCut`, `RangesFound`), and for queries
`AndAnswered`, `OrAllAnswered` and `OrAnswered` say what each loop has after i
rounds: what satisfies all queries so far, one of them, none of them; an empty
filter ends the first early and cannot become larger. `AllAnswered` goes up the
levels of `Queries`. `Nil`, for all documents, is kept apart throughout.

`LoadsAreExact`, `SnippetsAreExact` and `FormatCorrect` are about the
specifications of their own modules; under `program` and `algorithm` the
same properties are those of the runs `index_files` and `algorithms`.

**Sums, loops and least elements.** The induction theorems of the library cannot be used,
since they take an operator; well-foundedness can. A sum over a set is a recursive
function over its subsets, and what adding or removing a member does to it is
shown by taking a minimal subset for which it fails (`MinimalSubset`, from `WFMin`
and the well-founded order of finite subsets); numbers likewise (`LeastNat`,
`Rounds`). A loop written as a function of its rounds exists because another
function, given explicitly, satisfies its equations (`LoopExists`, `SameLoop`). In
`WebSearch_proofs` the sum is that of the cells in columns of the members' height
(`WeightAdds`), which makes the order of the members irrelevant.

**Assumptions.** `CacheAssumption` and `StoreAssumption` (kinds of the constants,
finitely many clients; the values that stand for "none" are no others),
`ManifestAssumption` (likewise for ids, hashes and sums), `IndexerAssumption`
(every commit has a tree and every tree's shard file a sum, commits are numbered),
`ReadsAssumption` (a panic is not an answer), `FoundAssumption` (a search answers
with a sequence of documents), `MaxAssumption`. `SearchAssumption` has the kinds
of shards and expressions, that the edge of a text is no byte, that a DocInner has
a header, a limit that is not zero, and that `MaxRanges` is not
below the length of any document: matches that are not empty never
reach that bound, so it cuts no answer off. `ShardReadAssumption` (blocks are not
empty, files are sequences of bytes, no byte is the mark of none),
`SnippetsAssumption` (kinds of the constants) and `ShardFormatAssumption` (kinds of
the constants; of queries what `RegexpQuery` gives, "and" or "or" of something
with everything and nothing only at the top, where they are asked as well)
are hypotheses of their theorems.
TLC evaluates all of them in the runs.

Only model-checked: liveness (`Served`, `Answered`, `CatchesUp`, `SearchAnswers`,
`WorkEnds`, `ParseEnds`), which is out of the prover's reach, as ENABLED is.
`LocalIndex`, `IndexMerge` and `TrigramQuery` (`LocalExact`, `MergeExact`,
`MergedConsistent`, `SoundUnlessShared`) compute with RECURSIVE operators over
sequences and trees, for which the prover loses its SMT backend; what they
compute would be proved by induction over those. `PartsExact` compares the parser with
a scan of the whole text that is defined apart from it, so what relates the two is
an induction over texts that has not been found.

## 6. Not modelled

- `regexp`: the lazily built DFA, the splitting of rune ranges and the copied
  compiler. Its correctness is agreement with Go's matcher on all expressions, a
  question of data rather than of states; the sparse set it works with is
  modelled. In `SearchRequest` a regular expression is its branches, of words with
  assertions: what finds them in a text is a definition there.
- Generated code (protobuf, flatbuffers accessors), memory mapping, and the
  flags, walks and output of `csearch` and `cgrep`.
- Layout: offsets, varints and the trailer of the local index, flatbuffers tables,
  `bufWriter`. Case folding of trigram queries. Messages and templates.
- Code without a caller: `maybeRewrite`, `contains`, `maxLen` of
  `index/regexp.go`, `consumeString` of `expr.go`, `Add` and `paths.go` of
  `index2`; `Tombstone`, `Deleted`, `ReferencableShard`, `GetRef` and `GetShardID`
  of `repo.go`. `CleanupManifests` has none either, and is modelled because its
  age test is what keeps it from losing updates.
- File systems that lose writes in a power failure; temporary directories dead
  handlers leave; sizes and times in the manifest (nothing depends on them); what
  git fetches, in `Indexer`.

## 7. Plan

1. `RuneRanges` and `Matcher`: UTF-8 range splitting, and the DFA's states against
   the sets of NFA states they stand for.
2. Theorems about `ExprParse`: an invariant of the consume functions that relates
   the position to the parts already split off.
3. A larger composition: `SearchRequest` over `ShardCache` and `ShardRead`, in
   place of a cache that is a set of blobs.
