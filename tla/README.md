# Gither: specifications and proofs

TLA+ modules of the parts of gither that keep state, TLC configurations that
check them on small instances, and proofs that TLAPS checks for every value of
the constants. Paths of code are relative to the repository (`src/gither/…`).

## 1. The system and its parts

Gither is a command line program and library for a federation of Git
repositories. A workspace file names repositories; `gither` routes queries to
them, audits and reviews changes, keeps a code graph, imports a corpus of code
tasks, ranks popular repositories, and takes part in a peer-to-peer network: a
node has an Ed25519 key, signs its repository's identity document and refs, and
announces them; receivers merge announcements into a `GossipState`.

| Component (code) | State | Operations | What is hard | What makes it correct |
|---|---|---|---|---|
| Gossip messages and state (`gossip.py`) | two dictionaries, in memory | `announce_*`, `ingest_refs`, `ingest_inventory`, `seeders` | no lock, several threads | only verified announcements, only the freshest, nothing genuine lost |
| Gossip network (`gossip.py`, `cli.py` `handle_announce`) | each receiver's state, publishers' clocks | announce, ingest, restart | reordered, repeated, lost messages, halves of an announcement that a relay takes apart; a one-second clock that may be set back | receivers of the same announcements agree; the one of the latest time wins |
| Peer keys (`peer.py`) | a seed | `sign`, `verify`, Node ID to key and back | decompression of points, a scalar and its multiples, texts that are no Node ID | what was signed verifies, what was altered does not, a key has one Node ID |
| Gossip transport (`transport.py`) | sockets, one server thread | `serve_once`, `exchange_with`, framing, `ingest_bundle` | partial reads, full buffers, timeouts, dead or silent peers | both sides end; a reply means the bundle was ingested |
| Node key and identity files (`cli.py`, `peer.py`, `identity.py`, `sigrefs.py`) | `node.key`, `rad.json`, `sigrefs.json` | `peer`, `rad-id`, `sigrefs`, `announce` | processes without a lock, kills between truncation and write | one identity; nothing signed with a key that was never on disk |
| Change notes and review packs (`changebook.py`, `review.py`, `gitops.py`, `audit.py`) | note files, Git's working tree | `change-note`, `review-pack` | the tree changes between git commands and between the sources of an audit; notes half written; a bound on the notes read; what `git status` lists depends on the index | ready means noted; a note unblocks; a defect that was there throughout fails the audit |
| Code-graph snapshots (`codegraph/store.py`, `analyze.py`) | one snapshot file | `analyze-python` | stale file statistics, edits between stat and read, marks carried from run to run | reuse never misses an edit; the printed figure is exact |
| P2P manifests (`p2p.py`) | one manifest file | `p2p-manifest`, `p2p-verify` | git commands of one record see different repositories; one repository of several fails | what is built verifies; an intact repository is listed; heads are reachable |
| Popularity report (`popularity.py`) | three cache files | collect, enrich, rank | bisection and paging, moving stars, retries, restarts, requests without a timeout | the most starred are listed; caches only grow; runs end but in a request that is never answered |
| Rosetta import (`codegraph/rosetta.py`, `query.py`, `models.py`) | three JSONL files | import, `Corpus.load`, `languages_for_task`, `chunks_for_task`, `top_tasks_by_language_count` | a listing that moves while it is paged, failing fetches, kills between files | nothing that stayed is missed; chunks and bridges agree |
| Routing, workspace, graph (`routing.py`, `workspace.py`, `graph.py`, `models.py`) | one workspace file | `discover`, `route`, `graph` | the walk meets directories that come and go; ties in scores | each repository once and none within another; the order of the file does not matter |
| Contributor enrichment (`enrichment.py`) | none between calls | `enrichment-score` | records in any order, with missing and odd fields | the order does not matter; a longer export never lowers a score |
| Licences, value text, benchmarks, Web3 fork text | none between calls | tables and texts | – | – |

How they interact: `announce` (network) reads the identity file that `rad-id`
wrote and Git's refs; `transport` hands bundles to `ingest_bundle`, which calls
the `GossipState` methods from the server thread and from the caller of
`exchange_with` alike; `review-pack` reads the notes of `change-note` and the
same git commands as the manifest; `route` and `graph` read the file that
`discover` wrote; everything else shares nothing but files.

## 2. Modules and the code

`Announcements` – the two announcements, what their signatures cover, ideal
signatures: a signature is the pair of the key and the signed body, so altering a field or
the node makes it fail. That the scheme of the code keeps this promise is what
`PeerKeys` looks at.

`Ed25519`, `DidKey`, `PeerKeys` – the scheme itself: point addition, recovery of
x, scalar multiplication, key derivation, signing and verification as `peer.py`
computes them, over any prime field whose order is 5 modulo 8; base58 and the
`did:key` text of a key; and a session of a node that makes a key and signs, a
carrier that alters at most one part, and a reader.

`FreshestView` – the abstract specification: one indivisible register for each
key, replaced only by a valid and strictly fresher item.

`GossipState` – `ingest_bundle` on a shared `GossipState`, for any number of
threads. `Receive` is the call; `Skip` the `except` clause or a rejected
signature; `Overflow` the one exception of an entry that is not caught, the
OverflowError of an infinite timestamp, which ends the call (`raised`) with what
was stored so far; `Verify` the signature check; `ReadCurrent` `dict.get` and the comparison;
`StoreRefs`/`StoreInventory` the assignment; `Return` the returned count. Each
dictionary access is one step because the interpreter may switch threads
between bytecodes and there is no lock. `Seeders` adds `seeders()`, which
iterates over the dictionary and raises when its size changes.

`GossipNetwork` – publishers and receivers. `Announce` is a run of `handle_announce`: it
reads the RID, the refs and the time, each of which others may change before it and
between, so it may print any combination; that covers identities replaced with `rad-id`, branches
that move and clocks that are set back. Receivers have `Kept`, the rule `GossipState`
implements, in one step. The refs and the inventory announcement are signed and
verified each on its own, so the carrier may put any of them in a bundle: `IngestRefs(r, a, b)`
is the refs list of a bundle whose halves are of `a` and of `b`, the same
announcement, two, or only one of them (the other is missing or does not verify),
`IngestInventory` its inventory list. A bundle may come at any time, again, or never; `Restart`
forgets everything. `got` and `bare` are histories, of the halves a receiver ingested and
of the inventories that came to it without their own refs.

`Transport` – a server thread (`serve_once`) and clients (`exchange_with`), two
byte streams counted in units with bounded buffers, the accept queue, every
timeout, a peer that closes, kills, and foreign peers that send anything or
nothing. `served` holds the clients whose bundle
`ingest_bundle` returned for; a bundle on which it raises ends the server thread
without a reply (`ServerIngestRaises`).

`OneShot` – the abstract specification of such an exchange, with neither frames nor
connections: of the callers one at most is served, if its bundle is sound; a call
returns only if it was served; any other raises, at any time. In `Transport` a
bundle is sound when it is an object within the limit that can be ingested (`Ingestible`), and what has
become of a call is read off its program counter (`Outcome`).

`NodeIdentity` – each command is a process with a program counter: the
existence check, the read, `write_text` as truncation and write, the signature
and the validation of an `IdentityDoc`, the threshold of `SignedIdentity`.
Two writers of one file leave the text of either or a mixture (`Garbled`).

`ReviewGate` – a developer who edits, deletes, stages (`git add`, `git mv`, `git reset`,
`git rm --cached`), reverts and commits: each file has a content in the working tree,
in the index and at HEAD. `Listed` is what `git status --porcelain` makes of these three, as
`_status_entries` returns it: staged files, but not the old name of a rename; tracked files
that changed since; untracked files, or the outermost directory above one that holds
nothing tracked. `write_change_note` with its git command, its name by second and slug, the
opening and the writing of the file; `build_review_pack` with `git status`,
the audit, which lists the sources and then reads one after another, the listing
of the notes and the reading of each. `PythonAudit` says when a source passes
the audit. A note carries what it was taken of (`taken`), which only the properties
look at. Which deletions git takes for renames is a parameter (`Renamed`): the proofs ask of
it that it names deleted files only, the run takes exact renames.

`Workspace`, `Discovery` – what is computed from a workspace
(`infer_repo_metadata`, `route_change`, `build_repo_graph`), and the walk that
makes one: one directory, or one git command, a step.

`Enrichment`, `Contributions` – the score of a pull request and the ranking of
contributors, and an export that grows between two calls.

`Tools` – puts `PeerKeys`, `Discovery` and `Contributions` into one specification of
sessions, since they share no state: a session is about keys, a workspace or scores.

`CodeGraphStore` – `build_repo_snapshot` file by file (`stat`, then read), reuse
by digest, `resolve_calls`, the snapshot file, and what is printed.

`P2PManifest` – the records of a workspace built one git command at a time
(`--is-inside-work-tree`, `rev-parse HEAD`, `branch --show-current`,
`show-ref`), content ids, one alteration, `verify_manifest`.

`TopRepositories` – bisection of the star range, pages, ranking, the batches of
language queries, the trees, retries, and the three caches. `Silence` is a request that
is never answered: `urlopen` has no timeout, so only a kill ends it.

`RosettaImport` – listing, fetching, writing three files, and a reader with its
queries.

The `*Proofs` modules hold the theorems of section 5. The `MC*` modules give
constants values.

PROJECT.json maps each definition to the lines it stands for. An operator
under a comment that begins with "Variant:" is not part of a specification: it is a plausible
mistake in the definition after it, kept to show that the properties notice it.

## 3. Runs

Each run finishes in under two minutes on two workers.

| Run | Question | Bounds and why they are enough |
|---|---|---|
| `GossipReceiver` | One thread ingests bundles in any order, again and again, while another asks for seeders: are the tables keep-the-freshest registers (`ImplementsViews`), is nothing genuine lost (`BundleIngested`), nothing else stored (`Authentic`), does a replay count nothing (`ReplayAcceptsNothing`), does `seeders` answer with nodes of the call's duration (`SeedersWithinCall`)? | three bundles over two nodes in which a fresher, an older, an equally old, an altered, a re-attributed, a malformed and an overflowing entry each meet the others; calls without bound |
| `GossipStateRace` (violation) | Is it still so with two threads? No: `NeverBackward` fails. | the same bundles, two threads |
| `GossipNetworkConverge` | Do receivers that ingested the same halves agree, does the announcement of the latest time win, has each seeder whose halves were not taken apart its refs – with clocks that show the same second twice or are set back? | one publisher, two RIDs, two digests of refs, two receivers (symmetric), two announcements at times 0 and 1 in any order, one restart (80,000 states): two announcements of one time or of two, of one RID or of two, their halves in every order and every pairing. Each property compares two announcements of a publisher; that it holds of any number is proved |
| `TransportExchange` | Does an exchange end, is it whole, does it succeed without a fault, and is it the exchange of `OneShot` (`ImplementsOneShot`)? | a client of this program and a foreign one, backlog 1, frames shorter and longer than a buffer and longer than the limit, bundles, bundles whose ingest raises, and what is no object |
| `NodeIdentityCommands` | Seven commands on the files, with `--new` and kills: one identity, keys on disk | two processes at once, three runs, three keys, two kills; a command that would create the key runs alone (`Serial`), which `NodeIdentityRace` drops |
| `NodeIdentityRace` (violation) | Two first commands at the same time | two processes, no kill |
| `ReviewGateNotes` | Is a ready review one whose changes are noted, does a note unblock, does the audit miss nothing that was there throughout? | a tracked file, an untracked one in a directory of its own below the first one's, and an internal one; contents that pass, that fail, that do not parse, and none; two changes of any kind, one second's change, one note read of several (790,000 states). Renames, untracked directories that are listed as such, files made in a noted one, and directories staged after the note all occur |
| `CodeGraphStoreRuns` | Does reuse ever miss an edit, is the figure exact? | a name defined in one file and called in another, all contents of one size, two edits, two runs, a kill |
| `P2PManifestBuild` | Does a manifest verify, list what is intact, advertise reachable heads, and reveal an alteration? | two repositories, two branches, two commits and two moves, two runs, a kill |
| `TopRepositoriesScan` | Are the top repositories found and kept through failures and silences, does a run end? | three repositories, stars 0–3, a search that returns two, batches of one; one change of stars, two runs, a kill |
| `RosettaImportCorpus` | Does the listing miss nothing, a failure cost one page, what the queries say of the corpus agree with its bridges? | two titles, pages of one title, texts with no, two and a splitting block, one edit, two runs, a kill |
| `ToolsSessions` | Is what a key signed accepted, what was altered refused, does a key have one Node ID (`GenuineAccepted`, `AlteredRefused`, `OneNodeId`)? Does `discover` find each repository once (`DiscoveredExactly`), are routes and links free of the order of the file (`OrderOfNoAccount`)? Are scores free of the order of the export and do they only grow (`OrderFree`, `ScoresOnlyGrow`)? | the curve over the field of 109 elements with a base point of order 13, keys of one byte, a 16-bit hash; seven seeds, three messages, every scalar and every Node ID one place away; six directories, one of a skipped name, two changes; exports of up to three records (250,000 states). The code takes the same branches for every such prime: both signs of x, y not below the field's order, points off the curve and scalars not below the order all occur |

A bound in a guard limits the environment (edits, kills, seconds, runs), never
the program. The interesting cases need few of them: a race needs two actors, a
lost update two writes, a stale cache one edit, a restart one kill.

`CHECK_DEADLOCK FALSE` is set where the system does stop: the commands, builds
and imports of a bounded number of runs, and the one-shot exchange.

Every property of a passing run has a mutant in PROJECT.json: a mistake in one
definition of the model under which TLC finds the property violated.

## 4. Fairness

`Transport`: weak fairness of the server thread's steps and of the steps of this
program's clients – the operating system schedules them, and every blocking call
has a timeout, so a blocked step is one that the timeout takes. A foreign peer
owes nothing, and no kill is ever owed. `AllEnd` is thereby a property of the
timeouts: without the one of the accepted connection it fails.

`TopRepositories`: weak fairness of the run's own step: a request is answered or its
connection breaks, both of which are steps of the client, and the process is scheduled. What the
code does not guarantee is not assumed: `urlopen` has no timeout (`popularity.py:274`), so a
request may instead fall silent, an action that nothing is fair to or against
and that leaves the run in `silent` for good. `EveryRunEnds` says that a run ends or is
in such a request: that splitting, paging, retrying and batching do not go on forever. A kill is
not owed. The other specifications state safety only and assume no fairness.

## 5. What is proved

Eight modules hold the theorems. Each EXTENDS the modules it is about; together
they rest on the named ASSUMEs of those modules, which TLC evaluates in the runs:
constants are of the kinds their comments say, and marks such as `None` are not
data. The inductive invariant is called `IInv` (`NIInv` for the network, `TIInv` for
the transport, `CallInv` for a query,
`WInv` for the walk of `discover`, `Taken` for scores, `Lettered` and `Signed` for peer keys, `EInv` for the one-shot exchange), and the argument is `Init => IInv`
(`InitIInv`), `IInv /\ [Next]_vars => IInv'` (`NextIInv`, one lemma for each action or
group of like actions), and the property from `IInv`. Every invariant was checked
by TLC before it was proved.

**`GossipProofs`** is about all of gossip: `GossipState`, `Seeders`, `GossipNetwork`
and `Transport`.

*`GossipState`*, for every set of threads, nodes, repositories and bundles.
`IInv == TypeOK /\ TodoOK /\ ItemOK /\ Authentic`: `StoreRefs` writes the
current item without looking at it again, so the invariant must know that a
thread about to read or write holds an item that was verified
(`ItemOK`), and that the rest of the bundle is made of the bundles' own items
(`TodoOK`). `TypeCorrect` and `Authenticity` hold with any number of threads: the
race does not harm them. With one thread (`OneThread`) the invariant is
strengthened by `WriteFresh`: what was not stale when it was read is not
stale when it is written. From it `Freshness` (`Spec => NeverBackward`) and
`Refinement` (`Spec => ImplementsViews`): reading and writing separately implements
the indivisible register of `FreshestView`. Tables that never go backward never
lose what they hold, so each entry of a bundle is still to do or held (`DoneOK`), which
gives `NothingLost`, of a whole bundle when the ingest returned and of what stood in front of the
infinite timestamp when that made it raise, and `ReplayCountsNothing`. `OneThread` cannot be dropped from
the results that state it, as `GossipStateRace` shows.

*`Seeders`*, for any number of threads that ingest. During a call, a node that
has advertised the RID throughout still does, it is in the answer once it was
visited, and what is in the answer advertised the RID at some moment (`CallOK`); a
call returns when every known node was visited, whence `QueryWithinCall`.

*`GossipNetwork`*, for every set of publishers, receivers, RIDs and digests,
whatever the publishers' clocks do and however carriers pair the halves. `NIInv` says that each
entry is one of the freshest announcements the table has *seen* under its key
(`EntryIsFreshest`), and that an inventory half is seen only after its refs half,
unless it is one of the `bare` (`RefsInFront`). That gives
`SeedersHaveRefs`. Receivers that saw the same in one table hold entries of the same age
(`SameAge`), and where the times of a publisher's announcements differ
(`DistinctTimes`) there is one freshest announcement, which gives the rest of
`Convergence`, and `LastAnnouncementWins`. `ReceiversHoldRegisters` joins the two
models: until a restart each table of a receiver is a register of `FreshestView`,
which is what `Refinement` shows `GossipState` to implement, so that the network may
take an ingest for one step.

*`Transport`*, for every set of clients, every length, buffer and backlog.
`TIInv` relates where each side is to how much it has written and read
(`ServerProgress`, `ClientProgress`) and says that nothing is written to a client
whose bundle was not ingested (`RepliesToServed`); a client that has read the
length prefix has therefore been served. Theorems `ReturnMeansIngested`,
`FramesWhole`, `TransportTypeCorrect`. `QuietSucceeds` needs more (`QInv`): a client is in the
queue or accepted only after it connected, and has not failed when it is accepted;
the thread is done only when it has written the whole reply, and then the client has
either something to read or all of it (`QuietPeerStays`). So neither side of a
quiet exchange finds the other gone. `ExchangeRefined` (`Spec => ImplementsOneShot`)
shows each step to be one of `OneShot` or to change nothing it speaks of:
`ServerIngest` is `Serve`, since nothing is served before it and what is
ingested was checked (`Checked`), and no step of it when the ingest raises; `ClientIngest` is `Return`, since a reply that was
read in full goes to the one who was served; a client that fails is `Raise`, also after
it was served. Of `AllEnd` two parts are proved. `NoneIsStuck`: buffers never hold more
than their capacity (`Buffered`) and nobody has read all of what it still waits for
(`Unread`), so a socket call has something to do or its timeout runs. `StepsRunOut`: each step
takes one participant to a later stage, or moves units of its frames within a stage,
and leaves all others where they are. What remains to TLC is that fairness takes the steps.

**`CommandProofs`** is about the commands a user runs on one machine: `NodeIdentity` and
the sessions of `Tools`.

*`NodeIdentity`*, for every set of processes, commands and strangers, when the user runs commands that create a key alone (`Serial`). `IInv` says that
such a command is alone (`Exclusive`), that a key in use is the one on disk, and
that a key is only made when there is none or another was asked for (`NodeFits`),
and that a document about to be written is signed by that key alone
(`DocFits`). Theorems `IdentityIsOne`, `KeysAreHeld`, `TypeCorrect`. `KeysAreHeld` is about keys that
were on disk before they signed; a key that `peer --new` replaced counts among them, and what
it signed stays until it is signed anew. Without `Serial` the first is false, as `NodeIdentityRace` shows.

*`Discovery`*, for any tree of directories, and whatever becomes of them during the walk.
`WInv` says that what is still to be visited and what was found lie apart, none below
another (`WalkApart`); that what was found was a repository at some time during the walk
(`WalkFits`); and that a repository which stayed and can be reached was
found, or lies at or below a directory still to be visited (`WalkCovers`). At the end none is
left to visit, which gives `DiscoveriesExact`. "Below" is the least set that is closed
under entering a directory, so that it can be reasoned about without recursion.

*`Workspace` and `Contributions`*. Two lists of the same things in the same strict order
are one list (`OneOrder`). A route and a graph are sorted by keys that tell their
entries apart, hence `AnswersOrderFree`: the answer is the same in whatever order the
repositories are given (`AnswerFits` is the invariant). A score is a sum, and a sum here is the
number of pairs of a place and a unit of what it adds; reordering an export maps
pairs to pairs (`SumSame`), adding a record leaves the pairs there were (`SumGrows`).
So the buckets of an author are those of the export before, moved (`Moved`), and with the
invariant that every standing is that of its export (`Taken`) follow `StandingsOrderFree`
and, of every step, `ScoresGrow`.

*`DidKey` and `PeerKeys`*. To the base 58 or 256, lean digits – none, or not beginning with 0 –
are those of the number they mean (`DigitsOfValue`), a number is what its digits mean
(`DigitsMean`), and leading zeros change no value (`ValueZeros`); so what `_b58encode`
and `_b58decode` do is undone by the other (`RewrittenBack`, `Base58`), whatever the length.
`NodeIdsDecode` says that a key is decoded from its own Node ID, `NodeIdsUnique` that no
other text decodes to it. The latter is about texts that were altered on the way, so its
invariant (`Lettered`) must know that what a node sends is a text of digits: its public key is
a number (`PublicType`), by the types of powers and multiples of points.

That the scheme keeps its promise, `GenuineIsAccepted` and `AlteredIsRefused`, is proved for every field,
curve, key length, hash and set of seeds and messages that satisfy `CurveAssumption`,
`FieldAssumption` and `GroupAssumption` of `Ed25519`. The last two are what RFC 8032 takes
its parameters to be: `Q` a prime for which `SqrtM1` is a root of -1, an addition without
exceptions whose multiples of the base point are a group of prime order `L`.
They say nothing of the code's algorithms, which the proof is about. Powers: `Pow` squares and
multiplies, and what it computes obeys the laws of powers (`PowOf`). Square roots: of the
two candidates `_x_recover` makes one is a root if there is any, and the even root is unique, so a point
decodes from what it was encoded to (`DecodeEncode`). Multiples: double-and-add from the lowest bit
is repeated addition (`MultOf`), so multiples of the base point add and multiply as
their scalars do (`MultipleSum`, `MultipleTimes`, `MultipleModL`), a summand
can be cancelled (`AddCancel`), and scalars below `L` have different multiples
(`MultipleUnique`). Bytes: a key is not larger than `KeyLen` bytes hold, so it comes back from its
Node ID (`BytesOf`). `Signed` is the invariant: a letter is what the node
signed but for the one part that was altered, and the verdict is what `verify` computes of it. Then
`verify_raw` compares `S B` with `R + c A`, which `sign_raw` made equal; with another scalar
below `L` it is another point, and one of `L` or more is refused before. With another message or key the two
sides agree only if the challenges or the multiples of the keys do, which is as much as can be
said without the hardness of the hash.

**`CodeGraphStoreProofs`**, for all finite sets of files and names and all contents.
`IInv` says that analyses are those of their digests wherever a snapshot is kept
(`AnalysesOK`), and that a mark never gets into the file, hence never into a later
run, while in a run's object only calls with a definition are marked (`MarksOK`).
Theorems `ReuseIsSound`, `FigureIsExact`, `TypeCorrect`.

**`ReviewGateProofs`**, for any files, directories, sources, slugs, writers, limits and
bounds, and any rename detection. `IInv` follows a review: what is yet to be read covers what
has been defective throughout (`AuditFits`); what it listed covers what has differed from
HEAD throughout, renamed files apart, and it is ready only if the notes it read cover that
list (`NotedFits`); a note lists what `git status` listed of what it was taken of (`NotesFit`);
and a note that has been current throughout was taken of what the review listed and is loaded
before any other (`CurrentFits`). That a file which differs from HEAD is listed, by itself or by a
directory above it, is `AlteredIsListed`, the one place where the rules of the listing matter; it
needs that an untracked file has one outermost untracked directory (`UntrackedIsListed`). Theorems
`TypeCorrect`, `AuditIsSound`, `ReadyIsNoted`, and `NoteIsEnough`, which
assumes that a review loads at least one note (`Limit # 0`): with a limit of none,
no note can be enough.

**`P2PManifestProofs`**, for any workspace, branches and bounds. Of a repository:
a commit that is not loose is an ancestor of a branch (`GitFits`), and whatever an
owner does, commits, loose commits and the ancestors of a commit only become more
(`Grows`). Of a run: a repository that is not intact is known to be disturbed, and
what was read of an undisturbed one names a head that is loose or on one of the
refs (`Advertised`), which `Grows` keeps. Theorems `BuiltIsGood`,
`IntactIsListed`, `HeadIsReachable`. `AlterationIsLocated` rests on the record id
and the manifest id, which cover all other fields, so that a change of one place
breaks the id of the record and of the manifest, and of nothing else.

**`OrderingProofs`**, the lemmas about sorting, selecting and recursion that the next two and
`CommandProofs` need.
The code sorts with a key and filters with comprehensions; `Ordering` says both without
recursion: `InOrder(S, before)` puts at place n the element that has n - 1 others before
it, where the order is a set of pairs, and `Kept(s, I)` keeps the places in `I`.
`InOrderSorted`: for every finite set and every relation that is total on it, this lists each
element once, in the order of the relation. `KeptPlaces`: what is kept comes in the
order of its places, each of which it has once (`KeptBy`). `KeptInterval`: keeping consecutive places is taking a part. The
induction they need is the one principle the prover's library has as a fact about sets
(`<` is well founded on the naturals, hence `NatMin`, `SetInduction`, `NatMax`). From it
`RecursiveExists`: there is a function with the values a recursion prescribes, when each
is made from that at a smaller argument, both given as functions.

**`TopRepositoriesProofs`**, for any set of repositories, limit, page and batch size,
and however often a run fails or is killed and the next one reads what it left. `IInv` has
a part for each thing a run relies on. `SplitOK`: the ranges still to be split and the buckets
lie side by side, so nothing is in two of them. `CoverageOK`, as long as no star is given:
nothing falls between them; what was fetched of a bucket is the beginning of what a
search of it answers; the buckets still to come lie below the list. `ListsOK`: the list
never names a repository twice, and is ordered from its sorting on. `PhasesOK`: what
belongs to one phase is empty in the others. `LanguagesOK`, `ScriptsOK`: caches hold a
repository's own languages or say that they were asked for in vain; what a record lacks is
`missing`; a file that is about to be emptied holds no more than the run does. `FilesOK`: a file
is what some run held, or blank. Theorems `TypeCorrect`, `TopIsComplete`, `ReportIsRanked`,
`ReportIsEnriched`, and of every step `CachesOnlyGrow`. Adding the fetched pages is a fold in
the model, as it is a loop in the code; `AddAll` says what it results in, from the fold's
defining equations. `StepsRunOut` is the part of `EveryRunEnds` that can be proved: the phases of a
run come in one order, and within one the star ranges that lie in a range still to be counted
(`CountedOnce`: a subset of the finite `StarRange`, and no range lies in its halves or in those above it),
the buckets, the pages of a bucket, or the repositories to ask for become fewer, or
an attempt is used up.

**`RosettaImportProofs`**, for any wiki, page size and limit. `ListOK`: the titles come in
ascending order, all before the next answer, and no title that was there throughout and
comes before it is missing – which is why it does no harm that the list moves while it is paged.
`FetchOK`: each title is parsed, failed or still to do, and the chunks of a task are those
of one text that was fetched for it. `WriteOK`: an import that writes has
already written the files before the one it is at, and what a complete import leaves is of
one import. `ReadOK`: what was read since the last write is what the files hold. Theorems
`TypeCorrect`, `ListingIsComplete`, `FailuresAreSkipped`, `CorpusIsOfOneImport`; the last
also needs what the queries and `build_bridges` make of any list of chunks (`BridgesOf`,
`QueriesOf`, `TopTasksRanked`).

Only model-checked: the liveness properties (`AllEnd`, `EveryRunEnds`), since the prover has no
liveness under fairness and no ENABLED; that steps run out, and in an exchange that nobody is stuck,
is proved. Every safety property that a passing run checks is a theorem.

## 6. Where code and documents disagree

Two runs that find a violation of what the repository says:

1. `GossipStateRace`: one `GossipState` is fed by the server thread and by
   `exchange_with` without a lock; check and store interleave, and an older
   announcement replaces a fresher one (`gossip.py:180-184`).
2. `NodeIdentityRace`: two first commands create a key each, and one identity
   that was printed is lost.

Seen while modelling, without a run of their own because no text of the
repository promises otherwise, or because a model adds nothing to the sight:

* `ingest_bundle` catches KeyError, ValueError and TypeError, but `int()` of an infinite
  timestamp (`gossip.py:93`, `:140`; JSON `Infinity` or `1e999`) raises OverflowError: the ingest ends
  there, and the entries behind it are lost. This contradicts the docstring "Malformed entries
  are skipped, so a hostile peer cannot crash the receiver with bad data"
  (`transport.py:85-86`). The models have the step (`Overflow`, `ServerIngestRaises`), and
  `BundleIngested` says what is left: what stood in front of the entry is kept.
* A relay that drops or spoils the refs half of an announcement, or pairs its inventory half with
  other refs, makes a receiver list a seeder whose refs it does not have or has older
  (`transport.py:89-100`); nothing in the repository promises otherwise, and its tests make
  such states themselves (`tests/test_transport.py:69-77`, `tests/test_gossip.py:73-80`).
* A change note lists what `git status` listed (`gitops.py:89-109`): a file made later in an untracked
  directory that was noted needs no note; `git add` of that directory makes the review ask
  for a new note although no file changed; of a rename only the new path is listed, so
  that the old one goes is in no note.
* `urlopen` is called without a timeout (`popularity.py:274`): a silent connection holds a
  run until it is killed.
* `seeders` raises RuntimeError when another thread inserts a new node during
  its iteration (`gossip.py:198`).
* Timestamps are whole seconds (`cli.py:621`): receivers that got two announcements
  of one second in different orders keep different ones until a later one comes, and
  after a clock was set back its node's announcements are ignored until it has
  caught up. `Agreement` and `LatestWins` say what is left.
* Of two overlapping `announce` runs the one with the older refs can take the
  later timestamp (`cli.py:619-625`).
* `rad-id --name` replaces an established document with one signed by this node
  alone; the threshold is checked when a document is shown, not when it is replaced.
* A kill between truncation and write leaves a blank `rad.json`, `node.key`,
  snapshot, cache or manifest; the commands that read it raise until it is
  removed.
* A change note covers a path, not a content; two notes of one slug in one
  second share a file; `git status` and `git rev-parse` of one snapshot can
  see different trees.
* `resolve_calls` only adds marks, and `to_json` renders the files before it
  computes the statistics that set them: the file never holds a mark, which is
  what keeps stale marks from being carried on.
* A line separator such as U+2028 in a code block splits a line of
  `chunks.jsonl`, and `Corpus.load` raises.
* `p2p-verify` raises instead of reporting when a record's identity is not an
  object; a record says `available` with no refs when `.git` disappears before
  `show-ref`.
* A cached list of top repositories ignores a new limit; a repository for which
  GitHub answers no node is cached without languages for ever.
* The audit ignores a source when any part of its absolute path has an ignored name
  (`audit.py:168-170`): it finds nothing in a repository that lies under such a
  directory, and passes.
* Delegates are compared as texts (`identity.py:50`): a key written in two spellings
  (`did:key:z…` and `z…`) is two delegates.
* One git command that fails or takes five seconds ends the whole discovery
  (`workspace.py:69-77`).

## 7. What is not modelled, and why

The licence catalogue and the value rules (tables and texts that are printed),
benchmarks and the Web3 fork text (generated text); PDF and CSV output; the
extraction of code from wikitext and of definitions by tree-sitter, whose result
is a file's content here; queries of the corpus for a substring; rendering of
reviews and notes and their suggested actions; matched terms and reasons of a
route, which are wording; JSON text, of which only what fails to parse or to convert
matters; the contents of a ref set (a digest here) and tags; files that git ignores, and
renames git finds in the working tree (of files added with intent only). An altered letter of
`PeerKeys` has another scalar, message or key, never another R part; directories only go and
repositories only come during a walk of `discover`; `OrderFree` compares an export with its reverse.
Outside `PeerKeys` signatures are ideal, and everywhere SHA-256 is injective: that forgery
is hard is not a property of this code.

## 8. Plan

The order is that of importance to the network.

1. Done: `Announcements`, `FreshestView`, `GossipState`, `Seeders`,
   `GossipNetwork`, `Transport`, `OneShot`, `NodeIdentity` with their runs; `ReviewGate`,
   `CodeGraphStore`, `P2PManifest`, `TopRepositories`, `RosettaImport`; the peer
   keys, discovery and enrichment sessions of `Tools`.
2. Done: the proofs of section 5.
3. To extend: a composition of `Transport` with `GossipState` (two peers, each
   with a server and a caller on one state); namespaces and quorum of signed
   refs (`sigrefs.py`); an abstract specification of the review gate.
4. To prove: what the compositions and the abstract specification of item 3
   promise, step by step.
