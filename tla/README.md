# Buncker: a TLA+ verification project

Buncker serves container images in an air-gapped network. An **offline daemon**
(`src/buncker`) keeps a content-addressed store and speaks the OCI registry
protocol; it analyses Dockerfiles and writes an encrypted *transfer request*
for what is missing. An operator carries that request on a USB stick to an
online machine, where **buncker-fetch** (`src/buncker_fetch`) downloads the
blobs and packs an encrypted *transfer response*, which is carried back and
imported. This directory models the parts of the two programs where
interleavings, failures and restarts decide whether they are correct, checks
them with TLC and proves the central results with TLAPS.

`PROJECT.json` lists components, runs, mutants, findings, hazards, theorems and,
for every definition, the source lines it models.

## 1. Inventory

### Components, their state and their operations

| Component | State | Operations | Modelled in |
|---|---|---|---|
| Blob store (`buncker/store.py`) | `blobs/sha256/<hex>`, `meta/sha256/<hex>.json`, `_last_gc_report` in memory | `import_blob`, `get_blob`, `update_metadata`, `gc_report`, `gc_execute`, `verify`; `gc_impact_report`, `list_missing` | BlobStore; ContentStore is what it promises; TransferCycle and Resolver the last two |
| Blob endpoint (`buncker/handler.py`) | open files of a pull | `GET /v2/<name>/blobs/<digest>` | BlobStore |
| Response import (`buncker/transfer.py`) | none of its own | `import_response` | BlobStore (loop over blobs), TransferCycle (errors, manifests); the `.deb` update is left out |
| Manifest cache (`buncker/registry_client.py`) | `store/manifests` | `cache_manifest`, `get_manifest`, `is_stale` | TransferCycle, Resolver |
| Resolver (`resolver.py`, `compose.py`) | none | `resolve_dockerfile`, `resolve_compose` and the lookups of an analysis | Resolver |
| Analysis slot (`buncker/handler.py`, `server.py`) | `server._last_analysis` under `_analysis_lock` | `/admin/analyze`, `/admin/generate-manifest` | AnalysisSlot |
| Transfer request (`handler.py`, `transfer.py`) | none | choice of images and blobs | TransferCycle; signing and encryption are left out |
| Streaming upload (`buncker/handler.py`) | `store/.uploads/<name>` | `PUT /admin/import` | Upload |
| Rate limiter (`buncker/server.py`) | a deque of timestamps per address, twice | `is_allowed` | Admission |
| Authentication and routing (`auth.py`, `handler.py`) | tokens read at start | `do_*`, `_check_auth`, `authenticate_request`, the routes | Admission |
| Worker pool and server (`buncker/server.py`) | pool of threads | accept, dispatch, time-outs | the threads of BlobStore, Upload and Admission |
| Fetch command (`buncker_fetch/__main__.py`, `fetcher.py`, `transfer.py`) | locals of `cmd_fetch`, thread pool | `cmd_fetch`, `Fetcher.fetch`, `_fetch_one`, `_fetch_manifests`, `build_response` | Fetch; as one step in TransferCycle |
| Online registry client (`buncker_fetch/registry_client.py`) | `_tokens` | `_request`, `_get_token`, `_exchange_token` | Fetch |
| Online cache (`buncker_fetch/cache.py`) | `~/.buncker/cache/blobs/sha256` | `has_blob`, `get_blob`, `store_blob`, `cache_clean` | Fetch; the files a short write spoils in TransferCycle |
| Keys and setup (`__main__.py`, `shared/crypto.py`, `auth.py`) | `config.json`, the env file, `api-tokens.json`, `tls/` | `setup`, `rotate-keys`, `api-setup`, `api-reset`, `serve` | KeyLifecycle |
| Local command line (`__main__.py`) | none | `prepare`, `import`, `gc`; `analyze`, `status` | the first three in TransferCycle; the others print an answer |
| Primitives, configuration, logging, word list | none | AES-GCM, HMAC, JSON, log lines | not modelled |

### How they interact

* The daemon serves every request on a thread of a pool. The threads share the
  store through the file system only; the one lock of the store, `_gc_lock`,
  covers a single assignment or a single read of `_last_gc_report`. `buncker
  verify` is another process on the same directory.
* `/admin/analyze` and `/admin/generate-manifest` communicate through one slot
  for all clients; the lock is taken three times, and the work is done between.
* PUTs of the same response from the same address share one path under
  `.uploads`, which each of them opens by name three times.
* The workers of the fetcher share a token, the cache directory and nothing
  else; `buncker-fetch cache clean` may run beside them.
* The administrative commands and the starting daemon share three files under
  `/etc/buncker` and a certificate in the store, which each command writes one
  after the other and without a lock.
* Offline and online side exchange files; nothing runs on both. What connects
  them is a cycle in which each half relies on what the other has reported:
  `ERRORS.json`, the errors of an import, and nothing else.
* Every request passes the worker pool, one or two limiters and the middleware
  before its handler; routes and access rights are two separate lists.

### What is hard, and what makes a component correct

* **Store**: a pull never sends other bytes than its digest names with 200,
  although short writes and decay can put such bytes under the name; only
  reported blobs are collected; blob and sidecar come and go together (a blob
  without a sidecar is invisible to GC), and importing again repairs what a kill
  has left; `verify` finds what is corrupted.
* **Analysis slot**: a client gets the request it asked for; 409
  `ANALYSIS_REPLACED` and 409 `NO_ANALYSIS` say what happened.
* **Upload**: a complete upload, resumed or not, reaches the import as it was
  sent; nothing unverified is decrypted (which two PUTs at once break).
* **Fetch**: the response accounts for each digest; retries are bounded although
  two loops multiply; an expired shared token costs nobody a blob; the cache
  never holds unverified bytes; the command ends.
* **Keys**: wherever a command is killed, the daemon is never open to the network
  without tokens; a configured mnemonic that the operator was shown is the one
  in the env file; a token that was reset is not accepted after a restart.
* **Transfer cycle**: a cached manifest has its blobs, or somebody was told that
  it lacks one; an import that ends without errors has delivered; `gc` deletes
  nothing an image needs without having said so.
* **Admission**: no handler runs that the token does not allow; an address gets
  no more than its limit, and is refused only when it really is that busy,
  although stamps are taken outside the lock.
* **Resolver**: the images of a Dockerfile are those `docker build` will pull for
  its `FROM` lines; every image is accounted for, present and missing digests are
  true of some moment of the analysis.

The hazards behind these properties are listed in `PROJECT.json`, each at its
line.

## 2. Modules

```
ContentStore  <- BlobStore (implements)
                 BlobStore     <- MCBlobStore (TLC)  <- BlobStoreProofs (TLAPS)
AnalysisSlot  <- MCAnalysisSlot                      <- AnalysisSlotProofs
Upload        <- MCUpload                            <- UploadProofs
Fetch         <- MCFetch                             <- FetchProofs
KeyLifecycle  <- MCKeyLifecycle                      <- KeyLifecycleProofs
TransferCycle <- MCTransferCycle                     <- TransferCycleProofs
Admission     <- MCAdmission                         <- AdmissionProofs
Resolver      <- MCResolver                          <- ResolverProofs
```

TransferCycle composes the components: each of its steps is what the module of
that component promises (see below). The MC modules of the first five add the
symmetry set of their threads; MCTransferCycle, MCAdmission and MCResolver hold
the instance: images, layers and Dockerfiles, the traffic, the texts. A definition
named `Action_Something`, marked "Mutant", is a plausible bug of that action; it
is not part of the specification and serves to show that a property can fail.

### ContentStore

The store as its users see it: `Put`, `Serve`, `Mark`, `Remove`, `Restart` and
`Decay`, each one step on a function from digests to contents. `BlobStore!Promise`
instantiates it with `content <- blob`, `marked <- reported`; the contents that
were served carry the same name in both. Every file access of BlobStore's threads
is one of these steps or invisible.

### BlobStore

Each file system access is one step, because nothing is locked. `blob[d]` is the
file of digest `d`: absent, whole (its bytes hash to its name) or torn.
`meta[d]` is the sidecar with `last_requested`; it may be torn too, and then
`gc_report`, `update_metadata` and `_write_sidecar` raise when they read it. `th[t]`
holds a worker's program counter and its locals: the sidecar it read and is
about to write back, the copy of the report `gc_execute` works from, the temp
file of an import. A whole `import_response` is `ImportStart`, then per digest
`ImportExists → ImportWriteTemp → ImportRename → ImportSidecarCheck → Read →
Replace`; a pull is `PullStat → PullVerify → PullStream → PullTouch → PullRead →
PullReplace`; collection is `ReportRead*, ReportPublish` and `ExecExists →
ExecUnlinkBlob → ExecSidecarExists → ExecUnlinkSidecar`. Failing writes, short
writes (of blobs and of sidecars), decay of files at any moment and a kill of the
daemon are actions, enabled by `Faults`. Time passes in days (`NextDay`).
`verify` passes over a file that has vanished (`VerifyIsFile`) and ends with an
exception if one vanishes between that test and its opening (`VerifyFile`).
`upset` records what the properties must except: an overlap of requests that
write to one digest, a failed sidecar write, a restart, decay.

Left out: `request_count`, `image_refs`, `media_type` and `first_imported`, which
no decision of the store reads; the order of a list of digests, taken as any order.
Decryption and HMAC are assumed to hand over an authentic archive or to fail.

### AnalysisSlot

One action per lock scope: `StoreAnalysis`, `CheckId`, `Clear`, and between them
`Analyze` and `Build` for the work outside the lock. An analysis is its id and
whether there is anything to request.

### Upload

The model of one upload path. A file is an inode with a sequence of chunks; a
worker keeps its descriptor while it receives, but hashes and imports by name, so
unlinking and truncating behave as on POSIX. `PutRange` is the resumption,
`EndOfBody` covers both the complete body and the client that hangs up, an import
may fail on an intact file (`IMPORT_ERROR`), `Timeout` the 60 seconds of the
server's handler, `Crash` the restart that leaves `.uploads` as it is.

### Fetch

`cmd` is the command (`CheckCache → Collect → FetchManifests → … → Build`), `wk`
the workers (`Take → Authorize → KeepToken → Deliver | Garbled | Unauthorized |
Busy | Refused | Broken → StoreExists → StoreRename`). The two attempt counters,
`try` in `_request` and `sha` in `_fetch_one`, are those of the code. A digest may
be listed twice by a manifest (`Twice`), which gives two futures. A token exchange
that is refused fails one blob (`AuthorizeFails`), one that times out or answers
something that is not JSON ends the command (`AuthorizeRaises`). `Expire` ages the
tokens in use, `CacheClean` deletes beside the command, `Crash` interrupts it. One
registry stands for the sequence of registries, each of which has a client and so
a token of its own; waiting times are left out.

### TransferCycle

`Analyze → Generate → Fetch → ImportStart → ImportBlob*, CacheManifest* →
ImportEnd`, with the stick between the two halves and `GcImpact → GcExecute |
GcDecline` of the operator beside them. What the other modules show in detail is
one step here: a blob is imported or skipped (BlobStore), a request is that of
its analysis (AnalysisSlot), the response has a digest or an error for it (Fetch)
and arrives unaltered or not at all (Upload). What is new is what lies between:
the images of a request are told apart by registry, repository and tag, manifests
by platform too; `Fetch` leaves out images whose manifest fails and only logs them;
an import writes its blobs first and its manifests afterwards, one by one, and a
kill leaves what is written; several imports may run at once; an old response can
be imported again; a tag moves between request and fetch. Short writes last: a
blob file that one has spoiled (`spoiled`) is packed into every later response
and refused by every import until `buncker-fetch cache clean` deletes it; a
manifest it has cut off (`Garbage`) makes `analyze` answer 500 for every
Dockerfile that names its image or a digest, until it is imported again. `told`
records the absent digests that some result or a log line named. Whether blob
files of the store rot is BlobStore's concern and no state of this module.

Left out: more than one tag per repository, ages and the `refresh` mark (the
online side does not read it), internal images.

### Admission

A request goes `Receive → Stamp → Admit | Refuse → Authenticate → Handle`; `Stamp`
is the reading of the clock and `Admit` or `Refuse` the part of `is_allowed` under
the lock, so threads may overtake each other in between. With `oci_restrict`
a pull goes through both limiters. The routing table (`Routes`), the middleware's
table (`RequiredLevel`) and what the product requirements allow (`MayRun`) are
three definitions, from three places. Router and middleware do not read one
path: `urlparse(self.path).path` drops parameters, fragment, scheme and host,
`path.split("?")[0]` only the query (`SeenPath`). With parameters or a fragment
the middleware still sees the prefix and asks for the administrator's token; with
scheme and host it sees a path it does not know and asks for none.
`AuthorisedOnly` excepts the latter form, see "Other observations".

### Resolver

A reference is a sequence of tokens, so substitution, `_normalize_registry` and
the parsing of `name:tag@digest` are modelled by what they do to it. Every turn of
a loop is a step: of the services (`SkipService`, `ResolveImageRef`,
`ResolveDockerfile`), of the lines of a Dockerfile (`ParseDockerfile* → Parsed`),
of the images and their digests (`FindManifest → CheckStale → Look* → Looked`),
and of what the result of a service adds to that of the Compose file
(`EndDockerfile → MergeMissing* → Merged`, or `EndService`). Other threads import,
delete and cache meanwhile (`Change`, `Recache`); a manifest may be cut off by a
short write, and then the lookup raises and the request ends with status 500
(`LookupRaises`). A Dockerfile that is not there is one whose first line cannot be
parsed. `Pulls` is the reference: what `docker build` pulls, stated for its `FROM`
lines, by quantifiers over lines, for the Dockerfiles in which Docker and Buncker
mean the same (`Comparable`); section 3 lists those in which they do not. Images
of `COPY --from` and variables in the default of an `ARG` are left out.

### KeyLifecycle

A command is a process in `pr`: it loads files when it starts and then writes
one file per step (`SetupConfig → SetupMaterial → SetupEnv → SetupStart → Show`,
`RotateConfig → RotateEnv → Show`, `ApiTokens → ApiCert → ApiKey → ApiConfig`,
`ResetSave`). `Kill` ends it before any of them, or within one, which leaves the
file torn (`write_text` truncates first). Mnemonics and tokens are numbers in
the order they are generated. The daemon starts in three steps, because it
reads three things at different times: the environment, the configuration, the
tokens with the certificate (`ServeEnv → ServeConfig → ServeTokens`). `Pair`,
`MakeRequest`, `MakeResponse` and `ImportResponse` are a transfer reduced to its
key. `lost` records that overlapping commands have overwritten each other's
work, which the code does nothing against; the properties about two files
exempt it. A starting service may find a file that it cannot read
(`NotReadable`, the fault `"unreadable"`) and then exits.

Left out: the encryption of the env file; which user owns a file, beyond that
fault; the copy of the CA certificate; a torn certificate (a killed `api-setup`
has not enabled TLS, so nothing loads it).

## 3. What TLC checks

### Runs that pass

| Run | Instance | Shows |
|---|---|---|
| `store_concurrent` | 2 digests, 2 threads, 4 requests, 2 days, failing writes and restarts; 1.3 million states | `ImportRepairs`, `PairedUnlessUpset`, `RemovedOnlyIfReported`; `KeepsPromise`, the refinement |
| `store_faulty_disk` | 1 digest, 2 threads, 4 requests, short writes, failing writes, decay, `verify`; 400 thousand states | `ServedIntact`, `VerifyFindsRot`, `RequestsFinish` |
| `analysis_concurrent` | 3 threads, 3 analyses, 3 requests | `RequestAsAsked`, `ReplacedTruthful` |
| `upload_one_at_a_time` | 1 thread, 3 chunks, 4 PUTs, all faults | `CompleteUploadDelivered` |
| `fetch_parallel` | 2 workers, 2 digests (one listed twice), 1 expiry, all faults but short writes | `ResponseAccounts`, `ErrorMeansMissing`, `CacheVerified`, `RequestsBounded`, `ExpiryHarmless`, `FetchEnds` |
| `key_lifecycle` | 2 commands at a time, 2 mnemonics, 3 tokens, kills, all failures, unreadable files; 1.1 million states | `ExposedOnlyWithTokens`, `ShownKeyInEnv`, `RestartRevokes` |
| `transfer_cycle` | 2 tags, 2 platforms, 2 versions, 3 digests, a pinned image, 2 troubles out of 9 kinds, 2 responses kept, 2 imports at once; 430 thousand states | `GapsAccounted`, `CleanImportDelivers`, `GcWarned` |
| `admission` | 2 threads, 2 addresses, four requests (a pull with the read-only token; imports with the administrator's token, with the read-only token and parameters behind the path, and without a token), every configuration, limits 1 and 2 in a window of 2, 4 ticks; 4.9 million states | `AuthorisedOnly`, `WindowLimited`, `RefusedOnlyIfBusy` |
| `resolver` | every Dockerfile of up to 3 of 10 lines with 3 sets of build arguments; 5 requests, 4 of them Compose files, over every store and cache with 2 changes meanwhile, torn manifests among them; 3.3 million states | `ImagesAsBuilt`, `NothingOverlooked`, `MissingTruthful` |

Each module but ContentStore also has its `TypeOK` checked in one of the runs.

Why the bounds are enough to be interesting: two threads meet on one file or one
sidecar, and a third party (`gc_execute`, `verify`, `cache clean`) is among the
four requests or is a process of its own; four requests are a report, an import, a
collection and one more that comes between; with two digests a request can fail on
the first and leave the second. Three analyses let an id be replaced twice while a
request for it is being built. With four PUTs, two can time out or break, one can
be refused and one complete the upload. Two workers and one digest listed twice
meet on a digest, on a token and in the cache. Two mnemonics are a setup and a
rotation, three tokens an `api-setup` and a reset; two commands overlap with each
other and with a starting service. In the cycle two troubles are one that breaks
something and one that breaks its repair, and two imports can hold the same
response or an older and a newer one; the images share a layer, one is asked for
on two platforms, one by tag and by digest, and a tag can move between any two
steps. The four requests pass one limiter or both and are accepted, refused for
their level or refused for want of a token; other methods, paths and tokens are
left to the proof, which ranges over all traffic. With two workers the lower bound of `RefusedOnlyIfBusy` is 0 for
the administrators' limit of 1 and says something for the limit of 2 only. Limits
of 1 and 2 are filled, evicted and filled again within 4 ticks, and a thread can
be overtaken by one whose stamp is a whole window later. Three lines are a
default, a stage and a use of it; each of the Compose files has two services that
share a layer or an image.

Deadlock is checked where the system never stops (`admission`, `resolver`). In the
other runs clients may stop sending, and the bounds on requests end every
behaviour; in `transfer_cycle` a torn manifest can make every Dockerfile's
analysis answer 500 while the stick is lost, and then nobody can do anything.

Fairness: `BlobStore!FairSpec` is weak fairness of each thread's steps. No thread
waits for another one (there is no lock around work and no queue between threads),
so this is only what the operating system's scheduler gives. `Fetch!FairSpec` is
weak fairness of the command and of each worker: every read from the registry has
a time-out (`_READ_TIMEOUT`), so a worker that has sent a request gets an answer
or an exception. The other specifications have no fairness, and nothing is claimed
to happen in them: whether the service comes up depends on files it may not be
able to read, and the cycle is driven by hand and does not always recover (see
below). None has fairness of faults, requests or time.

Many properties carry exceptions that the code really needs, and are silent about
what happens then; "Other observations" is not. `ServedIntact`: overlapping
requests and decay between the two readings. `PairedUnlessUpset`: an overlap, a
sidecar that could not be written, a restart. `ImportRepairs`: an overlap.
`ShownKeyInEnv` and `RestartRevokes`: overlapping commands; the first also says
nothing of a configured mnemonic that nobody has seen, which a killed rotation
leaves. `CleanImportDelivers`: images only logged as failed, a second platform of
a tag, a manifest cut off by a short write. `GcWarned`: a failed report and
manifests newer than it. `MissingTruthful`: digests another thread changed.

### Runs that show a disagreement

| Run | The code | What is said of it |
|---|---|---|
| `analysis_wiped` | the slot is cleared in another lock scope than the one that checked the id | `analysis_id` is there "to detect concurrent analysis overwrites" (`CHANGELOG.md:54`) |
| `upload_race` | a retried PUT truncates the file between the other's checksum and its import | checksum "validated before any decryption attempt" (`docs/architecture/15-security.md:8`) |
| `key_grace` | a response is decrypted with the current key only; `previous` in the configuration is never read | "Old keys remain valid during the grace period for in-flight transfers." (`README.md:419`) |

### Other observations, not runs

* `gc_execute` beside an import or a pull of the same digest may leave a blob
  without a sidecar, which no later collection sees, or a sidecar without a blob.
* `verify` reads every file in the blob directory: run beside an import it
  counts the temp files of `mkstemp` (`buncker/store.py:91`) as corrupted blobs
  (`buncker/store.py:386`).
* `setup` imports `contextlib` in the `try` block that writes the key material,
  after the write (`buncker/__main__.py:319`): if the write fails, the command
  ends with an `UnboundLocalError` before it has shown the mnemonic, and the
  configuration it leaves makes a second `setup` refuse.
* `setup` starts the service before it shows the mnemonic; killed between the
  two, it leaves a running service whose mnemonic nobody has seen.
* `api-setup` with a certificate that does not exist exits after it has saved the
  tokens (`buncker/__main__.py:462`) and then refuses to be run again.
* A write of `config.json` that was interrupted leaves a file every command
  refuses, `setup` and `rotate-keys` included.
* `gc_execute` works from a copy of the report, so a newer report that drops a
  digest does not stop a collection under way; the docstring
  (`buncker/store.py:307`) speaks of the latest report.
* `request_count` is raised by a re-import too and loses updates under concurrent
  pulls; `docs/architecture/4-data-models.md:14` says "number of pulls", and line 13
  calls `last_requested` "last pull by a build client". Nothing in the store
  decides by the count, so the model leaves it out.
* **Routing and authentication read the request target differently.** For a target
  with scheme and host (RFC 9112 requires servers to accept it) the router takes
  the path out of the URL (`handler.py:213` and its siblings), while the
  middleware takes the whole target (`auth.py:263`), finds no level for it
  (`auth.py:240`) and lets the request through without a token (`auth.py:279`).
  `AuthorisedOnly` does not hold for that form and excepts it by name. Computing
  the path once and handing it to both would remove the exception.
* **Files the packaged service cannot read.** `setup` and `api-setup` run as root
  and give `key-material` (`__main__.py:322`), `api-tokens.json` (`auth.py:44`) and
  `server-key.pem` (`auth.py:194`) the mode 0600; the unit runs as `User=buncker`
  (`packaging/buncker/debian/buncker.service:7`), so reading them fails
  (`shared/crypto.py:268`) and the service exits (`__main__.py:729`). The model has
  this as a fault, and no property says that the service comes up.
* A `rotate-keys` killed between its two writes leaves a service that refuses the
  mnemonic in the env file, the one that was shown last; nobody has seen the one
  the configuration has.
* A blob is verified, closed and opened again to be streamed (`handler.py:443`).
* `os.write` is called once and its result ignored (`buncker/store.py:93`, and in
  the same way in `buncker_fetch/cache.py`): a short write is renamed under the
  digest, although "All writes are atomic (temp + SHA-256 verify + rename)"
  (`buncker/store.py:27`). `CacheStaysVerified` has its absence as a hypothesis. A
  sidecar cut off in this way (`buncker/store.py:454`) makes every `gc_report`
  fail.
* The same single `os.write` in `buncker/registry_client.py:66` can leave half a
  manifest, and `get_manifest` raises on it (`:108`, `:177`): `analyze` answers 500
  for the Dockerfiles that name the image, and for those that pin any image not
  found before it, until the manifest is imported again.
* A blob file of the online cache that a short write has spoiled is skipped by the
  fetcher, packed into each response and refused by each import until somebody
  runs `buncker-fetch cache clean`: repeating the cycle does not repair it.
* A client that hangs up during an upload loses what it has sent: the short file
  fails its checksum and is deleted (`handler.py:973`). `docs/stories/6.6.story.md:20`
  says "`curl -C -` … resumes a previously interrupted upload"; this holds for a
  silent connection and for a restart only.
* A connection that breaks in the middle of a body raises something the retry
  loop does not catch (`buncker_fetch/registry_client.py:233`) and ends the whole
  command, although the docstring at `:298` speaks of a retry after a partial read.
* A corrupted blob is never repaired by itself: `import_blob` and `store_blob` do
  nothing when the file exists, and `list_missing` does not ask for it. It comes
  back only after the operator has deleted it.
* An image whose manifest cannot be fetched is logged and left out of the
  response without an entry in `ERRORS.json`: a clean import does not deliver
  it (`CleanImportDelivers` names the exception).
* An image pinned by digest is never obtained: its request carries no tag, and
  `source_digest` is the digest of JSON written anew, so that a cached manifest is
  found by its digest only if the registry's bytes happen to be the same
  (`docs/prd.md:66` and `:113` ask for it).
* The images of a request are told apart without their platform
  (`handler.py:698`): of a tag that a Dockerfile names for two platforms only the
  first is ever requested.
* The `refresh` mark of stale manifests is written into the request and read by
  nobody.
* An old response imported again rolls manifests back and gives them a fresh
  `cached_at`.
* A failed request for the impact report reads like a report that names nobody;
  `gc --execute` without digests is answered with 400; the local commands speak
  plain HTTP to localhost without a token, so they fail once TLS or the API's
  authentication is on.
* A window may admit one request more than the limit for each other worker
  (`server.py:38`). With `oci_restrict` the administrators' limit of 60 counts for
  pulls too, so the 200 of `README.md:551` are not reached.
* Where Docker and the resolver differ (outside `Comparable`, or left out of the
  model): a build argument the file does not declare is used by the resolver
  (`resolver.py:545`, pinned by `tests/buncker/test_resolver.py:172`), while
  Docker warns, ignores it and takes the default; `FROM scratch AS x` followed by
  `FROM x` counts as an external image; `name:tag@digest` keeps the tag in the
  repository; `docker.io/nginx` is not completed to `library/nginx`; variables in
  the default of an `ARG` are not expanded; images of `COPY --from` are not seen.
  `private_registries` (`README.md:328`) is never passed to the resolver.
* A Compose file sent as content has its `build` services only logged, and the
  stale manifests of a service's Dockerfile are not in its result; when the
  resolver raises, the temporary Dockerfile stays behind.
* A digest listed twice by a manifest may be in the archive and in
  `ERRORS.json` at once; `ErrorMeansMissing` says this happens in no other case.

## 4. What TLAPS proves

For every value of the constants allowed by the `ASSUME` of the module.

* `BlobStoreProofs!TypeCorrect` (`TypeOK`). Inductive as `TypeInv`, which adds
  that a thread about to rename has a temp file: without it `ImportRename` could
  put "none" into the store.
* `BlobStoreProofs!GcOnlyReported` (`RemovedOnlyIfReported`), an action property.
  `GcInv` says that the report in memory and every copy a thread works from
  contain only digests some report since the start named; `ExecUnlinkBlob` is
  the only step that deletes, and its digest comes from such a copy.
* `BlobStoreProofs!VerifyComplete` (`VerifyFindsRot`), for all faults. `RotInv` says
  that what was corrupted at the listing is still corrupted and either flagged or
  still to be hashed: `verify` reads beside requests that delete and replace, and
  passes over what has vanished.
* `BlobStoreProofs!ServedStaysIntact` (`ServedIntact`), for all faults. A pull
  opens the file a second time after it has verified it. `SoloInv` says that,
  unless requests have overlapped, a `gc_execute` is alone and at most one import
  runs, that the file of a pull about to open is whole unless it decayed, and that
  an import about to write or rename finds no file under the digest: so it cannot
  replace the one that was verified.
* `BlobStoreProofs!BlobsPaired` (`PairedUnlessUpset`). The property speaks of moments
  when nothing runs; `PairInv` says of all others that a digest whose blob and
  sidecar do not match has a thread between the two halves of its import or
  deletion, and what each thread still finds on disk. It rests on `SoloInv`.
* `BlobStoreProofs!ImportsRepair` (`ImportRepairs`), for all faults. `import_blob`
  writes the sidecar also when the blob file is there already, which is what
  repairs an import killed between the two. The invariant says of each step of an
  import which of the two files its digest has by then, and rests on `SoloInv` for
  nothing being deleted meanwhile.
* `AnalysisSlotProofs!RequestsAsAsked` (`RequestAsAsked`). `AskedInv` says that
  from the check of the id to the answer a thread's analysis is the one its
  client named: it was copied in the lock scope that compared the id.
* `AnalysisSlotProofs!SlotTypes` (`TypeOK`) and `ReplacedIsTrue`
  (`ReplacedTruthful`). `ReplacedInv` says that the slot is empty or holds what was
  stored last, which is what makes a different id in it mean "replaced".
* `BlobStoreProofs!StoreImplementsPromise` (`KeepsPromise`), for all faults:
  every step maps to a step of ContentStore or to none. `RefinementInv` is `GcInv`,
  without which `ExecUnlinkBlob` might remove what no report has marked, and
  `TearInv`: a torn temp file means that short writes are possible.
* `UploadProofs!UploadTypes` (`TypeOK`), for any number of workers on one path; it
  needs that a worker that receives has a file open. `CompleteDelivered`
  (`CompleteUploadDelivered`), for responses of any length and all faults, assuming
  one PUT at a time: the code does not enforce this, and the run `upload_race` shows
  what a second one can do. `AloneInv` says that the file at
  the path is a beginning of the response with perhaps some chunks garbled, that
  its length is the number of chunks the client is past, and that an inode not
  yet handed out is empty.
* `TransferCycleProofs!CycleTypes`, `NoSilentGap` (`GapsAccounted`), `CleanImport`
  (`CleanImportDelivers`) and `ImpactReportHolds` (`GcWarned`), for any images,
  platforms, layers, Dockerfiles, number of imports at once and amount of trouble.
  `CycleInv` carries the promise along the way: a response accounts for the blobs
  of its manifests (which is `ResponseAccounts` of Fetch), a manifest still to be
  cached has its blobs before it in the import, in the store or told, and an image
  that was fetched is cached or about to be.
* `AdmissionProofs!AdmissionTypes` and `OnlyAuthorised` (`AuthorisedOnly`), for any
  number of workers, addresses and limits and any traffic: every method, path, form
  of target and token, but for the exception of targets with scheme and host.
  `AdmissionInv` says that past the check a request has the token that the path the
  middleware sees requires.
* `AdmissionProofs!WindowsHold` (`WindowLimited`) and `RefusalsJust`
  (`RefusedOnlyIfBusy`, an action property), for any limits and window. The deque
  is evicted from the left only and threads enter it with stamps out of order, so
  neither follows from its length. `LimiterInv` says for each window that either
  the deque still holds all that was let through in it, and the limit bounds it,
  or a thread with a later stamp has evicted some: then the clock is past the
  window, and what was let through, *plus the threads that wait for the lock with a
  stamp in it*, is at most the limit and one for each other thread (`Bounded`). It
  says of each stamp in the deque that the earlier ones behind it, plus the threads
  that wait with an earlier one, are at most the other threads (`Overtaken`): hence
  a full deque has at most that many expired stamps. `Accounted` carries the bound
  from what the limiter lets through to what is served. The lemmas about the
  deque (`EvictedSuffix`, `DuringEvicted`, `DuringAppend`, `EarlierAppend`) count
  positions by injections between sets.
* `FetchProofs!TypeCorrect` and `FetchProofs!ResponseComplete`
  (`ResponseAccounts`), for all faults. `FetchInv` adds `PoolInv`: futures,
  workers and errors are about digests the command answers for, and workers are
  idle unless the fetcher runs. Without it `build_response` could report a
  digest of no request, and a late worker could add an error after the response
  was built.
* `FetchProofs!RetriesBounded` (`RequestsBounded`). `RetryInv` says that the
  requests sent for a blob are at most three times `sha` plus `try`: a new round of
  `_fetch_one` pays for the attempts of `_request` it starts over.
* `FetchProofs!ErrorsAreMissing` (`ErrorMeansMissing`). `OnceInv` says that a digest
  listed once has one future or worker at a time, that the cache does not have it
  until that one ends, and that an error about it excludes both.
* `FetchProofs!ExpiryCostsNothing` (`ExpiryHarmless`). `ExpiryInv` says, as long as
  nothing else goes wrong, that a worker that tries again meets no old token: only
  the expiry makes tokens old, and the first 401 has dropped the one kept.
* `FetchProofs!CacheStaysVerified` (`CacheVerified`), assuming `"short"` is not
  in `Faults`: `StoreRename` is the only step that puts a file into the cache.
* `KeyLifecycleProofs!NeverOpenWithoutTokens` (`ExposedOnlyWithTokens`), for any
  number of commands and all faults. `KeyInv` adds `TokensFirst`: a tokens file
  exists, perhaps torn, whenever the API is enabled in the configuration, in the
  copy a command has loaded or in a starting service, and from `ApiTokens` on in
  `api-setup` itself; `KeyTypes` is its type invariant. Without it the service
  could read "API enabled" and then find no tokens.
* `KeyLifecycleProofs!ShownMnemonicInEnv` (`ShownKeyInEnv`). `MnemonicInv` says that
  the commands in progress have different mnemonics that nobody has seen, and
  that the env file fits the configuration from the moment the command whose
  mnemonic is configured has saved it, which is before it is shown. It does not
  say that the mnemonic shown last starts the service.
* `KeyLifecycleProofs!RevocationHolds` (`RestartRevokes`). `TokenInv` says that what a
  command has generated is nowhere else until it is saved, and that, unless work
  was lost, the file never has a token that was declared invalid.
* `ResolverProofs!ResolverTypes` (`TypeOK`), for every request: any number of
  services, lines, images and digests, any store and cache. `Control` says how far
  each loop has come. The lemmas `NormalizeIs` and `ParseImageRefIs` say what
  `_normalize_registry` and `_parse_image_ref` cut a reference into.
* `ResolverProofs!NamesWhatIsPulled` (`ImagesAsBuilt`), for every Dockerfile of
  the model that `Comparable` admits, and for its `FROM` lines: constant defaults,
  declared build arguments. The property speaks of the result, the parser works
  line by line: `ParserInv` says what it must have after *n* lines in terms of
  these lines alone (the value of each `ARG`, the aliases, the images), which each
  line keeps (`ParserStep`). After the last line this is what the quantifiers of
  `Pulls` say (`ParsedAsBuilt`): arguments no longer change once there is a stage,
  so those a stage was read with are those in force. `AskedRight` shows that
  `_split_name` is the inverse of `_normalize_registry` on the names images are
  pulled by.
* `ResolverProofs!ResolvesAll` (`NothingOverlooked`). A digest that was seen is not
  looked for again, in a Dockerfile or across services, so what an image has in the
  result may have come from another. `CoverInv` says that what was seen is in a
  result, that the result of the Compose file covers the services that are done, with
  what is still being merged, and that of the service in hand the images done.
* `ResolverProofs!ResultTrue` (`MissingTruthful`). `TruthInv` says that each list of
  missing digests is true of the store but for what other threads touched, and that
  its digests are in the set of those seen, which is what keeps the merging from
  listing one again. How often a digest is in a list is counted by the lemmas about
  `Times`.

Only model-checked: liveness (`RequestsFinish`, `FetchEnds`), which is out of the
prover's reach. Every safety property of the passing runs is a theorem.

## 5. Not modelled

* Cryptographic primitives: libraries; an archive that was tampered with is
  assumed to be refused.
* Configuration and logging: no state of their own. The word list: data.
* `shared/oci.py` (`select_platform` and the reading of manifest JSON): a choice
  by two fields and a walk through a document; its result is the constant
  `Layers`.
* The `.deb` update of a response, packaging, TLS, start and stop of the server,
  and the queue in front of the worker pool, which only delays.
* Of the resolver: comments, continuation lines, quoting, `COPY --from`, variables
  in the default of an `ARG`.

## 6. Plan

Done: BlobStore, ContentStore and the refinement, AnalysisSlot, Upload, Fetch,
KeyLifecycle, TransferCycle, Admission, Resolver, their runs and the theorems
above.

Nothing of the plan is left but what section 4 leaves to TLC.
