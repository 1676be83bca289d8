--------------------------- MODULE TransferCycle ---------------------------
(***************************************************************************)
(* The whole cycle of Buncker: POST /admin/analyze compares a Dockerfile   *)
(* with the manifest cache and the store, POST /admin/generate-manifest    *)
(* writes the transfer request, a stick carries it to `buncker-fetch       *)
(* fetch', which asks the registries, the response comes back on the stick *)
(* and POST /admin/import puts its blobs and then its manifests where      *)
(* Docker clients pull them.  Between the steps registries move tags and   *)
(* fail, short writes spoil files of the online cache and of the manifest  *)
(* cache, sticks are lost or imported again, the daemon is killed and the  *)
(* operator collects garbage with `buncker gc'.                            *)
(*                                                                         *)
(* What the modules of the components say in detail is one step here: a    *)
(* blob is imported or skipped (BlobStore), the request is the one of the  *)
(* analysis (AnalysisSlot), a digest is in the response or in ERRORS.json  *)
(* (Fetch), the response arrives unaltered or not at all (Upload).  Several *)
(* imports may run at once, as in the daemon.                              *)
(*                                                                         *)
(* Abstractions: a repository has one tag; a manifest is its tag, platform *)
(* and version and stands for its layers and its config; internal images   *)
(* take no part and the daemon passes no patterns of private registries;   *)
(* manifest ages and the `refresh' mark of a request are left out, because *)
(* the online side does not read the mark.                                 *)
(***************************************************************************)
EXTENDS Integers, Sequences, FiniteSets

CONSTANTS
    Tags,           \* registry/repository:tag
    Platforms,      \* os/arch
    Importers,      \* worker threads that run imports
    Digests,        \* digests of layers and configs
    Layers,         \* the digests each manifest names
    MaxVersion,     \* bound: a tag moves from version 0 up to this one
    Canonical,      \* manifests whose registry bytes are those that
                    \* json.dumps(sort_keys=True) writes
    Dockerfiles,    \* the operator's Dockerfiles: sequences of references
    MaxResponses,   \* bound: responses kept on the stick
    MaxTrouble,     \* bound: failures, losses, collections, moved tags
    Faults          \* kinds of trouble that may happen

Manifests == [tag : Tags, plat : Platforms, ver : 0 .. MaxVersion]

\* FROM --platform=plat tag, or FROM repository-of-tag@digest-of-manifest.
References == [tag : Tags, plat : Platforms, pin : {-1} \cup 0 .. MaxVersion]

AllFaults == {"manifest", "blob", "short", "skip", "cache", "lose", "move",
              "crash", "gc"}

ASSUME CycleAssumption ==
    /\ MaxVersion \in Nat
    /\ Layers \in [Manifests -> SUBSET Digests]
    /\ Canonical \subseteq Manifests
    /\ Dockerfiles \subseteq Seq(References)
    /\ MaxResponses \in Nat
    /\ MaxTrouble \in Nat
    /\ Faults \subseteq AllFaults

VARIABLES
    store,      \* digests of the blobs in the store
    cache,      \* manifests/<registry>/<repository>/<tag>/<platform>.json
    analysis,   \* server._last_analysis
    request,    \* buncker-request.json.enc on the stick
    stick,      \* the *.tar.enc files on the stick
    upstream,   \* the version each tag has in its registry
    spoiled,    \* digests whose file in the online cache is too short
    imp,        \* the imports that are running
    gc,         \* the operator's `buncker gc'
    trouble,    \* troubles so far
    told        \* history: absent digests that a result or a log line named

usb == <<request, stick>>
online == <<upstream, spoiled>>
offline == <<store, cache, analysis, imp, gc, told>>
vars == <<store, cache, analysis, request, stick, upstream, spoiled, imp, gc,
          trouble, told>>

-----------------------------------------------------------------------------
Keys == Tags \X Platforms
NotCached == -1
Garbage == -2      \* a file that is not JSON: a part of a manifest

\* The manifest in the cache under key k, if there is one that can be read.
Readable(k) == cache[k] \notin {NotCached, Garbage}
Cached(k) == [tag |-> k[1], plat |-> k[2], ver |-> cache[k]]

NoAnalysis == [made |-> FALSE, file |-> <<>>, missing |-> {}]
NoRequest == [made |-> FALSE, file |-> <<>>, images |-> {}, blobs |-> {}]

\* A response: its blobs, those among them that are too short, ERRORS.json, its
\* manifests, and (history) the file it was made for and the images whose
\* manifest was only logged as failed.
Response == [blobs : SUBSET Digests, torn : SUBSET Digests,
             errors : SUBSET Digests,
             manifests : SUBSET Manifests, file : Dockerfiles \cup {<<>>},
             unfetched : SUBSET References]
NoResponse == [blobs |-> {}, torn |-> {}, errors |-> {}, manifests |-> {},
               file |-> <<>>, unfetched |-> {}]

\* An import: the response, its blobs and manifests that are still to be done,
\* whether `imported' is above 0, and the digests of the result's errors.
Import == [on : BOOLEAN, from : Response, todo : SUBSET Digests,
           manifests : SUBSET Manifests, imported : BOOLEAN,
           errors : SUBSET Digests]
Idle == [on |-> FALSE, from |-> NoResponse, todo |-> {}, manifests |-> {},
         imported |-> FALSE, errors |-> {}]

\* The digests the impact report was asked about, the images it named, and
\* (history) whether it failed and the manifests cached since.
NoGc == [asked |-> {}, warned |-> {}, blind |-> FALSE, newer |-> {}]

TypeOK ==
    /\ store \subseteq Digests
    /\ cache \in [Keys -> {NotCached, Garbage} \cup 0 .. MaxVersion]
    /\ analysis \in [made : BOOLEAN, file : Dockerfiles \cup {<<>>},
                     missing : SUBSET Digests]
    /\ request \in [made : BOOLEAN, file : Dockerfiles \cup {<<>>},
                    images : SUBSET References, blobs : SUBSET Digests]
    /\ stick \subseteq Response
    /\ upstream \in [Tags -> 0 .. MaxVersion]
    /\ spoiled \subseteq Digests
    /\ imp \in [Importers -> Import]
    /\ gc \in [asked : SUBSET Digests, warned : SUBSET Keys, blind : BOOLEAN,
               newer : SUBSET Keys]
    /\ trouble \in 0 .. MaxTrouble
    /\ told \subseteq Digests

Init ==
    /\ store = {}
    /\ cache = [k \in Keys |-> NotCached]
    /\ analysis = NoAnalysis
    /\ request = NoRequest
    /\ stick = {}
    /\ upstream = [t \in Tags |-> 0]
    /\ spoiled = {}
    /\ imp = [i \in Importers |-> Idle]
    /\ gc = NoGc
    /\ trouble = 0
    /\ told = {}

\* n troubles are counted; trouble of one kind happens.
Count(n) == trouble' = trouble + n /\ trouble' \in 0 .. MaxTrouble
Trouble(kind) == kind \in Faults /\ Count(1)

-----------------------------------------------------------------------------
(* The offline side: analyze and generate-manifest *)

\* ManifestCache.get_manifest for a reference of a Dockerfile.  A digest is
\* looked for among the source_digests, which are those of the re-serialised
\* manifests; a tag is a path.
Resolved(r) ==
    IF r.pin >= 0
      THEN {m \in Canonical : m.tag = r.tag /\ m.plat = r.plat /\ m.ver = r.pin
                               /\ cache[<<r.tag, r.plat>>] = r.pin}
      ELSE {Cached(k) : k \in {l \in {<<r.tag, r.plat>>} : Readable(l)}}

RefsOf(file) == {file[i] : i \in 1 .. Len(file)}

\* The lookup meets a file that is not JSON.  For a digest all the files are
\* read, in any order, until one has it.
Raises(r) ==
    IF r.pin >= 0
      THEN Resolved(r) = {} /\ \E k \in Keys : cache[k] = Garbage
      ELSE cache[<<r.tag, r.plat>>] = Garbage

\* resolve_dockerfile: an image without a manifest is a warning; the blobs of
\* the others are looked for by name in the store.  A lookup that raises is
\* status 500, and the slot stays as it is.
Analyze(file) ==
    /\ \A r \in RefsOf(file) : ~Raises(r)
    /\ analysis' = [made |-> TRUE, file |-> file,
                    missing |-> UNION {Layers[m] : m \in
                                  UNION {Resolved(r) : r \in RefsOf(file)}}
                                \ store]
    /\ UNCHANGED <<store, cache, usb, online, imp, gc, trouble, told>>

\* Images are told apart by registry, repository and tag, so the platform of
\* the first one counts; a pinned image has the tag None.
SameImage(r, s) == r.tag = s.tag /\ (r.pin >= 0) = (s.pin >= 0)
ImagesOf(file) ==
    {file[i] : i \in {j \in 1 .. Len(file) :
                        \A k \in 1 .. j - 1 : ~SameImage(file[k], file[j])}}

\* The request replaces the one on the stick and the slot is cleared.
Generate ==
    /\ analysis.made
    /\ request' = [made |-> TRUE, file |-> analysis.file,
                   images |-> ImagesOf(analysis.file),
                   blobs |-> analysis.missing]
    /\ analysis' = NoAnalysis
    /\ UNCHANGED <<store, cache, stick, online, imp, gc, trouble, told>>

\* The slot is cleared, but the answer does not reach the stick.
GenerateLost ==
    /\ analysis.made
    /\ Trouble("lose")
    /\ analysis' = NoAnalysis
    /\ UNCHANGED <<store, cache, usb, online, imp, gc, told>>

-----------------------------------------------------------------------------
(* The stick and the online side *)

\* The manifest a registry has for image r: its own platform's, whether the
\* tag names an index or the manifest itself.  Nothing has the tag None.
Offered(r) == {m \in Manifests : /\ r.pin < 0
                                 /\ m.tag = r.tag /\ m.plat = r.plat
                                 /\ m.ver = upstream[r.tag]}

\* The response is written to the stick, where the operator has made room.
WriteResponse(response) ==
    /\ \E kept \in SUBSET stick :
         /\ IF Cardinality(stick) < MaxResponses
              THEN kept = stick
              ELSE Cardinality(kept) = MaxResponses - 1
         /\ stick' = kept \cup {response}

\* cmd_fetch: the blobs of the request and those of every manifest that could
\* be fetched; an image without a manifest is logged and left out, a blob that
\* cannot be fetched goes to ERRORS.json.  A short os.write spoils a file of the
\* cache, which is then skipped by the fetcher and packed as it is, in this
\* response and in all later ones.
Fetch(failed, broken, short) ==
    /\ request.made
    /\ failed \subseteq request.images
    /\ failed # {} => "manifest" \in Faults
    /\ broken # {} => "blob" \in Faults
    /\ short # {} => "short" \in Faults
    /\ Count(Cardinality(failed) + Cardinality(broken) + Cardinality(short))
    /\ spoiled' = spoiled \cup short
    /\ LET fetched == UNION {Offered(r) : r \in request.images \ failed}
           blobs == request.blobs \cup UNION {Layers[m] : m \in fetched} IN
       /\ broken \subseteq blobs \ spoiled
       /\ short \subseteq blobs \ (spoiled \cup broken)
       /\ WriteResponse(
                     [blobs |-> blobs \ broken,
                      torn |-> (blobs \ broken) \cap spoiled',
                      errors |-> broken,
                      manifests |-> fetched, file |-> request.file,
                      unfetched |-> {r \in request.images :
                                       r \in failed \/ Offered(r) = {}}])
    /\ UNCHANGED <<offline, request, upstream>>

\* `buncker-fetch cache clean' deletes the files of the digests D, spoiled ones
\* among them.
CacheClean(D) ==
    /\ D \cap spoiled # {}
    /\ spoiled' = spoiled \ D
    /\ UNCHANGED <<offline, usb, upstream, trouble>>

LoseStick ==
    /\ Trouble("lose")
    /\ request' = NoRequest
    /\ stick' = {}
    /\ UNCHANGED <<offline, online>>

\* A publisher moves a tag.
MoveTag(t) ==
    /\ upstream[t] < MaxVersion
    /\ Trouble("move")
    /\ upstream' = [upstream EXCEPT ![t] = @ + 1]
    /\ UNCHANGED <<offline, usb, spoiled>>

-----------------------------------------------------------------------------
(* The offline side: import *)

\* import_response: the archive is authentic; the errors of ERRORS.json are
\* logged and become part of the result.
ImportStart(i, response) ==
    /\ ~imp[i].on
    /\ response \in stick
    /\ imp' = [imp EXCEPT ![i] =
                 [on |-> TRUE, from |-> response, todo |-> response.blobs,
                  manifests |-> response.manifests, imported |-> FALSE,
                  errors |-> response.errors]]
    /\ told' = told \cup (response.errors \ store)
    /\ UNCHANGED <<store, cache, analysis, usb, online, gc, trouble>>

\* Store.import_blob of bytes that match; a file that exists is left alone.
ImportBlob(i, d) ==
    /\ d \in imp[i].todo \ imp[i].from.torn
    /\ imp' = [imp EXCEPT ![i].todo = @ \ {d}, ![i].imported = TRUE]
    /\ store' = store \cup {d}
    /\ told' = told \ {d}
    /\ UNCHANGED <<cache, analysis, usb, online, gc, trouble>>

\* Mutant: a mismatch is only logged.
ImportSkip_OnlyLogged(i, d) ==
    /\ d \in imp[i].todo
    /\ d \in imp[i].from.torn
    /\ imp' = [imp EXCEPT ![i].todo = @ \ {d}]
    /\ UNCHANGED <<store, cache, analysis, usb, online, gc, trouble, told>>

\* A blob whose bytes do not match, as long as the online cache has them so, or
\* that cannot be written, is an entry of the result's errors.
ImportSkip(i, d) ==
    /\ d \in imp[i].todo
    /\ IF d \in imp[i].from.torn THEN UNCHANGED trouble ELSE Trouble("skip")
    /\ imp' = [imp EXCEPT ![i].todo = @ \ {d}, ![i].errors = @ \cup {d}]
    /\ told' = told \cup ({d} \ store)
    /\ UNCHANGED <<store, cache, analysis, usb, online, gc>>

\* Manifest m of import i is done, and v is in the cache under key k.
Replace(i, m, k, v) ==
    /\ m \in imp[i].manifests
    /\ imp' = [imp EXCEPT ![i].manifests = @ \ {m}]
    /\ cache' = [cache EXCEPT ![k] = v]
    /\ gc' = IF gc.asked = {} THEN gc
             ELSE [gc EXCEPT !.newer = @ \cup {k}]
    /\ UNCHANGED <<store, analysis, usb, online, told>>

\* Mutant: the manifests are cached while the blobs are imported.
CacheManifest_Early(i, m) ==
    /\ Replace(i, m, <<m.tag, m.plat>>, m.ver)
    /\ UNCHANGED trouble

\* _cache_manifests_from_response, after all the blobs: whatever is cached for
\* the image and its platform is replaced, an older version or a newer one.  A
\* short os.write puts a part of the manifest there, and nobody notices.
CacheManifest(i, m) ==
    /\ imp[i].todo = {}
    /\ \/ Replace(i, m, <<m.tag, m.plat>>, m.ver) /\ UNCHANGED trouble
       \/ Replace(i, m, <<m.tag, m.plat>>, Garbage) /\ Trouble("short")

\* cache_manifest cannot write: the request ends with status 500.
CacheManifestFails(i) ==
    /\ imp[i].on
    /\ imp[i].todo = {}
    /\ imp[i].manifests # {}
    /\ Trouble("cache")
    /\ imp' = [imp EXCEPT ![i] = Idle]
    /\ UNCHANGED <<store, cache, analysis, usb, online, gc, told>>

\* Mutant: the worker goes on with the summary in place of its locals.
ImportEnd_Summary(i, cleanup) ==
    /\ imp[i].on
    /\ imp[i].todo = {}
    /\ imp[i].manifests = {}
    /\ imp' = [imp EXCEPT ![i] = [imported |-> imp[i].imported,
                                  errors |-> imp[i].errors]]
    /\ UNCHANGED <<store, cache, analysis, usb, online, gc, trouble, told>>

\* The result goes to the command line; with --cleanup it unlinks the file
\* when at least one blob was imported.
ImportEnd(i, cleanup) ==
    /\ imp[i].on
    /\ imp[i].todo = {}
    /\ imp[i].manifests = {}
    /\ imp' = [imp EXCEPT ![i] = Idle]
    /\ stick' = IF cleanup /\ imp[i].imported THEN stick \ {imp[i].from}
                                              ELSE stick
    /\ UNCHANGED <<store, cache, analysis, request, online, gc, trouble, told>>

\* The daemon is killed and restarted: what it had in memory is gone.
Crash ==
    /\ Trouble("crash")
    /\ imp' = [i \in Importers |-> Idle]
    /\ analysis' = NoAnalysis
    /\ gc' = NoGc
    /\ UNCHANGED <<store, cache, usb, online, told>>

-----------------------------------------------------------------------------
(* `buncker gc --execute': impact report, question, execution.  The GC report
   it works from is in BlobStore; after a restart the daemon has none and
   refuses, so Crash ends the command.                                      *)

Needs(k, S) == Readable(k) /\ Layers[Cached(k)] \cap S # {}

\* Mutant: the scan stops at the first manifest of a tag.
GcImpact_FirstPlatform(S) ==
    /\ gc.asked = {}
    /\ S \subseteq store
    /\ Trouble("gc")
    /\ gc' = [NoGc EXCEPT !.asked = S,
                          !.warned = {k \in Keys : Needs(k, S) /\
                                        k[2] = CHOOSE p \in Platforms : TRUE}]
    /\ UNCHANGED <<store, cache, analysis, usb, online, imp, told>>

\* gc_impact_report names every cached manifest that it can read and that needs
\* one of the digests; then the operator is asked.
GcImpact(S) ==
    /\ gc.asked = {}
    /\ S \subseteq store
    /\ Trouble("gc")
    /\ gc' = [NoGc EXCEPT !.asked = S, !.warned = {k \in Keys : Needs(k, S)}]
    /\ UNCHANGED <<store, cache, analysis, usb, online, imp, told>>

\* The impact request is refused or fails: the command line reads the error as
\* an answer with no `affected_images' and asks without a warning.
GcImpactFails(S) ==
    /\ gc.asked = {}
    /\ S \subseteq store
    /\ Trouble("gc")
    /\ gc' = [NoGc EXCEPT !.asked = S, !.blind = TRUE]
    /\ UNCHANGED <<store, cache, analysis, usb, online, imp, told>>

GcExecute ==
    /\ gc.asked # {}
    /\ store' = store \ gc.asked
    /\ told' = told \cup gc.asked
    /\ gc' = NoGc
    /\ UNCHANGED <<cache, analysis, usb, online, imp, trouble>>

GcDecline ==
    /\ gc.asked # {}
    /\ gc' = NoGc
    /\ UNCHANGED <<store, cache, analysis, usb, online, imp, trouble, told>>

-----------------------------------------------------------------------------
ImportStep(i) ==
    \/ \E response \in stick : ImportStart(i, response)
    \/ \E d \in Digests : ImportBlob(i, d) \/ ImportSkip(i, d)
    \/ \E m \in Manifests : CacheManifest(i, m)
    \/ CacheManifestFails(i)
    \/ \E cleanup \in BOOLEAN : ImportEnd(i, cleanup)

Next ==
    \/ \E file \in Dockerfiles : Analyze(file)
    \/ Generate
    \/ GenerateLost
    \/ \E failed \in SUBSET request.images, broken, short \in SUBSET Digests :
         Fetch(failed, broken, short)
    \/ \E D \in SUBSET Digests : CacheClean(D)
    \/ LoseStick
    \/ \E t \in Tags : MoveTag(t)
    \/ \E i \in Importers : ImportStep(i)
    \/ Crash
    \/ \E S \in SUBSET Digests : S # {} /\ (GcImpact(S) \/ GcImpactFails(S))
    \/ GcExecute
    \/ GcDecline

Spec == Init /\ [][Next]_vars

-----------------------------------------------------------------------------
(* Properties *)

\* A digest is accounted for: in the store, or named to the operator.
Accounted(d) == d \in store \/ d \in told

\* No silent gap: a cached manifest lacks a blob only if the operator was told
\* so, by ERRORS.json, by the errors of an import's result or by having it
\* deleted, although the import that brought the manifest may have been killed
\* at any point or run beside others, although the online cache may hold a
\* blob that no import accepts, and although the request listed the blobs of
\* another version.
GapsAccounted ==
    \A k \in Keys : Readable(k) => \A d \in Layers[Cached(k)] : Accounted(d)

\* An import that ends without errors has delivered what its Dockerfile asked
\* for: each image of the request is in the cache for its platform with all
\* its blobs, but for the images the online side only logged (a registry that
\* failed, an image pinned by digest), blobs deleted since, and a manifest of
\* which only a part was written.
CleanImportDelivers ==
    \A i \in Importers :
      imp[i].on /\ imp[i].todo = {} /\ imp[i].manifests = {} /\ imp[i].errors = {}
         => \A r \in ImagesOf(imp[i].from.file) \ imp[i].from.unfetched :
              LET k == <<r.tag, r.plat>> IN
                /\ cache[k] # NotCached
                /\ Readable(k) => \A d \in Layers[Cached(k)] : Accounted(d)

Complete(k) == Readable(k) /\ Layers[Cached(k)] \subseteq store

\* Why an image may lose a blob to gc: the report named it, its manifest was
\* imported while the operator was being asked, or the report failed.
Foretold(k) == k \in gc.warned \cup gc.newer \/ gc.blind

\* Whatever happens between the impact report and the operator's answer, gc
\* takes the blobs of an image only if the report named the image, unless its
\* manifest was imported while the operator was being asked or the request for
\* the report itself failed.
GcWarned ==
    [][\A k \in Keys :
         Complete(k) /\ cache'[k] = cache[k]
           /\ ~(Layers[Cached(k)] \subseteq store')
           => Foretold(k)]_vars
=============================================================================
