------------------------ MODULE TransferCycleProofs ------------------------
(***************************************************************************)
(* Proofs about TransferCycle, for any set of images, platforms, digests   *)
(* and Dockerfiles and any amount of trouble.                              *)
(***************************************************************************)
EXTENDS TransferCycle, TLAPS

\* What the three kinds of reader of a response rely on: a response accounts
\* for every blob of its manifests and has a manifest for every image that
\* was not logged as failed; ...
ResponseInv(r) ==
    /\ \A m \in r.manifests : Layers[m] \subseteq r.blobs \cup r.errors
    /\ \A ref \in ImagesOf(r.file) \ r.unfetched :
         \E m \in r.manifests : m.tag = ref.tag /\ m.plat = ref.plat

StickInv == \A r \in stick : ResponseInv(r)

RequestInv == request.made => request.images = ImagesOf(request.file)

\* ... an import that has yet to cache a manifest has each of its blobs before
\* it, in the store, or told; ...
PendingInv ==
    \A i \in Importers : \A m \in imp[i].manifests : \A d \in Layers[m] :
       d \in imp[i].todo \/ Accounted(d)

\* ... and an image that was fetched is cached or about to be.
Answered(i, ref) ==
    \/ \E m \in imp[i].manifests : m.tag = ref.tag /\ m.plat = ref.plat
    \/ cache[<<ref.tag, ref.plat>>] # NotCached
AnsweredInv ==
    \A i \in Importers :
       imp[i].on => \A ref \in ImagesOf(imp[i].from.file) \ imp[i].from.unfetched :
                      Answered(i, ref)

CycleInv ==
    /\ TypeOK
    /\ RequestInv
    /\ StickInv
    /\ PendingInv
    /\ AnsweredInv
    /\ GapsAccounted

-----------------------------------------------------------------------------
\* The images of a Dockerfile are references.
LEMMA ImagesOfType ==
    ASSUME NEW file \in Dockerfiles \cup {<<>>}
    PROVE  ImagesOf(file) \subseteq References
<1>1. CASE file \in Dockerfiles
  <2>1. file \in Seq(References)
    BY <1>1, CycleAssumption
  <2> QED BY <2>1 DEF ImagesOf
<1>2. CASE file = <<>>
  BY <1>2 DEF ImagesOf
<1> QED BY <1>1, <1>2

\* The manifest under a key of the cache is a manifest.
LEMMA CachedType ==
    ASSUME TypeOK, NEW k \in Keys, Readable(k)
    PROVE  Cached(k) \in Manifests
<1>1. k[1] \in Tags /\ k[2] \in Platforms
  BY DEF Keys
<1>2. cache[k] \in 0 .. MaxVersion
  BY DEF TypeOK, Readable
<1> QED BY <1>1, <1>2 DEF Cached, Manifests

\* What a Dockerfile's references resolve to are manifests.
LEMMA ResolvedType ==
    ASSUME TypeOK, NEW file \in Dockerfiles, NEW r \in RefsOf(file)
    PROVE  Resolved(r) \subseteq Manifests
<1>1. file \in Seq(References)
  BY CycleAssumption
<1>2. r \in References
  BY <1>1 DEF RefsOf
<1>3. <<r.tag, r.plat>> \in Keys
  BY <1>2 DEF References, Keys
<1>4. CASE r.pin >= 0
  BY <1>4, CycleAssumption DEF Resolved
<1>5. CASE ~(r.pin >= 0)
  <2>1. ASSUME NEW m \in Resolved(r) PROVE m \in Manifests
    <3>1. m = Cached(<<r.tag, r.plat>>) /\ Readable(<<r.tag, r.plat>>)
      BY <1>5, <2>1 DEF Resolved
    <3> QED BY <1>3, <3>1, CachedType
  <2> QED BY <2>1
<1> QED BY <1>4, <1>5

\* A fetched manifest is a manifest, and its blobs are digests.
LEMMA OfferedType ==
    ASSUME NEW S
    PROVE  /\ UNION {Offered(r) : r \in S} \subseteq Manifests
           /\ \A M \in SUBSET Manifests :
                UNION {Layers[m] : m \in M} \subseteq Digests
<1>1. \A r : Offered(r) \subseteq Manifests
  BY DEF Offered
<1>2. \A m \in Manifests : Layers[m] \subseteq Digests
  BY CycleAssumption
<1> QED BY <1>1, <1>2

\* The records that stand for "nothing" have their types.
LEMMA NothingType ==
    /\ NoResponse \in Response
    /\ Idle \in Import
    /\ NoAnalysis \in [made : BOOLEAN, file : Dockerfiles \cup {<<>>},
                       missing : SUBSET Digests]
    /\ NoRequest \in [made : BOOLEAN, file : Dockerfiles \cup {<<>>},
                      images : SUBSET References, blobs : SUBSET Digests]
    /\ NoGc \in [asked : SUBSET Digests, warned : SUBSET Keys, blind : BOOLEAN,
                 newer : SUBSET Keys]
<1>1. NoResponse \in Response
  BY DEF NoResponse, Response
<1> QED BY <1>1 DEF Idle, Import, NoAnalysis, NoRequest, NoGc

\* Initially the state has its types.
LEMMA TypeInit == Init => TypeOK
<1>1. 0 \in 0 .. MaxVersion /\ 0 \in 0 .. MaxTrouble
  BY CycleAssumption
<1> QED BY <1>1, NothingType DEF Init, TypeOK, NotCached

\* Import i has got further: its locals become r.
LEMMA ImportTypes ==
    ASSUME TypeOK, NEW i \in Importers, NEW r \in Import,
           imp' = [imp EXCEPT ![i] = r]
    PROVE  imp' \in [Importers -> Import]
BY DEF TypeOK

\* Every step of an import keeps the types.
LEMMA ImportTypeStep ==
    ASSUME TypeOK, NEW i \in Importers, ImportStep(i)
    PROVE  TypeOK'
<1>t. imp \in [Importers -> Import] /\ imp[i] \in Import /\ Idle \in Import
  BY NothingType DEF TypeOK
<1>1. ASSUME NEW response \in stick, ImportStart(i, response) PROVE TypeOK'
  <2> DEFINE r == [on |-> TRUE, from |-> response, todo |-> response.blobs,
                   manifests |-> response.manifests, imported |-> FALSE,
                   errors |-> response.errors]
  <2>1. response \in Response
    BY DEF TypeOK
  <2>2. r \in Import /\ response.errors \subseteq Digests
    BY <2>1 DEF Response, Import
  <2>3. imp' \in [Importers -> Import]
    BY <1>1, <2>2, ImportTypes DEF ImportStart
  <2> QED BY <1>1, <2>2, <2>3 DEF ImportStart, TypeOK, usb, online
<1>2. ASSUME NEW d \in Digests, ImportBlob(i, d) PROVE TypeOK'
  <2> DEFINE r == [imp[i] EXCEPT !.todo = @ \ {d}, !.imported = TRUE]
  <2>1. imp' = [imp EXCEPT ![i] = r] /\ r \in Import
    BY <1>2, <1>t DEF ImportBlob, Import
  <2> HIDE DEF r
  <2>2. imp' \in [Importers -> Import]
    BY <2>1, ImportTypes
  <2> QED BY <1>2, <2>2 DEF ImportBlob, TypeOK, usb, online
<1>3. ASSUME NEW d \in Digests, ImportSkip(i, d) PROVE TypeOK'
  <2> DEFINE r == [imp[i] EXCEPT !.todo = @ \ {d}, !.errors = @ \cup {d}]
  <2>1. imp' = [imp EXCEPT ![i] = r] /\ r \in Import
    BY <1>3, <1>t DEF ImportSkip, Import
  <2> HIDE DEF r
  <2>2. imp' \in [Importers -> Import]
    BY <2>1, ImportTypes
  <2>3. trouble' \in 0 .. MaxTrouble
    BY <1>3 DEF ImportSkip, Trouble, Count, TypeOK
  <2> QED BY <1>3, <2>2, <2>3 DEF ImportSkip, TypeOK, usb, online
<1>4. ASSUME NEW m \in Manifests, CacheManifest(i, m) PROVE TypeOK'
  <2> DEFINE k == <<m.tag, m.plat>>
             r == [imp[i] EXCEPT !.manifests = @ \ {m}]
  <2>1. k \in Keys /\ m.ver \in 0 .. MaxVersion
    BY DEF Manifests, Keys
  <2>2. PICK v \in {m.ver, Garbage} : Replace(i, m, k, v)
    BY <1>4 DEF CacheManifest
  <2>3. imp' = [imp EXCEPT ![i] = r] /\ r \in Import
    BY <1>t, <2>2 DEF Replace, Import
  <2> HIDE DEF r
  <2>4. imp' \in [Importers -> Import]
    BY <2>3, ImportTypes
  <2>5. trouble' \in 0 .. MaxTrouble
    BY <1>4 DEF CacheManifest, Trouble, Count, TypeOK
  <2> HIDE DEF k
  <2>6. cache' \in [Keys -> {NotCached, Garbage} \cup 0 .. MaxVersion]
    BY <2>1, <2>2 DEF Replace, TypeOK
  <2>7. gc' \in [asked : SUBSET Digests, warned : SUBSET Keys, blind : BOOLEAN,
                 newer : SUBSET Keys]
    BY <2>1, <2>2 DEF Replace, TypeOK
  <2> QED BY <2>2, <2>4, <2>5, <2>6, <2>7 DEF Replace, TypeOK, usb, online
<1>5. ASSUME CacheManifestFails(i) \/ \E c \in BOOLEAN : ImportEnd(i, c)
      PROVE  TypeOK'
  <2>1. imp' = [imp EXCEPT ![i] = Idle]
    BY <1>5 DEF CacheManifestFails, ImportEnd
  <2>2. imp' \in [Importers -> Import]
    BY <1>t, <2>1, ImportTypes
  <2>3. trouble' \in 0 .. MaxTrouble /\ stick' \subseteq stick /\ request' = request
        /\ UNCHANGED <<store, cache, analysis, upstream, spoiled, gc, told>>
    BY <1>5 DEF CacheManifestFails, ImportEnd, Trouble, Count, TypeOK, usb, online
  <2> QED BY <2>2, <2>3 DEF TypeOK
<1> QED BY <1>1, <1>2, <1>3, <1>4, <1>5 DEF ImportStep

\* Every step keeps the types.
LEMMA TypeStep == TypeOK /\ [Next]_vars => TypeOK'
<1> SUFFICES ASSUME TypeOK, [Next]_vars PROVE TypeOK'
  OBVIOUS
<1> USE DEF TypeOK
<1>1. ASSUME NEW file \in Dockerfiles, Analyze(file) PROVE TypeOK'
  <2>1. UNION {Resolved(r) : r \in RefsOf(file)} \subseteq Manifests
    BY ResolvedType
  <2>2. UNION {Layers[m] : m \in UNION {Resolved(r) : r \in RefsOf(file)}}
          \subseteq Digests
    BY <2>1, CycleAssumption
  <2> QED BY <1>1, <2>2 DEF Analyze, usb, online
<1>2. CASE Generate
  <2>1. ImagesOf(analysis.file) \subseteq References
    BY ImagesOfType
  <2> QED BY <1>2, <2>1, NothingType DEF Generate, online
<1>3. CASE GenerateLost
  BY <1>3, NothingType DEF GenerateLost, Trouble, Count, usb, online
<1>4. ASSUME NEW failed, NEW broken, NEW short, Fetch(failed, broken, short)
      PROVE  TypeOK'
  <2> DEFINE fetched == UNION {Offered(r) : r \in request.images \ failed}
             blobs == request.blobs \cup UNION {Layers[m] : m \in fetched}
             response == [blobs |-> blobs \ broken,
                          torn |-> (blobs \ broken) \cap spoiled',
                          errors |-> broken,
                          manifests |-> fetched, file |-> request.file,
                          unfetched |-> {r \in request.images :
                                           r \in failed \/ Offered(r) = {}}]
  <2>1. fetched \subseteq Manifests
    BY OfferedType
  <2>2. UNION {Layers[m] : m \in fetched} \subseteq Digests
    BY <2>1, OfferedType
  <2>3. broken \subseteq blobs /\ short \subseteq blobs /\ WriteResponse(response)
    BY <1>4 DEF Fetch
  <2>4. blobs \subseteq Digests
    BY <2>2
  <2> HIDE DEF fetched, blobs
  <2>5. response \in Response
    BY <2>1, <2>3, <2>4 DEF Response
  <2> HIDE DEF response
  <2>6. stick' \subseteq Response
    BY <2>3, <2>5 DEF WriteResponse
  <2>7. trouble' \in 0 .. MaxTrouble /\ spoiled' \subseteq Digests
    BY <1>4, <2>3, <2>4 DEF Fetch, Count
  <2> QED BY <1>4, <2>6, <2>7 DEF Fetch, offline
<1>5. CASE LoseStick
  BY <1>5, NothingType DEF LoseStick, Trouble, Count, offline, online
<1>6. ASSUME NEW t \in Tags, MoveTag(t) PROVE TypeOK'
  <2>1. upstream[t] + 1 \in 0 .. MaxVersion
    BY <1>6, CycleAssumption DEF MoveTag
  <2> QED BY <1>6, <2>1 DEF MoveTag, Trouble, Count, offline, usb
<1>7. ASSUME NEW D \in SUBSET Digests, CacheClean(D) PROVE TypeOK'
  BY <1>7 DEF CacheClean, offline, usb
<1>8. ASSUME NEW i \in Importers, ImportStep(i) PROVE TypeOK'
  BY <1>8, ImportTypeStep
<1>9. CASE Crash
  BY <1>9, NothingType DEF Crash, Trouble, Count, usb, online
<1>10. ASSUME NEW S \in SUBSET Digests, GcImpact(S) PROVE TypeOK'
  BY <1>10, NothingType DEF GcImpact, Trouble, Count, NoGc, usb, online
<1>11. ASSUME NEW S \in SUBSET Digests, GcImpactFails(S) PROVE TypeOK'
  BY <1>11, NothingType DEF GcImpactFails, Trouble, Count, NoGc, usb, online
<1>12. CASE GcExecute
  BY <1>12, NothingType DEF GcExecute, usb, online
<1>13. CASE GcDecline
  BY <1>13, NothingType DEF GcDecline, usb, online
<1>14. CASE UNCHANGED vars
  BY <1>14 DEF vars
<1> QED
  BY <1>1, <1>2, <1>3, <1>4, <1>5, <1>6, <1>7, <1>8, <1>9, <1>10, <1>11, <1>12,
     <1>13, <1>14
  DEF Next

-----------------------------------------------------------------------------
(* Which steps change what *)

\* The request is written by generate-manifest and lost with the stick.
LEMMA RequestChanges ==
    ASSUME [Next]_vars
    PROVE  request' = request \/ Generate \/ LoseStick
<1>1. ASSUME NEW i \in Importers, ImportStep(i) PROVE request' = request
  BY <1>1 DEF ImportStep, usb, ImportStart, ImportBlob, ImportSkip, CacheManifest,
      Replace, CacheManifestFails, ImportEnd
<1> QED
  BY <1>1 DEF Next, vars, usb, offline, Analyze, GenerateLost, Fetch, CacheClean,
      MoveTag, Crash, GcImpact, GcImpactFails, GcExecute, GcDecline

\* Responses come from the online side.
LEMMA StickChanges ==
    ASSUME [Next]_vars
    PROVE  \/ stick' \subseteq stick
           \/ \E failed, broken, short : Fetch(failed, broken, short)
<1>1. CASE LoseStick
  BY <1>1 DEF LoseStick
<1>2. ASSUME NEW i \in Importers, ImportStep(i) PROVE stick' \subseteq stick
  BY <1>2 DEF ImportStep, usb, ImportStart, ImportBlob, ImportSkip, CacheManifest,
      Replace, CacheManifestFails, ImportEnd
<1> QED
  BY <1>1, <1>2 DEF Next, vars, usb, offline, Analyze, Generate, GenerateLost,
      CacheClean, MoveTag, Crash, GcImpact, GcImpactFails, GcExecute, GcDecline

\* Only the imports and the collector touch the store, the manifest cache and
\* the account of what is absent; else an import may be over.
LEMMA StoreChanges ==
    ASSUME [Next]_vars
    PROVE  \/ /\ UNCHANGED <<store, cache, told>>
              /\ \/ UNCHANGED imp
                 \/ imp' = [i \in Importers |-> Idle]
                 \/ \E i \in Importers : imp' = [imp EXCEPT ![i] = Idle]
           \/ \E i \in Importers :
                \/ \E response \in stick : ImportStart(i, response)
                \/ \E d \in Digests : ImportBlob(i, d) \/ ImportSkip(i, d)
                \/ \E m \in Manifests : CacheManifest(i, m)
           \/ GcExecute
<1>1. CASE UNCHANGED vars
  BY <1>1 DEF vars
<1>2. ASSUME NEW i \in Importers,
             CacheManifestFails(i) \/ \E c \in BOOLEAN : ImportEnd(i, c)
      PROVE  UNCHANGED <<store, cache, told>> /\ imp' = [imp EXCEPT ![i] = Idle]
  BY <1>2 DEF CacheManifestFails, ImportEnd
<1>3. CASE Crash
  BY <1>3 DEF Crash
<1>4. CASE \/ \E file \in Dockerfiles : Analyze(file)
           \/ Generate \/ GenerateLost \/ LoseStick \/ GcDecline
           \/ \E S \in SUBSET Digests : GcImpact(S) \/ GcImpactFails(S)
           \/ \E t \in Tags : MoveTag(t)
           \/ \E failed, broken, short : Fetch(failed, broken, short)
           \/ \E D \in SUBSET Digests : CacheClean(D)
  BY <1>4 DEF Analyze, Generate, GenerateLost, LoseStick, GcDecline, GcImpact,
              GcImpactFails, MoveTag, Fetch, CacheClean, offline
<1> QED BY <1>1, <1>2, <1>3, <1>4 DEF Next, ImportStep

-----------------------------------------------------------------------------
(* The invariant *)

LEMMA CycleInit == Init => CycleInv
<1> SUFFICES ASSUME Init PROVE CycleInv
  OBVIOUS
<1>1. TypeOK
  BY TypeInit
<1>2. RequestInv /\ StickInv
  BY DEF Init, RequestInv, StickInv, NoRequest
<1>3. PendingInv /\ AnsweredInv
  BY DEF Init, PendingInv, AnsweredInv, Idle
<1>4. GapsAccounted
  BY DEF Init, GapsAccounted, Readable
<1> QED BY <1>1, <1>2, <1>3, <1>4 DEF CycleInv

LEMMA RequestStep == CycleInv /\ [Next]_vars => RequestInv'
<1> SUFFICES ASSUME CycleInv, [Next]_vars PROVE RequestInv'
  OBVIOUS
<1>1. CASE request' = request
  BY <1>1 DEF CycleInv, RequestInv
<1>2. CASE Generate
  BY <1>2 DEF Generate, RequestInv
<1>3. CASE LoseStick
  BY <1>3 DEF LoseStick, RequestInv, NoRequest
<1> QED BY <1>1, <1>2, <1>3, RequestChanges

\* A response that cmd_fetch writes accounts for all it should.
LEMMA FetchedResponse ==
    ASSUME CycleInv, NEW failed, NEW broken, NEW short, Fetch(failed, broken, short)
    PROVE  \A r \in stick' : r \in stick \/ ResponseInv(r)
<1> DEFINE fetched == UNION {Offered(r) : r \in request.images \ failed}
           blobs == request.blobs \cup UNION {Layers[m] : m \in fetched}
           unfetched == {r \in request.images : r \in failed \/ Offered(r) = {}}
           torn == (blobs \ broken) \cap spoiled'
           response == [blobs |-> blobs \ broken, torn |-> torn,
                        errors |-> broken,
                        manifests |-> fetched, file |-> request.file,
                        unfetched |-> unfetched]
<1>1. WriteResponse(response) /\ request.made
  BY DEF Fetch
<1>2. request.images = ImagesOf(request.file)
  BY <1>1 DEF CycleInv, RequestInv
<1>3. ASSUME NEW m \in fetched PROVE Layers[m] \subseteq blobs
  BY <1>3
<1>4. ASSUME NEW ref \in ImagesOf(request.file) \ unfetched
      PROVE  \E m \in fetched : m.tag = ref.tag /\ m.plat = ref.plat
  <2>1. ref \in request.images \ failed /\ Offered(ref) # {}
    BY <1>2, <1>4
  <2>2. PICK m \in Offered(ref) : TRUE
    BY <2>1
  <2>3. m \in fetched
    BY <2>1, <2>2
  <2> QED BY <2>2, <2>3 DEF Offered
<1> HIDE DEF fetched, blobs, unfetched, torn
<1>5. ResponseInv(response)
  BY <1>3, <1>4 DEF ResponseInv
<1> HIDE DEF response
<1> QED BY <1>1, <1>5 DEF WriteResponse

LEMMA StickStep == CycleInv /\ [Next]_vars => StickInv'
<1> SUFFICES ASSUME CycleInv, [Next]_vars, NEW r \in stick' PROVE ResponseInv(r)
  BY DEF StickInv, ResponseInv, ImagesOf, SameImage
<1>1. r \in stick \/ ResponseInv(r)
  BY StickChanges, FetchedResponse
<1> QED BY <1>1 DEF CycleInv, StickInv

\* A digest that is accounted for stays so, whatever the step.
LEMMA AccountedStays ==
    ASSUME [Next]_vars, NEW d, Accounted(d)
    PROVE  Accounted(d)'
<1> USE DEF Accounted
<1>1. CASE UNCHANGED <<store, told>>
  BY <1>1
<1>2. ASSUME NEW i \in Importers, NEW response \in stick, ImportStart(i, response)
      PROVE  Accounted(d)'
  BY <1>2 DEF ImportStart
<1>3. ASSUME NEW i \in Importers, NEW e \in Digests, ImportBlob(i, e)
      PROVE  Accounted(d)'
  BY <1>3 DEF ImportBlob
<1>4. ASSUME NEW i \in Importers, NEW e \in Digests, ImportSkip(i, e)
      PROVE  Accounted(d)'
  BY <1>4 DEF ImportSkip
<1>5. ASSUME NEW i \in Importers, NEW m \in Manifests, CacheManifest(i, m)
      PROVE  Accounted(d)'
  BY <1>5 DEF CacheManifest, Replace
<1>6. CASE GcExecute
  BY <1>6 DEF GcExecute
<1> QED BY <1>1, <1>2, <1>3, <1>4, <1>5, <1>6, StoreChanges

\* What the steps that leave the manifests to an import do to its locals.
LEMMA BlobLocals ==
    ASSUME TypeOK, NEW i \in Importers, NEW j \in Importers, NEW e \in Digests,
           ImportBlob(i, e) \/ ImportSkip(i, e)
    PROVE  /\ imp'[j].manifests = imp[j].manifests
           /\ imp'[j].on = imp[j].on
           /\ imp'[j].from = imp[j].from
           /\ imp'[j].todo = IF j = i THEN imp[j].todo \ {e} ELSE imp[j].todo
<1>1. imp[j] \in Import
  BY DEF TypeOK
<1>2. CASE ImportBlob(i, e)
  BY <1>1, <1>2 DEF ImportBlob, TypeOK, Import
<1>3. CASE ImportSkip(i, e)
  BY <1>1, <1>3 DEF ImportSkip, TypeOK, Import
<1> QED BY <1>2, <1>3

\* ... what caching one manifest does to them ...
LEMMA ManifestLocals ==
    ASSUME TypeOK, NEW i \in Importers, NEW j \in Importers, NEW m \in Manifests,
           CacheManifest(i, m)
    PROVE  /\ m \in imp[i].manifests /\ imp[i].todo = {}
           /\ imp'[j].on = imp[j].on
           /\ imp'[j].from = imp[j].from
           /\ imp'[j].todo = imp[j].todo
           /\ imp'[j].manifests \subseteq imp[j].manifests
           /\ imp[j].manifests \subseteq imp'[j].manifests \cup {m}
<1>1. imp[j] \in Import
  BY DEF TypeOK
<1>2. /\ m \in imp[i].manifests /\ imp[i].todo = {}
      /\ imp' = [imp EXCEPT ![i].manifests = @ \ {m}]
  BY DEF CacheManifest, Replace
<1> QED BY <1>1, <1>2 DEF TypeOK, Import

\* ... and to the cache.
LEMMA ManifestCached ==
    ASSUME TypeOK, NEW i \in Importers, NEW m \in Manifests, CacheManifest(i, m)
    PROVE  \E v \in {m.ver, Garbage} :
             \A k \in Keys : cache'[k] = IF k = <<m.tag, m.plat>> THEN v
                                                                  ELSE cache[k]
<1>1. PICK v \in {m.ver, Garbage} : Replace(i, m, <<m.tag, m.plat>>, v)
  BY DEF CacheManifest
<1>2. \A k \in Keys : cache'[k] = IF k = <<m.tag, m.plat>> THEN v ELSE cache[k]
  BY <1>1 DEF Replace, TypeOK
<1> QED BY <1>2

LEMMA PendingStep == CycleInv /\ [Next]_vars => PendingInv'
<1> SUFFICES ASSUME CycleInv, [Next]_vars, NEW j \in Importers,
                    NEW m \in imp'[j].manifests, NEW d \in Layers[m]
             PROVE  d \in imp'[j].todo \/ Accounted(d)'
  BY DEF PendingInv
<1>1. TypeOK /\ imp[j] \in Import
  BY DEF CycleInv, TypeOK
<1>2. CASE m \in imp[j].manifests /\ imp'[j].todo = imp[j].todo
  BY <1>2, AccountedStays DEF CycleInv, PendingInv
<1>3. CASE imp'[j] = Idle
  BY <1>3 DEF Idle
<1>4. ASSUME NEW i \in Importers, NEW response \in stick, ImportStart(i, response)
      PROVE  d \in imp'[j].todo \/ Accounted(d)'
  <2>1. CASE j = i
    <3>1. imp'[j].todo = response.blobs /\ imp'[j].manifests = response.manifests
      BY <1>1, <1>4, <2>1 DEF ImportStart, TypeOK
    <3>2. Layers[m] \subseteq response.blobs \cup response.errors
      BY <3>1 DEF CycleInv, StickInv, ResponseInv
    <3> QED BY <1>4, <3>1, <3>2 DEF ImportStart, Accounted
  <2>2. CASE j # i
    BY <1>1, <1>2, <1>4, <2>2 DEF ImportStart, TypeOK
  <2> QED BY <2>1, <2>2
<1>5. ASSUME NEW i \in Importers, NEW e \in Digests,
             ImportBlob(i, e) \/ ImportSkip(i, e)
      PROVE  d \in imp'[j].todo \/ Accounted(d)'
  <2>1. m \in imp[j].manifests /\ imp[j].todo \subseteq imp'[j].todo \cup {e}
    BY <1>1, <1>5, BlobLocals
  <2>2. CASE d = e
    BY <1>5, <2>2 DEF ImportBlob, ImportSkip, Accounted
  <2>3. CASE d # e
    BY <2>1, <2>3, AccountedStays DEF CycleInv, PendingInv
  <2> QED BY <2>2, <2>3
<1>6. ASSUME NEW i \in Importers, NEW n \in Manifests, CacheManifest(i, n)
      PROVE  m \in imp[j].manifests /\ imp'[j].todo = imp[j].todo
  BY <1>1, <1>6, ManifestLocals
<1>7. CASE imp' = imp \/ GcExecute
  BY <1>2, <1>7 DEF GcExecute
<1>8. ASSUME NEW i \in Importers, imp' = [imp EXCEPT ![i] = Idle]
      PROVE  imp'[j] = Idle \/ imp'[j] = imp[j]
  BY <1>1, <1>8 DEF TypeOK
<1>9. CASE imp' = [i \in Importers |-> Idle]
  BY <1>3, <1>9
<1> QED BY <1>2, <1>3, <1>4, <1>5, <1>6, <1>7, <1>8, <1>9, StoreChanges

LEMMA GapsStep == CycleInv /\ [Next]_vars => GapsAccounted'
<1> SUFFICES ASSUME CycleInv, [Next]_vars,
                    NEW k \in Keys, Readable(k)', NEW d \in Layers[Cached(k)']
             PROVE  Accounted(d)'
  BY DEF GapsAccounted
<1>1. TypeOK
  BY DEF CycleInv
<1>2. CASE cache'[k] = cache[k]
  <2>1. Cached(k)' = Cached(k) /\ Readable(k)
    BY <1>2 DEF Cached, Readable
  <2>2. Accounted(d)
    BY <2>1 DEF CycleInv, GapsAccounted
  <2> QED BY <2>2, AccountedStays
<1>3. ASSUME NEW i \in Importers, NEW m \in Manifests, CacheManifest(i, m),
             cache'[k] # cache[k]
      PROVE  Accounted(d)'
  <2>1. k = <<m.tag, m.plat>> /\ cache'[k] \in {m.ver, Garbage}
    BY <1>1, <1>3, ManifestCached
  <2>2. cache'[k] = m.ver
    BY <2>1 DEF Readable
  <2>3. Cached(k)' = m
    BY <2>1, <2>2 DEF Cached, Manifests
  <2>4. m \in imp[i].manifests /\ imp[i].todo = {}
    BY <1>1, <1>3, ManifestLocals
  <2>5. Accounted(d)
    BY <2>3, <2>4 DEF CycleInv, PendingInv
  <2> QED BY <2>5, AccountedStays
<1>4. ASSUME NEW i \in Importers, NEW response \in stick, ImportStart(i, response)
      PROVE  cache' = cache
  BY <1>4 DEF ImportStart
<1>5. ASSUME NEW i \in Importers, NEW e \in Digests,
             ImportBlob(i, e) \/ ImportSkip(i, e)
      PROVE  cache' = cache
  BY <1>5 DEF ImportBlob, ImportSkip
<1>6. CASE GcExecute
  BY <1>2, <1>6 DEF GcExecute
<1> QED BY <1>2, <1>3, <1>4, <1>5, <1>6, StoreChanges

LEMMA AnsweredStep == CycleInv /\ [Next]_vars => AnsweredInv'
<1> SUFFICES ASSUME CycleInv, [Next]_vars, NEW j \in Importers, imp'[j].on,
                    NEW ref \in ImagesOf(imp'[j].from.file) \ imp'[j].from.unfetched
             PROVE  Answered(j, ref)'
  BY DEF AnsweredInv, ImagesOf, SameImage
<1>1. TypeOK /\ imp[j] \in Import /\ imp'[j] \in Import
  BY TypeStep DEF CycleInv, TypeOK
<1>2. CASE imp'[j].on = imp[j].on /\ imp'[j].from = imp[j].from /\ cache' = cache
           /\ imp'[j].manifests = imp[j].manifests
  <2>1. Answered(j, ref)
    BY <1>2 DEF CycleInv, AnsweredInv
  <2> QED BY <1>2, <2>1 DEF Answered
<1>3. CASE imp'[j] = Idle
  BY <1>3 DEF Idle
<1>4. ASSUME NEW i \in Importers, NEW response \in stick, ImportStart(i, response)
      PROVE  Answered(j, ref)'
  <2>1. CASE j = i
    <3>1. imp'[j].from = response /\ imp'[j].manifests = response.manifests
      BY <1>1, <1>4, <2>1 DEF ImportStart, TypeOK
    <3>2. \E m \in response.manifests : m.tag = ref.tag /\ m.plat = ref.plat
      BY <3>1 DEF CycleInv, StickInv, ResponseInv
    <3> QED BY <3>1, <3>2 DEF Answered
  <2>2. CASE j # i
    BY <1>1, <1>2, <1>4, <2>2 DEF ImportStart, TypeOK
  <2> QED BY <2>1, <2>2
<1>5. ASSUME NEW i \in Importers, NEW e \in Digests,
             ImportBlob(i, e) \/ ImportSkip(i, e)
      PROVE  imp'[j].on = imp[j].on /\ imp'[j].from = imp[j].from /\ cache' = cache
             /\ imp'[j].manifests = imp[j].manifests
  <2>1. cache' = cache
    BY <1>5 DEF ImportBlob, ImportSkip
  <2> QED BY <1>1, <1>5, <2>1, BlobLocals
<1>6. ASSUME NEW i \in Importers, NEW n \in Manifests, CacheManifest(i, n)
      PROVE  Answered(j, ref)'
  <2>1. imp'[j].on = imp[j].on /\ imp'[j].from = imp[j].from
        /\ imp[j].manifests \ {n} \subseteq imp'[j].manifests
    BY <1>1, <1>6, ManifestLocals
  <2>2. Answered(j, ref)
    BY <2>1 DEF CycleInv, AnsweredInv
  <2>3. <<ref.tag, ref.plat>> \in Keys
    <3>1. imp'[j].from.file \in Dockerfiles \cup {<<>>}
      BY <1>1 DEF Import, Response
    <3>2. ref \in References
      BY <3>1, ImagesOfType
    <3> QED BY <3>2 DEF References, Keys
  <2>4. PICK v \in {n.ver, Garbage} :
          \A k \in Keys : cache'[k] = IF k = <<n.tag, n.plat>> THEN v ELSE cache[k]
    BY <1>1, <1>6, ManifestCached
  <2>5. v # NotCached
    BY DEF Manifests, NotCached, Garbage
  <2>6. CASE ref.tag = n.tag /\ ref.plat = n.plat
    BY <2>3, <2>4, <2>5, <2>6 DEF Answered
  <2>7. CASE ~(ref.tag = n.tag /\ ref.plat = n.plat)
    <3>1. cache'[<<ref.tag, ref.plat>>] = cache[<<ref.tag, ref.plat>>]
      BY <2>3, <2>4, <2>7
    <3> QED BY <2>1, <2>2, <2>7, <3>1 DEF Answered
  <2> QED BY <2>6, <2>7
<1>7. CASE UNCHANGED <<imp, cache>> \/ GcExecute
  BY <1>2, <1>7 DEF GcExecute
<1>8. ASSUME NEW i \in Importers, imp' = [imp EXCEPT ![i] = Idle]
      PROVE  imp'[j] = Idle \/ imp'[j] = imp[j]
  BY <1>1, <1>8 DEF TypeOK
<1>9. CASE imp' = [i \in Importers |-> Idle]
  BY <1>3, <1>9
<1> QED BY <1>2, <1>3, <1>4, <1>5, <1>6, <1>7, <1>8, <1>9, StoreChanges

-----------------------------------------------------------------------------
(* The theorems *)

\* The invariant holds in every reachable state of the cycle.
THEOREM CycleInvariant == Spec => []CycleInv
<1>1. CycleInv /\ [Next]_vars => CycleInv'
  BY TypeStep, RequestStep, StickStep, PendingStep, GapsStep, AnsweredStep
  DEF CycleInv
<1> QED BY CycleInit, <1>1, PTL DEF Spec

\* No silent gap, for every set of images, every Dockerfile, any number of
\* imports at once and any amount of trouble: a cached manifest of the offline
\* side lacks a blob only if the operator was told.
THEOREM NoSilentGap == Spec => []GapsAccounted
<1>1. CycleInv => GapsAccounted
  BY DEF CycleInv
<1> QED BY CycleInvariant, <1>1, PTL

\* An import that ends without errors has delivered the images its request
\* listed, but for those the online side only logged, blobs deleted since and
\* manifests of which a part was written.
THEOREM CleanImport == Spec => []CleanImportDelivers
<1>1. CycleInv => CleanImportDelivers
  <2> SUFFICES ASSUME CycleInv, NEW i \in Importers,
                      imp[i].on, imp[i].manifests = {},
                      NEW r \in ImagesOf(imp[i].from.file) \ imp[i].from.unfetched
               PROVE  LET k == <<r.tag, r.plat>> IN
                        /\ cache[k] # NotCached
                        /\ Readable(k) => \A d \in Layers[Cached(k)] : Accounted(d)
    BY DEF CleanImportDelivers
  <2>1. cache[<<r.tag, r.plat>>] # NotCached
    BY DEF CycleInv, AnsweredInv, Answered
  <2>2. <<r.tag, r.plat>> \in Keys
    <3>1. imp[i] \in Import
      BY DEF CycleInv, TypeOK
    <3>2. imp[i].from.file \in Dockerfiles \cup {<<>>}
      BY <3>1 DEF Import, Response
    <3> QED BY <3>2, ImagesOfType DEF References, Keys
  <2> QED BY <2>1, <2>2 DEF CycleInv, GapsAccounted
<1> QED BY CycleInvariant, <1>1, PTL

\* Every variable of the cycle keeps its type.
THEOREM CycleTypes == Spec => []TypeOK
<1>1. CycleInv => TypeOK
  BY DEF CycleInv
<1> QED BY CycleInvariant, <1>1, PTL

-----------------------------------------------------------------------------
(* What the impact report promises *)

\* While the operator is being asked, every cached image that needs one of the
\* digests has been named, or was cached after the report, or the report failed.
ImpactInv == \A k \in Keys : Needs(k, gc.asked) => Foretold(k)

LEMMA ImpactStep == TypeOK /\ ImpactInv /\ [Next]_vars => ImpactInv'
<1> SUFFICES ASSUME TypeOK, ImpactInv, [Next]_vars, NEW k \in Keys,
                    Needs(k, gc.asked)'
             PROVE  Foretold(k)'
  BY DEF ImpactInv
<1> USE DEF Needs, Readable, Cached, Foretold
<1>1. CASE UNCHANGED <<cache, gc>>
  BY <1>1 DEF ImpactInv
<1>2. CASE gc' = NoGc
  BY <1>2 DEF NoGc
<1>3. ASSUME NEW S \in SUBSET Digests, GcImpact(S) PROVE Foretold(k)'
  BY <1>3 DEF GcImpact, NoGc
<1>4. ASSUME NEW i \in Importers, NEW m \in Manifests, CacheManifest(i, m)
      PROVE  Foretold(k)'
  <2>1. PICK v : Replace(i, m, <<m.tag, m.plat>>, v)
    BY <1>4 DEF CacheManifest
  <2>2. CASE gc.asked = {}
    BY <2>1, <2>2 DEF Replace
  <2>3. CASE gc.asked # {} /\ k = <<m.tag, m.plat>>
    BY <2>1, <2>3 DEF Replace, TypeOK
  <2>4. CASE gc.asked # {} /\ k # <<m.tag, m.plat>>
    <3>1. cache'[k] = cache[k] /\ gc'.asked = gc.asked
          /\ gc'.warned = gc.warned /\ gc.newer \subseteq gc'.newer
          /\ gc'.blind = gc.blind
      BY <2>1, <2>4 DEF Replace, TypeOK
    <3> QED BY <3>1 DEF ImpactInv
  <2> QED BY <2>2, <2>3, <2>4
<1>5. CASE GcExecute \/ GcDecline \/ Crash
  BY <1>2, <1>5 DEF GcExecute, GcDecline, Crash
<1>6. CASE UNCHANGED vars
  BY <1>1, <1>6 DEF vars
<1>7. ASSUME NEW i \in Importers, NEW d \in Digests,
             ImportBlob(i, d) \/ ImportSkip(i, d)
      PROVE  UNCHANGED <<cache, gc>>
  BY <1>7 DEF ImportBlob, ImportSkip
<1>8. ASSUME NEW i \in Importers,
             \/ CacheManifestFails(i)
             \/ \E response \in stick : ImportStart(i, response)
             \/ \E cleanup \in BOOLEAN : ImportEnd(i, cleanup)
      PROVE  UNCHANGED <<cache, gc>>
  BY <1>8 DEF ImportStart, ImportEnd, CacheManifestFails
<1>9. CASE \/ \E file \in Dockerfiles : Analyze(file)
           \/ Generate \/ GenerateLost \/ LoseStick
           \/ \E t \in Tags : MoveTag(t)
           \/ \E failed, broken, short : Fetch(failed, broken, short)
           \/ \E D \in SUBSET Digests : CacheClean(D)
  <2>1. UNCHANGED <<cache, gc>>
    BY <1>9 DEF Analyze, Generate, GenerateLost, LoseStick, MoveTag, Fetch,
                CacheClean, offline
  <2> QED BY <1>1, <2>1
<1>10. ASSUME NEW S \in SUBSET Digests, GcImpactFails(S) PROVE gc'.blind
  BY <1>10 DEF GcImpactFails, NoGc
<1>11. ASSUME NEW i \in Importers, ImportStep(i) PROVE Foretold(k)'
  BY <1>1, <1>4, <1>7, <1>8, <1>11 DEF ImportStep
<1> QED
  BY <1>3, <1>5, <1>6, <1>9, <1>10, <1>11 DEF Next

\* Only gc_execute makes a blob that is there disappear.
LEMMA OnlyGcRemoves ==
    ASSUME [Next]_vars, NEW d \in store, d \notin store'
    PROVE  GcExecute /\ d \in gc.asked
<1>1. ASSUME NEW i \in Importers, NEW response \in stick, ImportStart(i, response)
      PROVE  FALSE
  BY <1>1 DEF ImportStart
<1>2. ASSUME NEW i \in Importers, NEW e \in Digests,
             ImportBlob(i, e) \/ ImportSkip(i, e)
      PROVE  FALSE
  BY <1>2 DEF ImportBlob, ImportSkip
<1>3. ASSUME NEW i \in Importers, NEW m \in Manifests, CacheManifest(i, m)
      PROVE  FALSE
  BY <1>3 DEF CacheManifest, Replace
<1>4. CASE GcExecute
  BY <1>4 DEF GcExecute
<1> QED BY <1>1, <1>2, <1>3, <1>4, StoreChanges

\* gc takes the blobs of an image only if the impact report named it or failed,
\* or if its manifest came while the operator was being asked.
THEOREM ImpactReportHolds == Spec => GcWarned
<1> DEFINE Warned == \A k \in Keys :
                        Complete(k) /\ cache'[k] = cache[k]
                          /\ ~(Layers[Cached(k)] \subseteq store')
                          => Foretold(k)
<1>1. Init => ImpactInv
  BY DEF Init, ImpactInv, Needs, Readable
<1>2. TypeOK /\ ImpactInv /\ [Next]_vars => [Warned]_vars
  <2> SUFFICES ASSUME TypeOK, ImpactInv, [Next]_vars, NEW k \in Keys, Complete(k),
                      ~(Layers[Cached(k)] \subseteq store')
               PROVE  Foretold(k)
    OBVIOUS
  <2>1. PICK d \in Layers[Cached(k)] : d \notin store'
    OBVIOUS
  <2>2. d \in store /\ Readable(k)
    BY DEF Complete
  <2>3. d \in gc.asked
    BY <2>1, <2>2, OnlyGcRemoves
  <2> QED BY <2>2, <2>3 DEF ImpactInv, Needs
<1> HIDE DEF Warned
<1>3. Spec => [][Warned]_vars
  BY <1>1, <1>2, ImpactStep, CycleTypes, PTL DEF Spec
<1> QED BY <1>3 DEF GcWarned, Warned

=============================================================================
