------------------------------- MODULE Fetch -------------------------------
(***************************************************************************)
(* buncker-fetch fetch (src/buncker_fetch/__main__.py, cmd_fetch): the     *)
(* online half of a transfer.  The blobs of a request are looked up in the *)
(* local cache, the others are downloaded by a pool of workers            *)
(* (fetcher.py) through a registry client that retries and keeps one       *)
(* bearer token for all of them (registry_client.py), the manifests of the *)
(* requested images may name more blobs, and build_response (transfer.py)  *)
(* packs what the cache has and lists the rest in ERRORS.json.             *)
(*                                                                         *)
(* Abstractions: one registry (cmd_fetch goes through the registries one   *)
(* after the other, each with a client of its own); waiting times are left *)
(* out; a manifest is the set of its layers, and an image list is whether  *)
(* it is empty.  The loops over has_blob and get_blob are one step each:   *)
(* `buncker-fetch cache clean' deletes file by file, so each order of its  *)
(* deletions and their lookups is that of some steps around them.          *)
(***************************************************************************)
EXTENDS Integers

CONSTANTS
    Digests,        \* digests of blobs in the registry
    Workers,        \* threads of the fetcher's pool
    Twice,          \* digests that a request lists twice, when it lists them
    MaxRuns,        \* bound: fetch commands the operator starts
    MaxExpiries,    \* bound: times the tokens in use expire
    Faults          \* what goes wrong

AllFaults == {"garble", "busy", "refuse", "auth", "break", "write", "short",
              "clean", "crash"}
ASSUME FetchAssumption ==
    /\ Digests # {}
    /\ Twice \subseteq Digests
    /\ MaxRuns \in Nat
    /\ MaxExpiries \in Nat
    /\ Faults \subseteq AllFaults

MAX_RETRIES == 3        \* registry_client._MAX_RETRIES
MAX_SHA_RETRIES == 3    \* fetcher._MAX_SHA_RETRIES

VARIABLES
    cache,      \* ~/.buncker/cache/blobs/sha256: the file of each digest
    cmd,        \* the fetch command: its phase and its locals
    todo,       \* futures of the pool no worker has taken: digest -> number
    wk,         \* the workers of the pool
    token,      \* RegistryClient._tokens[scope]
    response,   \* the response file: its blobs and its errors
    runs,       \* commands started so far
    expiries,   \* expiries of the tokens in use since the command started
    trouble     \* history: something else went wrong since then

vars == <<cache, cmd, todo, wk, token, response, runs, expiries, trouble>>

-----------------------------------------------------------------------------
Content == {"whole", "torn"}
Token == {"none", "good", "old"}
Ended == {"off", "done", "aborted"}

\* want: the digests the response has to account for; images: the request
\* lists images; extra: the blobs being fetched come from manifests.
Command == [phase  : Ended \cup {"check", "fetch", "manifests", "build"},
            want   : SUBSET Digests,
            images : BOOLEAN,
            extra  : BOOLEAN,
            errors : SUBSET Digests,
            raised : BOOLEAN]
NoCommand == [phase |-> "off", want |-> {}, images |-> FALSE, extra |-> FALSE,
              errors |-> {}, raised |-> FALSE]

MaxSent == MAX_RETRIES * MAX_SHA_RETRIES

\* A worker's locals: the digest, the two attempt counters, the token of
\* the request it has built or got and (history) the number of requests sent.
Worker == [pc  : {"idle", "auth", "keep", "send", "store", "rename"},
           d   : Digests,
           sha : 0 .. MAX_SHA_RETRIES - 1,
           try : 0 .. MAX_RETRIES - 1,
           tok : Token,
           n   : 0 .. MaxSent]
IdleWorker == [pc |-> "idle", d |-> CHOOSE d \in Digests : TRUE, sha |-> 0,
               try |-> 0, tok |-> "none", n |-> 0]

Listed(d) == IF d \in Twice THEN 2 ELSE 1

TypeOK ==
    /\ cache \in [Digests -> {"absent"} \cup Content]
    /\ cmd \in Command
    /\ todo \in [Digests -> 0 .. 2]
    /\ wk \in [Workers -> Worker]
    /\ token \in Token
    /\ response \in [blobs : SUBSET Digests, errors : SUBSET Digests]
    /\ runs \in 0 .. MaxRuns
    /\ expiries \in 0 .. MaxExpiries
    /\ trouble \in BOOLEAN

\* Earlier commands have left some blobs in the cache.
Init ==
    /\ cache \in [Digests -> {"absent", "whole"}]
    /\ cmd = NoCommand
    /\ todo = [d \in Digests |-> 0]
    /\ wk = [w \in Workers |-> IdleWorker]
    /\ token = "none"
    /\ response = [blobs |-> {}, errors |-> {}]
    /\ runs = 0
    /\ expiries = 0
    /\ trouble = FALSE

-----------------------------------------------------------------------------
(* The command *)

\* The request is decrypted: B are its blobs.  Without blobs and images there
\* is nothing to do.
Run(B, images) ==
    /\ cmd.phase \in Ended
    /\ runs < MaxRuns
    /\ B # {} \/ images
    /\ runs' = runs + 1
    /\ cmd' = [NoCommand EXCEPT !.phase = "check", !.want = B,
                                !.images = images]
    /\ todo' = [d \in Digests |-> IF d \in B THEN Listed(d) ELSE 0]
    /\ token' = "none"
    /\ expiries' = 0
    /\ trouble' = FALSE
    /\ UNCHANGED <<cache, wk, response>>

\* Fetcher.fetch: cached blobs are skipped, the others submitted to the pool.
CheckCache ==
    /\ cmd.phase = "check"
    /\ cmd' = [cmd EXCEPT !.phase = "fetch"]
    /\ todo' = [d \in Digests |-> IF cache[d] = "absent" THEN todo[d] ELSE 0]
    /\ UNCHANGED <<cache, wk, token, response, runs, expiries, trouble>>

\* Mutant: the result of a future that raised is waited for.
Collect_Waits ==
    /\ cmd.phase = "fetch"
    /\ ~cmd.raised
    /\ \A d \in Digests : todo[d] = 0
    /\ \A w \in Workers : wk[w].pc = "idle"
    /\ cmd' = [cmd EXCEPT !.phase = IF cmd.extra THEN "build" ELSE "manifests"]
    /\ UNCHANGED <<cache, todo, wk, token, response, runs, expiries, trouble>>

\* All futures are done.  An exception other than RegistryError and StoreError
\* leaves fetch, and with it the command.
Collect ==
    /\ cmd.phase = "fetch"
    /\ \A d \in Digests : todo[d] = 0
    /\ \A w \in Workers : wk[w].pc = "idle"
    /\ cmd' = [cmd EXCEPT !.phase = IF cmd.raised THEN "aborted"
                                    ELSE IF cmd.extra THEN "build"
                                    ELSE "manifests"]
    /\ UNCHANGED <<cache, todo, wk, token, response, runs, expiries, trouble>>

\* _fetch_manifests: the manifests that could be fetched name the blobs L; one
\* that could not is logged and left out.  Blobs the request did not list are
\* fetched as well, by a client of its own.
FetchManifests(L) ==
    /\ cmd.phase = "manifests"
    /\ cmd.images \/ L = {}
    /\ cmd' = [cmd EXCEPT !.phase = IF L \subseteq cmd.want THEN "build"
                                                             ELSE "check",
                          !.want = @ \cup L,
                          !.extra = TRUE]
    /\ todo' = [d \in Digests |-> IF d \in L \ cmd.want THEN 1 ELSE 0]
    /\ token' = "none"
    /\ UNCHANGED <<cache, wk, response, runs, expiries, trouble>>

\* Mutant: a blob that is not in the cache is only logged.
Build_OnlyLogs ==
    /\ cmd.phase = "build"
    /\ LET have == {d \in cmd.want : cache[d] # "absent"} IN
         response' = [blobs |-> have, errors |-> cmd.errors]
    /\ cmd' = [cmd EXCEPT !.phase = "done"]
    /\ UNCHANGED <<cache, todo, wk, token, runs, expiries, trouble>>

\* build_response: what get_blob finds is packed, what it does not find joins
\* the errors.
Build ==
    /\ cmd.phase = "build"
    /\ LET have == {d \in cmd.want : cache[d] # "absent"} IN
         response' = [blobs |-> have,
                      errors |-> cmd.errors \cup (cmd.want \ have)]
    /\ cmd' = [cmd EXCEPT !.phase = "done"]
    /\ UNCHANGED <<cache, todo, wk, token, runs, expiries, trouble>>

-----------------------------------------------------------------------------
(* A worker: Fetcher._fetch_one, RegistryClient._request, Cache.store_blob *)

At(w, p) == wk[w].pc = p

\* The future ends: with a result, with an error that fetch collects, with any
\* other exception.
Finish(w) == wk' = [wk EXCEPT ![w] = IdleWorker]
Fail(w) == Finish(w) /\ cmd' = [cmd EXCEPT !.errors = @ \cup {wk[w].d}]
Raise(w) == Finish(w) /\ cmd' = [cmd EXCEPT !.raised = TRUE]

\* Another request will be sent for the blob, after it has gone to p with the
\* attempt counters sha and try.  The history n counts to the bound.
Again(w, p, sha, try) ==
    /\ wk' = [wk EXCEPT ![w].pc = p, ![w].sha = sha, ![w].try = try,
                        ![w].tok = IF p = "auth" THEN "none" ELSE @,
                        ![w].n = IF @ < MaxSent THEN @ + 1 ELSE @]
    /\ UNCHANGED cmd

Happened(f) == f \in Faults /\ trouble' = TRUE

\* A worker takes the next future; the loop over sha attempts begins.
Take(w, d) ==
    /\ cmd.phase = "fetch"
    /\ At(w, "idle")
    /\ todo[d] > 0
    /\ todo' = [todo EXCEPT ![d] = @ - 1]
    /\ wk' = [wk EXCEPT ![w] = [IdleWorker EXCEPT !.pc = "auth", !.d = d]]
    /\ UNCHANGED <<cache, cmd, token, response, runs, expiries, trouble>>

\* _build_request: _get_token finds the token of the scope, or discovers the
\* realm and exchanges the credentials for a new one.
Authorize(w) ==
    /\ At(w, "auth")
    /\ wk' = [wk EXCEPT ![w].pc = IF token = "none" THEN "keep" ELSE "send",
                        ![w].tok = IF token = "none" THEN "good" ELSE token]
    /\ UNCHANGED <<cache, cmd, todo, token, response, runs, expiries, trouble>>

\* Discovery or exchange is refused or finds no connection: a RegistryError
\* nobody retries.
AuthorizeFails(w) ==
    /\ At(w, "auth")
    /\ token = "none"
    /\ Happened("auth")
    /\ Fail(w)
    /\ UNCHANGED <<cache, todo, token, response, runs, expiries>>

\* The answer to discovery or exchange breaks off, times out while it is read or
\* is not JSON: neither HTTPError nor URLError, and nobody catches it.
AuthorizeRaises(w) ==
    /\ At(w, "auth")
    /\ token = "none"
    /\ Happened("auth")
    /\ Raise(w)
    /\ UNCHANGED <<cache, todo, token, response, runs, expiries>>

\* self._tokens[scope] = token
KeepToken(w) ==
    /\ At(w, "keep")
    /\ token' = wk[w].tok
    /\ wk' = [wk EXCEPT ![w].pc = "send"]
    /\ UNCHANGED <<cache, cmd, todo, response, runs, expiries, trouble>>

\* The blob arrives and hashes to its digest.
Deliver(w) ==
    /\ At(w, "send")
    /\ wk[w].tok = "good"
    /\ wk' = [wk EXCEPT ![w] = [IdleWorker EXCEPT !.pc = "store",
                                                !.d = wk[w].d]]
    /\ UNCHANGED <<cache, cmd, todo, token, response, runs, expiries, trouble>>

\* Mutant: the data of the last attempt is stored all the same.
Garbled_Stored(w) ==
    /\ At(w, "send")
    /\ wk[w].tok = "good"
    /\ Happened("garble")
    /\ IF wk[w].sha < MAX_SHA_RETRIES - 1
         THEN Again(w, "auth", wk[w].sha + 1, 0) /\ UNCHANGED cache
         ELSE Fail(w) /\ cache' = [cache EXCEPT ![wk[w].d] = "torn"]
    /\ UNCHANGED <<todo, token, response, runs, expiries>>

\* Mutant: every mismatch is reported, not only the last.
Garbled_ReportsEach(w) ==
    /\ At(w, "send")
    /\ wk[w].tok = "good"
    /\ Happened("garble")
    /\ IF wk[w].sha < MAX_SHA_RETRIES - 1
         THEN /\ wk' = [wk EXCEPT ![w].pc = "auth", ![w].sha = @ + 1]
              /\ cmd' = [cmd EXCEPT !.errors = @ \cup {wk[w].d}]
         ELSE Fail(w)
    /\ UNCHANGED <<cache, todo, token, response, runs, expiries>>

\* Mutant: a mismatch does not count as an attempt.
Garbled_Uncounted(w) ==
    /\ At(w, "send")
    /\ wk[w].tok = "good"
    /\ Happened("garble")
    /\ Again(w, "auth", wk[w].sha, 0)
    /\ UNCHANGED <<cache, todo, token, response, runs, expiries>>

\* Data arrives that does not hash to the digest: _fetch_one starts over, with
\* a new request, three times in all; then a StoreError.
Garbled(w) ==
    /\ At(w, "send")
    /\ wk[w].tok = "good"
    /\ Happened("garble")
    /\ IF wk[w].sha < MAX_SHA_RETRIES - 1
         THEN Again(w, "auth", wk[w].sha + 1, 0)
         ELSE Fail(w)
    /\ UNCHANGED <<cache, todo, token, response, runs, expiries>>

\* Mutant: the rejected token stays.
Unauthorized_KeepsToken(w) ==
    /\ At(w, "send")
    /\ wk[w].tok = "old"
    /\ IF wk[w].try = 0
         THEN Again(w, "auth", wk[w].sha, 1)
         ELSE Fail(w)
    /\ UNCHANGED <<cache, todo, token, response, runs, expiries, trouble>>

\* 401: on the first attempt the token is dropped, whoever stored it, and the
\* request is built again; later it is a RegistryError.
Unauthorized(w) ==
    /\ At(w, "send")
    /\ wk[w].tok = "old"
    /\ IF wk[w].try = 0
         THEN Again(w, "auth", wk[w].sha, 1) /\ token' = "none"
         ELSE Fail(w) /\ UNCHANGED token
    /\ UNCHANGED <<cache, todo, response, runs, expiries, trouble>>

\* Mutant: one attempt too many.
Busy_OneMore(w) ==
    /\ At(w, "send")
    /\ Happened("busy")
    /\ IF wk[w].try < MAX_RETRIES
         THEN Again(w, "send", wk[w].sha, wk[w].try + 1)
         ELSE Fail(w)
    /\ UNCHANGED <<cache, todo, token, response, runs, expiries>>

\* 429 with a bearable Retry-After, 5xx or no connection: the same request is
\* sent again after a pause, up to three times; then a RegistryError.
Busy(w) ==
    /\ At(w, "send")
    /\ Happened("busy")
    /\ IF wk[w].try < MAX_RETRIES - 1
         THEN Again(w, "send", wk[w].sha, wk[w].try + 1)
         ELSE Fail(w)
    /\ UNCHANGED <<cache, todo, token, response, runs, expiries>>

\* 429 with too long a wait, or any other status: a RegistryError at once.
Refused(w) ==
    /\ At(w, "send")
    /\ Happened("refuse")
    /\ Fail(w)
    /\ UNCHANGED <<cache, todo, token, response, runs, expiries>>

\* The connection breaks while response.read() is running (IncompleteRead,
\* ConnectionResetError, TimeoutError): neither HTTPError nor URLError.
Broken(w) ==
    /\ At(w, "send")
    /\ Happened("break")
    /\ Raise(w)
    /\ UNCHANGED <<cache, todo, token, response, runs, expiries>>

\* store_blob: blob_path.exists()
StoreExists(w) ==
    /\ At(w, "store")
    /\ IF cache[wk[w].d] = "absent"
         THEN wk' = [wk EXCEPT ![w].pc = "rename"]
         ELSE Finish(w)
    /\ UNCHANGED <<cache, cmd, todo, token, response, runs, expiries, trouble>>

\* os.write, whose result is not looked at, and os.rename.
StoreRename(w) ==
    /\ At(w, "rename")
    /\ \E c \in Content :
         /\ c = "torn" => "short" \in Faults
         /\ cache' = [cache EXCEPT ![wk[w].d] = c]
    /\ Finish(w)
    /\ UNCHANGED <<cmd, todo, token, response, runs, expiries, trouble>>

\* The disk is full, or `cache clean' has deleted the temp file: an OSError.
StoreFails(w) ==
    /\ At(w, "rename")
    /\ Happened("write")
    /\ Raise(w)
    /\ UNCHANGED <<cache, todo, token, response, runs, expiries>>

WorkerStep(w) ==
    \/ \E d \in Digests : Take(w, d)
    \/ Authorize(w)
    \/ AuthorizeFails(w)
    \/ AuthorizeRaises(w)
    \/ KeepToken(w)
    \/ Deliver(w)
    \/ Garbled(w)
    \/ Unauthorized(w)
    \/ Busy(w)
    \/ Refused(w)
    \/ Broken(w)
    \/ StoreExists(w)
    \/ StoreRename(w)
    \/ StoreFails(w)

-----------------------------------------------------------------------------
(* The world *)

\* The tokens in use reach their age; one that is just being handed out has
\* not.
Age(tok) == IF tok = "good" THEN "old" ELSE tok
Expire ==
    /\ cmd.phase = "fetch"
    /\ expiries < MaxExpiries
    /\ expiries' = expiries + 1
    /\ token' = Age(token)
    /\ wk' = [w \in Workers |-> IF At(w, "keep") THEN wk[w]
                                ELSE [wk[w] EXCEPT !.tok = Age(@)]]
    /\ UNCHANGED <<cache, cmd, todo, response, runs, trouble>>

\* `buncker-fetch cache clean' in another terminal deletes an old blob.
CacheClean(d) ==
    /\ cache[d] # "absent"
    /\ Happened("clean")
    /\ cache' = [cache EXCEPT ![d] = "absent"]
    /\ UNCHANGED <<cmd, todo, wk, token, response, runs, expiries>>

\* The operator interrupts the command; the cache stays.
Crash ==
    /\ cmd.phase \notin Ended
    /\ Happened("crash")
    /\ cmd' = NoCommand
    /\ todo' = [d \in Digests |-> 0]
    /\ wk' = [w \in Workers |-> IdleWorker]
    /\ UNCHANGED <<cache, token, response, runs, expiries>>

-----------------------------------------------------------------------------
Start == \E B \in SUBSET Digests, images \in BOOLEAN : Run(B, images)

CommandStep ==
    \/ CheckCache
    \/ Collect
    \/ \E L \in SUBSET Digests : FetchManifests(L)
    \/ Build

Next ==
    \/ Start
    \/ CommandStep
    \/ \E w \in Workers : WorkerStep(w)
    \/ Expire
    \/ \E d \in Digests : CacheClean(d)
    \/ Crash

Spec == Init /\ [][Next]_vars

\* Every read has a time limit (_READ_TIMEOUT), so a worker always gets an
\* answer or an exception, and the pool and the command go on.
FairSpec ==
    /\ Spec
    /\ WF_vars(CommandStep)
    /\ \A w \in Workers : WF_vars(WorkerStep(w))

-----------------------------------------------------------------------------
(* Properties *)

\* Every digest of the request and of the manifests in the response is in the
\* archive or in ERRORS.json, whatever the registry answers and whatever
\* `cache clean' deletes between the cache lookup and build_response.
ResponseAccounts ==
    cmd.phase = "done" => cmd.want = response.blobs \cup response.errors

\* A digest the request lists once is not reported as an error when the
\* archive has it.
ErrorMeansMissing ==
    cmd.phase = "done" =>
        response.blobs \cap response.errors \subseteq Twice

\* What goes into the cache, and from there into every later response, hashes
\* to its digest, however often the registry sent something else, as long as
\* os.write writes all it is given.
CacheVerified == \A d \in Digests : cache[d] # "torn"

\* The two retry loops multiply but do not run away: at most 3 * 3 requests
\* for one blob, those rejected for an expired token included.
RequestsBounded == \A w \in Workers : At(w, "send") => wk[w].n < MaxSent

\* One expiry of the shared token costs nobody a blob: every worker that meets
\* it gets a new token, although each of them drops what another has stored.
ExpiryHarmless ==
    ~trouble /\ expiries <= 1 => cmd.errors = {} /\ ~cmd.raised

\* The command comes to an end.
FetchEnds == cmd.phase \notin Ended ~> cmd.phase \in Ended
=============================================================================
