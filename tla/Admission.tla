----------------------------- MODULE Admission -----------------------------
(***************************************************************************)
(* What a request passes before a handler runs: the worker pool, do_GET,   *)
(* do_HEAD, do_POST and do_PUT, the two rate limiters and the              *)
(* authentication middleware.                                              *)
(*                                                                         *)
(* RateLimiter.is_allowed reads the clock before it takes the lock, so     *)
(* threads may enter with stamps that are out of order, and the deque is   *)
(* evicted from its left end only.                                         *)
(*                                                                         *)
(* The router takes urlparse(self.path).path, the middleware               *)
(* self.path.split("?")[0]: the first drops the parameters and the         *)
(* fragment of a request target, or its scheme and host, the second does   *)
(* not.                                                                    *)
(*                                                                         *)
(* Abstractions: paths that are routed alike are one path; a request       *)
(* target is the router's path and its form; a token is its kind.          *)
(***************************************************************************)
EXTENDS Integers, Sequences, FiniteSets

CONSTANTS
    Threads,     \* workers of the pool
    Addresses,   \* client addresses
    Traffic,     \* the requests clients make, each with its address
    Limit,       \* _max of the limiters: "admin" (60) and "oci" (200)
    Window,      \* _window, in ticks
    MaxTime      \* bound: the last tick

Methods == {"GET", "HEAD", "POST", "PUT", "DELETE"}
V2Paths == {"/v2", "/v2/", "/v2/n/manifests/r", "/v2/n/blobs/d", "/v2/n/tags",
            "/v2x"}
AdminPaths == {"/admin/status", "/admin/health", "/admin/logs",
               "/admin/gc/report", "/admin/analyze", "/admin/generate-manifest",
               "/admin/import", "/admin/gc/impact", "/admin/gc/execute",
               "/admin/other"}
Paths == V2Paths \cup AdminPaths \cup {"/other"}
Tokens == {"none", "wrong", "readonly", "admin"}

\* The request target: a path, perhaps with a query; a path with parameters or
\* a fragment; or a URL with scheme and host.
Forms == {"plain", "suffixed", "absolute"}
AllRequests == [method : Methods, path : Paths, form : Forms, token : Tokens]
Limiters == {"admin", "oci"}

\* max_workers is at least 1.
ASSUME AdmissionAssumption ==
    /\ IsFiniteSet(Threads) /\ Threads # {}
    /\ Traffic \subseteq AllRequests \X Addresses
    /\ Limit \in [Limiters -> Nat \ {0}]
    /\ Window \in Nat \ {0}
    /\ MaxTime \in Nat

VARIABLES
    config,    \* api.enabled, whether the tokens could be loaded, oci.restrict
    clock,     \* time.monotonic()
    hits,      \* RateLimiter._hits of both limiters
    th,        \* the request in each thread and how far it has come
    admitted,  \* history: stamps each limiter has let through
    served     \* history: stamps of token checks and of manifests and blobs
               \* served

vars == <<config, clock, hits, th, admitted, served>>

NoStamp == -1
Stamps == 0 .. MaxTime
Services == {"token", "pull"}
Idle == [pc |-> "idle"]

\* _cmd_serve refuses to restrict the OCI endpoints without authentication and
\* loads tokens only with it.
Configs == {c \in [enabled : BOOLEAN, tokens : BOOLEAN, restrict : BOOLEAN] :
              (c.tokens \/ c.restrict) => c.enabled}

Request(pc, r, a, stamp) ==
    [pc |-> pc, req |-> r, addr |-> a, stamp |-> stamp]

Active == [pc : {"admin", "auth", "oci", "handle"}, req : AllRequests,
           addr : Addresses, stamp : {NoStamp} \cup Stamps]

TypeOK ==
    /\ config \in Configs
    /\ clock \in Stamps
    /\ hits \in [Limiters \X Addresses -> Seq(Stamps)]
    /\ th \in [Threads -> {Idle} \cup Active]
    /\ admitted \in [Limiters \X Addresses -> Seq(Stamps)]
    /\ served \in [Services \X Addresses -> Seq(Stamps)]

Init ==
    /\ config \in Configs
    /\ clock = 0
    /\ hits = [q \in Limiters \X Addresses |-> <<>>]
    /\ th = [t \in Threads |-> Idle]
    /\ admitted = [q \in Limiters \X Addresses |-> <<>>]
    /\ served = [s \in Services \X Addresses |-> <<>>]

-----------------------------------------------------------------------------
(* Routing *)

\* do_GET and do_HEAD check the token of /v2 paths when they are restricted;
\* do_GET, do_POST and do_PUT that of /admin/ paths.
ChecksToken(r) ==
    \/ r.method \in {"GET", "HEAD"} /\ r.path \in V2Paths /\ config.restrict
    \/ r.method \in {"GET", "POST", "PUT"} /\ r.path \in AdminPaths

\* The paths below /v2/, except /v2/ itself.
ChecksOci(r) ==
    /\ r.method \in {"GET", "HEAD"}
    /\ r.path \in V2Paths \ {"/v2", "/v2/", "/v2x"}

AfterToken(r) == IF ChecksOci(r) THEN "oci" ELSE "handle"

\* The operations of the API by what they do.
Viewing == {"status", "health", "gc_report", "logs"}
Changing == {"analyze", "generate_manifest", "import", "import_put",
             "gc_impact", "gc_execute"}
Pulling == {"manifest", "blob"}

\* The handler of each method and path; everything else is not found.
Routes ==
    ({"GET", "HEAD"} \X {"/v2", "/v2/"} \X {"v2_root"})
    \cup ({"GET", "HEAD"} \X {"/v2/n/manifests/r"} \X {"manifest"})
    \cup ({"GET", "HEAD"} \X {"/v2/n/blobs/d"} \X {"blob"})
    \cup {<<"GET", "/admin/status", "status">>,
          <<"GET", "/admin/health", "health">>,
          <<"GET", "/admin/gc/report", "gc_report">>,
          <<"GET", "/admin/logs", "logs">>,
          <<"POST", "/admin/analyze", "analyze">>,
          <<"POST", "/admin/generate-manifest", "generate_manifest">>,
          <<"POST", "/admin/import", "import">>,
          <<"PUT", "/admin/import", "import_put">>,
          <<"POST", "/admin/gc/impact", "gc_impact">>,
          <<"POST", "/admin/gc/execute", "gc_execute">>}

Runs(r, h) == <<r.method, r.path, h>> \in Routes

-----------------------------------------------------------------------------
(* The middleware *)

ReadonlyEndpoints ==
    {"/admin/status", "/admin/health", "/admin/logs", "/admin/gc/report"}
      \X {"GET"}

\* The path authenticate_request works with. What urlparse would have dropped
\* is still there: the path keeps its prefix, but is none of the listed ones,
\* or it begins with a scheme.
SeenPath(r) ==
    IF r.form = "plain" THEN r.path
    ELSE IF r.form = "suffixed" /\ r.path \in V2Paths THEN "/v2x"
    ELSE IF r.form = "suffixed" /\ r.path \in AdminPaths THEN "/admin/other"
    ELSE "/other"

\* Mutant: the access matrix lists POST /admin/import only, and what it does
\* not list is read only.
RequiredLevel_NoPut(r) ==
    IF SeenPath(r) \in AdminPaths /\ r.method = "POST" THEN "admin"
                                                      ELSE "readonly"

\* authenticate_request and get_required_level: /v2 is checked only when
\* restricted; an admin endpoint nobody listed is the administrator's; any
\* other path needs no token.
RequiredLevel(r) ==
    IF SeenPath(r) \in V2Paths \/ <<SeenPath(r), r.method>> \in ReadonlyEndpoints
      THEN "readonly"
    ELSE IF SeenPath(r) \in AdminPaths THEN "admin"
    ELSE "none"

Open == ~config.enabled \/ ~config.tokens

\* 401 for no token and a wrong one, 403 for the read-only token where the
\* administrator's is needed.
Accepted(r) ==
    \/ Open \/ RequiredLevel(r) = "none"
    \/ r.token = "admin"
    \/ r.token = "readonly" /\ RequiredLevel(r) = "readonly"

-----------------------------------------------------------------------------
(* A request in a worker thread *)

Log(history, key, stamp) ==
    [history EXCEPT ![key] = Append(@, stamp)]

\* A worker takes a connection and the method's do_ function routes it.
Receive(t, r, a) ==
    /\ th[t].pc = "idle"
    /\ th' = [th EXCEPT ![t] =
                Request(IF ChecksToken(r) THEN "admin" ELSE AfterToken(r),
                        r, a, NoStamp)]
    /\ UNCHANGED <<config, clock, hits, admitted, served>>

\* Mutant: the start of the window is taken for the time.
Stamp_Start(t) ==
    /\ th[t].pc \in Limiters
    /\ th[t].stamp = NoStamp
    /\ th' = [th EXCEPT ![t].stamp = clock - Window]
    /\ UNCHANGED <<config, clock, hits, admitted, served>>

\* is_allowed reads the clock ...
Stamp(t) ==
    /\ th[t].pc \in Limiters
    /\ th[t].stamp = NoStamp
    /\ th' = [th EXCEPT ![t].stamp = clock]
    /\ UNCHANGED <<config, clock, hits, admitted, served>>

\* ... and then, holding the lock, drops what has expired at the left end.
Expired(q, now) == {i \in 1 .. Len(q) : \A j \in 1 .. i : q[j] <= now - Window}
Evicted(q, now) == SubSeq(q, Cardinality(Expired(q, now)) + 1, Len(q))

\* Mutant: the limit is one more.
Full_OffByOne(t) ==
    LET key == <<th[t].pc, th[t].addr>>
    IN  Len(Evicted(hits[key], th[t].stamp)) > Limit[th[t].pc]

\* Mutant: nothing is evicted.
Full_NoEviction(t) ==
    Len(hits[<<th[t].pc, th[t].addr>>]) >= Limit[th[t].pc]

Full(t) ==
    LET key == <<th[t].pc, th[t].addr>>
    IN  Len(Evicted(hits[key], th[t].stamp)) >= Limit[th[t].pc]

\* Past the limiter of the token check comes the token, past that of the OCI
\* endpoints the handler.
Admit(t) ==
    /\ th[t].pc \in Limiters
    /\ th[t].stamp # NoStamp
    /\ ~Full(t)
    /\ LET key == <<th[t].pc, th[t].addr>> IN
       /\ hits' = [hits EXCEPT ![key] =
                     Append(Evicted(@, th[t].stamp), th[t].stamp)]
       /\ admitted' = Log(admitted, key, th[t].stamp)
    /\ th' = [th EXCEPT ![t].pc = IF @ = "admin" THEN "auth" ELSE "handle"]
    /\ UNCHANGED <<config, clock, served>>

\* 429: the request ends, what had expired is gone all the same.
Refuse(t) ==
    /\ th[t].pc \in Limiters
    /\ th[t].stamp # NoStamp
    /\ Full(t)
    /\ hits' = [hits EXCEPT ![<<th[t].pc, th[t].addr>>] =
                  Evicted(@, th[t].stamp)]
    /\ th' = [th EXCEPT ![t] = Idle]
    /\ UNCHANGED <<config, clock, admitted, served>>

\* _check_auth after the limiter.
Authenticate(t) ==
    /\ th[t].pc = "auth"
    /\ th' = [th EXCEPT ![t] =
                IF Accepted(th[t].req)
                  THEN IF ChecksOci(th[t].req)
                         THEN Request("oci", th[t].req, th[t].addr, NoStamp)
                         ELSE [th[t] EXCEPT !.pc = "handle"]
                  ELSE Idle]
    /\ served' = IF Open \/ RequiredLevel(th[t].req) = "none" THEN served
                 ELSE Log(served, <<"token", th[t].addr>>, th[t].stamp)
    /\ UNCHANGED <<config, clock, hits, admitted>>

\* The handler runs and the thread returns to the pool.
Handle(t) ==
    /\ th[t].pc = "handle"
    /\ th' = [th EXCEPT ![t] = Idle]
    /\ served' = IF \E h \in Pulling : Runs(th[t].req, h)
                   THEN Log(served, <<"pull", th[t].addr>>,
                            IF th[t].stamp = NoStamp THEN clock
                                                     ELSE th[t].stamp)
                   ELSE served
    /\ UNCHANGED <<config, clock, hits, admitted>>

Tick ==
    /\ clock < MaxTime
    /\ clock' = clock + 1
    /\ UNCHANGED <<config, hits, th, admitted, served>>

Next ==
    \/ \E t \in Threads :
         \/ \E x \in Traffic : Receive(t, x[1], x[2])
         \/ Stamp(t)
         \/ Admit(t)
         \/ Refuse(t)
         \/ Authenticate(t)
         \/ Handle(t)
    \/ Tick

Spec == Init /\ [][Next]_vars

-----------------------------------------------------------------------------
(* Properties *)

Others == Cardinality(Threads) - 1
During(q, first, last) == Cardinality({i \in 1 .. Len(q) : q[i] \in first .. last})

\* Whatever route and method clients use, an address gets no more token checks
\* and no more manifests and blobs in any window than the limit, plus one for
\* each other worker that read the clock and was overtaken on its way to the
\* lock by a thread whose later stamp evicted what it would have met.
WindowLimited ==
    \A a \in Addresses, s \in Stamps :
      /\ During(served[<<"token", a>>], s - Window + 1, s)
           <= Limit["admin"] + Others
      /\ During(served[<<"pull", a>>], s - Window + 1, s)
           <= Limit["oci"] + Others

\* A request is refused only to an address that really was that busy: at least
\* the limit, less one for each other worker whose earlier stamp may sit
\* behind a later one in the deque, was let through since a window ago.
RefusedOnlyIfBusy ==
    [][\A t \in Threads : Refuse(t) =>
         During(admitted[<<th[t].pc, th[t].addr>>],
                th[t].stamp - Window + 1, MaxTime)
           >= Limit[th[t].pc] - Others]_vars

\* FR18 and FR28 of docs/prd.md: with authentication on, what changes anything
\* runs only with the administrator's token, what shows anything only with one
\* of the two, and so do pulls when they are restricted.
MayRun(r, h) ==
    \/ r.token = "admin"
    \/ r.token = "readonly" /\ h \notin Changing
    \/ h \notin Changing \cup Viewing /\ ~config.restrict

\* The routing table and the access matrix are two lists, and each computes the
\* path in its own way: no request reaches a handler its token does not entitle
\* it to, by whichever method and path, parameters and fragments included. For
\* a target with scheme and host, which no client of a registry sends to it,
\* the two paths have nothing in common and nothing is claimed.
AuthorisedOnly ==
    \A t \in Threads : th[t].pc = "handle" /\ th[t].req.form # "absolute" =>
      \A h \in Viewing \cup Changing \cup Pulling \cup {"v2_root"} :
        Runs(th[t].req, h) => Open \/ MayRun(th[t].req, h)
=============================================================================
