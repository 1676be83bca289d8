---------------------------- MODULE FetchProofs ----------------------------
(***************************************************************************)
(* Theorems about Fetch for any set of digests, any size of the pool, any  *)
(* number of commands and expiries, and any combination of faults.         *)
(*                                                                         *)
(*  - TypeCorrect: TypeOK is an invariant.                                 *)
(*  - ResponseComplete: a response accounts for every digest.              *)
(*  - CacheStaysVerified: without short writes, the cache holds verified   *)
(*    blobs only.                                                          *)
(*  - RetriesBounded: the two retry loops send nine requests at most.      *)
(*  - ErrorsAreMissing: a digest listed once is packed or reported.        *)
(*  - ExpiryCostsNothing: one expiry of the shared token loses no blob.    *)
(*                                                                         *)
(* ResponseAccounts is not inductive: FetchInv adds that only digests the  *)
(* command answers for are fetched or reported, and that the pool is idle  *)
(* except while the fetcher runs.                                          *)
(***************************************************************************)
EXTENDS Fetch, TLAPS

\* The digests of futures, of workers and of errors are the command's, and
\* the workers are idle when the fetcher does not run.
PoolInv ==
    /\ cmd.errors \subseteq cmd.want
    /\ \A d \in Digests : todo[d] > 0 => d \in cmd.want
    /\ \A w \in Workers : wk[w].pc # "idle" =>
          cmd.phase = "fetch" /\ wk[w].d \in cmd.want
FetchInv == TypeOK /\ PoolInv /\ ResponseAccounts

\* The locals of an idle worker are well typed.
LEMMA IdleWorkerType == IdleWorker \in Worker /\ IdleWorker.pc = "idle"
  <1>1. (CHOOSE d \in Digests : TRUE) \in Digests
    BY FetchAssumption
  <1> QED
    BY <1>1 DEF IdleWorker, Worker, Token, MaxSent, MAX_RETRIES, MAX_SHA_RETRIES

\* What a step of a worker may do to the command.
CommandKept(w) ==
    \/ cmd' = cmd
    \/ cmd' = [cmd EXCEPT !.errors = @ \cup {wk[w].d}]
    \/ cmd' = [cmd EXCEPT !.raised = TRUE]

\* A step of a busy worker that keeps its digest, or becomes idle, keeps
\* FetchInv.
LEMMA WorkerUpdate ==
  ASSUME FetchInv, NEW w \in Workers, NEW r \in Worker,
         wk[w].pc # "idle",
         r.pc = "idle" \/ r.d = wk[w].d,
         wk' = [wk EXCEPT ![w] = r],
         CommandKept(w),
         cache' \in [Digests -> {"absent"} \cup Content],
         token' \in Token,
         trouble' \in BOOLEAN,
         UNCHANGED <<todo, response, runs, expiries>>
  PROVE  FetchInv'
  <1> USE DEF FetchInv
  <1>1. cmd \in Command /\ wk \in [Workers -> Worker]
    BY DEF TypeOK
  <1>2. cmd.phase = "fetch" /\ wk[w].d \in cmd.want /\ wk[w].d \in Digests
    BY <1>1 DEF PoolInv, Worker
  <1>3. /\ cmd' \in Command
        /\ cmd'.phase = "fetch"
        /\ cmd'.want = cmd.want
        /\ cmd'.errors \subseteq cmd.want
    <2>1. cmd.errors \subseteq cmd.want /\ cmd.errors \subseteq Digests
      BY <1>1 DEF PoolInv, Command
    <2>2. CASE cmd' = cmd
      BY <1>1, <1>2, <2>1, <2>2
    <2>3. CASE cmd' = [cmd EXCEPT !.errors = @ \cup {wk[w].d}]
      <3>1. cmd.errors \cup {wk[w].d} \in SUBSET Digests
        BY <1>2, <2>1
      <3> QED
        BY <1>1, <1>2, <2>1, <2>3, <3>1 DEF Command
    <2>4. CASE cmd' = [cmd EXCEPT !.raised = TRUE]
      BY <1>1, <1>2, <2>1, <2>4 DEF Command
    <2> QED
      BY <2>2, <2>3, <2>4 DEF CommandKept
  <1>4. wk' \in [Workers -> Worker]
    BY <1>1
  <1>5. TypeOK'
    BY <1>3, <1>4 DEF TypeOK
  <1>6. \A v \in Workers : wk'[v].pc # "idle" => wk'[v].d \in cmd.want
    BY <1>1, <1>2 DEF PoolInv
  <1>7. PoolInv'
    BY <1>3, <1>6 DEF PoolInv
  <1>8. ResponseAccounts'
    BY <1>3 DEF ResponseAccounts
  <1> QED
    BY <1>5, <1>7, <1>8

\* A worker that ends its future keeps FetchInv.
LEMMA FinishKeeps ==
  ASSUME FetchInv, NEW w \in Workers, wk[w].pc # "idle", Finish(w),
         CommandKept(w),
         cache' \in [Digests -> {"absent"} \cup Content],
         token' \in Token,
         trouble' \in BOOLEAN,
         UNCHANGED <<todo, response, runs, expiries>>
  PROVE  FetchInv'
  BY IdleWorkerType, WorkerUpdate DEF Finish

\* A worker that will send another request keeps FetchInv.
LEMMA AgainKeeps ==
  ASSUME FetchInv, NEW w \in Workers, wk[w].pc # "idle",
         NEW p \in {"auth", "send"}, NEW s \in 0 .. MAX_SHA_RETRIES - 1,
         NEW a \in 0 .. MAX_RETRIES - 1, Again(w, p, s, a),
         token' \in Token,
         trouble' \in BOOLEAN,
         UNCHANGED <<cache, todo, response, runs, expiries>>
  PROVE  FetchInv'
  <1>1. wk[w] \in Worker /\ cache \in [Digests -> {"absent"} \cup Content]
    BY DEF FetchInv, TypeOK
  <1> DEFINE r == [wk[w] EXCEPT !.pc = p, !.sha = s, !.try = a,
                       !.tok = IF p = "auth" THEN "none" ELSE @,
                       !.n = IF @ < MaxSent THEN @ + 1 ELSE @]
  <1>2. r \in Worker /\ r.d = wk[w].d
    <2> DEFINE k == IF p = "auth" THEN "none" ELSE wk[w].tok
               m == IF wk[w].n < MaxSent THEN wk[w].n + 1 ELSE wk[w].n
    <2>1. k \in Token
      BY <1>1 DEF Worker, Token
    <2>2. m \in 0 .. MaxSent
      BY <1>1 DEF Worker, MaxSent, MAX_RETRIES, MAX_SHA_RETRIES
    <2>3. r = [wk[w] EXCEPT !.pc = p, !.sha = s, !.try = a, !.tok = k,
                            !.n = m]
      BY <1>1 DEF Worker
    <2> HIDE DEF k, m
    <2> QED
      BY <1>1, <2>1, <2>2, <2>3 DEF Worker
  <1>3. wk' = [wk EXCEPT ![w] = r]
    BY DEF Again
  <1>4. CommandKept(w)
    BY DEF Again, CommandKept
  <1> HIDE DEF r
  <1> QED
    BY <1>1, <1>2, <1>3, <1>4, WorkerUpdate

\* Every step of a worker keeps FetchInv.
LEMMA WorkerKeeps ==
  ASSUME FetchInv, NEW w \in Workers, WorkerStep(w)
  PROVE  FetchInv'
  <1>a. /\ wk[w] \in Worker /\ token \in Token /\ trouble \in BOOLEAN
        /\ cache \in [Digests -> {"absent"} \cup Content]
        /\ cmd \in Command
    BY DEF FetchInv, TypeOK
  <1> USE DEF At, Happened
  <1>1. ASSUME NEW d \in Digests, Take(w, d) PROVE FetchInv'
    <2> DEFINE r == [IdleWorker EXCEPT !.pc = "auth", !.d = d]
    <2>1. r \in Worker /\ r.d = d
      BY IdleWorkerType DEF Worker
    <2>2. wk' = [wk EXCEPT ![w] = r]
      BY <1>1 DEF Take
    <2> HIDE DEF r
    <2>3. cmd.phase = "fetch" /\ d \in cmd.want /\ UNCHANGED cmd
      BY <1>1 DEF Take, FetchInv, PoolInv
    <2>4. TypeOK'
      BY <1>1, <2>1, <2>2 DEF Take, FetchInv, TypeOK
    <2>5. PoolInv'
      <3>1. \A e \in Digests : todo'[e] > 0 => todo[e] > 0
        BY <1>1 DEF Take, FetchInv, TypeOK
      <3>2. \A v \in Workers : wk'[v].pc # "idle" => wk'[v].d \in cmd.want
        BY <2>1, <2>2, <2>3 DEF FetchInv, TypeOK, PoolInv
      <3> QED
        BY <2>3, <3>1, <3>2 DEF FetchInv, PoolInv
    <2>6. ResponseAccounts'
      BY <2>3 DEF ResponseAccounts
    <2> QED
      BY <2>4, <2>5, <2>6 DEF FetchInv
  <1>2. CASE Authorize(w)
    <2> DEFINE p == IF token = "none" THEN "keep" ELSE "send"
               k == IF token = "none" THEN "good" ELSE token
               r == [wk[w] EXCEPT !.pc = p, !.tok = k]
    <2>1. r \in Worker /\ r.d = wk[w].d
      BY <1>a DEF Worker, Token
    <2>2. wk' = [wk EXCEPT ![w] = r]
      BY <1>2 DEF Authorize
    <2> HIDE DEF r
    <2> QED
      BY <1>a, <1>2, <2>1, <2>2, WorkerUpdate DEF Authorize, CommandKept
  <1>3. CASE AuthorizeFails(w)
    BY <1>a, <1>3, FinishKeeps DEF AuthorizeFails, Fail, CommandKept
  <1>4. CASE KeepToken(w)
    <2> DEFINE r == [wk[w] EXCEPT !.pc = "send"]
    <2>1. r \in Worker /\ r.d = wk[w].d /\ wk[w].tok \in Token
      BY <1>a DEF Worker
    <2>2. wk' = [wk EXCEPT ![w] = r]
      BY <1>4 DEF KeepToken
    <2> HIDE DEF r
    <2> QED
      BY <1>a, <1>4, <2>1, <2>2, WorkerUpdate DEF KeepToken, CommandKept
  <1>5. CASE Deliver(w)
    <2> DEFINE r == [IdleWorker EXCEPT !.pc = "store", !.d = wk[w].d]
    <2>1. r \in Worker /\ r.d = wk[w].d
      BY <1>a, IdleWorkerType DEF Worker
    <2>2. wk' = [wk EXCEPT ![w] = r]
      BY <1>5 DEF Deliver
    <2> HIDE DEF r
    <2> QED
      BY <1>a, <1>5, <2>1, <2>2, WorkerUpdate DEF Deliver, CommandKept
  <1>6. CASE Garbled(w)
    <2>1. CASE wk[w].sha < MAX_SHA_RETRIES - 1
      <3>1. wk[w].sha + 1 \in 0 .. MAX_SHA_RETRIES - 1
        BY <1>a, <2>1 DEF Worker, MAX_SHA_RETRIES
      <3>2. 0 \in 0 .. MAX_RETRIES - 1
        BY DEF MAX_RETRIES
      <3> QED
        BY <1>a, <1>6, <2>1, <3>1, <3>2, AgainKeeps DEF Garbled
    <2>2. CASE ~(wk[w].sha < MAX_SHA_RETRIES - 1)
      BY <1>a, <1>6, <2>2, FinishKeeps DEF Garbled, Fail, CommandKept
    <2> QED
      BY <2>1, <2>2
  <1>7. CASE Unauthorized(w)
    <2>1. CASE wk[w].try = 0
      <3>1. 1 \in 0 .. MAX_RETRIES - 1 /\ "none" \in Token
        BY DEF MAX_RETRIES, Token
      <3>2. wk[w].sha \in 0 .. MAX_SHA_RETRIES - 1
        BY <1>a DEF Worker
      <3> QED
        BY <1>a, <1>7, <2>1, <3>1, <3>2, AgainKeeps DEF Unauthorized
    <2>2. CASE wk[w].try # 0
      BY <1>a, <1>7, <2>2, FinishKeeps DEF Unauthorized, Fail, CommandKept
    <2> QED
      BY <2>1, <2>2
  <1>8. CASE Busy(w)
    <2>1. CASE wk[w].try < MAX_RETRIES - 1
      <3>1. /\ wk[w].try + 1 \in 0 .. MAX_RETRIES - 1
            /\ wk[w].sha \in 0 .. MAX_SHA_RETRIES - 1
        BY <1>a, <2>1 DEF Worker, MAX_RETRIES
      <3> QED
        BY <1>a, <1>8, <2>1, <3>1, AgainKeeps DEF Busy
    <2>2. CASE ~(wk[w].try < MAX_RETRIES - 1)
      BY <1>a, <1>8, <2>2, FinishKeeps DEF Busy, Fail, CommandKept
    <2> QED
      BY <2>1, <2>2
  <1>9. CASE Refused(w)
    BY <1>a, <1>9, FinishKeeps DEF Refused, Fail, CommandKept
  <1>10. CASE AuthorizeRaises(w) \/ Broken(w)
    BY <1>a, <1>10, FinishKeeps DEF AuthorizeRaises, Broken, Raise, CommandKept
  <1>11. CASE StoreExists(w)
    <2> DEFINE r == [wk[w] EXCEPT !.pc = "rename"]
    <2>1. r \in Worker /\ r.d = wk[w].d
      BY <1>a DEF Worker
    <2>2. wk' = [wk EXCEPT ![w] = r] \/ Finish(w)
      BY <1>11 DEF StoreExists
    <2> HIDE DEF r
    <2> QED
      BY <1>a, <1>11, <2>1, <2>2, WorkerUpdate, FinishKeeps
         DEF StoreExists, CommandKept
  <1>12. CASE StoreRename(w)
    <2>1. cache' \in [Digests -> {"absent"} \cup Content]
      BY <1>a, <1>12 DEF StoreRename
    <2> QED
      BY <1>a, <1>12, <2>1, FinishKeeps DEF StoreRename, CommandKept
  <1>13. CASE StoreFails(w)
    BY <1>a, <1>13, FinishKeeps DEF StoreFails, Raise, CommandKept
  <1> QED
    BY <1>1, <1>2, <1>3, <1>4, <1>5, <1>6, <1>7, <1>8, <1>9, <1>10, <1>11,
       <1>12, <1>13 DEF WorkerStep

\* The steps of the command keep FetchInv: Build is the one that writes the
\* response, and by PoolInv it reports nothing the command did not want.
LEMMA CommandKeeps ==
  ASSUME FetchInv, CommandStep
  PROVE  FetchInv'
  <1>a. /\ cmd \in Command /\ wk \in [Workers -> Worker]
        /\ todo \in [Digests -> 0 .. 2]
        /\ cmd.want \subseteq Digests /\ cmd.errors \subseteq Digests
    BY DEF FetchInv, TypeOK, Command
  <1>b. cmd.phase # "fetch" => \A w \in Workers : wk[w].pc = "idle"
    BY DEF FetchInv, PoolInv
  <1>1. CASE CheckCache
    <2>1. cmd' \in Command /\ cmd'.phase = "fetch" /\ cmd'.want = cmd.want
          /\ cmd'.errors = cmd.errors
      BY <1>1, <1>a DEF CheckCache, Command
    <2>2. todo' \in [Digests -> 0 .. 2]
      BY <1>1, <1>a DEF CheckCache
    <2>3. TypeOK'
      BY <1>1, <2>1, <2>2 DEF CheckCache, FetchInv, TypeOK
    <2>4. \A d \in Digests : todo'[d] > 0 => todo[d] > 0
      BY <1>1, <1>a DEF CheckCache
    <2>5. PoolInv'
      BY <1>1, <2>1, <2>4 DEF CheckCache, FetchInv, PoolInv
    <2> QED
      BY <2>1, <2>3, <2>5 DEF FetchInv, ResponseAccounts
  <1>2. CASE Collect
    <2>1. /\ cmd' \in Command
          /\ cmd'.phase # "done"
          /\ cmd'.want = cmd.want
          /\ cmd'.errors = cmd.errors
      BY <1>2, <1>a DEF Collect, Command, Ended
    <2>2. TypeOK'
      BY <1>2, <2>1 DEF Collect, FetchInv, TypeOK
    <2>3. PoolInv'
      BY <1>2, <2>1 DEF Collect, FetchInv, PoolInv
    <2> QED
      BY <2>1, <2>2, <2>3 DEF FetchInv, ResponseAccounts
  <1>3. ASSUME NEW L \in SUBSET Digests, FetchManifests(L) PROVE FetchInv'
    <2>1. cmd.phase = "manifests"
      BY <1>3 DEF FetchManifests
    <2>2. /\ cmd' \in Command
          /\ cmd'.phase # "done"
          /\ cmd'.want = cmd.want \cup L
          /\ cmd'.errors = cmd.errors
      BY <1>3, <1>a DEF FetchManifests, Command
    <2>3. todo' \in [Digests -> 0 .. 2]
      BY <1>3 DEF FetchManifests
    <2>4. TypeOK'
      BY <1>3, <2>2, <2>3 DEF FetchManifests, FetchInv, TypeOK, Token
    <2>5. \A d \in Digests : todo'[d] > 0 => d \in L
      BY <1>3 DEF FetchManifests
    <2>6. wk' = wk
      BY <1>3 DEF FetchManifests
    <2>7. PoolInv'
      BY <1>b, <2>1, <2>2, <2>5, <2>6 DEF FetchInv, PoolInv
    <2> QED
      BY <2>2, <2>4, <2>7 DEF FetchInv, ResponseAccounts
  <1>4. CASE Build
    <2> DEFINE have == {d \in cmd.want : cache[d] # "absent"}
    <2>1. cmd.phase = "build"
      BY <1>4 DEF Build
    <2>2. /\ cmd' \in Command
          /\ cmd'.want = cmd.want
          /\ cmd'.errors = cmd.errors
      BY <1>4, <1>a DEF Build, Command, Ended
    <2>3. response' = [blobs |-> have,
                       errors |-> cmd.errors \cup (cmd.want \ have)]
      BY <1>4 DEF Build
    <2>4. TypeOK'
      BY <1>4, <1>a, <2>2, <2>3 DEF Build, FetchInv, TypeOK
    <2>5. PoolInv'
      BY <1>4, <1>b, <2>1, <2>2 DEF Build, FetchInv, PoolInv
    <2>6. cmd.errors \subseteq cmd.want
      BY DEF FetchInv, PoolInv
    <2>7. ResponseAccounts'
      BY <2>2, <2>3, <2>6 DEF ResponseAccounts
    <2> QED
      BY <2>4, <2>5, <2>7 DEF FetchInv
  <1> QED
    BY <1>1, <1>2, <1>3, <1>4 DEF CommandStep

\* A new command starts with an idle pool.
LEMMA StartKeeps ==
  ASSUME FetchInv, Start
  PROVE  FetchInv'
  <1>1. PICK B \in SUBSET Digests, i \in BOOLEAN : Run(B, i)
    BY DEF Start
  <1>2. /\ cmd' \in Command
        /\ cmd'.phase = "check"
        /\ cmd'.want = B
        /\ cmd'.errors = {}
    BY <1>1 DEF Run, NoCommand, Command
  <1>3. todo' \in [Digests -> 0 .. 2]
    BY <1>1 DEF Run, Listed
  <1>4. TypeOK'
    <2>1. runs \in 0 .. MaxRuns
      BY DEF FetchInv, TypeOK
    <2>2. runs' \in 0 .. MaxRuns /\ expiries' \in 0 .. MaxExpiries
      BY <1>1, <2>1, FetchAssumption DEF Run
    <2>3. token' \in Token /\ trouble' \in BOOLEAN
      BY <1>1 DEF Run, Token
    <2>4. UNCHANGED <<cache, wk, response>>
      BY <1>1 DEF Run
    <2> QED
      BY <1>2, <1>3, <2>2, <2>3, <2>4 DEF FetchInv, TypeOK
  <1>5. \A d \in Digests : todo'[d] > 0 => d \in B
    BY <1>1 DEF Run
  <1>6. wk' = wk /\ \A w \in Workers : wk[w].pc = "idle"
    BY <1>1 DEF Run, Ended, FetchInv, PoolInv
  <1>7. PoolInv'
    BY <1>2, <1>5, <1>6 DEF PoolInv
  <1> QED
    BY <1>2, <1>4, <1>7 DEF FetchInv, ResponseAccounts

\* Expiry ages tokens and nothing else.
LEMMA ExpireKeeps ==
  ASSUME FetchInv, Expire
  PROVE  FetchInv'
  <1>1. wk \in [Workers -> Worker] /\ token \in Token
    BY DEF FetchInv, TypeOK
  <1>2. \A t \in Token : Age(t) \in Token
    BY DEF Age, Token
  <1>3. \A w \in Workers :
           wk'[w] \in Worker /\ wk'[w].pc = wk[w].pc /\ wk'[w].d = wk[w].d
    <2> TAKE w \in Workers
    <2>1. wk[w].tok \in Token
      BY <1>1 DEF Worker
    <2>2. wk'[w] = wk[w] \/ wk'[w] = [wk[w] EXCEPT !.tok = Age(wk[w].tok)]
      BY <1>1 DEF Expire, Worker
    <2> QED
      BY <1>1, <1>2, <2>1, <2>2 DEF Worker
  <1>4. wk' \in [Workers -> Worker]
    BY <1>3 DEF Expire
  <1>5. TypeOK'
    BY <1>1, <1>2, <1>4, FetchAssumption DEF Expire, FetchInv, TypeOK
  <1>6. PoolInv'
    BY <1>3 DEF Expire, FetchInv, PoolInv
  <1> QED
    BY <1>5, <1>6 DEF Expire, FetchInv, ResponseAccounts

\* Neither cache clean nor an interrupt breaks it.
LEMMA WorldKeeps ==
  ASSUME FetchInv, Crash \/ \E d \in Digests : CacheClean(d)
  PROVE  FetchInv'
  <1>1. CASE Crash
    <2>1. /\ cmd' \in Command
          /\ cmd'.phase = "off"
          /\ cmd'.want = {}
          /\ cmd'.errors = {}
      BY <1>1 DEF Crash, NoCommand, Command, Ended
    <2>2. /\ wk' \in [Workers -> Worker]
          /\ \A w \in Workers : wk'[w].pc = "idle"
      BY <1>1, IdleWorkerType DEF Crash
    <2>3. todo' \in [Digests -> 0 .. 2] /\ \A d \in Digests : todo'[d] = 0
      BY <1>1 DEF Crash
    <2>4. TypeOK'
      BY <1>1, <2>1, <2>2, <2>3 DEF Crash, Happened, FetchInv, TypeOK
    <2>5. PoolInv'
      BY <2>1, <2>2, <2>3 DEF PoolInv
    <2> QED
      BY <2>1, <2>4, <2>5 DEF FetchInv, ResponseAccounts
  <1>2. ASSUME NEW d \in Digests, CacheClean(d) PROVE FetchInv'
    <2>1. TypeOK'
      BY <1>2 DEF CacheClean, Happened, FetchInv, TypeOK
    <2> QED
      BY <1>2, <2>1 DEF CacheClean, FetchInv, PoolInv, ResponseAccounts
  <1> QED
    BY <1>1, <1>2

\* FetchInv holds at first and every step keeps it.
LEMMA FetchInit == Init => FetchInv
  <1> SUFFICES ASSUME Init PROVE FetchInv
    OBVIOUS
  <1>1. TypeOK
    <2>1. cache \in [Digests -> {"absent"} \cup Content]
      BY DEF Init, Content
    <2>2. cmd \in Command
      BY DEF Init, NoCommand, Command, Ended
    <2>3. todo \in [Digests -> 0 .. 2] /\ wk \in [Workers -> Worker]
      BY IdleWorkerType DEF Init
    <2>4. runs \in 0 .. MaxRuns /\ expiries \in 0 .. MaxExpiries
      BY FetchAssumption DEF Init
    <2> QED
      BY <2>1, <2>2, <2>3, <2>4 DEF Init, TypeOK, Token
  <1>2. PoolInv /\ ResponseAccounts
    BY IdleWorkerType DEF Init, PoolInv, ResponseAccounts, NoCommand
  <1> QED
    BY <1>1, <1>2 DEF FetchInv

LEMMA FetchStep == FetchInv /\ [Next]_vars => FetchInv'
  <1> SUFFICES ASSUME FetchInv, [Next]_vars PROVE FetchInv'
    OBVIOUS
  <1>1. CASE UNCHANGED vars
    BY <1>1 DEF vars, FetchInv, TypeOK, PoolInv, ResponseAccounts
  <1>2. CASE Next
    BY <1>2, StartKeeps, CommandKeeps, WorkerKeeps, ExpireKeeps, WorldKeeps
       DEF Next
  <1> QED
    BY <1>1, <1>2

\* The variables of the fetch command keep their types: in particular no
\* attempt counter of _fetch_one and _request leaves its range.
THEOREM TypeCorrect == Spec => []TypeOK
  <1>1. FetchInv => TypeOK
    BY DEF FetchInv
  <1> QED
    BY <1>1, FetchInit, FetchStep, PTL DEF Spec

\* build_response accounts for every digest of the request and of the
\* manifests, whatever the registry, the disk, `cache clean' and the operator
\* do, for any number of digests, workers and commands.
THEOREM ResponseComplete == Spec => []ResponseAccounts
  <1>1. FetchInv => ResponseAccounts
    BY DEF FetchInv
  <1> QED
    BY <1>1, FetchInit, FetchStep, PTL DEF Spec

-----------------------------------------------------------------------------
\* store_blob is the only code that puts a file into the cache, and it is only
\* reached with data that _fetch_one has found to match the digest: unless
\* os.write stops early, the cache holds verified blobs only.
THEOREM CacheStaysVerified ==
  ASSUME "short" \notin Faults
  PROVE  Spec => []CacheVerified
  <1> DEFINE Inv == FetchInv /\ CacheVerified
  <1>1. Init => Inv
    BY FetchInit DEF Init, CacheVerified
  <1>2. Inv /\ [Next]_vars => Inv'
    <2> SUFFICES ASSUME Inv, [Next]_vars PROVE CacheVerified'
      BY FetchStep
    <2>1. cache \in [Digests -> {"absent"} \cup Content]
      BY DEF FetchInv, TypeOK
    <2>2. CASE UNCHANGED cache
      BY <2>2 DEF CacheVerified
    <2>3. ASSUME NEW w \in Workers, StoreRename(w) PROVE CacheVerified'
      <3>1. cache' = [cache EXCEPT ![wk[w].d] = "whole"]
        BY <2>3 DEF StoreRename, Content
      <3> QED
        BY <2>1, <3>1 DEF CacheVerified
    <2>4. ASSUME NEW d \in Digests, CacheClean(d) PROVE CacheVerified'
      BY <2>1, <2>4 DEF CacheClean, CacheVerified
    <2>5. ASSUME NEW w \in Workers, WorkerStep(w)
          PROVE  UNCHANGED cache \/ StoreRename(w)
      BY <2>5 DEF WorkerStep, Take, Authorize, AuthorizeFails, KeepToken,
                  Deliver, Garbled, Unauthorized, Busy, Refused,
                  AuthorizeRaises, Broken,
                  StoreExists, StoreFails
    <2>6. Start \/ CommandStep \/ Expire \/ Crash => UNCHANGED cache
      BY DEF Start, Run, CommandStep, CheckCache, Collect, FetchManifests,
             Build, Expire, Crash
    <2> QED
      BY <2>2, <2>3, <2>4, <2>5, <2>6 DEF Next, vars
  <1>3. Inv => CacheVerified
    OBVIOUS
  <1> QED
    BY <1>1, <1>2, <1>3, PTL DEF Spec

-----------------------------------------------------------------------------
(* The two retry loops *)

\* The requests a worker has sent for its blob are paid for by its two attempt
\* counters: a new round of _fetch_one is worth the three attempts of _request
\* it starts over.
Paid(r) == r.n <= MAX_RETRIES * r.sha + r.try
RetryInv == FetchInv /\ \A w \in Workers : Paid(wk[w])

\* One request more, on either loop.
LEMMA AgainPaid ==
  ASSUME RetryInv, NEW w \in Workers, NEW p, NEW sha \in 0 .. 2, NEW try \in 0 .. 2,
         Again(w, p, sha, try),
         MAX_RETRIES * wk[w].sha + wk[w].try + 1 <= MAX_RETRIES * sha + try
  PROVE  \A u \in Workers : Paid(wk'[u])
  <1>1. wk \in [Workers -> Worker]
    BY DEF RetryInv, FetchInv, TypeOK
  <1>2. wk[w].n \in Nat /\ wk[w].sha \in Nat /\ wk[w].try \in Nat
    BY <1>1 DEF Worker, MaxSent, MAX_RETRIES, MAX_SHA_RETRIES
  <1>3. /\ wk'[w].sha = sha /\ wk'[w].try = try
        /\ wk'[w].n = IF wk[w].n < MaxSent THEN wk[w].n + 1 ELSE wk[w].n
    BY <1>1 DEF Again, Worker
  <1>4. Paid(wk[w])
    BY DEF RetryInv
  <1>5. Paid(wk'[w])
    BY <1>2, <1>3, <1>4 DEF Paid, MaxSent, MAX_RETRIES, MAX_SHA_RETRIES
  <1>6. \A u \in Workers : u # w => wk'[u] = wk[u]
    BY <1>1 DEF Again
  <1> QED
    BY <1>5, <1>6 DEF RetryInv

\* RequestsBounded, for any number of workers and however often the registry
\* is busy, sends garbage or rejects the token.
THEOREM RetriesBounded == Spec => []RequestsBounded
  <1>1. Init => RetryInv
    <2> SUFFICES ASSUME Init PROVE \A w \in Workers : Paid(wk[w])
      BY FetchInit DEF RetryInv
    <2> QED
      BY DEF Init, IdleWorker, Paid, MAX_RETRIES
  <1>2. RetryInv /\ [Next]_vars => RetryInv'
    <2> SUFFICES ASSUME RetryInv, [Next]_vars
                 PROVE  \A u \in Workers : Paid(wk'[u])
      BY FetchStep DEF RetryInv
    <2>1. /\ wk \in [Workers -> Worker]
          /\ \A u \in Workers : Paid(wk[u])
          /\ \A u \in Workers : wk[u].sha \in 0 .. 2 /\ wk[u].try \in 0 .. 2
      BY DEF RetryInv, FetchInv, TypeOK, Worker, MAX_RETRIES, MAX_SHA_RETRIES
    <2>2. Paid(IdleWorker)
      BY DEF IdleWorker, Paid, MAX_RETRIES
    <2>3. CASE UNCHANGED wk
      BY <2>1, <2>3
    <2>4. ASSUME NEW w \in Workers, NEW r, wk' = [wk EXCEPT ![w] = r], Paid(r)
          PROVE  \A u \in Workers : Paid(wk'[u])
      BY <2>1, <2>4
    <2>5. ASSUME NEW w \in Workers, Finish(w)
          PROVE  \A u \in Workers : Paid(wk'[u])
      BY <2>2, <2>4, <2>5 DEF Finish
    <2>6. ASSUME NEW w \in Workers, NEW d \in Digests, Take(w, d)
          PROVE  \A u \in Workers : Paid(wk'[u])
      <3> DEFINE r == [IdleWorker EXCEPT !.pc = "auth", !.d = d]
      <3>1. Paid(r)
        BY DEF IdleWorker, Paid, MAX_RETRIES
      <3>2. wk' = [wk EXCEPT ![w] = r]
        BY <2>6 DEF Take
      <3> HIDE DEF r
      <3> QED
        BY <2>1, <3>1, <3>2
    <2>7. ASSUME NEW w \in Workers, Deliver(w)
          PROVE  \A u \in Workers : Paid(wk'[u])
      <3> DEFINE r == [IdleWorker EXCEPT !.pc = "store", !.d = wk[w].d]
      <3>1. Paid(r)
        BY DEF IdleWorker, Paid, MAX_RETRIES
      <3>2. wk' = [wk EXCEPT ![w] = r]
        BY <2>7 DEF Deliver
      <3> HIDE DEF r
      <3> QED
        BY <2>1, <3>1, <3>2
    <2>8. ASSUME NEW w \in Workers, Authorize(w) \/ KeepToken(w) \/ StoreExists(w)
          PROVE  \A u \in Workers : Paid(wk'[u])
      <3>1. CASE Finish(w)
        BY <2>5, <3>1
      <3>2. CASE ~Finish(w)
        <4>1. /\ \A u \in Workers : u # w => wk'[u] = wk[u]
              /\ wk'[w].n = wk[w].n /\ wk'[w].sha = wk[w].sha
              /\ wk'[w].try = wk[w].try
          BY <2>1, <2>8, <3>2 DEF Authorize, KeepToken, StoreExists, Worker
        <4> QED
          BY <2>1, <4>1 DEF Paid
      <3> QED
        BY <3>1, <3>2
    <2>9. ASSUME NEW w \in Workers, Garbled(w)
          PROVE  \A u \in Workers : Paid(wk'[u])
      <3>1. CASE wk[w].sha < MAX_SHA_RETRIES - 1
        <4>1. Again(w, "auth", wk[w].sha + 1, 0)
          BY <2>9, <3>1 DEF Garbled
        <4>2. wk[w].sha + 1 \in 0 .. 2 /\ 0 \in 0 .. 2
              /\ MAX_RETRIES * wk[w].sha + wk[w].try + 1
                   <= MAX_RETRIES * (wk[w].sha + 1) + 0
          BY <2>1, <3>1 DEF MAX_RETRIES, MAX_SHA_RETRIES
        <4> QED
          BY <4>1, <4>2, AgainPaid
      <3>2. CASE ~(wk[w].sha < MAX_SHA_RETRIES - 1)
        BY <2>5, <2>9, <3>2 DEF Garbled, Fail
      <3> QED
        BY <3>1, <3>2
    <2>10. ASSUME NEW w \in Workers, Unauthorized(w)
           PROVE  \A u \in Workers : Paid(wk'[u])
      <3>1. CASE wk[w].try = 0
        <4>1. Again(w, "auth", wk[w].sha, 1)
          BY <2>10, <3>1 DEF Unauthorized
        <4>2. MAX_RETRIES * wk[w].sha + wk[w].try + 1 <= MAX_RETRIES * wk[w].sha + 1
          BY <2>1, <3>1 DEF MAX_RETRIES
        <4> QED
          BY <2>1, <4>1, <4>2, AgainPaid
      <3>2. CASE wk[w].try # 0
        BY <2>5, <2>10, <3>2 DEF Unauthorized, Fail
      <3> QED
        BY <3>1, <3>2
    <2>11. ASSUME NEW w \in Workers, Busy(w)
           PROVE  \A u \in Workers : Paid(wk'[u])
      <3>1. CASE wk[w].try < MAX_RETRIES - 1
        <4>1. Again(w, "send", wk[w].sha, wk[w].try + 1)
          BY <2>11, <3>1 DEF Busy
        <4>2. wk[w].try + 1 \in 0 .. 2
              /\ MAX_RETRIES * wk[w].sha + wk[w].try + 1
                   <= MAX_RETRIES * wk[w].sha + (wk[w].try + 1)
          BY <2>1, <3>1 DEF MAX_RETRIES
        <4> QED
          BY <2>1, <4>1, <4>2, AgainPaid
      <3>2. CASE ~(wk[w].try < MAX_RETRIES - 1)
        BY <2>5, <2>11, <3>2 DEF Busy, Fail
      <3> QED
        BY <3>1, <3>2
    <2>12. ASSUME NEW w \in Workers, WorkerStep(w)
           PROVE  \A u \in Workers : Paid(wk'[u])
      <3>1. AuthorizeFails(w) \/ AuthorizeRaises(w) \/ Refused(w) \/ Broken(w)
               \/ StoreRename(w)
              \/ StoreFails(w) => Finish(w)
        BY DEF AuthorizeFails, AuthorizeRaises, Refused, Broken, StoreRename,
               StoreFails, Fail, Raise
      <3> QED
        BY <2>5, <2>6, <2>7, <2>8, <2>9, <2>10, <2>11, <2>12, <3>1 DEF WorkerStep
    <2>13. CASE Expire
      <3>1. \A u \in Workers : /\ wk'[u].n = wk[u].n /\ wk'[u].sha = wk[u].sha
                               /\ wk'[u].try = wk[u].try
        BY <2>1, <2>13 DEF Expire, Worker
      <3> QED
        BY <2>1, <3>1 DEF Paid
    <2>14. CASE Crash
      BY <2>2, <2>14 DEF Crash
    <2>15. Start \/ CommandStep \/ (\E d \in Digests : CacheClean(d)) => UNCHANGED wk
      BY DEF Start, Run, CommandStep, CheckCache, Collect, FetchManifests,
             Build, CacheClean
    <2> QED
      BY <2>3, <2>12, <2>13, <2>14, <2>15 DEF Next, vars
  <1>3. RetryInv => RequestsBounded
    <2> SUFFICES ASSUME RetryInv, NEW w \in Workers PROVE wk[w].n < MaxSent
      BY DEF RequestsBounded
    <2>1. wk[w] \in Worker /\ Paid(wk[w])
      BY DEF RetryInv, FetchInv, TypeOK
    <2> QED
      BY <2>1 DEF Worker, Paid, MaxSent, MAX_RETRIES, MAX_SHA_RETRIES
  <1> QED
    BY <1>1, <1>2, <1>3, PTL DEF Spec

-----------------------------------------------------------------------------
(* Errors *)

Working(w) == wk[w].pc # "idle"

\* A digest that is listed once has one future, and until that future ends
\* well nobody puts its blob into the cache: an error about it means that the
\* cache does not have it, and nobody is about to store it.
Once(d) ==
    /\ todo[d] <= 1
    /\ cmd.phase = "fetch" /\ todo[d] > 0 => cache[d] = "absent"
    /\ d \in cmd.errors => cache[d] = "absent" /\ todo[d] = 0
    /\ \A w \in Workers : Working(w) /\ wk[w].d = d =>
         /\ cache[d] = "absent" /\ todo[d] = 0 /\ d \notin cmd.errors
         /\ \A u \in Workers : Working(u) /\ wk[u].d = d => u = w
OnceInv ==
    /\ FetchInv
    /\ \A d \in Digests \ Twice : Once(d)
    /\ ErrorMeansMissing

\* A step of a working thread that goes on with its blob, or ends with an error
\* or with a file in the cache.
LEMMA WorkerOnce ==
  ASSUME OnceInv, FetchInv', NEW w \in Workers, NEW r, Working(w),
         wk' = [wk EXCEPT ![w] = r],
         r.pc = "idle" \/ r.d = wk[w].d,
         cmd'.phase = "fetch",
         cmd'.errors = cmd.errors
           \/ (r.pc = "idle" /\ cmd'.errors = cmd.errors \cup {wk[w].d}),
         cache' = cache
           \/ (/\ r.pc = "idle" /\ cmd'.errors = cmd.errors
               /\ \E c : cache' = [cache EXCEPT ![wk[w].d] = c]),
         UNCHANGED todo
  PROVE  OnceInv'
  <1>1. wk \in [Workers -> Worker] /\ cmd.phase = "fetch"
        /\ cache \in [Digests -> {"absent"} \cup Content]
    BY DEF OnceInv, FetchInv, TypeOK, PoolInv, Working
  <1>2. \A u \in Workers : wk'[u] = IF u = w THEN r ELSE wk[u]
    BY <1>1
  <1>3. ASSUME NEW d \in Digests \ Twice PROVE Once(d)'
    <2>1. Once(d) /\ todo'[d] = todo[d]
      BY DEF OnceInv
    <2>2. CASE wk[w].d # d
      <3>1. cache'[d] = cache[d] /\ (d \in cmd'.errors <=> d \in cmd.errors)
        BY <1>1, <2>2
      <3>2. \A u \in Workers : wk'[u].pc # "idle" /\ wk'[u].d = d
              => Working(u) /\ wk[u].d = d
        BY <1>2, <2>2 DEF Working
      <3> QED
        BY <1>1, <2>1, <3>1, <3>2 DEF Once, Working
    <2>3. CASE wk[w].d = d
      <3>1. /\ cache[d] = "absent" /\ todo[d] = 0 /\ d \notin cmd.errors
            /\ \A u \in Workers : Working(u) /\ wk[u].d = d => u = w
        BY <2>1, <2>3 DEF Once
      <3>2. CASE r.pc = "idle"
        <4>1. \A u \in Workers : ~(wk'[u].pc # "idle" /\ wk'[u].d = d)
          BY <1>2, <3>1, <3>2 DEF Working
        <4>2. d \in cmd'.errors => cache'[d] = "absent"
          BY <3>1
        <4> QED
          BY <2>1, <3>1, <4>1, <4>2 DEF Once, Working
      <3>3. CASE r.pc # "idle"
        <4>1. cache' = cache /\ cmd'.errors = cmd.errors
          BY <3>3
        <4>2. \A u \in Workers : wk'[u].pc # "idle" /\ wk'[u].d = d => u = w
          BY <1>2, <3>1 DEF Working
        <4> QED
          BY <2>1, <3>1, <4>1, <4>2 DEF Once, Working
      <3> QED
        BY <3>2, <3>3
    <2> QED
      BY <2>2, <2>3
  <1> QED
    BY <1>3 DEF OnceInv, ErrorMeansMissing

\* A worker takes a future.
LEMMA TakeOnce ==
  ASSUME OnceInv, FetchInv', NEW w \in Workers, NEW e \in Digests, Take(w, e)
  PROVE  OnceInv'
  <1>1. /\ wk \in [Workers -> Worker] /\ todo \in [Digests -> 0 .. 2]
        /\ cmd.phase = "fetch" /\ ~Working(w) /\ todo[e] > 0
        /\ todo' = [todo EXCEPT ![e] = @ - 1]
        /\ UNCHANGED <<cache, cmd>>
    BY DEF OnceInv, FetchInv, TypeOK, Take, At, Working
  <1>2. \A u \in Workers : u # w => wk'[u] = wk[u]
    BY <1>1 DEF Take
  <1>3. wk'[w].d = e
    BY <1>1 DEF Take, IdleWorker
  <1>4. ASSUME NEW d \in Digests \ Twice PROVE Once(d)'
    <2>1. Once(d)
      BY DEF OnceInv
    <2>2. CASE d # e
      <3>1. \A u \in Workers : wk'[u].pc # "idle" /\ wk'[u].d = d
              => Working(u) /\ wk[u].d = d
        BY <1>2, <1>3, <2>2 DEF Working
      <3>2. todo'[d] = todo[d]
        BY <1>1, <2>2
      <3> QED
        BY <1>1, <2>1, <3>1, <3>2 DEF Once, Working
    <2>3. CASE d = e
      <3>1. cache[d] = "absent" /\ d \notin cmd.errors /\ todo'[d] = 0
        BY <1>1, <2>1, <2>3 DEF Once
      <3>2. \A u \in Workers : ~(Working(u) /\ wk[u].d = d)
        BY <1>1, <2>1, <2>3 DEF Once
      <3>3. \A u \in Workers : wk'[u].pc # "idle" /\ wk'[u].d = d => u = w
        BY <1>2, <3>2 DEF Working
      <3> QED
        BY <1>1, <3>1, <3>3 DEF Once, Working
    <2> QED
      BY <2>2, <2>3
  <1> QED
    BY <1>1, <1>4 DEF OnceInv, ErrorMeansMissing

\* The steps of a working thread are of that kind.
LEMMA WorkerStepOnce ==
  ASSUME OnceInv, FetchInv', NEW w \in Workers, WorkerStep(w)
  PROVE  OnceInv'
  <1>t. /\ wk \in [Workers -> Worker] /\ cmd \in Command
        /\ wk[w] \in Worker
        /\ Working(w) => cmd.phase = "fetch"
    BY DEF OnceInv, FetchInv, TypeOK, PoolInv, Working
  <1>1. CASE \E d \in Digests : Take(w, d)
    BY <1>1, TakeOnce
  <1>2. ASSUME Working(w), Finish(w), UNCHANGED todo,
               cmd' = cmd \/ cmd' = [cmd EXCEPT !.raised = TRUE]
                 \/ (/\ cmd' = [cmd EXCEPT !.errors = @ \cup {wk[w].d}]
                     /\ UNCHANGED cache),
               cache' = cache \/ \E c : cache' = [cache EXCEPT ![wk[w].d] = c]
        PROVE  OnceInv'
    <2>1. /\ cmd'.phase = "fetch"
          /\ \/ cmd'.errors = cmd.errors
             \/ cmd'.errors = cmd.errors \cup {wk[w].d} /\ cache' = cache
      BY <1>2, <1>t DEF Command
    <2>2. wk' = [wk EXCEPT ![w] = IdleWorker]
      BY <1>2 DEF Finish
    <2> QED
      BY <1>2, <2>1, <2>2, IdleWorkerType, WorkerOnce
  <1>3. ASSUME Working(w), NEW r, wk' = [wk EXCEPT ![w] = r], r.d = wk[w].d,
               UNCHANGED <<todo, cache, cmd>>
        PROVE  OnceInv'
    <2>1. cmd'.phase = "fetch" /\ cmd'.errors = cmd.errors /\ cache' = cache
      BY <1>3, <1>t
    <2> QED
      BY <1>3, <2>1, WorkerOnce
  <1>4. CASE AuthorizeFails(w) \/ AuthorizeRaises(w) \/ Refused(w) \/ Broken(w)
               \/ StoreRename(w)
               \/ StoreFails(w)
    BY <1>2, <1>4 DEF AuthorizeFails, AuthorizeRaises, Refused, Broken,
               StoreRename, StoreFails,
       Fail, Raise, At, Working
  <1>5. ASSUME NEW p, NEW sha, NEW try, Working(w), Again(w, p, sha, try),
               UNCHANGED <<todo, cache>>
        PROVE  OnceInv'
    <2> DEFINE r == wk'[w]
    <2>1. wk' = [wk EXCEPT ![w] = r] /\ r.d = wk[w].d
      BY <1>5, <1>t DEF Again, Worker
    <2>2. UNCHANGED cmd
      BY <1>5 DEF Again
    <2>3. cmd'.phase = "fetch" /\ cmd'.errors = cmd.errors /\ cache' = cache
      BY <1>5, <1>t, <2>2
    <2> QED
      BY <1>5, <2>1, <2>3, WorkerOnce
  <1>6. CASE Garbled(w) \/ Unauthorized(w) \/ Busy(w)
    <2>1. Working(w) /\ UNCHANGED <<todo, cache>>
      BY <1>6 DEF Garbled, Unauthorized, Busy, At, Working
    <2>2. CASE Fail(w)
      BY <1>2, <2>1, <2>2 DEF Fail
    <2>3. CASE ~Fail(w)
      <3>1. \E p, sha, try : Again(w, p, sha, try)
        BY <1>6, <2>3 DEF Garbled, Unauthorized, Busy
      <3> QED
        BY <1>5, <2>1, <3>1
    <2> QED
      BY <2>2, <2>3
  <1>7. CASE Authorize(w) \/ KeepToken(w) \/ Deliver(w) \/ StoreExists(w)
    <2>1. Working(w) /\ UNCHANGED <<todo, cache, cmd>>
      BY <1>7 DEF Authorize, KeepToken, Deliver, StoreExists, At, Working
    <2>2. CASE Finish(w)
      BY <1>2, <2>1, <2>2
    <2>3. CASE ~Finish(w)
      <3>1. wk' = [wk EXCEPT ![w] = wk'[w]] /\ wk'[w].d = wk[w].d
        <4>1. CASE Authorize(w)
          BY <1>t, <4>1 DEF Authorize, Worker
        <4>2. CASE KeepToken(w)
          BY <1>t, <4>2 DEF KeepToken, Worker
        <4>3. CASE Deliver(w)
          BY <1>t, <4>3 DEF Deliver, IdleWorker
        <4>4. CASE StoreExists(w)
          BY <1>t, <2>3, <4>4 DEF StoreExists, Worker
        <4> QED
          BY <1>7, <4>1, <4>2, <4>3, <4>4
      <3>2. cmd'.phase = "fetch" /\ cmd'.errors = cmd.errors /\ cache' = cache
        BY <1>t, <2>1
      <3> QED
        BY <2>1, <3>1, <3>2, WorkerOnce
    <2> QED
      BY <2>2, <2>3
  <1> QED
    BY <1>1, <1>4, <1>6, <1>7 DEF WorkerStep

\* ErrorMeansMissing, for any number of workers, digests and commands and all
\* faults: what build_response reports of a digest that is listed once agrees
\* with what it packs.
THEOREM ErrorsAreMissing == Spec => []ErrorMeansMissing
  <1>1. Init => OnceInv
    <2> SUFFICES ASSUME Init PROVE OnceInv
      OBVIOUS
    <2>a. \A d \in Digests : todo[d] = 0
      BY DEF Init
    <2>b. \A w \in Workers : wk[w].pc = "idle"
      BY IdleWorkerType DEF Init
    <2>c. cmd.errors = {}
      BY DEF Init, NoCommand
    <2>1. ASSUME NEW d \in Digests PROVE Once(d)
      <3>1. todo[d] = 0 /\ d \notin cmd.errors
        BY <2>a, <2>c
      <3>2. todo[d] <= 1 /\ ~(todo[d] > 0)
        BY <3>1
      <3>3. \A w \in Workers : ~Working(w)
        BY <2>b DEF Working
      <3> QED
        BY <3>1, <3>2, <3>3 DEF Once
    <2> QED
      BY <2>1, FetchInit DEF OnceInv, Init, NoCommand, ErrorMeansMissing
  <1>2. OnceInv /\ [Next]_vars => OnceInv'
    <2> SUFFICES ASSUME OnceInv, [Next]_vars PROVE OnceInv'
      OBVIOUS
    <2>f. FetchInv'
      BY FetchStep DEF OnceInv
    <2>t. /\ wk \in [Workers -> Worker] /\ cmd \in Command
          /\ todo \in [Digests -> 0 .. 2]
          /\ cache \in [Digests -> {"absent"} \cup Content]
          /\ cmd.errors \subseteq cmd.want
          /\ cmd.phase # "fetch" => \A w \in Workers : ~Working(w)
          /\ \A d \in Digests \ Twice : Once(d)
      BY DEF OnceInv, FetchInv, TypeOK, PoolInv, Working
    <2>1. CASE UNCHANGED vars
      BY <2>1, <2>f, <2>t DEF vars, OnceInv, Once, Working, ErrorMeansMissing
    <2>2. ASSUME NEW B \in SUBSET Digests, NEW images \in BOOLEAN, Run(B, images)
          PROVE  OnceInv'
      <3>1. cmd'.phase = "check" /\ cmd'.errors = {} /\ UNCHANGED wk
            /\ \A w \in Workers : ~Working(w)
        BY <2>2, <2>t DEF Run, NoCommand, Ended
      <3>2. \A d \in Digests \ Twice : todo'[d] <= 1
        BY <2>2 DEF Run, Listed
      <3> QED
        BY <2>f, <3>1, <3>2 DEF OnceInv, Once, Working, ErrorMeansMissing
    <2>3. CASE CheckCache
      <3>1. /\ cmd.phase = "check" /\ cmd'.phase = "fetch"
            /\ cmd'.errors = cmd.errors
            /\ UNCHANGED <<cache, wk>>
        BY <2>3, <2>t DEF CheckCache, Command
      <3>2. \A d \in Digests : todo'[d] = IF cache[d] = "absent" THEN todo[d] ELSE 0
        BY <2>3 DEF CheckCache
      <3> QED
        BY <2>f, <2>t, <3>1, <3>2 DEF OnceInv, Once, Working, ErrorMeansMissing
    <2>4. CASE Collect
      <3>1. /\ cmd'.phase \in {"aborted", "build", "manifests"}
            /\ cmd'.errors = cmd.errors
            /\ UNCHANGED <<cache, wk, todo>>
        BY <2>4, <2>t DEF Collect, Command
      <3> QED
        BY <2>f, <2>t, <3>1 DEF OnceInv, Once, Working, ErrorMeansMissing
    <2>5. ASSUME NEW L \in SUBSET Digests, FetchManifests(L) PROVE OnceInv'
      <3>1. /\ cmd.phase = "manifests" /\ cmd'.phase \in {"build", "check"}
            /\ cmd'.errors = cmd.errors
            /\ UNCHANGED <<cache, wk>>
        BY <2>5, <2>t DEF FetchManifests, Command
      <3>2. \A d \in Digests : todo'[d] = IF d \in L \ cmd.want THEN 1 ELSE 0
        BY <2>5 DEF FetchManifests
      <3> QED
        BY <2>f, <2>t, <3>1, <3>2 DEF OnceInv, Once, Working, ErrorMeansMissing
    <2>6. CASE Build
      <3>1. /\ cmd.phase = "build" /\ cmd'.phase = "done"
            /\ cmd'.errors = cmd.errors
            /\ UNCHANGED <<cache, wk, todo>>
        BY <2>6, <2>t DEF Build, Command
      <3>2. \A d \in Digests \ Twice : Once(d)'
        BY <2>t, <3>1 DEF Once, Working
      <3>3. /\ response'.blobs = {d \in cmd.want : cache[d] # "absent"}
            /\ response'.errors = cmd.errors
                 \cup (cmd.want \ {d \in cmd.want : cache[d] # "absent"})
        BY <2>6 DEF Build
      <3>4. cmd.want \subseteq Digests
        BY <2>t DEF Command
      <3>5. response'.blobs \cap response'.errors \subseteq Twice
        BY <2>t, <3>3, <3>4 DEF Once
      <3> QED
        BY <2>f, <3>2, <3>5 DEF OnceInv, ErrorMeansMissing
    <2>7. ASSUME NEW w \in Workers, WorkerStep(w) PROVE OnceInv'
      BY <2>7, <2>f, WorkerStepOnce
    <2>8. CASE Expire
      <3>1. \A w \in Workers : wk'[w].pc = wk[w].pc /\ wk'[w].d = wk[w].d
        BY <2>8, <2>t DEF Expire, Worker
      <3>2. UNCHANGED <<cache, cmd, todo, response>>
        BY <2>8 DEF Expire
      <3> QED
        BY <2>f, <2>t, <3>1, <3>2 DEF OnceInv, Once, Working, ErrorMeansMissing
    <2>9. ASSUME NEW e \in Digests, CacheClean(e) PROVE OnceInv'
      <3>1. \A d \in Digests : cache'[d] = cache[d] \/ cache'[d] = "absent"
        BY <2>9, <2>t DEF CacheClean
      <3>2. UNCHANGED <<cmd, todo, wk, response>>
        BY <2>9 DEF CacheClean
      <3> QED
        BY <2>f, <2>t, <3>1, <3>2 DEF OnceInv, Once, Working, ErrorMeansMissing
    <2>10. CASE Crash
      <3>1. /\ cmd' = NoCommand /\ \A d \in Digests : todo'[d] = 0
            /\ \A w \in Workers : wk'[w].pc = "idle"
        BY <2>10, IdleWorkerType DEF Crash
      <3> QED
        BY <2>f, <3>1 DEF NoCommand, OnceInv, Once, Working, ErrorMeansMissing
    <2> QED
      BY <2>1, <2>2, <2>3, <2>4, <2>5, <2>6, <2>7, <2>8, <2>9, <2>10
      DEF Next, Start, CommandStep
  <1>3. OnceInv => ErrorMeansMissing
    BY DEF OnceInv
  <1> QED
    BY <1>1, <1>2, <1>3, PTL DEF Spec

-----------------------------------------------------------------------------
(* Expiry *)

\* A worker without a blob has nothing left of the one before.
RestInv ==
    /\ FetchInv
    /\ \A w \in Workers : wk[w].pc = "idle" => wk[w].tok = "none" /\ wk[w].try = 0

\* As long as nothing else goes wrong and the tokens expire once at most: a
\* token just obtained is good; before the expiry no token is old and nobody
\* has had to try again; and who tries again after it meets no old token,
\* because only the expiry makes tokens old and the first 401 has dropped the
\* one that was kept.
Calm == ~trouble /\ expiries <= 1
Fresh(r) ==
    /\ r.pc = "keep" => r.tok = "good"
    /\ expiries = 0 => r.tok # "old" /\ r.try = 0
    /\ r.try > 0 => r.tok # "old" /\ token # "old"
ExpiryInv ==
    /\ RestInv
    /\ ExpiryHarmless
    /\ Calm => /\ expiries = 0 => token # "old"
               /\ \A w \in Workers : Fresh(wk[w])

\* Only Finish and an interruption make a worker idle.
LEMMA RestStep == RestInv /\ [Next]_vars => RestInv'
  <1> SUFFICES ASSUME RestInv, [Next]_vars
               PROVE  \A w \in Workers : wk'[w].pc = "idle"
                        => wk'[w].tok = "none" /\ wk'[w].try = 0
    BY FetchStep DEF RestInv
  <1>t. wk \in [Workers -> Worker]
    BY DEF RestInv, FetchInv, TypeOK
  <1>i. IdleWorker.tok = "none" /\ IdleWorker.try = 0
    BY DEF IdleWorker
  <1>1. CASE UNCHANGED wk
    BY <1>1 DEF RestInv
  <1>2. ASSUME NEW w \in Workers, WorkerStep(w)
        PROVE  /\ \A u \in Workers : u # w => wk'[u] = wk[u]
               /\ wk'[w].pc # "idle" \/ wk'[w] = IdleWorker
    <2>1. CASE Finish(w)
      BY <1>t, <2>1 DEF Finish
    <2>2. CASE ~Finish(w)
      <3>1. CASE \E d \in Digests : Take(w, d)
        BY <1>t, <3>1 DEF Take, IdleWorker
      <3>2. CASE Authorize(w) \/ KeepToken(w) \/ Deliver(w) \/ StoreExists(w)
        <4>1. CASE Authorize(w)
          BY <1>t, <4>1 DEF Authorize, Worker
        <4>2. CASE KeepToken(w)
          BY <1>t, <4>2 DEF KeepToken, Worker
        <4>3. CASE Deliver(w)
          BY <1>t, <4>3 DEF Deliver, IdleWorker
        <4>4. CASE StoreExists(w)
          BY <1>t, <2>2, <4>4 DEF StoreExists, Worker
        <4> QED
          BY <3>2, <4>1, <4>2, <4>3, <4>4
      <3>3. CASE Garbled(w) \/ Unauthorized(w) \/ Busy(w)
        <4>1. \E p \in {"auth", "send"} : \E sha, try : Again(w, p, sha, try)
          BY <2>2, <3>3 DEF Garbled, Unauthorized, Busy, Fail
        <4> QED
          BY <1>t, <4>1 DEF Again, Worker
      <3>4. ~(AuthorizeFails(w) \/ AuthorizeRaises(w) \/ Refused(w) \/ Broken(w)
               \/ StoreRename(w)
                \/ StoreFails(w))
        BY <2>2 DEF AuthorizeFails, AuthorizeRaises, Refused, Broken,
               StoreRename, StoreFails,
           Fail, Raise
      <3> QED
        BY <1>2, <3>1, <3>2, <3>3, <3>4 DEF WorkerStep
    <2> QED
      BY <2>1, <2>2
  <1>3. CASE \E w \in Workers : WorkerStep(w)
    BY <1>2, <1>3, <1>i DEF RestInv
  <1>4. CASE Expire
    <2>1. \A w \in Workers : /\ wk'[w].pc = wk[w].pc /\ wk'[w].try = wk[w].try
                             /\ wk[w].tok = "none" => wk'[w].tok = "none"
      BY <1>4, <1>t DEF Expire, Age, Worker
    <2> QED
      BY <2>1 DEF RestInv
  <1>5. CASE Crash
    BY <1>5, <1>i DEF Crash
  <1>6. Start \/ CommandStep \/ (\E d \in Digests : CacheClean(d)) => UNCHANGED wk
    BY DEF Start, Run, CommandStep, CheckCache, Collect, FetchManifests,
           Build, CacheClean
  <1> QED
    BY <1>1, <1>3, <1>4, <1>5, <1>6 DEF Next, vars

\* A step of one worker that meets nothing but tokens.
LEMMA WorkerCalm ==
  ASSUME ExpiryInv, RestInv', NEW w \in Workers,
         \A u \in Workers : u # w => wk'[u] = wk[u],
         cmd' = cmd, UNCHANGED <<expiries, trouble>>,
         token' = token \/ token' # "old",
         Calm => Fresh(wk[w])'
  PROVE  ExpiryInv'
  <1>1. ExpiryHarmless' /\ (Calm' <=> Calm)
    BY DEF ExpiryInv, ExpiryHarmless, Calm
  <1>2. Calm => (expiries' = 0 => token' # "old")
    BY DEF ExpiryInv
  <1>3. Calm => \A u \in Workers : Fresh(wk[u])'
    BY DEF ExpiryInv, Fresh
  <1> QED
    BY <1>1, <1>2, <1>3 DEF ExpiryInv

\* Other faults end the calm.
LEMMA NoCalm ==
  ASSUME RestInv', trouble' = TRUE
  PROVE  ExpiryInv'
  BY DEF ExpiryInv, ExpiryHarmless, Calm

\* The worker's steps as long as it is calm.
LEMMA WorkerStepCalm ==
  ASSUME ExpiryInv, RestInv', NEW w \in Workers, WorkerStep(w)
  PROVE  ExpiryInv'
  <1>t. /\ wk \in [Workers -> Worker] /\ wk[w] \in Worker
        /\ token \in Token /\ expiries \in Nat
        /\ Calm => Fresh(wk[w]) /\ (expiries = 0 => token # "old")
    BY DEF ExpiryInv, RestInv, FetchInv, TypeOK
  <1>i. /\ IdleWorker.pc = "idle" /\ IdleWorker.tok = "none" /\ IdleWorker.try = 0
    BY DEF IdleWorker
  <1>1. CASE AuthorizeFails(w) \/ Garbled(w) \/ Busy(w) \/ Refused(w)
               \/ AuthorizeRaises(w) \/ Broken(w) \/ StoreFails(w)
    BY <1>1, NoCalm DEF AuthorizeFails, AuthorizeRaises, Garbled, Busy, Refused,
                           Broken,
       StoreFails, Happened
  <1>2. ASSUME NEW d \in Digests, Take(w, d) PROVE ExpiryInv'
    <2>1. wk'[w].pc = "auth" /\ wk'[w].tok = "none" /\ wk'[w].try = 0
      BY <1>2, <1>t DEF Take, IdleWorker
    <2>2. /\ \A u \in Workers : u # w => wk'[u] = wk[u]
          /\ UNCHANGED <<cmd, token, expiries, trouble>>
      BY <1>2, <1>t DEF Take
    <2>3. Calm => Fresh(wk[w])'
      BY <2>1 DEF Fresh
    <2> QED
      BY <2>2, <2>3, WorkerCalm
  <1>3. CASE Authorize(w)
    <2>1. /\ wk'[w].pc = IF token = "none" THEN "keep" ELSE "send"
          /\ wk'[w].tok = IF token = "none" THEN "good" ELSE token
          /\ wk'[w].try = wk[w].try
      BY <1>3, <1>t DEF Authorize, Worker
    <2>2. /\ \A u \in Workers : u # w => wk'[u] = wk[u]
          /\ UNCHANGED <<cmd, token, expiries, trouble>>
      BY <1>3, <1>t DEF Authorize
    <2>3. Calm => Fresh(wk[w])'
      BY <1>t, <2>1, <2>2 DEF Fresh
    <2> QED
      BY <2>2, <2>3, WorkerCalm
  <1>4. CASE KeepToken(w)
    <2>1. /\ wk[w].pc = "keep" /\ token' = wk[w].tok
          /\ wk'[w].pc = "send" /\ wk'[w].tok = wk[w].tok
          /\ wk'[w].try = wk[w].try
      BY <1>4, <1>t DEF KeepToken, Worker, At
    <2>2. /\ \A u \in Workers : u # w => wk'[u] = wk[u]
          /\ UNCHANGED <<cmd, expiries, trouble>>
      BY <1>4, <1>t DEF KeepToken
    <2>3. CASE Calm
      <3>1. token' # "old"
        BY <1>t, <2>1, <2>3 DEF Fresh
      <3>2. Fresh(wk[w])'
        BY <1>t, <2>1, <2>2, <2>3, <3>1 DEF Fresh
      <3> QED
        BY <2>2, <3>1, <3>2, WorkerCalm
    <2>4. CASE ~Calm
      BY <2>2, <2>4 DEF ExpiryInv, Calm, ExpiryHarmless
    <2> QED
      BY <2>3, <2>4
  <1>5. CASE Deliver(w)
    <2>1. wk'[w].pc = "store" /\ wk'[w].tok = "none" /\ wk'[w].try = 0
      BY <1>5, <1>t DEF Deliver, IdleWorker
    <2>2. /\ \A u \in Workers : u # w => wk'[u] = wk[u]
          /\ UNCHANGED <<cmd, token, expiries, trouble>>
      BY <1>5, <1>t DEF Deliver
    <2>3. Calm => Fresh(wk[w])'
      BY <2>1 DEF Fresh
    <2> QED
      BY <2>2, <2>3, WorkerCalm
  <1>6. CASE Unauthorized(w)
    <2>1. At(w, "send") /\ wk[w].tok = "old" /\ UNCHANGED <<expiries, trouble>>
      BY <1>6 DEF Unauthorized
    <2>2. CASE Calm
      <3>1. wk[w].try = 0 /\ expiries # 0
        BY <1>t, <2>1, <2>2 DEF Fresh, Worker, MAX_RETRIES
      <3>2. Again(w, "auth", wk[w].sha, 1) /\ token' = "none"
        BY <1>6, <3>1 DEF Unauthorized
      <3>3. /\ wk'[w].pc = "auth" /\ wk'[w].tok = "none" /\ wk'[w].try = 1
            /\ \A u \in Workers : u # w => wk'[u] = wk[u]
            /\ cmd' = cmd
        BY <1>t, <3>2 DEF Again, Worker
      <3>4. Fresh(wk[w])'
        BY <2>1, <3>1, <3>2, <3>3 DEF Fresh
      <3> QED
        BY <2>1, <3>2, <3>3, <3>4, WorkerCalm
    <2>3. CASE ~Calm
      BY <2>1, <2>3 DEF ExpiryInv, Calm, ExpiryHarmless
    <2> QED
      BY <2>2, <2>3
  <1>7. CASE StoreExists(w) \/ StoreRename(w)
    <2>1. /\ \A u \in Workers : u # w => wk'[u] = wk[u]
          /\ UNCHANGED <<cmd, token, expiries, trouble>>
      BY <1>7, <1>t DEF StoreExists, StoreRename, Finish
    <2>2. \/ wk'[w] = IdleWorker
          \/ /\ wk'[w].pc = "rename" /\ wk'[w].tok = wk[w].tok
             /\ wk'[w].try = wk[w].try
      BY <1>7, <1>t DEF StoreExists, StoreRename, Finish, Worker
    <2>3. Calm => Fresh(wk[w])'
      BY <1>i, <1>t, <2>1, <2>2 DEF Fresh
    <2> QED
      BY <2>1, <2>3, WorkerCalm
  <1> QED
    BY <1>1, <1>2, <1>3, <1>4, <1>5, <1>6, <1>7 DEF WorkerStep

\* ExpiryHarmless, for any number of workers that share the token.
THEOREM ExpiryCostsNothing == Spec => []ExpiryHarmless
  <1>i. /\ IdleWorker.pc = "idle" /\ IdleWorker.tok = "none" /\ IdleWorker.try = 0
    BY DEF IdleWorker
  <1>1. Init => ExpiryInv
    <2> SUFFICES ASSUME Init PROVE ExpiryInv
      OBVIOUS
    <2>1. token = "none" /\ \A w \in Workers : wk[w] = IdleWorker
      BY DEF Init
    <2>2. \A w \in Workers : Fresh(wk[w])
      BY <1>i, <2>1 DEF Fresh
    <2>3. ExpiryHarmless
      BY DEF Init, NoCommand, ExpiryHarmless
    <2>4. RestInv
      BY <1>i, <2>1, FetchInit DEF RestInv
    <2> QED
      BY <2>1, <2>2, <2>3, <2>4 DEF ExpiryInv
  <1>2. ExpiryInv /\ [Next]_vars => ExpiryInv'
    <2> SUFFICES ASSUME ExpiryInv, [Next]_vars PROVE ExpiryInv'
      OBVIOUS
    <2>f. RestInv'
      BY RestStep DEF ExpiryInv
    <2>t. /\ wk \in [Workers -> Worker] /\ cmd \in Command /\ token \in Token
          /\ expiries \in Nat
          /\ cmd.phase # "fetch" => \A w \in Workers : wk[w].pc = "idle"
          /\ ExpiryHarmless
      BY DEF ExpiryInv, RestInv, FetchInv, TypeOK, PoolInv
    <2>1. CASE UNCHANGED vars
      BY <2>1, <2>f DEF vars, ExpiryInv, ExpiryHarmless, Calm, Fresh
    <2>2. CASE Start
      <3>1. /\ cmd.phase # "fetch" /\ cmd'.errors = {} /\ cmd'.raised = FALSE
            /\ token' = "none" /\ UNCHANGED wk
        BY <2>2 DEF Start, Run, NoCommand, Ended
      <3>2. \A w \in Workers : wk[w].pc = "idle"
        BY <2>t, <3>1
      <3>3. \A w \in Workers : Fresh(wk[w])'
        BY <3>1, <3>2 DEF ExpiryInv, RestInv, Fresh
      <3>4. ExpiryHarmless'
        BY <3>1 DEF ExpiryHarmless
      <3> QED
        BY <2>f, <3>1, <3>3, <3>4 DEF ExpiryInv
    <2>3. CASE CheckCache \/ Collect
      <3>1. /\ cmd'.errors = cmd.errors /\ cmd'.raised = cmd.raised
            /\ UNCHANGED <<wk, token, expiries, trouble>>
        BY <2>3, <2>t DEF CheckCache, Collect, Command
      <3> QED
        BY <2>f, <2>t, <3>1 DEF ExpiryInv, ExpiryHarmless, Calm, Fresh
    <2>4. ASSUME NEW L \in SUBSET Digests, FetchManifests(L) PROVE ExpiryInv'
      <3>1. /\ cmd'.errors = cmd.errors /\ cmd'.raised = cmd.raised
            /\ token' = "none" /\ UNCHANGED <<wk, expiries, trouble>>
        BY <2>4, <2>t DEF FetchManifests, Command
      <3> QED
        BY <2>f, <2>t, <3>1 DEF ExpiryInv, ExpiryHarmless, Calm, Fresh
    <2>5. CASE Build
      <3>1. /\ cmd'.errors = cmd.errors /\ cmd'.raised = cmd.raised
            /\ UNCHANGED <<wk, token, expiries, trouble>>
        BY <2>5, <2>t DEF Build, Command
      <3> QED
        BY <2>f, <2>t, <3>1 DEF ExpiryInv, ExpiryHarmless, Calm, Fresh
    <2>6. ASSUME NEW w \in Workers, WorkerStep(w) PROVE ExpiryInv'
      BY <2>6, <2>f, WorkerStepCalm
    <2>7. CASE Expire
      <3>1. /\ UNCHANGED <<cmd, trouble>> /\ expiries' = expiries + 1
            /\ token' = Age(token)
        BY <2>7 DEF Expire
      <3>2. \A w \in Workers :
              /\ wk'[w].pc = wk[w].pc /\ wk'[w].try = wk[w].try
              /\ wk'[w].tok = IF wk[w].pc = "keep" THEN wk[w].tok
                                                   ELSE Age(wk[w].tok)
        BY <2>7, <2>t DEF Expire, At, Worker
      <3>3. ExpiryHarmless'
        BY <2>t, <3>1 DEF ExpiryHarmless
      <3>4. ASSUME Calm', NEW w \in Workers PROVE Fresh(wk[w])'
        <4>1. Calm /\ expiries = 0
          BY <2>t, <3>1, <3>4 DEF Calm
        <4>2. Fresh(wk[w]) /\ wk[w].tok \in Token /\ wk[w].try \in Nat
          BY <2>t, <4>1 DEF ExpiryInv, Worker, MAX_RETRIES
        <4>3. wk[w].try = 0
          BY <4>1, <4>2 DEF Fresh
        <4> QED
          BY <2>t, <3>1, <3>2, <4>1, <4>2, <4>3 DEF Fresh, Age
      <3> QED
        BY <2>f, <2>t, <3>1, <3>3, <3>4 DEF ExpiryInv
    <2>8. CASE \E d \in Digests : CacheClean(d)
      BY <2>8, <2>f, NoCalm DEF CacheClean, Happened
    <2>9. CASE Crash
      BY <2>9, <2>f, NoCalm DEF Crash, Happened
    <2> QED
      BY <2>1, <2>2, <2>3, <2>4, <2>5, <2>6, <2>7, <2>8, <2>9
      DEF Next, CommandStep
  <1>3. ExpiryInv => ExpiryHarmless
    BY DEF ExpiryInv
  <1> QED
    BY <1>1, <1>2, <1>3, PTL DEF Spec
=============================================================================
