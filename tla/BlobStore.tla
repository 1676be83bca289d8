----------------------------- MODULE BlobStore -----------------------------
(***************************************************************************)
(* The blob store of the offline daemon (src/buncker/store.py) as the      *)
(* worker threads of src/buncker/server.py use it at the same time: the    *)
(* import loop of src/buncker/transfer.py, blob pulls                      *)
(* (handler._handle_blob_get), gc_report and gc_execute, and `buncker      *)
(* verify', which is a process of its own.                                 *)
(*                                                                         *)
(* The store has no lock but _gc_lock, which covers one assignment or one  *)
(* read of _last_gc_report.  So every file system access (exists, open,    *)
(* rename, replace, unlink) is a step of its own, and what a thread read   *)
(* before is kept in that thread's variables until it uses it.             *)
(*                                                                         *)
(* Abstractions: a blob file is absent, whole (its bytes hash to its       *)
(* name) or torn (they do not); time is counted in days; a list of digests *)
(* is a set taken in any order; of a sidecar only last_requested and       *)
(* whether it can be parsed are kept, because no decision of the store     *)
(* reads request_count, media_type or first_imported and import_response   *)
(* never passes an image_ref.                                              *)
(***************************************************************************)
EXTENDS Integers, FiniteSets

CONSTANTS
    Digests,        \* the digests that occur in requests and archives
    Threads,        \* worker threads of the server's pool
    InactiveDays,   \* values of the inactive_days query parameter
    MaxDay,         \* bound: the clock stops at this day
    MaxRequests,    \* bound: number of requests the clients send
    Ops,            \* kinds of request the clients send
    Faults          \* faults of the machine that may happen

AllOps == {"import", "pull", "report", "execute", "verify"}
AllFaults == {"short_write", "write_error", "bit_rot", "crash"}

ASSUME ConstantsAssumption ==
    /\ Digests # {}
    /\ InactiveDays \subseteq Int
    /\ MaxDay \in Nat
    /\ MaxRequests \in Nat
    /\ Ops \subseteq AllOps
    /\ Faults \subseteq AllFaults

VARIABLES
    blob,       \* blobs/sha256/<hex>: content of the file of each digest
    meta,       \* meta/sha256/<hex>.json: the sidecar of each digest
    litter,     \* a temp file of a killed process is left in blobs/sha256
    report,     \* Store._last_gc_report, in memory
    day,        \* datetime.now()
    th,         \* the worker threads: where each one is and its locals
    scan,       \* `buncker verify': files to visit, the file at hand, files
                \* found corrupted, and (history) the blobs that were torn
                \* when it started
    requests,   \* requests sent so far
    reported,   \* history: digests in some report published since boot
    served,     \* history: contents sent as the body of a 200 blob response
    upset       \* history: what happened that excuses the store

disk    == <<blob, meta, litter>>
memory  == <<report, reported>>
load    == <<requests, upset>>
vars    == <<blob, meta, litter, report, day, th, scan, requests, reported,
             served, upset>>

-----------------------------------------------------------------------------
Content == {"whole", "torn"}
Sidecar == [here : BOOLEAN, torn : BOOLEAN, last : Int]
NoSidecar == [here |-> FALSE, torn |-> FALSE, last |-> 0]
SidecarOf(time) == [here |-> TRUE, torn |-> FALSE, last |-> time]
NoReport == [made |-> FALSE, digests |-> {}]

ImportPc == {"imp_next", "imp_write", "imp_rename", "imp_side", "imp_read",
             "imp_replace"}
PullPc   == {"get_stat", "get_hash", "get_open", "get_touch", "get_read",
             "get_replace"}
ExecPc   == {"gc_next", "gc_unlink", "gc_side", "gc_side_unlink"}
GcPc     == {"rep_scan"} \cup ExecPc

\* An overlap of requests that may disturb each other, a sidecar that could
\* not be written, a restart, a file that decayed after it was verified and
\* before it was streamed.
Upsets == {"overlap", "write", "crash", "decay"}

\* The locals of a request: the digest it works on, the digests it still has
\* to visit, the digests import_response has counted as imported, gc_report
\* has picked or the report gc_execute read holds, the sidecar about to be
\* written, the time it computed (`now' or `cutoff') and the temp file it has
\* in blobs/sha256.
Thread == [pc     : {"idle"} \cup ImportPc \cup PullPc \cup GcPc,
           cur    : Digests,
           todo   : SUBSET Digests,
           picked : SUBSET Digests,
           got    : Sidecar,
           stamp  : Int,
           tmp    : {"none"} \cup Content]
IdleThread == [pc |-> "idle", cur |-> CHOOSE d \in Digests : TRUE, todo |-> {},
               picked |-> {}, got |-> NoSidecar, stamp |-> 0, tmp |-> "none"]

\* The files `buncker verify' looks at: the blobs, and every temp file, which
\* tempfile.mkstemp puts beside them under a name without a leading dot.
TempName == "tmp"
TempFileExists == litter \/ \E t \in Threads : th[t].tmp # "none"
FilesInBlobs == {d \in Digests : blob[d] # "absent"}
                  \cup (IF TempFileExists THEN {TempName} ELSE {})
Scan == [on     : BOOLEAN,
         left   : SUBSET (Digests \cup {TempName}),
         now    : SUBSET (Digests \cup {TempName}),
         bad    : SUBSET (Digests \cup {TempName}),
         rotten : SUBSET Digests]
NoScan == [on |-> FALSE, left |-> {}, now |-> {}, bad |-> {}, rotten |-> {}]

TypeOK ==
    /\ blob \in [Digests -> {"absent"} \cup Content]
    /\ meta \in [Digests -> Sidecar]
    /\ litter \in BOOLEAN
    /\ report \in [made : BOOLEAN, digests : SUBSET Digests]
    /\ day \in Nat
    /\ th \in [Threads -> Thread]
    /\ scan \in Scan
    /\ requests \in Nat
    /\ reported \in SUBSET Digests
    /\ served \in SUBSET Content
    /\ upset \subseteq Upsets

\* A store that has never been used, and a daemon that has just started.
Init ==
    /\ blob = [d \in Digests |-> "absent"]
    /\ meta = [d \in Digests |-> NoSidecar]
    /\ litter = FALSE
    /\ report = NoReport
    /\ day = 0
    /\ th = [t \in Threads |-> IdleThread]
    /\ scan = NoScan
    /\ requests = 0
    /\ reported = {}
    /\ served = {}
    /\ upset = {}

-----------------------------------------------------------------------------
(* Moving a thread through its request *)

At(t, p) == th[t].pc = p

\* History: a request of kind op would run beside a gc_execute, or two imports
\* beside each other.
Overlaps(op) ==
    \E u \in Threads : \/ op = "execute" /\ ~At(u, "idle")
                       \/ op = "import" /\ th[u].pc \in ImportPc
                       \/ th[u].pc \in ExecPc

\* A free worker of the pool takes a request of kind op.
Accept(t, op) ==
    /\ At(t, "idle")
    /\ op \in Ops
    /\ requests < MaxRequests
    /\ requests' = requests + 1
    /\ upset' = IF Overlaps(op) THEN upset \cup {"overlap"} ELSE upset

\* The request begins: its locals have their first values.
Begin(t, p, digest, digests, cutoff) ==
    th' = [th EXCEPT ![t] = [IdleThread EXCEPT !.pc = p, !.cur = digest,
                                               !.todo = digests,
                                               !.stamp = cutoff]]
Goto(t, p) == th' = [th EXCEPT ![t].pc = p]

\* History: the file of digest d that `buncker verify' listed is gone.
ForgetRotten(d) == scan' = [scan EXCEPT !.rotten = @ \ {d}]

\* The request is answered, by a result, an error status or an exception.
Finish(t) == th' = [th EXCEPT ![t] = IdleThread]

\* json.loads finds a sidecar that was written to its end.
Readable(d) == meta[d].here /\ ~meta[d].torn

\* _atomic_write_json: one os.write, whose result is not looked at, and
\* os.replace.
ReplaceSidecar(t) ==
    \E cut \in BOOLEAN :
      /\ cut => "short_write" \in Faults
      /\ meta' = [meta EXCEPT ![th[t].cur] = [th[t].got EXCEPT !.torn = cut]]

-----------------------------------------------------------------------------
(* POST or PUT /admin/import: import_response, import_blob, _write_sidecar *)

\* The archive is decrypted, authenticated and unpacked: S are its blobs.
ImportStart(t, S) ==
    /\ Accept(t, "import")
    /\ Begin(t, "imp_next", IdleThread.cur, S, 0)
    /\ UNCHANGED <<disk, memory, served, day, scan>>

\* A blob whose bytes do not hash to its name is skipped.
ImportSkipsCorrupt(t) ==
    /\ At(t, "imp_next")
    /\ \E d \in th[t].todo : th' = [th EXCEPT ![t].todo = @ \ {d}]
    /\ UNCHANGED <<disk, memory, served, day, scan, load>>

\* Mutant: a blob whose file exists is counted and left as it is.
ImportExists_Returns(t) ==
    /\ At(t, "imp_next")
    /\ \E d \in th[t].todo :
         th' = [th EXCEPT ![t].pc = IF blob[d] = "absent" THEN "imp_write"
                                                          ELSE "imp_next",
                          ![t].cur = d,
                          ![t].todo = @ \ {d},
                          ![t].picked = @ \cup
                              {e \in {d} : blob[e] # "absent"}]
    /\ UNCHANGED <<disk, memory, served, day, scan, load>>

\* import_blob: the digest matches; blob_path.exists() decides whether the
\* file is written.
ImportExists(t) ==
    /\ At(t, "imp_next")
    /\ \E d \in th[t].todo :
         th' = [th EXCEPT ![t].pc = IF blob[d] = "absent" THEN "imp_write"
                                                          ELSE "imp_side",
                          ![t].cur = d,
                          ![t].todo = @ \ {d}]
    /\ UNCHANGED <<disk, memory, served, day, scan, load>>

\* mkstemp and os.write.  os.write may write fewer bytes than it was given
\* (the disk fills up, or more than 2 GiB in one call); its result is not
\* looked at.
ImportWriteTemp(t) ==
    /\ At(t, "imp_write")
    /\ \E c \in Content :
         /\ c = "torn" => "short_write" \in Faults
         /\ th' = [th EXCEPT ![t].pc = "imp_rename", ![t].tmp = c]
    /\ UNCHANGED <<disk, memory, served, day, scan, load>>

\* Mutant: the exception of os.write is swallowed and the rename happens.
ImportWriteFails_Swallowed(t) ==
    /\ At(t, "imp_write")
    /\ "write_error" \in Faults
    /\ Goto(t, "imp_rename")
    /\ UNCHANGED <<disk, memory, served, day, scan, load>>

\* os.write raises: the temp file is unlinked and the loop goes on.
ImportWriteFails(t) ==
    /\ At(t, "imp_write")
    /\ "write_error" \in Faults
    /\ Goto(t, "imp_next")
    /\ UNCHANGED <<disk, memory, served, day, scan, load>>

\* os.rename(tmp, blob_path)
ImportRename(t) ==
    /\ At(t, "imp_rename")
    /\ blob' = [blob EXCEPT ![th[t].cur] = th[t].tmp]
    /\ th' = [th EXCEPT ![t].pc = "imp_side", ![t].tmp = "none"]
    /\ ForgetRotten(th[t].cur)
    /\ UNCHANGED <<meta, litter, memory, served, day, load>>

\* _write_sidecar takes `now' and asks whether the sidecar exists.
ImportSidecarCheck(t) ==
    /\ At(t, "imp_side")
    /\ IF meta[th[t].cur].here
         THEN th' = [th EXCEPT ![t].pc = "imp_read", ![t].stamp = day]
         ELSE th' = [th EXCEPT ![t].pc = "imp_replace",
                               ![t].got = SidecarOf(day)]
    /\ UNCHANGED <<disk, memory, served, day, scan, load>>

\* _write_sidecar reads the sidecar; when it is gone by now, or cannot be
\* parsed, the exception is an entry of the result's errors, and the loop goes
\* on.
ImportSidecarRead(t) ==
    /\ At(t, "imp_read")
    /\ IF Readable(th[t].cur)
         THEN th' = [th EXCEPT ![t].pc = "imp_replace",
                               ![t].got = SidecarOf(th[t].stamp)]
         ELSE Goto(t, "imp_next")
    /\ UNCHANGED <<disk, memory, served, day, scan, load>>

\* The blob is counted as imported.
ImportSidecarReplace(t) ==
    /\ At(t, "imp_replace")
    /\ ReplaceSidecar(t)
    /\ th' = [th EXCEPT ![t].pc = "imp_next", ![t].picked = @ \cup {th[t].cur}]
    /\ UNCHANGED <<blob, litter, memory, served, day, scan, load>>

\* _atomic_write_json cannot write its temp file: the blob is reported as
\* skipped although its file is in place.
ImportSidecarFails(t) ==
    /\ At(t, "imp_replace")
    /\ "write_error" \in Faults
    /\ Goto(t, "imp_next")
    /\ upset' = upset \cup {"write"}
    /\ UNCHANGED <<disk, memory, served, day, scan, requests>>

ImportReturn(t) ==
    /\ At(t, "imp_next")
    /\ th[t].todo = {}
    /\ Finish(t)
    /\ UNCHANGED <<disk, memory, served, day, scan, load>>

ImportStep(t) ==
    \/ ImportSkipsCorrupt(t)
    \/ ImportExists(t)
    \/ ImportWriteTemp(t)
    \/ ImportWriteFails(t)
    \/ ImportRename(t)
    \/ ImportSidecarCheck(t)
    \/ ImportSidecarRead(t)
    \/ ImportSidecarReplace(t)
    \/ ImportSidecarFails(t)
    \/ ImportReturn(t)

-----------------------------------------------------------------------------
(* GET /v2/{name}/blobs/{digest}: _handle_blob_get, _blob_stream and         *)
(* update_metadata                                                           *)

\* has_blob decides between 404 and the rest.
PullStart(t, d) ==
    /\ Accept(t, "pull")
    /\ Begin(t, IF blob[d] = "absent" THEN "idle" ELSE "get_stat", d, {}, 0)
    /\ UNCHANGED <<disk, memory, served, day, scan>>

\* get_blob and stat: a file that is gone by now is an exception.
PullStat(t) ==
    /\ At(t, "get_stat")
    /\ IF blob[th[t].cur] = "absent" THEN Finish(t) ELSE Goto(t, "get_hash")
    /\ UNCHANGED <<disk, memory, served, day, scan, load>>

\* Mutant: the bytes are not hashed before they are sent.
PullVerify_Dropped(t) ==
    /\ At(t, "get_hash")
    /\ IF blob[th[t].cur] # "absent" THEN Goto(t, "get_open") ELSE Finish(t)
    /\ UNCHANGED <<disk, memory, served, day, scan, load>>

\* The file is read and hashed before the headers are sent; a mismatch is
\* answered BLOB_CORRUPT.
PullVerify(t) ==
    /\ At(t, "get_hash")
    /\ IF blob[th[t].cur] = "whole" THEN Goto(t, "get_open") ELSE Finish(t)
    /\ UNCHANGED <<disk, memory, served, day, scan, load>>

\* Mutant: a file that is gone by now is answered with an empty body.
PullStream_Empty(t) ==
    /\ At(t, "get_open")
    /\ LET d == th[t].cur IN
         /\ served' = served \cup {IF blob[d] = "absent" THEN "torn" ELSE blob[d]}
         /\ Goto(t, "get_touch")
    /\ UNCHANGED <<disk, memory, day, scan, load>>

\* _blob_stream opens the file again and sends what it reads.
PullStream(t) ==
    /\ At(t, "get_open")
    /\ LET d == th[t].cur IN
         IF blob[d] = "absent"
           THEN Finish(t) /\ UNCHANGED served
           ELSE served' = served \cup {blob[d]} /\ Goto(t, "get_touch")
    /\ UNCHANGED <<disk, memory, day, scan, load>>

\* The client goes away: the generator is closed, the sidecar is not updated.
PullAbort(t) ==
    /\ At(t, "get_open")
    /\ Finish(t)
    /\ UNCHANGED <<disk, memory, served, day, scan, load>>

\* update_metadata: without a sidecar, a warning.
PullTouch(t) ==
    /\ At(t, "get_touch")
    /\ IF meta[th[t].cur].here THEN Goto(t, "get_read") ELSE Finish(t)
    /\ UNCHANGED <<disk, memory, served, day, scan, load>>

\* update_metadata reads the sidecar, then takes the time.
PullRead(t) ==
    /\ At(t, "get_read")
    /\ IF Readable(th[t].cur)
         THEN th' = [th EXCEPT ![t].pc = "get_replace",
                               ![t].got = SidecarOf(day)]
         ELSE Finish(t)
    /\ UNCHANGED <<disk, memory, served, day, scan, load>>

PullReplace(t) ==
    /\ At(t, "get_replace")
    /\ ReplaceSidecar(t)
    /\ Finish(t)
    /\ UNCHANGED <<blob, litter, memory, served, day, scan, load>>

PullReplaceFails(t) ==
    /\ At(t, "get_replace")
    /\ "write_error" \in Faults
    /\ Finish(t)
    /\ UNCHANGED <<disk, memory, served, day, scan, load>>

PullStep(t) ==
    \/ PullStat(t)
    \/ PullVerify(t)
    \/ PullStream(t)
    \/ PullAbort(t)
    \/ PullTouch(t)
    \/ PullRead(t)
    \/ PullReplace(t)
    \/ PullReplaceFails(t)

-----------------------------------------------------------------------------
(* GET /admin/gc/report and POST /admin/gc/execute *)

\* gc_report computes the cutoff and lists the sidecars.
ReportStart(t, n) ==
    /\ Accept(t, "report")
    /\ Begin(t, "rep_scan", IdleThread.cur, {d \in Digests : meta[d].here},
             day - n)
    /\ UNCHANGED <<disk, memory, served, day, scan>>

\* Mutant: a directory is listed again after every sidecar.
ReportRead_Relists(t) ==
    /\ At(t, "rep_scan")
    /\ \E d \in th[t].todo :
         th' = [th EXCEPT ![t].picked = @ \cup
                              {e \in {d} : meta[e].last < th[t].stamp}]
    /\ UNCHANGED <<disk, memory, served, day, scan, load>>

\* One sidecar is read; if it is gone by now, or cannot be parsed, the request
\* fails.
ReportRead(t) ==
    /\ At(t, "rep_scan")
    /\ \E d \in th[t].todo :
         IF Readable(d)
           THEN th' = [th EXCEPT ![t].todo = @ \ {d},
                                 ![t].picked = @ \cup
                                     {e \in {d} : meta[e].last < th[t].stamp}]
           ELSE Finish(t)
    /\ UNCHANGED <<disk, memory, served, day, scan, load>>

\* The candidates become _last_gc_report, under _gc_lock.
ReportPublish(t) ==
    /\ At(t, "rep_scan")
    /\ th[t].todo = {}
    /\ report' = [made |-> TRUE, digests |-> th[t].picked]
    /\ reported' = reported \cup th[t].picked
    /\ Finish(t)
    /\ UNCHANGED <<disk, served, day, scan, load>>

\* gc_execute reads _last_gc_report once, under _gc_lock, and works from what
\* it read.  Without a report the request is refused.
ExecStart(t, S) ==
    /\ Accept(t, "execute")
    /\ IF report.made
         THEN th' = [th EXCEPT ![t] = [IdleThread EXCEPT
                       !.pc = "gc_next", !.todo = S, !.picked = report.digests]]
         ELSE UNCHANGED th
    /\ UNCHANGED <<disk, memory, served, day, scan>>

\* A digest outside the report ends the request; earlier deletions stay.
ExecReject(t) ==
    /\ At(t, "gc_next")
    /\ \E d \in th[t].todo : d \notin th[t].picked
    /\ Finish(t)
    /\ UNCHANGED <<disk, memory, served, day, scan, load>>

\* Mutant: the digest is not looked up in the report.
ExecExists_Unchecked(t) ==
    /\ At(t, "gc_next")
    /\ \E d \in th[t].todo :
         th' = [th EXCEPT ![t].pc = IF blob[d] = "absent" THEN "gc_side"
                                                          ELSE "gc_unlink",
                          ![t].cur = d,
                          ![t].todo = @ \ {d}]
    /\ UNCHANGED <<disk, memory, served, day, scan, load>>

\* A digest of the report: blob_path.exists().
ExecExists(t) ==
    /\ At(t, "gc_next")
    /\ \E d \in th[t].todo :
         /\ d \in th[t].picked
         /\ th' = [th EXCEPT ![t].pc = IF blob[d] = "absent" THEN "gc_side"
                                                             ELSE "gc_unlink",
                             ![t].cur = d,
                             ![t].todo = @ \ {d}]
    /\ UNCHANGED <<disk, memory, served, day, scan, load>>

\* Mutant: the sidecar stays.
ExecUnlinkBlob_KeepsSidecar(t) ==
    /\ At(t, "gc_unlink")
    /\ IF blob[th[t].cur] = "absent"
         THEN Finish(t) /\ UNCHANGED blob
         ELSE /\ blob' = [blob EXCEPT ![th[t].cur] = "absent"]
              /\ Goto(t, "gc_next")
    /\ UNCHANGED <<meta, litter, memory, served, day, scan, load>>

\* stat and unlink: a file that is gone by now is an exception.
ExecUnlinkBlob(t) ==
    /\ At(t, "gc_unlink")
    /\ IF blob[th[t].cur] = "absent"
         THEN Finish(t) /\ UNCHANGED blob
         ELSE /\ blob' = [blob EXCEPT ![th[t].cur] = "absent"]
              /\ Goto(t, "gc_side")
    /\ ForgetRotten(th[t].cur)
    /\ UNCHANGED <<meta, litter, memory, served, day, load>>

\* sidecar_path.exists()
ExecSidecarExists(t) ==
    /\ At(t, "gc_side")
    /\ Goto(t, IF meta[th[t].cur].here THEN "gc_side_unlink" ELSE "gc_next")
    /\ UNCHANGED <<disk, memory, served, day, scan, load>>

ExecUnlinkSidecar(t) ==
    /\ At(t, "gc_side_unlink")
    /\ IF meta[th[t].cur].here
         THEN /\ meta' = [meta EXCEPT ![th[t].cur] = NoSidecar]
              /\ Goto(t, "gc_next")
         ELSE Finish(t) /\ UNCHANGED meta
    /\ UNCHANGED <<blob, litter, memory, served, day, scan, load>>

ExecReturn(t) ==
    /\ At(t, "gc_next")
    /\ th[t].todo = {}
    /\ Finish(t)
    /\ UNCHANGED <<disk, memory, served, day, scan, load>>

GcStep(t) ==
    \/ ReportRead(t)
    \/ ReportPublish(t)
    \/ ExecReject(t)
    \/ ExecExists(t)
    \/ ExecUnlinkBlob(t)
    \/ ExecSidecarExists(t)
    \/ ExecUnlinkSidecar(t)
    \/ ExecReturn(t)

-----------------------------------------------------------------------------
(* `buncker verify': Store.verify in a process of its own *)

\* Mutant: only blobs with a sidecar are checked.
VerifyStart_Sidecars ==
    /\ "verify" \in Ops
    /\ ~scan.on
    /\ requests < MaxRequests
    /\ requests' = requests + 1
    /\ scan' = [on |-> TRUE, left |-> {d \in Digests : meta[d].here}, now |-> {},
                bad |-> {}, rotten |-> {d \in Digests : blob[d] = "torn"}]
    /\ UNCHANGED <<disk, memory, served, day, th, upset>>

\* iterdir lists the directory.
VerifyStart ==
    /\ "verify" \in Ops
    /\ ~scan.on
    /\ requests < MaxRequests
    /\ requests' = requests + 1
    /\ scan' = [on |-> TRUE, left |-> FilesInBlobs, now |-> {}, bad |-> {},
                rotten |-> {d \in Digests : blob[d] = "torn"}]
    /\ UNCHANGED <<disk, memory, served, day, th, upset>>

\* is_file(): a file that is gone by now is passed over.
VerifyIsFile ==
    /\ scan.on
    /\ scan.now = {}
    /\ \E f \in scan.left :
         scan' = [scan EXCEPT !.left = @ \ {f}, !.now = {f} \cap FilesInBlobs]
    /\ UNCHANGED <<disk, memory, served, day, th, load>>

\* The file is opened, hashed and compared with its name.  If it has gone since
\* is_file() the command ends with an exception.  A temp file never hashes to
\* its name.
VerifyFile ==
    /\ scan.on
    /\ \E f \in scan.now :
         IF f \in FilesInBlobs
           THEN scan' = [scan EXCEPT !.now = @ \ {f},
                         !.bad = @ \cup
                            {g \in {f} : g = TempName \/ blob[g] = "torn"}]
           ELSE scan' = NoScan
    /\ UNCHANGED <<disk, memory, served, day, th, load>>

VerifyDone ==
    /\ scan.on
    /\ scan.left = {} /\ scan.now = {}
    /\ scan' = NoScan
    /\ UNCHANGED <<disk, memory, served, day, th, load>>

-----------------------------------------------------------------------------
(* The machine *)

NextDay ==
    /\ day < MaxDay
    /\ day' = day + 1
    /\ UNCHANGED <<disk, memory, served, th, scan, load>>

\* A stored file decays on the disk.  _handle_blob_get counts on the page cache
\* for the bytes it has just verified; when they have to be read again they may
\* have decayed.
BitRot(d) ==
    /\ "bit_rot" \in Faults
    /\ blob[d] = "whole"
    /\ blob' = [blob EXCEPT ![d] = "torn"]
    /\ upset' = IF \E t \in Threads : At(t, "get_open") /\ th[t].cur = d
                  THEN upset \cup {"decay"} ELSE upset
    /\ UNCHANGED <<meta, litter, memory, served, day, th, scan, requests>>

\* The daemon is killed and started again: Store.__init__ finds the files as
\* they are, and there is no GC report.
Crash ==
    /\ "crash" \in Faults
    /\ litter' = TempFileExists
    /\ th' = [t \in Threads |-> IdleThread]
    /\ report' = NoReport
    /\ reported' = {}
    /\ upset' = upset \cup {"crash"}
    /\ UNCHANGED <<blob, meta, served, day, scan, requests>>

-----------------------------------------------------------------------------
Request(t) ==
    \/ \E S \in (SUBSET Digests) \ {{}} : ImportStart(t, S)
    \/ \E d \in Digests : PullStart(t, d)
    \/ \E n \in InactiveDays : ReportStart(t, n)
    \/ \E S \in (SUBSET Digests) \ {{}} : ExecStart(t, S)

Step(t) == ImportStep(t) \/ PullStep(t) \/ GcStep(t)

Next ==
    \/ \E t \in Threads : Request(t) \/ Step(t)
    \/ VerifyStart
    \/ VerifyIsFile
    \/ VerifyFile
    \/ VerifyDone
    \/ NextDay
    \/ \E d \in Digests : BitRot(d)
    \/ Crash

Spec == Init /\ [][Next]_vars

\* No thread of the daemon waits for another one, so the operating system's
\* scheduler lets each of them finish what it has begun.
FairSpec == Spec /\ \A t \in Threads : WF_vars(Step(t))

-----------------------------------------------------------------------------
(* Properties *)

\* A 200 response to a blob pull carries the bytes its digest names, on a disk
\* that tears and decays, although the file is opened a second time after it
\* was verified; only two imports at the same time, a gc_execute beside the
\* pull, or decay in between, can make the second reading differ.
ServedIntact == "torn" \in served => upset \cap {"overlap", "decay"} # {}

\* A blob file disappears only if a GC report of this run of the daemon named
\* it: nothing else deletes, and a report does not survive a restart.
RemovedOnlyIfReported ==
    [][\A d \in Digests :
          blob[d] # "absent" /\ blob'[d] = "absent" => d \in reported]_vars

\* What a user of the store sees of it.
Promise == INSTANCE ContentStore
             WITH content <- blob,
                  marked <- reported,
                  Tearing <- "short_write" \in Faults,
                  Rotting <- "bit_rot" \in Faults

\* Seen from outside, the interleaved file accesses of all the threads are
\* the single steps of ContentStore: no client can tell that a blob is
\* written, linked, verified, opened again and deleted in separate steps.
KeepsPromise == Promise!Spec

Quiet == \A t \in Threads : At(t, "idle")
Paired == \A d \in Digests : blob[d] # "absent" <=> meta[d].here

\* When no request is running, a blob has a sidecar and a sidecar a blob
\* (without a sidecar gc_report never sees the blob again), unless a restart,
\* a failed write or overlapping requests have come between the two.
PairedUnlessUpset == Quiet /\ upset \subseteq {"decay"} => Paired

\* Importing again repairs what restarts and failed writes have left: a blob
\* that import_response counts as imported has its file and its sidecar, also
\* when an earlier import was killed between the two, unless the import ran
\* beside another one or beside a gc_execute.
ImportRepairs ==
    "overlap" \notin upset =>
      \A t \in Threads : th[t].pc \in ImportPc =>
        \A d \in th[t].picked : blob[d] # "absent" /\ meta[d].here

\* When `buncker verify' comes to its end, it has flagged every blob that was
\* corrupted when it started and has not been deleted or replaced since.
VerifyFindsRot ==
    scan.on /\ scan.left = {} /\ scan.now = {} => scan.rotten \subseteq scan.bad

\* Every request that a worker has taken ends, whatever other requests delete
\* under it.
RequestsFinish == \A t \in Threads : ~At(t, "idle") ~> At(t, "idle")
=============================================================================
