-------------------------- MODULE BlobStoreProofs --------------------------
(***************************************************************************)
(* Theorems about BlobStore for any number of digests, threads, days and   *)
(* requests.                                                               *)
(*                                                                         *)
(*  - TypeCorrect: TypeOK is an invariant.                                 *)
(*  - GcOnlyReported: only what a report of this boot named is deleted.    *)
(*  - VerifyComplete: a verify that ends has flagged what was corrupted    *)
(*    when it began.                                                       *)
(*  - ServedStaysIntact: what was verified is what is served, as long as   *)
(*    no two requests that write overlap and nothing decays in between.    *)
(*  - BlobsPaired: a blob has its sidecar and a sidecar its blob, unless   *)
(*    something upset them.                                                *)
(*  - ImportsRepair: what an import counts has its blob and its sidecar,   *)
(*    whatever restarts and failed writes left before.                     *)
(*  - StoreImplementsPromise: BlobStore implements ContentStore.           *)
(*                                                                         *)
(* None of them is inductive as it stands.  TypeInv adds that a thread     *)
(* about to rename has a temp file; GcInv that every copy of the report a  *)
(* thread works from holds only digests some report named; RotInv that     *)
(* what was corrupted is still to be hashed; SoloInv, PairInv and          *)
(* RepairInv what the threads in the middle of a request still find on     *)
(* disk.                                                                   *)
(***************************************************************************)
EXTENDS BlobStore, FiniteSetTheorems, TLAPS

\* The program points of a thread.
Pcs == {"idle"} \cup ImportPc \cup PullPc \cup GcPc

\* The locals are well typed, and os.rename has a temp file to move.
ThreadsOK ==
    /\ th \in [Threads -> Thread]
    /\ \A t \in Threads : th[t].pc = "imp_rename" => th[t].tmp \in Content

\* The locals of an idle thread are well typed.
LEMMA IdleThreadType == IdleThread \in Thread /\ IdleThread.pc = "idle"
  <1>1. (CHOOSE d \in Digests : TRUE) \in Digests
    BY ConstantsAssumption
  <1> QED
    BY <1>1 DEF IdleThread, Thread, NoSidecar, Sidecar

\* Giving one thread well-typed locals keeps ThreadsOK.
LEMMA ThreadUpdate ==
  ASSUME ThreadsOK, NEW t \in Threads, NEW r \in Thread,
         r.pc = "imp_rename" => r.tmp \in Content,
         th' = [th EXCEPT ![t] = r]
  PROVE  ThreadsOK'
  BY DEF ThreadsOK

\* A request that ends keeps ThreadsOK.
LEMMA FinishType ==
  ASSUME ThreadsOK, NEW t \in Threads, Finish(t)
  PROVE  ThreadsOK'
  BY IdleThreadType, ThreadUpdate DEF Finish

\* A request that only moves on keeps ThreadsOK, except into os.rename.
LEMMA GotoType ==
  ASSUME ThreadsOK, NEW t \in Threads, NEW p \in Pcs, p # "imp_rename", Goto(t, p)
  PROVE  ThreadsOK'
  <1> DEFINE r == [th[t] EXCEPT !.pc = p]
  <1>0. th[t] \in Thread
    BY DEF ThreadsOK
  <1>1. r \in Thread /\ r.pc = p
    BY <1>0 DEF Thread, Pcs
  <1>2. th' = [th EXCEPT ![t] = r]
    BY DEF Goto
  <1> QED
    BY <1>1, <1>2, ThreadUpdate

\* The inductive form of TypeOK.
TypeInv == TypeOK /\ ThreadsOK

\* A step that changes only the threads keeps TypeInv if it keeps ThreadsOK.
LEMMA OnlyThreads ==
  ASSUME TypeInv, ThreadsOK', requests' \in Nat, upset' \subseteq Upsets,
         UNCHANGED <<disk, memory, served, day, scan>>
  PROVE  TypeInv'
  BY DEF TypeInv, TypeOK, ThreadsOK, disk, memory

\* Taking a request keeps the counters well typed.
LEMMA AcceptType ==
  ASSUME TypeInv, NEW t \in Threads, NEW op, Accept(t, op)
  PROVE  requests' \in Nat /\ upset' \subseteq Upsets
  BY DEF Accept, Upsets, TypeInv, TypeOK

\* The history of `buncker verify' only shrinks.
LEMMA ForgetRottenType ==
  ASSUME scan \in Scan, NEW d, ForgetRotten(d)
  PROVE  scan' \in Scan
  BY DEF ForgetRotten, Scan

\* A sidecar is replaced by a sidecar, of the same digest.
LEMMA ReplaceType ==
  ASSUME TypeInv, NEW t \in Threads, ReplaceSidecar(t)
  PROVE  /\ meta' \in [Digests -> Sidecar]
         /\ meta'[th[t].cur].here = th[t].got.here
         /\ \A d \in Digests : d # th[t].cur => meta'[d] = meta[d]
  <1>1. PICK cut \in BOOLEAN :
          meta' = [meta EXCEPT ![th[t].cur] = [th[t].got EXCEPT !.torn = cut]]
    BY DEF ReplaceSidecar
  <1>2. th[t].got \in Sidecar /\ th[t].cur \in Digests
    BY DEF TypeInv, TypeOK, Thread
  <1> DEFINE m == [th[t].got EXCEPT !.torn = cut]
  <1>3. m \in Sidecar /\ m.here = th[t].got.here
    BY <1>2 DEF Sidecar
  <1>4. meta \in [Digests -> Sidecar] /\ meta' = [meta EXCEPT ![th[t].cur] = m]
    BY <1>1 DEF TypeInv, TypeOK
  <1> HIDE DEF m
  <1> QED
    BY <1>2, <1>3, <1>4

\* import_response, import_blob and _write_sidecar keep TypeInv.
LEMMA ImportTypeStep ==
  ASSUME TypeInv, NEW t \in Threads, ImportStep(t)
  PROVE  TypeInv'
  <1> USE DEF TypeInv, load
  <1>a. th[t] \in Thread /\ requests \in Nat /\ upset \subseteq Upsets
    BY DEF TypeOK
  <1>1. CASE ImportSkipsCorrupt(t)
    <2>1. PICK d \in th[t].todo : th' = [th EXCEPT ![t].todo = @ \ {d}]
      BY <1>1 DEF ImportSkipsCorrupt
    <2> DEFINE r == [th[t] EXCEPT !.todo = @ \ {d}]
    <2>2. r \in Thread /\ r.pc = "imp_next"
      BY <1>a, <1>1 DEF Thread, ImportSkipsCorrupt, At
    <2>3. th' = [th EXCEPT ![t] = r]
      BY <2>1
    <2> QED
      BY <1>1, <2>2, <2>3, <1>a, ThreadUpdate, OnlyThreads
         DEF ImportSkipsCorrupt
  <1>2. CASE ImportExists(t)
    <2>1. PICK d \in th[t].todo :
            th' = [th EXCEPT ![t].pc = IF blob[d] = "absent" THEN "imp_write"
                                                             ELSE "imp_side",
                             ![t].cur = d, ![t].todo = @ \ {d}]
      BY <1>2 DEF ImportExists
    <2> DEFINE r == [th[t] EXCEPT !.pc = IF blob[d] = "absent" THEN "imp_write"
                                                               ELSE "imp_side",
                                  !.cur = d, !.todo = @ \ {d}]
    <2>2. r \in Thread /\ r.pc # "imp_rename"
      BY <1>a DEF Thread, ImportPc
    <2>3. th' = [th EXCEPT ![t] = r]
      BY <2>1
    <2> QED
      BY <1>2, <2>2, <2>3, <1>a, ThreadUpdate, OnlyThreads DEF ImportExists
  <1>3. CASE ImportWriteTemp(t)
    <2>1. PICK c \in Content :
            th' = [th EXCEPT ![t].pc = "imp_rename", ![t].tmp = c]
      BY <1>3 DEF ImportWriteTemp, Content
    <2> DEFINE r == [th[t] EXCEPT !.pc = "imp_rename", !.tmp = c]
    <2>2. r \in Thread /\ r.tmp \in Content
      BY <1>a DEF Thread, ImportPc
    <2>3. th' = [th EXCEPT ![t] = r]
      BY <2>1
    <2> QED
      BY <1>3, <2>2, <2>3, <1>a, ThreadUpdate, OnlyThreads DEF ImportWriteTemp
  <1>4. CASE ImportWriteFails(t)
    BY <1>4, <1>a, GotoType, OnlyThreads
       DEF ImportWriteFails, Pcs, ImportPc, PullPc, GcPc, ExecPc
  <1>5. CASE ImportRename(t)
    <2> DEFINE r == [th[t] EXCEPT !.pc = "imp_side", !.tmp = "none"]
    <2>1. r \in Thread /\ r.pc = "imp_side"
      BY <1>a DEF Thread, ImportPc
    <2>2. th' = [th EXCEPT ![t] = r]
      BY <1>5 DEF ImportRename
    <2>3. ThreadsOK'
      BY <2>1, <2>2, ThreadUpdate
    <2>4. th[t].tmp \in Content
      BY <1>5 DEF ImportRename, At, ThreadsOK
    <2>5. scan' \in Scan
      BY <1>5, ForgetRottenType DEF ImportRename, TypeOK
    <2> QED
      BY <1>5, <2>3, <2>4, <2>5
         DEF ImportRename, TypeOK, ThreadsOK, memory
  <1>6. CASE ImportSidecarCheck(t)
    <2> DEFINE m == SidecarOf(day)
               r == [th[t] EXCEPT !.pc = "imp_read", !.stamp = day]
               s == [th[t] EXCEPT !.pc = "imp_replace", !.got = m]
    <2>1. day \in Int /\ m \in Sidecar
      BY DEF TypeOK, Sidecar, SidecarOf
    <2>2. r \in Thread /\ r.pc = "imp_read"
      BY <1>a, <2>1 DEF Thread, ImportPc
    <2>3. s \in Thread /\ s.pc = "imp_replace"
      BY <1>a, <2>1 DEF Thread, ImportPc
    <2>4. th' = [th EXCEPT ![t] = r] \/ th' = [th EXCEPT ![t] = s]
      BY <1>6 DEF ImportSidecarCheck
    <2> QED
      BY <1>6, <2>2, <2>3, <2>4, <1>a, ThreadUpdate, OnlyThreads
         DEF ImportSidecarCheck
  <1>7. CASE ImportSidecarRead(t)
    <2> DEFINE g == SidecarOf(th[t].stamp)
               r == [th[t] EXCEPT !.pc = "imp_replace", !.got = g]
    <2>1. g \in Sidecar
      BY <1>a DEF Thread, TypeOK, Sidecar, SidecarOf
    <2>2. r \in Thread /\ r.pc = "imp_replace"
      BY <1>a, <2>1 DEF Thread, ImportPc
    <2>3. th' = [th EXCEPT ![t] = r] \/ Goto(t, "imp_next")
      BY <1>7 DEF ImportSidecarRead
    <2>4. ThreadsOK'
      BY <2>2, <2>3, ThreadUpdate, GotoType DEF Pcs, ImportPc
    <2> QED
      BY <1>7, <2>4, <1>a, OnlyThreads DEF ImportSidecarRead
  <1>8. CASE ImportSidecarReplace(t)
    <2> DEFINE r == [th[t] EXCEPT !.pc = "imp_next", !.picked = @ \cup {th[t].cur}]
    <2>1. r \in Thread /\ r.pc = "imp_next"
      BY <1>a DEF Thread, ImportPc
    <2>2. th' = [th EXCEPT ![t] = r]
      BY <1>8 DEF ImportSidecarReplace
    <2>3. ThreadsOK'
      BY <2>1, <2>2, ThreadUpdate
    <2>4. meta' \in [Digests -> Sidecar]
      BY <1>8, ReplaceType DEF ImportSidecarReplace
    <2> QED
      BY <1>8, <2>3, <2>4 DEF ImportSidecarReplace, TypeOK, ThreadsOK, memory
  <1>9. CASE ImportSidecarFails(t)
    BY <1>9, <1>a, GotoType, OnlyThreads
       DEF ImportSidecarFails, Pcs, ImportPc, PullPc, GcPc, ExecPc, Upsets
  <1>10. CASE ImportReturn(t)
    BY <1>10, <1>a, FinishType, OnlyThreads DEF ImportReturn
  <1> QED
    BY <1>1, <1>2, <1>3, <1>4, <1>5, <1>6, <1>7, <1>8, <1>9, <1>10
       DEF ImportStep

\* _handle_blob_get, _blob_stream and update_metadata keep TypeInv.
LEMMA PullTypeStep ==
  ASSUME TypeInv, NEW t \in Threads, PullStep(t)
  PROVE  TypeInv'
  <1> USE DEF TypeInv, load
  <1>a. th[t] \in Thread /\ requests \in Nat /\ upset \subseteq Upsets
    BY DEF TypeOK
  <1>1. CASE PullStat(t)
    BY <1>1, <1>a, GotoType, FinishType, OnlyThreads
       DEF PullStat, Pcs, ImportPc, PullPc, GcPc, ExecPc
  <1>2. CASE PullVerify(t)
    BY <1>2, <1>a, GotoType, FinishType, OnlyThreads
       DEF PullVerify, Pcs, ImportPc, PullPc, GcPc, ExecPc
  <1>3. CASE PullStream(t)
    <2>1. ThreadsOK'
      BY <1>3, GotoType, FinishType DEF PullStream, Pcs, PullPc
    <2>2. th[t].cur \in Digests
      BY <1>a DEF Thread
    <2> QED
      BY <1>3, <2>1, <2>2 DEF PullStream, TypeOK, ThreadsOK, disk, memory
  <1>4. CASE PullAbort(t)
    BY <1>4, <1>a, FinishType, OnlyThreads DEF PullAbort
  <1>5. CASE PullTouch(t)
    BY <1>5, <1>a, GotoType, FinishType, OnlyThreads
       DEF PullTouch, Pcs, ImportPc, PullPc, GcPc, ExecPc
  <1>6. CASE PullRead(t)
    <2> DEFINE g == SidecarOf(day)
               r == [th[t] EXCEPT !.pc = "get_replace", !.got = g]
    <2>1. g \in Sidecar
      BY <1>a DEF Thread, TypeOK, Sidecar, SidecarOf
    <2>2. r \in Thread /\ r.pc = "get_replace"
      BY <1>a, <2>1 DEF Thread, PullPc
    <2>3. th' = [th EXCEPT ![t] = r] \/ Finish(t)
      BY <1>6 DEF PullRead
    <2>4. ThreadsOK'
      BY <2>2, <2>3, ThreadUpdate, FinishType
    <2> QED
      BY <1>6, <2>4, <1>a, OnlyThreads DEF PullRead
  <1>7. CASE PullReplace(t)
    <2>1. ThreadsOK'
      BY <1>7, FinishType DEF PullReplace
    <2>2. meta' \in [Digests -> Sidecar]
      BY <1>7, ReplaceType DEF PullReplace
    <2> QED
      BY <1>7, <2>1, <2>2 DEF PullReplace, TypeOK, ThreadsOK, memory
  <1>8. CASE PullReplaceFails(t)
    BY <1>8, <1>a, FinishType, OnlyThreads DEF PullReplaceFails
  <1> QED
    BY <1>1, <1>2, <1>3, <1>4, <1>5, <1>6, <1>7, <1>8 DEF PullStep

\* gc_report and gc_execute keep TypeInv.
LEMMA GcTypeStep ==
  ASSUME TypeInv, NEW t \in Threads, GcStep(t)
  PROVE  TypeInv'
  <1> USE DEF TypeInv, load
  <1>a. th[t] \in Thread /\ requests \in Nat /\ upset \subseteq Upsets
    BY DEF TypeOK
  <1>1. CASE ReportRead(t)
    <2>1. PICK d \in th[t].todo :
            IF Readable(d)
              THEN th' = [th EXCEPT ![t].todo = @ \ {d},
                                    ![t].picked = @ \cup
                                      {e \in {d} : meta[e].last < th[t].stamp}]
              ELSE Finish(t)
      BY <1>1 DEF ReportRead
    <2> DEFINE more == {e \in {d} : meta[e].last < th[t].stamp}
               r == [th[t] EXCEPT !.todo = @ \ {d}, !.picked = @ \cup more]
    <2>2. more \subseteq Digests
      BY <1>a DEF Thread
    <2>3. r \in Thread /\ r.pc = "rep_scan"
      BY <1>1, <1>a, <2>2 DEF ReportRead, At, Thread
    <2>4. th' = [th EXCEPT ![t] = r] \/ Finish(t)
      BY <2>1
    <2>5. ThreadsOK'
      BY <2>3, <2>4, ThreadUpdate, FinishType
    <2> QED
      BY <1>1, <2>5, <1>a, OnlyThreads DEF ReportRead
  <1>2. CASE ReportPublish(t)
    <2>1. ThreadsOK'
      BY <1>2, FinishType DEF ReportPublish
    <2>2. th[t].picked \in SUBSET Digests /\ th[t].stamp \in Int
      BY <1>a DEF Thread
    <2> QED
      BY <1>2, <2>1, <2>2 DEF ReportPublish, TypeOK, ThreadsOK, disk
  <1>3. CASE ExecReject(t)
    BY <1>3, <1>a, FinishType, OnlyThreads DEF ExecReject
  <1>4. CASE ExecExists(t)
    <2>1. PICK d \in th[t].todo :
            th' = [th EXCEPT ![t].pc = IF blob[d] = "absent" THEN "gc_side"
                                                             ELSE "gc_unlink",
                             ![t].cur = d, ![t].todo = @ \ {d}]
      BY <1>4 DEF ExecExists
    <2> DEFINE r == [th[t] EXCEPT !.pc = IF blob[d] = "absent" THEN "gc_side"
                                                               ELSE "gc_unlink",
                                  !.cur = d, !.todo = @ \ {d}]
    <2>2. r \in Thread /\ r.pc # "imp_rename"
      BY <1>a DEF Thread, GcPc, ExecPc
    <2>3. th' = [th EXCEPT ![t] = r]
      BY <2>1
    <2> QED
      BY <1>4, <2>2, <2>3, <1>a, ThreadUpdate, OnlyThreads DEF ExecExists
  <1>5. CASE ExecUnlinkBlob(t)
    <2>1. ThreadsOK'
      BY <1>5, GotoType, FinishType DEF ExecUnlinkBlob, Pcs, GcPc, ExecPc
    <2>2. th[t].cur \in Digests
      BY <1>a DEF Thread
    <2>3. scan' \in Scan
      BY <1>5, ForgetRottenType DEF ExecUnlinkBlob, TypeOK
    <2> QED
      BY <1>5, <2>1, <2>2, <2>3
         DEF ExecUnlinkBlob, TypeOK, ThreadsOK, memory
  <1>6. CASE ExecSidecarExists(t)
    BY <1>6, <1>a, GotoType, FinishType, OnlyThreads
       DEF ExecSidecarExists, Pcs, ImportPc, PullPc, GcPc, ExecPc
  <1>7. CASE ExecUnlinkSidecar(t)
    <2>1. ThreadsOK'
      BY <1>7, GotoType, FinishType DEF ExecUnlinkSidecar, Pcs, GcPc, ExecPc
    <2>2. th[t].cur \in Digests /\ NoSidecar \in Sidecar
      BY <1>a DEF Thread, NoSidecar, Sidecar
    <2> QED
      BY <1>7, <2>1, <2>2
         DEF ExecUnlinkSidecar, TypeOK, ThreadsOK, memory
  <1>8. CASE ExecReturn(t)
    BY <1>8, <1>a, FinishType, OnlyThreads DEF ExecReturn
  <1> QED
    BY <1>1, <1>2, <1>3, <1>4, <1>5, <1>6, <1>7, <1>8 DEF GcStep

\* A request that begins has well-typed locals.
LEMMA BeginType ==
  ASSUME ThreadsOK, NEW t \in Threads, NEW p \in Pcs, p # "imp_rename",
         NEW d \in Digests, NEW S \in SUBSET Digests, NEW c \in Int,
         Begin(t, p, d, S, c)
  PROVE  ThreadsOK'
  <1> DEFINE r == [IdleThread EXCEPT !.pc = p, !.cur = d, !.todo = S, !.stamp = c]
  <1>1. r \in Thread /\ r.pc = p
    BY IdleThreadType DEF Thread, Pcs
  <1>2. th' = [th EXCEPT ![t] = r]
    BY DEF Begin
  <1> QED
    BY <1>1, <1>2, ThreadUpdate

\* What a request finds in its locals when it begins.
LEMMA RequestLocals ==
  ASSUME th \in [Threads -> Thread], NEW t \in Threads, Request(t)
  PROVE  /\ \A u \in Threads : u # t => th'[u] = th[u]
         /\ \/ th'[t] = th[t]
            \/ /\ th'[t].tmp = "none" /\ th'[t].picked = {}
               /\ th'[t].pc \notin ExecPc
            \/ /\ th'[t].tmp = "none"
               /\ th'[t].pc = "gc_next"
               /\ th'[t].picked = report.digests
  <1> USE IdleThreadType
  <1>a. IdleThread.tmp = "none" /\ IdleThread.picked = {}
    BY DEF IdleThread
  <1>1. ASSUME NEW p, NEW d, NEW S, NEW c, p \notin ExecPc, Begin(t, p, d, S, c)
        PROVE  /\ th'[t].tmp = "none" /\ th'[t].picked = {}
               /\ th'[t].pc \notin ExecPc
               /\ \A u \in Threads : u # t => th'[u] = th[u]
    <2> DEFINE r == [IdleThread EXCEPT !.pc = p, !.cur = d, !.todo = S, !.stamp = c]
    <2>1. r.tmp = "none" /\ r.pc = p /\ r.picked = {}
      BY <1>a DEF Thread
    <2>2. th' = [th EXCEPT ![t] = r]
      BY <1>1 DEF Begin
    <2> HIDE DEF r
    <2> QED
      BY <1>1, <2>1, <2>2
  <1>2. ASSUME NEW S, ExecStart(t, S)
        PROVE  \/ th' = th
               \/ /\ th'[t].tmp = "none"
                  /\ th'[t].pc = "gc_next"
                  /\ th'[t].picked = report.digests
                  /\ \A u \in Threads : u # t => th'[u] = th[u]
    <2> DEFINE r == [IdleThread EXCEPT !.pc = "gc_next", !.todo = S,
                                       !.picked = report.digests]
    <2>1. r.tmp = "none" /\ r.pc = "gc_next" /\ r.picked = report.digests
      BY <1>a DEF Thread
    <2>2. th' = [th EXCEPT ![t] = r] \/ th' = th
      BY <1>2 DEF ExecStart
    <2> HIDE DEF r
    <2> QED
      BY <2>1, <2>2
  <1>3. CASE \E S \in (SUBSET Digests) \ {{}} : ExecStart(t, S)
    BY <1>2, <1>3
  <1>4. CASE \E S \in (SUBSET Digests) \ {{}} : ImportStart(t, S)
    BY <1>1, <1>4 DEF ImportStart, ExecPc
  <1>5. CASE \E d \in Digests : PullStart(t, d)
    <2>1. PICK d \in Digests : PullStart(t, d)
      BY <1>5
    <2>2. PICK p \in {"idle", "get_stat"} : Begin(t, p, d, {}, 0)
      BY <2>1 DEF PullStart
    <2> QED
      BY <1>1, <2>2 DEF ExecPc
  <1>6. CASE \E n \in InactiveDays : ReportStart(t, n)
    <2>1. PICK n \in InactiveDays : ReportStart(t, n)
      BY <1>6
    <2>2. PICK S, c : Begin(t, "rep_scan", IdleThread.cur, S, c)
      BY <2>1 DEF ReportStart
    <2> QED
      BY <1>1, <2>2 DEF ExecPc
  <1> QED
    BY <1>3, <1>4, <1>5, <1>6 DEF Request

\* Taking a request keeps TypeInv.
LEMMA RequestTypeStep ==
  ASSUME TypeInv, NEW t \in Threads, Request(t)
  PROVE  TypeInv'
  <1> USE DEF TypeInv, load
  <1>a. IdleThread.cur \in Digests /\ requests \in Nat /\ day \in Nat
    BY IdleThreadType DEF Thread, TypeOK
  <1>1. ASSUME NEW S \in SUBSET Digests, ImportStart(t, S)
        PROVE  TypeInv'
    BY <1>1, <1>a, AcceptType, BeginType, OnlyThreads
       DEF ImportStart, Pcs, ImportPc
  <1>2. ASSUME NEW d \in Digests, PullStart(t, d)
        PROVE  TypeInv'
    BY <1>2, <1>a, AcceptType, BeginType, OnlyThreads DEF PullStart, Pcs, PullPc
  <1>3. ASSUME NEW n \in InactiveDays, ReportStart(t, n)
        PROVE  TypeInv'
    <2>1. day - n \in Int
      BY <1>a, ConstantsAssumption
    <2> DEFINE S == {d \in Digests : meta[d].here}
    <2>2. Begin(t, "rep_scan", IdleThread.cur, S, day - n)
      BY <1>3 DEF ReportStart
    <2>3. S \in SUBSET Digests
      OBVIOUS
    <2> HIDE DEF S
    <2>4. ThreadsOK'
      BY <2>1, <2>2, <2>3, <1>a, BeginType DEF Pcs, GcPc, ExecPc
    <2> QED
      BY <1>3, <2>4, AcceptType, OnlyThreads DEF ReportStart
  <1>4. ASSUME NEW S \in SUBSET Digests, ExecStart(t, S)
        PROVE  TypeInv'
    <2> DEFINE r == [IdleThread EXCEPT !.pc = "gc_next", !.todo = S,
                                       !.picked = report.digests]
    <2>0. report.digests \in SUBSET Digests
      BY DEF TypeOK
    <2>1. r \in Thread /\ r.pc = "gc_next"
      BY <2>0, IdleThreadType DEF Thread, GcPc, ExecPc
    <2>2. th' = [th EXCEPT ![t] = r] \/ th' = th
      BY <1>4 DEF ExecStart
    <2>3. ThreadsOK'
      BY <2>1, <2>2, ThreadUpdate DEF ThreadsOK
    <2> QED
      BY <1>4, <2>3, AcceptType, OnlyThreads DEF ExecStart
  <1> QED
    BY <1>1, <1>2, <1>3, <1>4 DEF Request

\* Steps of `buncker verify' change nothing but its own state.
LEMMA VerifyTypeStep ==
  ASSUME TypeInv, VerifyStart \/ VerifyIsFile \/ VerifyFile \/ VerifyDone
  PROVE  TypeInv'
  <1> USE DEF TypeInv, load
  <1>1. scan' \in Scan /\ requests' \in Nat
    <2>1. NoScan \in Scan /\ scan \in Scan /\ requests \in Nat
      BY DEF NoScan, Scan, TypeOK
    <2>2. FilesInBlobs \subseteq Digests \cup {TempName}
      BY DEF FilesInBlobs
    <2>3. CASE VerifyStart
      BY <2>1, <2>2, <2>3 DEF VerifyStart, Scan
    <2>4. CASE VerifyFile
      <3>1. PICK f \in scan.now :
              IF f \in FilesInBlobs
                THEN scan' = [scan EXCEPT !.now = @ \ {f},
                              !.bad = @ \cup
                                 {g \in {f} : g = TempName \/ blob[g] = "torn"}]
                ELSE scan' = NoScan
        BY <2>4 DEF VerifyFile
      <3> DEFINE new == {g \in {f} : g = TempName \/ blob[g] = "torn"}
      <3>2. new \subseteq Digests \cup {TempName}
        BY <2>1 DEF Scan
      <3>3. scan' = [scan EXCEPT !.now = @ \ {f}, !.bad = @ \cup new]
              \/ scan' = NoScan
        BY <3>1
      <3>4. scan' \in Scan
        BY <3>2, <3>3, <2>1 DEF Scan
      <3> QED
        BY <3>4, <2>1, <2>4 DEF VerifyFile
    <2>6. CASE VerifyIsFile
      <3>1. PICK f \in scan.left :
              scan' = [scan EXCEPT !.left = @ \ {f}, !.now = {f} \cap FilesInBlobs]
        BY <2>6 DEF VerifyIsFile
      <3>2. scan' \in Scan
        BY <3>1, <2>1, <2>2 DEF Scan
      <3> QED
        BY <3>2, <2>1, <2>6 DEF VerifyIsFile
    <2>5. CASE VerifyDone
      BY <2>1, <2>5 DEF VerifyDone
    <2> QED
      BY <2>3, <2>4, <2>5, <2>6
  <1>2. UNCHANGED <<disk, memory, served, day, th, upset>>
    BY DEF VerifyStart, VerifyIsFile, VerifyFile, VerifyDone
  <1> QED
    BY <1>1, <1>2 DEF TypeOK, ThreadsOK, disk, memory

\* The clock, decay and a restart keep TypeInv.
LEMMA MachineTypeStep ==
  ASSUME TypeInv, NextDay \/ (\E d \in Digests : BitRot(d)) \/ Crash
  PROVE  TypeInv'
  <1> USE DEF TypeInv, load
  <1>1. CASE NextDay
    BY <1>1 DEF NextDay, TypeOK, ThreadsOK, disk, memory
  <1>2. CASE \E d \in Digests : BitRot(d)
    BY <1>2 DEF BitRot, TypeOK, ThreadsOK, memory, Content, Upsets
  <1>3. CASE Crash
    <2>1. ThreadsOK'
      BY <1>3, IdleThreadType DEF Crash, ThreadsOK
    <2>2. litter' \in BOOLEAN
      BY <1>3 DEF Crash, TempFileExists, TypeOK
    <2>3. report' \in [made : BOOLEAN, digests : SUBSET Digests]
      BY <1>3 DEF Crash, NoReport
    <2> QED
      BY <1>3, <2>1, <2>2, <2>3 DEF Crash, TypeOK, ThreadsOK, Upsets
  <1> QED
    BY <1>1, <1>2, <1>3

\* TypeInv holds initially.
LEMMA TypeInit == Init => TypeInv
  <1> SUFFICES ASSUME Init PROVE TypeInv
    OBVIOUS
  <1>1. ThreadsOK
    BY IdleThreadType DEF Init, ThreadsOK
  <1>2. meta \in [Digests -> Sidecar]
    BY DEF Init, NoSidecar, Sidecar
  <1>3. scan \in Scan /\ report \in [made : BOOLEAN, digests : SUBSET Digests]
    BY DEF Init, NoScan, Scan, NoReport
  <1> QED
    BY <1>1, <1>2, <1>3 DEF Init, TypeInv, TypeOK, ThreadsOK

\* TypeInv is inductive.
LEMMA TypeStep == TypeInv /\ [Next]_vars => TypeInv'
  <1> SUFFICES ASSUME TypeInv, [Next]_vars PROVE TypeInv'
    OBVIOUS
  <1>1. CASE UNCHANGED vars
    BY <1>1 DEF vars, TypeInv, TypeOK, ThreadsOK
  <1>2. ASSUME NEW t \in Threads, Request(t) PROVE TypeInv'
    BY <1>2, RequestTypeStep
  <1>3. ASSUME NEW t \in Threads, Step(t) PROVE TypeInv'
    BY <1>3, ImportTypeStep, PullTypeStep, GcTypeStep DEF Step
  <1>4. CASE VerifyStart \/ VerifyIsFile \/ VerifyFile \/ VerifyDone
    BY <1>4, VerifyTypeStep
  <1>5. CASE NextDay \/ (\E d \in Digests : BitRot(d)) \/ Crash
    BY <1>5, MachineTypeStep
  <1> QED
    BY <1>1, <1>2, <1>3, <1>4, <1>5 DEF Next

\* The type invariant holds in every reachable state.
THEOREM TypeCorrect == Spec => []TypeOK
  <1>1. Spec => []TypeInv
    BY TypeInit, TypeStep, PTL DEF Spec
  <1>2. TypeInv => TypeOK
    BY DEF TypeInv
  <1> QED
    BY <1>1, <1>2, PTL

-----------------------------------------------------------------------------
(* What gc_execute deletes *)

\* What gc_execute works from was reported.
GcInv ==
    /\ TypeInv
    /\ report.digests \subseteq reported
    /\ \A t \in Threads : th[t].pc \in ExecPc => th[t].picked \subseteq reported
    /\ \A t \in Threads : th[t].pc = "gc_unlink" => th[t].cur \in th[t].picked

\* Steps of requests keep GcInv: only gc_report adds to the report.
LEMMA GcInvStep ==
  ASSUME GcInv, TypeInv', NEW t \in Threads, Step(t)
  PROVE  GcInv'
  <1> USE DEF GcInv, ExecPc, At, Goto, Finish, memory
  <1>a. th \in [Threads -> Thread] /\ th[t] \in Thread /\ IdleThread.pc = "idle"
    BY DEF TypeInv, TypeOK, IdleThread
  <1>1. CASE ImportSkipsCorrupt(t)
    BY <1>1, <1>a DEF ImportSkipsCorrupt, Thread
  <1>2. CASE ImportExists(t)
    BY <1>2, <1>a DEF ImportExists, Thread
  <1>3. CASE ImportWriteTemp(t)
    BY <1>3, <1>a DEF ImportWriteTemp, Thread
  <1>4. CASE ImportWriteFails(t)
    BY <1>4, <1>a DEF ImportWriteFails, Thread
  <1>5. CASE ImportRename(t)
    BY <1>5, <1>a DEF ImportRename, Thread
  <1>6. CASE ImportSidecarCheck(t)
    BY <1>6, <1>a DEF ImportSidecarCheck, Thread
  <1>7. CASE ImportSidecarRead(t)
    BY <1>7, <1>a DEF ImportSidecarRead, Thread
  <1>8. CASE ImportSidecarReplace(t)
    BY <1>8, <1>a DEF ImportSidecarReplace, Thread
  <1>9. CASE ImportSidecarFails(t)
    BY <1>9, <1>a DEF ImportSidecarFails, Thread
  <1>10. CASE ImportReturn(t)
    BY <1>10, <1>a DEF ImportReturn, Thread
  <1>11. CASE PullStat(t)
    BY <1>11, <1>a DEF PullStat, Thread
  <1>12. CASE PullVerify(t)
    BY <1>12, <1>a DEF PullVerify, Thread
  <1>13. CASE PullStream(t)
    BY <1>13, <1>a DEF PullStream, Thread
  <1>14. CASE PullAbort(t)
    BY <1>14, <1>a DEF PullAbort, Thread
  <1>15. CASE PullTouch(t)
    BY <1>15, <1>a DEF PullTouch, Thread
  <1>16. CASE PullRead(t)
    BY <1>16, <1>a DEF PullRead, Thread
  <1>17. CASE PullReplace(t)
    BY <1>17, <1>a DEF PullReplace, Thread
  <1>18. CASE PullReplaceFails(t)
    BY <1>18, <1>a DEF PullReplaceFails, Thread
  <1>19. CASE ReportRead(t)
    BY <1>19, <1>a DEF ReportRead, Thread
  <1>20. CASE ReportPublish(t)
    BY <1>20, <1>a DEF ReportPublish, Thread
  <1>21. CASE ExecReject(t)
    BY <1>21, <1>a DEF ExecReject, Thread
  <1>22. CASE ExecExists(t)
    BY <1>22, <1>a DEF ExecExists, Thread
  <1>23. CASE ExecUnlinkBlob(t)
    BY <1>23, <1>a DEF ExecUnlinkBlob, Thread
  <1>24. CASE ExecSidecarExists(t)
    BY <1>24, <1>a DEF ExecSidecarExists, Thread
  <1>25. CASE ExecUnlinkSidecar(t)
    BY <1>25, <1>a DEF ExecUnlinkSidecar, Thread
  <1>26. CASE ExecReturn(t)
    BY <1>26, <1>a DEF ExecReturn, Thread
  <1> QED
    BY <1>1, <1>2, <1>3, <1>4, <1>5, <1>6, <1>7, <1>8, <1>9, <1>10, <1>11,
       <1>12, <1>13, <1>14, <1>15, <1>16, <1>17, <1>18, <1>19, <1>20, <1>21,
       <1>22, <1>23, <1>24, <1>25, <1>26
       DEF Step, ImportStep, PullStep, GcStep

\* gc_execute starts from the current report, which GcInv covers.
LEMMA GcInvRequest ==
  ASSUME GcInv, TypeInv', NEW t \in Threads, Request(t)
  PROVE  GcInv'
  <1>1. th \in [Threads -> Thread]
    BY DEF GcInv, TypeInv, TypeOK
  <1>2. UNCHANGED memory
    BY DEF Request, ImportStart, PullStart, ReportStart, ExecStart
  <1> QED
    BY <1>1, <1>2, RequestLocals DEF GcInv, ExecPc, memory

\* GcInv is inductive; a restart empties the report and its history alike.
LEMMA GcInvNext == GcInv /\ [Next]_vars => GcInv'
  <1> SUFFICES ASSUME GcInv, [Next]_vars PROVE GcInv'
    OBVIOUS
  <1>0. TypeInv'
    BY TypeStep DEF GcInv
  <1>1. ASSUME NEW t \in Threads, Request(t) PROVE GcInv'
    BY <1>0, <1>1, GcInvRequest
  <1>2. ASSUME NEW t \in Threads, Step(t) PROVE GcInv'
    BY <1>0, <1>2, GcInvStep
  <1>3. CASE \/ VerifyStart \/ VerifyIsFile \/ VerifyFile \/ VerifyDone \/ NextDay
             \/ (\E d \in Digests : BitRot(d)) \/ UNCHANGED vars
    <2>1. UNCHANGED <<report, reported, th>>
      BY <1>3
         DEF VerifyStart, VerifyIsFile, VerifyFile, VerifyDone, NextDay, BitRot, vars,
             memory
    <2> QED
      BY <1>0, <2>1 DEF GcInv
  <1>4. CASE Crash
    <2>1. IdleThread.pc = "idle"
      BY DEF IdleThread
    <2> QED
      BY <1>0, <1>4, <2>1 DEF Crash, GcInv, NoReport, ExecPc
  <1> QED
    BY <1>1, <1>2, <1>3, <1>4 DEF Next

\* Of the steps of a request only os.rename and unlink touch blobs/sha256.
LEMMA BlobKept ==
  ASSUME NEW t \in Threads, Step(t), ~ImportRename(t), ~ExecUnlinkBlob(t)
  PROVE  UNCHANGED <<blob, scan>>
  BY DEF Step, ImportStep, PullStep, GcStep, disk, ImportSkipsCorrupt,
         ImportExists, ImportWriteTemp, ImportWriteFails, ImportSidecarCheck,
         ImportSidecarRead, ImportSidecarReplace, ImportSidecarFails,
         ImportReturn, PullStat, PullVerify, PullStream, PullAbort, PullTouch,
         PullRead, PullReplace, PullReplaceFails, ReportRead, ReportPublish,
         ExecReject, ExecExists, ExecSidecarExists, ExecUnlinkSidecar,
         ExecReturn

\* The action of RemovedOnlyIfReported.
RemovedBy == \A d \in Digests :
                blob[d] # "absent" /\ blob'[d] = "absent" => d \in reported

\* A step from a GcInv state deletes only what was reported.
LEMMA RemovalStep == GcInv /\ [Next]_vars => RemovedBy
  <1> SUFFICES ASSUME GcInv, [Next]_vars,
                      NEW d \in Digests, blob[d] # "absent", blob'[d] = "absent"
               PROVE  d \in reported
    BY DEF RemovedBy
  <1>0. blob \in [Digests -> {"absent"} \cup Content] /\ th \in [Threads -> Thread]
    BY DEF GcInv, TypeInv, TypeOK
  <1>1. ASSUME NEW t \in Threads, Step(t) PROVE d \in reported
    <2>1. CASE ImportRename(t)
      BY <2>1, <1>0 DEF ImportRename, At, GcInv, TypeInv, ThreadsOK, Content
    <2>2. CASE ExecUnlinkBlob(t)
      BY <2>2, <1>0 DEF ExecUnlinkBlob, At, GcInv, ExecPc
    <2>3. CASE ~ImportRename(t) /\ ~ExecUnlinkBlob(t)
      <3>1. UNCHANGED blob
        BY <1>1, <2>3, BlobKept
      <3> QED
        BY <3>1
    <2> QED
      BY <2>1, <2>2, <2>3
  <1>2. CASE \/ (\E t \in Threads : Request(t)) \/ VerifyStart \/ VerifyIsFile
             \/ VerifyFile \/ VerifyDone \/ NextDay \/ Crash \/ UNCHANGED vars
    <2>1. UNCHANGED blob
      BY <1>2
         DEF Request, ImportStart, PullStart, ReportStart, ExecStart,
             VerifyStart, VerifyIsFile, VerifyFile, VerifyDone, NextDay, Crash, vars, disk
    <2> QED
      BY <2>1
  <1>3. CASE \E e \in Digests : BitRot(e)
    BY <1>3, <1>0 DEF BitRot
  <1> QED
    BY <1>1, <1>2, <1>3 DEF Next

\* gc_execute deletes a blob only if gc_report named it since the daemon
\* started; no other operation of the store deletes one.
THEOREM GcOnlyReported == Spec => RemovedOnlyIfReported
  <1>1. Init => GcInv
    <2> SUFFICES ASSUME Init PROVE GcInv
      OBVIOUS
    <2>1. IdleThread.pc = "idle"
      BY DEF IdleThread
    <2> QED
      BY <2>1, TypeInit DEF Init, GcInv, NoReport, ExecPc
  <1>2. GcInv /\ [Next]_vars => GcInv'
    BY GcInvNext
  <1>3. GcInv /\ [Next]_vars => [RemovedBy]_vars
    BY RemovalStep
  <1> QED
    BY <1>1, <1>2, <1>3, PTL DEF Spec, RemovedOnlyIfReported, RemovedBy

-----------------------------------------------------------------------------
(* What `buncker verify' finds *)

\* The inductive form of VerifyFindsRot: what was corrupted when the listing
\* was made is still to be hashed or already flagged, and is still corrupted
\* when its turn comes, since a file that is deleted or replaced is forgotten.
RotListed == scan.rotten \subseteq scan.left \cup scan.now \cup scan.bad
RotStays == \A d \in scan.rotten : blob[d] = "torn"
RotInv == TypeInv /\ RotListed /\ RotStays

\* RotInv is inductive.
LEMMA RotNext == RotInv /\ [Next]_vars => RotInv'
  <1> SUFFICES ASSUME RotInv, [Next]_vars PROVE RotListed' /\ RotStays'
    BY TypeStep DEF RotInv
  <1> USE DEF RotInv, RotListed, RotStays
  <1>a. /\ scan \in Scan
        /\ blob \in [Digests -> {"absent"} \cup Content]
        /\ th \in [Threads -> Thread]
    BY DEF TypeInv, TypeOK
  <1>1. ASSUME NEW t \in Threads, Step(t) PROVE RotListed' /\ RotStays'
    <2>0. th[t].cur \in Digests
      BY <1>a DEF Thread
    <2>1. CASE ImportRename(t)
      BY <2>0, <2>1, <1>a DEF ImportRename, ForgetRotten, Scan
    <2>2. CASE ExecUnlinkBlob(t)
      BY <2>0, <2>2, <1>a DEF ExecUnlinkBlob, ForgetRotten, Scan
    <2>3. CASE ~ImportRename(t) /\ ~ExecUnlinkBlob(t)
      <3>1. UNCHANGED <<blob, scan>>
        BY <1>1, <2>3, BlobKept
      <3> QED
        BY <3>1
    <2> QED
      BY <2>1, <2>2, <2>3
  <1>2. CASE \/ (\E t \in Threads : Request(t)) \/ NextDay \/ Crash
             \/ UNCHANGED vars
    <2>1. UNCHANGED <<blob, scan>>
      BY <1>2
         DEF Request, ImportStart, PullStart, ReportStart, ExecStart, NextDay,
             Crash, vars, disk
    <2> QED
      BY <2>1
  <1>3. CASE VerifyStart
    BY <1>3 DEF VerifyStart, FilesInBlobs, disk
  <1>4. CASE VerifyFile
    <2>1. PICK f \in scan.now :
            IF f \in FilesInBlobs
              THEN scan' = [scan EXCEPT !.now = @ \ {f},
                            !.bad = @ \cup
                               {g \in {f} : g = TempName \/ blob[g] = "torn"}]
              ELSE scan' = NoScan
      BY <1>4 DEF VerifyFile
    <2>2. UNCHANGED blob
      BY <1>4 DEF VerifyFile, disk
    <2>3. CASE f \in FilesInBlobs
      <3>1. /\ scan'.rotten = scan.rotten
            /\ scan'.left = scan.left /\ scan'.now = scan.now \ {f}
            /\ scan'.bad = scan.bad \cup
                             {g \in {f} : g = TempName \/ blob[g] = "torn"}
        BY <2>1, <2>3, <1>a DEF Scan
      <3> QED
        BY <3>1, <2>2
    <2>4. CASE f \notin FilesInBlobs
      BY <2>1, <2>4 DEF NoScan
    <2> QED
      BY <2>3, <2>4
  <1>7. CASE VerifyIsFile
    <2>1. PICK f \in scan.left :
            scan' = [scan EXCEPT !.left = @ \ {f}, !.now = {f} \cap FilesInBlobs]
      BY <1>7 DEF VerifyIsFile
    <2>2. UNCHANGED blob
      BY <1>7 DEF VerifyIsFile, disk
    <2>3. /\ scan'.rotten = scan.rotten /\ scan'.bad = scan.bad
          /\ scan'.left = scan.left \ {f}
          /\ scan'.now = {f} \cap FilesInBlobs
      BY <2>1, <1>a DEF Scan
    <2>4. scan.rotten \subseteq FilesInBlobs
      BY <1>a DEF Scan, FilesInBlobs
    <2>5. scan.now = {}
      BY <1>7 DEF VerifyIsFile
    <2> QED
      BY <2>2, <2>3, <2>4, <2>5
  <1>5. CASE VerifyDone
    BY <1>5 DEF VerifyDone, NoScan
  <1>6. CASE \E d \in Digests : BitRot(d)
    BY <1>6, <1>a DEF BitRot
  <1> QED
    BY <1>1, <1>2, <1>3, <1>4, <1>5, <1>6, <1>7 DEF Next

\* When Store.verify has hashed every file it listed, each blob that was
\* corrupted at the start is in its result, or was deleted or replaced while
\* it ran: requests that race it never hide one.
THEOREM VerifyComplete == Spec => []VerifyFindsRot
  <1>1. Init => RotInv
    <2> SUFFICES ASSUME Init PROVE RotInv
      OBVIOUS
    <2> QED
      BY TypeInit DEF Init, RotInv, RotListed, RotStays, NoScan
  <1>2. RotInv => VerifyFindsRot
    BY DEF RotInv, RotListed, VerifyFindsRot
  <1> QED
    BY <1>1, <1>2, RotNext, PTL DEF Spec

-----------------------------------------------------------------------------
(* What the absence of overlapping requests buys *)

\* Where a step of a request may take its thread.  A thread never turns from
\* one kind of request to another; it opens a blob to stream it only when the
\* bytes have just hashed to their name; and it writes a blob only when the
\* file was not there.
LEMMA StepMoves ==
  ASSUME TypeInv, NEW t \in Threads, Step(t)
  PROVE  /\ \A u \in Threads : u # t => th'[u] = th[u]
         /\ th[t].pc # "idle"
         /\ th'[t].pc \in ImportPc => th[t].pc \in ImportPc
         /\ th'[t].pc \in ExecPc => th[t].pc \in ExecPc
         /\ "overlap" \in upset' <=> "overlap" \in upset
         /\ th'[t].pc = "get_open" =>
              UNCHANGED blob /\ blob[th'[t].cur] = "whole"
         /\ th'[t].pc \in {"imp_write", "imp_rename"} =>
              /\ UNCHANGED blob
              /\ \/ blob[th'[t].cur] = "absent"
                 \/ th[t].pc = "imp_write" /\ th'[t].cur = th[t].cur
  <1> USE DEF At, Goto, Finish, load, disk, ImportPc, ExecPc
  <1>a. th \in [Threads -> Thread] /\ th[t] \in Thread /\ IdleThread.pc = "idle"
    BY DEF TypeInv, TypeOK, IdleThread
  <1>1. CASE ImportSkipsCorrupt(t)
    BY <1>1, <1>a DEF ImportSkipsCorrupt, Thread
  <1>2. CASE ImportExists(t)
    BY <1>2, <1>a DEF ImportExists, Thread
  <1>3. CASE ImportWriteTemp(t)
    BY <1>3, <1>a DEF ImportWriteTemp, Thread
  <1>4. CASE ImportWriteFails(t)
    BY <1>4, <1>a DEF ImportWriteFails, Thread
  <1>5. CASE ImportRename(t)
    BY <1>5, <1>a DEF ImportRename, Thread
  <1>6. CASE ImportSidecarCheck(t)
    BY <1>6, <1>a DEF ImportSidecarCheck, Thread
  <1>7. CASE ImportSidecarRead(t)
    BY <1>7, <1>a DEF ImportSidecarRead, Thread
  <1>8. CASE ImportSidecarReplace(t)
    BY <1>8, <1>a DEF ImportSidecarReplace, Thread
  <1>9. CASE ImportSidecarFails(t)
    BY <1>9, <1>a DEF ImportSidecarFails, Thread
  <1>10. CASE ImportReturn(t)
    BY <1>10, <1>a DEF ImportReturn, Thread
  <1>11. CASE PullStat(t)
    BY <1>11, <1>a DEF PullStat, Thread
  <1>12. CASE PullVerify(t)
    BY <1>12, <1>a DEF PullVerify, Thread
  <1>13. CASE PullStream(t)
    BY <1>13, <1>a DEF PullStream, Thread
  <1>14. CASE PullAbort(t)
    BY <1>14, <1>a DEF PullAbort, Thread
  <1>15. CASE PullTouch(t)
    BY <1>15, <1>a DEF PullTouch, Thread
  <1>16. CASE PullRead(t)
    BY <1>16, <1>a DEF PullRead, Thread
  <1>17. CASE PullReplace(t)
    BY <1>17, <1>a DEF PullReplace, Thread
  <1>18. CASE PullReplaceFails(t)
    BY <1>18, <1>a DEF PullReplaceFails, Thread
  <1>19. CASE ReportRead(t)
    BY <1>19, <1>a DEF ReportRead, Thread
  <1>20. CASE ReportPublish(t)
    BY <1>20, <1>a DEF ReportPublish, Thread
  <1>21. CASE ExecReject(t)
    BY <1>21, <1>a DEF ExecReject, Thread
  <1>22. CASE ExecExists(t)
    BY <1>22, <1>a DEF ExecExists, Thread
  <1>23. CASE ExecUnlinkBlob(t)
    BY <1>23, <1>a DEF ExecUnlinkBlob, Thread
  <1>24. CASE ExecSidecarExists(t)
    BY <1>24, <1>a DEF ExecSidecarExists, Thread
  <1>25. CASE ExecUnlinkSidecar(t)
    BY <1>25, <1>a DEF ExecUnlinkSidecar, Thread
  <1>26. CASE ExecReturn(t)
    BY <1>26, <1>a DEF ExecReturn, Thread
  <1> QED
    BY <1>1, <1>2, <1>3, <1>4, <1>5, <1>6, <1>7, <1>8, <1>9, <1>10, <1>11,
       <1>12, <1>13, <1>14, <1>15, <1>16, <1>17, <1>18, <1>19, <1>20, <1>21,
       <1>22, <1>23, <1>24, <1>25, <1>26
       DEF Step, ImportStep, PullStep, GcStep

\* Where a request begins.
LEMMA RequestBegins ==
  ASSUME TypeInv, NEW t \in Threads, Request(t)
  PROVE  /\ \A u \in Threads : u # t => th'[u] = th[u]
         /\ th'[t].pc \in {"idle", "imp_next", "get_stat", "rep_scan", "gc_next"}
         /\ UNCHANGED <<disk, served>>
         /\ \E op \in AllOps :
              /\ Accept(t, op)
              /\ th'[t].pc = "imp_next" => op = "import"
              /\ th'[t].pc = "gc_next" => op = "execute"
  <1>a. th \in [Threads -> Thread] /\ IdleThread \in Thread
    BY IdleThreadType DEF TypeInv, TypeOK
  <1>b. ASSUME NEW p, NEW d, NEW S, NEW c, Begin(t, p, d, S, c)
        PROVE  /\ th'[t].pc = p
               /\ \A u \in Threads : u # t => th'[u] = th[u]
    <2> DEFINE r == [IdleThread EXCEPT !.pc = p, !.cur = d, !.todo = S, !.stamp = c]
    <2>1. r.pc = p
      BY <1>a DEF Thread
    <2>2. th' = [th EXCEPT ![t] = r]
      BY <1>b DEF Begin
    <2> HIDE DEF r
    <2> QED
      BY <1>a, <2>1, <2>2
  <1>1. CASE \E S \in (SUBSET Digests) \ {{}} : ImportStart(t, S)
    BY <1>1, <1>b DEF ImportStart, AllOps
  <1>2. CASE \E d \in Digests : PullStart(t, d)
    <2>1. PICK d \in Digests : PullStart(t, d)
      BY <1>2
    <2>2. PICK p \in {"idle", "get_stat"} : Begin(t, p, d, {}, 0)
      BY <2>1 DEF PullStart
    <2> QED
      BY <2>1, <2>2, <1>b DEF PullStart, AllOps
  <1>3. CASE \E n \in InactiveDays : ReportStart(t, n)
    <2>1. PICK n \in InactiveDays : ReportStart(t, n)
      BY <1>3
    <2>2. PICK S, c : Begin(t, "rep_scan", IdleThread.cur, S, c)
      BY <2>1 DEF ReportStart
    <2> QED
      BY <2>1, <2>2, <1>b DEF ReportStart, AllOps
  <1>4. CASE \E S \in (SUBSET Digests) \ {{}} : ExecStart(t, S)
    <2>1. PICK S \in (SUBSET Digests) \ {{}} : ExecStart(t, S)
      BY <1>4
    <2> DEFINE r == [IdleThread EXCEPT !.pc = "gc_next", !.todo = S,
                                       !.picked = report.digests]
    <2>2. r.pc = "gc_next"
      BY <1>a DEF Thread
    <2>3. th' = [th EXCEPT ![t] = r] \/ th' = th
      BY <2>1 DEF ExecStart
    <2> HIDE DEF r
    <2> QED
      BY <1>a, <2>1, <2>2, <2>3 DEF ExecStart, Accept, At, AllOps
  <1> QED
    BY <1>1, <1>2, <1>3, <1>4 DEF Request

\* A request that begins beside one it may disturb is recorded in upset.
LEMMA RequestMoves ==
  ASSUME TypeInv, NEW t \in Threads, Request(t), "overlap" \notin upset'
  PROVE  /\ \A u \in Threads : u # t => th'[u] = th[u]
         /\ UNCHANGED <<disk, served>>
         /\ "overlap" \notin upset
         /\ th[t].pc = "idle"
         /\ th'[t].pc \in {"idle", "imp_next", "get_stat", "rep_scan", "gc_next"}
         /\ \A u \in Threads : th[u].pc \notin ExecPc
         /\ th'[t].pc = "imp_next" =>
              \A u \in Threads : th[u].pc \notin ImportPc
         /\ th'[t].pc = "gc_next" => \A u \in Threads : th[u].pc = "idle"
  <1>1. PICK op \in AllOps :
          /\ Accept(t, op)
          /\ th'[t].pc = "imp_next" => op = "import"
          /\ th'[t].pc = "gc_next" => op = "execute"
    BY RequestBegins
  <1>2. "overlap" \notin upset /\ ~Overlaps(op) /\ th[t].pc = "idle"
    BY <1>1 DEF Accept, At
  <1> QED
    BY <1>1, <1>2, RequestBegins DEF Overlaps, At

\* While requests have not overlapped, a gc_execute has the store to itself
\* and there is at most one import.
Exclusive ==
    \A t, u \in Threads : t # u =>
      /\ th[t].pc \in ExecPc => th[u].pc = "idle"
      /\ ~ (th[t].pc \in ImportPc /\ th[u].pc \in ImportPc)

\* The file a pull has verified is unchanged until it is streamed, because
\* the one import that may run writes only a file that is not there.
OpenWhole(t) == th[t].pc = "get_open" => blob[th[t].cur] = "whole"
WritesAbsent(t) ==
    th[t].pc \in {"imp_write", "imp_rename"} => blob[th[t].cur] = "absent"
Undisturbed == Exclusive /\ \A t \in Threads : WritesAbsent(t)
NoneServed == "torn" \notin served
Sound == NoneServed /\ \A t \in Threads : OpenWhole(t)
Calm == upset \cap {"overlap", "decay"} = {}
SoloInv ==
    /\ TypeInv
    /\ "overlap" \notin upset => Undisturbed
    /\ Calm => Sound

\* A step of one request disturbs no other one.
LEMMA SoloStep ==
  ASSUME SoloInv, NEW t \in Threads, Step(t), "overlap" \notin upset'
  PROVE  Undisturbed' /\ (Sound => Sound')
  <1>a. /\ th \in [Threads -> Thread]
        /\ blob \in [Digests -> {"absent"} \cup Content]
        /\ \A u \in Threads : th[u].cur \in Digests
    BY DEF SoloInv, TypeInv, TypeOK, Thread
  <1>b. Undisturbed /\ TypeInv
    BY StepMoves DEF SoloInv
  <1>1. Exclusive'
    <2> SUFFICES ASSUME NEW u \in Threads, NEW v \in Threads, u # v
                 PROVE  /\ th'[u].pc \in ExecPc => th'[v].pc = "idle"
                        /\ ~ (th'[u].pc \in ImportPc /\ th'[v].pc \in ImportPc)
      BY DEF Exclusive
    <2>1. CASE u # t /\ v # t
      BY <2>1, <1>b, StepMoves DEF Undisturbed, Exclusive
    <2>2. CASE u = t
      BY <2>2, <1>b, StepMoves DEF Undisturbed, Exclusive
    <2>3. CASE v = t
      BY <2>3, <1>b, StepMoves DEF Undisturbed, Exclusive
    <2> QED
      BY <2>1, <2>2, <2>3
  <1>2. ASSUME NEW u \in Threads
        PROVE  WritesAbsent(u)' /\ (OpenWhole(u) => OpenWhole(u)')
    <2>1. CASE u = t
      BY <2>1, <1>b, StepMoves DEF Undisturbed, OpenWhole, WritesAbsent
    <2>2. CASE u # t /\ ImportRename(t)
      <3>1. th'[u] = th[u] /\ th[u].pc \notin ImportPc
        BY <2>2, <1>b, StepMoves
           DEF Undisturbed, Exclusive, ImportRename, At, ImportPc
      <3>2. /\ blob[th[t].cur] = "absent"
            /\ blob' = [blob EXCEPT ![th[t].cur] = th[t].tmp]
        BY <2>2, <1>b DEF Undisturbed, WritesAbsent, ImportRename, At
      <3> QED
        BY <3>1, <3>2, <1>a, <1>b
           DEF Undisturbed, OpenWhole, WritesAbsent, ImportPc
    <2>3. CASE u # t /\ ExecUnlinkBlob(t)
      BY <2>3, <1>b, StepMoves
         DEF Undisturbed, Exclusive, ExecUnlinkBlob, At, ExecPc, OpenWhole,
             WritesAbsent
    <2>4. CASE u # t /\ ~ImportRename(t) /\ ~ExecUnlinkBlob(t)
      BY <2>4, <1>b, StepMoves, BlobKept
         DEF Undisturbed, OpenWhole, WritesAbsent
    <2> QED
      BY <2>1, <2>2, <2>3, <2>4
  <1>3. Sound => NoneServed'
    <2>1. CASE PullStream(t)
      BY <2>1 DEF PullStream, At, Sound, OpenWhole, NoneServed
    <2>2. CASE ~PullStream(t)
      <3>1. UNCHANGED served
        BY <2>2
           DEF Step, ImportStep, PullStep, GcStep, ImportSkipsCorrupt,
               ImportExists, ImportWriteTemp, ImportWriteFails, ImportRename,
               ImportSidecarCheck, ImportSidecarRead, ImportSidecarReplace,
               ImportSidecarFails, ImportReturn, PullStat, PullVerify,
               PullAbort, PullTouch, PullRead, PullReplace, PullReplaceFails,
               ReportRead, ReportPublish, ExecReject, ExecExists,
               ExecUnlinkBlob, ExecSidecarExists, ExecUnlinkSidecar, ExecReturn
      <3> QED
        BY <3>1 DEF Sound, NoneServed
    <2> QED
      BY <2>1, <2>2
  <1> QED
    BY <1>1, <1>2, <1>3 DEF Undisturbed, Sound

\* A request that begins without an overlap disturbs no other one.
LEMMA SoloRequest ==
  ASSUME SoloInv, NEW t \in Threads, Request(t), "overlap" \notin upset'
  PROVE  Undisturbed' /\ (Sound => Sound')
  <1>a. Undisturbed /\ TypeInv
    BY RequestMoves DEF SoloInv
  <1>1. Exclusive'
    <2> SUFFICES ASSUME NEW u \in Threads, NEW v \in Threads, u # v
                 PROVE  /\ th'[u].pc \in ExecPc => th'[v].pc = "idle"
                        /\ ~ (th'[u].pc \in ImportPc /\ th'[v].pc \in ImportPc)
      BY DEF Exclusive
    <2>1. CASE u # t /\ v # t
      BY <2>1, <1>a, RequestMoves DEF Undisturbed, Exclusive
    <2>2. CASE u = t
      BY <2>2, <1>a, RequestMoves DEF ExecPc, ImportPc
    <2>3. CASE v = t
      BY <2>3, <1>a, RequestMoves DEF ExecPc, ImportPc
    <2> QED
      BY <2>1, <2>2, <2>3
  <1>2. ASSUME NEW u \in Threads
        PROVE  WritesAbsent(u)' /\ (OpenWhole(u) => OpenWhole(u)')
    BY <1>a, RequestMoves DEF Undisturbed, OpenWhole, WritesAbsent, disk
  <1>3. NoneServed => NoneServed'
    BY <1>a, RequestMoves DEF NoneServed
  <1> QED
    BY <1>1, <1>2, <1>3 DEF Undisturbed, Sound

\* What happened stays recorded.
LEMMA UpsetGrows == TypeInv /\ [Next]_vars => upset \subseteq upset'
  <1> SUFFICES ASSUME TypeInv, [Next]_vars PROVE upset \subseteq upset'
    OBVIOUS
  <1>1. ASSUME NEW t \in Threads, Request(t) PROVE upset \subseteq upset'
    BY <1>1, RequestBegins DEF Accept
  <1>2. ASSUME NEW t \in Threads, Step(t) PROVE upset \subseteq upset'
    BY <1>2, Zenon
       DEF Step, ImportStep, PullStep, GcStep, load, ImportSkipsCorrupt,
           ImportExists, ImportWriteTemp, ImportWriteFails, ImportRename,
           ImportSidecarCheck, ImportSidecarRead, ImportSidecarReplace,
           ImportSidecarFails, ImportReturn, PullStat, PullVerify, PullStream,
           PullAbort, PullTouch, PullRead, PullReplace, PullReplaceFails,
           ReportRead, ReportPublish, ExecReject, ExecExists, ExecUnlinkBlob,
           ExecSidecarExists, ExecUnlinkSidecar, ExecReturn
  <1>3. CASE \/ VerifyStart \/ VerifyIsFile \/ VerifyFile \/ VerifyDone \/ NextDay
             \/ (\E d \in Digests : BitRot(d)) \/ Crash \/ UNCHANGED vars
    BY <1>3 DEF VerifyStart, VerifyIsFile, VerifyFile, VerifyDone, NextDay,
                BitRot, Crash, vars, load
  <1> QED
    BY <1>1, <1>2, <1>3 DEF Next

\* SoloInv is inductive: decay between verification and streaming is recorded,
\* and a restart ends every request.
LEMMA SoloNext == SoloInv /\ [Next]_vars => SoloInv'
  <1> SUFFICES ASSUME SoloInv, [Next]_vars, "overlap" \notin upset'
               PROVE  Undisturbed' /\ (Calm' => Sound')
    BY TypeStep DEF SoloInv, Calm
  <1>a. Undisturbed /\ (Calm' => Sound)
    BY UpsetGrows DEF SoloInv, Calm
  <1>1. ASSUME NEW t \in Threads, Request(t)
        PROVE  Undisturbed' /\ (Calm' => Sound')
    BY <1>1, <1>a, SoloRequest
  <1>2. ASSUME NEW t \in Threads, Step(t) PROVE Undisturbed' /\ (Calm' => Sound')
    BY <1>2, <1>a, SoloStep
  <1>3. CASE VerifyStart \/ VerifyIsFile \/ VerifyFile \/ VerifyDone \/ NextDay
             \/ UNCHANGED vars
    <2>1. UNCHANGED <<blob, served, th, upset>>
      BY <1>3
         DEF VerifyStart, VerifyIsFile, VerifyFile, VerifyDone, NextDay, vars,
             disk, load
    <2> QED
      BY <2>1, <1>a
         DEF Undisturbed, Exclusive, OpenWhole, WritesAbsent, NoneServed, Sound
  <1>4. ASSUME NEW d \in Digests, BitRot(d)
        PROVE  Undisturbed' /\ (Calm' => Sound')
    <2>1. blob \in [Digests -> {"absent"} \cup Content]
      BY DEF SoloInv, TypeInv, TypeOK
    <2>2. UNCHANGED <<served, th>>
      BY <1>4 DEF BitRot
    <2>3. ASSUME NEW t \in Threads
          PROVE  WritesAbsent(t)' /\ (Calm' => OpenWhole(t)')
      <3>1. WritesAbsent(t) /\ (Calm' => OpenWhole(t)) /\ th'[t] = th[t]
        BY <2>2, <1>a DEF Undisturbed, Sound
      <3>2. th[t].cur \in Digests
        BY DEF SoloInv, TypeInv, TypeOK, Thread
      <3>3. Calm' => ~ (th[t].pc = "get_open" /\ th[t].cur = d)
        BY <1>4 DEF BitRot, At, Calm
      <3>4. blob' = [blob EXCEPT ![d] = "torn"] /\ blob[d] = "whole"
        BY <1>4 DEF BitRot
      <3> QED
        BY <2>1, <3>1, <3>2, <3>3, <3>4 DEF OpenWhole, WritesAbsent
    <2> QED
      BY <2>2, <2>3, <1>a DEF Undisturbed, Exclusive, NoneServed, Sound
  <1>5. CASE Crash
    <2>1. IdleThread.pc = "idle"
      BY DEF IdleThread
    <2> QED
      BY <1>5, <1>a, <2>1
         DEF Crash, Undisturbed, Exclusive, OpenWhole, WritesAbsent,
             NoneServed, Sound, ExecPc, ImportPc
  <1> QED
    BY <1>1, <1>2, <1>3, <1>4, <1>5 DEF Next

\* SoloInv holds initially.
LEMMA SoloInit == Init => SoloInv
  <1> SUFFICES ASSUME Init PROVE SoloInv
    OBVIOUS
  <1>1. IdleThread.pc = "idle"
    BY DEF IdleThread
  <1> QED
    BY <1>1, TypeInit
       DEF Init, SoloInv, Undisturbed, Exclusive, OpenWhole, WritesAbsent,
           NoneServed, Sound, ExecPc, ImportPc

\* A 200 response never carries other bytes than its digest names, on any
\* disk, unless two imports or a gc_execute and another request overlapped, or
\* the file decayed between its verification and its second reading.
THEOREM ServedStaysIntact == Spec => []ServedIntact
  <1>1. SoloInv => ServedIntact
    BY DEF SoloInv, Calm, Sound, NoneServed, ServedIntact
  <1> QED
    BY <1>1, SoloInit, SoloNext, PTL DEF Spec

-----------------------------------------------------------------------------
(* Blobs and sidecars belong together *)

\* The steps that change a blob file or a sidecar.
Writes(t) ==
    \/ ImportRename(t)
    \/ ImportSidecarReplace(t)
    \/ PullReplace(t)
    \/ ExecUnlinkBlob(t)
    \/ ExecUnlinkSidecar(t)

\* No other step of a request does.
LEMMA DiskKept ==
  ASSUME NEW t \in Threads, Step(t), ~Writes(t)
  PROVE  UNCHANGED disk
  BY Zenon
     DEF Step, ImportStep, PullStep, GcStep, Writes, disk, ImportSkipsCorrupt,
         ImportExists, ImportWriteTemp, ImportWriteFails, ImportSidecarCheck,
         ImportSidecarRead, ImportSidecarFails, ImportReturn, PullStat,
         PullVerify, PullStream, PullAbort, PullTouch, PullRead,
         PullReplaceFails, ReportRead, ReportPublish, ExecReject, ExecExists,
         ExecSidecarExists, ExecReturn

\* A thread is between the two halves of an import, or of a deletion, of d.
ImportSidePc == {"imp_side", "imp_read", "imp_replace"}
ExecSidePc == {"gc_side", "gc_side_unlink"}
Between(t, d) == th[t].cur = d /\ th[t].pc \in ImportSidePc \cup ExecSidePc
PairedAt(d) == blob[d] # "absent" <=> meta[d].here

\* What such a thread, and a pull that updates a sidecar, still find on disk.
SideFacts(t) ==
    /\ th[t].pc \in ImportSidePc => blob[th[t].cur] # "absent"
    /\ th[t].pc \in ExecSidePc => blob[th[t].cur] = "absent"
    /\ th[t].pc \in {"imp_read", "get_read", "get_replace", "gc_side_unlink"}
         => meta[th[t].cur].here
    /\ th[t].pc \in {"imp_replace", "get_replace"} => th[t].got.here
Matched ==
    /\ \A t \in Threads : SideFacts(t)
    /\ \A d \in Digests : PairedAt(d) \/ \E t \in Threads : Between(t, d)

\* The inductive form of PairedUnlessUpset.  It rests on SoloInv: a sidecar
\* that was there when a thread looked stays there only because no gc_execute
\* runs beside it.
Unupset == upset \subseteq {"decay"}
PairInv == SoloInv /\ (Unupset => Matched)

\* A step of a request that only moves its thread: the thread knows enough of
\* the disk, and it leaves the gap between blob and sidecar only when there
\* is none.
LEMMA PairMoves ==
  ASSUME TypeInv, \A u \in Threads : SideFacts(u), NEW t \in Threads, Step(t),
         ~Writes(t), ~ImportSidecarFails(t)
  PROVE  /\ SideFacts(t)'
         /\ \A d \in Digests : Between(t, d) => Between(t, d)' \/ PairedAt(d)
  <1> USE DEF At, Goto, Finish, SideFacts, Between, PairedAt, ImportSidePc,
          ExecSidePc
  <1>a. /\ th \in [Threads -> Thread] /\ th[t] \in Thread
        /\ IdleThread \in Thread /\ IdleThread.pc = "idle"
        /\ SideFacts(t)
    BY IdleThreadType DEF TypeInv, TypeOK
  <1>b. UNCHANGED <<blob, meta>>
    BY DiskKept DEF disk
  <1>1. CASE ImportSkipsCorrupt(t)
    BY <1>1, <1>a, <1>b DEF ImportSkipsCorrupt, Thread
  <1>2. CASE ImportExists(t)
    BY <1>2, <1>a, <1>b DEF ImportExists, Thread
  <1>3. CASE ImportWriteTemp(t)
    BY <1>3, <1>a, <1>b DEF ImportWriteTemp, Thread
  <1>4. CASE ImportWriteFails(t)
    BY <1>4, <1>a, <1>b DEF ImportWriteFails, Thread
  <1>5. CASE ImportSidecarCheck(t)
    BY <1>5, <1>a, <1>b DEF ImportSidecarCheck, Thread, SidecarOf
  <1>6. CASE ImportSidecarRead(t)
    BY <1>6, <1>a, <1>b DEF ImportSidecarRead, Thread, Readable, SidecarOf
  <1>7. CASE ImportReturn(t)
    BY <1>7, <1>a, <1>b DEF ImportReturn, Thread
  <1>8. CASE PullStat(t)
    BY <1>8, <1>a, <1>b DEF PullStat, Thread
  <1>9. CASE PullVerify(t)
    BY <1>9, <1>a, <1>b DEF PullVerify, Thread
  <1>10. CASE PullStream(t)
    BY <1>10, <1>a, <1>b DEF PullStream, Thread
  <1>11. CASE PullAbort(t)
    BY <1>11, <1>a, <1>b DEF PullAbort, Thread
  <1>12. CASE PullTouch(t)
    BY <1>12, <1>a, <1>b DEF PullTouch, Thread
  <1>13. CASE PullRead(t)
    BY <1>13, <1>a, <1>b DEF PullRead, Thread, Readable, SidecarOf
  <1>14. CASE PullReplaceFails(t)
    BY <1>14, <1>a, <1>b DEF PullReplaceFails, Thread
  <1>15. CASE ReportRead(t)
    BY <1>15, <1>a, <1>b DEF ReportRead, Thread
  <1>16. CASE ReportPublish(t)
    BY <1>16, <1>a, <1>b DEF ReportPublish, Thread
  <1>17. CASE ExecReject(t)
    BY <1>17, <1>a, <1>b DEF ExecReject, Thread
  <1>18. CASE ExecExists(t)
    BY <1>18, <1>a, <1>b DEF ExecExists, Thread
  <1>19. CASE ExecSidecarExists(t)
    BY <1>19, <1>a, <1>b DEF ExecSidecarExists, Thread
  <1>20. CASE ExecReturn(t)
    BY <1>20, <1>a, <1>b DEF ExecReturn, Thread
  <1> QED
    BY <1>1, <1>2, <1>3, <1>4, <1>5, <1>6, <1>7, <1>8, <1>9, <1>10, <1>11,
       <1>12, <1>13, <1>14, <1>15, <1>16, <1>17, <1>18, <1>19, <1>20
       DEF Step, ImportStep, PullStep, GcStep, Writes

\* The steps that write keep blobs and sidecars together.
LEMMA PairWrites ==
  ASSUME PairInv, Unupset, NEW t \in Threads, Step(t), Writes(t)
  PROVE  Matched'
  <1>a. /\ th \in [Threads -> Thread]
        /\ \A u \in Threads : th[u] \in Thread /\ th[u].cur \in Digests
        /\ blob \in [Digests -> {"absent"} \cup Content]
        /\ meta \in [Digests -> Sidecar]
        /\ IdleThread.pc = "idle"
    BY DEF PairInv, SoloInv, TypeInv, TypeOK, Thread, IdleThread
  <1>b. /\ Exclusive /\ Matched /\ TypeInv
        /\ \A u \in Threads : u # t => th'[u] = th[u]
    BY StepMoves DEF PairInv, SoloInv, Undisturbed, Unupset
  <1>d. PICK d \in Digests : d = th[t].cur
    BY <1>a
  <1>c. /\ SideFacts(t) /\ d = th[t].cur /\ th[t] \in Thread
        /\ \A u \in Threads : SideFacts(u)
        /\ \A e \in Digests : PairedAt(e) \/ \E u \in Threads : Between(u, e)
    BY <1>a, <1>b, <1>d DEF Matched
  <1> USE DEF SideFacts, ImportSidePc, ExecSidePc, At, Goto, Finish
  <1>1. CASE ImportRename(t)
    <2>1. /\ th'[t].pc = "imp_side" /\ th'[t].cur = d
          /\ blob'[d] # "absent"
          /\ \A e \in Digests : e # d => blob'[e] = blob[e]
          /\ meta' = meta
          /\ th[t].pc = "imp_rename"
      BY <1>1, <1>a, <1>b, <1>c
         DEF ImportRename, Thread, TypeInv, ThreadsOK, Content
    <2>2. \A u \in Threads : u # t => th[u].pc \notin ImportPc \cup ExecPc
      BY <2>1, <1>b DEF Exclusive, ImportPc, ExecPc
    <2>3. ASSUME NEW u \in Threads PROVE SideFacts(u)'
      BY <2>1, <2>2, <1>a, <1>b, <1>c DEF ImportPc, ExecPc
    <2>4. ASSUME NEW e \in Digests
          PROVE  (PairedAt(e) \/ \E u \in Threads : Between(u, e))'
      <3>1. CASE e = d
        BY <2>1, <3>1 DEF Between
      <3>2. CASE e # d
        <4>1. PairedAt(e) => PairedAt(e)'
          BY <2>1, <3>2 DEF PairedAt
        <4>2. ASSUME NEW u \in Threads, Between(u, e) PROVE Between(u, e)'
          BY <2>1, <4>2, <1>b DEF Between
        <4> QED
          BY <4>1, <4>2, <1>c
      <3> QED
        BY <3>1, <3>2
    <2> QED
      BY <2>3, <2>4 DEF Matched
  <1>2. CASE ImportSidecarReplace(t)
    <2>1. /\ th'[t].pc = "imp_next" /\ blob' = blob
          /\ meta'[d].here /\ blob[d] # "absent"
          /\ \A e \in Digests : e # d => meta'[e] = meta[e]
          /\ th[t].pc = "imp_replace"
      BY <1>2, <1>a, <1>b, <1>c, ReplaceType DEF ImportSidecarReplace, Thread
    <2>2. \A u \in Threads : u # t => th[u].pc \notin ImportPc \cup ExecPc
      BY <2>1, <1>b DEF Exclusive, ImportPc, ExecPc
    <2>3. ASSUME NEW u \in Threads PROVE SideFacts(u)'
      BY <2>1, <2>2, <1>a, <1>b, <1>c DEF ImportPc, ExecPc
    <2>4. ASSUME NEW e \in Digests
          PROVE  (PairedAt(e) \/ \E u \in Threads : Between(u, e))'
      <3>1. CASE e = d
        BY <2>1, <3>1 DEF PairedAt
      <3>2. CASE e # d
        <4>1. PairedAt(e) => PairedAt(e)'
          BY <2>1, <3>2 DEF PairedAt
        <4>2. ASSUME NEW u \in Threads, Between(u, e) PROVE Between(u, e)'
          BY <4>2, <3>2, <1>b, <1>c DEF Between
        <4> QED
          BY <4>1, <4>2, <1>c
      <3> QED
        BY <3>1, <3>2
    <2> QED
      BY <2>3, <2>4 DEF Matched
  <1>3. CASE PullReplace(t)
    <2>1. /\ th'[t].pc = "idle" /\ blob' = blob
          /\ \A e \in Digests : meta'[e].here = meta[e].here
          /\ th[t].pc = "get_replace"
      BY <1>3, <1>a, <1>b, <1>c, ReplaceType DEF PullReplace
    <2>2. ASSUME NEW u \in Threads PROVE SideFacts(u)'
      BY <2>1, <1>a, <1>b, <1>c
    <2>3. ASSUME NEW e \in Digests
          PROVE  (PairedAt(e) \/ \E u \in Threads : Between(u, e))'
      <3>1. PairedAt(e) => PairedAt(e)'
        BY <2>1 DEF PairedAt
      <3>2. ASSUME NEW u \in Threads, Between(u, e) PROVE Between(u, e)'
        BY <2>1, <3>2, <1>b DEF Between
      <3> QED
        BY <3>1, <3>2, <1>c
    <2> QED
      BY <2>2, <2>3 DEF Matched
  <1>4. CASE ExecUnlinkBlob(t) \/ ExecUnlinkSidecar(t)
    <2>1. \A u \in Threads : u # t => th[u].pc = "idle" /\ th'[u].pc = "idle"
      BY <1>4, <1>b DEF Exclusive, ExecUnlinkBlob, ExecUnlinkSidecar, ExecPc
    <2>2. \A e \in Digests : e # d => PairedAt(e)
      BY <2>1, <1>c DEF Between
    <2>3. \A e \in Digests : e # d => blob'[e] = blob[e] /\ meta'[e] = meta[e]
      BY <1>4, <1>a, <1>c DEF ExecUnlinkBlob, ExecUnlinkSidecar
    <2>4. \A u \in Threads : u # t => SideFacts(u)'
      BY <2>1
    <2>5. CASE ExecUnlinkBlob(t)
      <3>1. /\ blob'[d] = "absent" /\ meta' = meta
            /\ \/ blob[d] = "absent" /\ th'[t].pc = "idle"
               \/ th'[t].pc = "gc_side" /\ th'[t].cur = d
            /\ th[t].pc = "gc_unlink"
        BY <2>5, <1>a, <1>c DEF ExecUnlinkBlob, Thread
      <3>2. blob[d] = "absent" => PairedAt(d)
        BY <2>1, <3>1, <1>c DEF Between
      <3>3. SideFacts(t)'
        BY <3>1
      <3>4. PairedAt(d)' \/ Between(t, d)'
        BY <3>1, <3>2 DEF PairedAt, Between
      <3> QED
        BY <2>2, <2>3, <2>4, <3>3, <3>4 DEF Matched, PairedAt
    <2>6. CASE ExecUnlinkSidecar(t)
      <3>1. /\ blob' = blob /\ ~meta'[d].here
            /\ th'[t].pc = "gc_next"
            /\ blob[d] = "absent"
        BY <2>6, <1>a, <1>c DEF ExecUnlinkSidecar, Thread, NoSidecar
      <3>2. SideFacts(t)' /\ PairedAt(d)'
        BY <3>1 DEF PairedAt
      <3> QED
        BY <2>2, <2>3, <2>4, <3>2 DEF Matched, PairedAt
    <2> QED
      BY <1>4, <2>5, <2>6
  <1> QED
    BY <1>1, <1>2, <1>3, <1>4 DEF Writes

\* Steps of requests keep PairInv.
LEMMA PairStep ==
  ASSUME PairInv, NEW t \in Threads, Step(t), Unupset'
  PROVE  Matched'
  <1>1. ~ImportSidecarFails(t)
    BY DEF ImportSidecarFails, Unupset
  <1>2. Unupset
    BY UpsetGrows DEF Next, PairInv, SoloInv, Unupset
  <1>3. CASE Writes(t)
    BY <1>2, <1>3, PairWrites
  <1>4. CASE ~Writes(t)
    <2>1. Matched /\ TypeInv
      BY <1>2 DEF PairInv, SoloInv
    <2>2. UNCHANGED <<blob, meta>>
      BY <1>4, DiskKept DEF disk
    <2>3. \A u \in Threads : u # t => th'[u] = th[u]
      BY <2>1, StepMoves
    <2>4. /\ SideFacts(t)'
          /\ \A d \in Digests : Between(t, d) => Between(t, d)' \/ PairedAt(d)
      BY <1>1, <1>4, <2>1, PairMoves DEF Matched
    <2>5. ASSUME NEW u \in Threads PROVE SideFacts(u)'
      <3>1. CASE u = t
        BY <3>1, <2>4
      <3>2. CASE u # t
        BY <3>2, <2>1, <2>2, <2>3 DEF Matched, SideFacts
      <3> QED
        BY <3>1, <3>2
    <2>6. ASSUME NEW d \in Digests
          PROVE  (PairedAt(d) \/ \E u \in Threads : Between(u, d))'
      <3>1. PairedAt(d) => PairedAt(d)'
        BY <2>2 DEF PairedAt
      <3>2. ASSUME NEW u \in Threads, Between(u, d)
            PROVE  PairedAt(d) \/ Between(u, d)'
        <4>1. CASE u = t
          BY <3>2, <4>1, <2>4
        <4>2. CASE u # t
          BY <3>2, <4>2, <2>3 DEF Between
        <4> QED
          BY <4>1, <4>2
      <3> QED
        BY <3>1, <3>2, <2>1 DEF Matched
    <2> QED
      BY <2>5, <2>6 DEF Matched
  <1> QED
    BY <1>3, <1>4

\* Requests begin outside the gap between a blob and its sidecar.
LEMMA PairRequest ==
  ASSUME PairInv, NEW t \in Threads, Request(t), Unupset'
  PROVE  Matched'
  <1>1. Unupset
    BY UpsetGrows DEF Next, PairInv, SoloInv, Unupset
  <1>2. Matched /\ TypeInv
    BY <1>1 DEF PairInv, SoloInv
  <1>3. /\ \A u \in Threads : u # t => th'[u] = th[u]
        /\ UNCHANGED <<blob, meta>>
        /\ th[t].pc = "idle"
        /\ th'[t].pc \in {"idle", "imp_next", "get_stat", "rep_scan", "gc_next"}
    BY <1>2, RequestMoves DEF disk, Unupset
  <1>4. ASSUME NEW u \in Threads PROVE SideFacts(u)'
    BY <1>2, <1>3 DEF Matched, SideFacts, ImportSidePc, ExecSidePc
  <1>5. ASSUME NEW d \in Digests
        PROVE  (PairedAt(d) \/ \E u \in Threads : Between(u, d))'
    <2>1. PairedAt(d) => PairedAt(d)'
      BY <1>3 DEF PairedAt
    <2>2. ASSUME NEW u \in Threads, Between(u, d) PROVE Between(u, d)'
      BY <2>2, <1>3 DEF Between, ImportSidePc, ExecSidePc
    <2> QED
      BY <2>1, <2>2, <1>2 DEF Matched
  <1> QED
    BY <1>4, <1>5 DEF Matched

\* PairInv is inductive.
LEMMA PairNext == PairInv /\ [Next]_vars => PairInv'
  <1> SUFFICES ASSUME PairInv, [Next]_vars, Unupset'
               PROVE  Matched'
    BY SoloNext DEF PairInv
  <1>a. Matched
    BY UpsetGrows DEF PairInv, SoloInv, Unupset
  <1>1. ASSUME NEW t \in Threads, Request(t) PROVE Matched'
    BY <1>1, PairRequest
  <1>2. ASSUME NEW t \in Threads, Step(t) PROVE Matched'
    BY <1>2, PairStep
  <1>3. CASE VerifyStart \/ VerifyIsFile \/ VerifyFile \/ VerifyDone \/ NextDay \/ UNCHANGED vars
    <2>1. UNCHANGED <<blob, meta, th, upset>>
      BY <1>3
         DEF VerifyStart, VerifyIsFile, VerifyFile, VerifyDone, NextDay, vars, disk, load
    <2> QED
      BY <1>a, <2>1 DEF Matched, SideFacts, PairedAt, Between
  <1>4. ASSUME NEW d \in Digests, BitRot(d) PROVE Matched'
    <2>1. /\ UNCHANGED <<meta, th>>
          /\ \A e \in Digests : blob'[e] = "absent" <=> blob[e] = "absent"
      BY <1>4 DEF BitRot, PairInv, SoloInv, TypeInv, TypeOK
    <2>2. \A t \in Threads : th[t].cur \in Digests
      BY DEF PairInv, SoloInv, TypeInv, TypeOK, Thread
    <2>4. ASSUME NEW t \in Threads PROVE SideFacts(t)'
      BY <2>1, <2>2, <1>a DEF Matched, SideFacts
    <2>5. ASSUME NEW e \in Digests
          PROVE  (PairedAt(e) \/ \E t \in Threads : Between(t, e))'
      BY <2>1, <1>a DEF Matched, PairedAt, Between
    <2> QED
      BY <2>4, <2>5 DEF Matched
  <1>5. CASE Crash
    BY <1>5 DEF Crash, Unupset
  <1> QED
    BY <1>1, <1>2, <1>3, <1>4, <1>5 DEF Next

\* When no request runs, every blob has its sidecar and every sidecar its
\* blob, unless a crash, a failed write or an overlap has been recorded: the
\* two-file updates of import_blob and gc_execute leave nothing behind.
THEOREM BlobsPaired == Spec => []PairedUnlessUpset
  <1>1. Init => PairInv
    <2> SUFFICES ASSUME Init PROVE PairInv
      OBVIOUS
    <2>1. IdleThread.pc = "idle"
      BY DEF IdleThread
    <2>2. \A t \in Threads : SideFacts(t)
      BY <2>1 DEF Init, SideFacts, ImportSidePc, ExecSidePc
    <2>3. \A d \in Digests : PairedAt(d)
      BY DEF Init, PairedAt, NoSidecar
    <2> QED
      BY <2>2, <2>3, SoloInit DEF PairInv, Matched
  <1>2. PairInv => PairedUnlessUpset
    BY DEF PairInv, Unupset, Matched, PairedUnlessUpset, Quiet, At, Paired, PairedAt,
           Between, ImportSidePc, ExecSidePc
  <1> QED
    BY <1>1, <1>2, PairNext, PTL DEF Spec

-----------------------------------------------------------------------------
(* What importing again repairs *)

\* What an import still finds of the blob it is about to count, and of those it
\* has counted.  It does not rest on a store in order: a restart or a failed
\* write may have left anything before.
RepairFacts(t) ==
    /\ th[t].pc \in ImportSidePc => blob[th[t].cur] # "absent"
    /\ th[t].pc \in {"imp_replace", "get_replace"} => th[t].got.here
    /\ th[t].pc \in ImportPc =>
         \A d \in th[t].picked : blob[d] # "absent" /\ meta[d].here
RepairInv ==
    SoloInv /\ ("overlap" \notin upset => \A t \in Threads : RepairFacts(t))

\* A step that does not write keeps what its own thread knows.
LEMMA RepairMoves ==
  ASSUME TypeInv, NEW t \in Threads, RepairFacts(t), Step(t), ~Writes(t)
  PROVE  RepairFacts(t)'
  <1> USE DEF At, Goto, Finish, RepairFacts, ImportSidePc, ImportPc
  <1>a. /\ th \in [Threads -> Thread] /\ th[t] \in Thread
        /\ IdleThread \in Thread /\ IdleThread.pc = "idle"
    BY IdleThreadType DEF TypeInv, TypeOK
  <1>b. UNCHANGED <<blob, meta>>
    BY DiskKept DEF disk
  <1>1. CASE ImportSkipsCorrupt(t)
    BY <1>1, <1>a, <1>b DEF ImportSkipsCorrupt, Thread
  <1>2. CASE ImportExists(t)
    BY <1>2, <1>a, <1>b DEF ImportExists, Thread
  <1>3. CASE ImportWriteTemp(t)
    BY <1>3, <1>a, <1>b DEF ImportWriteTemp, Thread
  <1>4. CASE ImportWriteFails(t)
    BY <1>4, <1>a, <1>b DEF ImportWriteFails, Thread
  <1>5. CASE ImportSidecarCheck(t)
    BY <1>5, <1>a, <1>b DEF ImportSidecarCheck, Thread, SidecarOf
  <1>6. CASE ImportSidecarRead(t)
    BY <1>6, <1>a, <1>b DEF ImportSidecarRead, Thread, SidecarOf
  <1>7. CASE ImportSidecarFails(t)
    BY <1>7, <1>a, <1>b DEF ImportSidecarFails, Thread
  <1>8. CASE ImportReturn(t)
    BY <1>8, <1>a, <1>b DEF ImportReturn
  <1>9. CASE PullRead(t)
    BY <1>9, <1>a, <1>b DEF PullRead, Thread, SidecarOf
  <1>10. CASE PullStat(t) \/ PullVerify(t) \/ PullStream(t) \/ PullAbort(t)
              \/ PullTouch(t) \/ PullReplaceFails(t)
    BY <1>10, <1>a, <1>b
       DEF PullStat, PullVerify, PullStream, PullAbort, PullTouch,
           PullReplaceFails, Thread
  <1>11. CASE ReportRead(t) \/ ReportPublish(t)
    <2>1. th'[t].pc \in {"idle", "rep_scan"}
      <3>1. CASE ReportRead(t)
        BY <3>1, <1>a DEF ReportRead, Thread
      <3>2. CASE ReportPublish(t)
        BY <3>2, <1>a DEF ReportPublish
      <3> QED BY <1>11, <3>1, <3>2
    <2> QED
      BY <2>1
  <1>12. CASE ExecReject(t) \/ ExecSidecarExists(t) \/ ExecReturn(t)
    BY <1>12, <1>a, <1>b
       DEF ExecReject, ExecSidecarExists, ExecReturn, Thread
  <1>13. CASE ExecExists(t)
    <2>1. th'[t].pc \in {"gc_side", "gc_unlink"}
      BY <1>13, <1>a DEF ExecExists, Thread
    <2> QED
      BY <2>1
  <1> HIDE DEF At, Goto, Finish, RepairFacts, ImportSidePc, ImportPc
  <1> QED
    BY <1>1, <1>2, <1>3, <1>4, <1>5, <1>6, <1>7, <1>8, <1>9, <1>10, <1>11,
       <1>12, <1>13
       DEF Step, ImportStep, PullStep, GcStep, Writes

\* The steps that write.
LEMMA RepairWrites ==
  ASSUME TypeInv, Exclusive, \A u \in Threads : RepairFacts(u),
         NEW t \in Threads, Step(t), Writes(t), NEW u \in Threads
  PROVE  RepairFacts(u)'
  <1>a. /\ th \in [Threads -> Thread] /\ th[t] \in Thread /\ th[u] \in Thread
        /\ th[t].cur \in Digests /\ th[u].cur \in Digests
        /\ th[u].picked \subseteq Digests /\ th[t].picked \subseteq Digests
        /\ blob \in [Digests -> {"absent"} \cup Content]
        /\ meta \in [Digests -> Sidecar]
        /\ IdleThread.pc = "idle"
    BY DEF TypeInv, TypeOK, Thread, IdleThread
  <1>b. /\ RepairFacts(t) /\ RepairFacts(u)
        /\ u # t => th'[u] = th[u]
    BY StepMoves
  <1> USE DEF At, Goto, Finish, RepairFacts, ImportSidePc
  <1>1. CASE ImportRename(t)
    <2>1. /\ th'[t].pc = "imp_side" /\ th'[t].cur = th[t].cur
          /\ th'[t].picked = th[t].picked /\ th[t].pc \in ImportPc
          /\ meta' = meta
          /\ th[t].tmp \in Content
          /\ blob' = [blob EXCEPT ![th[t].cur] = th[t].tmp]
      BY <1>1, <1>a DEF ImportRename, Thread, TypeInv, ThreadsOK, ImportPc
    <2>2. blob'[th[t].cur] # "absent"
          /\ \A d \in Digests : blob[d] # "absent" => blob'[d] # "absent"
      BY <2>1, <1>a DEF Content
    <2> QED
      BY <2>1, <2>2, <1>a, <1>b
  <1>2. CASE ImportSidecarReplace(t)
    <2>1. /\ th'[t].pc = "imp_next"
          /\ th'[t].picked = th[t].picked \cup {th[t].cur}
          /\ th[t].pc = "imp_replace" /\ blob' = blob
      BY <1>2, <1>a DEF ImportSidecarReplace, Thread
    <2>2. /\ meta'[th[t].cur].here
          /\ \A d \in Digests : meta[d].here => meta'[d].here
      BY <1>2, <2>1, <1>b, ReplaceType DEF ImportSidecarReplace
    <2> QED
      BY <2>1, <2>2, <1>a, <1>b DEF ImportPc
  <1>3. CASE PullReplace(t)
    <2>1. th'[t].pc = "idle" /\ th[t].pc = "get_replace" /\ blob' = blob
      BY <1>3, <1>a DEF PullReplace
    <2>2. \A d \in Digests : meta[d].here => meta'[d].here
      BY <1>3, <2>1, <1>b, ReplaceType DEF PullReplace
    <2> QED
      BY <2>1, <2>2, <1>a, <1>b DEF ImportPc
  <1>4. CASE ExecUnlinkBlob(t) \/ ExecUnlinkSidecar(t)
    <2>1. th[t].pc \in ExecPc
      BY <1>4 DEF ExecUnlinkBlob, ExecUnlinkSidecar, ExecPc
    <2>2. u # t => th'[u].pc = "idle"
      BY <2>1, <1>b DEF Exclusive
    <2>3. th'[t].pc \in {"idle", "gc_side", "gc_next"}
      BY <1>4, <1>a DEF ExecUnlinkBlob, ExecUnlinkSidecar, Thread
    <2> QED
      BY <2>2, <2>3 DEF ImportPc
  <1> QED
    BY <1>1, <1>2, <1>3, <1>4 DEF Writes

\* RepairInv is inductive.
LEMMA RepairNext == RepairInv /\ [Next]_vars => RepairInv'
  <1> SUFFICES ASSUME RepairInv, [Next]_vars, "overlap" \notin upset',
                      NEW u \in Threads
               PROVE  RepairFacts(u)'
    BY SoloNext DEF RepairInv
  <1>a. /\ TypeInv /\ Exclusive
        /\ \A t \in Threads : RepairFacts(t)
    BY UpsetGrows DEF RepairInv, SoloInv, Undisturbed
  <1>1. ASSUME NEW t \in Threads, Request(t) PROVE RepairFacts(u)'
    <2>1. /\ UNCHANGED <<blob, meta>>
          /\ th'[t].pc \in {"idle", "imp_next", "get_stat", "rep_scan", "gc_next"}
          /\ u # t => th'[u] = th[u]
          /\ th[t].pc = "idle"
      BY <1>a, <1>1, RequestMoves DEF disk
    <2>2. th'[t].pc = "imp_next" => th'[t].picked = {}
      BY <1>a, <1>1, <2>1, RequestLocals DEF TypeInv, TypeOK
    <2>3. CASE u = t
      BY <2>1, <2>2, <2>3 DEF RepairFacts, ImportSidePc, ImportPc
    <2>4. CASE u # t
      BY <2>1, <2>4, <1>a DEF RepairFacts
    <2> QED
      BY <2>3, <2>4
  <1>2. ASSUME NEW t \in Threads, Step(t) PROVE RepairFacts(u)'
    <2>1. CASE Writes(t)
      BY <1>a, <1>2, <2>1, RepairWrites
    <2>2. CASE ~Writes(t) /\ u = t
      BY <1>a, <1>2, <2>2, RepairMoves
    <2>3. CASE ~Writes(t) /\ u # t
      BY <1>a, <1>2, <2>3, StepMoves, DiskKept DEF RepairFacts, disk
    <2> QED
      BY <2>1, <2>2, <2>3
  <1>3. CASE VerifyStart \/ VerifyIsFile \/ VerifyFile \/ VerifyDone \/ NextDay
             \/ UNCHANGED vars
    <2>1. UNCHANGED <<blob, meta, th>>
      BY <1>3
         DEF VerifyStart, VerifyIsFile, VerifyFile, VerifyDone, NextDay, vars,
             disk
    <2> QED
      BY <2>1, <1>a DEF RepairFacts
  <1>4. ASSUME NEW d \in Digests, BitRot(d) PROVE RepairFacts(u)'
    <2>1. /\ UNCHANGED <<meta, th>>
          /\ \A e \in Digests : blob'[e] = "absent" <=> blob[e] = "absent"
      BY <1>a, <1>4 DEF BitRot, TypeInv, TypeOK
    <2>2. th[u].cur \in Digests /\ th[u].picked \subseteq Digests
      BY <1>a DEF TypeInv, TypeOK, Thread
    <2> QED
      BY <2>1, <2>2, <1>a DEF RepairFacts
  <1>5. CASE Crash
    <2>1. th'[u].pc = "idle"
      BY <1>5, IdleThreadType DEF Crash
    <2> QED
      BY <2>1 DEF RepairFacts, ImportSidePc, ImportPc
  <1> QED
    BY <1>1, <1>2, <1>3, <1>4, <1>5 DEF Next

\* import_response counts a blob as imported only when its file and its sidecar
\* are there, whatever restarts and failed writes have left behind, as long as
\* it runs beside no other import and no gc_execute.
THEOREM ImportsRepair == Spec => []ImportRepairs
  <1>1. Init => RepairInv
    <2> SUFFICES ASSUME Init PROVE RepairInv
      OBVIOUS
    <2>1. \A t \in Threads : th[t].pc = "idle"
      BY IdleThreadType DEF Init
    <2> QED
      BY <2>1, SoloInit DEF RepairInv, RepairFacts, ImportSidePc, ImportPc
  <1>2. RepairInv => ImportRepairs
    BY DEF RepairInv, RepairFacts, ImportRepairs
  <1> QED
    BY <1>1, <1>2, RepairNext, PTL DEF Spec

-----------------------------------------------------------------------------
(* BlobStore implements ContentStore: every step of a thread is one of the
   store's promised steps, or changes nothing a user of the store sees.    *)

\* A temp file holds fewer bytes than it should only if os.write may write
\* fewer than it is given.
TearInv == \A t \in Threads : th[t].tmp = "torn" => "short_write" \in Faults

RefinementInv == GcInv /\ TearInv

\* Steps of requests keep TearInv: only os.write gives a temp file its content.
LEMMA TearStep ==
    ASSUME TypeInv, TearInv, NEW t \in Threads, Step(t)
    PROVE  TearInv'
<1> USE DEF TearInv, Goto, Finish
<1>a. th \in [Threads -> Thread] /\ th[t] \in Thread /\ IdleThread.tmp = "none"
  BY DEF TypeInv, TypeOK, IdleThread
<1>1. CASE ImportSkipsCorrupt(t)
  BY <1>1, <1>a DEF ImportSkipsCorrupt, Thread
<1>2. CASE ImportExists(t)
  BY <1>2, <1>a DEF ImportExists, Thread
<1>3. CASE ImportWriteTemp(t)
  BY <1>3, <1>a DEF ImportWriteTemp, Thread
<1>4. CASE ImportWriteFails(t)
  BY <1>4, <1>a DEF ImportWriteFails, Thread
<1>5. CASE ImportRename(t)
  BY <1>5, <1>a DEF ImportRename, Thread
<1>6. CASE ImportSidecarCheck(t)
  BY <1>6, <1>a DEF ImportSidecarCheck, Thread
<1>7. CASE ImportSidecarRead(t)
  BY <1>7, <1>a DEF ImportSidecarRead, Thread
<1>8. CASE ImportSidecarReplace(t)
  BY <1>8, <1>a DEF ImportSidecarReplace, Thread
<1>9. CASE ImportSidecarFails(t)
  BY <1>9, <1>a DEF ImportSidecarFails, Thread
<1>10. CASE ImportReturn(t)
  BY <1>10, <1>a DEF ImportReturn, Thread
<1>11. CASE PullStat(t)
  BY <1>11, <1>a DEF PullStat, Thread
<1>12. CASE PullVerify(t)
  BY <1>12, <1>a DEF PullVerify, Thread
<1>13. CASE PullStream(t)
  BY <1>13, <1>a DEF PullStream, Thread
<1>14. CASE PullAbort(t)
  BY <1>14, <1>a DEF PullAbort, Thread
<1>15. CASE PullTouch(t)
  BY <1>15, <1>a DEF PullTouch, Thread
<1>16. CASE PullRead(t)
  BY <1>16, <1>a DEF PullRead, Thread
<1>17. CASE PullReplace(t)
  BY <1>17, <1>a DEF PullReplace, Thread
<1>18. CASE PullReplaceFails(t)
  BY <1>18, <1>a DEF PullReplaceFails, Thread
<1>19. CASE ReportRead(t)
  BY <1>19, <1>a DEF ReportRead, Thread
<1>20. CASE ReportPublish(t)
  BY <1>20, <1>a DEF ReportPublish, Thread
<1>21. CASE ExecReject(t)
  BY <1>21, <1>a DEF ExecReject, Thread
<1>22. CASE ExecExists(t)
  BY <1>22, <1>a DEF ExecExists, Thread
<1>23. CASE ExecUnlinkBlob(t)
  BY <1>23, <1>a DEF ExecUnlinkBlob, Thread
<1>24. CASE ExecSidecarExists(t)
  BY <1>24, <1>a DEF ExecSidecarExists, Thread
<1>25. CASE ExecUnlinkSidecar(t)
  BY <1>25, <1>a DEF ExecUnlinkSidecar, Thread
<1>26. CASE ExecReturn(t)
  BY <1>26, <1>a DEF ExecReturn, Thread
<1> QED
  BY <1>1, <1>2, <1>3, <1>4, <1>5, <1>6, <1>7, <1>8, <1>9, <1>10, <1>11,
     <1>12, <1>13, <1>14, <1>15, <1>16, <1>17, <1>18, <1>19, <1>20,
     <1>21, <1>22, <1>23, <1>24, <1>25, <1>26
  DEF Step, ImportStep, PullStep, GcStep

\* The invariant of the refinement is inductive.
LEMMA RefinementInvNext == RefinementInv /\ [Next]_vars => RefinementInv'
<1> SUFFICES ASSUME RefinementInv, [Next]_vars PROVE TearInv'
  BY GcInvNext DEF RefinementInv
<1>0. TypeInv /\ TearInv /\ th \in [Threads -> Thread]
  BY DEF RefinementInv, GcInv, TypeInv, TypeOK
<1>1. ASSUME NEW t \in Threads, Request(t) PROVE TearInv'
  BY <1>0, <1>1, RequestLocals DEF TearInv
<1>2. ASSUME NEW t \in Threads, Step(t) PROVE TearInv'
  BY <1>0, <1>2, TearStep
<1>3. CASE \/ VerifyStart \/ VerifyIsFile \/ VerifyFile \/ VerifyDone \/ NextDay
           \/ (\E d \in Digests : BitRot(d)) \/ UNCHANGED vars
  <2>1. UNCHANGED th
    BY <1>3 DEF VerifyStart, VerifyIsFile, VerifyFile, VerifyDone, NextDay, BitRot, vars
  <2> QED BY <1>0, <2>1 DEF TearInv
<1>4. CASE Crash
  BY <1>4 DEF Crash, TearInv, IdleThread
<1> QED BY <1>1, <1>2, <1>3, <1>4 DEF Next

-----------------------------------------------------------------------------
(* The steps a user of the store sees *)

\* os.rename puts a blob in place.
LEMMA RenameIsPut ==
    ASSUME RefinementInv, NEW t \in Threads, ImportRename(t)
    PROVE  \E d \in Digests : Promise!Put(d)
<1>1. th[t] \in Thread /\ th[t].tmp \in Content
  BY DEF ImportRename, At, RefinementInv, GcInv, TypeInv, ThreadsOK
<1>2. th[t].cur \in Digests
  BY <1>1 DEF Thread
<1>3. th[t].tmp = "torn" => "short_write" \in Faults
  BY DEF RefinementInv, TearInv
<1>4. Promise!Put(th[t].cur)
  BY <1>1, <1>3 DEF ImportRename, Promise!Put, Content, memory
<1> QED BY <1>2, <1>4

\* Streaming sends what the file holds at that moment.
LEMMA StreamIsServe ==
    ASSUME RefinementInv, NEW t \in Threads, PullStream(t)
    PROVE  \/ \E d \in Digests : Promise!Serve(d)
           \/ UNCHANGED <<blob, reported, served>>
<1>1. th[t] \in Thread
  BY DEF RefinementInv, GcInv, TypeInv, TypeOK
<1>2. th[t].cur \in Digests
  BY <1>1 DEF Thread
<1>3. CASE blob[th[t].cur] = "absent"
  BY <1>3 DEF PullStream, disk, memory
<1>4. CASE blob[th[t].cur] # "absent"
  BY <1>2, <1>4 DEF PullStream, Promise!Serve, disk, memory
<1> QED BY <1>3, <1>4

\* Publishing a report marks its digests.
LEMMA PublishIsMark ==
    ASSUME RefinementInv, NEW t \in Threads, ReportPublish(t)
    PROVE  \E S \in SUBSET Digests : Promise!Mark(S)
<1>1. th[t] \in Thread
  BY DEF RefinementInv, GcInv, TypeInv, TypeOK
<1>2. th[t].picked \in SUBSET Digests
  BY <1>1 DEF Thread
<1>3. Promise!Mark(th[t].picked)
  BY DEF ReportPublish, Promise!Mark, disk
<1> QED BY <1>2, <1>3

\* unlink removes a blob that was reported.
LEMMA UnlinkIsRemove ==
    ASSUME RefinementInv, NEW t \in Threads, ExecUnlinkBlob(t)
    PROVE  \/ \E d \in Digests : Promise!Remove(d)
           \/ UNCHANGED <<blob, reported, served>>
<1>1. th[t] \in Thread
  BY DEF RefinementInv, GcInv, TypeInv, TypeOK
<1>2. th[t].cur \in Digests
  BY <1>1 DEF Thread
<1>3. th[t].cur \in reported
  BY DEF ExecUnlinkBlob, At, RefinementInv, GcInv, ExecPc
<1>4. CASE blob[th[t].cur] = "absent"
  BY <1>4 DEF ExecUnlinkBlob, memory
<1>5. CASE blob[th[t].cur] # "absent"
  BY <1>2, <1>3, <1>5 DEF ExecUnlinkBlob, Promise!Remove, memory
<1> QED BY <1>4, <1>5

\* Every step is a promised step or is invisible.
LEMMA PromisedStep ==
    ASSUME RefinementInv, [Next]_vars
    PROVE  Promise!Next \/ UNCHANGED <<blob, reported, served>>
<1>1. ASSUME NEW t \in Threads, Step(t)
      PROVE  Promise!Next \/ UNCHANGED <<blob, reported, served>>
  <2>1. CASE ImportRename(t) \/ PullStream(t) \/ ReportPublish(t)
             \/ ExecUnlinkBlob(t)
    BY <2>1, RenameIsPut, StreamIsServe, PublishIsMark, UnlinkIsRemove
    DEF Promise!Next
  <2>2. CASE ~ (ImportRename(t) \/ PullStream(t) \/ ReportPublish(t)
                \/ ExecUnlinkBlob(t))
    BY <1>1, <2>2
    DEF  Step, ImportStep, PullStep, GcStep, disk, memory,
         ImportSkipsCorrupt, ImportExists, ImportWriteTemp,
         ImportWriteFails, ImportSidecarCheck, ImportSidecarRead,
         ImportSidecarReplace, ImportSidecarFails, ImportReturn,
         PullStat, PullVerify, PullAbort, PullTouch, PullRead,
         PullReplace, PullReplaceFails, ReportRead, ExecReject,
         ExecExists, ExecSidecarExists, ExecUnlinkSidecar, ExecReturn
  <2> QED BY <2>1, <2>2
<1>2. CASE \/ (\E t \in Threads : Request(t)) \/ VerifyStart \/ VerifyIsFile
           \/ VerifyFile \/ VerifyDone \/ NextDay \/ UNCHANGED vars
  BY <1>2 DEF Request, ImportStart, PullStart, ReportStart, ExecStart, VerifyStart,
              VerifyIsFile, VerifyFile, VerifyDone, NextDay, vars, disk, memory
<1>3. ASSUME NEW d \in Digests, BitRot(d) PROVE Promise!Next
  <2>1. Promise!Decay(d)
    BY <1>3 DEF BitRot, Promise!Decay, memory
  <2> QED BY <2>1 DEF Promise!Next
<1>4. CASE Crash
  <2>1. Promise!Restart
    BY <1>4 DEF Crash, Promise!Restart
  <2> QED BY <2>1 DEF Promise!Next
<1> QED BY <1>1, <1>2, <1>3, <1>4 DEF Next

\* The store keeps its promise for any number of digests, threads, requests
\* and faults: its threads together implement ContentStore.
THEOREM StoreImplementsPromise == Spec => KeepsPromise
<1>1. Init => RefinementInv
  <2> SUFFICES ASSUME Init PROVE RefinementInv
    OBVIOUS
  <2>1. IdleThread.pc = "idle" /\ IdleThread.tmp = "none"
    BY DEF IdleThread
  <2> QED BY <2>1, TypeInit
       DEF Init, RefinementInv, GcInv, TearInv, NoReport, ExecPc
<1>2. Init => Promise!Init
  BY DEF Init, Promise!Init
<1>3. RefinementInv /\ [Next]_vars => [Promise!Next]_(Promise!vars)
  BY PromisedStep DEF Promise!vars
<1> QED BY <1>1, <1>2, <1>3, RefinementInvNext, PTL
     DEF Spec, KeepsPromise, Promise!Spec
=============================================================================
