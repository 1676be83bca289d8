---------------------------- MODULE AnalysisSlot ----------------------------
(***************************************************************************)
(* The one analysis the daemon remembers between POST /admin/analyze and   *)
(* POST /admin/generate-manifest (server._last_analysis, guarded by        *)
(* server._analysis_lock), as worker threads of src/buncker/handler.py use *)
(* it for several clients at the same time.                                *)
(*                                                                         *)
(* The lock is taken three times: to store a result, to read the slot and  *)
(* compare the analysis id, and to clear the slot after the transfer       *)
(* request has been built.  Each is a step; what happens between them      *)
(* (resolving, building, encrypting) runs outside the lock.                *)
(*                                                                         *)
(* An analysis is its id (a uuid: every analysis has another one) and      *)
(* whether there is anything to request.  Which images and blobs the       *)
(* request lists is not modelled here.                                     *)
(***************************************************************************)
EXTENDS Integers, Sequences

CONSTANTS
    Threads,        \* worker threads of the server's pool
    MaxAnalyses,    \* bound: analyses the clients ask for
    MaxGenerates    \* bound: transfer requests the clients ask for

ASSUME BoundsAssumption == MaxAnalyses \in Nat /\ MaxGenerates \in Nat

VARIABLES
    slot,       \* server._last_analysis
    th,         \* the worker threads and their locals
    made,       \* number of analyses made so far; the next id is made + 1
    asked,      \* number of generate requests so far
    order,      \* history: ids in the order they were stored
    answers     \* history: answers to generate requests

vars == <<slot, th, made, asked, order, answers>>

-----------------------------------------------------------------------------
Ids == 1 .. MaxAnalyses
Analysis == [id : Ids, work : BOOLEAN]
NoAnalysis == [id |-> 0, work |-> FALSE]
Slot == Analysis \cup {NoAnalysis}

Codes == {"OK", "NO_ANALYSIS", "ANALYSIS_REPLACED", "NO_MISSING"}

\* A thread's locals: the analysis_id of the request body and the analysis it
\* made (analyze) or read from the slot (generate-manifest).
Thread == [pc : {"idle", "store", "check", "build", "clear"},
           want : Ids \cup {0},
           analysis : Slot]
IdleThread == [pc |-> "idle", want |-> 0, analysis |-> NoAnalysis]

\* The answer to a generate request for id want; latest says whether want was
\* the last analysis stored by then, from which analysis an OK answer was
\* built.
Answer == [want : Ids \cup {0}, code : Codes, from : Ids \cup {0},
           latest : BOOLEAN]

TypeOK ==
    /\ slot \in Slot
    /\ th \in [Threads -> Thread]
    /\ made \in 0 .. MaxAnalyses
    /\ asked \in Nat
    /\ order \in Seq(Ids)
    /\ answers \subseteq Answer

Init ==
    /\ slot = NoAnalysis
    /\ th = [t \in Threads |-> IdleThread]
    /\ made = 0
    /\ asked = 0
    /\ order = <<>>
    /\ answers = {}

Stored == {order[k] : k \in 1 .. Len(order)}
IsLatest(i) == order # <<>> /\ order[Len(order)] = i

Reply(t, code, from) ==
    answers' = answers \cup {[want |-> th[t].want, code |-> code, from |-> from,
                              latest |-> IsLatest(th[t].want)]}

-----------------------------------------------------------------------------
(* POST /admin/analyze *)

\* Mutant: the first analysis has the id that means none.
Analyze_FromZero(t, work) ==
    /\ th[t].pc = "idle"
    /\ made < MaxAnalyses
    /\ made' = made + 1
    /\ th' = [th EXCEPT ![t] = [pc |-> "store", want |-> 0,
                                analysis |-> [id |-> made, work |-> work]]]
    /\ UNCHANGED <<slot, asked, order, answers>>

\* The Dockerfile or Compose file is resolved.  A body, path or resolver error
\* is answered at once and changes nothing, so it is no step.
Analyze(t, work) ==
    /\ th[t].pc = "idle"
    /\ made < MaxAnalyses
    /\ made' = made + 1
    /\ th' = [th EXCEPT ![t] = [pc |-> "store", want |-> 0,
                                analysis |-> [id |-> made + 1, work |-> work]]]
    /\ UNCHANGED <<slot, asked, order, answers>>

\* Mutant: an analysis that is still pending is kept.
StoreAnalysis_KeepsFirst(t) ==
    /\ th[t].pc = "store"
    /\ slot' = IF slot = NoAnalysis THEN th[t].analysis ELSE slot
    /\ order' = Append(order, th[t].analysis.id)
    /\ th' = [th EXCEPT ![t] = IdleThread]
    /\ UNCHANGED <<made, asked, answers>>

\* The result replaces whatever is in the slot, and its id goes to the client.
StoreAnalysis(t) ==
    /\ th[t].pc = "store"
    /\ slot' = th[t].analysis
    /\ order' = Append(order, th[t].analysis.id)
    /\ th' = [th EXCEPT ![t] = IdleThread]
    /\ UNCHANGED <<made, asked, answers>>

-----------------------------------------------------------------------------
(* POST /admin/generate-manifest *)

\* A client sends an id an analyze response gave it.
Generate(t, i) ==
    /\ th[t].pc = "idle"
    /\ asked < MaxGenerates
    /\ i \in Stored
    /\ asked' = asked + 1
    /\ th' = [th EXCEPT ![t] = [pc |-> "check", want |-> i,
                                analysis |-> NoAnalysis]]
    /\ UNCHANGED <<slot, made, order, answers>>

\* Under the lock the slot is read and its id compared with the request's.
CheckId(t) ==
    /\ th[t].pc = "check"
    /\ IF slot.id = th[t].want
         THEN /\ th' = [th EXCEPT ![t].pc = "build", ![t].analysis = slot]
              /\ UNCHANGED answers
         ELSE /\ Reply(t, IF slot = NoAnalysis THEN "NO_ANALYSIS"
                                               ELSE "ANALYSIS_REPLACED", 0)
              /\ th' = [th EXCEPT ![t] = IdleThread]
    /\ UNCHANGED <<slot, made, asked, order>>

\* Mutant: the slot is read again to build the request.
Build_Rereads(t) ==
    /\ th[t].pc = "build"
    /\ IF slot.work
         THEN /\ th' = [th EXCEPT ![t].pc = "clear", ![t].analysis = slot]
              /\ UNCHANGED answers
         ELSE /\ Reply(t, "NO_MISSING", 0)
              /\ th' = [th EXCEPT ![t] = IdleThread]
    /\ UNCHANGED <<slot, made, asked, order>>

\* The request is put together from the analysis that was read, signed and
\* encrypted.  With no missing blobs and no external images it is refused, and
\* the analysis stays in the slot.
Build(t) ==
    /\ th[t].pc = "build"
    /\ IF th[t].analysis.work
         THEN /\ th' = [th EXCEPT ![t].pc = "clear"]
              /\ UNCHANGED answers
         ELSE /\ Reply(t, "NO_MISSING", 0)
              /\ th' = [th EXCEPT ![t] = IdleThread]
    /\ UNCHANGED <<slot, made, asked, order>>

\* The slot is cleared, whatever it holds by now, and the handler returns: the
\* response it has buffered is sent.
Clear(t) ==
    /\ th[t].pc = "clear"
    /\ slot' = NoAnalysis
    /\ Reply(t, "OK", th[t].analysis.id)
    /\ th' = [th EXCEPT ![t] = IdleThread]
    /\ UNCHANGED <<made, asked, order>>

-----------------------------------------------------------------------------
Step(t) == StoreAnalysis(t) \/ CheckId(t) \/ Build(t) \/ Clear(t)

Next == \E t \in Threads :
           \/ \E work \in BOOLEAN : Analyze(t, work)
           \/ \E i \in Ids : Generate(t, i)
           \/ Step(t)

Spec == Init /\ [][Next]_vars

-----------------------------------------------------------------------------
(* Properties *)

\* A transfer request is built from the analysis its client asked for, even
\* when other clients replace the slot while it is being built.
RequestAsAsked == \A a \in answers : a.code = "OK" => a.from = a.want

\* ANALYSIS_REPLACED tells the truth: another analysis was stored after the
\* one the client asks for, so re-running /admin/analyze is what helps.
ReplacedTruthful ==
    \A a \in answers : a.code = "ANALYSIS_REPLACED" => ~a.latest

\* An analysis that nobody replaced and from which no request has been built
\* is pending: its client is not told "no analysis pending".
LatestIsPending ==
    \A a \in answers :
       a.code = "NO_ANALYSIS" /\ a.latest
         => \E b \in answers : b.code = "OK" /\ b.from = a.want
=============================================================================
