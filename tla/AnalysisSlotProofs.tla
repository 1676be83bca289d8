------------------------- MODULE AnalysisSlotProofs -------------------------
(***************************************************************************)
(* RequestAsAsked for any number of threads, analyses and requests.  The   *)
(* inductive invariant says that from the check of the id to the answer a  *)
(* thread's analysis is the one its client asked for: it was copied under  *)
(* the same lock as the id was compared.                                   *)
(***************************************************************************)
EXTENDS AnalysisSlot, TLAPS

\* A thread that builds or answers works on the analysis it was asked for.
Bound == \A t \in Threads :
            th[t].pc \in {"build", "clear"} => th[t].analysis.id = th[t].want
AskedInv == th \in [Threads -> Thread] /\ slot \in Slot /\ Bound /\ RequestAsAsked

\* Locals of a new request are well typed.
LEMMA IdleThreadType == IdleThread \in Thread /\ IdleThread.pc = "idle"
  BY DEF IdleThread, Thread, Slot

\* /admin/analyze keeps the invariant: the ids it makes are in Ids.
LEMMA AnalyzeKeeps ==
  ASSUME AskedInv, made \in 0 .. MaxAnalyses, NEW t \in Threads,
         (\E work \in BOOLEAN : Analyze(t, work)) \/ StoreAnalysis(t)
  PROVE  AskedInv'
  <1>1. CASE \E work \in BOOLEAN : Analyze(t, work)
    <2>1. PICK work \in BOOLEAN : Analyze(t, work)
      BY <1>1
    <2> DEFINE a == [id |-> made + 1, work |-> work]
               r == [pc |-> "store", want |-> 0, analysis |-> a]
    <2>2. made + 1 \in Ids
      BY <2>1, BoundsAssumption DEF Analyze, Ids
    <2>3. r \in Thread /\ r.pc = "store"
      BY <2>2 DEF Thread, Slot, Analysis
    <2>4. th' = [th EXCEPT ![t] = r]
      BY <2>1 DEF Analyze
    <2> HIDE DEF r
    <2> QED
      BY <2>1, <2>3, <2>4 DEF Analyze, AskedInv, Bound, RequestAsAsked
  <1>2. CASE StoreAnalysis(t)
    <2>1. th[t].analysis \in Slot
      BY DEF AskedInv, Thread
    <2> QED
      BY <1>2, <2>1, IdleThreadType
         DEF StoreAnalysis, AskedInv, Bound, RequestAsAsked
  <1> QED
    BY <1>1, <1>2

\* /admin/generate-manifest keeps the invariant.
LEMMA GenerateKeeps ==
  ASSUME AskedInv, NEW t \in Threads,
         \/ \E i \in Ids : Generate(t, i)
         \/ CheckId(t) \/ Build(t) \/ Clear(t)
  PROVE  AskedInv'
  <1>a. th \in [Threads -> Thread] /\ th[t] \in Thread
    BY DEF AskedInv
  <1>1. CASE \E i \in Ids : Generate(t, i)
    <2>1. PICK i \in Ids : Generate(t, i)
      BY <1>1
    <2> DEFINE r == [pc |-> "check", want |-> i, analysis |-> NoAnalysis]
    <2>2. r \in Thread /\ r.pc = "check"
      BY DEF Thread, Slot
    <2>3. th' = [th EXCEPT ![t] = r]
      BY <2>1 DEF Generate
    <2> HIDE DEF r
    <2> QED
      BY <2>1, <2>2, <2>3 DEF Generate, AskedInv, Bound, RequestAsAsked
  <1>2. CASE CheckId(t)
    <2>1. CASE slot.id = th[t].want
      <3> DEFINE r == [th[t] EXCEPT !.pc = "build", !.analysis = slot]
      <3>1. r \in Thread /\ r.analysis.id = r.want
        BY <1>a, <2>1 DEF Thread, AskedInv
      <3>2. th' = [th EXCEPT ![t] = r]
        BY <1>2, <2>1 DEF CheckId
      <3> HIDE DEF r
      <3> QED
        BY <1>2, <1>a, <2>1, <3>1, <3>2
           DEF CheckId, AskedInv, Bound, RequestAsAsked
    <2>2. CASE slot.id # th[t].want
      <3>1. PICK code \in {"NO_ANALYSIS", "ANALYSIS_REPLACED"} : Reply(t, code, 0)
        BY <1>2, <2>2 DEF CheckId
      <3>2. RequestAsAsked'
        BY <3>1 DEF Reply, AskedInv, RequestAsAsked
      <3> QED
        BY <1>2, <1>a, <2>2, <3>2, IdleThreadType DEF CheckId, AskedInv, Bound
    <2> QED
      BY <2>1, <2>2
  <1>3. CASE Build(t)
    <2>1. CASE th[t].analysis.work
      <3> DEFINE r == [th[t] EXCEPT !.pc = "clear"]
      <3>1. r \in Thread /\ r.analysis.id = r.want
        BY <1>3, <1>a DEF Build, Thread, AskedInv, Bound
      <3>2. th' = [th EXCEPT ![t] = r]
        BY <1>3, <2>1 DEF Build
      <3> HIDE DEF r
      <3> QED
        BY <1>3, <1>a, <2>1, <3>1, <3>2 DEF Build, AskedInv, Bound, RequestAsAsked
    <2>2. CASE ~th[t].analysis.work
      BY <1>3, <1>a, <2>2, IdleThreadType
         DEF Build, Reply, AskedInv, Bound, RequestAsAsked
    <2> QED
      BY <2>1, <2>2
  <1>4. CASE Clear(t)
    <2>1. RequestAsAsked'
      BY <1>4, <1>a DEF Clear, Reply, AskedInv, Bound, RequestAsAsked
    <2> QED
      BY <1>4, <1>a, <2>1, IdleThreadType DEF Clear, AskedInv, Bound, Slot
  <1> QED
    BY <1>1, <1>2, <1>3, <1>4

\* Every transfer request is built from the analysis whose id the client sent,
\* whatever the other threads do to _last_analysis meanwhile.
THEOREM RequestsAsAsked == Spec => []RequestAsAsked
  <1> DEFINE Inv == AskedInv /\ made \in 0 .. MaxAnalyses
  <1>1. Init => Inv
    <2> SUFFICES ASSUME Init PROVE Inv
      OBVIOUS
    <2>1. made \in 0 .. MaxAnalyses
      BY BoundsAssumption DEF Init
    <2> QED
      BY <2>1, IdleThreadType DEF Init, AskedInv, Bound, RequestAsAsked, Slot
  <1>2. Inv /\ [Next]_vars => Inv'
    <2> SUFFICES ASSUME Inv, [Next]_vars PROVE Inv'
      OBVIOUS
    <2>1. made' \in 0 .. MaxAnalyses
      <3>1. made' = made \/ (made < MaxAnalyses /\ made' = made + 1)
        BY DEF Next, Step, Analyze, StoreAnalysis, Generate, CheckId, Build,
               Clear, vars
      <3> QED
        BY <3>1, BoundsAssumption
    <2>2. CASE UNCHANGED vars
      BY <2>1, <2>2 DEF vars, AskedInv, Bound, RequestAsAsked
    <2>3. ASSUME NEW t \in Threads,
                 \/ \E work \in BOOLEAN : Analyze(t, work)
                 \/ \E i \in Ids : Generate(t, i)
                 \/ Step(t)
          PROVE  Inv'
      BY <2>1, <2>3, AnalyzeKeeps, GenerateKeeps DEF Step
    <2> QED
      BY <2>2, <2>3 DEF Next
  <1>3. Inv => RequestAsAsked
    BY DEF AskedInv
  <1> QED
    BY <1>1, <1>2, <1>3, PTL DEF Spec

-----------------------------------------------------------------------------
(* ANALYSIS_REPLACED.  Clearing the slot and storing into it are the only
   writes, and each store is recorded under the same lock: so the slot is
   empty or holds the analysis that was stored last.                        *)

SlotIsLatest == slot = NoAnalysis \/ IsLatest(slot.id)

\* A thread about to store has made an analysis.
Made == \A t \in Threads : th[t].pc = "store" => th[t].analysis \in Analysis
ThreadsOK == th \in [Threads -> Thread] /\ Made
ReplacedInv == TypeOK /\ Made /\ SlotIsLatest /\ ReplacedTruthful

\* Every answer is an answer.
LEMMA ReplyType ==
  ASSUME TypeOK, NEW t \in Threads, NEW code \in Codes, NEW from \in Ids \cup {0},
         Reply(t, code, from)
  PROVE  answers' \subseteq Answer
  <1>1. th[t].want \in Ids \cup {0}
    BY DEF TypeOK, Thread
  <1>2. IsLatest(th[t].want) \in BOOLEAN
    BY DEF IsLatest
  <1> QED
    BY <1>1, <1>2 DEF Reply, TypeOK, Answer

\* A thread gets new locals.
LEMMA LocalsKeep ==
  ASSUME ThreadsOK, NEW t \in Threads, NEW r \in Thread,
         r.pc = "store" => r.analysis \in Analysis, th' = [th EXCEPT ![t] = r]
  PROVE  ThreadsOK'
  BY DEF ThreadsOK, Made

\* What a step that leaves the slot and the order of the analyses alone must
\* show.
LEMMA SlotKept ==
  ASSUME ReplacedInv, UNCHANGED <<slot, order>>, ThreadsOK',
         made' \in 0 .. MaxAnalyses, asked' \in Nat, answers' \subseteq Answer,
         ReplacedTruthful'
  PROVE  ReplacedInv'
  BY DEF ReplacedInv, ThreadsOK, TypeOK, SlotIsLatest, IsLatest

\* /admin/analyze keeps the slot and the order of the analyses together.
LEMMA AnalyzeReplaces ==
  ASSUME ReplacedInv, NEW t \in Threads,
         (\E work \in BOOLEAN : Analyze(t, work)) \/ StoreAnalysis(t)
  PROVE  ReplacedInv'
  <1>t. TypeOK /\ ThreadsOK
    BY DEF ReplacedInv, ThreadsOK, TypeOK
  <1>1. ASSUME NEW work \in BOOLEAN, Analyze(t, work) PROVE ReplacedInv'
    <2> DEFINE a == [id |-> made + 1, work |-> work]
               r == [pc |-> "store", want |-> 0, analysis |-> a]
    <2>1. made + 1 \in Ids /\ made' = made + 1 /\ made' \in 0 .. MaxAnalyses
      BY <1>1, <1>t, BoundsAssumption DEF Analyze, TypeOK, Ids
    <2>2. r \in Thread /\ r.analysis \in Analysis
      BY <2>1 DEF Thread, Slot, Analysis
    <2>3. th' = [th EXCEPT ![t] = r]
      BY <1>1 DEF Analyze
    <2> HIDE DEF r
    <2>4. ThreadsOK'
      BY <2>2, <2>3, <1>t, LocalsKeep
    <2> QED
      BY <1>1, <1>t, <2>1, <2>4, SlotKept
         DEF Analyze, TypeOK, ReplacedInv, ReplacedTruthful
  <1>2. CASE StoreAnalysis(t)
    <2>1. th[t].analysis \in Analysis
      BY <1>2, <1>t DEF StoreAnalysis, ThreadsOK, Made
    <2>2. th[t].analysis.id \in Ids /\ th[t].analysis \in Slot
      BY <2>1 DEF Analysis, Slot
    <2>3. /\ order' \in Seq(Ids) /\ order' # <<>>
          /\ order'[Len(order')] = th[t].analysis.id
      BY <1>2, <1>t, <2>2 DEF StoreAnalysis, TypeOK
    <2>4. ThreadsOK'
      BY <1>2, <1>t, IdleThreadType, LocalsKeep DEF StoreAnalysis
    <2> QED
      BY <1>2, <1>t, <2>2, <2>3, <2>4
         DEF StoreAnalysis, ReplacedInv, ThreadsOK, TypeOK, SlotIsLatest,
             IsLatest, ReplacedTruthful
  <1> QED
    BY <1>1, <1>2

\* So does /admin/generate-manifest; it says ANALYSIS_REPLACED only when the
\* slot holds another analysis, which then is the latest.
LEMMA GenerateReplaces ==
  ASSUME ReplacedInv, NEW t \in Threads,
         \/ \E i \in Ids : Generate(t, i)
         \/ CheckId(t) \/ Build(t) \/ Clear(t)
  PROVE  ReplacedInv'
  <1>t. TypeOK /\ ThreadsOK /\ th[t] \in Thread
    BY DEF ReplacedInv, ThreadsOK, TypeOK
  <1>1. ASSUME NEW i \in Ids, Generate(t, i) PROVE ReplacedInv'
    <2> DEFINE r == [pc |-> "check", want |-> i, analysis |-> NoAnalysis]
    <2>1. r \in Thread /\ r.pc = "check"
      BY DEF Thread, Slot
    <2>2. th' = [th EXCEPT ![t] = r]
      BY <1>1 DEF Generate
    <2> HIDE DEF r
    <2>3. ThreadsOK'
      BY <2>1, <2>2, <1>t, LocalsKeep
    <2> QED
      BY <1>1, <1>t, <2>3, SlotKept
         DEF Generate, TypeOK, ReplacedInv, ReplacedTruthful
  <1>2. CASE CheckId(t)
    <2>1. CASE slot.id = th[t].want
      <3> DEFINE r == [th[t] EXCEPT !.pc = "build", !.analysis = slot]
      <3>1. r \in Thread /\ r.pc = "build"
        BY <1>t DEF Thread, TypeOK
      <3>2. th' = [th EXCEPT ![t] = r]
        BY <1>2, <2>1 DEF CheckId
      <3> HIDE DEF r
      <3>3. ThreadsOK'
        BY <3>1, <3>2, <1>t, LocalsKeep
      <3> QED
        BY <1>2, <1>t, <2>1, <3>3, SlotKept
           DEF CheckId, TypeOK, ReplacedInv, ReplacedTruthful
    <2>2. CASE slot.id # th[t].want
      <3> DEFINE code == IF slot = NoAnalysis THEN "NO_ANALYSIS"
                                              ELSE "ANALYSIS_REPLACED"
      <3>1. Reply(t, code, 0) /\ code \in Codes
        BY <1>2, <2>2 DEF CheckId, Codes
      <3>2. answers' \subseteq Answer
        BY <1>t, <3>1, ReplyType
      <3>3. slot # NoAnalysis => ~IsLatest(th[t].want)
        BY <2>2 DEF ReplacedInv, SlotIsLatest, IsLatest
      <3>4. ReplacedTruthful'
        BY <3>1, <3>3 DEF Reply, ReplacedInv, ReplacedTruthful
      <3>5. ThreadsOK'
        BY <1>2, <1>t, <2>2, IdleThreadType, LocalsKeep DEF CheckId
      <3> QED
        BY <1>2, <1>t, <3>2, <3>4, <3>5, SlotKept DEF CheckId, TypeOK
    <2> QED
      BY <2>1, <2>2
  <1>3. CASE Build(t)
    <2>1. CASE th[t].analysis.work
      <3> DEFINE r == [th[t] EXCEPT !.pc = "clear"]
      <3>1. r \in Thread /\ r.pc = "clear"
        BY <1>t DEF Thread
      <3>2. th' = [th EXCEPT ![t] = r]
        BY <1>3, <2>1 DEF Build
      <3> HIDE DEF r
      <3>3. ThreadsOK'
        BY <3>1, <3>2, <1>t, LocalsKeep
      <3> QED
        BY <1>3, <1>t, <2>1, <3>3, SlotKept
           DEF Build, TypeOK, ReplacedInv, ReplacedTruthful
    <2>2. CASE ~th[t].analysis.work
      <3>1. Reply(t, "NO_MISSING", 0)
        BY <1>3, <2>2 DEF Build
      <3>2. answers' \subseteq Answer
        BY <1>t, <3>1, ReplyType DEF Codes
      <3>3. ReplacedTruthful'
        BY <3>1 DEF Reply, ReplacedInv, ReplacedTruthful
      <3>4. ThreadsOK'
        BY <1>3, <1>t, <2>2, IdleThreadType, LocalsKeep DEF Build
      <3> QED
        BY <1>3, <1>t, <3>2, <3>3, <3>4, SlotKept DEF Build, TypeOK
    <2> QED
      BY <2>1, <2>2
  <1>4. CASE Clear(t)
    <2>1. Reply(t, "OK", th[t].analysis.id)
      BY <1>4 DEF Clear
    <2>2. th[t].analysis.id \in Ids \cup {0}
      BY <1>t DEF Thread, Slot, Analysis, NoAnalysis
    <2>3. answers' \subseteq Answer
      BY <1>t, <2>1, <2>2, ReplyType DEF Codes
    <2>4. ReplacedTruthful'
      BY <2>1 DEF Reply, ReplacedInv, ReplacedTruthful
    <2>5. ThreadsOK'
      BY <1>4, <1>t, IdleThreadType, LocalsKeep DEF Clear
    <2> QED
      BY <1>4, <1>t, <2>3, <2>4, <2>5
         DEF Clear, ReplacedInv, ThreadsOK, TypeOK, SlotIsLatest, Slot
  <1> QED
    BY <1>1, <1>2, <1>3, <1>4

\* The slot is empty or holds the latest analysis, and the answers are true.
THEOREM SlotInvariant == Spec => []ReplacedInv
  <1>1. Init => ReplacedInv
    BY IdleThreadType, BoundsAssumption
       DEF Init, ReplacedInv, TypeOK, Made, SlotIsLatest, ReplacedTruthful, Slot
  <1>2. ReplacedInv /\ [Next]_vars => ReplacedInv'
    <2> SUFFICES ASSUME ReplacedInv, [Next]_vars PROVE ReplacedInv'
      OBVIOUS
    <2>1. CASE UNCHANGED vars
      BY <2>1 DEF vars, ReplacedInv, TypeOK, Made, SlotIsLatest, IsLatest,
                  ReplacedTruthful
    <2> QED
      BY <2>1, AnalyzeReplaces, GenerateReplaces DEF Next, Step
  <1> QED
    BY <1>1, <1>2, PTL DEF Spec

\* The slot, the threads and the answers have their types.
THEOREM SlotTypes == Spec => []TypeOK
  <1>1. ReplacedInv => TypeOK
    BY DEF ReplacedInv
  <1> QED
    BY <1>1, SlotInvariant, PTL

\* Whoever is told ANALYSIS_REPLACED has been replaced by a later analysis.
THEOREM ReplacedIsTrue == Spec => []ReplacedTruthful
  <1>1. ReplacedInv => ReplacedTruthful
    BY DEF ReplacedInv
  <1> QED
    BY <1>1, SlotInvariant, PTL
=============================================================================
