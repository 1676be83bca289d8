-------------------------- MODULE AdmissionProofs --------------------------
(***************************************************************************)
(* Theorems about the admission of requests, for any number of threads and *)
(* addresses, any traffic, any limits and any window.                      *)
(*                                                                         *)
(*  - OnlyAuthorised: no handler runs without the token it needs.          *)
(*  - WindowsHold: how much an address gets in a window.                   *)
(*  - RefusalsJust: how busy an address was that is refused.               *)
(*                                                                         *)
(* The last two count stamps in a deque that is not sorted and is evicted  *)
(* from the left.  LimiterInv counts with them the threads that have read  *)
(* the clock and still wait for the lock.                                  *)
(***************************************************************************)
EXTENDS Admission, FiniteSetTheorems, FunctionTheorems, SequenceTheorems, TLAPS

\* The left end that is_allowed drops is no longer than the deque, so what
\* remains is a deque of the same stamps.
LEMMA EvictedType ==
    ASSUME NEW q \in Seq(Stamps), NEW now \in Stamps
    PROVE  Evicted(q, now) \in Seq(Stamps)
<1> DEFINE n == Cardinality(Expired(q, now))
<1>1. Len(q) \in Nat
  BY LenProperties
<1>i. /\ IsFiniteSet(1 .. Len(q))
      /\ Cardinality(1 .. Len(q)) = IF 1 > Len(q) THEN 0 ELSE Len(q) - 1 + 1
  <2>1. 1 \in Int /\ Len(q) \in Int
    BY <1>1
  <2>. QED
    BY <2>1, FS_Interval
<1>2. IsFiniteSet(1 .. Len(q)) /\ Cardinality(1 .. Len(q)) = Len(q)
  BY <1>1, <1>i
<1>3. Expired(q, now) \subseteq 1 .. Len(q)
  BY DEF Expired
<1>4. n \in Nat /\ n <= Len(q)
  BY <1>2, <1>3, FS_Subset, FS_CardinalityType
<1>5. SubSeq(q, n + 1, Len(q)) \in Seq(Stamps)
  BY <1>1, <1>4, SubSeqProperties
<1>. QED
  BY <1>5 DEF Evicted

\* A thread whose token is being checked has its stamp; one past the check, or
\* past the point where it would have been, has the token its path requires.
Stamped == \A t \in Threads : th[t].pc = "auth" => th[t].stamp # NoStamp
Cleared == \A t \in Threads : th[t].pc \in {"oci", "handle"} =>
             (ChecksToken(th[t].req) => Accepted(th[t].req))
AdmissionInv == TypeOK /\ Stamped /\ Cleared

LEMMA AdmissionInit == Init => AdmissionInv
<1>. SUFFICES ASSUME Init PROVE AdmissionInv
  OBVIOUS
<1>1. clock \in Stamps
  BY AdmissionAssumption DEF Init, Stamps
<1>2. <<>> \in Seq(Stamps)
  OBVIOUS
<1>3. TypeOK
  BY <1>1, <1>2 DEF Init, TypeOK
<1>. QED
  BY <1>3 DEF Init, AdmissionInv, Stamped, Cleared, Idle

\* Each step keeps the types.
LEMMA TypeStep == TypeOK /\ Stamped /\ [Next]_vars => TypeOK'
<1>. SUFFICES ASSUME TypeOK, Stamped, [Next]_vars PROVE TypeOK'
  OBVIOUS
<1>. USE AdmissionAssumption
<1>1. ASSUME NEW t \in Threads, NEW x \in Traffic, Receive(t, x[1], x[2])
      PROVE TypeOK'
  <2>1. x[1] \in AllRequests /\ x[2] \in Addresses
    OBVIOUS
  <2>2. Request(IF ChecksToken(x[1]) THEN "admin" ELSE AfterToken(x[1]),
                x[1], x[2], NoStamp) \in Active
    BY <2>1 DEF Request, Active, AfterToken
  <2>. QED
    BY <1>1, <2>2 DEF TypeOK, Receive
<1>2. ASSUME NEW t \in Threads, Stamp(t) PROVE TypeOK'
  <2>1. th[t] \in Active
    BY <1>2 DEF TypeOK, Stamp, Idle, Limiters
  <2>2. [th[t] EXCEPT !.stamp = clock] \in Active
    BY <2>1 DEF TypeOK, Active
  <2>. QED
    BY <1>2, <2>2 DEF TypeOK, Stamp
<1>3. ASSUME NEW t \in Threads, th[t].pc \in Limiters, th[t].stamp # NoStamp
      PROVE /\ th[t] \in Active
            /\ <<th[t].pc, th[t].addr>> \in Limiters \X Addresses
            /\ Evicted(hits[<<th[t].pc, th[t].addr>>], th[t].stamp)
                 \in Seq(Stamps)
            /\ th[t].stamp \in Stamps
  <2>1. th[t] \in Active
    BY <1>3 DEF TypeOK, Idle, Limiters
  <2>2. th[t].stamp \in Stamps /\ th[t].addr \in Addresses
    BY <2>1, <1>3 DEF Active
  <2>3. hits[<<th[t].pc, th[t].addr>>] \in Seq(Stamps)
    BY <2>2, <1>3 DEF TypeOK
  <2>. QED
    BY <2>1, <2>2, <2>3, <1>3, EvictedType
<1>4. ASSUME NEW t \in Threads, Admit(t) PROVE TypeOK'
  <2>. DEFINE key == <<th[t].pc, th[t].addr>>
              q == Evicted(hits[key], th[t].stamp)
  <2>1. /\ th[t] \in Active /\ key \in Limiters \X Addresses
        /\ q \in Seq(Stamps) /\ th[t].stamp \in Stamps
    BY <1>3, <1>4 DEF Admit
  <2>2. hits' = [hits EXCEPT ![key] = Append(q, th[t].stamp)]
    BY <1>4, <2>1 DEF Admit, TypeOK
  <2>3. admitted' = [admitted EXCEPT ![key] = Append(admitted[key], th[t].stamp)]
    BY <1>4, <2>1 DEF Admit, Log, TypeOK
  <2>4. [th[t] EXCEPT !.pc = IF @ = "admin" THEN "auth" ELSE "handle"] \in Active
    BY <2>1 DEF Active
  <2>5. /\ Append(q, th[t].stamp) \in Seq(Stamps)
        /\ Append(admitted[key], th[t].stamp) \in Seq(Stamps)
    BY <2>1, AppendProperties DEF TypeOK
  <2>6. /\ hits' \in [Limiters \X Addresses -> Seq(Stamps)]
        /\ admitted' \in [Limiters \X Addresses -> Seq(Stamps)]
    BY <2>2, <2>3, <2>5 DEF TypeOK
  <2>7. th' \in [Threads -> {Idle} \cup Active]
    BY <1>4, <2>4 DEF Admit, TypeOK
  <2>. QED
    BY <1>4, <2>6, <2>7 DEF Admit, TypeOK
<1>5. ASSUME NEW t \in Threads, Refuse(t) PROVE TypeOK'
  <2>. DEFINE key == <<th[t].pc, th[t].addr>>
              q == Evicted(hits[key], th[t].stamp)
  <2>1. key \in Limiters \X Addresses /\ q \in Seq(Stamps)
    BY <1>3, <1>5 DEF Refuse
  <2>2. hits' = [hits EXCEPT ![key] = q]
    BY <1>5, <2>1 DEF Refuse, TypeOK
  <2>3. hits' \in [Limiters \X Addresses -> Seq(Stamps)]
    BY <2>1, <2>2 DEF TypeOK
  <2>. QED
    BY <1>5, <2>3 DEF Refuse, TypeOK
<1>6. ASSUME NEW t \in Threads, Authenticate(t) PROVE TypeOK'
  <2>. DEFINE key == <<"token", th[t].addr>>
  <2>1. th[t] \in Active
    BY <1>6 DEF TypeOK, Authenticate, Idle
  <2>2. th[t].stamp \in Stamps /\ key \in Services \X Addresses
    BY <2>1, <1>6 DEF Active, Stamped, Authenticate, Services
  <2>3. Log(served, key, th[t].stamp)
          = [served EXCEPT ![key] = Append(served[key], th[t].stamp)]
    BY <2>2 DEF Log, TypeOK
  <2>4. Append(served[key], th[t].stamp) \in Seq(Stamps)
    BY <2>2, AppendProperties DEF TypeOK
  <2>5. served' \in [Services \X Addresses -> Seq(Stamps)]
    BY <1>6, <2>3, <2>4 DEF Authenticate, TypeOK
  <2>6. /\ Request("oci", th[t].req, th[t].addr, NoStamp) \in Active
        /\ [th[t] EXCEPT !.pc = "handle"] \in Active
    BY <2>1 DEF Active, Request
  <2>7. th' \in [Threads -> {Idle} \cup Active]
    BY <1>6, <2>6 DEF Authenticate, TypeOK
  <2>. QED
    BY <1>6, <2>5, <2>7 DEF Authenticate, TypeOK
<1>7. ASSUME NEW t \in Threads, Handle(t) PROVE TypeOK'
  <2>. DEFINE key == <<"pull", th[t].addr>>
              stamp == IF th[t].stamp = NoStamp THEN clock ELSE th[t].stamp
  <2>1. th[t] \in Active
    BY <1>7 DEF TypeOK, Handle, Idle
  <2>2. stamp \in Stamps /\ key \in Services \X Addresses
    BY <2>1 DEF Active, TypeOK, Services
  <2>3. Log(served, key, stamp)
          = [served EXCEPT ![key] = Append(served[key], stamp)]
    BY <2>2 DEF Log, TypeOK
  <2>4. Append(served[key], stamp) \in Seq(Stamps)
    BY <2>2, AppendProperties DEF TypeOK
  <2>5. served' \in [Services \X Addresses -> Seq(Stamps)]
    BY <1>7, <2>3, <2>4 DEF Handle, TypeOK
  <2>6. th' \in [Threads -> {Idle} \cup Active]
    BY <1>7 DEF Handle, TypeOK
  <2>. QED
    BY <1>7, <2>5, <2>6 DEF Handle, TypeOK
<1>8. CASE Tick
  BY <1>8 DEF Tick, TypeOK, Stamps
<1>9. CASE UNCHANGED vars
  BY <1>9 DEF vars, TypeOK
<1>. QED
  BY <1>1, <1>2, <1>4, <1>5, <1>6, <1>7, <1>8, <1>9 DEF Next

\* No step lets a thread past the token check without the token.
LEMMA ClearedStep == AdmissionInv /\ [Next]_vars => Stamped' /\ Cleared'
<1>. SUFFICES ASSUME AdmissionInv, [Next]_vars PROVE Stamped' /\ Cleared'
  OBVIOUS
<1>. USE DEF AdmissionInv
<1>0. config' = config /\ th \in [Threads -> {Idle} \cup Active]
  BY DEF Next, Receive, Stamp, Admit, Refuse, Authenticate, Handle, Tick, vars,
         TypeOK
<1>a. \A r : ChecksToken(r)' = ChecksToken(r) /\ Accepted(r)' = Accepted(r)
  BY <1>0 DEF ChecksToken, Accepted, Open
<1>b. ASSUME NEW t \in Threads, NEW new,
             th' = [th EXCEPT ![t] = new],
             new.pc = "auth" => new.stamp # NoStamp,
             new.pc \in {"oci", "handle"} =>
               (ChecksToken(new.req) => Accepted(new.req))
      PROVE Stamped' /\ Cleared'
  <2>1. \A u \in Threads : th'[u] = IF u = t THEN new ELSE th[u]
    BY <1>0, <1>b
  <2>2. Stamped'
    BY <2>1, <1>b DEF Stamped
  <2>3. \A u \in Threads : th'[u].pc \in {"oci", "handle"} =>
             (ChecksToken(th'[u].req) => Accepted(th'[u].req))
    BY <2>1, <1>b DEF Cleared
  <2>4. Cleared'
    BY <2>3, <1>a DEF Cleared
  <2>. QED
    BY <2>2, <2>4
<1>1. ASSUME NEW t \in Threads, NEW x \in Traffic, Receive(t, x[1], x[2])
      PROVE Stamped' /\ Cleared'
  BY <1>1, <1>b DEF Receive, Request, AfterToken
<1>2. ASSUME NEW t \in Threads, Stamp(t) PROVE Stamped' /\ Cleared'
  <2>. DEFINE new == [th[t] EXCEPT !.stamp = clock]
  <2>1. th[t] \in Active
    BY <1>0, <1>2 DEF Stamp, Idle, Limiters
  <2>2. new.pc = th[t].pc /\ new.req = th[t].req /\ new.pc # "auth"
    BY <1>2, <2>1 DEF Active, Stamp, Limiters
  <2>3. th' = [th EXCEPT ![t] = new]
    BY <1>0, <1>2, <2>1 DEF Stamp, Active
  <2>. HIDE DEF new
  <2>. QED
    BY <2>2, <2>3, <1>b DEF Cleared
<1>3. ASSUME NEW t \in Threads, Admit(t) PROVE Stamped' /\ Cleared'
  <2>. DEFINE new == [th[t] EXCEPT !.pc = IF @ = "admin" THEN "auth"
                                                         ELSE "handle"]
  <2>1. th[t] \in Active
    BY <1>0, <1>3 DEF Admit, Idle, Limiters
  <2>2. /\ new.req = th[t].req /\ new.stamp # NoStamp
        /\ new.pc = "handle" => th[t].pc = "oci"
        /\ new.pc \in {"auth", "handle"}
    BY <1>3, <2>1 DEF Active, Admit, Limiters
  <2>3. th' = [th EXCEPT ![t] = new]
    BY <1>0, <1>3, <2>1 DEF Admit, Active
  <2>. HIDE DEF new
  <2>. QED
    BY <2>2, <2>3, <1>b DEF Cleared
<1>4. ASSUME NEW t \in Threads, Refuse(t) \/ Handle(t)
      PROVE Stamped' /\ Cleared'
  BY <1>4, <1>b DEF Refuse, Handle, Idle
<1>5. ASSUME NEW t \in Threads, Authenticate(t) PROVE Stamped' /\ Cleared'
  <2>1. th[t] \in Active
    BY <1>0, <1>5 DEF Authenticate, Idle
  <2>2. CASE ~Accepted(th[t].req)
    BY <1>5, <2>2, <1>b DEF Authenticate, Idle
  <2>3. CASE Accepted(th[t].req) /\ ChecksOci(th[t].req)
    BY <1>5, <2>3, <1>b DEF Authenticate, Request
  <2>4. CASE Accepted(th[t].req) /\ ~ChecksOci(th[t].req)
    <3>. DEFINE new == [th[t] EXCEPT !.pc = "handle"]
    <3>1. new.pc = "handle" /\ new.req = th[t].req
      BY <2>1 DEF Active
    <3>2. th' = [th EXCEPT ![t] = new]
      BY <1>5, <2>4 DEF Authenticate
    <3>. HIDE DEF new
    <3>. QED
      BY <3>1, <3>2, <2>4, <1>b
  <2>. QED
    BY <2>2, <2>3, <2>4
<1>6. CASE Tick \/ UNCHANGED vars
  <2>1. th' = th
    BY <1>6 DEF Tick, vars
  <2>. QED
    BY <2>1, <1>a DEF Stamped, Cleared
<1>. QED
  BY <1>1, <1>2, <1>3, <1>4, <1>5, <1>6 DEF Next

\* The inductive invariant of the middleware.
THEOREM AdmissionInvariant == Spec => []AdmissionInv
<1>1. AdmissionInv /\ [Next]_vars => AdmissionInv'
  BY TypeStep, ClearedStep DEF AdmissionInv
<1>. QED
  BY AdmissionInit, <1>1, PTL DEF Spec

\* TypeOK holds for any number of threads, any traffic and any limits.
THEOREM AdmissionTypes == Spec => []TypeOK
<1>1. AdmissionInv => TypeOK
  BY DEF AdmissionInv
<1>. QED
  BY AdmissionInvariant, <1>1, PTL

\* Whatever the routing table sends to a handler has passed a check of the
\* level its operation requires, although the two see different paths.
LEMMA TablesAgree ==
    ASSUME NEW r \in AllRequests, r.form # "absolute",
           ChecksToken(r) => Accepted(r),
           NEW h \in Viewing \cup Changing \cup Pulling \cup {"v2_root"},
           Runs(r, h)
    PROVE  Open \/ MayRun(r, h)
<1>0. r.form \in {"plain", "suffixed"}
  BY DEF AllRequests, Forms
<1>1. CASE h \in Changing
  <2>1. /\ r.path \in AdminPaths /\ r.path \notin V2Paths
        /\ r.method \in {"POST", "PUT"}
    BY <1>1 DEF Runs, Routes, Changing, AdminPaths, V2Paths
  <2>2. SeenPath(r) \in AdminPaths /\ SeenPath(r) \notin V2Paths
    BY <1>0, <2>1 DEF SeenPath, AdminPaths, V2Paths
  <2>3. ChecksToken(r) /\ RequiredLevel(r) = "admin"
    BY <2>1, <2>2 DEF ChecksToken, RequiredLevel, ReadonlyEndpoints
  <2>. QED
    BY <2>3 DEF Accepted, MayRun
<1>2. CASE h \in Viewing
  <2>1. r.path \in AdminPaths /\ r.method = "GET"
    BY <1>2 DEF Runs, Routes, Viewing, AdminPaths
  <2>2. SeenPath(r) \in AdminPaths
    BY <1>0, <2>1 DEF SeenPath, AdminPaths, V2Paths
  <2>3. ChecksToken(r) /\ RequiredLevel(r) # "none"
    BY <2>1, <2>2 DEF ChecksToken, RequiredLevel
  <2>. QED
    BY <1>2, <2>3 DEF Accepted, MayRun, Viewing, Changing
<1>3. CASE h \in Pulling \cup {"v2_root"}
  <2>1. r.path \in V2Paths /\ r.method \in {"GET", "HEAD"}
    BY <1>3 DEF Runs, Routes, Pulling, V2Paths
  <2>2. SeenPath(r) \in V2Paths
    BY <1>0, <2>1 DEF SeenPath, V2Paths
  <2>3. RequiredLevel(r) # "none" /\ (config.restrict => ChecksToken(r))
    BY <2>1, <2>2 DEF ChecksToken, RequiredLevel
  <2>. QED
    BY <1>3, <2>3 DEF Accepted, MayRun, Pulling, Viewing, Changing
<1>. QED
  BY <1>1, <1>2, <1>3

\* AuthorisedOnly holds for every method, path and token and every target
\* without scheme and host, in any number of threads and in every configuration
\* the daemon starts with.
THEOREM OnlyAuthorised == Spec => []AuthorisedOnly
<1>1. AdmissionInv => AuthorisedOnly
  <2>. SUFFICES ASSUME AdmissionInv, NEW t \in Threads, th[t].pc = "handle",
                      th[t].req.form # "absolute",
                      NEW h \in Viewing \cup Changing \cup Pulling
                                  \cup {"v2_root"},
                      Runs(th[t].req, h)
               PROVE  Open \/ MayRun(th[t].req, h)
    BY DEF AuthorisedOnly
  <2>1. th[t] \in Active
    BY DEF AdmissionInv, TypeOK, Idle
  <2>2. th[t].req \in AllRequests
    BY <2>1 DEF Active
  <2>3. ChecksToken(th[t].req) => Accepted(th[t].req)
    BY DEF AdmissionInv, Cleared
  <2>. QED
    BY <2>2, <2>3, TablesAgree
<1>. QED
  BY AdmissionInvariant, <1>1, PTL
-----------------------------------------------------------------------------
(* The deque of a limiter: what appending a stamp and evicting the left end  *)
(* do to the number of stamps in an interval, and to the order in it.        *)

Positions(q, first, last) == {i \in 1 .. Len(q) : q[i] \in first .. last}
Earlier(q, i) == {j \in i + 1 .. Len(q) : q[j] < q[i]}

\* Sets of positions are finite.
LEMMA PositionsFinite ==
    ASSUME NEW q \in Seq(Stamps), NEW S \in SUBSET (1 .. Len(q))
    PROVE  IsFiniteSet(S) /\ Cardinality(S) \in Nat /\ Cardinality(S) <= Len(q)
<1>1. Len(q) \in Nat
  BY LenProperties
<1>2. /\ IsFiniteSet(1 .. Len(q))
      /\ Cardinality(1 .. Len(q)) = IF 1 > Len(q) THEN 0 ELSE Len(q) - 1 + 1
  <2>1. 1 \in Int /\ Len(q) \in Int
    BY <1>1
  <2>. QED
    BY <2>1, FS_Interval
<1>3. Cardinality(1 .. Len(q)) = Len(q)
  BY <1>1, <1>2
<1>4. IsFiniteSet(S) /\ Cardinality(S) <= Cardinality(1 .. Len(q))
  BY <1>2, FS_Subset
<1>5. Cardinality(S) \in Nat
  BY <1>4, FS_CardinalityType
<1>. QED
  BY <1>3, <1>4, <1>5

\* The number of stamps in an interval is a number.
LEMMA DuringNat ==
    ASSUME NEW q \in Seq(Stamps), NEW first, NEW last
    PROVE  During(q, first, last) \in Nat /\ During(q, first, last) <= Len(q)
<1>1. Positions(q, first, last) \in SUBSET (1 .. Len(q))
  BY DEF Positions
<1>2. During(q, first, last) = Cardinality(Positions(q, first, last))
  BY DEF During, Positions
<1>. QED
  BY <1>1, <1>2, PositionsFinite

\* A stamp that is appended counts for the intervals it lies in.
LEMMA DuringAppend ==
    ASSUME NEW q \in Seq(Stamps), NEW x \in Stamps,
           NEW first \in Int, NEW last \in Int
    PROVE  During(Append(q, x), first, last)
             = During(q, first, last) + (IF x \in first .. last THEN 1 ELSE 0)
<1>. DEFINE P == Positions(q, first, last)
            n == Len(q) + 1
<1>1. /\ Len(q) \in Nat /\ Len(Append(q, x)) = n
      /\ \A i \in 1 .. Len(q) : Append(q, x)[i] = q[i]
      /\ Append(q, x)[n] = x
  BY LenProperties, AppendProperties
<1>2. P \in SUBSET (1 .. Len(q)) /\ n \notin P
  BY <1>1 DEF Positions
<1>3. IsFiniteSet(P) /\ Cardinality(P) \in Nat
  BY <1>2, PositionsFinite
<1>4. /\ During(q, first, last) = Cardinality(P)
      /\ During(Append(q, x), first, last)
           = Cardinality(Positions(Append(q, x), first, last))
  BY DEF During, Positions
<1>5. CASE x \in first .. last
  <2>1. Positions(Append(q, x), first, last) = P \cup {n}
    BY <1>1, <1>5 DEF Positions
  <2>2. Cardinality(P \cup {n}) = Cardinality(P) + 1
    BY <1>2, <1>3, FS_AddElement
  <2>. QED
    BY <1>4, <1>5, <2>1, <2>2
<1>6. CASE x \notin first .. last
  <2>1. Positions(Append(q, x), first, last) = P
    BY <1>1, <1>6 DEF Positions
  <2>. QED
    BY <1>3, <1>4, <1>6, <2>1
<1>. QED
  BY <1>5, <1>6

\* Eviction drops a prefix of expired stamps, and the first stamp that is left
\* has not expired.
LEMMA EvictedSuffix ==
    ASSUME NEW q \in Seq(Stamps), NEW now \in Stamps
    PROVE  \E m \in Nat :
             /\ m <= Len(q)
             /\ Len(Evicted(q, now)) = Len(q) - m
             /\ \A i \in 1 .. Len(q) - m : Evicted(q, now)[i] = q[i + m]
             /\ \A i \in 1 .. m : q[i] <= now - Window
             /\ m < Len(q) => q[m + 1] > now - Window
<1>. DEFINE E == Expired(q, now)
            m == Cardinality(E)
<1>1. Len(q) \in Nat /\ q \in [1 .. Len(q) -> Stamps]
  BY LenProperties
<1>2. E \in SUBSET (1 .. Len(q))
  BY DEF Expired
<1>3. IsFiniteSet(E) /\ m \in Nat /\ m <= Len(q)
  BY <1>2, PositionsFinite
<1>4. \A i \in E : i <= m
  <2>1. SUFFICES ASSUME NEW i \in E PROVE i <= m
    OBVIOUS
  <2>2. i \in 1 .. Len(q) /\ i \in Nat /\ i >= 1
    BY <1>1, <1>2
  <2>3. 1 .. i \in SUBSET E
    BY <1>1, <2>2 DEF Expired
  <2>4. Cardinality(1 .. i) <= m
    BY <1>3, <2>3, FS_Subset
  <2>5. Cardinality(1 .. i) = IF 1 > i THEN 0 ELSE i - 1 + 1
    <3>1. 1 \in Int /\ i \in Int
      BY <2>2
    <3>. QED
      BY <3>1, FS_Interval
  <2>. QED
    BY <1>3, <2>2, <2>4, <2>5
<1>5. E = 1 .. m
  <2>1. E \in SUBSET (1 .. m)
    BY <1>1, <1>2, <1>3, <1>4
  <2>2. /\ IsFiniteSet(1 .. m)
        /\ Cardinality(1 .. m) = IF 1 > m THEN 0 ELSE m - 1 + 1
    <3>1. 1 \in Int /\ m \in Int
      BY <1>3
    <3>. HIDE DEF m
    <3>. QED
      BY <3>1, FS_Interval
  <2>3. Cardinality(1 .. m) = Cardinality(E)
    BY <1>3, <2>2
  <2>. QED
    BY <2>1, <2>2, <2>3, FS_Subset
<1>6. /\ Len(Evicted(q, now)) = Len(q) - m
      /\ \A i \in 1 .. Len(q) - m : Evicted(q, now)[i] = q[i + m]
  <2>. HIDE DEF m
  <2>0. Evicted(q, now) = SubSeq(q, m + 1, Len(q))
    BY DEF Evicted, m
  <2>1. \A i \in m + 1 .. Len(q) : q[i] \in Stamps
    BY <1>1, <1>3
  <2>2. m + 1 \in Int /\ Len(q) \in Int
    BY <1>1, <1>3
  <2>3. /\ Len(SubSeq(q, m + 1, Len(q)))
             = IF m + 1 <= Len(q) THEN Len(q) - (m + 1) + 1 ELSE 0
        /\ \A i \in 1 .. Len(q) - (m + 1) + 1 :
             SubSeq(q, m + 1, Len(q))[i] = q[m + 1 + i - 1]
    BY <2>1, <2>2, SubSeqProperties
  <2>4. /\ Len(q) - (m + 1) + 1 = Len(q) - m
        /\ (IF m + 1 <= Len(q) THEN Len(q) - (m + 1) + 1 ELSE 0) = Len(q) - m
        /\ \A i \in 1 .. Len(q) - m : m + 1 + i - 1 = i + m
    <3>1. \A l, n \in Nat : n <= l =>
            /\ l - (n + 1) + 1 = l - n
            /\ (IF n + 1 <= l THEN l - (n + 1) + 1 ELSE 0) = l - n
            /\ \A i \in 1 .. l - n : n + 1 + i - 1 = i + n
      OBVIOUS
    <3>. QED
      BY <1>1, <1>3, <3>1, Zenon
  <2>5. Len(Evicted(q, now)) = Len(q) - m
    BY <2>0, <2>3, <2>4, Zenon
  <2>6. \A i \in 1 .. Len(q) - m : Evicted(q, now)[i] = q[i + m]
    BY <2>0, <2>3, <2>4, Zenon
  <2>. QED
    BY <2>5, <2>6, Zenon
<1>7. \A i \in 1 .. m : q[i] <= now - Window
  <2>1. \A i \in E : q[i] <= now - Window
    BY <1>1 DEF Expired
  <2>. QED
    BY <1>5, <2>1
<1>8. m < Len(q) => q[m + 1] > now - Window
  <2>. HIDE DEF m
  <2>. SUFFICES ASSUME m < Len(q), ~(q[m + 1] > now - Window) PROVE FALSE
    OBVIOUS
  <2>1. q[m + 1] \in Int /\ now - Window \in Int
    BY <1>1, <1>3, AdmissionAssumption DEF Stamps
  <2>2. m + 1 \in E
    BY <1>1, <1>3, <1>7, <2>1 DEF Expired
  <2>. QED
    BY <1>3, <1>4, <2>2
<1>. HIDE DEF m
<1>. QED
  BY <1>3, <1>6, <1>7, <1>8

\* What eviction takes away has expired: an interval that begins after that
\* keeps its stamps, and no interval gains any.
LEMMA DuringEvicted ==
    ASSUME NEW q \in Seq(Stamps), NEW now \in Stamps,
           NEW first \in Int, NEW last \in Int
    PROVE  /\ During(Evicted(q, now), first, last) <= During(q, first, last)
           /\ now - Window < first =>
                During(Evicted(q, now), first, last) = During(q, first, last)
<1>. DEFINE r == Evicted(q, now)
            P == Positions(q, first, last)
            R == Positions(r, first, last)
<1>0. r \in Seq(Stamps)
  BY EvictedType
<1>. PICK m \in Nat :
       /\ m <= Len(q)
       /\ Len(r) = Len(q) - m
       /\ \A i \in 1 .. Len(q) - m : r[i] = q[i + m]
       /\ \A i \in 1 .. m : q[i] <= now - Window
       /\ m < Len(q) => q[m + 1] > now - Window
  BY EvictedSuffix
<1>1. Len(q) \in Nat /\ q \in [1 .. Len(q) -> Stamps]
  BY LenProperties
<1>. HIDE DEF r
<1>2. P \in SUBSET (1 .. Len(q)) /\ IsFiniteSet(P) /\ Cardinality(P) \in Nat
  <2>1. P \in SUBSET (1 .. Len(q))
    BY DEF Positions
  <2>. QED
    BY <2>1, PositionsFinite
<1>3. \A j \in R : j \in 1 .. Len(q) - m /\ j + m \in P
  BY <1>1 DEF Positions
<1>. DEFINE f == [j \in R |-> j + m]
<1>4. f \in Injection(R, P)
  <2>1. f \in [R -> P]
    BY <1>3
  <2>2. \A i, j \in R : f[i] = f[j] => i = j
    BY <1>1, <1>3
  <2>. QED
    BY <2>1, <2>2, Fun_IsInj
<1>5. /\ Cardinality(R) <= Cardinality(P)
      /\ Cardinality(R) = Cardinality(P) <=> f \in Surjection(R, P)
  BY <1>2, <1>4, FS_Injection
<1>6. now - Window < first => f \in Surjection(R, P)
  <2>. SUFFICES ASSUME now - Window < first PROVE f \in Surjection(R, P)
    OBVIOUS
  <2>1. \A i \in P : \E j \in R : f[j] = i
    <3>. SUFFICES ASSUME NEW i \in P PROVE \E j \in R : f[j] = i
      OBVIOUS
    <3>1. i \in 1 .. Len(q) /\ q[i] \in first .. last
      BY DEF Positions
    <3>2. q[i] > now - Window
      BY <1>1, <3>1, AdmissionAssumption DEF Stamps
    <3>3. i > m
      BY <1>1, <3>1, <3>2, AdmissionAssumption DEF Stamps
    <3>4. i - m \in 1 .. Len(q) - m /\ (i - m) + m = i
      BY <1>1, <3>1, <3>3
    <3>5. i - m \in R
      BY <3>1, <3>4 DEF Positions
    <3>. QED
      BY <3>4, <3>5
  <2>2. f \in [R -> P]
    BY <1>3
  <2>. QED
    BY <2>1, <2>2, Fun_IsSurj
<1>7. /\ During(q, first, last) = Cardinality(P)
      /\ During(r, first, last) = Cardinality(R)
  BY DEF During, Positions
<1>. QED
  BY <1>5, <1>6, <1>7 DEF r

\* Behind a stamp that stays there are as many earlier ones as before.
LEMMA EarlierEvicted ==
    ASSUME NEW q \in Seq(Stamps), NEW now \in Stamps,
           NEW i \in 1 .. Len(Evicted(q, now))
    PROVE  \E k \in 1 .. Len(q) :
             /\ Evicted(q, now)[i] = q[k]
             /\ Cardinality(Earlier(Evicted(q, now), i))
                  <= Cardinality(Earlier(q, k))
<1>. DEFINE r == Evicted(q, now)
<1>. PICK m \in Nat :
       /\ m <= Len(q)
       /\ Len(r) = Len(q) - m
       /\ \A j \in 1 .. Len(q) - m : r[j] = q[j + m]
  BY EvictedSuffix
<1>1. Len(q) \in Nat /\ q \in [1 .. Len(q) -> Stamps]
  BY LenProperties
<1>. HIDE DEF r
<1>2. i \in 1 .. Len(q) - m
  BY DEF r
<1>. DEFINE P == Earlier(q, i + m)
            R == Earlier(r, i)
            f == [j \in R |-> j + m]
<1>3. IsFiniteSet(P)
  <2>1. P \in SUBSET (1 .. Len(q))
    BY <1>1, <1>2 DEF Earlier
  <2>. QED
    BY <2>1, PositionsFinite
<1>4. \A j \in R : j \in 1 .. Len(q) - m /\ j + m \in P
  BY <1>1, <1>2 DEF Earlier
<1>5. f \in Injection(R, P)
  <2>1. f \in [R -> P]
    BY <1>4
  <2>2. \A j, k \in R : f[j] = f[k] => j = k
    BY <1>1, <1>4
  <2>. QED
    BY <2>1, <2>2, Fun_IsInj
<1>6. Cardinality(R) <= Cardinality(P)
  BY <1>3, <1>5, FS_Injection
<1>7. i + m \in 1 .. Len(q) /\ r[i] = q[i + m]
  BY <1>1, <1>2
<1>. QED
  BY <1>6, <1>7 DEF r

\* A stamp that is appended comes after those it is earlier than.
LEMMA EarlierAppend ==
    ASSUME NEW q \in Seq(Stamps), NEW x \in Stamps
    PROVE  /\ \A i \in 1 .. Len(q) :
                /\ Cardinality(Earlier(q, i)) \in Nat
                /\ Cardinality(Earlier(Append(q, x), i))
                     = Cardinality(Earlier(q, i))
                         + (IF x < q[i] THEN 1 ELSE 0)
           /\ Cardinality(Earlier(Append(q, x), Len(q) + 1)) = 0
<1>. DEFINE n == Len(q) + 1
            r == Append(q, x)
<1>1. /\ Len(q) \in Nat /\ Len(r) = n
      /\ q \in [1 .. Len(q) -> Stamps]
      /\ \A i \in 1 .. Len(q) : r[i] = q[i]
      /\ r[n] = x
  BY LenProperties, AppendProperties
<1>. HIDE DEF r
<1>2. ASSUME NEW i \in 1 .. Len(q)
      PROVE  /\ Cardinality(Earlier(q, i)) \in Nat
             /\ Cardinality(Earlier(r, i))
                  = Cardinality(Earlier(q, i)) + (IF x < q[i] THEN 1 ELSE 0)
  <2>1. Earlier(q, i) \in SUBSET (1 .. Len(q)) /\ n \notin Earlier(q, i)
    BY <1>1 DEF Earlier
  <2>2. IsFiniteSet(Earlier(q, i)) /\ Cardinality(Earlier(q, i)) \in Nat
    BY <2>1, PositionsFinite
  <2>3. CASE x < q[i]
    <3>1. Earlier(r, i) = Earlier(q, i) \cup {n}
      BY <1>1, <2>3 DEF Earlier
    <3>2. Cardinality(Earlier(q, i) \cup {n}) = Cardinality(Earlier(q, i)) + 1
      BY <2>1, <2>2, FS_AddElement
    <3>. QED
      BY <2>2, <2>3, <3>1, <3>2
  <2>4. CASE ~(x < q[i])
    <3>1. Earlier(r, i) = Earlier(q, i)
      BY <1>1, <2>4 DEF Earlier
    <3>. QED
      BY <2>2, <2>4, <3>1
  <2>. QED
    BY <2>3, <2>4
<1>3. Earlier(r, n) = {}
  BY <1>1 DEF Earlier
<1>4. Cardinality(Earlier(r, n)) = 0
  BY <1>3, FS_EmptySet
<1>. QED
  BY <1>2, <1>4 DEF r

-----------------------------------------------------------------------------
(* The invariant of the limiters.                                            *)

Keys == Limiters \X Addresses

\* The threads at a step of their request, for an address, whose stamp lies in
\* an interval.  Those at a limiter wait for its lock.
Stands(t, pc, a, first, last) ==
    /\ th[t].pc = pc
    /\ th[t].addr = a
    /\ th[t].stamp # NoStamp
    /\ th[t].stamp \in first .. last
Between(pc, a, first, last) ==
    {t \in Threads : Stands(t, pc, a, first, last)}

Pulls(r) == \E h \in Pulling : Runs(r, h)
Serves(t, a, first, last) ==
    Stands(t, "handle", a, first, last) /\ Pulls(th[t].req)
Serving(a, first, last) == {t \in Threads : Serves(t, a, first, last)}

\* No stamp is later than the clock, and a thread that is about to serve a
\* manifest or blob has the stamp of the limiter it has passed.
Timed ==
    \A t \in Threads : th[t].pc # "idle" =>
      /\ th[t].stamp <= clock
      /\ th[t].pc = "handle" /\ Pulls(th[t].req) => th[t].stamp # NoStamp

Short(k) == Len(hits[k]) <= Limit[k[1]]

\* Either the deque still holds all that was let through in a window, and then
\* the limit bounds it; or a thread with a later stamp has evicted some of it,
\* and then only the threads that wait for the lock can still add to it.
Bounded(k) ==
    \A s \in Stamps :
      \/ During(admitted[k], s - Window + 1, s)
           = During(hits[k], s - Window + 1, s)
      \/ /\ s < clock
         /\ During(admitted[k], s - Window + 1, s)
              + Cardinality(Between(k[1], k[2], s - Window + 1, s))
              <= Limit[k[1]] + Others

\* Behind a stamp in the deque there are at most as many earlier ones as there
\* are other threads, counting those that still wait for the lock.
Overtaken(k) ==
    \A v \in Stamps : \A i \in 1 .. Len(hits[k]) : hits[k][i] = v =>
      /\ v <= clock
      /\ Cardinality(Earlier(hits[k], i))
           + Cardinality(Between(k[1], k[2], 0, v - 1)) <= Others

\* The deque holds nothing but what was let through.
Traced(k) ==
    \A s \in Stamps :
      During(hits[k], s - Window + 1, MaxTime)
        <= During(admitted[k], s - Window + 1, MaxTime)

QueueAt(k) == Short(k) /\ Bounded(k) /\ Overtaken(k) /\ Traced(k)
QueueInv == \A k \in Keys : QueueAt(k)

\* What is served in a window, and what is about to be, the limiter has let
\* through in that window.
Accounted ==
    \A a \in Addresses, s \in Stamps :
      /\ During(served[<<"token", a>>], s - Window + 1, s)
           + Cardinality(Between("auth", a, s - Window + 1, s))
           <= During(admitted[<<"admin", a>>], s - Window + 1, s)
      /\ During(served[<<"pull", a>>], s - Window + 1, s)
           + Cardinality(Serving(a, s - Window + 1, s))
           <= During(admitted[<<"oci", a>>], s - Window + 1, s)

LimiterInv == AdmissionInv /\ Timed /\ QueueInv /\ Accounted

\* There are finitely many threads, so a set of them has a size, and one that
\* leaves a thread out has at most the size of the others.
LEMMA ThreadsCount ==
    ASSUME NEW A \in SUBSET Threads
    PROVE  /\ IsFiniteSet(A) /\ Cardinality(A) \in Nat
           /\ Others \in Nat
           /\ \A t \in Threads : t \notin A => Cardinality(A) <= Others
<1>1. IsFiniteSet(A) /\ Cardinality(A) \in Nat
  BY AdmissionAssumption, FS_Subset, FS_CardinalityType
<1>2. Cardinality(Threads) \in Nat
  BY AdmissionAssumption, FS_CardinalityType
<1>3. ASSUME NEW t \in Threads, t \notin A PROVE Cardinality(A) <= Others
  <2>1. A \in SUBSET (Threads \ {t})
    BY <1>3
  <2>2. /\ IsFiniteSet(Threads \ {t})
        /\ Cardinality(Threads \ {t}) = Cardinality(Threads) - 1
    BY AdmissionAssumption, FS_RemoveElement
  <2>. QED
    BY <2>1, <2>2, FS_Subset DEF Others
<1>4. Others \in Nat
  <2>1. Cardinality(Threads) # 0
    BY AdmissionAssumption, FS_EmptySet
  <2>. QED
    BY <1>2, <2>1 DEF Others
<1>. QED
  BY <1>1, <1>3, <1>4

\* What the move of one thread does to the size of a set of threads.
LEMMA OneMoves ==
    ASSUME NEW A \in SUBSET Threads, NEW B \in SUBSET Threads,
           NEW t \in Threads, \A u \in Threads : u # t => (u \in A <=> u \in B)
    PROVE  /\ Cardinality(A) \in Nat /\ Cardinality(B) \in Nat
           /\ (t \in B => t \in A) => Cardinality(B) <= Cardinality(A)
           /\ t \in A /\ t \notin B => Cardinality(B) = Cardinality(A) - 1
           /\ Cardinality(B) <= Cardinality(A) + 1
<1>1. /\ IsFiniteSet(A) /\ Cardinality(A) \in Nat
      /\ IsFiniteSet(B) /\ Cardinality(B) \in Nat
  BY ThreadsCount
<1>2. CASE t \in B
  <2>1. B = A \cup {t}
    BY <1>2
  <2>2. Cardinality(A \cup {t})
          = IF t \in A THEN Cardinality(A) ELSE Cardinality(A) + 1
    BY <1>1, FS_AddElement
  <2>. QED
    BY <1>1, <1>2, <2>1, <2>2
<1>3. CASE t \notin B
  <2>1. B = A \ {t}
    BY <1>3
  <2>2. Cardinality(A \ {t})
          = IF t \in A THEN Cardinality(A) - 1 ELSE Cardinality(A)
    BY <1>1, FS_RemoveElement
  <2>. QED
    BY <1>1, <1>3, <2>1, <2>2
<1>. QED
  BY <1>2, <1>3

\* The same for the threads at a step and for those about to serve.
LEMMA BetweenMoves ==
    ASSUME NEW t \in Threads, \A u \in Threads : u # t => th'[u] = th[u],
           NEW pc, NEW a, NEW f, NEW l
    PROVE  LET B == Between(pc, a, f, l)
               S == Serving(a, f, l)
           IN  /\ Cardinality(B) \in Nat /\ Cardinality(B') \in Nat
               /\ Cardinality(S) \in Nat /\ Cardinality(S') \in Nat
               /\ (Stands(t, pc, a, f, l)' => Stands(t, pc, a, f, l)) =>
                    Cardinality(B') <= Cardinality(B)
               /\ Stands(t, pc, a, f, l) /\ ~Stands(t, pc, a, f, l)' =>
                    Cardinality(B') = Cardinality(B) - 1
               /\ Cardinality(B') <= Cardinality(B) + 1
               /\ ~Stands(t, pc, a, f, l)' => Cardinality(B') <= Others
               /\ (Serves(t, a, f, l)' => Serves(t, a, f, l)) =>
                    Cardinality(S') <= Cardinality(S)
               /\ Serves(t, a, f, l) /\ ~Serves(t, a, f, l)' =>
                    Cardinality(S') = Cardinality(S) - 1
               /\ Cardinality(S') <= Cardinality(S) + 1
<1>. DEFINE B == Between(pc, a, f, l)
            S == Serving(a, f, l)
<1>1. /\ B \in SUBSET Threads /\ B' \in SUBSET Threads
      /\ \A u \in Threads : u # t => (u \in B <=> u \in B')
      /\ t \in B <=> Stands(t, pc, a, f, l)
      /\ t \in B' <=> Stands(t, pc, a, f, l)'
  BY DEF Between, Stands
<1>2. /\ S \in SUBSET Threads /\ S' \in SUBSET Threads
      /\ \A u \in Threads : u # t => (u \in S <=> u \in S')
      /\ t \in S <=> Serves(t, a, f, l)
      /\ t \in S' <=> Serves(t, a, f, l)'
  BY DEF Serving, Serves, Stands, Pulls
<1>. HIDE DEF B, S
<1>3. /\ Cardinality(B) \in Nat /\ Cardinality(B') \in Nat
      /\ (t \in B' => t \in B) => Cardinality(B') <= Cardinality(B)
      /\ t \in B /\ t \notin B' => Cardinality(B') = Cardinality(B) - 1
      /\ Cardinality(B') <= Cardinality(B) + 1
  BY <1>1, OneMoves
<1>4. /\ Cardinality(S) \in Nat /\ Cardinality(S') \in Nat
      /\ (t \in S' => t \in S) => Cardinality(S') <= Cardinality(S)
      /\ t \in S /\ t \notin S' => Cardinality(S') = Cardinality(S) - 1
      /\ Cardinality(S') <= Cardinality(S) + 1
  BY <1>2, OneMoves
<1>5. t \notin B' => Cardinality(B') <= Others
  BY <1>1, ThreadsCount
<1>6. /\ (Stands(t, pc, a, f, l)' => Stands(t, pc, a, f, l)) =>
           Cardinality(B') <= Cardinality(B)
      /\ Stands(t, pc, a, f, l) /\ ~Stands(t, pc, a, f, l)' =>
           Cardinality(B') = Cardinality(B) - 1
      /\ ~Stands(t, pc, a, f, l)' => Cardinality(B') <= Others
  BY <1>1, <1>3, <1>5
<1>7. /\ (Serves(t, a, f, l)' => Serves(t, a, f, l)) =>
           Cardinality(S') <= Cardinality(S)
      /\ Serves(t, a, f, l) /\ ~Serves(t, a, f, l)' =>
           Cardinality(S') = Cardinality(S) - 1
  BY <1>2, <1>4
<1>. QED
  BY <1>3, <1>4, <1>6, <1>7 DEF B, S

\* At the start nothing has been let through.
LEMMA LimiterInit == Init => LimiterInv
<1>. SUFFICES ASSUME Init PROVE LimiterInv
  OBVIOUS
<1>1. AdmissionInv
  BY AdmissionInit
<1>2. \A first, last : During(<<>>, first, last) = 0
  <2>1. \A first, last : {i \in 1 .. Len(<<>>) : <<>>[i] \in first .. last} = {}
    OBVIOUS
  <2>. QED
    BY <2>1, FS_EmptySet DEF During
<1>3. Timed
  BY DEF Init, Timed, Idle
<1>4. \A k \in Keys : hits[k] = <<>> /\ admitted[k] = <<>>
  BY DEF Init, Keys
<1>5. \A k \in Keys : Short(k)
  <2>1. \A k \in Keys : Limit[k[1]] \in Nat
    BY AdmissionAssumption DEF Keys, Limiters
  <2>. QED
    BY <1>4, <2>1 DEF Short
<1>6. \A k \in Keys : Bounded(k) /\ Overtaken(k) /\ Traced(k)
  BY <1>2, <1>4 DEF Bounded, Overtaken, Traced
<1>7. ASSUME NEW a \in Addresses, NEW f, NEW l
      PROVE /\ Cardinality(Between("auth", a, f, l)) = 0
            /\ Cardinality(Serving(a, f, l)) = 0
  <2>1. Between("auth", a, f, l) = {} /\ Serving(a, f, l) = {}
    BY DEF Init, Idle, Between, Stands, Serving, Serves
  <2>. QED
    BY <2>1, FS_EmptySet
<1>8. \A a \in Addresses :
        /\ served[<<"token", a>>] = <<>> /\ served[<<"pull", a>>] = <<>>
        /\ admitted[<<"admin", a>>] = <<>> /\ admitted[<<"oci", a>>] = <<>>
  BY DEF Init, Services, Limiters
<1>9. Accounted
  BY <1>2, <1>7, <1>8 DEF Accounted
<1>. QED
  BY <1>1, <1>3, <1>5, <1>6, <1>9 DEF LimiterInv, QueueInv, QueueAt

\* A route that pulls is one whose limiter is checked.
LEMMA PullsChecked == \A r \in AllRequests : Pulls(r) => ChecksOci(r)
<1>. SUFFICES ASSUME NEW r \in AllRequests, Pulls(r) PROVE ChecksOci(r)
  OBVIOUS
<1>1. /\ r.path \in {"/v2/n/manifests/r", "/v2/n/blobs/d"}
      /\ r.method \in {"GET", "HEAD"}
  BY DEF Pulls, Pulling, Runs, Routes
<1>. QED
  BY <1>1 DEF ChecksOci, V2Paths

\* What a step does to the thread that takes it and to the clock.
LEMMA ThreadMoves ==
    ASSUME AdmissionInv, NEW t \in Threads,
           \/ \E x \in Traffic : Receive(t, x[1], x[2])
           \/ Stamp(t) \/ Admit(t) \/ Refuse(t) \/ Authenticate(t) \/ Handle(t)
    PROVE  /\ clock' = clock
           /\ \A u \in Threads : u # t => th'[u] = th[u]
           /\ \/ th'[t] = Idle
              \/ th'[t] \in Active /\ th'[t].stamp = NoStamp
                   /\ (th'[t].pc = "handle" => ~ChecksOci(th'[t].req))
              \/ Stamp(t) /\ th[t] \in Active /\ th'[t] \in Active
                   /\ th'[t].stamp = clock /\ th'[t].pc = th[t].pc
              \/ th[t] \in Active /\ th'[t] \in Active
                   /\ th'[t].stamp = th[t].stamp /\ th'[t].addr = th[t].addr
                   /\ th'[t].req = th[t].req
                   /\ \/ Admit(t) /\ th[t].pc = "admin" /\ th'[t].pc = "auth"
                      \/ Admit(t) /\ th[t].pc = "oci" /\ th'[t].pc = "handle"
                      \/ Authenticate(t) /\ th[t].pc = "auth"
                           /\ th'[t].pc = "handle" /\ ~ChecksOci(th[t].req)
<1>0. th \in [Threads -> {Idle} \cup Active] /\ clock \in Stamps
  BY DEF AdmissionInv, TypeOK
<1>1. ASSUME NEW x \in Traffic, Receive(t, x[1], x[2])
      PROVE  /\ clock' = clock
             /\ \A u \in Threads : u # t => th'[u] = th[u]
             /\ th'[t] \in Active /\ th'[t].stamp = NoStamp
             /\ th'[t].pc = "handle" => ~ChecksOci(th'[t].req)
  <2>1. x[1] \in AllRequests /\ x[2] \in Addresses
    BY AdmissionAssumption
  <2>2. Request(IF ChecksToken(x[1]) THEN "admin" ELSE AfterToken(x[1]),
                x[1], x[2], NoStamp) \in Active
    BY <2>1 DEF Request, Active, AfterToken
  <2>3. th'[t] = Request(IF ChecksToken(x[1]) THEN "admin"
                                              ELSE AfterToken(x[1]),
                         x[1], x[2], NoStamp)
    BY <1>0, <1>1 DEF Receive
  <2>4. th'[t].stamp = NoStamp
        /\ (th'[t].pc = "handle" => ~ChecksOci(th'[t].req))
    BY <2>3 DEF Request, AfterToken
  <2>. QED
    BY <1>0, <1>1, <2>2, <2>3, <2>4 DEF Receive
<1>2. CASE Stamp(t)
  <2>1. th[t] \in Active
    BY <1>0, <1>2 DEF Stamp, Idle, Limiters
  <2>2. th'[t] = [th[t] EXCEPT !.stamp = clock]
    BY <1>0, <1>2 DEF Stamp
  <2>. QED
    BY <1>0, <1>2, <2>1, <2>2 DEF Stamp, Active
<1>3. CASE Admit(t)
  <2>1. th[t] \in Active
    BY <1>0, <1>3 DEF Admit, Idle, Limiters
  <2>2. th'[t] = [th[t] EXCEPT !.pc = IF th[t].pc = "admin" THEN "auth"
                                                            ELSE "handle"]
    BY <1>0, <1>3 DEF Admit
  <2>3. th[t].pc = "admin" \/ th[t].pc = "oci"
    BY <1>3 DEF Admit, Limiters
  <2>. QED
    BY <1>0, <1>3, <2>1, <2>2, <2>3 DEF Admit, Active
<1>4. CASE Refuse(t) \/ Handle(t)
  BY <1>0, <1>4 DEF Refuse, Handle
<1>5. CASE Authenticate(t)
  <2>1. th[t] \in Active /\ th[t].pc = "auth"
    BY <1>0, <1>5 DEF Authenticate, Idle
  <2>2. clock' = clock /\ \A u \in Threads : u # t => th'[u] = th[u]
    BY <1>0, <1>5 DEF Authenticate
  <2>3. CASE ~Accepted(th[t].req)
    BY <1>0, <1>5, <2>2, <2>3 DEF Authenticate
  <2>4. CASE Accepted(th[t].req) /\ ChecksOci(th[t].req)
    <3>1. th'[t] = Request("oci", th[t].req, th[t].addr, NoStamp)
      BY <1>0, <1>5, <2>4 DEF Authenticate
    <3>. QED
      BY <2>1, <2>2, <3>1 DEF Request, Active
  <2>5. CASE Accepted(th[t].req) /\ ~ChecksOci(th[t].req)
    <3>1. th'[t] = [th[t] EXCEPT !.pc = "handle"]
      BY <1>0, <1>5, <2>5 DEF Authenticate
    <3>. QED
      BY <1>5, <2>1, <2>2, <2>5, <3>1 DEF Active
  <2>. QED
    BY <2>3, <2>4, <2>5
<1>. QED
  BY <1>1, <1>2, <1>3, <1>4, <1>5

\* Steps keep the stamps in the past.
LEMMA TimedStep == AdmissionInv /\ Timed /\ [Next]_vars => Timed'
<1>. SUFFICES ASSUME AdmissionInv, Timed, [Next]_vars PROVE Timed'
  OBVIOUS
<1>0. /\ th \in [Threads -> {Idle} \cup Active] /\ clock \in Nat
      /\ \A u \in Threads : th[u].pc # "idle" => th[u] \in Active
      /\ \A r \in Active : r.stamp \in Int /\ r.req \in AllRequests
      /\ Idle.pc = "idle"
  BY DEF AdmissionInv, TypeOK, Idle, Active, NoStamp, Stamps
<1>1. ASSUME NEW t \in Threads,
             \/ \E x \in Traffic : Receive(t, x[1], x[2])
             \/ Stamp(t) \/ Admit(t) \/ Refuse(t) \/ Authenticate(t) \/ Handle(t)
      PROVE  Timed'
  <2>. DEFINE Good(r, c) ==
         /\ r.stamp <= c
         /\ r.pc = "handle" /\ Pulls(r.req) => r.stamp # NoStamp
  <2>0. /\ clock' = clock
        /\ \A u \in Threads : u # t => th'[u] = th[u]
    BY <1>1, ThreadMoves
  <2>1. th'[t].pc # "idle" => Good(th'[t], clock)
    <3>1. CASE th'[t] = Idle
      BY <3>1, <1>0
    <3>2. CASE th'[t] \in Active /\ th'[t].stamp = NoStamp
                 /\ (th'[t].pc = "handle" => ~ChecksOci(th'[t].req))
      BY <3>2, <1>0, PullsChecked DEF NoStamp
    <3>3. CASE Stamp(t) /\ th'[t].stamp = clock /\ th'[t].pc = th[t].pc
      BY <3>3, <1>0 DEF Stamp, Limiters
    <3>4. CASE th[t] \in Active /\ th'[t] \in Active
                 /\ th'[t].stamp = th[t].stamp /\ th'[t].req = th[t].req
                 /\ \/ Admit(t)
                    \/ Authenticate(t) /\ ~ChecksOci(th[t].req)
      <4>1. th[t].pc # "idle" /\ (Admit(t) => th[t].stamp # NoStamp)
        BY <3>4 DEF Active, Admit
      <4>2. ~Admit(t) => ~Pulls(th[t].req)
        BY <3>4, <1>0, PullsChecked
      <4>. QED
        BY <3>4, <4>1, <4>2 DEF Timed
    <3>. QED
      BY <1>1, <3>1, <3>2, <3>3, <3>4, ThreadMoves
  <2>2. \A u \in Threads : th'[u].pc # "idle" => Good(th'[u], clock)
    BY <2>0, <2>1 DEF Timed
  <2>. QED
    BY <2>0, <2>2 DEF Timed, Pulls
<1>2. CASE Tick \/ UNCHANGED vars
  <2>1. th' = th /\ clock \in Nat /\ (clock' = clock + 1 \/ clock' = clock)
    BY <1>0, <1>2 DEF Tick, vars
  <2>2. \A u \in Threads : th[u].pc # "idle" => th[u].stamp \in Int
    BY <1>0
  <2>3. \A u \in Threads : th[u].pc # "idle" => th[u].stamp <= clock'
    BY <2>1, <2>2 DEF Timed
  <2>. QED
    BY <2>1, <2>3 DEF Timed, Pulls
<1>. QED
  BY <1>1, <1>2 DEF Next

\* The types the counting arguments need.
LEMMA LimiterTypes ==
    ASSUME TypeOK
    PROVE  /\ \A k \in Keys : /\ hits[k] \in Seq(Stamps)
                              /\ admitted[k] \in Seq(Stamps)
                              /\ Limit[k[1]] \in Nat \ {0}
                              /\ k[1] \in Limiters
           /\ clock \in Nat /\ Others \in Nat
           /\ Window \in Nat \ {0} /\ MaxTime \in Nat
           /\ \A s \in Stamps : s \in Nat /\ s - Window + 1 \in Int
<1>1. Others \in Nat
  BY ThreadsCount
<1>. QED
  BY <1>1, AdmissionAssumption DEF TypeOK, Keys, Stamps

\* A step that leaves a deque alone, and after which no thread waits with a
\* stamp from before the clock that did not wait with it already.
Quiet(t, k) ==
    /\ hits'[k] = hits[k] /\ admitted'[k] = admitted[k]
    /\ clock' \in Nat /\ clock <= clock'
    /\ \A u \in Threads : u # t => th'[u] = th[u]
    /\ \A f, l \in Int : l < clock =>
         (Stands(t, k[1], k[2], f, l)' => Stands(t, k[1], k[2], f, l))

LEMMA QueueQuiet ==
    ASSUME TypeOK, NEW k \in Keys, QueueAt(k), NEW t \in Threads, Quiet(t, k)
    PROVE  QueueAt(k)'
<1>. USE DEF QueueAt
<1>1. /\ hits'[k] = hits[k] /\ admitted'[k] = admitted[k]
      /\ clock \in Nat /\ clock' \in Nat /\ clock <= clock'
      /\ \A s \in Stamps : s \in Nat /\ s - Window + 1 \in Int
      /\ Limit[k[1]] \in Nat
      /\ hits[k] \in Seq(Stamps) /\ admitted[k] \in Seq(Stamps)
      /\ Others \in Nat
  BY LimiterTypes DEF Quiet
<1>2. ASSUME NEW f \in Int, NEW l \in Int, l < clock
      PROVE  /\ Cardinality(Between(k[1], k[2], f, l)) \in Nat
             /\ Cardinality(Between(k[1], k[2], f, l)') \in Nat
             /\ Cardinality(Between(k[1], k[2], f, l)')
                  <= Cardinality(Between(k[1], k[2], f, l))
  BY <1>2, BetweenMoves DEF Quiet
<1>3. Short(k)' /\ Traced(k)'
  BY <1>1 DEF Short, Traced
<1>4. Bounded(k)'
  <2>. SUFFICES ASSUME NEW s \in Stamps
                PROVE  \/ During(admitted[k], s - Window + 1, s)
                            = During(hits[k], s - Window + 1, s)
                       \/ /\ s < clock'
                          /\ During(admitted[k], s - Window + 1, s)
                               + Cardinality(Between(k[1], k[2],
                                                     s - Window + 1, s)')
                               <= Limit[k[1]] + Others
    BY <1>1 DEF Bounded
  <2>1. CASE s < clock
    <3>1. /\ Cardinality(Between(k[1], k[2], s - Window + 1, s)) \in Nat
          /\ Cardinality(Between(k[1], k[2], s - Window + 1, s)') \in Nat
          /\ Cardinality(Between(k[1], k[2], s - Window + 1, s)')
               <= Cardinality(Between(k[1], k[2], s - Window + 1, s))
      BY <1>1, <1>2, <2>1
    <3>2. During(admitted[k], s - Window + 1, s) \in Nat
      BY <1>1, DuringNat
    <3>3. \/ During(admitted[k], s - Window + 1, s)
               = During(hits[k], s - Window + 1, s)
          \/ During(admitted[k], s - Window + 1, s)
               + Cardinality(Between(k[1], k[2], s - Window + 1, s))
               <= Limit[k[1]] + Others
      BY Zenon DEF Bounded
    <3>4. s < clock'
      BY <1>1, <2>1
    <3>5. Limit[k[1]] \in Nat /\ Others \in Nat
      BY <1>1
    <3>6. During(admitted[k], s - Window + 1, s)
             + Cardinality(Between(k[1], k[2], s - Window + 1, s))
             <= Limit[k[1]] + Others
          => During(admitted[k], s - Window + 1, s)
               + Cardinality(Between(k[1], k[2], s - Window + 1, s)')
               <= Limit[k[1]] + Others
      <4>. DEFINE d == During(admitted[k], s - Window + 1, s)
                  b == Cardinality(Between(k[1], k[2], s - Window + 1, s))
                  c == Cardinality(Between(k[1], k[2], s - Window + 1, s)')
                  x == Limit[k[1]]
      <4>1. d \in Nat /\ b \in Nat /\ c \in Nat /\ x \in Nat /\ c <= b
        BY <3>1, <3>2, <3>5
      <4>. HIDE DEF d, b, c, x
      <4>2. d + b <= x + Others => d + c <= x + Others
        BY <4>1, <3>5
      <4>. QED
        BY <4>2 DEF d, b, c, x
    <3>. QED
      BY <3>3, <3>4, <3>6, Zenon
  <2>2. CASE ~(s < clock)
    BY <2>2 DEF Bounded
  <2>. QED
    BY <2>1, <2>2
<1>5. Overtaken(k)'
  <2>. SUFFICES ASSUME NEW v \in Stamps,
                       NEW i \in 1 .. Len(hits[k]), hits[k][i] = v
                PROVE  /\ v <= clock'
                       /\ Cardinality(Earlier(hits[k], i))
                            + Cardinality(Between(k[1], k[2], 0, v - 1)')
                            <= Others
    BY <1>1 DEF Overtaken
  <2>1. /\ v <= clock
        /\ Cardinality(Earlier(hits[k], i))
             + Cardinality(Between(k[1], k[2], 0, v - 1)) <= Others
    BY DEF Overtaken
  <2>2. v \in Nat /\ v - 1 \in Int /\ 0 \in Int /\ v - 1 < clock
    <3>1. v \in Nat /\ clock \in Nat
      BY <1>1
    <3>2. v <= clock
      BY <2>1, Zenon
    <3>. HIDE DEF QueueAt
    <3>. QED
      BY <3>1, <3>2
  <2>3. /\ Cardinality(Between(k[1], k[2], 0, v - 1)) \in Nat
        /\ Cardinality(Between(k[1], k[2], 0, v - 1)') \in Nat
        /\ Cardinality(Between(k[1], k[2], 0, v - 1)')
             <= Cardinality(Between(k[1], k[2], 0, v - 1))
    BY <1>2, <2>2
  <2>4. Cardinality(Earlier(hits[k], i)) \in Nat
    BY <1>1, EarlierAppend
  <2>. DEFINE e == Cardinality(Earlier(hits[k], i))
              b == Cardinality(Between(k[1], k[2], 0, v - 1))
              c == Cardinality(Between(k[1], k[2], 0, v - 1)')
  <2>5. /\ e \in Nat /\ b \in Nat /\ c \in Nat /\ c <= b /\ e + b <= Others
        /\ v \in Nat /\ v <= clock
    BY <2>1, <2>2, <2>3, <2>4, Zenon
  <2>6. /\ Others \in Nat /\ clock \in Nat /\ clock' \in Nat
        /\ clock <= clock'
    BY <1>1, Zenon
  <2>. HIDE DEF e, b, c, QueueAt
  <2>7. v <= clock' /\ e + c <= Others
    BY <2>5, <2>6
  <2>. QED
    BY <2>7 DEF e, c
<1>. QED
  BY <1>3, <1>4, <1>5

\* Every step but the two that hold the lock is quiet.
LEMMA QueueSteps ==
    ASSUME AdmissionInv, Timed, [Next]_vars
    PROVE  \E t \in Threads :
             (\A k \in Keys : Quiet(t, k)) \/ Admit(t) \/ Refuse(t)
<1>0. /\ th \in [Threads -> {Idle} \cup Active] /\ clock \in Nat
      /\ Idle.pc = "idle"
      /\ \A k \in Keys : k[1] \in {"admin", "oci"}
  BY DEF AdmissionInv, TypeOK, Idle, Stamps, Keys, Limiters
<1>1. ASSUME NEW t \in Threads,
             \/ \E x \in Traffic : Receive(t, x[1], x[2])
             \/ Stamp(t) \/ Authenticate(t) \/ Handle(t)
      PROVE  \A k \in Keys : Quiet(t, k)
  <2>1. /\ UNCHANGED <<hits, admitted>>
        /\ clock' = clock
        /\ \A u \in Threads : u # t => th'[u] = th[u]
    BY <1>1, ThreadMoves DEF Receive, Stamp, Authenticate, Handle
  <2>2. ASSUME NEW k \in Keys, NEW f \in Int, NEW l \in Int, l < clock,
               Stands(t, k[1], k[2], f, l)'
        PROVE  Stands(t, k[1], k[2], f, l)
    <3>1. /\ th'[t].pc \in {"admin", "oci"} /\ th'[t].stamp # NoStamp
          /\ th'[t].stamp \in f .. l
      BY <1>0, <2>2 DEF Stands
    <3>2. th'[t] # Idle /\ th'[t].stamp # clock /\ th'[t].pc # "auth"
          /\ th'[t].pc # "handle"
      BY <1>0, <2>2, <3>1
    <3>. QED
      BY <1>1, <3>1, <3>2, ThreadMoves
  <2>. QED
    BY <1>0, <2>1, <2>2 DEF Quiet
<1>2. CASE Tick \/ UNCHANGED vars
  <2>1. /\ UNCHANGED <<hits, admitted, th>>
        /\ clock' \in Nat /\ clock <= clock'
    BY <1>0, <1>2 DEF Tick, vars
  <2>2. PICK t \in Threads : TRUE
    BY AdmissionAssumption
  <2>3. \A k \in Keys : Quiet(t, k)
    BY <2>1 DEF Quiet, Stands
  <2>. QED
    BY <2>3
<1>. QED
  BY <1>1, <1>2 DEF Next

\* What is_allowed leaves in the deque it evicts from, for a thread that is
\* about to leave the limiter: a later stamp takes the second disjunct of
\* Bounded, and the thread no longer counts among those that wait.
One(cond) == IF cond THEN 1 ELSE 0
Leaves(t, k, x) ==
    /\ th[t] \in Active /\ k = <<th[t].pc, th[t].addr>> /\ x = th[t].stamp
    /\ k \in Keys /\ x \in Stamps /\ x <= clock
    /\ \A u \in Threads : u # t => th'[u] = th[u]
    /\ \A c \in Keys : \A f, l \in Int : ~Stands(t, c[1], c[2], f, l)'

LEMMA LeavesStands ==
    ASSUME NEW t \in Threads, NEW k \in Keys, NEW x \in Stamps, Leaves(t, k, x),
           NEW f \in Int, NEW l \in Int
    PROVE  /\ x \in f .. l <=> Stands(t, k[1], k[2], f, l)
           /\ ~Stands(t, k[1], k[2], f, l)'
           /\ x <= clock
<1>1. k[1] = th[t].pc /\ k[2] = th[t].addr /\ x = th[t].stamp /\ x <= clock
  BY DEF Leaves
<1>2. x # NoStamp
  BY DEF Stamps, NoStamp
<1>3. ~Stands(t, k[1], k[2], f, l)'
  BY Zenon DEF Leaves
<1>4. x \in f .. l <=> Stands(t, k[1], k[2], f, l)
  BY <1>1, <1>2 DEF Stands
<1>. QED
  BY <1>1, <1>3, <1>4

LEMMA LeavesBounded ==
    ASSUME TypeOK, QueueInv, NEW t \in Threads, NEW k \in Keys, NEW x \in Stamps,
           Leaves(t, k, x), NEW s \in Stamps
    PROVE  LET f == s - Window + 1
           IN  \/ During(admitted[k], f, s) = During(Evicted(hits[k], x), f, s)
               \/ /\ s < clock
                  /\ During(admitted[k], f, s) + One(x \in f .. s)
                       + Cardinality(Between(k[1], k[2], f, s)')
                       <= Limit[k[1]] + Others
<1>. DEFINE f == s - Window + 1
            d == During(admitted[k], f, s)
            h == During(hits[k], f, s)
            b == Cardinality(Between(k[1], k[2], f, s))
            c == Cardinality(Between(k[1], k[2], f, s)')
            n == Limit[k[1]]
<1>1. /\ hits[k] \in Seq(Stamps) /\ admitted[k] \in Seq(Stamps)
      /\ n \in Nat /\ Others \in Nat /\ clock \in Nat
      /\ s \in Nat /\ f \in Int /\ x \in Nat
      /\ Window \in Nat \ {0}
  BY LimiterTypes
<1>2. d \in Nat /\ h \in Nat /\ h <= Len(hits[k]) /\ Len(hits[k]) \in Nat
  BY <1>1, DuringNat, LenProperties
<1>3. Len(hits[k]) <= n
  BY DEF QueueInv, QueueAt, Short
<1>4. d = h \/ (s < clock /\ d + b <= n + Others)
  BY Zenon DEF QueueInv, QueueAt, Bounded
<1>5. /\ x \in f .. s <=> Stands(t, k[1], k[2], f, s)
      /\ ~Stands(t, k[1], k[2], f, s)'
      /\ x <= clock
  BY <1>1, LeavesStands
<1>6. /\ b \in Nat /\ c \in Nat /\ c <= b /\ c <= Others
      /\ x \in f .. s => c = b - 1
  BY <1>5, BetweenMoves DEF Leaves
<1>7. x <= s => During(Evicted(hits[k], x), f, s) = h
  <2>. SUFFICES ASSUME x <= s PROVE During(Evicted(hits[k], x), f, s) = h
    OBVIOUS
  <2>1. x - Window < f /\ s \in Int
    BY <1>1
  <2>. HIDE DEF f
  <2>. QED
    BY <1>1, <2>1, DuringEvicted
<1>8. x > s => s < clock /\ ~(x \in f .. s)
  BY <1>1, <1>5
<1>9. x \in f .. s \/ ~(x \in f .. s)
  OBVIOUS
<1>. HIDE DEF d, h, b, c, n
<1>10. CASE d = h
  <2>1. CASE x <= s
    BY <1>10, <1>7, <2>1 DEF d, h
  <2>2. CASE x > s
    <3>1. s < clock /\ One(x \in f .. s) = 0
      BY <1>8, <2>2 DEF One
    <3>2. d + 0 + c <= n + Others
      BY <1>1, <1>2, <1>3, <1>6, <1>10
    <3>. QED
      BY <3>1, <3>2 DEF d, c, n
  <2>. QED
    BY <1>1, <2>1, <2>2
<1>11. CASE s < clock /\ d + b <= n + Others
  <2>1. d + One(x \in f .. s) + c <= n + Others
    <3>1. CASE x \in f .. s
      <4>1. One(x \in f .. s) = 1 /\ c = b - 1
        BY <1>6, <3>1 DEF One
      <4>. QED
        BY <1>1, <1>2, <1>6, <1>11, <4>1
    <3>2. CASE ~(x \in f .. s)
      <4>1. One(x \in f .. s) = 0
        BY <3>2 DEF One
      <4>. QED
        BY <1>1, <1>2, <1>6, <1>11, <4>1
    <3>. QED
      BY <3>1, <3>2
  <2>. QED
    BY <1>11, <2>1 DEF d, c, n
<1>. QED
  BY <1>4, <1>10, <1>11

\* The stamps that stay, and those behind them.
LEMMA LeavesOvertaken ==
    ASSUME TypeOK, QueueInv, NEW t \in Threads, NEW k \in Keys, NEW x \in Stamps,
           Leaves(t, k, x), NEW v \in Stamps,
           NEW i \in 1 .. Len(Evicted(hits[k], x)), Evicted(hits[k], x)[i] = v
    PROVE  /\ v <= clock
           /\ Cardinality(Earlier(Evicted(hits[k], x), i)) + One(x < v)
                + Cardinality(Between(k[1], k[2], 0, v - 1)') <= Others
<1>. DEFINE q == Evicted(hits[k], x)
            e == Cardinality(Earlier(q, i))
            b == Cardinality(Between(k[1], k[2], 0, v - 1))
            c == Cardinality(Between(k[1], k[2], 0, v - 1)')
<1>1. /\ hits[k] \in Seq(Stamps) /\ q \in Seq(Stamps)
      /\ Others \in Nat /\ clock \in Nat /\ v \in Nat /\ x \in Nat
  BY LimiterTypes, EvictedType
<1>2. PICK j \in 1 .. Len(hits[k]) :
        q[i] = hits[k][j] /\ e <= Cardinality(Earlier(hits[k], j))
  BY <1>1, EarlierEvicted
<1>3. v <= clock /\ Cardinality(Earlier(hits[k], j)) + b <= Others
  BY <1>2, Zenon DEF QueueInv, QueueAt, Overtaken
<1>4. e \in Nat /\ Cardinality(Earlier(hits[k], j)) \in Nat
  BY <1>1, EarlierAppend
<1>5. /\ x < v <=> Stands(t, k[1], k[2], 0, v - 1)
      /\ ~Stands(t, k[1], k[2], 0, v - 1)'
  <2>1. 0 \in Int /\ v - 1 \in Int /\ (x \in 0 .. v - 1 <=> x < v)
    BY <1>1
  <2>2. /\ x \in 0 .. v - 1 <=> Stands(t, k[1], k[2], 0, v - 1)
        /\ ~Stands(t, k[1], k[2], 0, v - 1)'
    BY <2>1, LeavesStands
  <2>. QED
    BY <2>1, <2>2
<1>6. b \in Nat /\ c \in Nat /\ c <= b /\ (x < v => c = b - 1)
  BY <1>5, BetweenMoves DEF Leaves
<1>. HIDE DEF e, b, c
<1>7. CASE x < v
  <2>1. One(x < v) = 1
    BY <1>7 DEF One
  <2>2. e + 1 + c <= Others
    BY <1>1, <1>2, <1>3, <1>4, <1>6, <1>7
  <2>. QED
    BY <1>3, <2>1, <2>2 DEF e, c
<1>8. CASE ~(x < v)
  <2>1. One(x < v) = 0
    BY <1>8 DEF One
  <2>2. e + 0 + c <= Others
    BY <1>1, <1>2, <1>3, <1>4, <1>6
  <2>. QED
    BY <1>3, <2>1, <2>2 DEF e, c
<1>. QED
  BY <1>7, <1>8

\* A thread that holds the lock leaves the limiter.
LEMMA LockHeld ==
    ASSUME AdmissionInv, Timed, NEW t \in Threads, Admit(t) \/ Refuse(t)
    PROVE  LET k == <<th[t].pc, th[t].addr>>
               x == th[t].stamp
               q == Evicted(hits[k], x)
           IN  /\ Leaves(t, k, x) /\ k \in Keys /\ x \in Stamps
               /\ clock' = clock
               /\ q \in Seq(Stamps)
               /\ Admit(t) => /\ Len(q) < Limit[k[1]]
                              /\ hits'[k] = Append(q, x)
                              /\ admitted'[k] = Append(admitted[k], x)
               /\ Refuse(t) => /\ Len(q) >= Limit[k[1]]
                               /\ hits'[k] = q
                               /\ admitted'[k] = admitted[k]
               /\ \A c \in Keys : c # k => /\ hits'[c] = hits[c]
                                           /\ admitted'[c] = admitted[c]
<1>. DEFINE k == <<th[t].pc, th[t].addr>>
            x == th[t].stamp
            q == Evicted(hits[k], x)
<1>1. /\ th \in [Threads -> {Idle} \cup Active] /\ clock \in Nat
      /\ hits \in [Keys -> Seq(Stamps)] /\ admitted \in [Keys -> Seq(Stamps)]
  BY DEF AdmissionInv, TypeOK, Keys, Stamps
<1>2. th[t].pc \in Limiters /\ x # NoStamp
  BY DEF Admit, Refuse
<1>3. th[t] \in Active
  BY <1>1, <1>2 DEF Idle, Limiters
<1>4. k \in Keys /\ x \in Stamps /\ th[t].pc # "idle"
  BY <1>2, <1>3 DEF Active, Keys, Limiters
<1>5. x <= clock
  BY <1>4 DEF Timed
<1>6. clock' = clock /\ \A u \in Threads : u # t => th'[u] = th[u]
  BY ThreadMoves
<1>7. \A c \in Keys : \A f, l \in Int : ~Stands(t, c[1], c[2], f, l)'
  <2>1. th'[t].pc \notin Limiters
    <3>1. CASE Admit(t)
      <4>1. th'[t] = [th[t] EXCEPT !.pc = IF th[t].pc = "admin" THEN "auth"
                                                                ELSE "handle"]
        BY <1>1, <3>1 DEF Admit
      <4>. QED
        BY <1>3, <4>1 DEF Active, Limiters
    <3>2. CASE Refuse(t)
      BY <1>1, <3>2 DEF Refuse, Idle, Limiters
    <3>. QED
      BY <3>1, <3>2
  <2>2. \A c \in Keys : c[1] \in Limiters
    BY DEF Keys
  <2>. QED
    BY <2>1, <2>2 DEF Stands
<1>8. Leaves(t, k, x)
  BY <1>3, <1>4, <1>5, <1>6, <1>7 DEF Leaves
<1>9. q \in Seq(Stamps)
  BY <1>1, <1>4, EvictedType
<1>10. CASE Admit(t)
  <2>1. /\ hits' = [hits EXCEPT ![k] = Append(q, x)]
        /\ admitted' = [admitted EXCEPT ![k] = Append(admitted[k], x)]
    BY <1>1, <1>4, <1>10 DEF Admit, Log
  <2>2. ~(Len(q) >= Limit[k[1]])
    BY <1>10 DEF Admit, Full
  <2>3. Len(q) \in Nat /\ Limit[k[1]] \in Nat
    BY <1>2, <1>9, LenProperties, AdmissionAssumption
  <2>4. ~Refuse(t)
    BY <1>10 DEF Admit, Refuse
  <2>5. Len(q) < Limit[k[1]]
    BY <2>2, <2>3
  <2>. HIDE DEF q
  <2>6. hits'[k] = Append(q, x) /\ admitted'[k] = Append(admitted[k], x)
    BY <1>1, <1>4, <2>1
  <2>7. \A c \in Keys : c # k => hits'[c] = hits[c] /\ admitted'[c] = admitted[c]
    BY <1>1, <2>1
  <2>. QED
    BY <1>4, <1>6, <1>8, <1>9, <2>4, <2>5, <2>6, <2>7, Zenon DEF q
<1>11. CASE Refuse(t)
  <2>1. hits' = [hits EXCEPT ![k] = q] /\ admitted' = admitted
    BY <1>1, <1>4, <1>11 DEF Refuse
  <2>2. Len(q) >= Limit[k[1]]
    BY <1>11 DEF Refuse, Full
  <2>3. ~Admit(t)
    BY <1>11 DEF Admit, Refuse
  <2>. HIDE DEF q
  <2>4. hits'[k] = q /\ admitted'[k] = admitted[k]
    BY <1>1, <1>4, <2>1
  <2>5. \A c \in Keys : c # k => hits'[c] = hits[c] /\ admitted'[c] = admitted[c]
    BY <1>1, <2>1
  <2>. QED
    BY <1>4, <1>6, <1>8, <1>9, <2>2, <2>3, <2>4, <2>5, Zenon DEF q
<1>. QED
  BY <1>10, <1>11

\* What is in the deque after an eviction was let through.
LEMMA EvictedTraced ==
    ASSUME TypeOK, NEW k \in Keys, QueueAt(k), NEW x \in Stamps, NEW s \in Stamps
    PROVE  LET f == s - Window + 1
               e == During(Evicted(hits[k], x), f, MaxTime)
               d == During(admitted[k], f, MaxTime)
           IN  e \in Nat /\ d \in Nat /\ e <= d
<1>. DEFINE f == s - Window + 1
            e == During(Evicted(hits[k], x), f, MaxTime)
            d == During(admitted[k], f, MaxTime)
            h == During(hits[k], f, MaxTime)
<1>1. /\ hits[k] \in Seq(Stamps) /\ admitted[k] \in Seq(Stamps)
      /\ Evicted(hits[k], x) \in Seq(Stamps) /\ f \in Int /\ MaxTime \in Int
  BY LimiterTypes, EvictedType
<1>2. e \in Nat /\ d \in Nat /\ h \in Nat
  BY <1>1, DuringNat
<1>3. h <= d
  BY DEF QueueAt, Traced
<1>4. e <= h
  <2>. HIDE DEF f
  <2>. QED
    BY <1>1, DuringEvicted
<1>. HIDE DEF e, d, h
<1>5. e <= d
  BY <1>2, <1>3, <1>4
<1>. QED
  BY <1>2, <1>5 DEF e, d

\* A refusal evicts.
LEMMA QueueRefuse ==
    ASSUME AdmissionInv, Timed, QueueInv, NEW t \in Threads, Refuse(t),
           NEW k \in Keys, k = <<th[t].pc, th[t].addr>>
    PROVE  QueueAt(k)'
<1>0. TypeOK /\ QueueAt(k)
  BY DEF AdmissionInv, QueueInv
<1>1. PICK x \in Stamps : x = th[t].stamp
  BY LockHeld
<1>. DEFINE q == Evicted(hits[k], x)
<1>2. /\ Leaves(t, k, x) /\ clock' = clock /\ q \in Seq(Stamps)
      /\ hits'[k] = q /\ admitted'[k] = admitted[k]
  BY <1>1, LockHeld
<1>3. Short(k)'
  <2>1. Len(q) <= Len(hits[k]) /\ Len(q) \in Nat /\ Len(hits[k]) \in Nat
    <3>1. hits[k] \in Seq(Stamps)
      BY <1>0, LimiterTypes
    <3>2. \E m \in Nat : m <= Len(hits[k]) /\ Len(q) = Len(hits[k]) - m
      BY <3>1, EvictedSuffix
    <3>. HIDE DEF q
    <3>3. Len(hits[k]) \in Nat /\ Len(q) \in Nat
      BY <1>2, <3>1, LenProperties
    <3>. QED
      BY <3>2, <3>3
  <2>2. Len(hits[k]) <= Limit[k[1]] /\ Limit[k[1]] \in Nat
    BY <1>0, LimiterTypes DEF QueueAt, Short
  <2>. HIDE DEF q
  <2>3. Len(q) <= Limit[k[1]]
    BY <2>1, <2>2
  <2>. QED
    BY <1>2, <2>3 DEF Short
<1>4. Bounded(k)'
  <2>. SUFFICES ASSUME NEW s \in Stamps
                PROVE  \/ During(admitted[k], s - Window + 1, s)
                            = During(q, s - Window + 1, s)
                       \/ /\ s < clock
                          /\ During(admitted[k], s - Window + 1, s)
                               + Cardinality(Between(k[1], k[2],
                                                     s - Window + 1, s)')
                               <= Limit[k[1]] + Others
    BY <1>2, Zenon DEF Bounded
  <2>. DEFINE d == During(admitted[k], s - Window + 1, s)
              o == One(x \in s - Window + 1 .. s)
              c == Cardinality(Between(k[1], k[2], s - Window + 1, s)')
              n == Limit[k[1]]
  <2>1. \/ d = During(q, s - Window + 1, s)
        \/ s < clock /\ d + o + c <= n + Others
    BY <1>0, <1>2, LeavesBounded
  <2>2. d \in Nat /\ n \in Nat /\ Others \in Nat
    BY <1>0, DuringNat, LimiterTypes
  <2>3. c \in Nat
    BY <1>2, BetweenMoves DEF Leaves
  <2>4. o \in Nat
    BY DEF One
  <2>. HIDE DEF d, o, c, n
  <2>5. d + o + c <= n + Others => d + c <= n + Others
    BY <2>2, <2>3, <2>4
  <2>. QED
    BY <2>1, <2>5, Zenon DEF d, c, n
<1>5. Overtaken(k)'
  <2>. HIDE DEF q
  <2>. SUFFICES ASSUME NEW v \in Stamps, NEW i \in 1 .. Len(q), q[i] = v
                PROVE  /\ v <= clock
                       /\ Cardinality(Earlier(q, i))
                            + Cardinality(Between(k[1], k[2], 0, v - 1)')
                            <= Others
    BY <1>2, Zenon DEF Overtaken
  <2>. USE DEF q
  <2>. DEFINE e == Cardinality(Earlier(q, i))
              o == One(x < v)
              c == Cardinality(Between(k[1], k[2], 0, v - 1)')
  <2>1. v <= clock /\ e + o + c <= Others
    BY <1>0, <1>2, LeavesOvertaken
  <2>2. c \in Nat /\ Others \in Nat
    BY <1>0, <1>2, BetweenMoves, LimiterTypes DEF Leaves
  <2>3. o \in Nat /\ e \in Nat
    BY <1>2, EarlierAppend DEF One
  <2>. HIDE DEF e, o, c
  <2>4. e + c <= Others
    BY <2>1, <2>2, <2>3
  <2>. QED
    BY <2>1, <2>4 DEF e, c
<1>6. Traced(k)'
  <2>. SUFFICES ASSUME NEW s \in Stamps
                PROVE  During(q, s - Window + 1, MaxTime)
                         <= During(admitted[k], s - Window + 1, MaxTime)
    BY <1>2, Zenon DEF Traced
  <2>. QED
    BY <1>0, EvictedTraced
<1>. QED
  BY <1>3, <1>4, <1>5, <1>6 DEF QueueAt

\* A request that is let through evicts and appends its stamp.
LEMMA QueueAdmit ==
    ASSUME AdmissionInv, Timed, QueueInv, NEW t \in Threads, Admit(t),
           NEW k \in Keys, k = <<th[t].pc, th[t].addr>>
    PROVE  QueueAt(k)'
<1>0. TypeOK /\ QueueAt(k)
  BY DEF AdmissionInv, QueueInv
<1>1. PICK x \in Stamps : x = th[t].stamp
  BY LockHeld
<1>. DEFINE q == Evicted(hits[k], x)
            r == Append(q, x)
            p == Append(admitted[k], x)
<1>2. /\ Leaves(t, k, x) /\ clock' = clock /\ q \in Seq(Stamps)
      /\ hits'[k] = r /\ admitted'[k] = p
      /\ Len(q) < Limit[k[1]]
  BY <1>1, LockHeld
<1>3. /\ admitted[k] \in Seq(Stamps) /\ Limit[k[1]] \in Nat /\ Others \in Nat
      /\ clock \in Nat /\ MaxTime \in Int
      /\ \A s \in Stamps : s \in Int /\ s - Window + 1 \in Int
  BY <1>0, LimiterTypes
<1>4. /\ Len(q) \in Nat /\ Len(r) = Len(q) + 1
      /\ \A i \in 1 .. Len(q) : r[i] = q[i]
      /\ r[Len(q) + 1] = x
  BY <1>2, LenProperties, AppendProperties
<1>5. Short(k)'
  <2>1. Len(r) <= Limit[k[1]]
    <3>. HIDE DEF q, r
    <3>. QED
      BY <1>2, <1>3, <1>4
  <2>. QED
    BY <1>2, <2>1 DEF Short
<1>6. Bounded(k)'
  <2>. SUFFICES ASSUME NEW s \in Stamps
                PROVE  \/ During(p, s - Window + 1, s)
                            = During(r, s - Window + 1, s)
                       \/ /\ s < clock
                          /\ During(p, s - Window + 1, s)
                               + Cardinality(Between(k[1], k[2],
                                                     s - Window + 1, s)')
                               <= Limit[k[1]] + Others
    BY <1>2, Zenon DEF Bounded
  <2>. DEFINE f == s - Window + 1
              d == During(admitted[k], f, s)
              h == During(q, f, s)
              o == One(x \in f .. s)
              c == Cardinality(Between(k[1], k[2], f, s)')
              n == Limit[k[1]]
  <2>1. d = h \/ (s < clock /\ d + o + c <= n + Others)
    BY <1>0, <1>2, LeavesBounded
  <2>2. f \in Int /\ s \in Int
    BY <1>3
  <2>3. During(p, f, s) = d + o /\ During(r, f, s) = h + o
    <3>. HIDE DEF f, q
    <3>. QED
      BY <1>2, <1>3, <2>2, DuringAppend DEF One
  <2>. HIDE DEF d, h, o, c, n, f, p, r
  <2>. QED
    BY <2>1, <2>3, Zenon DEF f, c, n
<1>7. Overtaken(k)'
  <2>. SUFFICES ASSUME NEW v \in Stamps, NEW i \in 1 .. Len(r), r[i] = v
                PROVE  /\ v <= clock
                       /\ Cardinality(Earlier(r, i))
                            + Cardinality(Between(k[1], k[2], 0, v - 1)')
                            <= Others
    BY <1>2, Zenon DEF Overtaken
  <2>. DEFINE e == Cardinality(Earlier(r, i))
              c == Cardinality(Between(k[1], k[2], 0, v - 1)')
  <2>0. v \in Int /\ v - 1 \in Int /\ 0 \in Int
    BY <1>3
  <2>1. c \in Nat /\ c <= Others /\ x <= clock
    <3>1. ~Stands(t, k[1], k[2], 0, v - 1)' /\ x <= clock
      BY <1>2, <2>0, LeavesStands
    <3>. QED
      BY <1>2, <3>1, BetweenMoves DEF Leaves
  <2>2. CASE i \in 1 .. Len(q)
    <3>1. q[i] = v
      BY <1>4, <2>2
    <3>2. /\ v <= clock
          /\ Cardinality(Earlier(q, i)) + One(x < v) + c <= Others
      BY <1>0, <1>2, <2>2, <3>1, LeavesOvertaken
    <3>3. e = Cardinality(Earlier(q, i)) + One(x < v)
      BY <1>2, <2>2, <3>1, EarlierAppend DEF One
    <3>. HIDE DEF e, c
    <3>4. e + c <= Others
      BY <3>2, <3>3
    <3>. QED
      BY <3>2, <3>4 DEF e, c
  <2>3. CASE i = Len(q) + 1
    <3>1. v = x
      BY <1>4, <2>3
    <3>2. e = 0
      BY <1>2, <2>3, EarlierAppend
    <3>. HIDE DEF e, c
    <3>3. e + c <= Others
      BY <1>3, <2>1, <3>2
    <3>. QED
      BY <2>1, <3>1, <3>3 DEF e, c
  <2>4. i \in 1 .. Len(q) \/ i = Len(q) + 1
    <3>. HIDE DEF q, r
    <3>. QED
      BY <1>4
  <2>. QED
    BY <2>2, <2>3, <2>4
<1>8. Traced(k)'
  <2>. SUFFICES ASSUME NEW s \in Stamps
                PROVE  During(r, s - Window + 1, MaxTime)
                         <= During(p, s - Window + 1, MaxTime)
    BY <1>2, Zenon DEF Traced
  <2>. DEFINE f == s - Window + 1
              d == During(admitted[k], f, MaxTime)
              h == During(q, f, MaxTime)
              o == One(x \in f .. MaxTime)
  <2>1. h \in Nat /\ d \in Nat /\ h <= d
    BY <1>0, EvictedTraced
  <2>2. f \in Int
    BY <1>3
  <2>3. During(p, f, MaxTime) = d + o /\ During(r, f, MaxTime) = h + o
    <3>. HIDE DEF f, q
    <3>. QED
      BY <1>2, <1>3, <2>2, DuringAppend DEF One
  <2>4. o \in Nat
    BY DEF One
  <2>. HIDE DEF d, h, o, p, r, f
  <2>5. During(r, f, MaxTime) <= During(p, f, MaxTime)
    BY <2>1, <2>3, <2>4
  <2>. QED
    BY <2>5 DEF f
<1>. QED
  BY <1>5, <1>6, <1>7, <1>8 DEF QueueAt

\* Steps keep the invariant of the deques.
LEMMA QueueNext == AdmissionInv /\ Timed /\ QueueInv /\ [Next]_vars => QueueInv'
<1>. SUFFICES ASSUME AdmissionInv, Timed, QueueInv, [Next]_vars,
                     NEW c \in Keys
              PROVE  QueueAt(c)'
  BY DEF QueueInv
<1>0. TypeOK /\ QueueAt(c) /\ clock \in Nat
  BY LimiterTypes DEF AdmissionInv, QueueInv
<1>1. PICK t \in Threads : (\A k \in Keys : Quiet(t, k)) \/ Admit(t) \/ Refuse(t)
  BY QueueSteps
<1>2. CASE \A k \in Keys : Quiet(t, k)
  BY <1>0, <1>2, QueueQuiet
<1>3. CASE Admit(t) \/ Refuse(t)
  <2>1. CASE c = <<th[t].pc, th[t].addr>>
    BY <1>3, <2>1, QueueAdmit, QueueRefuse
  <2>2. CASE c # <<th[t].pc, th[t].addr>>
    <3>1. /\ hits'[c] = hits[c] /\ admitted'[c] = admitted[c]
          /\ clock' = clock
          /\ Leaves(t, <<th[t].pc, th[t].addr>>, th[t].stamp)
      BY <1>3, <2>2, LockHeld
    <3>2. /\ \A u \in Threads : u # t => th'[u] = th[u]
          /\ \A f, l \in Int : ~Stands(t, c[1], c[2], f, l)'
      BY <3>1, Zenon DEF Leaves
    <3>3. Quiet(t, c)
      BY <1>0, <3>1, <3>2 DEF Quiet
    <3>. QED
      BY <1>0, <3>3, QueueQuiet
  <2>. QED
    BY <2>1, <2>2
<1>. QED
  BY <1>1, <1>2, <1>3

\* The books of an address in an interval: what was let through, what was
\* served, and the threads between the two.
TokenIn(a, f, l) == During(admitted[<<"admin", a>>], f, l)
TokenOut(a, f, l) == During(served[<<"token", a>>], f, l)
PullIn(a, f, l) == During(admitted[<<"oci", a>>], f, l)
PullOut(a, f, l) == During(served[<<"pull", a>>], f, l)

LEMMA BooksType ==
    ASSUME TypeOK, NEW a \in Addresses, NEW f, NEW l
    PROVE  /\ TokenIn(a, f, l) \in Nat /\ TokenOut(a, f, l) \in Nat
           /\ PullIn(a, f, l) \in Nat /\ PullOut(a, f, l) \in Nat
<1>1. /\ admitted[<<"admin", a>>] \in Seq(Stamps)
      /\ admitted[<<"oci", a>>] \in Seq(Stamps)
      /\ served[<<"token", a>>] \in Seq(Stamps)
      /\ served[<<"pull", a>>] \in Seq(Stamps)
  BY DEF TypeOK, Limiters, Services
<1>. QED
  BY <1>1, DuringNat DEF TokenIn, TokenOut, PullIn, PullOut

\* An entry in a history counts in the intervals of its key that its stamp
\* lies in.
LEMMA AdmittedCounts ==
    ASSUME TypeOK, NEW k \in Limiters \X Addresses, NEW x \in Stamps,
           admitted' = Log(admitted, k, x),
           NEW a \in Addresses, NEW f \in Int, NEW l \in Int
    PROVE  /\ TokenIn(a, f, l)'
                = TokenIn(a, f, l) + One(<<"admin", a>> = k /\ x \in f .. l)
           /\ PullIn(a, f, l)'
                = PullIn(a, f, l) + One(<<"oci", a>> = k /\ x \in f .. l)
<1>. DEFINE p == <<"admin", a>>
            q == <<"oci", a>>
<1>1. /\ admitted \in [Limiters \X Addresses -> Seq(Stamps)]
      /\ p \in Limiters \X Addresses /\ q \in Limiters \X Addresses
  BY DEF TypeOK, Limiters
<1>. HIDE DEF p, q
<1>2. /\ admitted'[p] = IF p = k THEN Append(admitted[p], x) ELSE admitted[p]
      /\ admitted'[q] = IF q = k THEN Append(admitted[q], x) ELSE admitted[q]
  BY <1>1 DEF Log
<1>3. admitted[p] \in Seq(Stamps) /\ admitted[q] \in Seq(Stamps)
  BY <1>1
<1>4. /\ During(Append(admitted[p], x), f, l)
           = During(admitted[p], f, l) + (IF x \in f .. l THEN 1 ELSE 0)
      /\ During(Append(admitted[q], x), f, l)
           = During(admitted[q], f, l) + (IF x \in f .. l THEN 1 ELSE 0)
  BY <1>3, DuringAppend
<1>5. During(admitted[p], f, l) \in Nat /\ During(admitted[q], f, l) \in Nat
  BY <1>3, DuringNat
<1>6. During(admitted'[p], f, l)
        = During(admitted[p], f, l) + One(p = k /\ x \in f .. l)
  BY <1>2, <1>4, <1>5 DEF One
<1>7. During(admitted'[q], f, l)
        = During(admitted[q], f, l) + One(q = k /\ x \in f .. l)
  BY <1>2, <1>4, <1>5 DEF One
<1>. QED
  BY <1>6, <1>7 DEF p, q, TokenIn, PullIn

LEMMA ServedCounts ==
    ASSUME TypeOK, NEW k \in Services \X Addresses, NEW x \in Stamps,
           served' = Log(served, k, x),
           NEW a \in Addresses, NEW f \in Int, NEW l \in Int
    PROVE  /\ TokenOut(a, f, l)'
                = TokenOut(a, f, l) + One(<<"token", a>> = k /\ x \in f .. l)
           /\ PullOut(a, f, l)'
                = PullOut(a, f, l) + One(<<"pull", a>> = k /\ x \in f .. l)
<1>. DEFINE p == <<"token", a>>
            q == <<"pull", a>>
<1>1. /\ served \in [Services \X Addresses -> Seq(Stamps)]
      /\ p \in Services \X Addresses /\ q \in Services \X Addresses
  BY DEF TypeOK, Services
<1>. HIDE DEF p, q
<1>2. /\ served'[p] = IF p = k THEN Append(served[p], x) ELSE served[p]
      /\ served'[q] = IF q = k THEN Append(served[q], x) ELSE served[q]
  BY <1>1 DEF Log
<1>3. served[p] \in Seq(Stamps) /\ served[q] \in Seq(Stamps)
  BY <1>1
<1>4. /\ During(Append(served[p], x), f, l)
           = During(served[p], f, l) + (IF x \in f .. l THEN 1 ELSE 0)
      /\ During(Append(served[q], x), f, l)
           = During(served[q], f, l) + (IF x \in f .. l THEN 1 ELSE 0)
  BY <1>3, DuringAppend
<1>5. During(served[p], f, l) \in Nat /\ During(served[q], f, l) \in Nat
  BY <1>3, DuringNat
<1>6. During(served'[p], f, l)
        = During(served[p], f, l) + One(p = k /\ x \in f .. l)
  BY <1>2, <1>4, <1>5 DEF One
<1>7. During(served'[q], f, l)
        = During(served[q], f, l) + One(q = k /\ x \in f .. l)
  BY <1>2, <1>4, <1>5 DEF One
<1>. QED
  BY <1>6, <1>7 DEF p, q, TokenOut, PullOut

\* No step serves more than it takes from the threads that were let through.
LEMMA BooksBalance ==
    ASSUME AdmissionInv, Timed, NEW t \in Threads,
           \/ \E x \in Traffic : Receive(t, x[1], x[2])
           \/ Stamp(t) \/ Admit(t) \/ Refuse(t) \/ Authenticate(t) \/ Handle(t),
           NEW a \in Addresses, NEW f \in Int, NEW l \in Int,
           TokenOut(a, f, l) + Cardinality(Between("auth", a, f, l))
             <= TokenIn(a, f, l),
           PullOut(a, f, l) + Cardinality(Serving(a, f, l)) <= PullIn(a, f, l)
    PROVE  /\ TokenOut(a, f, l)' + Cardinality(Between("auth", a, f, l)')
                <= TokenIn(a, f, l)'
           /\ PullOut(a, f, l)' + Cardinality(Serving(a, f, l)')
                <= PullIn(a, f, l)'
<1>. DEFINE B == Cardinality(Between("auth", a, f, l))
            C == Cardinality(Between("auth", a, f, l)')
            S == Cardinality(Serving(a, f, l))
            T == Cardinality(Serving(a, f, l)')
            On == Stands(t, "auth", a, f, l)
            At == Serves(t, a, f, l)
<1>0. /\ TypeOK
      /\ th \in [Threads -> {Idle} \cup Active]
      /\ \A r \in Active : r.req \in AllRequests /\ r.addr \in Addresses
                             /\ r.stamp \in {NoStamp} \cup Stamps
      /\ Idle.pc = "idle"
      /\ \A r \in Active : r.pc # "idle"
  BY DEF AdmissionInv, TypeOK, Idle, Active
<1>1. /\ TokenIn(a, f, l) \in Nat /\ TokenOut(a, f, l) \in Nat
      /\ PullIn(a, f, l) \in Nat /\ PullOut(a, f, l) \in Nat
  BY <1>0, BooksType
<1>2. /\ B \in Nat /\ C \in Nat /\ S \in Nat /\ T \in Nat
      /\ (On' => On) => C <= B
      /\ On /\ ~On' => C = B - 1
      /\ C <= B + 1
      /\ (At' => At) => T <= S
      /\ At /\ ~At' => T = S - 1
      /\ T <= S + 1
  BY ThreadMoves, BetweenMoves
<1>. HIDE DEF B, C, S, T
<1>3. CASE \/ \E x \in Traffic : Receive(t, x[1], x[2])
           \/ Stamp(t) \/ Refuse(t)
  <2>1. /\ TokenIn(a, f, l)' = TokenIn(a, f, l)
        /\ TokenOut(a, f, l)' = TokenOut(a, f, l)
        /\ PullIn(a, f, l)' = PullIn(a, f, l)
        /\ PullOut(a, f, l)' = PullOut(a, f, l)
    BY <1>3 DEF Receive, Stamp, Refuse, TokenIn, TokenOut, PullIn, PullOut
  <2>2. ~On' /\ ~At'
    <3>1. \/ th'[t] = Idle
          \/ th'[t].stamp = NoStamp
          \/ th'[t].pc = th[t].pc /\ th[t].pc \in Limiters
      <4>1. CASE \E x \in Traffic : Receive(t, x[1], x[2])
        BY <1>0, <4>1 DEF Receive, Request
      <4>2. CASE Stamp(t)
        <5>1. th[t] \in Active /\ th[t].pc \in Limiters
          BY <1>0, <4>2 DEF Stamp, Limiters
        <5>2. th'[t] = [th[t] EXCEPT !.stamp = clock]
          BY <1>0, <4>2 DEF Stamp
        <5>. QED
          BY <5>1, <5>2 DEF Active
      <4>3. CASE Refuse(t)
        BY <1>0, <4>3 DEF Refuse
      <4>. QED
        BY <1>3, <4>1, <4>2, <4>3
    <3>. QED
      BY <1>0, <3>1 DEF Stands, Serves, Limiters
  <2>. QED
    BY <1>1, <1>2, <2>1, <2>2 DEF B, C, S, T
<1>4. CASE Admit(t)
  <2>. DEFINE k == <<th[t].pc, th[t].addr>>
              x == th[t].stamp
  <2>1. k \in Limiters \X Addresses /\ x \in Stamps /\ x # NoStamp
    BY <1>4, LockHeld DEF Keys, Admit
  <2>2. th[t] \in Active /\ admitted' = Log(admitted, k, x) /\ served' = served
    BY <1>0, <1>4 DEF Admit, Limiters
  <2>3. /\ TokenIn(a, f, l)'
             = TokenIn(a, f, l) + One(<<"admin", a>> = k /\ x \in f .. l)
        /\ PullIn(a, f, l)'
             = PullIn(a, f, l) + One(<<"oci", a>> = k /\ x \in f .. l)
    BY <1>0, <2>1, <2>2, AdmittedCounts
  <2>4. /\ TokenOut(a, f, l)' = TokenOut(a, f, l)
        /\ PullOut(a, f, l)' = PullOut(a, f, l)
    BY <2>2 DEF TokenOut, PullOut
  <2>5. th'[t] = [th[t] EXCEPT !.pc = IF th[t].pc = "admin" THEN "auth"
                                                            ELSE "handle"]
    BY <1>0, <1>4 DEF Admit
  <2>6. th[t].pc = "admin" \/ th[t].pc = "oci"
    BY <2>1 DEF Limiters
  <2>7. /\ On' => <<"admin", a>> = k /\ x \in f .. l
        /\ At' => <<"oci", a>> = k /\ x \in f .. l
    BY <2>2, <2>5, <2>6 DEF Stands, Serves, Active
  <2>8. C <= B + One(<<"admin", a>> = k /\ x \in f .. l)
    BY <1>2, <2>7 DEF One
  <2>9. T <= S + One(<<"oci", a>> = k /\ x \in f .. l)
    BY <1>2, <2>7 DEF One
  <2>10. /\ One(<<"admin", a>> = k /\ x \in f .. l) \in Nat
         /\ One(<<"oci", a>> = k /\ x \in f .. l) \in Nat
    BY DEF One
  <2>11. TokenOut(a, f, l)' + C <= TokenIn(a, f, l)'
    BY <1>1, <1>2, <2>3, <2>4, <2>8, <2>10 DEF B
  <2>12. PullOut(a, f, l)' + T <= PullIn(a, f, l)'
    BY <1>1, <1>2, <2>3, <2>4, <2>9, <2>10 DEF S
  <2>. QED
    BY <2>11, <2>12 DEF C, T
<1>5. CASE Authenticate(t)
  <2>. DEFINE k == <<"token", th[t].addr>>
              x == th[t].stamp
  <2>1. /\ th[t] \in Active /\ th[t].pc = "auth"
        /\ k \in Services \X Addresses /\ x \in Stamps /\ x # NoStamp
        /\ k = <<"token", a>> <=> th[t].addr = a
    BY <1>0, <1>5 DEF Authenticate, AdmissionInv, Stamped, Services
  <2>2. /\ admitted' = admitted
        /\ served' = served \/ served' = Log(served, k, x)
    BY <1>5 DEF Authenticate
  <2>3. /\ TokenIn(a, f, l)' = TokenIn(a, f, l)
        /\ PullIn(a, f, l)' = PullIn(a, f, l)
    BY <2>2 DEF TokenIn, PullIn
  <2>4. /\ TokenOut(a, f, l)' <= TokenOut(a, f, l) + One(On)
        /\ TokenOut(a, f, l)' \in Nat
        /\ PullOut(a, f, l)' = PullOut(a, f, l)
    <3>1. CASE served' = served
      BY <1>1, <3>1 DEF TokenOut, PullOut, One
    <3>2. CASE served' = Log(served, k, x)
      <4>1. <<"pull", a>> # k
        OBVIOUS
      <4>2. <<"token", a>> = k /\ x \in f .. l => On
        BY <2>1 DEF Stands
      <4>3. /\ TokenOut(a, f, l)'
                 = TokenOut(a, f, l) + One(<<"token", a>> = k /\ x \in f .. l)
            /\ PullOut(a, f, l)'
                 = PullOut(a, f, l) + One(<<"pull", a>> = k /\ x \in f .. l)
        BY <1>0, <2>1, <3>2, ServedCounts
      <4>. HIDE DEF k, x, On
      <4>4. One(<<"pull", a>> = k /\ x \in f .. l) = 0
        BY <4>1 DEF One
      <4>5. /\ One(<<"token", a>> = k /\ x \in f .. l) <= One(On)
            /\ One(<<"token", a>> = k /\ x \in f .. l) \in Nat
            /\ One(On) \in Nat
        BY <4>2 DEF One
      <4>. QED
        BY <1>1, <4>3, <4>4, <4>5
    <3>. QED
      BY <2>2, <3>1, <3>2
  <2>5. ~On' /\ ~At'
    <3>1. \/ th'[t] = Idle
          \/ th'[t].stamp = NoStamp
          \/ th'[t].pc = "handle" /\ th'[t].req = th[t].req
               /\ ~ChecksOci(th[t].req)
      BY <1>0, <1>5, <2>1 DEF Authenticate, Request, Active
    <3>2. ~ChecksOci(th[t].req) => ~Pulls(th[t].req)
      BY <1>0, <2>1, PullsChecked
    <3>. QED
      BY <1>0, <3>1, <3>2 DEF Stands, Serves, Pulls
  <2>6. C + One(On) <= B
    BY <1>2, <2>5 DEF One
  <2>7. One(On) \in Nat
    BY DEF One
  <2>. HIDE DEF On
  <2>8. TokenOut(a, f, l)' + C <= TokenIn(a, f, l)'
    BY <1>1, <1>2, <2>3, <2>4, <2>6, <2>7 DEF B
  <2>9. PullOut(a, f, l)' + T <= PullIn(a, f, l)'
    BY <1>1, <1>2, <2>3, <2>4, <2>5 DEF S
  <2>. QED
    BY <2>8, <2>9 DEF C, T
<1>6. CASE Handle(t)
  <2>. DEFINE k == <<"pull", th[t].addr>>
              x == th[t].stamp
  <2>1. /\ th[t] \in Active /\ th[t].pc = "handle"
        /\ k \in Services \X Addresses
        /\ k = <<"pull", a>> <=> th[t].addr = a
    BY <1>0, <1>6 DEF Handle, Services
  <2>2. /\ admitted' = admitted
        /\ \/ served' = served
           \/ /\ served' = Log(served, k, x)
              /\ Pulls(th[t].req) /\ x \in Stamps /\ x # NoStamp
    <3>1. Pulls(th[t].req) => x # NoStamp
      BY <1>0, <2>1 DEF Timed
    <3>2. x # NoStamp => x \in Stamps
      BY <1>0, <2>1
    <3>. QED
      BY <1>6, <3>1, <3>2 DEF Handle, Pulls
  <2>3. /\ TokenIn(a, f, l)' = TokenIn(a, f, l)
        /\ PullIn(a, f, l)' = PullIn(a, f, l)
    BY <2>2 DEF TokenIn, PullIn
  <2>4. /\ PullOut(a, f, l)' <= PullOut(a, f, l) + One(At)
        /\ PullOut(a, f, l)' \in Nat
        /\ TokenOut(a, f, l)' = TokenOut(a, f, l)
    <3>1. CASE served' = served
      BY <1>1, <3>1 DEF TokenOut, PullOut, One
    <3>2. CASE served' = Log(served, k, x)
               /\ Pulls(th[t].req) /\ x \in Stamps /\ x # NoStamp
      <4>1. <<"token", a>> # k
        OBVIOUS
      <4>2. <<"pull", a>> = k /\ x \in f .. l => At
        BY <2>1, <3>2 DEF Stands, Serves
      <4>3. /\ TokenOut(a, f, l)'
                 = TokenOut(a, f, l) + One(<<"token", a>> = k /\ x \in f .. l)
            /\ PullOut(a, f, l)'
                 = PullOut(a, f, l) + One(<<"pull", a>> = k /\ x \in f .. l)
        BY <1>0, <2>1, <3>2, ServedCounts
      <4>. HIDE DEF k, x, At
      <4>4. One(<<"token", a>> = k /\ x \in f .. l) = 0
        BY <4>1 DEF One
      <4>5. /\ One(<<"pull", a>> = k /\ x \in f .. l) <= One(At)
            /\ One(<<"pull", a>> = k /\ x \in f .. l) \in Nat
            /\ One(At) \in Nat
        BY <4>2 DEF One
      <4>. QED
        BY <1>1, <4>3, <4>4, <4>5
    <3>. QED
      BY <2>2, <3>1, <3>2
  <2>5. ~On' /\ ~At'
    BY <1>0, <1>6 DEF Handle, Stands, Serves
  <2>6. T + One(At) <= S
    BY <1>2, <2>5 DEF One
  <2>7. One(At) \in Nat
    BY DEF One
  <2>. HIDE DEF At
  <2>8. TokenOut(a, f, l)' + C <= TokenIn(a, f, l)'
    BY <1>1, <1>2, <2>3, <2>4, <2>5 DEF B
  <2>9. PullOut(a, f, l)' + T <= PullIn(a, f, l)'
    BY <1>1, <1>2, <2>3, <2>4, <2>6, <2>7 DEF S
  <2>. QED
    BY <2>8, <2>9 DEF C, T
<1>. QED
  BY <1>3, <1>4, <1>5, <1>6

\* Steps keep the books.
LEMMA AccountedNext ==
    AdmissionInv /\ Timed /\ Accounted /\ [Next]_vars => Accounted'
<1>. SUFFICES ASSUME AdmissionInv, Timed, Accounted, [Next]_vars,
                     NEW a \in Addresses, NEW s \in Stamps, NEW f \in Int,
                     f = s - Window + 1
              PROVE  /\ TokenOut(a, f, s)' + Cardinality(Between("auth", a, f, s)')
                          <= TokenIn(a, f, s)'
                     /\ PullOut(a, f, s)' + Cardinality(Serving(a, f, s)')
                          <= PullIn(a, f, s)'
  <2>1. \A s \in Stamps : s - Window + 1 \in Int
    BY AdmissionAssumption DEF Stamps
  <2>. QED
    BY <2>1, Zenon DEF Accounted, TokenIn, TokenOut, PullIn, PullOut
<1>0. s \in Int
  BY DEF Stamps
<1>1. /\ TokenOut(a, f, s) + Cardinality(Between("auth", a, f, s))
           <= TokenIn(a, f, s)
      /\ PullOut(a, f, s) + Cardinality(Serving(a, f, s)) <= PullIn(a, f, s)
  BY Zenon DEF Accounted, TokenIn, TokenOut, PullIn, PullOut
<1>2. ASSUME NEW t \in Threads,
             \/ \E x \in Traffic : Receive(t, x[1], x[2])
             \/ Stamp(t) \/ Admit(t) \/ Refuse(t) \/ Authenticate(t) \/ Handle(t)
      PROVE  /\ TokenOut(a, f, s)' + Cardinality(Between("auth", a, f, s)')
                  <= TokenIn(a, f, s)'
             /\ PullOut(a, f, s)' + Cardinality(Serving(a, f, s)')
                  <= PullIn(a, f, s)'
  BY <1>0, <1>1, <1>2, BooksBalance
<1>3. CASE Tick \/ UNCHANGED vars
  <2>1. UNCHANGED <<th, admitted, served>>
    BY <1>3 DEF Tick, vars
  <2>. QED
    BY <1>1, <2>1 DEF TokenIn, TokenOut, PullIn, PullOut, Between, Stands,
                      Serving, Serves, Pulls
<1>. QED
  BY <1>2, <1>3 DEF Next

\* The inductive invariant of the limiters.
THEOREM LimiterInvariant == Spec => []LimiterInv
<1>1. LimiterInv /\ [Next]_vars => LimiterInv'
  <2>1. AdmissionInv /\ [Next]_vars => AdmissionInv'
    BY TypeStep, ClearedStep DEF AdmissionInv
  <2>. QED
    BY <2>1, TimedStep, QueueNext, AccountedNext DEF LimiterInv
<1>. QED
  BY LimiterInit, <1>1, PTL DEF Spec

\* What was let through in a window is at most the limit and one for each other
\* thread.
LEMMA WindowBound ==
    ASSUME LimiterInv, NEW k \in Keys, NEW s \in Stamps
    PROVE  During(admitted[k], s - Window + 1, s) <= Limit[k[1]] + Others
<1>. DEFINE f == s - Window + 1
            d == During(admitted[k], f, s)
            h == During(hits[k], f, s)
            b == Cardinality(Between(k[1], k[2], f, s))
            n == Limit[k[1]]
<1>0. TypeOK /\ QueueAt(k)
  BY DEF LimiterInv, AdmissionInv, QueueInv
<1>1. /\ hits[k] \in Seq(Stamps) /\ admitted[k] \in Seq(Stamps)
      /\ n \in Nat /\ Others \in Nat
  BY <1>0, LimiterTypes
<1>2. d \in Nat /\ h \in Nat /\ h <= Len(hits[k]) /\ Len(hits[k]) \in Nat
  BY <1>1, DuringNat, LenProperties
<1>3. Len(hits[k]) <= n
  BY <1>0 DEF QueueAt, Short
<1>4. d = h \/ d + b <= n + Others
  BY <1>0, Zenon DEF QueueAt, Bounded
<1>5. b \in Nat
  <2>1. Between(k[1], k[2], f, s) \in SUBSET Threads
    BY DEF Between
  <2>. QED
    BY <2>1, ThreadsCount
<1>. HIDE DEF d, h, b, n
<1>6. d <= n + Others
  BY <1>1, <1>2, <1>3, <1>4, <1>5
<1>. QED
  BY <1>6 DEF d, n

\* WindowLimited holds for any limits, any window and any number of threads,
\* in whatever order they read the clock and get the lock of is_allowed.
THEOREM WindowsHold == Spec => []WindowLimited
<1>1. LimiterInv => WindowLimited
  <2>. SUFFICES ASSUME LimiterInv, NEW a \in Addresses, NEW s \in Stamps
                PROVE  /\ TokenOut(a, s - Window + 1, s)
                            <= Limit["admin"] + Others
                       /\ PullOut(a, s - Window + 1, s)
                            <= Limit["oci"] + Others
    BY Zenon DEF WindowLimited, TokenOut, PullOut
  <2>. DEFINE f == s - Window + 1
              B == Cardinality(Between("auth", a, f, s))
              S == Cardinality(Serving(a, f, s))
  <2>1. /\ TokenOut(a, f, s) + B <= TokenIn(a, f, s)
        /\ PullOut(a, f, s) + S <= PullIn(a, f, s)
    BY Zenon DEF LimiterInv, Accounted, TokenIn, TokenOut, PullIn, PullOut
  <2>2. B \in Nat /\ S \in Nat /\ Others \in Nat
    <3>1. /\ Between("auth", a, f, s) \in SUBSET Threads
          /\ Serving(a, f, s) \in SUBSET Threads
      BY DEF Between, Serving
    <3>. QED
      BY <3>1, ThreadsCount
  <2>3. /\ TokenIn(a, f, s) <= Limit["admin"] + Others
        /\ PullIn(a, f, s) <= Limit["oci"] + Others
    <3>1. PICK k \in Keys : k = <<"admin", a>>
      BY DEF Keys, Limiters
    <3>2. PICK c \in Keys : c = <<"oci", a>>
      BY DEF Keys, Limiters
    <3>3. /\ During(admitted[k], f, s) <= Limit[k[1]] + Others
          /\ During(admitted[c], f, s) <= Limit[c[1]] + Others
      BY WindowBound
    <3>4. k[1] = "admin" /\ c[1] = "oci"
      BY <3>1, <3>2
    <3>. QED
      BY <3>1, <3>2, <3>3, <3>4 DEF TokenIn, PullIn
  <2>4. /\ TokenIn(a, f, s) \in Nat /\ TokenOut(a, f, s) \in Nat
        /\ PullIn(a, f, s) \in Nat /\ PullOut(a, f, s) \in Nat
    BY BooksType DEF LimiterInv, AdmissionInv
  <2>5. Limit["admin"] \in Nat /\ Limit["oci"] \in Nat
    BY AdmissionAssumption DEF Limiters
  <2>. HIDE DEF f, B, S
  <2>6. /\ TokenOut(a, f, s) <= Limit["admin"] + Others
        /\ PullOut(a, f, s) <= Limit["oci"] + Others
    BY <2>1, <2>2, <2>3, <2>4, <2>5
  <2>. QED
    BY <2>6 DEF f
<1>. QED
  BY LimiterInvariant, <1>1, PTL

\* In a full deque the stamps that have expired are behind a later one, and so
\* at most one for each other thread.
LEMMA BusyWhenFull ==
    ASSUME LimiterInv, NEW t \in Threads, Refuse(t)
    PROVE  During(admitted[<<th[t].pc, th[t].addr>>],
                  th[t].stamp - Window + 1, MaxTime)
             >= Limit[th[t].pc] - Others
<1>0. AdmissionInv /\ Timed /\ QueueInv /\ TypeOK
  BY DEF LimiterInv, AdmissionInv
<1>1. PICK x \in Stamps : x = th[t].stamp
  BY <1>0, LockHeld
<1>2. PICK k \in Keys : k = <<th[t].pc, th[t].addr>>
  BY <1>0, LockHeld
<1>. DEFINE q == Evicted(hits[k], x)
            f == x - Window + 1
            n == Limit[k[1]]
            P == Positions(q, f, MaxTime)
            R == 1 .. Len(q)
            E == Earlier(q, 1)
<1>3. /\ q \in Seq(Stamps) /\ Len(q) >= n
      /\ Leaves(t, k, x) /\ QueueAt(k)
  BY <1>0, <1>1, <1>2, LockHeld DEF QueueInv
<1>4. /\ hits[k] \in Seq(Stamps) /\ n \in Nat \ {0} /\ Others \in Nat
      /\ x \in Nat /\ f \in Int /\ MaxTime \in Nat /\ Window \in Nat
  BY <1>0, LimiterTypes
<1>5. Len(q) \in Nat /\ q \in [R -> Stamps]
  BY <1>3, LenProperties
<1>6. 1 \in R
  <2>. HIDE DEF q, n
  <2>. QED
    BY <1>3, <1>4, <1>5
<1>7. q[1] > x - Window
  <2>1. PICK m \in Nat :
          /\ m <= Len(hits[k])
          /\ Len(q) = Len(hits[k]) - m
          /\ \A i \in 1 .. Len(hits[k]) - m : q[i] = hits[k][i + m]
          /\ m < Len(hits[k]) => hits[k][m + 1] > x - Window
    BY <1>4, EvictedSuffix
  <2>2. Len(hits[k]) \in Nat
    BY <1>4, LenProperties
  <2>. HIDE DEF q
  <2>3. m < Len(hits[k]) /\ 1 + m = m + 1 /\ 1 \in 1 .. Len(hits[k]) - m
    BY <1>5, <1>6, <2>1, <2>2
  <2>. QED
    BY <2>1, <2>3
<1>8. Cardinality(E) \in Nat /\ Cardinality(E) <= Others
  <2>1. PICK v \in Stamps : v = q[1]
    BY <1>5, <1>6
  <2>. DEFINE c == Cardinality(Between(k[1], k[2], 0, v - 1)')
              e == Cardinality(E)
  <2>2. e + One(x < v) + c <= Others
    BY <1>0, <1>3, <1>6, <2>1, LeavesOvertaken
  <2>3. c \in Nat
    BY <1>3, BetweenMoves DEF Leaves
  <2>4. e \in Nat
    BY <1>3, <1>6, EarlierAppend
  <2>5. One(x < v) \in Nat
    BY DEF One
  <2>. HIDE DEF c, e
  <2>6. e <= Others
    BY <1>4, <2>2, <2>3, <2>4, <2>5
  <2>. QED
    BY <2>4, <2>6 DEF e
<1>9. R = P \cup E /\ P \in SUBSET R /\ E \in SUBSET R
  <2>. HIDE DEF q
  <2>1. P \in SUBSET R /\ E \in SUBSET R
    BY <1>5 DEF Positions, Earlier
  <2>2. ASSUME NEW j \in R, j \notin P PROVE j \in E
    <3>1. q[j] \in Stamps /\ q[1] \in Stamps /\ j \in Int
      BY <1>5, <1>6
    <3>2. q[j] \notin f .. MaxTime
      BY <2>2 DEF Positions
    <3>3. q[j] <= x - Window
      BY <1>4, <3>1, <3>2 DEF Stamps
    <3>4. q[j] < q[1] /\ j # 1
      BY <1>4, <1>7, <3>1, <3>3 DEF Stamps
    <3>5. j \in 1 + 1 .. Len(q)
      BY <1>5, <3>4
    <3>. QED
      BY <3>4, <3>5 DEF Earlier
  <2>. HIDE DEF P, E, R
  <2>. QED
    BY <2>1, <2>2
<1>10. Cardinality(P) \in Nat /\ Cardinality(P) >= n - Others
  <2>1. /\ IsFiniteSet(P) /\ Cardinality(P) \in Nat
        /\ IsFiniteSet(E)
    BY <1>3, <1>9, PositionsFinite
  <2>2. Cardinality(R) = Len(q)
    <3>1. 1 \in Int /\ Len(q) \in Int
      BY <1>5
    <3>2. Cardinality(1 .. Len(q)) = IF 1 > Len(q) THEN 0 ELSE Len(q) - 1 + 1
      BY <3>1, FS_Interval
    <3>. HIDE DEF q
    <3>. QED
      BY <1>5, <3>2
  <2>3. Cardinality(P \cup E)
          = Cardinality(P) + Cardinality(E) - Cardinality(P \cap E)
    BY <2>1, FS_Union
  <2>4. Cardinality(P \cap E) \in Nat
    <3>1. P \cap E \in SUBSET P
      OBVIOUS
    <3>. QED
      BY <2>1, <3>1, FS_Subset, FS_CardinalityType
  <2>5. Cardinality(P \cup E) = Len(q)
    BY <1>9, <2>2
  <2>. DEFINE p == Cardinality(P)
              e == Cardinality(E)
              b == Cardinality(P \cap E)
              u == Cardinality(P \cup E)
              y == Len(q)
  <2>. HIDE DEF p, e, b, u, y, n
  <2>6. /\ p \in Nat /\ e \in Nat /\ b \in Nat /\ y \in Nat /\ n \in Nat
        /\ u = p + e - b /\ u = y /\ y >= n /\ e <= Others
    BY <1>3, <1>4, <1>5, <1>8, <2>1, <2>3, <2>4, <2>5 DEF p, e, b, u, y
  <2>7. p >= n - Others
    BY <1>4, <2>6
  <2>. QED
    BY <2>6, <2>7 DEF p
<1>11. /\ During(q, f, MaxTime) = Cardinality(P)
       /\ During(q, f, MaxTime) <= During(admitted[k], f, MaxTime)
       /\ During(admitted[k], f, MaxTime) \in Nat
  BY <1>0, <1>3, EvictedTraced DEF During, Positions
<1>. DEFINE d == During(admitted[k], f, MaxTime)
            p == Cardinality(P)
<1>. HIDE DEF d, p, n
<1>12. d >= n - Others
  <2>1. p \in Nat /\ d \in Nat /\ p <= d /\ p >= n - Others /\ n \in Nat
    BY <1>4, <1>10, <1>11 DEF d, p
  <2>. QED
    BY <1>4, <2>1
<1>13. k[1] = th[t].pc
  BY <1>2
<1>. QED
  BY <1>1, <1>2, <1>12, <1>13 DEF d, n

\* RefusedOnlyIfBusy holds of every refusal, for any limits and any number of
\* threads.
THEOREM RefusalsJust == Spec => RefusedOnlyIfBusy
<1>. DEFINE Just == \A t \in Threads : Refuse(t) =>
              During(admitted[<<th[t].pc, th[t].addr>>],
                     th[t].stamp - Window + 1, MaxTime)
                >= Limit[th[t].pc] - Others
<1>1. LimiterInv /\ [Next]_vars => [Just]_vars
  BY BusyWhenFull
<1>. QED
  BY LimiterInvariant, <1>1, PTL DEF Spec, RefusedOnlyIfBusy
=============================================================================
