---------------------------- MODULE UploadProofs ----------------------------
(***************************************************************************)
(* The types of the upload for any number of workers, and its two promises *)
(* for a client that sends one PUT at a time, for a response of any length *)
(* and whatever is left behind by earlier PUTs, timeouts, clients that     *)
(* hang up, garbled chunks and restarts.  With two PUTs at once both fail: *)
(* the run upload_race shows it.                                           *)
(***************************************************************************)
EXTENDS Upload, TLAPS

\* The content of a file after a write.
LEMMA WriteAtType ==
    ASSUME NEW s \in Seq(0 .. Chunks), NEW pos \in Nat, NEW c \in 0 .. Chunks
    PROVE  /\ WriteAt(s, pos, c) \in Seq(0 .. Chunks)
           /\ pos = Len(s) =>
                /\ Len(WriteAt(s, pos, c)) = Len(s) + 1
                /\ WriteAt(s, pos, c)[Len(s) + 1] = c
                /\ \A k \in 1 .. Len(s) : WriteAt(s, pos, c)[k] = s[k]
<1> DEFINE n == IF pos + 1 > Len(s) THEN pos + 1 ELSE Len(s)
           e(k) == IF k = pos + 1 THEN c ELSE IF k <= Len(s) THEN s[k] ELSE 0
<1>1. n \in Nat /\ (pos = Len(s) => n = Len(s) + 1)
  OBVIOUS
<1>2. \A k \in 1 .. n : e(k) \in 0 .. Chunks
  BY UploadAssumption
<1>3. WriteAt(s, pos, c) = [k \in 1 .. n |-> e(k)]
  BY DEF WriteAt
<1>4. \A k \in 1 .. Len(s) : pos = Len(s) => e(k) = s[k]
  OBVIOUS
<1>5. e(pos + 1) = c
  OBVIOUS
<1> HIDE DEF n, e
<1>6. [k \in 1 .. n |-> e(k)] \in Seq(0 .. Chunks)
      /\ Len([k \in 1 .. n |-> e(k)]) = n
  BY <1>1, <1>2
<1> QED BY <1>1, <1>3, <1>4, <1>5, <1>6

\* The locals of a new request have their types.
LEMMA IdleThreadType ==
    IdleThread \in Thread /\ IdleThread.pc = "idle" /\ IdleThread.chunk = 1
<1>1. 1 \in 1 .. Chunks + 1
  BY UploadAssumption
<1> QED BY <1>1 DEF IdleThread, Thread, Codes

\* What every request keeps, however many there are: a worker that receives
\* has a file open.
Opened(r) ==
    /\ r.pc = "open" => r.new \in Inodes
    /\ r.pc = "receive" => r.ino \in Inodes
TypeInv == TypeOK /\ \A t \in Threads : Opened(th[t])

\* A step of one worker, whose locals become r.
LEMMA WorkerTypes ==
    ASSUME TypeInv, NEW t \in Threads, NEW r \in Thread, Opened(r),
           th' = [th EXCEPT ![t] = r],
           path' \in Inodes \cup {0},
           data' \in [Inodes -> Seq(0 .. Chunks)],
           puts' \in 0 .. MaxPuts,
           decrypted' \subseteq Seq(0 .. Chunks),
           answers' \subseteq [clean : BOOLEAN, code : Codes]
    PROVE  TypeInv'
<1>1. th' \in [Threads -> Thread]
  BY DEF TypeInv, TypeOK
<1>2. \A u \in Threads : th'[u] = IF u = t THEN r ELSE th[u]
  BY DEF TypeInv, TypeOK
<1>3. \A u \in Threads : Opened(th'[u])
  BY <1>2 DEF TypeInv
<1> QED BY <1>1, <1>3 DEF TypeInv, TypeOK

\* An answer leaves the worker idle.
LEMMA FinishTypes ==
    ASSUME TypeInv, NEW t \in Threads, NEW code \in Codes, Finish(t, code),
           path' \in Inodes \cup {0}, puts' \in 0 .. MaxPuts,
           UNCHANGED <<data, decrypted>>
    PROVE  TypeInv'
<1> DEFINE b == th[t].clean /\ th[t].chunk > Chunks
           a == [clean |-> b, code |-> code]
<1>1. b \in BOOLEAN
  OBVIOUS
<1>2. th' = [th EXCEPT ![t] = IdleThread] /\ answers' = answers \cup {a}
  BY DEF Finish
<1> HIDE DEF b
<1>3. a \in [clean : BOOLEAN, code : Codes]
  BY <1>1
<1> HIDE DEF a
<1>4. answers' \subseteq [clean : BOOLEAN, code : Codes]
  BY <1>2, <1>3 DEF TypeInv, TypeOK
<1>5. Opened(IdleThread)
  BY IdleThreadType DEF Opened
<1>6. data' \in [Inodes -> Seq(0 .. Chunks)] /\ decrypted' \subseteq Seq(0 .. Chunks)
  BY DEF TypeInv, TypeOK
<1> QED BY <1>2, <1>4, <1>5, <1>6, IdleThreadType, WorkerTypes

-----------------------------------------------------------------------------
(* Types *)

\* Every step keeps the types.
LEMMA TypeStep == TypeInv /\ [Next]_vars => TypeInv'
<1> SUFFICES ASSUME TypeInv, [Next]_vars PROVE TypeInv'
  OBVIOUS
<1>t. /\ th \in [Threads -> Thread]
      /\ path \in Inodes \cup {0}
      /\ data \in [Inodes -> Seq(0 .. Chunks)]
      /\ puts \in 0 .. MaxPuts
      /\ decrypted \subseteq Seq(0 .. Chunks)
      /\ answers \subseteq [clean : BOOLEAN, code : Codes]
      /\ \A t \in Threads : th[t] \in Thread /\ Opened(th[t])
  BY DEF TypeInv, TypeOK
<1>c. {"RANGE_MISMATCH", "CHECKSUM_MISMATCH", "FAILED", "200"} \subseteq Codes
  BY DEF Codes
<1>1. ASSUME NEW t \in Threads, Put(t) PROVE TypeInv'
  <2> DEFINE r == [IdleThread EXCEPT !.pc = "open", !.new = puts + 1]
  <2>1. puts + 1 \in Inodes /\ puts' \in 0 .. MaxPuts
    BY <1>1, <1>t, UploadAssumption DEF Put, Inodes
  <2>2. r \in Thread /\ Opened(r)
    BY <2>1, IdleThreadType DEF Thread, Opened
  <2>3. th' = [th EXCEPT ![t] = r] /\ UNCHANGED <<path, data, decrypted, answers>>
    BY <1>1 DEF Put
  <2> HIDE DEF r
  <2> QED BY <1>t, <2>1, <2>2, <2>3, WorkerTypes
<1>2. ASSUME NEW t \in Threads, NEW start \in 0 .. Chunks - 1, PutRange(t, start)
      PROVE  TypeInv'
  <2> DEFINE b == PartialIsClean
             r == [IdleThread EXCEPT
                     !.pc = "open", !.mode = "ab", !.new = puts + 1,
                     !.chunk = start + 1, !.clean = b]
  <2>1. puts + 1 \in Inodes /\ puts' \in 0 .. MaxPuts
    BY <1>2, <1>t, UploadAssumption DEF PutRange, Inodes
  <2>u. UNCHANGED <<path, data, decrypted>>
    BY <1>2 DEF PutRange
  <2>2. CASE start = Size
    <3>1. start + 1 \in 1 .. Chunks + 1
      BY UploadAssumption
    <3>2. b \in BOOLEAN
      BY DEF PartialIsClean
    <3>3. th' = [th EXCEPT ![t] = r] /\ UNCHANGED answers
      BY <1>2, <2>2 DEF PutRange
    <3> HIDE DEF b
    <3>4. r \in Thread /\ Opened(r)
      BY <2>1, <3>1, <3>2, IdleThreadType DEF Thread, Opened
    <3> HIDE DEF r
    <3> QED BY <1>t, <2>1, <2>u, <3>3, <3>4, WorkerTypes
  <2>3. CASE start # Size
    <3>1. Finish(t, "RANGE_MISMATCH")
      BY <1>2, <2>3 DEF PutRange
    <3> QED BY <1>c, <1>t, <2>1, <2>u, <3>1, FinishTypes
  <2> QED BY <2>2, <2>3
<1>3. ASSUME NEW t \in Threads, Open(t) PROVE TypeInv'
  <2> DEFINE i == IF path = 0 THEN th[t].new ELSE path
             r == [th[t] EXCEPT !.pc = "receive", !.ino = i]
  <2>1. i \in Inodes
    BY <1>3, <1>t DEF Open, Opened
  <2>2. r \in Thread /\ Opened(r)
    BY <1>t, <2>1 DEF Thread, Opened
  <2>3. th' = [th EXCEPT ![t] = r] /\ UNCHANGED <<puts, decrypted, answers>>
    BY <1>3 DEF Open
  <2>e. path' = i /\ data' = IF th[t].mode = "wb" THEN [data EXCEPT ![i] = <<>>]
                                                  ELSE data
    BY <1>3 DEF Open
  <2> HIDE DEF r, i
  <2>s. <<>> \in Seq(0 .. Chunks)
    OBVIOUS
  <2>4. path' = i /\ data' \in [Inodes -> Seq(0 .. Chunks)]
    BY <1>t, <2>1, <2>e, <2>s
  <2> QED BY <1>t, <2>1, <2>2, <2>3, <2>4, WorkerTypes
<1>4. ASSUME NEW t \in Threads, Receive(t) PROVE TypeInv'
  <2> DEFINE i == th[t].ino
             p == IF th[t].mode = "ab" THEN Len(data[i]) ELSE th[t].pos
  <2>1. PICK c \in {th[t].chunk} \cup (IF "garble" \in Faults THEN {0} ELSE {}) :
          /\ data' = [data EXCEPT ![i] = WriteAt(@, p, c)]
          /\ th' = [th EXCEPT ![t].pos = p + 1, ![t].chunk = @ + 1,
                              ![t].clean = @ /\ c # 0]
    BY <1>4 DEF Receive
  <2> DEFINE b == th[t].clean /\ c # 0
             r == [th[t] EXCEPT !.pos = p + 1, !.chunk = th[t].chunk + 1, !.clean = b]
  <2>2. c \in 0 .. Chunks /\ th[t].chunk + 1 \in 1 .. Chunks + 1
    BY <1>4, <1>t, UploadAssumption DEF Receive, Thread
  <2>3. i \in Inodes /\ data[i] \in Seq(0 .. Chunks) /\ th[t].pc = "receive"
    BY <1>4, <1>t DEF Receive, Opened
  <2>4. p \in Nat
    BY <2>3, <1>t DEF Thread
  <2>5. b \in BOOLEAN
    OBVIOUS
  <2>6. th' = [th EXCEPT ![t] = r]
    BY <2>1, <1>t
  <2>7. WriteAt(data[i], p, c) \in Seq(0 .. Chunks)
    BY <2>2, <2>3, <2>4, WriteAtType
  <2> HIDE DEF b, p
  <2>a. th[t] \in Thread /\ p + 1 \in Nat
    BY <1>t, <2>4
  <2>8. r \in Thread
    BY <2>2, <2>5, <2>a DEF Thread
  <2>o. Opened(r)
    BY <2>3, <2>a DEF Opened, Thread
  <2> HIDE DEF r, i
  <2>9. data' \in [Inodes -> Seq(0 .. Chunks)]
    BY <1>t, <2>1, <2>7
  <2>10. UNCHANGED <<path, puts, decrypted, answers>>
    BY <1>4 DEF Receive
  <2> QED BY <1>t, <2>6, <2>8, <2>o, <2>9, <2>10, WorkerTypes
<1>5. ASSUME NEW t \in Threads, EndOfBody(t) PROVE TypeInv'
  <2> DEFINE r == [th[t] EXCEPT !.pc = "hash"]
  <2>1. r \in Thread /\ Opened(r)
    BY <1>t DEF Thread, Opened
  <2>2. th' = [th EXCEPT ![t] = r] /\ UNCHANGED <<path, data, puts, decrypted, answers>>
    BY <1>5 DEF EndOfBody
  <2> HIDE DEF r
  <2> QED BY <1>t, <2>1, <2>2, WorkerTypes
<1>6. ASSUME NEW t \in Threads, Timeout(t) PROVE TypeInv'
  <2>1. Finish(t, "FAILED") /\ UNCHANGED <<path, data, puts, decrypted>>
    BY <1>6 DEF Timeout
  <2> QED BY <1>c, <1>t, <2>1, FinishTypes
<1>7. ASSUME NEW t \in Threads, Hash(t) PROVE TypeInv'
  <2>u. UNCHANGED <<data, puts, decrypted>>
    BY <1>7 DEF Hash
  <2>1. CASE path # 0 /\ data[path] = Whole
    <3> DEFINE r == [th[t] EXCEPT !.pc = "import"]
    <3>1. r \in Thread /\ Opened(r)
      BY <1>t DEF Thread, Opened
    <3>2. th' = [th EXCEPT ![t] = r] /\ UNCHANGED <<path, answers>>
      BY <1>7, <2>1 DEF Hash
    <3> HIDE DEF r
    <3> QED BY <1>t, <2>u, <3>1, <3>2, WorkerTypes
  <2>2. CASE path = 0
    <3>1. Finish(t, "FAILED") /\ UNCHANGED path
      BY <1>7, <2>2 DEF Hash
    <3> QED BY <1>c, <1>t, <2>u, <3>1, FinishTypes
  <2>3. CASE path # 0 /\ data[path] # Whole
    <3>1. Finish(t, "CHECKSUM_MISMATCH") /\ path' = 0
      BY <1>7, <2>3 DEF Hash
    <3> QED BY <1>c, <1>t, <2>u, <3>1, FinishTypes
  <2> QED BY <2>1, <2>2, <2>3
<1>8. ASSUME NEW t \in Threads, Import(t) PROVE TypeInv'
  <2>1. ImportEnds \subseteq Codes
    BY DEF ImportEnds, Codes
  <2>2. PICK end \in Codes : th' = [th EXCEPT ![t].pc = "unlink", ![t].end = end]
    BY <1>8, <2>1 DEF Import
  <2> DEFINE r == [th[t] EXCEPT !.pc = "unlink", !.end = end]
  <2>3. th' = [th EXCEPT ![t] = r] /\ UNCHANGED <<path, data, puts, answers>>
    BY <1>8, <1>t, <2>2 DEF Import
  <2>4. decrypted' \subseteq Seq(0 .. Chunks)
    BY <1>8, <1>t DEF Import
  <2>5. r \in Thread /\ Opened(r)
    BY <1>t DEF Thread, Opened
  <2> HIDE DEF r
  <2> QED BY <1>t, <2>3, <2>4, <2>5, WorkerTypes
<1>9. ASSUME NEW t \in Threads, Unlink(t) PROVE TypeInv'
  <2>1. /\ Finish(t, th[t].end) /\ path' = 0
        /\ UNCHANGED <<data, puts, decrypted>>
    BY <1>9 DEF Unlink
  <2>2. th[t].end \in Codes
    BY <1>t DEF Thread
  <2> QED BY <1>t, <2>1, <2>2, FinishTypes
<1>10. ASSUME Crash PROVE TypeInv'
  <2>1. \A t \in Threads : th'[t] = IdleThread
    BY <1>10 DEF Crash
  <2>2. th' \in [Threads -> Thread] /\ \A t \in Threads : Opened(th'[t])
    BY <1>10, <2>1, IdleThreadType DEF Crash, Opened
  <2>3. TypeOK'
    BY <1>10, <1>t, <2>2 DEF Crash, TypeOK
  <2> QED BY <2>2, <2>3 DEF TypeInv
<1>11. ASSUME UNCHANGED vars PROVE TypeInv'
  BY <1>11 DEF vars, TypeInv, TypeOK
<1> QED
  BY <1>1, <1>2, <1>3, <1>4, <1>5, <1>6, <1>7, <1>8, <1>9, <1>10, <1>11
  DEF Next, Step

LEMMA TypeInit == Init => TypeInv
<1> SUFFICES ASSUME Init PROVE TypeInv
  OBVIOUS
<1>1. data \in [Inodes -> Seq(0 .. Chunks)]
  BY DEF Init
<1>2. th \in [Threads -> Thread] /\ \A t \in Threads : Opened(th[t])
  BY IdleThreadType DEF Init, Opened
<1> QED BY <1>1, <1>2, UploadAssumption DEF Init, TypeInv, TypeOK

\* TypeOK holds however many workers serve PUTs of one response at once.
THEOREM UploadTypes == Spec => []TypeOK
<1>1. TypeInv => TypeOK
  BY DEF TypeInv
<1> QED BY <1>1, TypeInit, TypeStep, PTL DEF Spec

-----------------------------------------------------------------------------
(* One PUT at a time *)

\* What is at the path is a beginning of the response, some chunks of it
\* perhaps garbled; Intact if none is.
Beginning(s) == Len(s) <= Chunks /\ \A k \in 1 .. Len(s) : s[k] \in {0, k}
Intact(s) == \A k \in 1 .. Len(s) : s[k] # 0

Delivered == {"200", "IMPORT_ERROR"}

\* The file has the chunks the client has sent, and no other.
Received(t) ==
    /\ path # 0
    /\ Len(data[path]) = th[t].chunk - 1
    /\ th[t].clean => Intact(data[path])

\* What holds of a worker from one of its steps to the next.  The checksum is
\* worth something later, and the size that Content-Range was compared with is
\* still the size, because nobody else touches the path.
Progress(t) ==
    /\ th[t].pc = "idle" => th[t].chunk = 1
    /\ th[t].pc = "open" =>
         /\ th[t].new = puts /\ data[puts] = <<>>
         /\ th[t].mode = "wb" => th[t].chunk = 1 /\ th[t].pos = 0
         /\ th[t].mode = "ab" =>
              /\ path = 0 => th[t].chunk = 1
              /\ path # 0 => Received(t)
    /\ th[t].pc = "receive" =>
         /\ Received(t) /\ th[t].ino = path
         /\ th[t].mode = "wb" => th[t].pos = th[t].chunk - 1
    /\ th[t].pc = "hash" => Received(t)
    /\ th[t].pc = "import" => path # 0 /\ data[path] = Whole
    /\ th[t].pc = "unlink" => th[t].end \in Delivered

PathInv ==
    /\ path # 0 => path <= puts /\ Beginning(data[path])
    /\ \A i \in Inodes : i > puts => data[i] = <<>>
AloneInv ==
    /\ TypeInv
    /\ PathInv
    /\ \A t \in Threads : Progress(t)
    /\ CompleteUploadDelivered

\* Appending the next chunk, or garbage in its place.
LEMMA AppendKeeps ==
    ASSUME NEW s \in Seq(0 .. Chunks), Beginning(s), Len(s) < Chunks,
           NEW c \in {0, Len(s) + 1}
    PROVE  LET w == WriteAt(s, Len(s), c) IN
             /\ Beginning(w) /\ Len(w) = Len(s) + 1
             /\ Intact(s) /\ c # 0 => Intact(w)
<1> DEFINE w == WriteAt(s, Len(s), c)
<1>1. c \in 0 .. Chunks /\ Len(s) \in Nat
  BY UploadAssumption
<1>2. /\ w \in Seq(0 .. Chunks) /\ Len(w) = Len(s) + 1 /\ w[Len(s) + 1] = c
      /\ \A k \in 1 .. Len(s) : w[k] = s[k]
  BY <1>1, WriteAtType
<1> HIDE DEF w
<1>3. Beginning(w)
  BY <1>1, <1>2, UploadAssumption DEF Beginning
<1>4. Intact(s) /\ c # 0 => Intact(w)
  BY <1>1, <1>2 DEF Intact
<1> QED BY <1>2, <1>3, <1>4 DEF w

\* A beginning of full length without garbled chunks is the response.
LEMMA IntactIsWhole ==
    ASSUME NEW s \in Seq(0 .. Chunks), Beginning(s), Intact(s), Len(s) = Chunks
    PROVE  s = Whole
<1>1. \A k \in 1 .. Chunks : s[k] = k
  BY DEF Beginning, Intact
<1>2. s = [k \in 1 .. Len(s) |-> s[k]]
  OBVIOUS
<1> QED BY <1>1, <1>2 DEF Whole

\* The only worker has answered.
LEMMA AloneFinish ==
    ASSUME AloneInv, TypeInv', NEW t \in Threads, \A u \in Threads : u = t,
           NEW code, Finish(t, code),
           th[t].clean /\ th[t].chunk > Chunks => code \in Delivered
    PROVE  CompleteUploadDelivered' /\ \A u \in Threads : Progress(u)'
<1> DEFINE b == th[t].clean /\ th[t].chunk > Chunks
<1>1. answers' = answers \cup {[clean |-> b, code |-> code]}
      /\ th' = [th EXCEPT ![t] = IdleThread]
  BY DEF Finish
<1>2. b => code \in Delivered
  OBVIOUS
<1> HIDE DEF b
<1>3. CompleteUploadDelivered'
  BY <1>1, <1>2 DEF AloneInv, CompleteUploadDelivered, Delivered
<1>4. th'[t] = IdleThread
  BY <1>1 DEF AloneInv, TypeInv, TypeOK
<1>5. Progress(t)'
  BY <1>4, IdleThreadType DEF Progress
<1> QED BY <1>3, <1>5

\* Every step of the only worker keeps the invariant.
LEMMA AloneStep ==
    ASSUME \A s, t \in Threads : s = t, AloneInv, [Next]_vars
    PROVE  AloneInv'
<1>t. TypeInv'
  BY TypeStep DEF AloneInv
<1>i. /\ th \in [Threads -> Thread]
      /\ path \in Inodes \cup {0}
      /\ data \in [Inodes -> Seq(0 .. Chunks)]
      /\ puts \in 0 .. MaxPuts
      /\ PathInv /\ CompleteUploadDelivered
      /\ \A t \in Threads : th[t] \in Thread /\ Progress(t)
  BY DEF AloneInv, TypeInv, TypeOK
<1>s. path # 0 => path \in Inodes /\ data[path] \in Seq(0 .. Chunks) /\ Len(data[path]) \in Nat
  BY <1>i
<1>n. Inodes \subseteq Nat \ {0}
  BY UploadAssumption DEF Inodes
<1>1. ASSUME NEW t \in Threads, Put(t) PROVE AloneInv'
  <2>1. /\ th'[t] = [IdleThread EXCEPT !.pc = "open", !.new = puts + 1]
        /\ puts' = puts + 1 /\ puts + 1 \in Inodes
        /\ UNCHANGED <<path, data, decrypted, answers>>
    BY <1>1, <1>i, UploadAssumption DEF Put, Inodes
  <2>2. /\ th'[t].pc = "open" /\ th'[t].new = puts' /\ th'[t].mode = "wb"
        /\ th'[t].chunk = 1 /\ th'[t].pos = 0
    BY <2>1 DEF IdleThread
  <2>3. data'[puts'] = <<>>
    BY <1>i, <2>1 DEF PathInv
  <2>4. Progress(t)'
    BY <2>2, <2>3 DEF Progress
  <2>5. PathInv'
    BY <1>i, <1>n, <2>1 DEF PathInv
  <2> QED BY <1>i, <1>t, <2>1, <2>4, <2>5
      DEF AloneInv, CompleteUploadDelivered
<1>2. ASSUME NEW t \in Threads, NEW start \in 0 .. Chunks - 1, PutRange(t, start)
      PROVE  AloneInv'
  <2>1. /\ puts' = puts + 1 /\ puts + 1 \in Inodes /\ th[t].pc = "idle"
        /\ UNCHANGED <<path, data, decrypted>>
    BY <1>2, <1>i, UploadAssumption DEF PutRange, Inodes
  <2>2. PathInv'
    BY <1>i, <1>n, <2>1 DEF PathInv
  <2>3. CASE start = Size
    <3>1. /\ th'[t] = [IdleThread EXCEPT
                         !.pc = "open", !.mode = "ab", !.new = puts + 1,
                         !.chunk = start + 1, !.clean = PartialIsClean]
          /\ UNCHANGED answers
      BY <1>2, <1>i, <2>3 DEF PutRange
    <3>2. /\ th'[t].pc = "open" /\ th'[t].new = puts' /\ th'[t].mode = "ab"
          /\ th'[t].chunk = Size + 1 /\ th'[t].clean = PartialIsClean
      BY <2>1, <2>3, <3>1 DEF IdleThread
    <3>3. data'[puts'] = <<>>
      BY <1>i, <2>1 DEF PathInv
    <3>4. path' = 0 => th'[t].chunk = 1
      BY <2>1, <3>2 DEF Size
    <3>5. path' # 0 => Received(t)'
      <4> SUFFICES ASSUME path # 0 PROVE Received(t)'
        BY <2>1
      <4>1. Size = Len(data[path])
        BY DEF Size
      <4>2. PartialIsClean => Intact(data[path])
        BY <4>1 DEF PartialIsClean, Intact
      <4>3. th'[t].clean => Intact(data[path])
        BY <3>2, <4>2
      <4>4. Len(data[path]) = th'[t].chunk - 1
        BY <1>s, <3>2, <4>1
      <4> QED BY <2>1, <4>3, <4>4 DEF Received
    <3>6. Progress(t)'
      BY <3>2, <3>3, <3>4, <3>5 DEF Progress
    <3> QED BY <1>i, <1>t, <2>1, <2>2, <3>1, <3>6
        DEF AloneInv, CompleteUploadDelivered
  <2>4. CASE start # Size
    <3>1. Finish(t, "RANGE_MISMATCH")
      BY <1>2, <2>4 DEF PutRange
    <3>2. ~(th[t].chunk > Chunks)
      BY <1>i, <2>1, UploadAssumption DEF Progress
    <3>3. CompleteUploadDelivered' /\ \A u \in Threads : Progress(u)'
      BY <1>t, <3>1, <3>2, AloneFinish
    <3> QED BY <1>i, <1>t, <2>1, <2>2, <3>3 DEF AloneInv
  <2> QED BY <2>3, <2>4
<1>3. ASSUME NEW t \in Threads, Open(t) PROVE AloneInv'
  <2> DEFINE i == IF path = 0 THEN th[t].new ELSE path
  <2>1. /\ th[t].pc = "open" /\ path' = i
        /\ data' = IF th[t].mode = "wb" THEN [data EXCEPT ![i] = <<>>] ELSE data
        /\ th' = [th EXCEPT ![t].pc = "receive", ![t].ino = i]
        /\ UNCHANGED <<puts, decrypted, answers>>
    BY <1>3 DEF Open
  <2>2. Progress(t) /\ th[t] \in Thread /\ Opened(th[t])
    BY <1>i DEF AloneInv, TypeInv
  <2>3. /\ i \in Inodes /\ i <= puts /\ data[i] \in Seq(0 .. Chunks)
        /\ path = 0 => data[i] = <<>>
    BY <1>i, <1>n, <2>1, <2>2 DEF Progress, Opened, PathInv
  <2>4. /\ th'[t].pc = "receive" /\ th'[t].ino = path' /\ th'[t].mode = th[t].mode
        /\ th'[t].chunk = th[t].chunk /\ th'[t].clean = th[t].clean
        /\ th'[t].pos = th[t].pos
    BY <1>i, <2>1, <2>2 DEF Thread
  <2>5. <<>> \in Seq(0 .. Chunks) /\ Len(<<>>) = 0 /\ Beginning(<<>>) /\ Intact(<<>>)
    BY UploadAssumption DEF Beginning, Intact
  <2>6. th[t].mode = "wb" \/ th[t].mode = "ab"
    BY <2>2 DEF Thread
  <2>7. CASE th[t].mode = "wb"
    <3>1. data'[path'] = <<>> /\ \A j \in Inodes : j # i => data'[j] = data[j]
      BY <1>i, <2>1, <2>3, <2>7
    <3>2. Received(t)' /\ th[t].chunk = 1 /\ th[t].pos = 0
      BY <1>n, <2>1, <2>2, <2>3, <2>4, <2>5, <2>7, <3>1 DEF Received, Progress
    <3>3. Progress(t)'
      BY <2>4, <3>2 DEF Progress
    <3>4. PathInv'
      BY <1>i, <1>n, <2>1, <2>3, <2>5, <3>1 DEF PathInv
    <3> QED BY <1>i, <1>t, <2>1, <3>3, <3>4
        DEF AloneInv, CompleteUploadDelivered
  <2>8. CASE th[t].mode = "ab"
    <3>1. data' = data
      BY <2>1, <2>8
    <3>2. Received(t)'
      <4>1. CASE path = 0
        BY <1>n, <2>1, <2>2, <2>3, <2>4, <2>5, <2>8, <3>1, <4>1 DEF Received, Progress
      <4>2. CASE path # 0
        BY <2>1, <2>2, <2>4, <2>8, <3>1, <4>2 DEF Received, Progress
      <4> QED BY <4>1, <4>2
    <3>3. Progress(t)'
      BY <2>4, <2>8, <3>2 DEF Progress
    <3>4. PathInv'
      BY <1>i, <1>n, <2>1, <2>3, <2>5, <3>1 DEF PathInv
    <3> QED BY <1>i, <1>t, <2>1, <3>3, <3>4
        DEF AloneInv, CompleteUploadDelivered
  <2> QED BY <2>6, <2>7, <2>8
<1>4. ASSUME NEW t \in Threads, Receive(t) PROVE AloneInv'
  <2> DEFINE p == IF th[t].mode = "ab" THEN Len(data[th[t].ino]) ELSE th[t].pos
  <2>1. PICK c \in {th[t].chunk} \cup (IF "garble" \in Faults THEN {0} ELSE {}) :
          /\ data' = [data EXCEPT ![th[t].ino] = WriteAt(@, p, c)]
          /\ th' = [th EXCEPT ![t].pos = p + 1, ![t].chunk = @ + 1,
                              ![t].clean = @ /\ c # 0]
    BY <1>4 DEF Receive
  <2>2. /\ th[t].pc = "receive" /\ th[t].chunk <= Chunks
        /\ UNCHANGED <<path, puts, decrypted, answers>>
    BY <1>4 DEF Receive
  <2>3. th[t] \in Thread /\ Received(t) /\ th[t].ino = path
        /\ (th[t].mode = "wb" => th[t].pos = th[t].chunk - 1)
    BY <1>i, <2>2 DEF Progress
  <2>4. /\ path # 0 /\ path \in Inodes /\ path <= puts /\ data[path] \in Seq(0 .. Chunks)
        /\ Beginning(data[path]) /\ Len(data[path]) = th[t].chunk - 1
        /\ th[t].clean => Intact(data[path])
    BY <1>i, <1>s, <2>3 DEF Received, PathInv
  <2>5. p = Len(data[path])
    BY <2>3, <2>4 DEF Thread
  <2>6. c \in {0, Len(data[path]) + 1} /\ Len(data[path]) < Chunks
    BY <2>2, <2>3, <2>4, UploadAssumption DEF Thread
  <2> DEFINE w == WriteAt(data[path], Len(data[path]), c)
  <2>7. /\ Beginning(w) /\ Len(w) = Len(data[path]) + 1
        /\ Intact(data[path]) /\ c # 0 => Intact(w)
    BY <2>4, <2>6, AppendKeeps
  <2>8. data' = [data EXCEPT ![path] = w]
    BY <2>1, <2>3, <2>5
  <2> HIDE DEF w
  <2>9. data'[path] = w /\ \A j \in Inodes : j # path => data'[j] = data[j]
    BY <1>i, <2>4, <2>8
  <2>10. /\ th'[t].pc = "receive" /\ th'[t].ino = path /\ th'[t].mode = th[t].mode
         /\ th'[t].chunk = th[t].chunk + 1 /\ th'[t].pos = p + 1
    BY <1>i, <2>1, <2>2, <2>3 DEF Thread
  <2>11. th'[t].clean => th[t].clean /\ c # 0
    BY <1>i, <2>1, <2>3 DEF Thread
  <2> HIDE DEF p
  <2>12. Received(t)'
    <3>1. th'[t].clean => Intact(w)
      BY <2>4, <2>7, <2>11
    <3>2. Len(w) = th'[t].chunk - 1
      BY <2>3, <2>4, <2>7, <2>10 DEF Thread
    <3> QED BY <2>2, <2>4, <2>9, <3>1, <3>2 DEF Received
  <2>13. th'[t].mode = "wb" => th'[t].pos = th'[t].chunk - 1
    BY <2>3, <2>4, <2>5, <2>10 DEF Thread
  <2>14. Progress(t)'
    BY <2>2, <2>10, <2>12, <2>13 DEF Progress
  <2>15. PathInv'
    BY <1>i, <1>n, <2>2, <2>4, <2>7, <2>9 DEF PathInv
  <2> QED BY <1>i, <1>t, <2>2, <2>14, <2>15
      DEF AloneInv, CompleteUploadDelivered
<1>5. ASSUME NEW t \in Threads, EndOfBody(t) PROVE AloneInv'
  <2>1. /\ th[t].pc = "receive" /\ th' = [th EXCEPT ![t].pc = "hash"]
        /\ UNCHANGED <<path, data, puts, decrypted, answers>>
    BY <1>5 DEF EndOfBody
  <2>2. /\ th'[t].pc = "hash" /\ th'[t].chunk = th[t].chunk
        /\ th'[t].clean = th[t].clean
    BY <1>i, <2>1 DEF Thread
  <2>3. Received(t)'
    BY <1>i, <2>1, <2>2 DEF Progress, Received
  <2>4. Progress(t)'
    BY <2>2, <2>3 DEF Progress
  <2> QED BY <1>i, <1>t, <2>1, <2>4
      DEF AloneInv, PathInv, CompleteUploadDelivered
<1>6. ASSUME NEW t \in Threads, Timeout(t) PROVE AloneInv'
  <2>1. /\ Finish(t, "FAILED") /\ th[t].chunk <= Chunks
        /\ UNCHANGED <<path, data, puts, decrypted>>
    BY <1>6 DEF Timeout
  <2>2. ~(th[t].chunk > Chunks)
    BY <1>i, <2>1, UploadAssumption DEF Thread
  <2>3. CompleteUploadDelivered' /\ \A u \in Threads : Progress(u)'
    BY <1>t, <2>1, <2>2, AloneFinish
  <2> QED BY <1>i, <1>t, <2>1, <2>3 DEF AloneInv, PathInv
<1>7. ASSUME NEW t \in Threads, Hash(t) PROVE AloneInv'
  <2>1. th[t].pc = "hash" /\ UNCHANGED <<data, puts, decrypted>>
    BY <1>7 DEF Hash
  <2>2. Received(t) /\ th[t] \in Thread
    BY <1>i, <2>1 DEF Progress
  <2>3. CASE data[path] = Whole
    <3>1. th' = [th EXCEPT ![t].pc = "import"] /\ UNCHANGED <<path, answers>>
      BY <1>7, <2>2, <2>3 DEF Hash, Received
    <3>2. th'[t].pc = "import"
      BY <1>i, <2>2, <3>1 DEF Thread
    <3>3. Progress(t)'
      BY <2>1, <2>2, <2>3, <3>1, <3>2 DEF Progress, Received, Whole
    <3> QED BY <1>i, <1>t, <2>1, <3>1, <3>3
        DEF AloneInv, PathInv, CompleteUploadDelivered
  <2>4. CASE data[path] # Whole
    <3>1. Finish(t, "CHECKSUM_MISMATCH") /\ path' = 0
      BY <1>7, <2>2, <2>4 DEF Hash, Received
    <3>2. ~(th[t].clean /\ th[t].chunk > Chunks)
      <4> SUFFICES ASSUME th[t].clean, th[t].chunk > Chunks PROVE FALSE
        OBVIOUS
      <4>1. /\ data[path] \in Seq(0 .. Chunks) /\ Beginning(data[path])
            /\ Intact(data[path])
        BY <1>i, <1>s, <2>2 DEF Received, PathInv
      <4>2. Len(data[path]) = Chunks
        BY <2>2, UploadAssumption DEF Received, Thread
      <4> QED BY <2>4, <4>1, <4>2, IntactIsWhole
    <3>3. CompleteUploadDelivered' /\ \A u \in Threads : Progress(u)'
      BY <1>t, <3>1, <3>2, AloneFinish
    <3> QED BY <1>i, <1>t, <2>1, <3>1, <3>3 DEF AloneInv, PathInv
  <2> QED BY <2>3, <2>4
<1>8. ASSUME NEW t \in Threads, Import(t) PROVE AloneInv'
  <2>1. th[t].pc = "import" /\ UNCHANGED <<path, data, puts, answers>>
    BY <1>8 DEF Import
  <2>2. path # 0 /\ data[path] = Whole
    BY <1>i, <2>1 DEF Progress
  <2>3. ImportEnds \subseteq Delivered
    BY <2>2 DEF ImportEnds, Delivered
  <2>4. PICK end \in Delivered : th' = [th EXCEPT ![t].pc = "unlink", ![t].end = end]
    BY <1>8, <2>3 DEF Import
  <2>5. th'[t].pc = "unlink" /\ th'[t].end \in Delivered
    BY <1>i, <2>4 DEF Thread
  <2>6. Progress(t)'
    BY <2>5 DEF Progress, Delivered
  <2> QED BY <1>i, <1>t, <2>1, <2>6 DEF AloneInv, PathInv, CompleteUploadDelivered
<1>9. ASSUME NEW t \in Threads, Unlink(t) PROVE AloneInv'
  <2>1. th[t].end \in Delivered
    BY <1>9, <1>i DEF Unlink, Progress
  <2>2. Finish(t, th[t].end) /\ path' = 0 /\ UNCHANGED <<data, puts, decrypted>>
    BY <1>9 DEF Unlink
  <2>3. CompleteUploadDelivered' /\ \A u \in Threads : Progress(u)'
    BY <1>t, <2>1, <2>2, AloneFinish
  <2> QED BY <1>i, <1>t, <2>2, <2>3 DEF AloneInv, PathInv
<1>10. ASSUME Crash PROVE AloneInv'
  <2>1. \A t \in Threads : th'[t] = IdleThread
    BY <1>10 DEF Crash
  <2>2. \A t \in Threads : Progress(t)'
    BY <2>1, IdleThreadType DEF Progress
  <2> QED BY <1>10, <1>i, <1>t, <2>2
      DEF Crash, AloneInv, PathInv, CompleteUploadDelivered
<1>11. ASSUME UNCHANGED vars PROVE AloneInv'
  <2>1. \A t \in Threads : Progress(t)'
    BY <1>11, <1>i DEF vars, Progress, Received
  <2> QED BY <1>11, <1>i, <1>t, <2>1
      DEF vars, AloneInv, PathInv, CompleteUploadDelivered
<1> QED
  BY <1>1, <1>2, <1>3, <1>4, <1>5, <1>6, <1>7, <1>8, <1>9, <1>10, <1>11
  DEF Next, Step

LEMMA AloneInit == Init => AloneInv
<1> SUFFICES ASSUME Init PROVE AloneInv
  OBVIOUS
<1>1. \A t \in Threads : Progress(t)
  BY IdleThreadType DEF Init, Progress
<1> QED BY <1>1, TypeInit
    DEF Init, AloneInv, PathInv, CompleteUploadDelivered

-----------------------------------------------------------------------------
\* The invariant, if the client has one PUT under way at a time.
THEOREM UploadInvariant ==
    ASSUME \A s, t \in Threads : s = t
    PROVE  Spec => []AloneInv
<1>1. AloneInv /\ [Next]_vars => AloneInv'
  BY AloneStep
<1> QED BY <1>1, AloneInit, PTL DEF Spec

\* CompleteUploadDelivered: with one PUT at a time, an upload or a resumption
\* all of whose chunks have arrived reaches import_response unchanged, whatever
\* the size of the response and whatever earlier uploads, timeouts and restarts
\* have left.
THEOREM CompleteDelivered ==
    ASSUME \A s, t \in Threads : s = t
    PROVE  Spec => []CompleteUploadDelivered
<1>1. AloneInv => CompleteUploadDelivered
  BY DEF AloneInv
<1> QED BY <1>1, UploadInvariant, PTL
=============================================================================
