------------------------------- MODULE Upload -------------------------------
(***************************************************************************)
(* PUT /admin/import (handler._handle_admin_import_put): the streaming     *)
(* upload of one transfer response into store/.uploads, its checksum, its  *)
(* import, and the resumption of a partial upload with Content-Range.      *)
(*                                                                         *)
(* The upload path is a function of the client's address and the checksum, *)
(* so every PUT of one response by one client uses the same path; this is  *)
(* the model of that path.  A worker keeps the file open while it receives *)
(* and opens it again, by name, to hash and to import it: so a file is an  *)
(* inode, the path leads to one inode or to none, and a name that is       *)
(* unlinked or truncated by one worker changes what another one reads.     *)
(*                                                                         *)
(* The response has Chunks chunks, numbered from 1; chunk 0 is any other   *)
(* data (a chunk garbled on the way, or a hole).  A file hashes to the     *)
(* checksum iff it is Whole.                                               *)
(***************************************************************************)
EXTENDS Integers, Sequences

CONSTANTS
    Threads,    \* worker threads of the server's pool
    Chunks,     \* length of the response
    MaxPuts,    \* bound: PUT requests the client sends
    Faults      \* what goes wrong: "eof", "timeout", "garble", "crash",
                \* "import" (import_response fails on an intact response)

ASSUME UploadAssumption ==
    /\ Chunks \in Nat \ {0}
    /\ MaxPuts \in Nat
    /\ Faults \subseteq {"eof", "timeout", "garble", "crash", "import"}

VARIABLES
    path,       \* inode the upload path leads to, 0 if there is no such file
    data,       \* content of each inode
    th,         \* the worker threads and their locals
    puts,       \* PUT requests sent so far; the next new inode is puts
    decrypted,  \* history: contents handed to import_response
    answers     \* history: answers to PUT requests

vars == <<path, data, th, puts, decrypted, answers>>

-----------------------------------------------------------------------------
Whole == [k \in 1 .. Chunks |-> k]
Inodes == 1 .. MaxPuts
\* IMPORT_ERROR: import_response had the whole response and raised (other keys,
\* a full disk); FAILED: any other exception of the handler.
Codes == {"200", "RANGE_MISMATCH", "CHECKSUM_MISMATCH", "IMPORT_ERROR", "FAILED"}

\* A thread's locals: how the file is opened ("wb" or "ab"), the inode it has
\* open, the inode a new file would get, the position in it, the next chunk
\* the client sends, how import_response has ended; and, for the properties, whether every chunk has arrived unchanged, those of the partial
\* file included.
Thread == [pc    : {"idle", "open", "receive", "hash", "import", "unlink"},
           mode  : {"wb", "ab"},
           new   : Inodes \cup {0},
           ino   : Inodes \cup {0},
           pos   : Nat,
           chunk : 1 .. Chunks + 1,
           clean : BOOLEAN,
           end   : Codes]
IdleThread == [pc |-> "idle", mode |-> "wb", new |-> 0, ino |-> 0, pos |-> 0,
               chunk |-> 1, clean |-> TRUE, end |-> "FAILED"]

TypeOK ==
    /\ path \in Inodes \cup {0}
    /\ data \in [Inodes -> Seq(0 .. Chunks)]
    /\ th \in [Threads -> Thread]
    /\ puts \in 0 .. MaxPuts
    /\ decrypted \subseteq Seq(0 .. Chunks)
    /\ answers \subseteq [clean : BOOLEAN, code : Codes]

Init ==
    /\ path = 0
    /\ data = [i \in Inodes |-> <<>>]
    /\ th = [t \in Threads |-> IdleThread]
    /\ puts = 0
    /\ decrypted = {}
    /\ answers = {}

Size == IF path = 0 THEN 0 ELSE Len(data[path])

\* History: no chunk of the partial file was garbled.
PartialIsClean == path = 0 \/ \A k \in 1 .. Size : data[path][k] # 0

\* Chunk c is written to content s at offset pos (in chunks): bytes beyond the
\* end of the file that nobody wrote are zero.
WriteAt(s, pos, c) ==
    [k \in 1 .. (IF pos + 1 > Len(s) THEN pos + 1 ELSE Len(s)) |->
        IF k = pos + 1 THEN c ELSE IF k <= Len(s) THEN s[k] ELSE 0]

\* The request is over and the client is answered with code.
Finish(t, code) ==
    /\ th' = [th EXCEPT ![t] = IdleThread]
    /\ answers' = answers \cup {[clean |-> th[t].clean /\ th[t].chunk > Chunks,
                                 code |-> code]}

-----------------------------------------------------------------------------
(* Receiving *)

\* A PUT without Content-Range sends the whole response.
Put(t) ==
    /\ th[t].pc = "idle"
    /\ puts < MaxPuts
    /\ puts' = puts + 1
    /\ th' = [th EXCEPT ![t] = [IdleThread EXCEPT !.pc = "open", !.new = puts + 1]]
    /\ UNCHANGED <<path, data, decrypted, answers>>

\* Mutant: the offset is not compared with the size of the partial file.
PutRange_Unchecked(t, start) ==
    /\ th[t].pc = "idle"
    /\ puts < MaxPuts
    /\ puts' = puts + 1
    /\ th' = [th EXCEPT ![t] = [IdleThread EXCEPT
                !.pc = "open", !.mode = "ab", !.new = puts + 1,
                !.chunk = start + 1]]
    /\ UNCHANGED <<path, data, decrypted, answers>>

\* A PUT with "Content-Range: bytes start-": refused unless the partial file
\* has exactly start bytes.
PutRange(t, start) ==
    /\ th[t].pc = "idle"
    /\ puts < MaxPuts
    /\ puts' = puts + 1
    /\ IF start = Size
         THEN /\ th' = [th EXCEPT ![t] = [IdleThread EXCEPT
                          !.pc = "open", !.mode = "ab", !.new = puts + 1,
                          !.chunk = start + 1, !.clean = PartialIsClean]]
              /\ UNCHANGED answers
         ELSE Finish(t, "RANGE_MISMATCH")
    /\ UNCHANGED <<path, data, decrypted>>

\* open(upload_path, mode): "wb" truncates the file that is there.
Open(t) ==
    /\ th[t].pc = "open"
    /\ LET i == IF path = 0 THEN th[t].new ELSE path IN
         /\ path' = i
         /\ data' = IF th[t].mode = "wb" THEN [data EXCEPT ![i] = <<>>] ELSE data
         /\ th' = [th EXCEPT ![t].pc = "receive", ![t].ino = i]
    /\ UNCHANGED <<puts, decrypted, answers>>

\* Mutant: the loop reads once more when nothing remains.
Receive_PastEnd(t) ==
    /\ th[t].pc = "receive"
    /\ LET i == th[t].ino IN
         /\ data' = [data EXCEPT ![i] = WriteAt(@, Len(@), th[t].chunk)]
         /\ th' = [th EXCEPT ![t].pos = @ + 1, ![t].chunk = @ + 1]
    /\ UNCHANGED <<path, puts, decrypted, answers>>

\* One chunk is read from the connection and written.
Receive(t) ==
    /\ th[t].pc = "receive"
    /\ th[t].chunk <= Chunks
    /\ \E c \in {th[t].chunk} \cup (IF "garble" \in Faults THEN {0} ELSE {}) :
         LET i == th[t].ino
             p == IF th[t].mode = "ab" THEN Len(data[i]) ELSE th[t].pos
         IN  /\ data' = [data EXCEPT ![i] = WriteAt(@, p, c)]
             /\ th' = [th EXCEPT ![t].pos = p + 1,
                                 ![t].chunk = @ + 1,
                                 ![t].clean = @ /\ c # 0]
    /\ UNCHANGED <<path, puts, decrypted, answers>>

\* Everything Content-Length announced has been received, or the client has
\* closed the connection: read returns nothing and the loop ends.
EndOfBody(t) ==
    /\ th[t].pc = "receive"
    /\ th[t].chunk > Chunks \/ "eof" \in Faults
    /\ th' = [th EXCEPT ![t].pc = "hash"]
    /\ UNCHANGED <<path, data, puts, decrypted, answers>>

\* The connection is silent for 60 seconds: read raises and the file stays.
Timeout(t) ==
    /\ th[t].pc = "receive"
    /\ th[t].chunk <= Chunks
    /\ "timeout" \in Faults
    /\ Finish(t, "FAILED")
    /\ UNCHANGED <<path, data, puts, decrypted>>

-----------------------------------------------------------------------------
(* Verifying and importing *)

\* The file is opened by name and hashed.  A mismatch unlinks it; a name that
\* leads nowhere by now is an exception.
Hash(t) ==
    /\ th[t].pc = "hash"
    /\ CASE path = 0 -> Finish(t, "FAILED") /\ UNCHANGED path
         [] path # 0 /\ data[path] = Whole ->
                /\ th' = [th EXCEPT ![t].pc = "import"]
                /\ UNCHANGED <<path, answers>>
         [] path # 0 /\ data[path] # Whole ->
                /\ path' = 0
                /\ Finish(t, "CHECKSUM_MISMATCH")
    /\ UNCHANGED <<data, puts, decrypted>>

ImportEnds ==
    IF path # 0 /\ data[path] = Whole
      THEN {"200"} \cup (IF "import" \in Faults THEN {"IMPORT_ERROR"} ELSE {})
      ELSE {"FAILED"}

\* import_response reads the file by name and decrypts what it read; a file
\* that is gone, and anything that is not the response, is an error; the whole
\* response may be one too.
Import(t) ==
    /\ th[t].pc = "import"
    /\ decrypted' = IF path = 0 THEN decrypted ELSE decrypted \cup {data[path]}
    /\ \E end \in ImportEnds : th' = [th EXCEPT ![t].pc = "unlink", ![t].end = end]
    /\ UNCHANGED <<path, data, puts, answers>>

\* finally: upload_path.unlink(missing_ok=True), and the answer.
Unlink(t) ==
    /\ th[t].pc = "unlink"
    /\ path' = 0
    /\ Finish(t, th[t].end)
    /\ UNCHANGED <<data, puts, decrypted>>

\* The daemon is killed and restarted; .uploads is left as it is.
Crash ==
    /\ "crash" \in Faults
    /\ th' = [t \in Threads |-> IdleThread]
    /\ UNCHANGED <<path, data, puts, decrypted, answers>>

-----------------------------------------------------------------------------
Step(t) ==
    \/ Open(t)
    \/ Receive(t)
    \/ EndOfBody(t)
    \/ Timeout(t)
    \/ Hash(t)
    \/ Import(t)
    \/ Unlink(t)

Next ==
    \/ \E t \in Threads : Put(t) \/ Step(t)
    \/ \E t \in Threads, start \in 0 .. Chunks - 1 : PutRange(t, start)
    \/ Crash

Spec == Init /\ [][Next]_vars

-----------------------------------------------------------------------------
(* Properties *)

\* Nothing is decrypted that has not been found to match X-Buncker-Checksum.
DecryptsOnlyVerified == decrypted \subseteq {Whole}

\* An upload, whole or resumed, all of whose chunks have arrived unchanged
\* reaches import_response as the response that was sent, whatever earlier
\* uploads, timeouts, failed imports and restarts left behind.
CompleteUploadDelivered ==
    \A a \in answers : a.clean => a.code \in {"200", "IMPORT_ERROR"}
=============================================================================
