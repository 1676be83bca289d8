---------------------------- MODULE ContentStore ----------------------------
(***************************************************************************)
(* What the blob store promises its users, as if each operation were one   *)
(* step: a digest has a file or has none, a file appears with its final    *)
(* content or not at all, a pull sends what the file holds at one moment,  *)
(* and a file goes only after a GC report of this run of the daemon has    *)
(* named it.  Temporary files, sidecars, threads and the two openings of a *)
(* pulled file are the business of BlobStore, which implements this.       *)
(***************************************************************************)

CONSTANTS
    Digests,    \* the digests that occur in requests and archives
    Tearing,    \* a write may be cut short without an error
    Rotting     \* stored files may decay

VARIABLES
    content,    \* content of the file of each digest
    marked,     \* digests a GC report has named since the daemon started
    served      \* contents that were sent to clients

vars == <<content, marked, served>>

Init ==
    /\ content = [d \in Digests |-> "absent"]
    /\ marked = {}
    /\ served = {}

\* An import puts a blob in place, over one that is there already if another
\* import came first.
Put(d) ==
    /\ \E c \in {"whole", "torn"} :
         /\ c = "torn" => Tearing
         /\ content' = [content EXCEPT ![d] = c]
    /\ UNCHANGED <<marked, served>>

\* A pull.
Serve(d) ==
    /\ content[d] # "absent"
    /\ served' = served \cup {content[d]}
    /\ UNCHANGED <<content, marked>>

\* A GC report.
Mark(S) ==
    /\ marked' = marked \cup S
    /\ UNCHANGED <<content, served>>

\* A GC execution deletes one blob.
Remove(d) ==
    /\ d \in marked
    /\ content' = [content EXCEPT ![d] = "absent"]
    /\ UNCHANGED <<marked, served>>

Decay(d) ==
    /\ Rotting
    /\ content[d] = "whole"
    /\ content' = [content EXCEPT ![d] = "torn"]
    /\ UNCHANGED <<marked, served>>

Restart ==
    /\ marked' = {}
    /\ UNCHANGED <<content, served>>

Next ==
    \/ \E d \in Digests : Put(d) \/ Serve(d) \/ Remove(d) \/ Decay(d)
    \/ \E S \in SUBSET Digests : Mark(S)
    \/ Restart

Spec == Init /\ [][Next]_vars
=============================================================================
