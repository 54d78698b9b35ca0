------------------------------- MODULE Upload -------------------------------
(***************************************************************************)
(* Slots for file uploads (XEP-0363): the plugin hands them out, and the   *)
(* HTTP server takes the files.  handle_upload checks the slot first and   *)
(* marks it filled last; between the two it opens the file, receives and   *)
(* writes it, and every one of these suspends.                             *)
(*                                                                         *)
(* A file is a sequence of pieces.  Its k-th piece only ever comes from    *)
(* the k-th piece of a body, so that it is told by whose body it was.      *)
(* Requests that are refused change nothing and are left out, as are names *)
(* and types, which only decide on that.  Slots live as long as the        *)
(* process.                                                                *)
(***************************************************************************)
EXTENDS Integers, Sequences

CONSTANTS
    Slots,      \* slot ids
    Uploads,    \* PUT requests ever made
    None,       \* no slot, no file, no Content-Length, a hole in a file
    Sizes,      \* sizes that are declared, as int parses them
    MaxSize,    \* _max_size
    Chunks,     \* sizes of what iter_chunked yields
    MaxBody     \* bound: pieces of a body

Slot == [size : Sizes, filled : BOOLEAN, file : Uploads \cup {None}]

ASSUME NoneAssumption ==
    None \notin Uploads /\ None \notin Slots /\ None \notin Int /\ None \notin Slot
ASSUME SizesAssumption == Sizes \subseteq Int /\ MaxSize \in Int
ASSUME ChunksAssumption == Chunks \subseteq Nat \ {0}
ASSUME BodyAssumption == MaxBody \in Nat

VARIABLES
    slots,      \* _slots, with the entry of the slot's directory
    up,         \* the requests
    disk,       \* the files: a file is named by the request that created it
    overlapped  \* history: slots with two requests at a time

vars == <<slots, up, disk, overlapped>>

(* length is Content-Length, got what was received for the file and put what
   was written of it; the rest of it is in the buffer of the open file. *)
Upload == [phase : {"new", "opening", "receiving", "closing", "done"},
           slot : Slots \cup {None}, length : Nat \cup {None},
           got : Nat, put : Nat, file : Uploads \cup {None},
           body : {"whole", "invalid", "aborted"}]

NewUpload == [phase |-> "new", slot |-> None, length |-> None, got |-> 0,
              put |-> 0, file |-> None, body |-> "whole"]

Init ==
    /\ slots = [s \in Slots |-> None]
    /\ up = [u \in Uploads |-> NewUpload]
    /\ disk = [u \in Uploads |-> <<>>]
    /\ overlapped = {}

Active(s) == {u \in Uploads : up[u].slot = s /\ up[u].phase # "done"}

(* Mutant: the size is stored as a truth value would have it. *)
SlotRequestZero(s, size) ==
    /\ slots[s] = None
    /\ size <= MaxSize
    /\ slots' = [slots EXCEPT ![s] =
                    [size |-> IF size = 0 THEN None ELSE size, filled |-> FALSE, file |-> None]]
    /\ UNCHANGED <<up, disk, overlapped>>

(* What int makes of a size, up to the maximum: zero and less included. *)
SlotRequest(s, size) ==
    /\ slots[s] = None
    /\ size <= MaxSize
    /\ slots' = [slots EXCEPT ![s] = [size |-> size, filled |-> FALSE, file |-> None]]
    /\ UNCHANGED <<up, disk, overlapped>>

(* Zero is as good as none, for the size and for Content-Length. *)
Differs(length, size) == length \notin {None, 0} /\ size # 0 /\ length # size

(* Mutant: nothing tells that the slot is filled. *)
AcceptFilled(u, s, length) ==
    /\ up[u].phase = "new"
    /\ slots[s] # None
    /\ ~ Differs(length, slots[s].size)
    /\ up' = [up EXCEPT ![u].phase = "opening", ![u].slot = s, ![u].length = length]
    /\ overlapped' = IF Active(s) = {} THEN overlapped ELSE overlapped \cup {s}
    /\ UNCHANGED <<slots, disk>>

(* A request that passes every check of handle_upload. *)
Accept(u, s, length) ==
    /\ up[u].phase = "new"
    /\ slots[s] # None
    /\ ~ slots[s].filled
    /\ ~ Differs(length, slots[s].size)
    /\ up' = [up EXCEPT ![u].phase = "opening", ![u].slot = s, ![u].length = length]
    /\ overlapped' = IF Active(s) = {} THEN overlapped ELSE overlapped \cup {s}
    /\ UNCHANGED <<slots, disk>>

(* Mutant: what a request left in the file stays. *)
OpenKeeps(u) ==
    /\ up[u].phase = "opening"
    /\ LET s == up[u].slot
           file == IF slots[s].file = None THEN u ELSE slots[s].file
       IN  /\ slots' = [slots EXCEPT ![s].file = file]
           /\ up' = [up EXCEPT ![u].phase = "receiving", ![u].file = file]
    /\ UNCHANGED <<disk, overlapped>>

(* The file is created, or emptied whoever is writing to it. *)
Open(u) ==
    /\ up[u].phase = "opening"
    /\ LET s == up[u].slot
           file == IF slots[s].file = None THEN u ELSE slots[s].file
       IN  /\ slots' = [slots EXCEPT ![s].file = file]
           /\ up' = [up EXCEPT ![u].phase = "receiving", ![u].file = file]
           /\ disk' = [disk EXCEPT ![file] = <<>>]
    /\ UNCHANGED overlapped

(* The bodies that the connection can carry. *)
MayReceive(u, n) ==
    /\ up[u].phase = "receiving"
    /\ up[u].got + n <= MaxBody
    /\ up[u].length # None => up[u].got + n <= up[u].length

(* Mutant: a chunk is written before it is found to be too much. *)
ReceiveFirst(u, n) ==
    /\ MayReceive(u, n)
    /\ LET size == slots[up[u].slot].size
           over == size # 0 /\ up[u].got + n > size
       IN  up' = [up EXCEPT ![u].phase = IF over THEN "closing" ELSE @,
                            ![u].body = IF over THEN "invalid" ELSE @,
                            ![u].got = @ + n]
    /\ UNCHANGED <<slots, disk, overlapped>>

(* A chunk: the limit is not for a declared size of zero. *)
Receive(u, n) ==
    /\ MayReceive(u, n)
    /\ LET size == slots[up[u].slot].size
       IN  IF size # 0 /\ up[u].got + n > size
           THEN up' = [up EXCEPT ![u].phase = "closing", ![u].body = "invalid"]
           ELSE up' = [up EXCEPT ![u].got = @ + n]
    /\ UNCHANGED <<slots, disk, overlapped>>

(* The file after u wrote its k-th piece, holes before it included. *)
Put(file, k, u) ==
    [i \in 1 .. (IF k > Len(file) THEN k ELSE Len(file)) |->
        IF i = k THEN u ELSE IF i \in DOMAIN file THEN file[i] ELSE None]

(* A piece gets from the buffer to the file: while more is received, or when
   the file is closed. *)
Write(u) ==
    /\ up[u].phase \in {"receiving", "closing"}
    /\ up[u].put < up[u].got
    /\ up' = [up EXCEPT ![u].put = @ + 1]
    /\ disk' = [disk EXCEPT ![up[u].file] = Put(@, up[u].put + 1, u)]
    /\ UNCHANGED <<slots, overlapped>>

(* The body ended, or the connection did. *)
BodyEnds(u) ==
    /\ up[u].phase = "receiving"
    /\ \/ /\ up[u].length \in {None, up[u].got}
          /\ up' = [up EXCEPT ![u].phase = "closing"]
       \/ up' = [up EXCEPT ![u].phase = "closing", ![u].body = "aborted"]
    /\ UNCHANGED <<slots, disk, overlapped>>

Closed(u) == up[u].phase = "closing" /\ up[u].put = up[u].got

(* With the file closed the slot is filled, or else what is there by the name
   of the file is removed, whoever wrote it; that it may be gone is an error
   that nothing depends on.  An aborted request leaves what it wrote. *)
Finish(u) ==
    /\ Closed(u)
    /\ up' = [up EXCEPT ![u].phase = "done"]
    /\ LET s == up[u].slot
       IN  slots' = CASE up[u].body = "aborted" -> slots
                      [] up[u].body = "whole" /\ up[u].got = slots[s].size ->
                            [slots EXCEPT ![s].filled = TRUE]
                      [] OTHER -> [slots EXCEPT ![s].file = None]
    /\ UNCHANGED <<disk, overlapped>>

Handler(u) ==
    \/ Open(u) \/ Write(u) \/ BodyEnds(u) \/ Finish(u)
    \/ \E n \in Chunks : Receive(u, n)

Next ==
    \/ \E s \in Slots, size \in Sizes : SlotRequest(s, size)
    \/ \E u \in Uploads, s \in Slots, length \in (0 .. MaxBody) \cup {None} :
          Accept(u, s, length)
    \/ \E u \in Uploads : Handler(u)

Spec == Init /\ [][Next]_vars

(* What handle_download sends: the file of a filled slot, if there is one. *)
Served(s) ==
    IF slots[s] # None /\ slots[s].filled /\ slots[s].file # None
    THEN {disk[slots[s].file]} ELSE {}

(***************************************************************************)
(* Properties.                                                             *)
(***************************************************************************)
TypeOK ==
    /\ slots \in [Slots -> Slot \cup {None}]
    /\ up \in [Uploads -> Upload]
    /\ disk \in [Uploads -> Seq(Uploads \cup {None})]
    /\ overlapped \subseteq Slots

(* Whatever the requests of a slot do to each other, none of its files ever
   gets longer than the size that was declared for it, files that were removed
   while a request was writing to them included; a declared size of zero is no
   limit (handle_upload counts before it writes). *)
SizeKept ==
    \A u \in Uploads :
        up[u].slot # None /\ slots[up[u].slot].size # 0
        => disk[u] = <<>> \/ Len(disk[u]) <= slots[up[u].slot].size

(* A filled slot serves the whole body of one request, after any number of
   failed and aborted ones, unless two requests for it overlapped. *)
FilledIsWhole ==
    \A s \in Slots :
        slots[s] # None /\ slots[s].filled /\ s \notin overlapped
        => \E u \in Uploads : Served(s) = {[k \in 1 .. slots[s].size |-> u]}

(* Once a slot is filled and the requests that had been accepted for it are
   done, what it serves never changes. *)
FilledStays ==
    [][\A s \in Slots :
          slots[s] # None /\ slots[s].filled /\ Active(s) = {}
          => Active(s)' = {} /\ Served(s)' = Served(s)]_vars
=============================================================================
