---------------------------- MODULE UploadProofs ----------------------------
(***************************************************************************)
(* Proofs of the properties of Upload.                                     *)
(*                                                                         *)
(* A request and a slot only ever refer to files of the same slot (Files), *)
(* so that requests for different slots do not meet; a request has never   *)
(* got more than the declared size (Requests), which bounds every file;    *)
(* and a request that is alone on its slot finds in the file exactly what  *)
(* it wrote (Alone).                                                       *)
(***************************************************************************)
EXTENDS Upload, SequenceTheorems, TLAPS

Busy == {"receiving", "closing"}

RequestOK(u) ==
    /\ up[u].phase = "new" => up[u].slot = None /\ disk[u] = <<>>
    /\ up[u].phase # "new" => up[u].slot \in Slots /\ slots[up[u].slot] # None
    /\ up[u].phase \in {"new", "opening"} => up[u].got = 0 /\ up[u].put = 0 /\ up[u].file = None
    /\ up[u].phase \in Busy => up[u].file # None
    /\ up[u].put <= up[u].got
    /\ up[u].slot # None /\ slots[up[u].slot].size # 0
          => up[u].got = 0 \/ up[u].got <= slots[up[u].slot].size

Requests == \A u \in Uploads : RequestOK(u)

Files ==
    /\ \A u \in Uploads : up[u].file # None => up[up[u].file].slot = up[u].slot
    /\ \A s \in Slots : slots[s] # None /\ slots[s].file # None => up[slots[s].file].slot = s

(* What is on the disk after the first n pieces of u, and nothing else. *)
Body(u, n) == [k \in 1 .. n |-> u]

AloneOK(s) ==
    /\ \A u, v \in Active(s) : u = v
    /\ slots[s].filled =>
          /\ Active(s) = {}
          /\ slots[s].file # None
          /\ \E u \in Uploads : disk[slots[s].file] = Body(u, slots[s].size)
    /\ \A u \in Active(s) : up[u].phase \in Busy =>
          /\ slots[s].file = up[u].file
          /\ disk[up[u].file] = Body(u, up[u].put)

Alone == \A s \in Slots \ overlapped : slots[s] # None => AloneOK(s)

Inv == TypeOK /\ Requests /\ Files /\ SizeKept /\ Alone

(***************************************************************************)
(* Files.                                                                  *)
(***************************************************************************)
LEMMA PutLength ==
    ASSUME NEW file \in Seq(Uploads \cup {None}), NEW k \in Nat \ {0}, NEW u \in Uploads
    PROVE  /\ Put(file, k, u) \in Seq(Uploads \cup {None})
           /\ Len(Put(file, k, u)) = IF k > Len(file) THEN k ELSE Len(file)
<1> DEFINE n == IF k > Len(file) THEN k ELSE Len(file)
<1>1. n \in Nat
  OBVIOUS
<1>2. Put(file, k, u) \in [1 .. n -> Uploads \cup {None}]
  BY DEF Put
<1> HIDE DEF n
<1>3. Put(file, k, u) \in Seq(Uploads \cup {None}) /\ Len(Put(file, k, u)) = n
  BY <1>1, <1>2
<1> QED  BY <1>3 DEF n

LEMMA PutNext ==
    ASSUME NEW u \in Uploads, NEW n \in Nat
    PROVE  Put(Body(u, n), n + 1, u) = Body(u, n + 1)
<1>1. DOMAIN Body(u, n) = 1 .. n /\ Len(Body(u, n)) = n
  <2>1. Body(u, n) \in [1 .. n -> Uploads] /\ DOMAIN Body(u, n) = 1 .. n
    BY DEF Body
  <2> HIDE DEF Body
  <2>2. Body(u, n) \in Seq(Uploads)
    BY <2>1, SeqDef
  <2> QED  BY <2>1, <2>2, LenProperties
<1>2. Put(Body(u, n), n + 1, u) =
         [i \in 1 .. (n + 1) |->
            IF i = n + 1 THEN u
            ELSE IF i \in DOMAIN Body(u, n) THEN Body(u, n)[i] ELSE None]
  BY <1>1 DEF Put
<1>3. \A i \in 1 .. (n + 1) : i # n + 1 => i \in DOMAIN Body(u, n) /\ Body(u, n)[i] = u
  BY <1>1 DEF Body
<1> QED  BY <1>2, <1>3 DEF Body

LEMMA SlotType ==
    ASSUME TypeOK, NEW s \in Slots, slots[s] # None
    PROVE  /\ slots[s] \in Slot /\ slots[s].size \in Sizes /\ slots[s].size \in Int
           /\ slots[s].filled \in BOOLEAN /\ slots[s].file \in Uploads \cup {None}
BY SizesAssumption DEF TypeOK, Slot

LEMMA UploadType ==
    ASSUME TypeOK, NEW u \in Uploads
    PROVE  /\ up[u] \in Upload
           /\ up[u].phase \in {"new", "opening", "receiving", "closing", "done"}
           /\ up[u].slot \in Slots \cup {None} /\ up[u].file \in Uploads \cup {None}
           /\ up[u].got \in Nat /\ up[u].put \in Nat
           /\ disk[u] \in Seq(Uploads \cup {None})
BY DEF TypeOK, Upload

(***************************************************************************)
(* A slot is requested.                                                    *)
(***************************************************************************)
LEMMA SlotRequestStep ==
    ASSUME Inv, NEW s \in Slots, NEW size \in Sizes, SlotRequest(s, size)
    PROVE  Inv'
<1> DEFINE new == [size |-> size, filled |-> FALSE, file |-> None]
<1>1. TypeOK /\ Requests /\ Files /\ SizeKept /\ Alone
  BY DEF Inv
<1>2. new \in Slot /\ new # None /\ new.filled = FALSE /\ new.file = None
  <2>1. new \in Slot
    BY DEF Slot
  <2>2. new # None
    <3> HIDE DEF new
    <3> QED  BY <2>1, NoneAssumption
  <2> QED  BY <2>1, <2>2
<1>3. /\ slots[s] = None /\ slots' = [slots EXCEPT ![s] = new]
      /\ UNCHANGED <<up, disk, overlapped>>
  BY DEF SlotRequest
<1> HIDE DEF new
<1>4. slots'[s] = new /\ \A r \in Slots \ {s} : slots'[r] = slots[r]
  BY <1>1, <1>3 DEF TypeOK
<1>5. \A u \in Uploads : up[u].slot # s
  BY <1>1, <1>3, NoneAssumption DEF Requests, RequestOK
<1>6. TypeOK'
  BY <1>1, <1>2, <1>3 DEF TypeOK
<1>7. Requests'
  <2> SUFFICES ASSUME NEW u \in Uploads
               PROVE  RequestOK(u)'
    BY DEF Requests
  <2>1. RequestOK(u) /\ up[u].slot \in Slots \cup {None}
    BY <1>1, UploadType DEF Requests
  <2>2. up[u].slot # None => up[u].slot \in Slots \ {s}
    BY <1>5, <2>1
  <2> QED  BY <1>3, <1>4, <2>1, <2>2 DEF RequestOK, Busy
<1>8. Files'
  BY <1>1, <1>2, <1>3, <1>4 DEF Files
<1>9. SizeKept'
  <2> SUFFICES ASSUME NEW u \in Uploads, up[u].slot # None, slots'[up[u].slot].size # 0
               PROVE  disk[u] = <<>> \/ Len(disk[u]) <= slots'[up[u].slot].size
    BY <1>3 DEF SizeKept
  <2>1. slots'[up[u].slot] = slots[up[u].slot]
    BY <1>1, <1>4, <1>5, UploadType
  <2> QED  BY <1>1, <2>1 DEF SizeKept
<1>10. Alone'
  <2> SUFFICES ASSUME NEW r \in Slots \ overlapped, slots'[r] # None
               PROVE  AloneOK(r)'
    BY <1>3 DEF Alone
  <2>1. CASE r = s
    <3>1. Active(r)' = {} /\ slots'[r].filled = FALSE
      BY <1>2, <1>3, <1>4, <1>5, <2>1 DEF Active
    <3> QED  BY <3>1 DEF AloneOK
  <2>2. CASE r # s
    BY <1>1, <1>3, <1>4, <2>2 DEF Alone, AloneOK, Active
  <2> QED  BY <2>1, <2>2
<1> QED  BY <1>6, <1>7, <1>8, <1>9, <1>10 DEF Inv

(***************************************************************************)
(* A step of one request: what it must leave alone, and then what follows. *)
(***************************************************************************)
Handles(u) ==
    /\ up[u].slot \in Slots
    /\ up' \in [Uploads -> Upload] /\ disk' \in [Uploads -> Seq(Uploads \cup {None})]
    /\ slots' \in [Slots -> Slot \cup {None}]
    /\ overlapped' = overlapped
    /\ \A v \in Uploads \ {u} : up'[v] = up[v]
    /\ up'[u].slot = up[u].slot
    /\ \A r \in Slots \ {up[u].slot} : slots'[r] = slots[r]
    /\ slots'[up[u].slot] # None
    /\ slots'[up[u].slot].size = slots[up[u].slot].size
    /\ \A f \in Uploads : disk'[f] = disk[f] \/ up[f].slot = up[u].slot

LEMMA OthersKept ==
    ASSUME Inv, NEW u \in Uploads, Handles(u)
    PROVE  /\ TypeOK'
           /\ \A v \in Uploads \ {u} : RequestOK(v)'
           /\ \A r \in Slots \ overlapped :
                 r # up[u].slot /\ slots'[r] # None => AloneOK(r)'
           /\ \A v \in Uploads : up'[v].slot = up[v].slot
<1>1. TypeOK /\ Requests /\ Files /\ Alone
  BY DEF Inv
<1> DEFINE s == up[u].slot
<1>2. TypeOK'
  BY <1>1 DEF TypeOK, Handles
<1>3. \A v \in Uploads : up'[v].slot = up[v].slot
  BY DEF Handles
<1>4. ASSUME NEW v \in Uploads \ {u}
      PROVE  RequestOK(v)'
  <2>1. RequestOK(v) /\ up'[v] = up[v] /\ up[v].slot \in Slots \cup {None}
    BY <1>1, UploadType DEF Requests, Handles
  <2>2. up[v].phase = "new" => disk'[v] = disk[v]
    BY <2>1, NoneAssumption DEF RequestOK, Handles
  <2>3. up[v].slot # None => /\ slots[up[v].slot] # None => slots'[up[v].slot] # None
                             /\ slots'[up[v].slot].size = slots[up[v].slot].size
    BY <2>1 DEF Handles
  <2>4. up[v].slot # None /\ slots'[up[v].slot].size # 0
        => up[v].got = 0 \/ up[v].got <= slots'[up[v].slot].size
    BY <2>1, <2>3, NoneAssumption DEF RequestOK
  <2>5. up[v].phase # "new" => up[v].slot \in Slots /\ slots'[up[v].slot] # None
    BY <2>1, <2>3, NoneAssumption DEF RequestOK
  <2> QED  BY <2>1, <2>2, <2>4, <2>5 DEF RequestOK, Busy
<1>5. ASSUME NEW r \in Slots \ overlapped, r # s, slots'[r] # None
      PROVE  AloneOK(r)'
  <2>1. slots'[r] = slots[r] /\ AloneOK(r)
    BY <1>1, <1>5 DEF Handles, Alone
  <2>2. Active(r)' = Active(r) /\ \A v \in Active(r) : v # u /\ up'[v] = up[v]
    <3>1. \A v \in Active(r) : v # u /\ up'[v] = up[v]
      BY <1>5 DEF Handles, Active
    <3>2. up[u].slot # r /\ up'[u].slot # r
      BY <1>5 DEF Handles
    <3>3. \A v \in Uploads : v # u => up'[v] = up[v]
      BY DEF Handles
    <3> QED  BY <3>1, <3>2, <3>3 DEF Active
  <2>3. slots[r].file # None => disk'[slots[r].file] = disk[slots[r].file]
    <3>1. slots[r].file \in Uploads \cup {None}
      BY <1>1, <1>5, <2>1, SlotType
    <3> QED  BY <1>1, <1>5, <2>1, <3>1 DEF Files, Handles
  <2>4. \A v \in Active(r) : up[v].phase \in Busy => disk'[up[v].file] = disk[up[v].file]
    <3> SUFFICES ASSUME NEW v \in Active(r), up[v].phase \in Busy
                 PROVE  disk'[up[v].file] = disk[up[v].file]
      OBVIOUS
    <3>1. v \in Uploads /\ up[v].slot = r
      BY DEF Active
    <3>2. up[v].file \in Uploads /\ up[up[v].file].slot = r
      BY <1>1, <3>1, UploadType DEF Files, Requests, RequestOK
    <3> QED  BY <1>5, <3>2 DEF Handles
  <2> QED  BY <2>1, <2>2, <2>3, <2>4 DEF AloneOK
<1> QED  BY <1>2, <1>3, <1>4, <1>5

LEMMA HandlerStep ==
    ASSUME Inv, NEW u \in Uploads, NEW s \in Slots, up[u].slot = s, Handles(u),
           RequestOK(u)',
           up'[u].file # None => up[up'[u].file].slot = s,
           slots'[s].file # None => up[slots'[s].file].slot = s,
           \A f \in Uploads :
              \/ disk'[f] = disk[f]
              \/ disk'[f] = <<>>
              \/ slots[s].size # 0 => Len(disk'[f]) <= slots[s].size,
           s \notin overlapped => AloneOK(s)'
    PROVE  Inv'
<1>1. TypeOK /\ Requests /\ Files /\ SizeKept /\ Alone
  BY DEF Inv
<1>2. /\ TypeOK'
      /\ \A v \in Uploads \ {u} : RequestOK(v)'
      /\ \A r \in Slots \ overlapped : r # up[u].slot /\ slots'[r] # None => AloneOK(r)'
      /\ \A v \in Uploads : up'[v].slot = up[v].slot
  BY OthersKept
<1>3. Requests'
  BY <1>2 DEF Requests
<1>4. Alone'
  BY <1>2 DEF Alone, Handles
<1>5. Files'
  <2>1. \A v \in Uploads : up'[v].file \in Uploads \cup {None}
    BY <1>2 DEF TypeOK, Upload
  <2>2. ASSUME NEW v \in Uploads, up'[v].file # None
        PROVE  up'[up'[v].file].slot = up'[v].slot
    <3>1. up'[v].file \in Uploads
      BY <2>1, <2>2
    <3>2. up[up'[v].file].slot = up[v].slot
      <4>1. CASE v = u
        BY <2>2, <4>1
      <4>2. CASE v # u
        BY <1>1, <2>2, <4>2 DEF Files, Handles
      <4> QED  BY <4>1, <4>2
    <3> QED  BY <1>2, <3>1, <3>2
  <2>3. ASSUME NEW r \in Slots, slots'[r] # None, slots'[r].file # None
        PROVE  up'[slots'[r].file].slot = r
    <3>1. slots'[r].file \in Uploads
      BY <1>2, <2>3 DEF TypeOK, Slot
    <3>2. up[slots'[r].file].slot = r
      BY <1>1, <2>3 DEF Files, Handles
    <3> QED  BY <1>2, <3>1, <3>2
  <2> QED  BY <2>2, <2>3 DEF Files
<1>6. SizeKept'
  <2> SUFFICES ASSUME NEW f \in Uploads, up'[f].slot # None, slots'[up'[f].slot].size # 0
               PROVE  disk'[f] = <<>> \/ Len(disk'[f]) <= slots'[up'[f].slot].size
    BY DEF SizeKept
  <2>1. up'[f].slot = up[f].slot /\ up[f].slot \in Slots
    BY <1>1, <1>2, UploadType
  <2>2. slots'[up[f].slot].size = slots[up[f].slot].size
    BY <2>1 DEF Handles
  <2>3. CASE disk'[f] = disk[f]
    BY <1>1, <2>1, <2>2, <2>3 DEF SizeKept
  <2>4. CASE disk'[f] # disk[f]
    BY <2>1, <2>2, <2>4 DEF Handles
  <2> QED  BY <2>3, <2>4
<1> QED  BY <1>2, <1>3, <1>4, <1>5, <1>6 DEF Inv

(***************************************************************************)
(* A request is accepted.                                                  *)
(***************************************************************************)
LEMMA AcceptStep ==
    ASSUME Inv, NEW u \in Uploads, NEW s \in Slots, NEW length \in Nat \cup {None},
           Accept(u, s, length)
    PROVE  Inv'
<1> DEFINE t == [up[u] EXCEPT !.phase = "opening", !.slot = s, !.length = length]
<1>1. TypeOK /\ Requests /\ Files /\ SizeKept /\ Alone /\ up[u] \in Upload
  BY UploadType DEF Inv
<1>2. /\ up[u].phase = "new" /\ slots[s] # None /\ ~ slots[s].filled
      /\ up' = [up EXCEPT ![u] = t]
      /\ overlapped' = IF Active(s) = {} THEN overlapped ELSE overlapped \cup {s}
      /\ UNCHANGED <<slots, disk>>
  BY <1>1 DEF Accept, TypeOK
<1>3. /\ t \in Upload /\ t.phase = "opening" /\ t.slot = s
      /\ t.got = up[u].got /\ t.put = up[u].put /\ t.file = up[u].file
  BY <1>1 DEF Upload
<1> HIDE DEF t
<1>4. up'[u] = t /\ \A v \in Uploads \ {u} : up'[v] = up[v]
  BY <1>1, <1>2 DEF TypeOK
<1>5. /\ up[u].slot = None /\ disk[u] = <<>>
      /\ up[u].got = 0 /\ up[u].put = 0 /\ up[u].file = None
  BY <1>1, <1>2 DEF Requests, RequestOK
<1>6. TypeOK'
  BY <1>1, <1>2, <1>3 DEF TypeOK
<1>7. Requests'
  <2>1. RequestOK(u)'
    BY <1>2, <1>3, <1>4, <1>5 DEF RequestOK, Busy
  <2>2. \A v \in Uploads \ {u} : RequestOK(v)'
    BY <1>1, <1>2, <1>4 DEF Requests, RequestOK
  <2> QED  BY <2>1, <2>2 DEF Requests
<1>8. Files'
  <2>1. ASSUME NEW v \in Uploads, up'[v].file # None
        PROVE  up'[up'[v].file].slot = up'[v].slot
    <3>1. v # u /\ up'[v] = up[v] /\ up[v].phase # "new"
      BY <1>1, <1>3, <1>4, <1>5, <2>1 DEF Requests, RequestOK
    <3>2. up[v].file \in Uploads /\ up[up[v].file].slot = up[v].slot /\ up[v].slot \in Slots
      BY <1>1, <2>1, <3>1, UploadType DEF Files, Requests, RequestOK
    <3>3. up[v].file # u
      BY <1>5, <3>2, NoneAssumption
    <3> QED  BY <1>4, <3>1, <3>2, <3>3
  <2>2. ASSUME NEW r \in Slots, slots[r] # None, slots[r].file # None
        PROVE  up'[slots[r].file].slot = r
    <3>1. slots[r].file \in Uploads /\ up[slots[r].file].slot = r
      BY <1>1, <2>2, SlotType DEF Files
    <3>2. slots[r].file # u
      BY <1>5, <3>1, NoneAssumption
    <3> QED  BY <1>4, <3>1, <3>2
  <2> QED  BY <1>2, <2>1, <2>2 DEF Files
<1>9. SizeKept'
  BY <1>1, <1>2, <1>4, <1>5 DEF SizeKept
<1>10. Alone'
  <2> SUFFICES ASSUME NEW r \in Slots \ overlapped', slots[r] # None
               PROVE  AloneOK(r)'
    BY <1>2 DEF Alone
  <2>1. r \notin overlapped /\ AloneOK(r)
    BY <1>1, <1>2 DEF Alone
  <2>2. CASE r # s
    <3>1. Active(r)' = Active(r) /\ \A v \in Active(r) : v # u
      BY <1>3, <1>4, <1>5, <2>2, NoneAssumption DEF Active
    <3>2. \A v \in Active(r) : up'[v] = up[v]
      BY <1>4, <3>1 DEF Active
    <3> QED  BY <1>2, <2>1, <3>1, <3>2 DEF AloneOK
  <2>3. CASE r = s
    <3>1. Active(s) = {}
      BY <1>2, <2>3
    <3>2. Active(s)' = {u}
      BY <1>3, <1>4, <3>1 DEF Active
    <3> QED  BY <1>2, <1>3, <1>4, <2>3, <3>2 DEF AloneOK, Busy
  <2> QED  BY <2>2, <2>3
<1> QED  BY <1>6, <1>7, <1>8, <1>9, <1>10 DEF Inv

(***************************************************************************)
(* What is known of a request that is being handled.                       *)
(***************************************************************************)
Working == {"opening", "receiving", "closing"}

LEMMA Acting ==
    ASSUME Inv, NEW u \in Uploads, up[u].phase \in Working
    PROVE  /\ up[u] \in Upload /\ up[u].slot \in Slots
           /\ slots[up[u].slot] # None /\ slots[up[u].slot] \in Slot
           /\ up[u].got \in Nat /\ up[u].put \in Nat /\ slots[up[u].slot].size \in Int
           /\ RequestOK(u) /\ u \in Active(up[u].slot)
           /\ up[u].slot \notin overlapped =>
                 /\ Active(up[u].slot) = {u} /\ ~ slots[up[u].slot].filled
                 /\ up[u].phase \in Busy =>
                       /\ slots[up[u].slot].file = up[u].file
                       /\ disk[up[u].file] = Body(u, up[u].put)
<1>1. TypeOK /\ Requests /\ Alone /\ RequestOK(u)
  BY DEF Inv, Requests
<1>2. up[u].slot \in Slots /\ slots[up[u].slot] # None
  BY <1>1 DEF RequestOK, Working
<1>3. u \in Active(up[u].slot)
  BY DEF Active, Working
<1>4. ASSUME up[u].slot \notin overlapped
      PROVE  /\ Active(up[u].slot) = {u} /\ ~ slots[up[u].slot].filled
             /\ up[u].phase \in Busy =>
                   /\ slots[up[u].slot].file = up[u].file
                   /\ disk[up[u].file] = Body(u, up[u].put)
  <2>1. AloneOK(up[u].slot)
    BY <1>1, <1>2, <1>4 DEF Alone
  <2>2. slots[up[u].slot].filled \in BOOLEAN
    BY <1>1, <1>2, SlotType
  <2> QED  BY <1>3, <2>1, <2>2 DEF AloneOK
<1> QED  BY <1>1, <1>2, <1>3, <1>4, UploadType, SlotType

(* A request that goes on with its slot to itself. *)
LEMMA AloneGoesOn ==
    ASSUME Inv, NEW u \in Uploads, Handles(u), up[u].phase \in Working,
           NEW s \in Slots, up[u].slot = s, s \notin overlapped, up'[u].phase \in Busy,
           slots'[s].filled = slots[s].filled, slots'[s].file = up'[u].file,
           disk'[up'[u].file] = Body(u, up'[u].put)
    PROVE  AloneOK(s)'
<1>1. Active(s) = {u} /\ ~ slots[s].filled
  BY Acting
<1>2. up'[u].slot = s /\ \A v \in Uploads : v # u => up'[v] = up[v]
  BY DEF Handles
<1>3. \A v \in Uploads : v # u => ~ (up'[v].slot = s /\ up'[v].phase # "done")
  BY <1>1, <1>2 DEF Active
<1>4. Active(s)' = {u}
  BY <1>2, <1>3 DEF Active, Busy
<1> QED  BY <1>1, <1>4 DEF AloneOK

(* A request that is done with its slot to itself. *)
LEMMA AloneIsDone ==
    ASSUME Inv, NEW u \in Uploads, Handles(u), up[u].phase \in Working,
           NEW s \in Slots, up[u].slot = s, s \notin overlapped, up'[u].phase = "done",
           slots'[s].filled =>
              /\ slots'[s].file # None
              /\ disk'[slots'[s].file] = Body(u, slots'[s].size)
    PROVE  AloneOK(s)'
<1>1. Active(s) = {u}
  BY Acting
<1>2. up'[u].slot = s /\ \A v \in Uploads : v # u => up'[v] = up[v]
  BY DEF Handles
<1>3. \A v \in Uploads : v # u => ~ (up'[v].slot = s /\ up'[v].phase # "done")
  BY <1>1, <1>2 DEF Active
<1>4. Active(s)' = {}
  BY <1>2, <1>3 DEF Active
<1> QED  BY <1>4 DEF AloneOK

(***************************************************************************)
(* The steps of handle_upload.                                             *)
(***************************************************************************)
LEMMA BodyNothing ==
    ASSUME NEW u \in Uploads
    PROVE  Body(u, 0) = <<>>
<1>1. DOMAIN Body(u, 0) = 1 .. 0 /\ Body(u, 0) \in [1 .. 0 -> Uploads]
  BY DEF Body
<1> HIDE DEF Body
<1>2. Body(u, 0) \in Seq(Uploads) /\ Len(Body(u, 0)) = 0
  BY <1>1, SeqDef, LenProperties
<1> QED  BY <1>2, EmptySeq

LEMMA OpenStep ==
    ASSUME Inv, NEW u \in Uploads, NEW s \in Slots, up[u].slot = s, Open(u)
    PROVE  Handles(u) /\ Inv'
<1> DEFINE file == IF slots[s].file = None THEN u ELSE slots[s].file
           t == [up[u] EXCEPT !.phase = "receiving", !.file = file]
           r == [slots[s] EXCEPT !.file = file]
<1>1. TypeOK /\ Files /\ up[u].phase = "opening"
  BY DEF Inv, Open
<1>2. /\ up[u] \in Upload /\ slots[s] # None /\ slots[s] \in Slot
      /\ up[u].got \in Nat /\ up[u].put \in Nat /\ RequestOK(u)
      /\ slots[s].file \in Uploads \cup {None}
  BY <1>1, Acting, SlotType DEF Working
<1>3. /\ slots' = [slots EXCEPT ![s] = r] /\ up' = [up EXCEPT ![u] = t]
      /\ disk' = [disk EXCEPT ![file] = <<>>] /\ overlapped' = overlapped
  BY <1>1, <1>2 DEF Open, TypeOK
<1>4. file \in Uploads /\ up[file].slot = s
  BY <1>1, <1>2 DEF Files
<1>5. file = slots[s].file \/ file = u
  OBVIOUS
<1> HIDE DEF file
<1>6. /\ t \in Upload /\ t.phase = "receiving" /\ t.file = file /\ t.slot = s
      /\ t.got = up[u].got /\ t.put = up[u].put
  BY <1>2, <1>4, <1>5 DEF Upload
<1>7. r \in Slot /\ r.file = file /\ r.size = slots[s].size /\ r.filled = slots[s].filled
  BY <1>2, <1>4 DEF Slot
<1> HIDE DEF t, r
<1>8. r # None
  BY <1>7, NoneAssumption
<1>9. up'[u] = t /\ slots'[s] = r /\ disk'[file] = <<>>
  BY <1>1, <1>2, <1>3, <1>4 DEF TypeOK
<1>10. Handles(u)
  <2>1. /\ up' \in [Uploads -> Upload] /\ slots' \in [Slots -> Slot \cup {None}]
        /\ disk' \in [Uploads -> Seq(Uploads \cup {None})]
    <3>1. <<>> \in Seq(Uploads \cup {None})
      OBVIOUS
    <3>2. disk' \in [Uploads -> Seq(Uploads \cup {None})]
      BY <1>1, <1>3, <3>1 DEF TypeOK
    <3> QED  BY <1>1, <1>3, <1>6, <1>7, <3>2 DEF TypeOK
  <2>2. /\ \A v \in Uploads \ {u} : up'[v] = up[v]
        /\ \A q \in Slots \ {s} : slots'[q] = slots[q]
        /\ \A f \in Uploads \ {file} : disk'[f] = disk[f]
    BY <1>1, <1>3 DEF TypeOK
  <2> QED  BY <1>2, <1>3, <1>4, <1>6, <1>7, <1>8, <1>9, <2>1, <2>2 DEF Handles
<1>11. RequestOK(u)'
  <2>1. up[u].got = 0 /\ up[u].put = 0
    BY <1>1, <1>2 DEF RequestOK
  <2> QED
    BY <1>2, <1>4, <1>6, <1>7, <1>8, <1>9, <2>1, NoneAssumption DEF RequestOK, Busy
<1>12. \A f \in Uploads : disk'[f] = disk[f] \/ disk'[f] = <<>>
  BY <1>1, <1>3, <1>4 DEF TypeOK
<1>13. s \notin overlapped => AloneOK(s)'
  <2>1. up[u].put = 0
    BY <1>1, <1>2 DEF RequestOK
  <2> QED
    BY <1>1, <1>6, <1>7, <1>9, <1>10, <2>1, AloneGoesOn, BodyNothing
       DEF Working, Busy
<1> QED
  BY <1>4, <1>6, <1>7, <1>9, <1>10, <1>11, <1>12, <1>13, HandlerStep

(* A step that changes nothing but the record of the request. *)
LEMMA RecordStep ==
    ASSUME Inv, NEW u \in Uploads, NEW s \in Slots, up[u].slot = s,
           up[u].phase \in Busy, NEW t \in Upload, up' = [up EXCEPT ![u] = t],
           UNCHANGED <<slots, disk, overlapped>>,
           t.phase \in Busy, t.slot = s, t.file = up[u].file, t.put = up[u].put,
           t.put <= t.got,
           slots[s].size # 0 => t.got = 0 \/ t.got <= slots[s].size
    PROVE  Handles(u) /\ Inv'
<1>1. TypeOK /\ Files
  BY DEF Inv
<1>2. /\ slots[s] # None /\ RequestOK(u)
      /\ s \notin overlapped => slots[s].filled = FALSE
            /\ slots[s].file = up[u].file /\ disk[up[u].file] = Body(u, up[u].put)
  BY Acting, SlotType DEF Working, Busy, Inv
<1>3. up'[u] = t /\ \A v \in Uploads \ {u} : up'[v] = up[v]
  BY <1>1 DEF TypeOK
<1>4. Handles(u)
  <2>1. up' \in [Uploads -> Upload]
    BY <1>1 DEF TypeOK
  <2> QED  BY <1>1, <1>2, <1>3, <2>1 DEF Handles, TypeOK
<1>5. RequestOK(u)'
  BY <1>2, <1>3, NoneAssumption DEF RequestOK, Busy
<1>6. s \notin overlapped => AloneOK(s)'
  BY <1>2, <1>3, <1>4, AloneGoesOn DEF Working, Busy
<1>7. up[u].file # None => up[up[u].file].slot = s
  BY <1>1 DEF Files
<1>8. slots[s].file # None => up[slots[s].file].slot = s
  BY <1>1, <1>2 DEF Files
<1> QED  BY <1>3, <1>4, <1>5, <1>6, <1>7, <1>8, HandlerStep

LEMMA ReceiveStep ==
    ASSUME Inv, NEW u \in Uploads, NEW s \in Slots, up[u].slot = s,
           NEW n \in Chunks, Receive(u, n)
    PROVE  Handles(u) /\ Inv'
<1>1. TypeOK /\ up[u].phase = "receiving" /\ UNCHANGED <<slots, disk, overlapped>>
  BY DEF Inv, Receive, MayReceive
<1>2. /\ up[u] \in Upload /\ RequestOK(u) /\ slots[s].size \in Int
      /\ up[u].got \in Nat /\ up[u].put \in Nat /\ n \in Nat
  BY <1>1, Acting, ChunksAssumption DEF Working
<1>3. CASE slots[s].size # 0 /\ up[u].got + n > slots[s].size
  <2> DEFINE t == [up[u] EXCEPT !.phase = "closing", !.body = "invalid"]
  <2>1. up' = [up EXCEPT ![u] = t]
    BY <1>1, <1>2, <1>3 DEF Receive, TypeOK
  <2>2. /\ t \in Upload /\ t.phase = "closing" /\ t.slot = s /\ t.file = up[u].file
        /\ t.put = up[u].put /\ t.got = up[u].got
    BY <1>2 DEF Upload
  <2> HIDE DEF t
  <2>3. t.put <= t.got /\ (slots[s].size # 0 => t.got = 0 \/ t.got <= slots[s].size)
    BY <1>2, <2>2, NoneAssumption DEF RequestOK
  <2> QED  BY <1>1, <2>1, <2>2, <2>3, RecordStep DEF Busy
<1>4. CASE ~ (slots[s].size # 0 /\ up[u].got + n > slots[s].size)
  <2> DEFINE t == [up[u] EXCEPT !.got = @ + n]
  <2>1. up' = [up EXCEPT ![u] = t]
    BY <1>1, <1>2, <1>4 DEF Receive, TypeOK
  <2>2. /\ t \in Upload /\ t.phase = "receiving" /\ t.slot = s /\ t.file = up[u].file
        /\ t.put = up[u].put /\ t.got = up[u].got + n
    BY <1>1, <1>2 DEF Upload
  <2> HIDE DEF t
  <2>3. t.put <= t.got /\ (slots[s].size # 0 => t.got = 0 \/ t.got <= slots[s].size)
    BY <1>2, <1>4, <2>2 DEF RequestOK
  <2> QED  BY <1>1, <2>1, <2>2, <2>3, RecordStep DEF Busy
<1> QED  BY <1>3, <1>4

LEMMA BodyEndsStep ==
    ASSUME Inv, NEW u \in Uploads, NEW s \in Slots, up[u].slot = s, BodyEnds(u)
    PROVE  Handles(u) /\ Inv'
<1>1. TypeOK /\ up[u].phase = "receiving" /\ UNCHANGED <<slots, disk, overlapped>>
  BY DEF Inv, BodyEnds
<1>2. /\ up[u] \in Upload /\ RequestOK(u) /\ slots[s].size \in Int
      /\ up[u].got \in Nat /\ up[u].put \in Nat
  BY <1>1, Acting DEF Working
<1>3. PICK body \in {up[u].body, "aborted"} :
         up' = [up EXCEPT ![u] = [up[u] EXCEPT !.phase = "closing", !.body = body]]
  <2>1. CASE up' = [up EXCEPT ![u].phase = "closing"]
    <3>1. [up[u] EXCEPT !.phase = "closing"]
             = [up[u] EXCEPT !.phase = "closing", !.body = up[u].body]
      BY <1>2 DEF Upload
    <3> QED  BY <2>1, <3>1
  <2>2. CASE up' = [up EXCEPT ![u].phase = "closing", ![u].body = "aborted"]
    BY <1>1, <1>2, <2>2 DEF TypeOK
  <2> QED  BY <2>1, <2>2 DEF BodyEnds
<1> DEFINE t == [up[u] EXCEPT !.phase = "closing", !.body = body]
<1>4. /\ t \in Upload /\ t.phase = "closing" /\ t.slot = s /\ t.file = up[u].file
      /\ t.put = up[u].put /\ t.got = up[u].got
  BY <1>2 DEF Upload
<1>5. up' = [up EXCEPT ![u] = t]
  BY <1>3
<1> HIDE DEF t
<1>6. t.put <= t.got /\ (slots[s].size # 0 => t.got = 0 \/ t.got <= slots[s].size)
  BY <1>2, <1>4, NoneAssumption DEF RequestOK
<1> QED  BY <1>1, <1>4, <1>5, <1>6, RecordStep DEF Busy

LEMMA WriteStep ==
    ASSUME Inv, NEW u \in Uploads, NEW s \in Slots, up[u].slot = s, Write(u)
    PROVE  Handles(u) /\ Inv'
<1> DEFINE t == [up[u] EXCEPT !.put = @ + 1]
           file == up[u].file
           k == up[u].put + 1
<1>1. TypeOK /\ Files /\ SizeKept /\ up[u].phase \in Busy
  BY DEF Inv, Write, Busy
<1>2. /\ up[u] \in Upload /\ slots[s] # None /\ RequestOK(u) /\ slots[s].size \in Int
      /\ up[u].got \in Nat /\ up[u].put \in Nat
      /\ s \notin overlapped => slots[s].filled = FALSE
            /\ slots[s].file = file /\ disk[file] = Body(u, up[u].put)
  BY <1>1, Acting, SlotType DEF Working, Busy
<1>3. file \in Uploads /\ up[file].slot = s /\ disk[file] \in Seq(Uploads \cup {None})
  BY <1>1, <1>2, UploadType DEF Files, RequestOK
<1>4. k \in Nat \ {0} /\ k <= up[u].got
  BY <1>2 DEF Write
<1>5. /\ up' = [up EXCEPT ![u] = t] /\ disk' = [disk EXCEPT ![file] = Put(disk[file], k, u)]
      /\ UNCHANGED <<slots, overlapped>>
  BY <1>1, <1>2, <1>3 DEF Write, TypeOK
<1>6. /\ t \in Upload /\ t.phase = up[u].phase /\ t.slot = s /\ t.file = file
      /\ t.put = k /\ t.got = up[u].got
  BY <1>2 DEF Upload
<1> DEFINE written == Put(disk[file], k, u)
<1>7. /\ written \in Seq(Uploads \cup {None})
      /\ Len(written) = IF k > Len(disk[file]) THEN k ELSE Len(disk[file])
  BY <1>3, <1>4, PutLength
<1>8. disk[file] = Body(u, up[u].put) => written = Body(u, k)
  BY <1>2, PutNext
<1>9. slots[s].size # 0 => Len(written) <= slots[s].size
  <2> SUFFICES ASSUME slots[s].size # 0
               PROVE  Len(written) <= slots[s].size
    OBVIOUS
  <2>1. up[u].got <= slots[s].size
    BY <1>2, <1>4, NoneAssumption DEF RequestOK
  <2>2. disk[file] = <<>> \/ Len(disk[file]) <= slots[s].size
    BY <1>1, <1>3, NoneAssumption DEF SizeKept
  <2>3. Len(disk[file]) \in Nat /\ (disk[file] = <<>> => Len(disk[file]) = 0)
    BY <1>3, LenProperties, EmptySeq
  <2> HIDE DEF written, k, file
  <2> QED  BY <1>2, <1>4, <1>7, <2>1, <2>2, <2>3
<1>10. up[u].put + 1 = k
  OBVIOUS
<1> HIDE DEF written, t, k
<1>11. /\ up'[u] = t /\ \A v \in Uploads \ {u} : up'[v] = up[v]
       /\ up' \in [Uploads -> Upload]
  BY <1>1, <1>5, <1>6 DEF TypeOK
<1> USE DEF written
<1>12. disk'[file] = written /\ \A f \in Uploads \ {file} : disk'[f] = disk[f]
  BY <1>1, <1>3, <1>5 DEF TypeOK
<1>13. disk' \in [Uploads -> Seq(Uploads \cup {None})]
  BY <1>1, <1>3, <1>5, <1>7 DEF TypeOK
<1> HIDE DEF written
<1>14. Handles(u)
  BY <1>1, <1>2, <1>3, <1>5, <1>6, <1>11, <1>12, <1>13 DEF Handles, TypeOK
<1>15. RequestOK(u)'
  BY <1>2, <1>3, <1>4, <1>5, <1>6, <1>11, NoneAssumption DEF RequestOK, Busy
<1>16. s \notin overlapped => AloneOK(s)'
  <2> HIDE DEF file
  <2>1. s \notin overlapped => /\ up'[u].phase \in Busy /\ slots'[s].filled = slots[s].filled
                               /\ slots'[s].file = up'[u].file
                               /\ disk'[up'[u].file] = Body(u, up'[u].put)
    BY <1>1, <1>2, <1>5, <1>6, <1>8, <1>11, <1>12
  <2>2. up[u].phase \in Working
    BY <1>1 DEF Working, Busy
  <2> QED  BY <1>14, <2>1, <2>2, AloneGoesOn
<1>17. /\ up'[u].file # None => up[up'[u].file].slot = s
       /\ slots'[s].file # None => up[slots'[s].file].slot = s
  BY <1>1, <1>2, <1>3, <1>5, <1>6, <1>11 DEF Files
<1>18. \A f \in Uploads : disk'[f] = disk[f]
          \/ (slots[s].size # 0 => Len(disk'[f]) <= slots[s].size)
  BY <1>9, <1>12
<1> QED  BY <1>14, <1>15, <1>16, <1>17, <1>18, HandlerStep

LEMMA FinishStep ==
    ASSUME Inv, NEW u \in Uploads, NEW s \in Slots, up[u].slot = s, Finish(u)
    PROVE  Handles(u) /\ Inv'
<1> DEFINE t == [up[u] EXCEPT !.phase = "done"]
<1>1. TypeOK /\ Files /\ up[u].phase = "closing" /\ up[u].put = up[u].got
  BY DEF Inv, Finish, Closed
<1>2. /\ up[u] \in Upload /\ slots[s] # None /\ slots[s] \in Slot /\ RequestOK(u)
      /\ slots[s].size \in Int /\ up[u].got \in Nat /\ up[u].put \in Nat
      /\ s \notin overlapped => slots[s].filled = FALSE
            /\ slots[s].file = up[u].file /\ disk[up[u].file] = Body(u, up[u].put)
  BY <1>1, Acting, SlotType DEF Working, Busy
<1>3. up' = [up EXCEPT ![u] = t] /\ UNCHANGED <<disk, overlapped>>
  BY <1>1, <1>2 DEF Finish, TypeOK
<1>4. /\ t \in Upload /\ t.phase = "done" /\ t.slot = s /\ t.file = up[u].file
      /\ t.put = up[u].put /\ t.got = up[u].got
  BY <1>2 DEF Upload
<1> HIDE DEF t
<1>5. /\ up'[u] = t /\ \A v \in Uploads \ {u} : up'[v] = up[v]
      /\ up' \in [Uploads -> Upload]
  BY <1>1, <1>3, <1>4 DEF TypeOK
<1>6. PICK r \in Slot :
         /\ slots' = [slots EXCEPT ![s] = r]
         /\ r.size = slots[s].size /\ r.file \in {slots[s].file, None}
         /\ r.filled => \/ slots[s].filled
                        \/ r.file = slots[s].file /\ up[u].got = slots[s].size
  <2>1. CASE up[u].body = "aborted"
    <3>1. slots' = slots
      BY <2>1 DEF Finish
    <3>2. slots' = [slots EXCEPT ![s] = slots[s]]
      BY <1>1, <3>1 DEF TypeOK
    <3> QED  BY <1>2, <3>2
  <2>2. CASE up[u].body = "whole" /\ up[u].got = slots[s].size
    <3> DEFINE r == [slots[s] EXCEPT !.filled = TRUE]
    <3>1. slots' = [slots EXCEPT ![s] = r]
      BY <1>1, <1>2, <2>2 DEF Finish, TypeOK
    <3>2. r \in Slot /\ r.size = slots[s].size /\ r.file = slots[s].file
      BY <1>2 DEF Slot
    <3> HIDE DEF r
    <3> QED  BY <2>2, <3>1, <3>2
  <2>3. CASE /\ up[u].body # "aborted"
             /\ ~ (up[u].body = "whole" /\ up[u].got = slots[s].size)
    <3> DEFINE r == [slots[s] EXCEPT !.file = None]
    <3>1. slots' = [slots EXCEPT ![s] = r]
      BY <1>1, <1>2, <2>3 DEF Finish, TypeOK
    <3>2. r \in Slot /\ r.size = slots[s].size /\ r.file = None
          /\ r.filled = slots[s].filled
      BY <1>2 DEF Slot
    <3> HIDE DEF r
    <3> QED  BY <3>1, <3>2
  <2> QED  BY <2>1, <2>2, <2>3
<1>7. /\ slots'[s] = r /\ r # None /\ \A q \in Slots \ {s} : slots'[q] = slots[q]
      /\ slots' \in [Slots -> Slot \cup {None}]
  BY <1>1, <1>6, NoneAssumption DEF TypeOK
<1>8. Handles(u)
  BY <1>1, <1>3, <1>4, <1>5, <1>6, <1>7 DEF Handles, TypeOK
<1>9. RequestOK(u)'
  BY <1>1, <1>2, <1>3, <1>4, <1>5, <1>6, <1>7, NoneAssumption DEF RequestOK, Busy
<1>10. s \notin overlapped => AloneOK(s)'
  <2> SUFFICES ASSUME s \notin overlapped
               PROVE  AloneOK(s)'
    OBVIOUS
  <2>1. up[u].file # None
    BY <1>1, <1>2 DEF RequestOK, Busy
  <2>2. slots'[s].filled => /\ slots'[s].file # None
                            /\ disk'[slots'[s].file] = Body(u, slots'[s].size)
    BY <1>1, <1>2, <1>3, <1>6, <1>7, <2>1
  <2> QED  BY <1>1, <1>4, <1>5, <1>8, <2>2, AloneIsDone DEF Working
<1>11. /\ up'[u].file # None => up[up'[u].file].slot = s
       /\ slots'[s].file # None => up[slots'[s].file].slot = s
  BY <1>1, <1>2, <1>4, <1>5, <1>6, <1>7 DEF Files
<1> QED  BY <1>3, <1>8, <1>9, <1>10, <1>11, HandlerStep

(***************************************************************************)
(* The invariant.                                                          *)
(***************************************************************************)
LEMMA HandlerSteps ==
    ASSUME Inv, NEW u \in Uploads, Handler(u)
    PROVE  up[u].phase \in Working /\ Handles(u) /\ Inv'
<1>1. up[u].phase \in Working
  BY DEF Handler, Open, Write, BodyEnds, Finish, Closed, Receive, MayReceive, Working
<1>2. PICK s \in Slots : up[u].slot = s
  BY <1>1, Acting
<1>3. CASE Open(u)
  BY <1>1, <1>2, <1>3, OpenStep
<1>4. CASE Write(u)
  BY <1>1, <1>2, <1>4, WriteStep
<1>5. CASE BodyEnds(u)
  BY <1>1, <1>2, <1>5, BodyEndsStep
<1>6. CASE Finish(u)
  BY <1>1, <1>2, <1>6, FinishStep
<1>7. CASE \E n \in Chunks : Receive(u, n)
  BY <1>1, <1>2, <1>7, ReceiveStep
<1> QED  BY <1>3, <1>4, <1>5, <1>6, <1>7 DEF Handler

LEMMA InitInv == Init => Inv
<1> SUFFICES ASSUME Init
             PROVE  Inv
  OBVIOUS
<1>1. NewUpload \in Upload
  BY DEF NewUpload, Upload
<1>2. \A u \in Uploads : up[u] = NewUpload /\ disk[u] = <<>>
  BY DEF Init
<1>3. \A s \in Slots : slots[s] = None
  BY DEF Init
<1>4. <<>> \in Seq(Uploads \cup {None})
  OBVIOUS
<1>5. TypeOK
  BY <1>1, <1>4 DEF Init, TypeOK
<1>6. Requests
  BY <1>2 DEF Requests, RequestOK, NewUpload, Busy
<1>7. Files /\ SizeKept /\ Alone
  BY <1>2, <1>3 DEF Files, SizeKept, Alone, NewUpload
<1> QED  BY <1>5, <1>6, <1>7 DEF Inv

LEMMA NextInv == Inv /\ [Next]_vars => Inv'
<1> SUFFICES ASSUME Inv, [Next]_vars
             PROVE  Inv'
  OBVIOUS
<1>1. ASSUME NEW s \in Slots, NEW size \in Sizes, SlotRequest(s, size)
      PROVE  Inv'
  BY <1>1, SlotRequestStep
<1>2. ASSUME NEW u \in Uploads, NEW s \in Slots, NEW length \in (0 .. MaxBody) \cup {None},
             Accept(u, s, length)
      PROVE  Inv'
  <2>1. length \in Nat \cup {None}
    BY BodyAssumption
  <2> QED  BY <1>2, <2>1, AcceptStep
<1>3. ASSUME NEW u \in Uploads, Handler(u)
      PROVE  Inv'
  BY <1>3, HandlerSteps
<1>4. CASE UNCHANGED vars
  BY <1>4 DEF vars, Inv, TypeOK, Requests, RequestOK, Files, SizeKept, Alone, AloneOK, Active
<1> QED  BY <1>1, <1>2, <1>3, <1>4 DEF Next

(* Requests and slots only refer to files of their slot, a request has never
   more than the declared size, and one that has its slot to itself finds in
   the file what it wrote (Inv). *)
THEOREM UploadsCorrect == Spec => []Inv
<1>1. Inv /\ [Next]_vars => Inv'
  BY NextInv
<1> QED  BY <1>1, InitInv, PTL DEF Spec

(* The state of slot_request and handle_upload is well formed: sizes are what
   int parses, a file holds pieces of bodies and holes. *)
THEOREM UploadTypeCorrect == Spec => []TypeOK
<1>1. Inv => TypeOK
  BY DEF Inv
<1> QED  BY <1>1, UploadsCorrect, PTL

(* No file gets longer than the size declared for its slot, however the
   requests that handle_upload accepted for it overlap. *)
THEOREM UploadSizeKept == Spec => []SizeKept
<1>1. Inv => SizeKept
  BY DEF Inv
<1> QED  BY <1>1, UploadsCorrect, PTL

(* A filled slot has the whole body of one request, unless two of them
   overlapped between the check of handle_upload and its end. *)
THEOREM FilledSlotIsWhole == Spec => []FilledIsWhole
<1>1. ASSUME Inv, NEW s \in Slots, slots[s] # None, slots[s].filled, s \notin overlapped
      PROVE  \E u \in Uploads : Served(s) = {[k \in 1 .. slots[s].size |-> u]}
  <2>1. AloneOK(s)
    BY <1>1 DEF Inv, Alone
  <2>2. PICK u \in Uploads : disk[slots[s].file] = Body(u, slots[s].size)
    BY <1>1, <2>1 DEF AloneOK
  <2>3. Served(s) = {disk[slots[s].file]}
    BY <1>1, <2>1 DEF AloneOK, Served
  <2> QED  BY <2>2, <2>3 DEF Body
<1>2. Inv => FilledIsWhole
  BY <1>1 DEF FilledIsWhole
<1> QED  BY <1>2, UploadsCorrect, PTL

(* A slot that handle_upload marked filled refuses every later request, so
   that with the earlier ones done handle_download always sends the same. *)
THEOREM FilledSlotStays == Spec => FilledStays
<1> DEFINE Stays(s) == Active(s)' = {} /\ Served(s)' = Served(s)
<1>1. ASSUME Inv, [Next]_vars, NEW s \in Slots,
             slots[s] # None, slots[s].filled, Active(s) = {}
      PROVE  Stays(s)
  <2>1. TypeOK /\ Requests /\ Files
    BY <1>1 DEF Inv
  <2>2. slots[s].file \in Uploads \cup {None}
        /\ (slots[s].file # None => up[slots[s].file].slot = s)
    BY <1>1, <2>1, SlotType DEF Files
  <2>3. ASSUME NEW q \in Slots, NEW size \in Sizes, SlotRequest(q, size)
        PROVE  Stays(s)
    <3>1. slots'[s] = slots[s] /\ UNCHANGED <<up, disk>>
      BY <1>1, <2>1, <2>3 DEF SlotRequest, TypeOK
    <3> QED  BY <1>1, <3>1 DEF Active, Served
  <2>4. ASSUME NEW u \in Uploads, NEW q \in Slots,
               NEW length \in (0 .. MaxBody) \cup {None}, Accept(u, q, length)
        PROVE  Stays(s)
    <3>1. q # s /\ UNCHANGED <<slots, disk>>
      BY <1>1, <2>4 DEF Accept
    <3>2. /\ up'[u].slot = q /\ \A v \in Uploads \ {u} : up'[v] = up[v]
      BY <2>1, <2>4 DEF Accept, TypeOK, Upload
    <3>3. \A v \in Uploads : ~ (up'[v].slot = s /\ up'[v].phase # "done")
      BY <1>1, <3>1, <3>2 DEF Active
    <3> QED  BY <3>1, <3>3 DEF Active, Served
  <2>5. ASSUME NEW u \in Uploads, Handler(u)
        PROVE  Stays(s)
    <3>1. Handles(u) /\ u \in Active(up[u].slot)
      BY <1>1, <2>5, HandlerSteps, Acting
    <3>2. up[u].slot # s
      BY <1>1, <3>1
    <3>3. slots'[s] = slots[s] /\ up'[u].slot # s
      BY <3>1, <3>2 DEF Handles
    <3>4. \A v \in Uploads : ~ (up'[v].slot = s /\ up'[v].phase # "done")
      BY <1>1, <3>1, <3>3 DEF Active, Handles
    <3>5. slots[s].file # None => disk'[slots[s].file] = disk[slots[s].file]
      BY <2>2, <3>1, <3>2 DEF Handles
    <3> QED  BY <3>3, <3>4, <3>5 DEF Active, Served
  <2>6. CASE UNCHANGED vars
    BY <1>1, <2>6 DEF vars, Active, Served
  <2> HIDE DEF Stays
  <2> QED  BY <1>1, <2>3, <2>4, <2>5, <2>6 DEF Next
<1>2. Inv /\ [Next]_vars =>
        [\A s \in Slots : slots[s] # None /\ slots[s].filled /\ Active(s) = {} => Stays(s)]_vars
  BY <1>1
<1> QED  BY <1>2, UploadsCorrect, PTL DEF Spec, FilledStays
=============================================================================
