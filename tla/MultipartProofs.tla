-------------------------- MODULE MultipartProofs --------------------------
(***************************************************************************)
(* Theorems about Multipart, for any number of uploads, parts, requests    *)
(* and faults and any time-outs.  The byte counter is a sum over uploads   *)
(* and parts and stays with TLC.                                           *)
(***************************************************************************)
EXTENDS Multipart, TLAPS

Typed ==
    /\ now \in Nat
    /\ uploads \in [Uploads -> Upload \cup {None}]
    /\ made \subseteq Uploads
    /\ files \in [Uploads -> [Parts -> Contents \cup {None}]]
    /\ dirTime \in [Uploads -> Nat \cup {None}]
    /\ owed = [u \in Uploads |-> owed[u]]
    /\ slot \in [Uploads -> Slot \cup {None}]
    /\ pc \in [Tasks -> {"idle", "owner", "run", "handoff", "store", "stored", "broken",
                         "finish", "rollback", "publish", "join", "done"}]
    /\ upl \in [Tasks -> Uploads]
    /\ list \in [Tasks -> Lists]
    /\ data \in [Tasks -> Lists \cup {None}]
    /\ mode \in [Tasks -> {"buffered", "chunks", "relayed"}]
    /\ owner \in [Tasks -> Tasks]
    /\ outcome \in [Tasks -> {"ok", "err", None}]
    /\ active \in (SUBSET Uploads) \cup {None}
    /\ object \in [Uploads -> Lists \cup {None}]
    /\ aborted \subseteq Uploads
    /\ left \in [Uploads -> Lists \cup {None}]

\* An id is used once, and the bytes of an upload in the map are owed to nobody.
Once == \A u \in Uploads :
    /\ u \notin made => uploads[u] = None /\ owed[u] = None /\ u \notin aborted
    /\ uploads[u] # None => owed[u] = None
    /\ u \in aborted => uploads[u] = None

\* The steps between the flip to Completing and the end of the store: one task of an
\* upload is there, and nobody else can take the upload back.
Phase == {"handoff", "store", "stored", "broken", "finish", "rollback"}
Flipped == \A t \in Tasks : pc[t] \in Phase =>
    /\ uploads[upl[t]] # None => uploads[upl[t]].state = "Completing"
    /\ upl[t] \in made \ aborted
    /\ data[t] = list[t]
    /\ \A v \in Tasks : v # t /\ pc[v] \in Phase => upl[v] # upl[t]

\* Before a task's store reports success, the key has what failed stores left; after, what
\* the task's client listed.  While the upload is in the map, no other task has stored it.
Stored ==
    /\ \A t \in Tasks :
          /\ pc[t] \in {"stored", "finish"} => object[upl[t]] = list[t]
          /\ pc[t] \in {"handoff", "store", "broken", "rollback"}
                => object[upl[t]] = left[upl[t]]
    /\ \A u \in Uploads : object[u] # left[u] =>
          /\ u \in made \ aborted
          /\ uploads[u] # None => \E t \in Tasks : pc[t] \in {"stored", "finish"} /\ upl[t] = u

\* An upload that is gone from the map and that no task is storing stays so.
Closed(u) ==
    /\ u \in made /\ uploads[u] = None
    /\ \A t \in Tasks : pc[t] \in Phase => upl[t] # u

\* Whose outcome a client is given.
Answers ==
    /\ \A t \in Tasks : pc[t] \in {"publish", "done"} /\ outcome[t] = "ok"
          => object[upl[t]] = list[t]
    /\ \A t \in Tasks : pc[t] = "join" =>
          pc[owner[t]] # "idle" /\ upl[owner[t]] = upl[t] /\ list[owner[t]] = list[t]
    /\ \A u \in Uploads : slot[u] # None =>
          /\ slot[u].kind = "Done" => object[u] = slot[u].list
          /\ slot[u].kind = "InFlight" =>
                /\ pc[slot[u].owner] # "idle"
                /\ upl[slot[u].owner] = u
                /\ list[slot[u].owner] = slot[u].list

\* An upload some client was told to be complete is closed.
Settled ==
    /\ \A t \in Tasks : pc[t] \in {"publish", "done"} /\ outcome[t] = "ok" => Closed(upl[t])
    /\ \A u \in Uploads : slot[u] # None /\ slot[u].kind = "Done" => Closed(u)

\* A relay directory that the sweep does not know is as old as the sweep at most.
Fresh(u) == active # None => u \in active \/ dirTime[u] = now
RelayDirs ==
    \A u \in Uploads : uploads[u] # None /\ uploads[u].relayed =>
        /\ \A p \in Parts : uploads[u].parts[p] # None => uploads[u].parts[p].at = "file"
        /\ Fresh(u)

\* From the flip to the end of the store the relay files are what was validated: the
\* upload is in the map, too young to be swept or under the guard.
Guarded == \A t \in Tasks : pc[t] \in {"handoff", "store"} /\ mode[t] = "relayed" =>
    /\ uploads[upl[t]] # None
    /\ uploads[upl[t]].relayed
    /\ pc[t] = "handoff" => uploads[upl[t]].last = now
    /\ pc[t] = "store" => uploads[upl[t]].storing
    /\ \A p \in DOMAIN data[t] : files[upl[t]][p] = data[t][p]
HandoffRelayed == \A t \in Tasks :
    /\ pc[t] \in {"handoff", "stored", "broken"} => mode[t] = "relayed"
    /\ pc[t] \in {"idle", "owner", "run"} => mode[t] # "relayed"

IInv == /\ Typed /\ Once /\ Flipped /\ Stored /\ Answers /\ Settled
        /\ RelayDirs /\ Guarded /\ HandoffRelayed
-----------------------------------------------------------------------------
(***************************************************************************)
(* What the updates of an upload in the map amount to.                     *)
(***************************************************************************)
PartMap == [Parts -> Part \cup {None}]
SameParts(v, up) == v.parts = up.parts /\ v.relayed = up.relayed

\* A map stays a map when one of its entries is replaced.
LEMMA Put ==
    ASSUME NEW S, NEW T, NEW f \in [S -> T], NEW x \in S, NEW y \in T
    PROVE  [f EXCEPT ![x] = y] \in [S -> T]
  OBVIOUS

\* The fields of an upload.
LEMMA UploadType ==
    Upload = [parts: PartMap, state: {"Open", "Completing"}, last: Nat, relayed: BOOLEAN,
              storing: BOOLEAN]
  BY DEF Upload, PartMap

\* The flip to Completing (complete).
LEMMA Flip ==
    ASSUME NEW up \in Upload, NEW n \in Nat
    PROVE  LET v == [up EXCEPT !.state = "Completing", !.last = n]
           IN  /\ v \in Upload /\ SameParts(v, up)
               /\ v.state = "Completing" /\ v.last = n /\ v.storing = up.storing
  BY UploadType DEF SameParts

\* The flip back (rollback_upload).
LEMMA FlipBack ==
    ASSUME NEW up \in Upload
    PROVE  LET v == [up EXCEPT !.state = "Open"]
           IN  /\ v \in Upload /\ SameParts(v, up)
               /\ v.state = "Open" /\ v.last = up.last /\ v.storing = up.storing
  BY UploadType DEF SameParts

\* The guard of the store (store_guard and its drop).
LEMMA Mark ==
    ASSUME NEW up \in Upload, NEW b \in BOOLEAN
    PROVE  LET v == [up EXCEPT !.storing = b]
           IN  /\ v \in Upload /\ SameParts(v, up)
               /\ v.state = up.state /\ v.last = up.last /\ v.storing = b
  BY UploadType DEF SameParts

\* Parts that became files (promote_upload_to_relay).
LEMMA Refile ==
    ASSUME NEW up \in Upload, NEW ps \in PartMap
    PROVE  LET v == [up EXCEPT !.parts = ps]
           IN  /\ v \in Upload /\ v.parts = ps /\ v.relayed = up.relayed /\ v.last = up.last
               /\ v.state = up.state /\ v.storing = up.storing
  BY UploadType

\* A part that became a file.
LEMMA ToFile ==
    ASSUME NEW part \in Part
    PROVE  LET f == [part EXCEPT !.at = "file"]
           IN  f \in Part /\ f.at = "file" /\ f.content = part.content
  BY DEF Part

\* A completion that is accepted flips its upload and takes its list.
LEMMA CompleteStep ==
    ASSUME Typed, NEW t \in Tasks, Complete(t)
    PROVE  \/ /\ UNCHANGED <<uploads, data, mode>>
              /\ pc' = [pc EXCEPT ![t] = "publish"]
              /\ outcome' = [outcome EXCEPT ![t] = "err"]
           \/ /\ uploads[upl[t]] \in Upload /\ uploads[upl[t]] # None
              /\ uploads[upl[t]].state = "Open" /\ Valid(upl[t], list[t])
              /\ \E v \in Upload : /\ uploads' = [uploads EXCEPT ![upl[t]] = v]
                                  /\ v.state = "Completing" /\ v.last = now
                                  /\ SameParts(v, uploads[upl[t]])
              /\ data' = [data EXCEPT ![t] = list[t]]
              /\ \/ /\ mode[t] = "chunks" /\ uploads[upl[t]].relayed
                    /\ mode' = [mode EXCEPT ![t] = "relayed"]
                    /\ pc' = [pc EXCEPT ![t] = "handoff"]
                 \/ mode' = mode /\ pc' = [pc EXCEPT ![t] = "store"]
              /\ UNCHANGED outcome
<1> DEFINE up == uploads[upl[t]]
           flipped == [up EXCEPT !.state = "Completing", !.last = now]
<1>1. CASE up # None /\ up.state = "Open" /\ Valid(upl[t], list[t])
  <2>1. up \in Upload /\ now \in Nat
    BY <1>1 DEF Typed
  <2>2. /\ flipped \in Upload /\ SameParts(flipped, up)
        /\ flipped.state = "Completing" /\ flipped.last = now
    BY <2>1, Flip
  <2>3. /\ uploads' = [uploads EXCEPT ![upl[t]] = flipped]
        /\ data' = [data EXCEPT ![t] = list[t]]
        /\ UNCHANGED outcome
    BY <1>1 DEF Complete
  <2>4. CASE mode[t] = "chunks" /\ up.relayed
    <3>1. mode' = [mode EXCEPT ![t] = "relayed"] /\ pc' = [pc EXCEPT ![t] = "handoff"]
      BY <1>1, <2>4 DEF Complete, Goto
    <3> HIDE DEF flipped
    <3>2. QED
      BY <1>1, <2>1, <2>2, <2>3, <2>4, <3>1
  <2>5. CASE ~(mode[t] = "chunks" /\ up.relayed)
    <3>1. mode' = mode /\ pc' = [pc EXCEPT ![t] = "store"]
      BY <1>1, <2>5 DEF Complete, Goto
    <3> HIDE DEF flipped
    <3>2. QED
      BY <1>1, <2>1, <2>2, <2>3, <2>5, <3>1
  <2>6. QED
    BY <2>4, <2>5
<1>2. CASE ~(up # None /\ up.state = "Open" /\ Valid(upl[t], list[t]))
  BY <1>2 DEF Complete, Goto
<1>3. QED
  BY <1>1, <1>2

\* The guard's flag is the only thing SetStoring changes.
LEMMA SetStoringStep ==
    ASSUME Typed, NEW u \in Uploads, NEW b \in BOOLEAN, SetStoring(u, b)
    PROVE  \/ uploads[u] = None /\ uploads' = uploads
           \/ \E v \in Upload : /\ uploads[u] \in Upload /\ uploads[u] # None
                               /\ uploads' = [uploads EXCEPT ![u] = v]
                               /\ v.state = uploads[u].state /\ v.last = uploads[u].last
                               /\ v.storing = b /\ SameParts(v, uploads[u])
<1>1. CASE uploads[u] = None
  BY <1>1 DEF SetStoring
<1>2. CASE uploads[u] # None
  <2> DEFINE marked == [uploads[u] EXCEPT !.storing = b]
  <2>1. uploads[u] \in Upload
    BY <1>2 DEF Typed
  <2>2. /\ marked \in Upload /\ SameParts(marked, uploads[u]) /\ marked.storing = b
        /\ marked.state = uploads[u].state /\ marked.last = uploads[u].last
    BY ONLY <2>1, Mark, b \in BOOLEAN
  <2>3. uploads' = [uploads EXCEPT ![u] = marked]
    BY <1>2 DEF SetStoring
  <2> HIDE DEF marked
  <2>4. QED
    BY <1>2, <2>1, <2>2, <2>3
<1>3. QED
  BY <1>1, <1>2

\* A rolled back upload is open again and otherwise as it was.
LEMMA RollbackStep ==
    ASSUME Typed, NEW t \in Tasks, Rollback(t)
    PROVE  \/ uploads[upl[t]] = None /\ uploads' = uploads
           \/ \E v \in Upload : /\ uploads[upl[t]] \in Upload /\ uploads[upl[t]] # None
                               /\ uploads' = [uploads EXCEPT ![upl[t]] = v]
                               /\ SameParts(v, uploads[upl[t]])
<1>1. CASE uploads[upl[t]] = None
  BY <1>1 DEF Rollback
<1>2. CASE uploads[upl[t]] # None
  <2> DEFINE back == [uploads[upl[t]] EXCEPT !.state = "Open"]
  <2>1. uploads[upl[t]] \in Upload
    BY <1>2 DEF Typed
  <2>2. back \in Upload /\ SameParts(back, uploads[upl[t]])
    BY ONLY <2>1, FlipBack
  <2>3. uploads' = [uploads EXCEPT ![upl[t]] = back]
    BY <1>2 DEF Rollback
  <2> HIDE DEF back
  <2>4. QED
    BY <1>2, <2>1, <2>2, <2>3
<1>3. QED
  BY <1>1, <1>2

\* A new part: with the promotion, every part is a file.
LEMMA UploadPartStep ==
    ASSUME Typed, NEW u \in Uploads, NEW p \in Parts, NEW c \in Contents, UploadPart(u, p, c)
    PROVE  /\ uploads[u] \in Upload /\ uploads[u] # None /\ uploads[u].state = "Open"
           /\ \E v \in Upload :
                 /\ uploads' = [uploads EXCEPT ![u] = v]
                 /\ v.state = "Open"
                 /\ v.relayed => /\ \A q \in Parts : v.parts[q] = None \/ v.parts[q].at = "file"
                                 /\ dirTime'[u] = now
                 /\ ~v.relayed => ~uploads[u].relayed
           /\ \A w \in Uploads : w # u => files'[w] = files[w] /\ dirTime'[w] = dirTime[w]
           /\ files' \in [Uploads -> [Parts -> Contents \cup {None}]]
           /\ dirTime' \in [Uploads -> Nat \cup {None}]
<1> DEFINE up == uploads[u]
           relay == up.relayed \/ Promotes(u, Growth(u, p, c))
           spilled == IF relay THEN InMemory(u) ELSE {}
           ps == [q \in Parts |->
                    CASE q = p -> [content |-> c, at |-> IF relay THEN "file" ELSE "mem"]
                      [] q # p /\ q \in spilled -> [up.parts[q] EXCEPT !.at = "file"]
                      [] OTHER -> up.parts[q]]
           new == [up EXCEPT !.parts = ps, !.relayed = relay, !.last = now]
           fs == [q \in Parts |-> CASE q = p -> c
                                    [] q # p /\ q \in spilled -> up.parts[q].content
                                    [] OTHER -> files[u][q]]
<1>1. /\ up \in Upload /\ up # None /\ up.state = "Open" /\ up.parts \in PartMap
      /\ up.relayed \in BOOLEAN /\ now \in Nat
  BY UploadType DEF Typed, UploadPart
<1>2. relay \in BOOLEAN
  BY <1>1 DEF Promotes
<1>3. \A q \in Parts : up.parts[q] # None => up.parts[q] \in Part
  BY <1>1 DEF PartMap
<1>4. \A q \in spilled : up.parts[q] \in Part
  BY <1>3 DEF InMemory
<1>5. \A q \in Parts : ps[q] \in Part \cup {None}
  BY <1>1, <1>3, <1>4, ToFile DEF Part
<1>6. ps \in PartMap
  BY <1>5 DEF PartMap
<1>7. uploads' = [uploads EXCEPT ![u] = new]
  BY DEF UploadPart
<1>8. relay => \A q \in Parts : ps[q] = None \/ ps[q].at = "file"
  <2>1. SUFFICES ASSUME relay, NEW q \in Parts, ps[q] # None PROVE ps[q].at = "file"
    OBVIOUS
  <2>2. CASE q = p
    BY <2>1, <2>2
  <2>3. CASE q # p /\ q \in spilled
    BY <2>1, <2>3, <1>4, ToFile
  <2>4. CASE q # p /\ q \notin spilled
    <3>1. ps[q] = up.parts[q] /\ up.parts[q] \in Part
      BY <2>1, <2>4, <1>3
    <3>2. QED
      BY <2>1, <2>4, <3>1 DEF InMemory, Part
  <2>5. QED
    BY <2>2, <2>3, <2>4
<1>9. relay => files' = [files EXCEPT ![u] = fs] /\ dirTime' = [dirTime EXCEPT ![u] = now]
  BY DEF UploadPart
<1>10. ~relay => files' = files /\ dirTime' = dirTime
  BY DEF UploadPart, disk
<1>11. fs \in [Parts -> Contents \cup {None}]
  <2>1. \A q \in Parts : fs[q] \in Contents \cup {None}
    BY <1>4 DEF Part, Typed
  <2>2. QED
    BY <2>1
<1> HIDE DEF ps, fs, relay
<1>12. /\ new \in Upload /\ new.parts = ps /\ new.relayed = relay /\ new.state = up.state
  <2>1. PICK parts \in PartMap : parts = ps
    BY <1>6
  <2>2. PICK b \in BOOLEAN : b = relay
    BY <1>2
  <2>3. PICK old \in Upload : old = up
    BY <1>1
  <2>4. LET v == [old EXCEPT !.parts = parts, !.relayed = b, !.last = now]
        IN  v \in Upload /\ v.parts = parts /\ v.relayed = b /\ v.state = old.state
    BY ONLY UploadType, old \in Upload, parts \in PartMap, b \in BOOLEAN, <1>1
  <2>5. QED
    BY <2>1, <2>2, <2>3, <2>4, Zenon
<1> HIDE DEF new
<1>13. \E v \in Upload :
          /\ uploads' = [uploads EXCEPT ![u] = v] /\ v.state = "Open"
          /\ v.relayed => /\ \A q \in Parts : v.parts[q] = None \/ v.parts[q].at = "file"
                          /\ dirTime'[u] = now
          /\ ~v.relayed => ~uploads[u].relayed
  <2>1. new.relayed => \A q \in Parts : new.parts[q] = None \/ new.parts[q].at = "file"
    BY <1>12, <1>8
  <2>2. new.relayed => dirTime'[u] = now
    BY <1>12, <1>9 DEF Typed
  <2>3. ~new.relayed => ~uploads[u].relayed
    BY <1>12, <1>1 DEF relay
  <2>4. QED
    BY <1>1, <1>12, <1>7, <2>1, <2>2, <2>3
<1>14. /\ \A w \in Uploads : w # u => files'[w] = files[w] /\ dirTime'[w] = dirTime[w]
       /\ files' \in [Uploads -> [Parts -> Contents \cup {None}]]
       /\ dirTime' \in [Uploads -> Nat \cup {None}]
  <2>1. CASE relay
    <3>1. files' = [files EXCEPT ![u] = fs] /\ dirTime' = [dirTime EXCEPT ![u] = now]
      BY <2>1, <1>9
    <3>2. /\ \A w \in Uploads : w # u => files'[w] = files[w]
          /\ files' \in [Uploads -> [Parts -> Contents \cup {None}]]
      BY <3>1, <1>11 DEF Typed
    <3>3. /\ \A w \in Uploads : w # u => dirTime'[w] = dirTime[w]
          /\ dirTime' \in [Uploads -> Nat \cup {None}]
      BY <3>1, <1>1 DEF Typed
    <3>4. QED
      BY <3>2, <3>3
  <2>2. CASE ~relay
    BY <2>2, <1>10 DEF Typed
  <2>3. QED
    BY <2>1, <2>2
<1>15. QED
  BY <1>1, <1>13, <1>14

\* A promotion that stopped half way leaves an upload that is not relayed.
LEMMA PromoteErrorStep ==
    ASSUME Typed, NEW u \in Uploads, NEW p \in Parts, NEW c \in Contents, NEW S \in SUBSET Parts,
           PromoteError(u, p, c, S)
    PROVE  /\ uploads[u] \in Upload /\ uploads[u] # None /\ uploads[u].state = "Open"
           /\ \E v \in Upload : /\ uploads' = [uploads EXCEPT ![u] = v]
                               /\ v.state = "Open" /\ ~v.relayed
           /\ \A w \in Uploads : w # u => files'[w] = files[w] /\ dirTime'[w] = dirTime[w]
           /\ files' \in [Uploads -> [Parts -> Contents \cup {None}]]
           /\ dirTime' \in [Uploads -> Nat \cup {None}]
<1> DEFINE up == uploads[u]
           ps == [q \in Parts |-> IF q \in S THEN [up.parts[q] EXCEPT !.at = "file"]
                                             ELSE up.parts[q]]
           new == [up EXCEPT !.parts = ps]
           fs == [q \in Parts |-> IF q \in S THEN up.parts[q].content ELSE files[u][q]]
<1>1. /\ up \in Upload /\ up # None /\ up.state = "Open" /\ up.parts \in PartMap /\ ~up.relayed
      /\ now \in Nat
  BY UploadType DEF Typed, PromoteError, Promotes
<1>2. \A q \in Parts : up.parts[q] # None => up.parts[q] \in Part
  BY <1>1 DEF PartMap
<1>3. \A q \in S : up.parts[q] \in Part
  BY <1>2 DEF InMemory, PromoteError
<1>4. \A q \in Parts : ps[q] \in Part \cup {None}
  BY <1>2, <1>3, ToFile
<1>5. ps \in PartMap
  BY <1>4 DEF PartMap
<1>6. new \in Upload /\ new.state = up.state /\ new.relayed = up.relayed
  BY ONLY <1>1, <1>5, Refile
<1>7. uploads' = [uploads EXCEPT ![u] = new]
  BY DEF PromoteError
<1>8. files' = [files EXCEPT ![u] = fs] /\ dirTime' = [dirTime EXCEPT ![u] = now]
  BY DEF PromoteError, Spill
<1>9. fs \in [Parts -> Contents \cup {None}]
  <2>1. \A q \in Parts : fs[q] \in Contents \cup {None}
    BY <1>3 DEF Part, Typed
  <2>2. QED
    BY <2>1
<1> HIDE DEF ps, new, fs
<1>10. QED
  BY <1>1, <1>6, <1>7, <1>8, <1>9 DEF Typed

-----------------------------------------------------------------------------
\* There is a completion list to begin with.
LEMMA SomeList == Lists # {}
<1>1. PICK p \in Parts : TRUE
  BY MultipartConstants
<1>2. PICK c \in Contents : TRUE
  BY MultipartConstants
<1>3. [q \in {p} |-> c] \in [{p} -> Contents]
  BY <1>2
<1>4. {p} \in (SUBSET Parts) \ {{}}
  BY <1>1
<1>5. QED
  BY <1>3, <1>4 DEF Lists

\* What the store puts is a list of parts.
LEMMA StorePuts ==
    ASSUME Typed, Flipped, NEW t \in Tasks, pc[t] = "store", Readied(t)
    PROVE  Payload(t) \in Lists
<1>1. data[t] \in Lists
  BY DEF Flipped, Phase, Typed
<1>2. PICK S \in (SUBSET Parts) \ {{}} : data[t] \in [S -> Contents]
  BY <1>1 DEF Lists
<1>3. mode[t] = "relayed" => Payload(t) \in [S -> Contents]
  BY <1>2 DEF Payload, Readied, FilesPresent, Typed
<1>4. QED
  BY <1>1, <1>2, <1>3 DEF Payload, Lists

\* Relayed or not, the store puts what the client listed.
LEMMA StorePutsList ==
    ASSUME Typed, Flipped, Guarded, NEW t \in Tasks, pc[t] = "store"
    PROVE  Payload(t) = list[t]
<1>1. data[t] = list[t] /\ list[t] \in Lists
  BY DEF Flipped, Phase, Typed
<1>2. PICK S \in SUBSET Parts : data[t] \in [S -> Contents]
  BY <1>1 DEF Lists
<1>3. CASE mode[t] = "relayed"
  <2>1. \A p \in DOMAIN data[t] : files[upl[t]][p] = data[t][p]
    BY <1>3 DEF Guarded
  <2>2. QED
    BY <1>1, <1>2, <1>3, <2>1 DEF Payload
<1>4. CASE mode[t] # "relayed"
  BY <1>1, <1>4 DEF Payload
<1>5. QED
  BY <1>3, <1>4

\* The state starts as the invariant says.
LEMMA InitInv == Init => IInv
<1> SUFFICES ASSUME Init PROVE IInv
  OBVIOUS
<1>1. \A t \in Tasks : upl[t] \in Uploads /\ list[t] \in Lists
  BY MultipartConstants, SomeList DEF Init
<1>2. /\ upl \in [Tasks -> Uploads] /\ list \in [Tasks -> Lists]
      /\ files \in [Uploads -> [Parts -> Contents \cup {None}]]
  BY <1>1 DEF Init, NoPart
<1>3. /\ slot \in [Uploads -> Slot \cup {None}] /\ object \in [Uploads -> Lists \cup {None}]
      /\ data \in [Tasks -> Lists \cup {None}] /\ outcome \in [Tasks -> {"ok", "err", None}]
      /\ uploads \in [Uploads -> Upload \cup {None}] /\ dirTime \in [Uploads -> Nat \cup {None}]
  BY DEF Init
<1>4. Typed
  BY <1>2, <1>3 DEF Init, Typed
<1>5. Once /\ Flipped /\ Stored /\ Answers /\ Settled /\ RelayDirs /\ Guarded /\ HandoffRelayed
  BY <1>1
     DEF Init, Once, Flipped, Phase, Stored, Answers, Settled, RelayDirs, Fresh, Guarded, HandoffRelayed
<1>6. QED
  BY <1>4, <1>5 DEF IInv

\* Every step keeps the state well typed.
LEMMA NextTyped == Typed /\ Flipped /\ [Next]_vars => Typed'
<1> SUFFICES ASSUME Typed, Flipped, [Next]_vars PROVE Typed'
  OBVIOUS
<1> USE MultipartConstants, NoneIsNoValue DEF NoPart, Goto, task, disk, bytes, ghost
<1>1. CASE UNCHANGED vars
  BY <1>1 DEF vars, Typed
<1>2. ASSUME Tick PROVE Typed'
  BY <1>2 DEF Tick, Typed
<1>3. ASSUME Purge PROVE Typed'
  BY <1>3 DEF Purge, Remove, Owe, Typed
<1>4. ASSUME CleanupExpired PROVE Typed'
  BY <1>4 DEF CleanupExpired, Remove, Owe, ExpiredUpload, Pruned, Typed
<1>5. ASSUME SweepSnapshot PROVE Typed'
  BY <1>5 DEF SweepSnapshot, Typed
<1>6. ASSUME SweepScan PROVE Typed'
  <2>1. NoPart \in [Parts -> Contents \cup {None}]
    BY DEF NoPart, Typed
  <2>2. files' \in [Uploads -> [Parts -> Contents \cup {None}]]
    BY <1>6, <2>1 DEF SweepScan, Typed
  <2>3. dirTime' \in [Uploads -> Nat \cup {None}]
    BY <1>6 DEF SweepScan, Typed
  <2>4. active' \in (SUBSET Uploads) \cup {None}
    BY <1>6 DEF SweepScan, Typed
  <2>5. /\ UNCHANGED <<now, uploads, made, owed, slot, pc, upl, list, mode, data, owner>>
        /\ UNCHANGED <<outcome, object, aborted, left>>
    BY <1>6 DEF SweepScan, Typed
  <2>6. QED
    BY <2>2, <2>3, <2>4, <2>5 DEF Typed
<1>7. ASSUME NEW u \in Uploads, Create(u) PROVE Typed'
  <2>1. NoPart \in PartMap
    BY DEF NoPart, PartMap, Typed
  <2>2. [parts |-> NoPart, state |-> "Open", last |-> now, relayed |-> FALSE, storing |-> FALSE]
           \in Upload
    BY <2>1, UploadType DEF Typed
  <2>3. QED
    BY <1>7, <2>2 DEF Create, Typed
<1>8. ASSUME NEW u \in Uploads, Abort(u) PROVE Typed'
  BY <1>8 DEF Abort, Remove, Owe, Typed
<1>9. ASSUME NEW u \in Uploads, Release(u) PROVE Typed'
  <2>1. NoPart \in [Parts -> Contents \cup {None}]
    BY DEF NoPart, Typed
  <2>2. QED
    BY <1>9, <2>1 DEF Release, DropRelayDir, Typed
<1>10. ASSUME NEW u \in Uploads, NEW p \in Parts, NEW c \in Contents, UploadPart(u, p, c) PROVE Typed'
  <2>1. \E v \in Upload : uploads' = [uploads EXCEPT ![u] = v]
    BY <1>10, UploadPartStep
  <2>2. /\ files' \in [Uploads -> [Parts -> Contents \cup {None}]]
        /\ dirTime' \in [Uploads -> Nat \cup {None}]
    BY <1>10, UploadPartStep
  <2>3. uploads' \in [Uploads -> Upload \cup {None}]
    BY <2>1, Put DEF Typed
  <2>4. QED
    BY <1>10, <2>2, <2>3 DEF UploadPart, Typed
<1>11. ASSUME NEW u \in Uploads, NEW p \in Parts, NEW c \in Contents, NEW S \in SUBSET Parts, PromoteError(u, p, c, S) PROVE Typed'
  <2>1. \E v \in Upload : uploads' = [uploads EXCEPT ![u] = v]
    BY <1>11, PromoteErrorStep
  <2>2. /\ files' \in [Uploads -> [Parts -> Contents \cup {None}]]
        /\ dirTime' \in [Uploads -> Nat \cup {None}]
    BY <1>11, PromoteErrorStep
  <2>3. uploads' \in [Uploads -> Upload \cup {None}]
    BY <2>1, Put DEF Typed
  <2>4. QED
    BY <1>11, <2>2, <2>3 DEF PromoteError, Typed
<1>12. ASSUME NEW t \in Tasks, NEW u \in Uploads, NEW l \in Lists, BeginComplete(t, u, l) PROVE Typed'
  <2>1. [kind |-> "InFlight", list |-> l, at |-> now, owner |-> t] \in Slot
    BY DEF Slot, Typed
  <2>2. slot' \in [Uploads -> Slot \cup {None}]
    <3>1. CASE slot' = slot
      BY <3>1 DEF Typed
    <3>2. CASE slot' # slot
      <4>1. slot' = [slot EXCEPT ![u] = [kind |-> "InFlight", list |-> l, at |-> now,
                                         owner |-> t]]
        BY <1>12, <3>2 DEF BeginComplete, Typed
      <4>2. QED
        BY <2>1, <4>1, Put DEF Typed
    <3>3. QED
      BY <3>1, <3>2 DEF Typed
  <2>3. owner' \in [Tasks -> Tasks]
    <3>1. Joins(slot[u], l) => slot[u].owner \in Tasks
      BY DEF Joins, Slot, Typed
    <3>2. QED
      BY <1>12, <3>1 DEF BeginComplete, Typed
  <2>4. outcome' \in [Tasks -> {"ok", "err", None}]
    BY <1>12 DEF BeginComplete, Typed
  <2>5. upl' \in [Tasks -> Uploads] /\ list' \in [Tasks -> Lists]
    BY <1>12, Put DEF BeginComplete, Typed
  <2>6. \E s \in {"owner", "join", "done"} : pc' = [pc EXCEPT ![t] = s]
    BY <1>12 DEF BeginComplete, Typed
  <2>7. /\ UNCHANGED <<now, uploads, made, files, dirTime, owed, mode, data, active>>
        /\ UNCHANGED <<object, aborted, left>>
    BY <1>12 DEF BeginComplete, Typed
  <2>8. QED
    BY <2>2, <2>3, <2>4, <2>5, <2>6, <2>7 DEF Typed
<1>13. ASSUME NEW t \in Tasks, Admit(t) PROVE Typed'
  BY <1>13 DEF Admit, Typed
<1>14. ASSUME NEW t \in Tasks, Complete(t) PROVE Typed'
  <2> DEFINE CompleteTypes ==
                /\ uploads \in [Uploads -> Upload \cup {None}]
                /\ data \in [Tasks -> Lists \cup {None}]
                /\ mode \in [Tasks -> {"buffered", "chunks", "relayed"}]
                /\ outcome \in [Tasks -> {"ok", "err", None}]
  <2>1. CompleteTypes'
    <3>1. CASE UNCHANGED <<uploads, data, mode>> /\ outcome' = [outcome EXCEPT ![t] = "err"]
      BY <3>1 DEF Typed
    <3>2. ASSUME NEW v \in Upload, uploads' = [uploads EXCEPT ![upl[t]] = v],
                 data' = [data EXCEPT ![t] = list[t]],
                 mode' = [mode EXCEPT ![t] = "relayed"] \/ mode' = mode, UNCHANGED outcome
          PROVE  CompleteTypes'
      <4>1. uploads' \in [Uploads -> Upload \cup {None}]
        BY <3>2, Put DEF Typed
      <4>2. data' \in [Tasks -> Lists \cup {None}]
        BY <3>2, Put DEF Typed
      <4>3. mode' \in [Tasks -> {"buffered", "chunks", "relayed"}]
        BY <3>2 DEF Typed
      <4>4. QED
        BY <3>2, <4>1, <4>2, <4>3 DEF Typed
    <3>3. QED
      BY <1>14, <3>1, <3>2, CompleteStep
  <2>2. QED
    BY <1>14, <2>1 DEF Complete, Typed
<1>15. ASSUME NEW t \in Tasks, StoreGuard(t) PROVE Typed'
  <2>1. uploads' \in [Uploads -> Upload \cup {None}]
    <3>1. upl[t] \in Uploads /\ \E b \in BOOLEAN : SetStoring(upl[t], b)
      BY <1>15 DEF StoreGuard, Typed
    <3>2. uploads' = uploads \/ \E v \in Upload : uploads' = [uploads EXCEPT ![upl[t]] = v]
      BY <3>1, SetStoringStep
    <3>3. CASE uploads' = uploads
      BY <3>3 DEF Typed
    <3>4. ASSUME NEW v \in Upload, uploads' = [uploads EXCEPT ![upl[t]] = v]
          PROVE  uploads' \in [Uploads -> Upload \cup {None}]
      BY <3>1, <3>4, Put DEF Typed
    <3>5. QED
      BY <3>2, <3>3, <3>4 DEF Typed
  <2>2. QED
    BY <1>15, <2>1 DEF StoreGuard, Typed
<1>16. ASSUME NEW t \in Tasks, EngineStore(t) PROVE Typed'
  <2>1. object' \in [Uploads -> Lists \cup {None}] /\ left' \in [Uploads -> Lists \cup {None}]
    <3>1. /\ object' = object \/ (Readied(t) /\ object' = [object EXCEPT ![upl[t]] = Payload(t)])
          /\ left' = left \/ (Readied(t) /\ left' = [left EXCEPT ![upl[t]] = Payload(t)])
          /\ pc[t] = "store" /\ upl[t] \in Uploads
      BY <1>16 DEF EngineStore, MayLand, Typed
    <3>2. Readied(t) => Payload(t) \in Lists \cup {None}
      BY <3>1, StorePuts
    <3>3. object \in [Uploads -> Lists \cup {None}] /\ left \in [Uploads -> Lists \cup {None}]
      BY DEF Typed
    <3>4. QED
      BY <3>1, <3>2, <3>3, Put
  <2>2. QED
    BY <1>16, <2>1 DEF EngineStore, Typed
<1>17. ASSUME NEW t \in Tasks, DropStoreGuard(t) PROVE Typed'
  <2>1. uploads' \in [Uploads -> Upload \cup {None}]
    <3>1. upl[t] \in Uploads /\ \E b \in BOOLEAN : SetStoring(upl[t], b)
      BY <1>17 DEF DropStoreGuard, Typed
    <3>2. uploads' = uploads \/ \E v \in Upload : uploads' = [uploads EXCEPT ![upl[t]] = v]
      BY <3>1, SetStoringStep
    <3>3. CASE uploads' = uploads
      BY <3>3 DEF Typed
    <3>4. ASSUME NEW v \in Upload, uploads' = [uploads EXCEPT ![upl[t]] = v]
          PROVE  uploads' \in [Uploads -> Upload \cup {None}]
      BY <3>1, <3>4, Put DEF Typed
    <3>5. QED
      BY <3>2, <3>3, <3>4 DEF Typed
  <2>2. QED
    BY <1>17, <2>1 DEF DropStoreGuard, Typed
<1>18. ASSUME NEW t \in Tasks, Rollback(t) PROVE Typed'
  <2>1. uploads' = uploads \/ \E v \in Upload : uploads' = [uploads EXCEPT ![upl[t]] = v]
    BY <1>18, RollbackStep
  <2>2. QED
    BY <1>18, <2>1 DEF Rollback, Typed
<1>19. ASSUME NEW t \in Tasks, FinishUpload(t) PROVE Typed'
  <2>1. NoPart \in [Parts -> Contents \cup {None}]
    BY DEF NoPart, Typed
  <2>2. CASE uploads[upl[t]] = None
    BY <1>19, <2>2 DEF FinishUpload, Typed
  <2>3. CASE uploads[upl[t]] # None
    <3>1. uploads' \in [Uploads -> Upload \cup {None}]
      BY <1>19, <2>3 DEF FinishUpload, Remove, Typed
    <3>2. /\ files' \in [Uploads -> [Parts -> Contents \cup {None}]]
          /\ dirTime' \in [Uploads -> Nat \cup {None}]
      <4>1. /\ files' = [files EXCEPT ![upl[t]] = NoPart]
            /\ dirTime' = [dirTime EXCEPT ![upl[t]] = None]
        BY <1>19, <2>3 DEF FinishUpload, DropRelayDir, Typed
      <4>2. files' \in [Uploads -> [Parts -> Contents \cup {None}]]
        BY <2>1, <4>1, Put DEF Typed
      <4>3. dirTime' \in [Uploads -> Nat \cup {None}]
        BY <4>1 DEF Typed
      <4>4. QED
        BY <4>2, <4>3 DEF Typed
    <3>3. QED
      BY <1>19, <2>3, <3>1, <3>2 DEF FinishUpload, Typed
  <2>4. QED
    BY <2>2, <2>3 DEF Typed
<1>20. ASSUME NEW t \in Tasks, Publish(t) PROVE Typed'
  <2>1. [kind |-> "Done", list |-> list[t], at |-> now] \in Slot
    BY DEF Slot, Typed
  <2>2. QED
    BY <1>20, <2>1 DEF Publish, Typed
<1>21. ASSUME NEW t \in Tasks, JoinOutcome(t) PROVE Typed'
  BY <1>21 DEF JoinOutcome, Typed
<1>22. ASSUME NEW t \in Tasks, Panic(t) PROVE Typed'
  <2>1. uploads' \in [Uploads -> Upload \cup {None}]
    <3>1. upl[t] \in Uploads /\ \E b \in BOOLEAN : SetStoring(upl[t], b)
      BY <1>22 DEF Panic, Typed
    <3>2. uploads' = uploads \/ \E v \in Upload : uploads' = [uploads EXCEPT ![upl[t]] = v]
      BY <3>1, SetStoringStep
    <3>3. CASE uploads' = uploads
      BY <3>3 DEF Typed
    <3>4. ASSUME NEW v \in Upload, uploads' = [uploads EXCEPT ![upl[t]] = v]
          PROVE  uploads' \in [Uploads -> Upload \cup {None}]
      BY <3>1, <3>4, Put DEF Typed
    <3>5. QED
      BY <3>2, <3>3, <3>4 DEF Typed
  <2>2. object' \in [Uploads -> Lists \cup {None}] /\ left' \in [Uploads -> Lists \cup {None}]
    <3>1. /\ object' = object \/ (Readied(t) /\ object' = [object EXCEPT ![upl[t]] = Payload(t)])
          /\ left' = left \/ (Readied(t) /\ left' = [left EXCEPT ![upl[t]] = Payload(t)])
          /\ pc[t] = "store" /\ upl[t] \in Uploads
      BY <1>22 DEF Panic, MayLand, Typed
    <3>2. Readied(t) => Payload(t) \in Lists \cup {None}
      BY <3>1, StorePuts
    <3>3. object \in [Uploads -> Lists \cup {None}] /\ left \in [Uploads -> Lists \cup {None}]
      BY DEF Typed
    <3>4. QED
      BY <3>1, <3>2, <3>3, Put
  <2>3. QED
    BY <1>22, <2>1, <2>2 DEF Panic, Typed
<1>23. QED
  BY <1>1, <1>2, <1>3, <1>4, <1>5, <1>6, <1>7, <1>8, <1>9, <1>10, <1>11, <1>12, <1>13,
     <1>14, <1>15, <1>16, <1>17, <1>18, <1>19, <1>20, <1>21, <1>22 DEF Next, TaskStep

\* An upload leaves the map once, and an abort or a purge is its end.
LEMMA NextOnce == Typed /\ Once /\ [Next]_vars => Once'
<1> SUFFICES ASSUME Typed, Once, [Next]_vars PROVE Once'
  OBVIOUS
<1> USE MultipartConstants, NoneIsNoValue DEF Once, Goto, task, disk, bytes, ghost
<1>1. CASE UNCHANGED vars
  BY <1>1 DEF vars, Typed
<1>2. ASSUME Tick PROVE Once'
  BY <1>2 DEF Tick, Typed
<1>3. ASSUME Purge PROVE Once'
  BY <1>3 DEF Purge, Remove, Owe, Typed
<1>4. ASSUME CleanupExpired PROVE Once'
  BY <1>4 DEF CleanupExpired, Remove, Owe, ExpiredUpload, Pruned, Typed
<1>5. ASSUME SweepSnapshot PROVE Once'
  BY <1>5 DEF SweepSnapshot, Typed
<1>6. ASSUME SweepScan PROVE Once'
  BY <1>6 DEF SweepScan, Orphan, NoPart, Typed
<1>7. ASSUME NEW u \in Uploads, Create(u) PROVE Once'
  BY <1>7 DEF Create, NoPart, Typed
<1>8. ASSUME NEW u \in Uploads, Abort(u) PROVE Once'
  BY <1>8 DEF Abort, Remove, Owe, Typed
<1>9. ASSUME NEW u \in Uploads, Release(u) PROVE Once'
  BY <1>9 DEF Release, DropRelayDir, NoPart, Typed
<1>10. ASSUME NEW u \in Uploads, NEW p \in Parts, NEW c \in Contents, UploadPart(u, p, c) PROVE Once'
  BY <1>10 DEF UploadPart, Promotes, InMemory, Typed
<1>11. ASSUME NEW u \in Uploads, NEW p \in Parts, NEW c \in Contents, NEW S \in SUBSET Parts, PromoteError(u, p, c, S) PROVE Once'
  BY <1>11 DEF PromoteError, Spill, InMemory, Fault, Typed
<1>12. ASSUME NEW t \in Tasks, NEW u \in Uploads, NEW l \in Lists, BeginComplete(t, u, l) PROVE Once'
  BY <1>12 DEF BeginComplete, Joins, Typed
<1>13. ASSUME NEW t \in Tasks, Admit(t) PROVE Once'
  BY <1>13 DEF Admit, Typed
<1>14. ASSUME NEW t \in Tasks, Complete(t) PROVE Once'
  BY <1>14 DEF Complete, Valid, Readable, Typed
<1>15. ASSUME NEW t \in Tasks, StoreGuard(t) PROVE Once'
  BY <1>15 DEF StoreGuard, SetStoring, Typed
<1>16. ASSUME NEW t \in Tasks, EngineStore(t) PROVE Once'
  BY <1>16 DEF EngineStore, FilesPresent, Payload, Fault, Typed
<1>17. ASSUME NEW t \in Tasks, DropStoreGuard(t) PROVE Once'
  BY <1>17 DEF DropStoreGuard, SetStoring, Typed
<1>18. ASSUME NEW t \in Tasks, Rollback(t) PROVE Once'
  BY <1>18 DEF Rollback, Typed
<1>19. ASSUME NEW t \in Tasks, FinishUpload(t) PROVE Once'
  BY <1>19 DEF FinishUpload, Remove, DropRelayDir, NoPart, Typed
<1>20. ASSUME NEW t \in Tasks, Publish(t) PROVE Once'
  BY <1>20 DEF Publish, Typed
<1>21. ASSUME NEW t \in Tasks, JoinOutcome(t) PROVE Once'
  BY <1>21 DEF JoinOutcome, Typed
<1>22. ASSUME NEW t \in Tasks, Panic(t) PROVE Once'
  BY <1>22 DEF Panic, SetStoring, Fault, Typed
<1>23. QED
  BY <1>1, <1>2, <1>3, <1>4, <1>5, <1>6, <1>7, <1>8, <1>9, <1>10, <1>11, <1>12, <1>13,
     <1>14, <1>15, <1>16, <1>17, <1>18, <1>19, <1>20, <1>21, <1>22 DEF Next, TaskStep

\* An upload has one completing task until its store has ended.
LEMMA NextFlipped == Typed /\ Once /\ Flipped /\ [Next]_vars => Flipped'
<1> SUFFICES ASSUME Typed, Once, Flipped, [Next]_vars PROVE Flipped'
  OBVIOUS
<1> USE MultipartConstants, NoneIsNoValue DEF Once, Flipped, Phase, Goto, task, disk,
        bytes, ghost
<1>1. CASE UNCHANGED vars
  BY <1>1 DEF vars, Typed
<1>2. ASSUME Tick PROVE Flipped'
  BY <1>2 DEF Tick, Typed
<1>3. ASSUME Purge PROVE Flipped'
  BY <1>3 DEF Purge, Remove, Owe, Typed
<1>4. ASSUME CleanupExpired PROVE Flipped'
  BY <1>4 DEF CleanupExpired, Remove, Owe, ExpiredUpload, Pruned, Typed
<1>5. ASSUME SweepSnapshot PROVE Flipped'
  BY <1>5 DEF SweepSnapshot, Typed
<1>6. ASSUME SweepScan PROVE Flipped'
  BY <1>6 DEF SweepScan, Orphan, NoPart, Typed
<1>7. ASSUME NEW u \in Uploads, Create(u) PROVE Flipped'
  BY <1>7 DEF Create, NoPart, Typed
<1>8. ASSUME NEW u \in Uploads, Abort(u) PROVE Flipped'
  BY <1>8 DEF Abort, Remove, Owe, Typed
<1>9. ASSUME NEW u \in Uploads, Release(u) PROVE Flipped'
  BY <1>9 DEF Release, DropRelayDir, NoPart, Typed
<1>10. ASSUME NEW u \in Uploads, NEW p \in Parts, NEW c \in Contents, UploadPart(u, p, c) PROVE Flipped'
  BY <1>10 DEF UploadPart, Promotes, InMemory, Typed
<1>11. ASSUME NEW u \in Uploads, NEW p \in Parts, NEW c \in Contents, NEW S \in SUBSET Parts, PromoteError(u, p, c, S) PROVE Flipped'
  BY <1>11 DEF PromoteError, Spill, InMemory, Fault, Typed
<1>12. ASSUME NEW t \in Tasks, NEW u \in Uploads, NEW l \in Lists, BeginComplete(t, u, l) PROVE Flipped'
  BY <1>12 DEF BeginComplete, Joins, Typed
<1>13. ASSUME NEW t \in Tasks, Admit(t) PROVE Flipped'
  BY <1>13 DEF Admit, Typed
<1>14. ASSUME NEW t \in Tasks, Complete(t) PROVE Flipped'
  <2>1. CASE UNCHANGED <<uploads, data>> /\ pc' = [pc EXCEPT ![t] = "publish"]
    BY <1>14, <2>1 DEF Complete, Typed
  <2>2. ASSUME NEW v \in Upload, NEW where \in {"handoff", "store"},
               uploads[upl[t]] # None, uploads[upl[t]].state = "Open",
               uploads' = [uploads EXCEPT ![upl[t]] = v], v.state = "Completing",
               data' = [data EXCEPT ![t] = list[t]], pc' = [pc EXCEPT ![t] = where]
        PROVE  Flipped'
    BY <1>14, <2>2 DEF Complete, Typed
  <2>3. QED
    BY <1>14, <2>1, <2>2, CompleteStep
<1>15. ASSUME NEW t \in Tasks, StoreGuard(t) PROVE Flipped'
  BY <1>15 DEF StoreGuard, SetStoring, Typed
<1>16. ASSUME NEW t \in Tasks, EngineStore(t) PROVE Flipped'
  BY <1>16 DEF EngineStore, FilesPresent, Payload, Fault, Typed
<1>17. ASSUME NEW t \in Tasks, DropStoreGuard(t) PROVE Flipped'
  BY <1>17 DEF DropStoreGuard, SetStoring, Typed
<1>18. ASSUME NEW t \in Tasks, Rollback(t) PROVE Flipped'
  BY <1>18 DEF Rollback, Typed
<1>19. ASSUME NEW t \in Tasks, FinishUpload(t) PROVE Flipped'
  BY <1>19 DEF FinishUpload, Remove, DropRelayDir, NoPart, Typed
<1>20. ASSUME NEW t \in Tasks, Publish(t) PROVE Flipped'
  BY <1>20 DEF Publish, Typed
<1>21. ASSUME NEW t \in Tasks, JoinOutcome(t) PROVE Flipped'
  BY <1>21 DEF JoinOutcome, Typed
<1>22. ASSUME NEW t \in Tasks, Panic(t) PROVE Flipped'
  BY <1>22 DEF Panic, SetStoring, Fault, Typed
<1>23. QED
  BY <1>1, <1>2, <1>3, <1>4, <1>5, <1>6, <1>7, <1>8, <1>9, <1>10, <1>11, <1>12, <1>13,
     <1>14, <1>15, <1>16, <1>17, <1>18, <1>19, <1>20, <1>21, <1>22 DEF Next, TaskStep

\* The guard is for relayed parts.
LEMMA NextHandoff == Typed /\ HandoffRelayed /\ [Next]_vars => HandoffRelayed'
<1> SUFFICES ASSUME Typed, HandoffRelayed, [Next]_vars PROVE HandoffRelayed'
  OBVIOUS
<1> USE MultipartConstants, NoneIsNoValue DEF HandoffRelayed, Goto, task, disk, bytes,
        ghost
<1>1. CASE UNCHANGED vars
  BY <1>1 DEF vars, Typed
<1>2. ASSUME Tick PROVE HandoffRelayed'
  BY <1>2 DEF Tick, Typed
<1>3. ASSUME Purge PROVE HandoffRelayed'
  BY <1>3 DEF Purge, Remove, Owe, Typed
<1>4. ASSUME CleanupExpired PROVE HandoffRelayed'
  BY <1>4 DEF CleanupExpired, Remove, Owe, ExpiredUpload, Pruned, Typed
<1>5. ASSUME SweepSnapshot PROVE HandoffRelayed'
  BY <1>5 DEF SweepSnapshot, Typed
<1>6. ASSUME SweepScan PROVE HandoffRelayed'
  BY <1>6 DEF SweepScan, Orphan, NoPart, Typed
<1>7. ASSUME NEW u \in Uploads, Create(u) PROVE HandoffRelayed'
  BY <1>7 DEF Create, NoPart, Typed
<1>8. ASSUME NEW u \in Uploads, Abort(u) PROVE HandoffRelayed'
  BY <1>8 DEF Abort, Remove, Owe, Typed
<1>9. ASSUME NEW u \in Uploads, Release(u) PROVE HandoffRelayed'
  BY <1>9 DEF Release, DropRelayDir, NoPart, Typed
<1>10. ASSUME NEW u \in Uploads, NEW p \in Parts, NEW c \in Contents, UploadPart(u, p, c) PROVE HandoffRelayed'
  BY <1>10 DEF UploadPart, Promotes, InMemory, Typed
<1>11. ASSUME NEW u \in Uploads, NEW p \in Parts, NEW c \in Contents, NEW S \in SUBSET Parts, PromoteError(u, p, c, S) PROVE HandoffRelayed'
  BY <1>11 DEF PromoteError, Spill, InMemory, Fault, Typed
<1>12. ASSUME NEW t \in Tasks, NEW u \in Uploads, NEW l \in Lists, BeginComplete(t, u, l) PROVE HandoffRelayed'
  BY <1>12 DEF BeginComplete, Joins, Typed
<1>13. ASSUME NEW t \in Tasks, Admit(t) PROVE HandoffRelayed'
  BY <1>13 DEF Admit, Typed
<1>14. ASSUME NEW t \in Tasks, Complete(t) PROVE HandoffRelayed'
  BY <1>14 DEF Complete, Valid, Readable, Typed
<1>15. ASSUME NEW t \in Tasks, StoreGuard(t) PROVE HandoffRelayed'
  BY <1>15 DEF StoreGuard, SetStoring, Typed
<1>16. ASSUME NEW t \in Tasks, EngineStore(t) PROVE HandoffRelayed'
  BY <1>16 DEF EngineStore, FilesPresent, Payload, Fault, Typed
<1>17. ASSUME NEW t \in Tasks, DropStoreGuard(t) PROVE HandoffRelayed'
  BY <1>17 DEF DropStoreGuard, SetStoring, Typed
<1>18. ASSUME NEW t \in Tasks, Rollback(t) PROVE HandoffRelayed'
  BY <1>18 DEF Rollback, Typed
<1>19. ASSUME NEW t \in Tasks, FinishUpload(t) PROVE HandoffRelayed'
  BY <1>19 DEF FinishUpload, Remove, DropRelayDir, NoPart, Typed
<1>20. ASSUME NEW t \in Tasks, Publish(t) PROVE HandoffRelayed'
  BY <1>20 DEF Publish, Typed
<1>21. ASSUME NEW t \in Tasks, JoinOutcome(t) PROVE HandoffRelayed'
  BY <1>21 DEF JoinOutcome, Typed
<1>22. ASSUME NEW t \in Tasks, Panic(t) PROVE HandoffRelayed'
  BY <1>22 DEF Panic, SetStoring, Fault, Typed
<1>23. QED
  BY <1>1, <1>2, <1>3, <1>4, <1>5, <1>6, <1>7, <1>8, <1>9, <1>10, <1>11, <1>12, <1>13,
     <1>14, <1>15, <1>16, <1>17, <1>18, <1>19, <1>20, <1>21, <1>22 DEF Next, TaskStep

\* A relayed upload has all its parts in files, in a directory the sweep knows or takes for new.
LEMMA NextRelayDirs == Typed /\ Once /\ RelayDirs /\ [Next]_vars => RelayDirs'
<1> SUFFICES ASSUME Typed, Once, RelayDirs, [Next]_vars PROVE RelayDirs'
  OBVIOUS
<1> USE MultipartConstants, NoneIsNoValue DEF Once, RelayDirs, Fresh, Goto, task, disk,
        bytes, ghost
<1>1. CASE UNCHANGED vars
  BY <1>1 DEF vars, Typed
<1>2. ASSUME Tick PROVE RelayDirs'
  BY <1>2 DEF Tick, Typed
<1>3. ASSUME Purge PROVE RelayDirs'
  BY <1>3 DEF Purge, Remove, Owe, Typed
<1>4. ASSUME CleanupExpired PROVE RelayDirs'
  BY <1>4 DEF CleanupExpired, Remove, Owe, ExpiredUpload, Pruned, Typed
<1>5. ASSUME SweepSnapshot PROVE RelayDirs'
  BY <1>5 DEF SweepSnapshot, Typed
<1>6. ASSUME SweepScan PROVE RelayDirs'
  BY <1>6 DEF SweepScan, Orphan, NoPart, Typed
<1>7. ASSUME NEW u \in Uploads, Create(u) PROVE RelayDirs'
  BY <1>7 DEF Create, NoPart, Typed
<1>8. ASSUME NEW u \in Uploads, Abort(u) PROVE RelayDirs'
  BY <1>8 DEF Abort, Remove, Owe, Typed
<1>9. ASSUME NEW u \in Uploads, Release(u) PROVE RelayDirs'
  BY <1>9 DEF Release, DropRelayDir, NoPart, Typed
<1>10. ASSUME NEW u \in Uploads, NEW p \in Parts, NEW c \in Contents, UploadPart(u, p, c) PROVE RelayDirs'
  <2>1. UNCHANGED <<now, active>>
    BY <1>10 DEF UploadPart, Typed
  <2>2. PICK v \in Upload :
           /\ uploads' = [uploads EXCEPT ![u] = v]
           /\ v.relayed => /\ \A q \in Parts : v.parts[q] = None \/ v.parts[q].at = "file"
                           /\ dirTime'[u] = now
    BY <1>10, UploadPartStep
  <2>3. \A w \in Uploads : w # u => files'[w] = files[w] /\ dirTime'[w] = dirTime[w]
    BY <1>10, UploadPartStep
  <2>4. QED
    BY <2>1, <2>2, <2>3 DEF Typed
<1>11. ASSUME NEW u \in Uploads, NEW p \in Parts, NEW c \in Contents, NEW S \in SUBSET Parts, PromoteError(u, p, c, S) PROVE RelayDirs'
  BY <1>11 DEF PromoteError, Spill, InMemory, Fault, Typed
<1>12. ASSUME NEW t \in Tasks, NEW u \in Uploads, NEW l \in Lists, BeginComplete(t, u, l) PROVE RelayDirs'
  BY <1>12 DEF BeginComplete, Joins, Typed
<1>13. ASSUME NEW t \in Tasks, Admit(t) PROVE RelayDirs'
  BY <1>13 DEF Admit, Typed
<1>14. ASSUME NEW t \in Tasks, Complete(t) PROVE RelayDirs'
  <2>1. UNCHANGED <<now, active, files, dirTime>>
    BY <1>14 DEF Complete, Typed
  <2>2. CASE uploads' = uploads
    BY <2>1, <2>2 DEF Typed
  <2>3. ASSUME NEW v \in Upload, uploads[upl[t]] # None,
               uploads' = [uploads EXCEPT ![upl[t]] = v], SameParts(v, uploads[upl[t]])
        PROVE  RelayDirs'
    BY <2>1, <2>3 DEF SameParts, Typed
  <2>4. QED
    BY <1>14, <2>2, <2>3, CompleteStep
<1>15. ASSUME NEW t \in Tasks, StoreGuard(t) PROVE RelayDirs'
  BY <1>15 DEF StoreGuard, SetStoring, Typed
<1>16. ASSUME NEW t \in Tasks, EngineStore(t) PROVE RelayDirs'
  BY <1>16 DEF EngineStore, FilesPresent, Payload, Fault, Typed
<1>17. ASSUME NEW t \in Tasks, DropStoreGuard(t) PROVE RelayDirs'
  BY <1>17 DEF DropStoreGuard, SetStoring, Typed
<1>18. ASSUME NEW t \in Tasks, Rollback(t) PROVE RelayDirs'
  BY <1>18 DEF Rollback, Typed
<1>19. ASSUME NEW t \in Tasks, FinishUpload(t) PROVE RelayDirs'
  BY <1>19 DEF FinishUpload, Remove, DropRelayDir, NoPart, Typed
<1>20. ASSUME NEW t \in Tasks, Publish(t) PROVE RelayDirs'
  BY <1>20 DEF Publish, Typed
<1>21. ASSUME NEW t \in Tasks, JoinOutcome(t) PROVE RelayDirs'
  BY <1>21 DEF JoinOutcome, Typed
<1>22. ASSUME NEW t \in Tasks, Panic(t) PROVE RelayDirs'
  BY <1>22 DEF Panic, SetStoring, Fault, Typed
<1>23. QED
  BY <1>1, <1>2, <1>3, <1>4, <1>5, <1>6, <1>7, <1>8, <1>9, <1>10, <1>11, <1>12, <1>13,
     <1>14, <1>15, <1>16, <1>17, <1>18, <1>19, <1>20, <1>21, <1>22 DEF Next, TaskStep

\* Nothing changes the relay files between their validation and the end of the store.
LEMMA NextGuarded == Typed /\ Once /\ Flipped /\ RelayDirs /\ HandoffRelayed /\ Guarded
    /\ [Next]_vars => Guarded'
<1> SUFFICES ASSUME Typed, Once, Flipped, RelayDirs, HandoffRelayed, Guarded,
    [Next]_vars PROVE Guarded'
  OBVIOUS
<1> USE MultipartConstants, NoneIsNoValue DEF Once, Flipped, Phase, RelayDirs, Fresh,
        HandoffRelayed, Guarded, Goto, task, disk, bytes, ghost
<1>1. CASE UNCHANGED vars
  BY <1>1 DEF vars, Typed
<1>2. ASSUME Tick PROVE Guarded'
  BY <1>2 DEF Tick, Typed
<1>3. ASSUME Purge PROVE Guarded'
  <2>1. UNCHANGED <<now, pc, upl, list, mode, data, files>>
    BY <1>3 DEF Purge, Typed
  <2>2. ASSUME NEW t \in Tasks, pc[t] \in {"handoff", "store"}, mode[t] = "relayed" PROVE FALSE
    <3>1. uploads[upl[t]] # None /\ uploads[upl[t]].state = "Completing" /\ upl[t] \in Uploads
      BY <2>2 DEF Typed
    <3>2. QED
      BY <1>3, <3>1 DEF Purge, Typed
  <2>3. QED
    BY <2>1, <2>2 DEF Typed
<1>4. ASSUME CleanupExpired PROVE Guarded'
  BY <1>4 DEF CleanupExpired, Remove, Owe, ExpiredUpload, Pruned, Typed
<1>5. ASSUME SweepSnapshot PROVE Guarded'
  BY <1>5 DEF SweepSnapshot, Typed
<1>6. ASSUME SweepScan PROVE Guarded'
  BY <1>6 DEF SweepScan, Orphan, NoPart, Typed
<1>7. ASSUME NEW u \in Uploads, Create(u) PROVE Guarded'
  BY <1>7 DEF Create, NoPart, Typed
<1>8. ASSUME NEW u \in Uploads, Abort(u) PROVE Guarded'
  BY <1>8 DEF Abort, Remove, Owe, Typed
<1>9. ASSUME NEW u \in Uploads, Release(u) PROVE Guarded'
  BY <1>9 DEF Release, DropRelayDir, NoPart, Typed
<1>10. ASSUME NEW u \in Uploads, NEW p \in Parts, NEW c \in Contents, UploadPart(u, p, c) PROVE Guarded'
  <2>1. UNCHANGED <<now, pc, upl, list, mode, data>>
    BY <1>10 DEF UploadPart, Typed
  <2>2. \A v \in Tasks : pc[v] \in {"handoff", "store"} /\ mode[v] = "relayed" => upl[v] # u
    BY <1>10, UploadPartStep
  <2>3. /\ \E v \in Upload : uploads' = [uploads EXCEPT ![u] = v]
        /\ \A w \in Uploads : w # u => files'[w] = files[w] /\ dirTime'[w] = dirTime[w]
    BY <1>10, UploadPartStep
  <2>4. QED
    BY <2>1, <2>2, <2>3 DEF Typed
<1>11. ASSUME NEW u \in Uploads, NEW p \in Parts, NEW c \in Contents, NEW S \in SUBSET Parts, PromoteError(u, p, c, S) PROVE Guarded'
  BY <1>11 DEF PromoteError, Spill, InMemory, Fault, Typed
<1>12. ASSUME NEW t \in Tasks, NEW u \in Uploads, NEW l \in Lists, BeginComplete(t, u, l) PROVE Guarded'
  BY <1>12 DEF BeginComplete, Joins, Typed
<1>13. ASSUME NEW t \in Tasks, Admit(t) PROVE Guarded'
  <2>1. /\ pc[t] = "owner" /\ \E s \in {"run", "done"} : pc' = [pc EXCEPT ![t] = s]
        /\ \A v \in Tasks : v # t => mode'[v] = mode[v]
        /\ UNCHANGED <<now, uploads, files, upl, list, data, owner, object, made, aborted, left>>
    BY <1>13 DEF Admit, Typed
  <2>2. QED
    BY <2>1 DEF Typed
<1>14. ASSUME NEW t \in Tasks, Complete(t) PROVE Guarded'
  <2>1. UNCHANGED <<now, active, files, dirTime, upl, list>> /\ pc[t] = "run"
    BY <1>14 DEF Complete, Typed
  <2>2. CASE UNCHANGED <<uploads, data, mode>> /\ pc' = [pc EXCEPT ![t] = "publish"]
    BY <2>1, <2>2 DEF Typed
  <2>3. ASSUME NEW v \in Upload, uploads[upl[t]] \in Upload, uploads[upl[t]] # None,
               uploads[upl[t]].state = "Open", Valid(upl[t], list[t]),
               uploads' = [uploads EXCEPT ![upl[t]] = v],
               v.last = now, SameParts(v, uploads[upl[t]]),
               data' = [data EXCEPT ![t] = list[t]],
               \/ /\ uploads[upl[t]].relayed /\ mode' = [mode EXCEPT ![t] = "relayed"]
                  /\ pc' = [pc EXCEPT ![t] = "handoff"]
               \/ mode' = mode /\ pc' = [pc EXCEPT ![t] = "store"]
        PROVE  Guarded'
    <3>1. ASSUME NEW s \in Tasks, s # t, pc'[s] \in {"handoff", "store"}, mode'[s] = "relayed"
          PROVE  /\ uploads'[upl'[s]] # None
                 /\ uploads'[upl'[s]].relayed
                 /\ pc'[s] = "handoff" => uploads'[upl'[s]].last = now'
                 /\ pc'[s] = "store" => uploads'[upl'[s]].storing
                 /\ \A p \in DOMAIN data'[s] : files'[upl'[s]][p] = data'[s][p]
      <4>1. pc[s] \in {"handoff", "store"} /\ mode[s] = "relayed" /\ upl[s] # upl[t]
        BY <2>1, <2>3, <3>1 DEF Typed
      <4>2. QED
        BY <2>1, <2>3, <3>1, <4>1 DEF Typed
    <3>2. ASSUME pc'[t] \in {"handoff", "store"}, mode'[t] = "relayed"
          PROVE  /\ uploads'[upl'[t]] # None
                 /\ uploads'[upl'[t]].relayed
                 /\ pc'[t] = "handoff" => uploads'[upl'[t]].last = now'
                 /\ pc'[t] = "store" => uploads'[upl'[t]].storing
                 /\ \A p \in DOMAIN data'[t] : files'[upl'[t]][p] = data'[t][p]
      <4>1. uploads[upl[t]].relayed /\ pc'[t] = "handoff"
        BY <2>1, <2>3, <3>2 DEF Typed
      <4>2. ASSUME NEW p \in DOMAIN list[t] PROVE files[upl[t]][p] = list[t][p]
        <5>1. p \in Parts
          BY <4>2 DEF Lists, Typed
        <5>2. /\ uploads[upl[t]].parts[p] # None /\ uploads[upl[t]].parts[p].content = list[t][p]
              /\ \/ uploads[upl[t]].parts[p].at = "mem"
                 \/ files[upl[t]][p] = uploads[upl[t]].parts[p].content
          BY <2>3, <4>2 DEF Valid, Readable, Typed
        <5>3. uploads[upl[t]].parts[p].at = "file"
          BY <2>3, <4>1, <5>1, <5>2 DEF Typed
        <5>4. QED
          BY <5>2, <5>3 DEF Typed
      <4>3. data'[t] = list[t] /\ upl' = upl /\ files' = files /\ uploads'[upl[t]] = v
        BY <2>1, <2>3 DEF Typed
      <4>4. v # None /\ v.relayed /\ v.last = now'
        BY <2>1, <2>3, <4>1 DEF SameParts, Typed
      <4>5. QED
        BY <4>1, <4>2, <4>3, <4>4 DEF Typed
    <3>3. QED
      BY <3>1, <3>2 DEF Typed
  <2>4. QED
    BY <1>14, <2>2, <2>3, CompleteStep
<1>15. ASSUME NEW t \in Tasks, StoreGuard(t) PROVE Guarded'
  <2>1. /\ UNCHANGED <<now, active, files, dirTime, upl, list, data, mode>>
        /\ pc[t] = "handoff" /\ pc' = [pc EXCEPT ![t] = "store"] /\ SetStoring(upl[t], TRUE)
    BY <1>15 DEF StoreGuard, Typed
  <2>2. uploads[upl[t]] # None /\ \A s \in Tasks : s # t /\ pc[s] \in Phase => upl[s] # upl[t]
    BY <2>1 DEF Typed
  <2>3. upl[t] \in Uploads
    BY DEF Typed
  <2>4. PICK v \in Upload : /\ uploads' = [uploads EXCEPT ![upl[t]] = v]
                            /\ v.storing = TRUE /\ SameParts(v, uploads[upl[t]])
    BY <2>1, <2>2, <2>3, SetStoringStep
  <2>5. QED
    BY <2>1, <2>2, <2>4 DEF SameParts, Typed
<1>16. ASSUME NEW t \in Tasks, EngineStore(t) PROVE Guarded'
  BY <1>16 DEF EngineStore, FilesPresent, Payload, Fault, Typed
<1>17. ASSUME NEW t \in Tasks, DropStoreGuard(t) PROVE Guarded'
  BY <1>17 DEF DropStoreGuard, SetStoring, Typed
<1>18. ASSUME NEW t \in Tasks, Rollback(t) PROVE Guarded'
  BY <1>18 DEF Rollback, Typed
<1>19. ASSUME NEW t \in Tasks, FinishUpload(t) PROVE Guarded'
  BY <1>19 DEF FinishUpload, Remove, DropRelayDir, NoPart, Typed
<1>20. ASSUME NEW t \in Tasks, Publish(t) PROVE Guarded'
  BY <1>20 DEF Publish, Typed
<1>21. ASSUME NEW t \in Tasks, JoinOutcome(t) PROVE Guarded'
  BY <1>21 DEF JoinOutcome, Typed
<1>22. ASSUME NEW t \in Tasks, Panic(t) PROVE Guarded'
  BY <1>22 DEF Panic, SetStoring, Fault, Typed
<1>23. QED
  BY <1>1, <1>2, <1>3, <1>4, <1>5, <1>6, <1>7, <1>8, <1>9, <1>10, <1>11, <1>12, <1>13,
     <1>14, <1>15, <1>16, <1>17, <1>18, <1>19, <1>20, <1>21, <1>22 DEF Next, TaskStep

\* The object is stored once, by the completing task, as its client listed it.
LEMMA NextStored == Typed /\ Once /\ Flipped /\ HandoffRelayed /\ Guarded /\ Stored /\
    [Next]_vars => Stored'
<1> SUFFICES ASSUME Typed, Once, Flipped, HandoffRelayed, Guarded, Stored, [Next]_vars
    PROVE Stored'
  OBVIOUS
<1> USE MultipartConstants, NoneIsNoValue DEF Once, Flipped, Phase, Stored, Goto, task,
        disk, bytes, ghost
<1>1. CASE UNCHANGED vars
  BY <1>1 DEF vars, Typed
<1>2. ASSUME Tick PROVE Stored'
  BY <1>2 DEF Tick, Typed
<1>3. ASSUME Purge PROVE Stored'
  BY <1>3 DEF Purge, Remove, Owe, Typed
<1>4. ASSUME CleanupExpired PROVE Stored'
  BY <1>4 DEF CleanupExpired, Remove, Owe, ExpiredUpload, Pruned, Typed
<1>5. ASSUME SweepSnapshot PROVE Stored'
  BY <1>5 DEF SweepSnapshot, Typed
<1>6. ASSUME SweepScan PROVE Stored'
  BY <1>6 DEF SweepScan, Orphan, NoPart, Typed
<1>7. ASSUME NEW u \in Uploads, Create(u) PROVE Stored'
  BY <1>7 DEF Create, NoPart, Typed
<1>8. ASSUME NEW u \in Uploads, Abort(u) PROVE Stored'
  BY <1>8 DEF Abort, Remove, Owe, Typed
<1>9. ASSUME NEW u \in Uploads, Release(u) PROVE Stored'
  BY <1>9 DEF Release, DropRelayDir, NoPart, Typed
<1>10. ASSUME NEW u \in Uploads, NEW p \in Parts, NEW c \in Contents, UploadPart(u, p, c) PROVE Stored'
  <2>1. UNCHANGED <<pc, upl, list, object, made, aborted, left>>
    BY <1>10 DEF UploadPart, Typed
  <2>2. uploads[u] # None /\ \E v \in Upload : uploads' = [uploads EXCEPT ![u] = v]
    BY <1>10, UploadPartStep
  <2>3. \A w \in Uploads : uploads'[w] # None => uploads[w] # None
    BY <2>2 DEF Typed
  <2>4. QED
    BY <2>1, <2>3 DEF Typed
<1>11. ASSUME NEW u \in Uploads, NEW p \in Parts, NEW c \in Contents, NEW S \in SUBSET Parts, PromoteError(u, p, c, S) PROVE Stored'
  <2>1. UNCHANGED <<pc, upl, list, object, made, aborted, left>>
    BY <1>11 DEF PromoteError, Typed
  <2>2. uploads[u] # None /\ \E v \in Upload : uploads' = [uploads EXCEPT ![u] = v]
    BY <1>11, PromoteErrorStep
  <2>3. \A w \in Uploads : uploads'[w] # None => uploads[w] # None
    BY <2>2 DEF Typed
  <2>4. QED
    BY <2>1, <2>3 DEF Typed
<1>12. ASSUME NEW t \in Tasks, NEW u \in Uploads, NEW l \in Lists, BeginComplete(t, u, l) PROVE Stored'
  <2>1. /\ pc[t] = "idle" /\ \E s \in {"owner", "join", "done"} : pc' = [pc EXCEPT ![t] = s]
        /\ \A v \in Tasks : v # t => upl'[v] = upl[v] /\ list'[v] = list[v]
        /\ UNCHANGED <<uploads, object, made, aborted, left>>
    BY <1>12 DEF BeginComplete, Typed
  <2>2. /\ \A v \in Tasks : v # t => pc'[v] = pc[v] /\ upl'[v] = upl[v] /\ list'[v] = list[v]
        /\ pc'[t] \notin Phase /\ pc[t] \notin Phase
    BY <2>1 DEF Typed
  <2>3. ASSUME NEW w \in Uploads, object[w] # left[w], uploads[w] # None
        PROVE  \E v \in Tasks : pc'[v] \in {"stored", "finish"} /\ upl'[v] = w
    <3>1. PICK v \in Tasks : pc[v] \in {"stored", "finish"} /\ upl[v] = w
      BY <2>3 DEF Typed
    <3>2. QED
      BY <2>2, <3>1 DEF Typed
  <2>4. \A v \in Tasks :
           /\ pc'[v] \in {"stored", "finish"} => object'[upl'[v]] = list'[v]
           /\ pc'[v] \in {"handoff", "store", "broken", "rollback"}
                 => object'[upl'[v]] = left'[upl'[v]]
    BY <2>1, <2>2 DEF Typed
  <2>5. QED
    BY <2>1, <2>3, <2>4 DEF Typed
<1>13. ASSUME NEW t \in Tasks, Admit(t) PROVE Stored'
  <2>1. /\ pc[t] = "owner" /\ \E s \in {"run", "done"} : pc' = [pc EXCEPT ![t] = s]
        /\ \A v \in Tasks : v # t => mode'[v] = mode[v]
        /\ UNCHANGED <<now, uploads, files, upl, list, data, owner, object, made, aborted, left>>
    BY <1>13 DEF Admit, Typed
  <2>2. QED
    BY <2>1 DEF Typed
<1>14. ASSUME NEW t \in Tasks, Complete(t) PROVE Stored'
  <2>1. UNCHANGED <<upl, list, object, made, aborted, left>> /\ pc[t] = "run"
    BY <1>14 DEF Complete, Typed
  <2>2. CASE UNCHANGED <<uploads>> /\ pc' = [pc EXCEPT ![t] = "publish"]
    BY <2>1, <2>2 DEF Typed
  <2>3. ASSUME NEW v \in Upload, uploads[upl[t]] # None, uploads[upl[t]].state = "Open",
               uploads' = [uploads EXCEPT ![upl[t]] = v],
               NEW where \in {"handoff", "store"}, pc' = [pc EXCEPT ![t] = where]
        PROVE  Stored'
    <3>1. object[upl[t]] = left[upl[t]]
      <4>1. ASSUME NEW s \in Tasks, pc[s] \in {"stored", "finish"}, upl[s] = upl[t] PROVE FALSE
        BY <2>3, <4>1 DEF Typed
      <4>2. QED
        BY <2>3, <4>1 DEF Typed
    <3>2. QED
      BY <2>1, <2>3, <3>1 DEF Typed
  <2>4. QED
    BY <1>14, <2>2, <2>3, CompleteStep
<1>15. ASSUME NEW t \in Tasks, StoreGuard(t) PROVE Stored'
  BY <1>15 DEF StoreGuard, SetStoring, Typed
<1>16. ASSUME NEW t \in Tasks, EngineStore(t) PROVE Stored'
  <2>1. /\ UNCHANGED <<uploads, upl, list, made, aborted>> /\ pc[t] = "store"
        /\ upl[t] \in made \ aborted /\ upl[t] \in Uploads
        /\ object[upl[t]] = left[upl[t]]
        /\ \A s \in Tasks : s # t /\ pc[s] \in Phase => upl[s] # upl[t]
    BY <1>16 DEF EngineStore, Typed
  <2>2. ASSUME MayLand(t), NEW where \in {"broken", "rollback"}, pc' = [pc EXCEPT ![t] = where]
        PROVE  Stored'
    <3>1. object'[upl[t]] = left'[upl[t]]
      BY <2>1, <2>2 DEF MayLand, Typed
    <3>2. \A u \in Uploads : u # upl[t] => object'[u] = object[u] /\ left'[u] = left[u]
      BY <2>1, <2>2 DEF MayLand, Typed
    <3>3. \A v \in Tasks : v # t => pc'[v] = pc[v]
      BY <2>2 DEF Typed
    <3>4. pc'[t] = where
      BY <2>2 DEF Typed
    <3>5. ASSUME NEW v \in Tasks
          PROVE  /\ pc'[v] \in {"stored", "finish"} => object'[upl[v]] = list[v]
                 /\ pc'[v] \in {"handoff", "store", "broken", "rollback"}
                       => object'[upl[v]] = left'[upl[v]]
      BY <2>1, <3>1, <3>2, <3>3, <3>4 DEF Typed
    <3>6. ASSUME NEW u \in Uploads, object'[u] # left'[u]
          PROVE  /\ u \in made \ aborted
                 /\ uploads[u] # None =>
                      \E v \in Tasks : pc'[v] \in {"stored", "finish"} /\ upl[v] = u
      <4>1. u # upl[t] /\ object[u] # left[u]
        BY <3>1, <3>2, <3>6
      <4>2. QED
        BY <2>1, <3>3, <4>1
    <3>7. QED
      BY <2>1, <3>5, <3>6
  <2>3. ASSUME object' = [object EXCEPT ![upl[t]] = Payload(t)], left' = left,
               NEW where \in {"stored", "finish"}, pc' = [pc EXCEPT ![t] = where]
        PROVE  Stored'
    <3>1. Payload(t) = list[t]
      BY <2>1, StorePutsList
    <3>2. /\ object'[upl[t]] = list[t] /\ pc'[t] = where
          /\ \A u \in Uploads : u # upl[t] => object'[u] = object[u]
          /\ \A v \in Tasks : v # t => pc'[v] = pc[v]
      BY <2>1, <2>3, <3>1 DEF Typed
    <3>3. ASSUME NEW v \in Tasks
          PROVE  /\ pc'[v] \in {"stored", "finish"} => object'[upl[v]] = list[v]
                 /\ pc'[v] \in {"handoff", "store", "broken", "rollback"}
                       => object'[upl[v]] = left'[upl[v]]
      BY <2>1, <2>3, <3>2 DEF Typed
    <3>4. ASSUME NEW u \in Uploads, object'[u] # left'[u]
          PROVE  /\ u \in made \ aborted
                 /\ uploads[u] # None =>
                      \E v \in Tasks : pc'[v] \in {"stored", "finish"} /\ upl[v] = u
      BY <2>1, <2>3, <3>2, <3>4
    <3>5. QED
      BY <2>1, <3>3, <3>4
  <2>4. QED
    BY <1>16, <2>2, <2>3 DEF EngineStore, Typed
<1>17. ASSUME NEW t \in Tasks, DropStoreGuard(t) PROVE Stored'
  BY <1>17 DEF DropStoreGuard, SetStoring, Typed
<1>18. ASSUME NEW t \in Tasks, Rollback(t) PROVE Stored'
  BY <1>18 DEF Rollback, Typed
<1>19. ASSUME NEW t \in Tasks, FinishUpload(t) PROVE Stored'
  BY <1>19 DEF FinishUpload, Remove, DropRelayDir, NoPart, Typed
<1>20. ASSUME NEW t \in Tasks, Publish(t) PROVE Stored'
  <2>1. /\ pc[t] = "publish" /\ pc' = [pc EXCEPT ![t] = "done"]
        /\ UNCHANGED <<uploads, upl, list, object, made, aborted, left>>
    BY <1>20 DEF Publish, Typed
  <2>2. QED
    BY <2>1 DEF Typed
<1>21. ASSUME NEW t \in Tasks, JoinOutcome(t) PROVE Stored'
  BY <1>21 DEF JoinOutcome, Typed
<1>22. ASSUME NEW t \in Tasks, Panic(t) PROVE Stored'
  <2>1. /\ UNCHANGED <<upl, list, made, aborted>> /\ pc[t] = "store"
        /\ pc' = [pc EXCEPT ![t] = "done"] /\ upl[t] \in Uploads
        /\ object[upl[t]] = left[upl[t]]
        /\ \A s \in Tasks : s # t /\ pc[s] \in Phase => upl[s] # upl[t]
    BY <1>22 DEF Panic, Typed
  <2>2. /\ object'[upl[t]] = left'[upl[t]]
        /\ \A u \in Uploads : u # upl[t] => object'[u] = object[u] /\ left'[u] = left[u]
    BY <1>22, <2>1 DEF Panic, MayLand, Typed
  <2>3. \A u \in Uploads : uploads'[u] # None => uploads[u] # None
    BY <1>22 DEF Panic, SetStoring, Typed
  <2>4. pc'[t] = "done" /\ \A v \in Tasks : v # t => pc'[v] = pc[v]
    BY <2>1 DEF Typed
  <2>5. ASSUME NEW v \in Tasks
        PROVE  /\ pc'[v] \in {"stored", "finish"} => object'[upl[v]] = list[v]
               /\ pc'[v] \in {"handoff", "store", "broken", "rollback"}
                     => object'[upl[v]] = left'[upl[v]]
    BY <2>1, <2>2, <2>4 DEF Typed
  <2>6. ASSUME NEW u \in Uploads, object'[u] # left'[u]
        PROVE  /\ u \in made \ aborted
               /\ uploads'[u] # None =>
                    \E v \in Tasks : pc'[v] \in {"stored", "finish"} /\ upl[v] = u
    <3>1. u # upl[t] /\ object[u] # left[u]
      BY <2>2, <2>6
    <3>2. QED
      BY <2>1, <2>3, <2>4, <3>1
  <2>7. QED
    BY <2>1, <2>5, <2>6
<1>23. QED
  BY <1>1, <1>2, <1>3, <1>4, <1>5, <1>6, <1>7, <1>8, <1>9, <1>10, <1>11, <1>12, <1>13,
     <1>14, <1>15, <1>16, <1>17, <1>18, <1>19, <1>20, <1>21, <1>22 DEF Next, TaskStep

\* An upload that is gone and that no task is storing is not stored again.
LEMMA ClosedStays ==
    ASSUME Typed, Once, [Next]_vars, NEW w \in Uploads, Closed(w)
    PROVE  Closed(w)'
<1> USE MultipartConstants, NoneIsNoValue DEF Once, Closed, Phase, Goto, task, disk, bytes, ghost
<1>1. CASE UNCHANGED vars
  BY <1>1 DEF vars, Typed
<1>2. ASSUME Tick PROVE Closed(w)'
  BY <1>2 DEF Tick, Typed
<1>3. ASSUME Purge PROVE Closed(w)'
  BY <1>3 DEF Purge, Remove, Owe, Typed
<1>4. ASSUME CleanupExpired PROVE Closed(w)'
  BY <1>4 DEF CleanupExpired, Remove, Owe, ExpiredUpload, Pruned, Typed
<1>5. ASSUME SweepSnapshot PROVE Closed(w)'
  BY <1>5 DEF SweepSnapshot, Typed
<1>6. ASSUME SweepScan PROVE Closed(w)'
  BY <1>6 DEF SweepScan, Typed
<1>7. ASSUME NEW u \in Uploads, Create(u) PROVE Closed(w)'
  BY <1>7 DEF Create, Typed
<1>8. ASSUME NEW u \in Uploads, Abort(u) PROVE Closed(w)'
  BY <1>8 DEF Abort, Remove, Owe, Typed
<1>9. ASSUME NEW u \in Uploads, Release(u) PROVE Closed(w)'
  BY <1>9 DEF Release, DropRelayDir, Typed
<1>10. ASSUME NEW u \in Uploads, NEW p \in Parts, NEW c \in Contents, UploadPart(u, p, c) PROVE Closed(w)'
  BY <1>10 DEF UploadPart, Typed
<1>11. ASSUME NEW u \in Uploads, NEW p \in Parts, NEW c \in Contents, NEW S \in SUBSET Parts, PromoteError(u, p, c, S) PROVE Closed(w)'
  BY <1>11 DEF PromoteError, Spill, Typed
<1>12. ASSUME NEW t \in Tasks, NEW u \in Uploads, NEW l \in Lists, BeginComplete(t, u, l) PROVE Closed(w)'
  BY <1>12 DEF BeginComplete, Joins, Typed
<1>13. ASSUME NEW t \in Tasks, Admit(t) PROVE Closed(w)'
  BY <1>13 DEF Admit, Typed
<1>14. ASSUME NEW t \in Tasks, Complete(t) PROVE Closed(w)'
  BY <1>14 DEF Complete, Typed
<1>15. ASSUME NEW t \in Tasks, StoreGuard(t) PROVE Closed(w)'
  BY <1>15 DEF StoreGuard, SetStoring, Typed
<1>16. ASSUME NEW t \in Tasks, EngineStore(t) PROVE Closed(w)'
  BY <1>16 DEF EngineStore, Typed
<1>17. ASSUME NEW t \in Tasks, DropStoreGuard(t) PROVE Closed(w)'
  BY <1>17 DEF DropStoreGuard, SetStoring, Typed
<1>18. ASSUME NEW t \in Tasks, Rollback(t) PROVE Closed(w)'
  BY <1>18 DEF Rollback, Typed
<1>19. ASSUME NEW t \in Tasks, FinishUpload(t) PROVE Closed(w)'
  BY <1>19 DEF FinishUpload, Remove, DropRelayDir, Typed
<1>20. ASSUME NEW t \in Tasks, Publish(t) PROVE Closed(w)'
  BY <1>20 DEF Publish, Typed
<1>21. ASSUME NEW t \in Tasks, JoinOutcome(t) PROVE Closed(w)'
  BY <1>21 DEF JoinOutcome, Typed
<1>22. ASSUME NEW t \in Tasks, Panic(t) PROVE Closed(w)'
  BY <1>22 DEF Panic, SetStoring, Typed
<1>23. QED
  BY <1>1, <1>2, <1>3, <1>4, <1>5, <1>6, <1>7, <1>8, <1>9, <1>10, <1>11, <1>12, <1>13,
     <1>14, <1>15, <1>16, <1>17, <1>18, <1>19, <1>20, <1>21, <1>22 DEF Next, TaskStep

\* An upload some client was told to be complete has left the map for good.
LEMMA NextSettled == Typed /\ Once /\ Flipped /\ Answers /\ Settled /\ [Next]_vars => Settled'
<1> SUFFICES ASSUME Typed, Once, Flipped, Answers, Settled, [Next]_vars PROVE Settled'
  OBVIOUS
<1>0. \A u \in Uploads : Closed(u) => Closed(u)'
  BY ClosedStays
<1> USE <1>0, MultipartConstants, NoneIsNoValue DEF Settled, Slot, Goto, task, disk, bytes, ghost
<1>1. CASE UNCHANGED vars
  BY <1>1 DEF vars, Typed
<1>2. ASSUME Tick PROVE Settled'
  BY <1>2 DEF Tick, Typed
<1>3. ASSUME Purge PROVE Settled'
  BY <1>3 DEF Purge, Remove, Owe, Typed
<1>4. ASSUME CleanupExpired PROVE Settled'
  BY <1>4 DEF CleanupExpired, Remove, Owe, ExpiredUpload, Pruned, Typed
<1>5. ASSUME SweepSnapshot PROVE Settled'
  BY <1>5 DEF SweepSnapshot, Typed
<1>6. ASSUME SweepScan PROVE Settled'
  BY <1>6 DEF SweepScan, Typed
<1>7. ASSUME NEW u \in Uploads, Create(u) PROVE Settled'
  BY <1>7 DEF Create, Typed
<1>8. ASSUME NEW u \in Uploads, Abort(u) PROVE Settled'
  BY <1>8 DEF Abort, Remove, Owe, Typed
<1>9. ASSUME NEW u \in Uploads, Release(u) PROVE Settled'
  BY <1>9 DEF Release, DropRelayDir, Typed
<1>10. ASSUME NEW u \in Uploads, NEW p \in Parts, NEW c \in Contents, UploadPart(u, p, c) PROVE Settled'
  BY <1>10 DEF UploadPart, Typed
<1>11. ASSUME NEW u \in Uploads, NEW p \in Parts, NEW c \in Contents, NEW S \in SUBSET Parts, PromoteError(u, p, c, S) PROVE Settled'
  BY <1>11 DEF PromoteError, Spill, Typed
<1>12. ASSUME NEW t \in Tasks, NEW u \in Uploads, NEW l \in Lists, BeginComplete(t, u, l) PROVE Settled'
  <2>1. /\ pc[t] = "idle" /\ u \in Uploads
        /\ upl' = [upl EXCEPT ![t] = u]
        /\ \E s \in {"owner", "join", "done"} : pc' = [pc EXCEPT ![t] = s]
        /\ \A v \in Tasks : v # t => outcome'[v] = outcome[v]
    BY <1>12 DEF BeginComplete, Typed
  <2>2. ASSUME NEW v \in Tasks, v # t, pc'[v] \in {"publish", "done"}, outcome'[v] = "ok"
        PROVE  Closed(upl[v])'
    <3>1. pc[v] = pc'[v] /\ outcome[v] = "ok" /\ upl'[v] = upl[v] /\ upl[v] \in Uploads
      BY <2>1, <2>2 DEF Typed
    <3>2. Closed(upl[v])
      BY <2>2, <3>1
    <3>3. QED
      BY <3>1, <3>2 DEF Closed
  <2>3. ASSUME pc'[t] \in {"publish", "done"}, outcome'[t] = "ok"
        PROVE  Closed(upl[t])'
    <3>1. upl'[t] = u /\ slot[u] # None /\ slot[u].kind = "Done"
      BY <1>12, <2>1, <2>3 DEF BeginComplete, Typed
    <3>2. Closed(u)'
      BY <2>1, <3>1
    <3>3. QED
      BY <3>1, <3>2 DEF Closed
  <2>4. \A w \in Uploads : slot'[w] # None /\ slot'[w].kind = "Done" => slot'[w] = slot[w]
    BY <1>12 DEF BeginComplete, Typed
  <2>5. QED
    BY <2>2, <2>3, <2>4
<1>13. ASSUME NEW t \in Tasks, Admit(t) PROVE Settled'
  BY <1>13 DEF Admit, Typed
<1>14. ASSUME NEW t \in Tasks, Complete(t) PROVE Settled'
  BY <1>14 DEF Complete, Typed
<1>15. ASSUME NEW t \in Tasks, StoreGuard(t) PROVE Settled'
  BY <1>15 DEF StoreGuard, SetStoring, Typed
<1>16. ASSUME NEW t \in Tasks, EngineStore(t) PROVE Settled'
  BY <1>16 DEF EngineStore, Typed
<1>17. ASSUME NEW t \in Tasks, DropStoreGuard(t) PROVE Settled'
  BY <1>17 DEF DropStoreGuard, SetStoring, Typed
<1>18. ASSUME NEW t \in Tasks, Rollback(t) PROVE Settled'
  BY <1>18 DEF Rollback, Typed
<1>19. ASSUME NEW t \in Tasks, FinishUpload(t) PROVE Settled'
  <2>1. /\ pc[t] = "finish" /\ pc' = [pc EXCEPT ![t] = "publish"]
        /\ outcome' = [outcome EXCEPT ![t] = "ok"]
        /\ UNCHANGED <<made, upl, slot>>
        /\ uploads'[upl[t]] = None
    BY <1>19 DEF FinishUpload, Remove, Typed
  <2>2. Closed(upl[t])'
    BY <2>1 DEF Closed, Flipped, Phase, Typed
  <2>3. QED
    BY <2>1, <2>2 DEF Typed
<1>20. ASSUME NEW t \in Tasks, Publish(t) PROVE Settled'
  BY <1>20 DEF Publish, Typed
<1>21. ASSUME NEW t \in Tasks, JoinOutcome(t) PROVE Settled'
  <2>1. /\ pc[t] = "join" /\ pc' = [pc EXCEPT ![t] = "done"] /\ pc[owner[t]] = "done"
        /\ outcome' = [outcome EXCEPT ![t] = outcome[owner[t]]]
        /\ UNCHANGED <<upl, slot>> /\ upl[owner[t]] = upl[t] /\ owner[t] \in Tasks
    BY <1>21 DEF JoinOutcome, Answers, Typed
  <2>2. outcome[owner[t]] = "ok" => Closed(upl[t])'
    BY <2>1 DEF Typed
  <2>3. QED
    BY <2>1, <2>2 DEF Typed
<1>22. ASSUME NEW t \in Tasks, Panic(t) PROVE Settled'
  BY <1>22 DEF Panic, SetStoring, Typed
<1>23. QED
  BY <1>1, <1>2, <1>3, <1>4, <1>5, <1>6, <1>7, <1>8, <1>9, <1>10, <1>11, <1>12, <1>13,
     <1>14, <1>15, <1>16, <1>17, <1>18, <1>19, <1>20, <1>21, <1>22 DEF Next, TaskStep

\* An outcome is passed on only to requests for the same upload and list.
LEMMA NextAnswers == Typed /\ Flipped /\ Stored /\ Answers /\ Settled /\ [Next]_vars => Answers'
<1> SUFFICES ASSUME Typed, Flipped, Stored, Answers, Settled, [Next]_vars PROVE Answers'
  OBVIOUS
<1> USE MultipartConstants, NoneIsNoValue DEF Answers, Slot, Goto, task, disk, bytes, ghost
<1>1. CASE UNCHANGED vars
  BY <1>1 DEF vars, Typed
<1>2. ASSUME Tick PROVE Answers'
  BY <1>2 DEF Tick, Typed
<1>3. ASSUME Purge PROVE Answers'
  BY <1>3 DEF Purge, Remove, Owe, Typed
<1>4. ASSUME CleanupExpired PROVE Answers'
  BY <1>4 DEF CleanupExpired, Remove, Owe, ExpiredUpload, Pruned, Typed
<1>5. ASSUME SweepSnapshot PROVE Answers'
  BY <1>5 DEF SweepSnapshot, Typed
<1>6. ASSUME SweepScan PROVE Answers'
  BY <1>6 DEF SweepScan, Orphan, NoPart, Typed
<1>7. ASSUME NEW u \in Uploads, Create(u) PROVE Answers'
  BY <1>7 DEF Create, NoPart, Typed
<1>8. ASSUME NEW u \in Uploads, Abort(u) PROVE Answers'
  BY <1>8 DEF Abort, Remove, Owe, Typed
<1>9. ASSUME NEW u \in Uploads, Release(u) PROVE Answers'
  BY <1>9 DEF Release, DropRelayDir, NoPart, Typed
<1>10. ASSUME NEW u \in Uploads, NEW p \in Parts, NEW c \in Contents, UploadPart(u, p, c) PROVE Answers'
  BY <1>10 DEF UploadPart, Promotes, InMemory, Typed
<1>11. ASSUME NEW u \in Uploads, NEW p \in Parts, NEW c \in Contents, NEW S \in SUBSET Parts, PromoteError(u, p, c, S) PROVE Answers'
  BY <1>11 DEF PromoteError, Spill, InMemory, Fault, Typed
<1>12. ASSUME NEW t \in Tasks, NEW u \in Uploads, NEW l \in Lists, BeginComplete(t, u, l) PROVE Answers'
  BY <1>12 DEF BeginComplete, Joins, Typed
<1>13. ASSUME NEW t \in Tasks, Admit(t) PROVE Answers'
  <2>1. /\ pc[t] = "owner" /\ \E s \in {"run", "done"} : pc' = [pc EXCEPT ![t] = s]
        /\ \A v \in Tasks : v # t => mode'[v] = mode[v]
        /\ UNCHANGED <<now, uploads, files, upl, list, data, owner, object, made, aborted, left>>
    BY <1>13 DEF Admit, Typed
  <2>2. CASE outcome' = outcome /\ slot' = slot /\ pc' = [pc EXCEPT ![t] = "run"]
    BY <2>1, <2>2 DEF Typed
  <2>3. CASE /\ outcome' = [outcome EXCEPT ![t] = "err"]
             /\ slot' = [slot EXCEPT ![upl[t]] = None]
             /\ pc' = [pc EXCEPT ![t] = "done"]
    BY <2>1, <2>3 DEF Typed
  <2>4. QED
    BY <1>13, <2>2, <2>3 DEF Admit, Typed
<1>14. ASSUME NEW t \in Tasks, Complete(t) PROVE Answers'
  BY <1>14 DEF Complete, Valid, Readable, Typed
<1>15. ASSUME NEW t \in Tasks, StoreGuard(t) PROVE Answers'
  BY <1>15 DEF StoreGuard, SetStoring, Typed
<1>16. ASSUME NEW t \in Tasks, EngineStore(t) PROVE Answers'
  <2>1. /\ UNCHANGED <<upl, list, outcome, owner, slot>> /\ pc[t] = "store"
        /\ \E s \in {"stored", "finish", "broken", "rollback"} : pc' = [pc EXCEPT ![t] = s]
        /\ \A u \in Uploads : u # upl[t] => object'[u] = object[u]
    BY <1>16 DEF EngineStore, MayLand, Typed
  <2>2. \A u \in Uploads : Closed(u) => object'[u] = object[u]
    BY <2>1 DEF Closed, Phase
  <2>3. QED
    BY <2>1, <2>2 DEF Settled, Typed
<1>17. ASSUME NEW t \in Tasks, DropStoreGuard(t) PROVE Answers'
  BY <1>17 DEF DropStoreGuard, SetStoring, Typed
<1>18. ASSUME NEW t \in Tasks, Rollback(t) PROVE Answers'
  BY <1>18 DEF Rollback, Typed
<1>19. ASSUME NEW t \in Tasks, FinishUpload(t) PROVE Answers'
  BY <1>19 DEF FinishUpload, Stored, Typed
<1>20. ASSUME NEW t \in Tasks, Publish(t) PROVE Answers'
  BY <1>20 DEF Publish, Typed
<1>21. ASSUME NEW t \in Tasks, JoinOutcome(t) PROVE Answers'
  BY <1>21 DEF JoinOutcome, Typed
<1>22. ASSUME NEW t \in Tasks, Panic(t) PROVE Answers'
  <2>1. /\ UNCHANGED <<upl, list, owner>> /\ pc[t] = "store"
        /\ pc' = [pc EXCEPT ![t] = "done"] /\ outcome' = [outcome EXCEPT ![t] = "err"]
        /\ slot' = [slot EXCEPT ![upl[t]] = None]
        /\ \A u \in Uploads : u # upl[t] => object'[u] = object[u]
    BY <1>22 DEF Panic, MayLand, Typed
  <2>2. \A u \in Uploads : Closed(u) => object'[u] = object[u]
    BY <2>1 DEF Closed, Phase
  <2>3. QED
    BY <2>1, <2>2 DEF Settled, Typed
<1>23. QED
  BY <1>1, <1>2, <1>3, <1>4, <1>5, <1>6, <1>7, <1>8, <1>9, <1>10, <1>11, <1>12, <1>13,
     <1>14, <1>15, <1>16, <1>17, <1>18, <1>19, <1>20, <1>21, <1>22 DEF Next, TaskStep

\* The inductive invariant.
THEOREM Invariant == Spec => []IInv
<1>1. IInv /\ [Next]_vars => IInv'
  BY NextTyped, NextOnce, NextFlipped, NextHandoff, NextRelayDirs, NextGuarded, NextStored,
     NextAnswers, NextSettled DEF IInv
<1>2. QED
  BY InitInv, <1>1, PTL DEF Spec

\* An upload whose abort was acknowledged is stored no more (its key has at most what a store
\* left that had reported a failure), a Complete that answered success has stored the parts
\* its client listed, and the relay files the engine reads are the validated ones
\* (begin_complete, complete, store_guard, publish_completion, abort, cleanup_expired,
\* sweep_orphan_relay_artifacts).
THEOREM CompletionSound == Spec => []AnswersKept
<1>1. IInv => AnswersKept
  BY DEF IInv, Once, Stored, Answers, Guarded, AnswersKept, AbortIsFinal, CompletedAsListed,
     RelayIntact, Typed
<1>2. QED
  BY Invariant, <1>1, PTL

\* What is stored of an upload changes only while no store of it has reported success, and
\* replaces only what a store left that had reported a failure, however often Complete is
\* retried and however long a store outlives the registry's bounds (run_multipart_completion).
THEOREM StoresOnce == Spec => StoredOnce
<1>1. IInv /\ [Next]_vars => [StoreChanges]_vars
  <2> SUFFICES ASSUME IInv, Next, NEW w \in Uploads, object'[w] # object[w]
               PROVE  /\ object[w] = left[w]
                      /\ \A t \in Tasks : upl[t] = w => ~Succeeded(t)
    BY DEF StoreChanges
  <2>0. ASSUME NEW t \in Tasks, pc[t] = "store", upl[t] = w
        PROVE  /\ object[w] = left[w]
               /\ \A v \in Tasks : upl[v] = w => ~Succeeded(v)
    BY <2>0 DEF IInv, Typed, Stored, Flipped, Phase, Settled, Closed, Succeeded
  <2>1. ASSUME NEW t \in Tasks, EngineStore(t)
        PROVE  /\ object[w] = left[w]
               /\ \A v \in Tasks : upl[v] = w => ~Succeeded(v)
    BY <2>0, <2>1 DEF EngineStore, MayLand, IInv, Typed
  <2>2. ASSUME Tick PROVE UNCHANGED object
    BY <2>2 DEF Tick
  <2>3. ASSUME Purge PROVE UNCHANGED object
    BY <2>3 DEF Purge
  <2>4. ASSUME CleanupExpired PROVE UNCHANGED object
    BY <2>4 DEF CleanupExpired
  <2>5. ASSUME SweepSnapshot PROVE UNCHANGED object
    BY <2>5 DEF SweepSnapshot
  <2>6. ASSUME SweepScan PROVE UNCHANGED object
    BY <2>6 DEF SweepScan
  <2>7. ASSUME NEW u \in Uploads, Create(u) PROVE UNCHANGED object
    BY <2>7 DEF Create
  <2>8. ASSUME NEW u \in Uploads, Abort(u) PROVE UNCHANGED object
    BY <2>8 DEF Abort
  <2>9. ASSUME NEW u \in Uploads, Release(u) PROVE UNCHANGED object
    BY <2>9 DEF Release
  <2>10. ASSUME NEW u \in Uploads, NEW p \in Parts, NEW c \in Contents, UploadPart(u, p, c) PROVE UNCHANGED object
    BY <2>10 DEF UploadPart
  <2>11. ASSUME NEW u \in Uploads, NEW p \in Parts, NEW c \in Contents, NEW S \in SUBSET Parts, PromoteError(u, p, c, S) PROVE UNCHANGED object
    BY <2>11 DEF PromoteError
  <2>12. ASSUME NEW t \in Tasks, NEW u \in Uploads, NEW l \in Lists, BeginComplete(t, u, l) PROVE UNCHANGED object
    BY <2>12 DEF BeginComplete
  <2>13. ASSUME NEW t \in Tasks, Admit(t) PROVE UNCHANGED object
    BY <2>13 DEF Admit
  <2>14. ASSUME NEW t \in Tasks, Complete(t) PROVE UNCHANGED object
    BY <2>14 DEF Complete
  <2>15. ASSUME NEW t \in Tasks, StoreGuard(t) PROVE UNCHANGED object
    BY <2>15 DEF StoreGuard
  <2>16. ASSUME NEW t \in Tasks, DropStoreGuard(t) PROVE UNCHANGED object
    BY <2>16 DEF DropStoreGuard
  <2>17. ASSUME NEW t \in Tasks, Rollback(t) PROVE UNCHANGED object
    BY <2>17 DEF Rollback
  <2>18. ASSUME NEW t \in Tasks, FinishUpload(t) PROVE UNCHANGED object
    BY <2>18 DEF FinishUpload
  <2>19. ASSUME NEW t \in Tasks, Publish(t) PROVE UNCHANGED object
    BY <2>19 DEF Publish
  <2>20. ASSUME NEW t \in Tasks, JoinOutcome(t) PROVE UNCHANGED object
    BY <2>20 DEF JoinOutcome
  <2>21. ASSUME NEW t \in Tasks, Panic(t)
        PROVE  /\ object[w] = left[w]
               /\ \A v \in Tasks : upl[v] = w => ~Succeeded(v)
    BY <2>0, <2>21 DEF Panic, MayLand, IInv, Typed
  <2>22. QED
    BY <2>1, <2>2, <2>3, <2>4, <2>5, <2>6, <2>7, <2>8, <2>9, <2>10, <2>11, <2>12, <2>13,
       <2>14, <2>15, <2>16, <2>17, <2>18, <2>19, <2>20, <2>21 DEF Next, TaskStep
<1>2. QED
  BY Invariant, <1>1, PTL DEF Spec, StoredOnce
=============================================================================
