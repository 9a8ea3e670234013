-------------------------- MODULE AttachmentsProofs -------------------------
(***************************************************************************)
(* Proofs about the chunked upload, for any number of uploads, calls and   *)
(* cases, any bytes and every length of a chunk: what stored files may     *)
(* hold when calls overlap in every way and system calls fail, what holds  *)
(* besides when completions of one upload follow one another, and when all *)
(* completions do.                                                         *)
(***************************************************************************)
EXTENDS Attachments, TLAPS

\* c is the beginning of d; c and d have the same bytes as far as both go.
Within(c, d) == DOMAIN c \subseteq DOMAIN d /\ \A k \in DOMAIN c : c[k] = d[k]
Agree(c, d) == \A k \in DOMAIN c \cap DOMAIN d : c[k] = d[k]

Part(u) == file[u][1]    \* what chunk 0 of an upload carries

TempInodes == Completes \X {"temp"}

\* Before which step a completion has not made its inodes.
BeforeCreate == {"idle", "create"}
BeforeCopy == Steps \ {"copy", "cleanup", "insert", "audit", "commit", "done"}

\* The types, with the upload and the files a call under way has.
PostTyped(p) ==
  post[p].step # "idle" =>
    post[p].upload \in Uploads /\ chunk[post[p].upload][post[p].index] # None

CallTyped(r) ==
  /\ pc[r] \notin {"idle", "done"} => upload[r] \in Uploads
  /\ pc[r] \in {"read", "write", "copy"} => fd[r] # None

TypeInv ==
  /\ TypeOK
  /\ \A p \in Posts : PostTyped(p)
  /\ \A r \in Completes : CallTyped(r)
  /\ \A u \in Uploads : temp[u] \in TempInodes \cup {None}

\* No two paths name one inode, and none names one that is yet to be made.
TempsApart == \A u, v \in Uploads : temp[u] = temp[v] /\ temp[u] # None => u = v
StoresApart == \A h, g \in Contents : store[h] = store[g] /\ store[h] # None => h = g
TempsNotStored == \A u \in Uploads, h \in Contents : temp[u] # None => temp[u] # store[h]

TempUnmade(r) ==
  pc[r] \in BeforeCreate =>
    /\ \A u \in Uploads : temp[u] # <<r, "temp">>
    /\ \A h \in Contents : store[h] # <<r, "temp">>
    /\ \A q \in Completes : fd[q] # <<r, "temp">>

CopyUnmade(r) ==
  pc[r] \in BeforeCopy =>
    /\ \A h \in Contents : store[h] # <<r, "copy">>
    /\ \A q \in Completes : fd[q] # <<r, "copy">>

\* A fallback writes to the stored file of its own hash, or to one that no path
\* names any more.
CopyApart(r) ==
  pc[r] = "copy" =>
    /\ \A u \in Uploads : temp[u] # fd[r]
    /\ \A h \in Contents : store[h] = fd[r] => h = data[r]

PathInv ==
  /\ TempsApart /\ StoresApart /\ TempsNotStored
  /\ \A r \in Completes : TempUnmade(r) /\ CopyUnmade(r) /\ CopyApart(r)

UploadInv == TypeInv /\ PathInv

-----------------------------------------------------------------------------
\* Facts about data.

LEMMA ContentType ==
  ASSUME NEW c \in Contents
  PROVE  \E n \in 0 .. MaxLength :
           n \in Nat /\ Len(c) = n /\ DOMAIN c = 1 .. n /\ c \in [1 .. n -> Bytes]
<1>1. PICK n \in 0 .. MaxLength : c \in [1 .. n -> Bytes]
  BY DEF Contents
<1>2. n \in Nat
  BY ConstantsAssumption
<1>3. c \in Seq(Bytes) /\ Len(c) = n
  BY <1>1, <1>2
<1> QED BY <1>1, <1>2, <1>3

LEMMA NothingType ==
  /\ Nothing \in Contents
  /\ DOMAIN Nothing = {}
  /\ \A c : Within(Nothing, c) /\ Agree(Nothing, c)
<1>1. Nothing \in [1 .. 0 -> Bytes] /\ 0 \in 0 .. MaxLength
  BY ConstantsAssumption DEF Nothing
<1>2. Nothing \in Contents
  BY <1>1 DEF Contents
<1>3. DOMAIN Nothing = {}
  BY DEF Nothing
<1> QED BY <1>2, <1>3 DEF Within, Agree

\* What a write has written is the beginning of what it was to write.
LEMMA WrittenType ==
  ASSUME NEW c \in Contents, NEW w \in Written(c)
  PROVE  /\ w \in Contents /\ Within(w, c)
         /\ "disk" \notin Faults => w = c
<1>1. PICK n \in 0 .. Len(c) : w = [k \in 1 .. n |-> c[k]]
  BY DEF Written, Prefixes
<1>2. PICK m \in 0 .. MaxLength :
        m \in Nat /\ Len(c) = m /\ DOMAIN c = 1 .. m /\ c \in [1 .. m -> Bytes]
  BY ContentType
<1>3. n \in 0 .. MaxLength /\ 1 .. n \subseteq 1 .. m
  BY <1>1, <1>2, ConstantsAssumption
<1>4. w \in [1 .. n -> Bytes]
  BY <1>1, <1>2, <1>3
<1>5. w \in Contents
  BY <1>3, <1>4 DEF Contents
<1>6. Within(w, c)
  BY <1>1, <1>2, <1>3 DEF Within
<1> QED BY <1>5, <1>6 DEF Written

LEMMA OverType ==
  ASSUME NEW c \in Contents, NEW d \in Contents
  PROVE  Over(c, d) \in Contents
<1>1. PICK n \in 0 .. MaxLength :
        n \in Nat /\ Len(c) = n /\ DOMAIN c = 1 .. n /\ c \in [1 .. n -> Bytes]
  BY ContentType
<1>2. PICK m \in 0 .. MaxLength :
        m \in Nat /\ Len(d) = m /\ DOMAIN d = 1 .. m /\ d \in [1 .. m -> Bytes]
  BY ContentType
<1>3. PICK l \in 0 .. MaxLength : 1 .. l = DOMAIN c \cup DOMAIN d
  <2>1. CASE n <= m
    BY <1>1, <1>2, <2>1
  <2>2. CASE m <= n
    BY <1>1, <1>2, <2>2
  <2> QED BY <1>1, <1>2, <2>1, <2>2
<1>4. Over(c, d) = [k \in 1 .. l |-> IF k \in DOMAIN c THEN c[k] ELSE d[k]]
  BY <1>3 DEF Over
<1>5. Over(c, d) \in [1 .. l -> Bytes]
  BY <1>1, <1>2, <1>3, <1>4
<1> QED BY <1>5 DEF Contents

LEMMA OverWithin ==
  ASSUME NEW c, NEW d, NEW h, Within(c, h), Within(d, h)
  PROVE  Within(Over(c, d), h)
  BY DEF Over, Within

LEMMA OverAgrees ==
  ASSUME NEW c, NEW d, NEW h, Agree(c, h), Agree(d, h)
  PROVE  Agree(Over(c, d), h)
  BY DEF Over, Agree

\* A whole write over a beginning of what it writes leaves what it writes.
LEMMA OverWhole ==
  ASSUME NEW c \in Contents, NEW d, Within(d, c)
  PROVE  Over(c, d) = c
<1>1. PICK n \in 0 .. MaxLength : DOMAIN c = 1 .. n /\ c \in [1 .. n -> Bytes]
  BY ContentType
<1>2. DOMAIN c \cup DOMAIN d = DOMAIN c
  BY DEF Within
<1>3. Over(c, d) = [k \in 1 .. n |-> c[k]]
  BY <1>1, <1>2 DEF Over
<1> QED BY <1>1, <1>3

LEMMA WithinFacts ==
  ASSUME NEW c, NEW d, NEW e
  PROVE  /\ Within(c, c)
         /\ Within(c, d) /\ Within(d, e) => Within(c, e)
         /\ Within(c, d) /\ Within(e, d) => Agree(c, e)
         /\ Within(c, d) => Agree(c, d) /\ Agree(d, c)
         /\ Within(c, d) /\ Agree(d, e) => Agree(c, e)
  BY DEF Within, Agree

\* The first piece of a file is a content.
LEMMA PartType ==
  ASSUME file \in [Uploads -> Files], NEW u \in Uploads
  PROVE  Part(u) \in Contents /\ Len(file[u]) >= 1
<1>1. PICK n \in 1 .. MaxChunks : file[u] \in [1 .. n -> Contents]
  <2>1. file[u] \in Files
    OBVIOUS
  <2> QED BY <2>1 DEF Files
<1>2. n \in Nat /\ n >= 1 /\ 1 \in 1 .. n
  BY <1>1, ConstantsAssumption
<1>3. file[u] \in Seq(Contents) /\ Len(file[u]) = n
  BY <1>1, <1>2
<1> QED BY <1>1, <1>2, <1>3 DEF Part

\* Writing one chunk file.
LEMMA ChunkWritten ==
  ASSUME TypeOK, NEW u \in Uploads, NEW i \in 0 .. MaxChunks - 1, NEW c \in Contents,
         chunk' = [chunk EXCEPT ![u][i] = c]
  PROVE  /\ chunk' \in [Uploads -> [0 .. MaxChunks - 1 -> Contents \cup {None}]]
         /\ chunk'[u][i] = c
         /\ \A v \in Uploads, j \in 0 .. MaxChunks - 1 :
              v # u \/ j # i => chunk'[v][j] = chunk[v][j]
  BY DEF TypeOK

\* The steps of a chunk handler, with what they do to its record and its file.
LEMMA PostSteps ==
  ASSUME TypeInv, NEW p \in Posts
  PROVE  /\ OpenChunk(p) =>
              \E u \in Uploads, i \in 0 .. MaxChunks - 1, b \in Contents :
                /\ chunk' = [chunk EXCEPT ![u][i] = Nothing]
                /\ post' = [post EXCEPT ![p] = [step |-> "write", upload |-> u,
                                               index |-> i, body |-> b]]
         /\ WriteChunk(p) =>
              /\ post[p].step = "write" /\ post[p].upload \in Uploads
              /\ post[p].index \in 0 .. MaxChunks - 1 /\ post[p].body \in Contents
              /\ chunk[post[p].upload][post[p].index] \in Contents
              /\ \E w \in Written(post[p].body) :
                   chunk' = [chunk EXCEPT ![post[p].upload][post[p].index] =
                              Over(w, chunk[post[p].upload][post[p].index])]
              /\ \/ post' = [post EXCEPT ![p].step = "record"]
                 \/ post' = [post EXCEPT ![p] = Idle]
<1>1. OpenChunk(p) =>
        \E u \in Uploads, i \in 0 .. MaxChunks - 1, b \in Contents :
          /\ chunk' = [chunk EXCEPT ![u][i] = Nothing]
          /\ post' = [post EXCEPT ![p] = [step |-> "write", upload |-> u,
                                         index |-> i, body |-> b]]
  BY DEF OpenChunk
<1>2. ASSUME WriteChunk(p)
      PROVE  /\ post[p].step = "write" /\ post[p].upload \in Uploads
             /\ post[p].index \in 0 .. MaxChunks - 1 /\ post[p].body \in Contents
             /\ chunk[post[p].upload][post[p].index] \in Contents
             /\ \E w \in Written(post[p].body) :
                  chunk' = [chunk EXCEPT ![post[p].upload][post[p].index] =
                             Over(w, chunk[post[p].upload][post[p].index])]
             /\ \/ post' = [post EXCEPT ![p].step = "record"]
                \/ post' = [post EXCEPT ![p] = Idle]
  <2> DEFINE u == post[p].upload
             i == post[p].index
             b == post[p].body
  <2>1. post[p].step = "write" /\ post[p].step # "idle"
    BY <1>2 DEF WriteChunk
  <2>2. u \in Uploads /\ chunk[u][i] # None
    BY <2>1 DEF TypeInv, PostTyped
  <2>3. i \in 0 .. MaxChunks - 1 /\ b \in Contents
    BY DEF TypeInv, TypeOK
  <2>4. chunk[u][i] \in Contents
    <3>1. chunk[u] \in [0 .. MaxChunks - 1 -> Contents \cup {None}]
      BY <2>2 DEF TypeInv, TypeOK
    <3> QED BY <2>2, <2>3, <3>1
  <2>5. /\ \E w \in Written(b) : chunk' = [chunk EXCEPT ![u][i] = Over(w, chunk[u][i])]
        /\ \/ post' = [post EXCEPT ![p].step = "record"]
           \/ post' = [post EXCEPT ![p] = Idle]
    BY <1>2 DEF WriteChunk
  <2> QED BY <2>1, <2>2, <2>3, <2>4, <2>5
<1> QED BY <1>1, <1>2

-----------------------------------------------------------------------------
\* What a step of a completion does not touch keeps the types.
LEMMA TypeQuiet ==
  ASSUME TypeInv,
         UNCHANGED <<file, caseOf, chunkRow, chunk, post>>,
         temp' \in [Uploads -> TempInodes \cup {None}],
         store' \in [Contents -> Inodes \cup {None}],
         content' \in [Inodes -> Contents],
         pc' \in [Completes -> Steps], upload' \in [Completes -> Uploads \cup {None}],
         fd' \in [Completes -> Inodes \cup {None}],
         data' \in [Completes -> Contents], buf' \in [Completes -> Contents],
         attachments' \subseteq Completes, audited' \subseteq Completes,
         hurt' \subseteq Completes,
         answer' \in [Completes -> Completes \cup {None, "error"}],
         \A r \in Completes : CallTyped(r)'
  PROVE  TypeInv'
<1>1. temp' \in [Uploads -> Inodes \cup {None}]
  BY DEF TempInodes, Inodes
<1>2. \A p \in Posts : PostTyped(p)'
  BY DEF TypeInv, PostTyped
<1>3. TypeOK'
  BY <1>1 DEF TypeInv, TypeOK
<1> QED BY <1>2, <1>3 DEF TypeInv

LEMMA TypeStep == TypeInv /\ [Next]_vars => TypeInv'
<1> SUFFICES ASSUME TypeInv, [Next]_vars PROVE TypeInv'
  OBVIOUS
<1> USE DEF given, fileVars, rowVars, callVars
<1>0. /\ Nothing \in Contents /\ 0 \in 0 .. MaxChunks - 1
      /\ \A r \in Completes : <<r, "temp">> \in Inodes \cap TempInodes /\ <<r, "copy">> \in Inodes
      /\ \A n \in Inodes : n # None
      /\ TempInodes \subseteq Inodes
      /\ None \notin Contents
  BY NothingType, ConstantsAssumption DEF Inodes, TempInodes
<1>t. /\ TypeOK
      /\ temp \in [Uploads -> TempInodes \cup {None}]
  BY DEF TypeInv, TypeOK
<1>p. ASSUME NEW u \in Uploads, NEW i \in 0 .. MaxChunks - 1, NEW c \in Contents,
             chunk' = [chunk EXCEPT ![u][i] = c],
             UNCHANGED <<file, caseOf, chunkRow, temp, store, content, callVars>>,
             post' \in [Posts -> [step : {"idle", "write", "record"},
                                  upload : Uploads \cup {None}, index : 0 .. MaxChunks - 1,
                                  body : Contents]],
             \A q \in Posts : post'[q].step # "idle" =>
               \/ post'[q].upload = u /\ post'[q].index = i
               \/ /\ post[q].step # "idle" /\ post'[q].upload = post[q].upload
                  /\ post'[q].index = post[q].index
      PROVE  TypeInv'
  <2>1. /\ chunk' \in [Uploads -> [0 .. MaxChunks - 1 -> Contents \cup {None}]]
        /\ chunk'[u][i] = c
        /\ \A v \in Uploads, j \in 0 .. MaxChunks - 1 :
             v # u \/ j # i => chunk'[v][j] = chunk[v][j]
    BY <1>p, <1>t, ChunkWritten
  <2>2. TypeOK'
    BY <1>p, <1>t, <2>1 DEF TypeOK
  <2>3. ASSUME NEW q \in Posts, post'[q].step # "idle"
        PROVE  post'[q].upload \in Uploads /\ chunk'[post'[q].upload][post'[q].index] # None
    <3>1. CASE post'[q].upload = u /\ post'[q].index = i
      BY <1>0, <2>1, <3>1
    <3>2. CASE /\ post[q].step # "idle" /\ post'[q].upload = post[q].upload
               /\ post'[q].index = post[q].index
      <4>1. /\ post[q].upload \in Uploads /\ post[q].index \in 0 .. MaxChunks - 1
            /\ chunk[post[q].upload][post[q].index] # None
        BY <3>2, <1>t DEF TypeInv, PostTyped, TypeOK
      <4> QED BY <1>0, <2>1, <3>2, <4>1
    <3> QED BY <1>p, <2>3, <3>1, <3>2
  <2>4. \A r \in Completes : CallTyped(r)'
    BY <1>p DEF TypeInv, CallTyped
  <2> QED BY <1>p, <2>2, <2>3, <2>4 DEF TypeInv, PostTyped
<1>1. ASSUME NEW u \in Uploads, InitUpload(u) PROVE TypeInv'
  BY <1>1 DEF InitUpload, TypeInv, TypeOK, PostTyped, CallTyped
<1>2. ASSUME NEW p \in Posts, OpenChunk(p) PROVE TypeInv'
  <2>1. PICK u \in Uploads, i \in 0 .. MaxChunks - 1, b \in Contents :
          /\ chunk' = [chunk EXCEPT ![u][i] = Nothing]
          /\ post' = [post EXCEPT ![p] = [step |-> "write", upload |-> u,
                                         index |-> i, body |-> b]]
    BY <1>2, PostSteps
  <2>2. /\ post' \in [Posts -> [step : {"idle", "write", "record"},
                                upload : Uploads \cup {None}, index : 0 .. MaxChunks - 1,
                                body : Contents]]
        /\ \A q \in Posts : q # p => post'[q] = post[q]
        /\ post'[p].upload = u /\ post'[p].index = i
    BY <1>t, <2>1 DEF TypeOK
  <2>3. UNCHANGED <<file, caseOf, chunkRow, temp, store, content, callVars>>
    BY <1>2 DEF OpenChunk
  <2>4. \A q \in Posts : post'[q].step # "idle" =>
          \/ post'[q].upload = u /\ post'[q].index = i
          \/ /\ post[q].step # "idle" /\ post'[q].upload = post[q].upload
             /\ post'[q].index = post[q].index
    BY <2>2
  <2> HIDE DEF callVars
  <2> QED BY <1>0, <1>p, <2>1, <2>2, <2>3, <2>4
<1>3. ASSUME NEW p \in Posts, WriteChunk(p) PROVE TypeInv'
  <2> DEFINE u == post[p].upload
             i == post[p].index
             b == post[p].body
  <2>1. /\ post[p].step = "write" /\ u \in Uploads /\ i \in 0 .. MaxChunks - 1
        /\ b \in Contents /\ chunk[u][i] \in Contents
        /\ \/ post' = [post EXCEPT ![p].step = "record"]
           \/ post' = [post EXCEPT ![p] = Idle]
    BY <1>3, PostSteps
  <2>2. PICK w \in Written(b) : chunk' = [chunk EXCEPT ![u][i] = Over(w, chunk[u][i])]
    BY <1>3, PostSteps
  <2> HIDE DEF u, i, b
  <2>3. Over(w, chunk[u][i]) \in Contents
    BY <2>1, WrittenType, OverType
  <2>4. Idle \in [step : {"idle", "write", "record"}, upload : Uploads \cup {None},
                  index : 0 .. MaxChunks - 1, body : Contents] /\ Idle.step = "idle"
    BY <1>0 DEF Idle
  <2>5. /\ post' \in [Posts -> [step : {"idle", "write", "record"},
                                upload : Uploads \cup {None}, index : 0 .. MaxChunks - 1,
                                body : Contents]]
        /\ \A q \in Posts : post'[q].step # "idle" =>
             /\ post[q].step # "idle" /\ post'[q].upload = post[q].upload
             /\ post'[q].index = post[q].index
    <3>1. CASE post' = [post EXCEPT ![p].step = "record"]
      <4>1. post[p].step # "idle" /\ post[p] \in [step : {"idle", "write", "record"},
              upload : Uploads \cup {None}, index : 0 .. MaxChunks - 1, body : Contents]
        BY <1>t, <2>1 DEF TypeOK
      <4>2. post' = [post EXCEPT ![p] = [post[p] EXCEPT !.step = "record"]]
        BY <3>1
      <4>3. /\ post'[p] \in [step : {"idle", "write", "record"},
                  upload : Uploads \cup {None}, index : 0 .. MaxChunks - 1, body : Contents]
            /\ post'[p].upload = post[p].upload /\ post'[p].index = post[p].index
        BY <1>t, <4>1, <4>2 DEF TypeOK
      <4> QED BY <1>t, <4>1, <4>2, <4>3 DEF TypeOK
    <3>2. CASE post' = [post EXCEPT ![p] = Idle]
      BY <1>t, <2>4, <3>2 DEF TypeOK
    <3> QED BY <2>1, <3>1, <3>2
  <2>6. UNCHANGED <<file, caseOf, chunkRow, temp, store, content, callVars>>
    BY <1>3 DEF WriteChunk
  <2> HIDE DEF callVars
  <2> QED BY <1>p, <2>1, <2>2, <2>3, <2>5, <2>6
<1>4. ASSUME NEW p \in Posts, RecordChunk(p) PROVE TypeInv'
  <2>1. Idle \in [step : {"idle", "write", "record"}, upload : Uploads \cup {None},
                  index : 0 .. MaxChunks - 1, body : Contents] /\ Idle.step = "idle"
    BY <1>0 DEF Idle
  <2>2. /\ post' \in [Posts -> [step : {"idle", "write", "record"},
                                upload : Uploads \cup {None}, index : 0 .. MaxChunks - 1,
                                body : Contents]]
        /\ \A q \in Posts : post'[q].step # "idle" => post'[q] = post[q]
    BY <1>4, <1>t, <2>1 DEF RecordChunk, TypeOK
  <2>3. chunkRow' \in [Uploads -> {None, "pending", "uploaded"}]
    BY <1>4, <1>t DEF RecordChunk, TypeOK
  <2>4. UNCHANGED <<file, caseOf, chunk, temp, store, content, callVars>>
    BY <1>4 DEF RecordChunk
  <2>5. TypeOK'
    BY <1>t, <2>2, <2>3, <2>4 DEF TypeOK
  <2> QED BY <2>2, <2>4, <2>5 DEF TypeInv, PostTyped, CallTyped
\* A step of one completion that makes no file and reads none.
<1>q. ASSUME NEW r \in Completes, NEW step \in Steps \ {"copy", "read", "write"},
             pc' = [pc EXCEPT ![r] = step],
             pc[r] \notin {"idle", "done"} \/ step = "done",
             UNCHANGED <<file, caseOf, chunkRow, chunk, store, content, post, upload, data>>,
             temp' \in [Uploads -> TempInodes \cup {None}],
             \/ fd' = fd
             \/ fd' = [fd EXCEPT ![r] = None],
             buf' \in [Completes -> Contents],
             attachments' \subseteq Completes, audited' \subseteq Completes,
             hurt' \subseteq Completes,
             answer' \in [Completes -> Completes \cup {None, "error"}]
      PROVE  TypeInv'
  <2>1. pc' \in [Completes -> Steps] /\ fd' \in [Completes -> Inodes \cup {None}]
    BY <1>q, <1>t DEF TypeOK
  <2>2. ASSUME NEW q \in Completes PROVE CallTyped(q)'
    <3>1. CallTyped(q)
      BY DEF TypeInv
    <3>2. CASE q = r
      BY <1>q, <1>t, <3>1, <3>2 DEF TypeOK, CallTyped
    <3>3. CASE q # r
      BY <1>q, <1>t, <3>1, <3>3 DEF TypeOK, CallTyped
    <3> QED BY <3>2, <3>3
  <2> QED BY <1>q, <1>t, <2>1, <2>2, TypeQuiet DEF TypeOK
<1>5. ASSUME NEW r \in Completes, ReadRows(r) PROVE TypeInv'
  <2>1. PICK u \in Uploads :
          /\ upload' = [upload EXCEPT ![r] = u]
          /\ \/ Goto(r, "create") /\ UNCHANGED answer
             \/ Answer(r, "error")
    BY <1>5 DEF ReadRows
  <2>2. UNCHANGED <<file, caseOf, chunkRow, chunk, temp, store, content, post, fd, data,
                    buf, attachments, audited, hurt>>
    BY <1>5 DEF ReadRows
  <2>3. pc' \in [Completes -> Steps] /\ upload' \in [Completes -> Uploads \cup {None}]
        /\ answer' \in [Completes -> Completes \cup {None, "error"}]
    BY <1>t, <2>1 DEF Answer, Goto, TypeOK, Steps
  <2>4. ASSUME NEW q \in Completes PROVE CallTyped(q)'
    <3>1. CallTyped(q)
      BY DEF TypeInv
    <3>2. CASE q = r
      BY <1>t, <2>1, <3>2 DEF Answer, Goto, TypeOK, CallTyped
    <3>3. CASE q # r
      BY <1>t, <2>1, <2>2, <3>1, <3>3 DEF Answer, Goto, TypeOK, CallTyped
    <3> QED BY <3>2, <3>3
  <2> QED BY <1>t, <2>2, <2>3, <2>4, TypeQuiet DEF TypeOK
<1>6. ASSUME NEW r \in Completes, CreateTemp(r) PROVE TypeInv'
  <2>1. PICK n \in TempInodes :
          /\ temp' = [temp EXCEPT ![upload[r]] = n]
          /\ content' = [content EXCEPT ![n] = Nothing]
          /\ fd' = [fd EXCEPT ![r] = n]
    <3>1. pc[r] = "create" /\ upload[r] \in Uploads
      BY <1>6 DEF CreateTemp, TypeInv, CallTyped
    <3> QED BY <1>0, <1>t, <1>6, <3>1 DEF CreateTemp
  <2>2. /\ pc' = [pc EXCEPT ![r] = "read"] /\ pc[r] = "create"
        /\ UNCHANGED <<file, caseOf, chunkRow, chunk, store, post, upload, data, buf,
                       attachments, audited, answer, hurt>>
    BY <1>6 DEF CreateTemp, Goto
  <2>3. /\ temp' \in [Uploads -> TempInodes \cup {None}]
        /\ content' \in [Inodes -> Contents]
        /\ fd' \in [Completes -> Inodes \cup {None}]
        /\ pc' \in [Completes -> Steps]
    BY <1>0, <1>t, <2>1, <2>2 DEF TypeOK, Steps
  <2>4. ASSUME NEW q \in Completes PROVE CallTyped(q)'
    <3>1. CallTyped(q)
      BY DEF TypeInv
    <3>2. CASE q = r
      BY <1>0, <1>t, <2>1, <2>2, <3>1, <3>2 DEF TypeOK, CallTyped
    <3>3. CASE q # r
      BY <1>t, <2>1, <2>2, <3>1, <3>3 DEF TypeOK, CallTyped
    <3> QED BY <3>2, <3>3
  <2> QED BY <1>t, <2>2, <2>3, <2>4, TypeQuiet DEF TypeOK
<1>7. ASSUME NEW r \in Completes, ReadChunk(r) PROVE TypeInv'
  <2>0. pc[r] = "read" /\ upload[r] \in Uploads /\ fd[r] # None
    BY <1>7 DEF ReadChunk, TypeInv, CallTyped
  <2> DEFINE c == chunk[upload[r]][0]
  <2>1. c # None => c \in Contents
    <3>1. chunk[upload[r]] \in [0 .. MaxChunks - 1 -> Contents \cup {None}]
      BY <1>t, <2>0 DEF TypeOK
    <3> QED BY <1>0, <3>1
  <2>2. /\ UNCHANGED <<file, caseOf, chunkRow, chunk, temp, store, content, post, upload,
                       buf, attachments, audited, hurt>>
        /\ \/ /\ fd' = [fd EXCEPT ![r] = None] /\ data' = data
              /\ pc' = [pc EXCEPT ![r] = "done"] /\ answer' = [answer EXCEPT ![r] = "error"]
           \/ /\ c # None /\ data' = [data EXCEPT ![r] = c]
              /\ pc' = [pc EXCEPT ![r] = "write"] /\ fd' = fd /\ answer' = answer
    BY <1>7 DEF ReadChunk, Answer, Goto
  <2> HIDE DEF c
  <2>3. /\ pc' \in [Completes -> Steps] /\ fd' \in [Completes -> Inodes \cup {None}]
        /\ data' \in [Completes -> Contents]
        /\ answer' \in [Completes -> Completes \cup {None, "error"}]
    BY <1>t, <2>1, <2>2 DEF TypeOK, Steps
  <2>4. ASSUME NEW q \in Completes PROVE CallTyped(q)'
    <3>1. CallTyped(q)
      BY DEF TypeInv
    <3>2. CASE q = r
      BY <1>t, <2>0, <2>2, <3>2 DEF TypeOK, CallTyped
    <3>3. CASE q # r
      BY <1>t, <2>2, <3>1, <3>3 DEF TypeOK, CallTyped
    <3> QED BY <3>2, <3>3
  <2> QED BY <1>t, <2>2, <2>3, <2>4, TypeQuiet DEF TypeOK
\* A completion that writes to the inode it has open, and closes it.
<1>w. ASSUME NEW r \in Completes, NEW step \in {"dedupe", "cleanup"},
             NEW b \in Contents, NEW w \in Written(b),
             pc[r] \in {"write", "copy"}, pc' = [pc EXCEPT ![r] = step],
             content' = [content EXCEPT ![fd[r]] = Over(w, content[fd[r]])],
             fd' = [fd EXCEPT ![r] = None],
             UNCHANGED <<file, caseOf, chunkRow, chunk, temp, store, post, upload, data,
                         attachments, audited, answer>>,
             buf' \in [Completes -> Contents], hurt' \subseteq Completes
      PROVE  TypeInv'
  <2>1. content' \in [Inodes -> Contents]
    <3>1. fd[r] \in Inodes
      BY <1>w, <1>t DEF TypeInv, TypeOK, CallTyped
    <3>2. Over(w, content[fd[r]]) \in Contents
      BY <1>w, <1>t, <3>1, WrittenType, OverType DEF TypeOK
    <3> QED BY <1>w, <1>t, <3>1, <3>2 DEF TypeOK
  <2>2. pc' \in [Completes -> Steps] /\ fd' \in [Completes -> Inodes \cup {None}]
    BY <1>w, <1>t DEF TypeOK, Steps
  <2>3. ASSUME NEW q \in Completes PROVE CallTyped(q)'
    <3>1. CallTyped(q)
      BY DEF TypeInv
    <3>2. CASE q = r
      BY <1>w, <1>t, <3>1, <3>2 DEF TypeOK, CallTyped
    <3>3. CASE q # r
      BY <1>w, <1>t, <3>1, <3>3 DEF TypeOK, CallTyped
    <3> QED BY <3>2, <3>3
  <2> QED BY <1>w, <1>t, <2>1, <2>2, <2>3, TypeQuiet DEF TypeOK
<1>8. ASSUME NEW r \in Completes, WriteTemp(r) PROVE TypeInv'
  <2>1. PICK w \in Written(data[r]) :
          /\ content' = [content EXCEPT ![fd[r]] = Over(w, content[fd[r]])]
          /\ hurt' = IF w = data[r] THEN hurt ELSE hurt \cup {r}
    BY <1>8 DEF WriteTemp
  <2>2. data[r] \in Contents /\ hurt' \subseteq Completes
    BY <1>t, <2>1 DEF TypeOK
  <2>3. /\ pc[r] = "write" /\ pc' = [pc EXCEPT ![r] = "dedupe"]
        /\ fd' = [fd EXCEPT ![r] = None]
        /\ UNCHANGED <<file, caseOf, chunkRow, chunk, temp, store, post, upload, data, buf,
                       attachments, audited, answer>>
    BY <1>8 DEF WriteTemp, Goto
  <2>4. buf' \in [Completes -> Contents]
    BY <1>t, <2>3 DEF TypeOK
  <2> QED BY <1>w, <2>1, <2>2, <2>3, <2>4
<1>9. ASSUME NEW r \in Completes, WriteStored(r) PROVE TypeInv'
  <2>1. PICK w \in Written(buf[r]) :
          /\ content' = [content EXCEPT ![fd[r]] = Over(w, content[fd[r]])]
          /\ hurt' = IF w = data[r] THEN hurt \ {r} ELSE hurt
    BY <1>9 DEF WriteStored
  <2>2. buf[r] \in Contents /\ hurt' \subseteq Completes
    BY <1>t, <2>1 DEF TypeOK
  <2>3. /\ pc[r] = "copy" /\ pc' = [pc EXCEPT ![r] = "cleanup"]
        /\ fd' = [fd EXCEPT ![r] = None] /\ buf' = [buf EXCEPT ![r] = Nothing]
        /\ UNCHANGED <<file, caseOf, chunkRow, chunk, temp, store, post, upload, data,
                       attachments, audited, answer>>
    BY <1>9 DEF WriteStored, Goto
  <2>4. buf' \in [Completes -> Contents]
    BY <1>0, <1>t, <2>3 DEF TypeOK
  <2> QED BY <1>w, <2>1, <2>2, <2>3, <2>4
<1>10. ASSUME NEW r \in Completes,
              \/ FileCallFails(r) \/ Deduplicate(r) \/ PassDedupe(r) \/ RenameFails(r)
              \/ InsertRow(r) \/ AppendAudit(r) \/ Commit(r) \/ CommitFails(r)
       PROVE  TypeInv'
  <2>1. /\ UNCHANGED <<file, caseOf, chunkRow, chunk, temp, store, content, post, upload,
                       data, buf>>
        /\ fd' = fd \/ fd' = [fd EXCEPT ![r] = None]
        /\ pc[r] \notin {"idle", "done"}
    BY <1>10 DEF FileCallFails, Deduplicate, PassDedupe, RenameFails, InsertRow, AppendAudit,
                 Commit, CommitFails
  <2>2. \E step \in Steps \ {"copy", "read", "write"} : pc' = [pc EXCEPT ![r] = step]
    BY <1>10 DEF FileCallFails, Deduplicate, PassDedupe, RenameFails, InsertRow, AppendAudit,
                 Commit, CommitFails, Answer, Goto, Steps
  <2>3. answer' \in [Completes -> Completes \cup {None, "error"}]
    BY <1>10, <1>t DEF FileCallFails, Deduplicate, PassDedupe, RenameFails, InsertRow,
                 AppendAudit, Commit, CommitFails, Answer, TypeOK
  <2>4. attachments' \subseteq Completes /\ audited' \subseteq Completes /\ hurt' \subseteq Completes
    BY <1>10, <1>t DEF FileCallFails, Deduplicate, PassDedupe, RenameFails, InsertRow,
                 AppendAudit, Commit, CommitFails, TypeOK
  <2>5. temp' \in [Uploads -> TempInodes \cup {None}] /\ buf' \in [Completes -> Contents]
    BY <1>t, <2>1 DEF TypeOK
  <2> QED BY <1>q, <2>1, <2>2, <2>3, <2>4, <2>5
<1>11. ASSUME NEW r \in Completes, RemoveTemp(r) \/ RenameTemp(r) \/ ReadTemp(r) PROVE TypeInv'
  <2>0. pc[r] \notin {"idle", "done"} /\ upload[r] \in Uploads /\ data[r] \in Contents
    BY <1>11, <1>t DEF RemoveTemp, RenameTemp, ReadTemp, TypeInv, TypeOK, CallTyped
  <2>1. UNCHANGED <<file, caseOf, chunkRow, chunk, content, post, upload, fd, data,
                    attachments, audited, answer, hurt>>
    BY <1>11 DEF RemoveTemp, RenameTemp, ReadTemp
  <2>2. PICK step \in {"done", "insert", "open"} : pc' = [pc EXCEPT ![r] = step]
    BY <1>11 DEF RemoveTemp, RenameTemp, ReadTemp, Goto
  <2>3. temp' \in [Uploads -> TempInodes \cup {None}]
    BY <1>11, <1>t, <2>0 DEF RemoveTemp, RenameTemp, ReadTemp
  <2>4. store' \in [Contents -> Inodes \cup {None}]
    <3>1. CASE RenameTemp(r)
      <4>1. temp[upload[r]] \in Inodes
        BY <1>0, <1>t, <2>0, <3>1 DEF RenameTemp
      <4> QED BY <1>t, <2>0, <3>1, <4>1 DEF RenameTemp, TypeOK
    <3>2. CASE RemoveTemp(r) \/ ReadTemp(r)
      BY <1>t, <3>2 DEF RemoveTemp, ReadTemp, TypeOK
    <3> QED BY <1>11, <3>1, <3>2
  <2>5. buf' \in [Completes -> Contents]
    <3>1. CASE ReadTemp(r)
      <4> DEFINE b == IF temp[upload[r]] = None THEN Nothing ELSE content[temp[upload[r]]]
      <4>1. b \in Contents
        BY <1>0, <1>t, <2>0 DEF TypeOK
      <4>2. PICK c \in Written(b) : buf' = [buf EXCEPT ![r] = c]
        BY <3>1 DEF ReadTemp
      <4> HIDE DEF b
      <4>3. c \in Contents
        BY <4>1, WrittenType
      <4> QED BY <1>t, <4>2, <4>3 DEF TypeOK
    <3>2. CASE RemoveTemp(r) \/ RenameTemp(r)
      BY <1>t, <3>2 DEF RemoveTemp, RenameTemp, TypeOK
    <3> QED BY <1>11, <3>1, <3>2
  <2>6. pc' \in [Completes -> Steps]
    BY <1>t, <2>2 DEF TypeOK, Steps
  <2>7. ASSUME NEW q \in Completes PROVE CallTyped(q)'
    <3>1. CallTyped(q)
      BY DEF TypeInv
    <3>2. CASE q = r
      BY <1>t, <2>0, <2>1, <2>2, <3>2 DEF TypeOK, CallTyped
    <3>3. CASE q # r
      BY <1>t, <2>1, <2>2, <3>1, <3>3 DEF TypeOK, CallTyped
    <3> QED BY <3>2, <3>3
  <2> QED BY <1>t, <2>1, <2>3, <2>4, <2>5, <2>6, <2>7, TypeQuiet DEF TypeOK
<1>12. ASSUME NEW r \in Completes, OpenStored(r) PROVE TypeInv'
  <2> DEFINE h == data[r]
             n == IF store[h] = None THEN <<r, "copy">> ELSE store[h]
  <2>1. /\ pc[r] = "open" /\ h \in Contents /\ n \in Inodes
    BY <1>0, <1>t, <1>12 DEF OpenStored, TypeOK
  <2>2. /\ UNCHANGED <<file, caseOf, chunkRow, chunk, temp, post, upload, data,
                       attachments, audited, answer, hurt>>
        /\ \/ /\ store' = [store EXCEPT ![h] = n] /\ content' = [content EXCEPT ![n] = Nothing]
              /\ fd' = [fd EXCEPT ![r] = n] /\ pc' = [pc EXCEPT ![r] = "copy"] /\ buf' = buf
           \/ /\ buf' = [buf EXCEPT ![r] = Nothing] /\ pc' = [pc EXCEPT ![r] = "cleanup"]
              /\ UNCHANGED <<store, content, fd>>
    BY <1>12 DEF OpenStored, Goto
  <2> HIDE DEF h, n
  <2>3. /\ store' \in [Contents -> Inodes \cup {None}]
        /\ content' \in [Inodes -> Contents]
        /\ fd' \in [Completes -> Inodes \cup {None}]
        /\ pc' \in [Completes -> Steps]
        /\ buf' \in [Completes -> Contents]
    <3>1. CASE store' = [store EXCEPT ![h] = n] /\ content' = [content EXCEPT ![n] = Nothing]
               /\ fd' = [fd EXCEPT ![r] = n] /\ pc' = [pc EXCEPT ![r] = "copy"] /\ buf' = buf
      <4>1. "copy" \in Steps /\ "cleanup" \in Steps
        BY DEF Steps
      <4> QED BY <1>0, <1>t, <2>1, <2>2, <3>1, <4>1 DEF TypeOK
    <3>2. CASE buf' = [buf EXCEPT ![r] = Nothing] /\ pc' = [pc EXCEPT ![r] = "cleanup"]
               /\ UNCHANGED <<store, content, fd>>
      BY <1>0, <1>t, <3>2 DEF TypeOK, Steps
    <3> QED BY <2>2, <3>1, <3>2
  <2>4. ASSUME NEW q \in Completes PROVE CallTyped(q)'
    <3>1. CallTyped(q)
      BY DEF TypeInv
    <3>2. CASE q = r
      BY <1>0, <1>t, <2>1, <2>2, <3>1, <3>2 DEF TypeOK, CallTyped
    <3>3. CASE q # r
      BY <1>t, <2>2, <3>1, <3>3 DEF TypeOK, CallTyped
    <3> QED BY <3>2, <3>3
  <2> QED BY <1>t, <2>2, <2>3, <2>4, TypeQuiet DEF TypeOK
<1>13. ASSUME Crash PROVE TypeInv'
  <2>1. Idle \in [step : {"idle", "write", "record"}, upload : Uploads \cup {None},
                  index : 0 .. MaxChunks - 1, body : Contents] /\ Idle.step = "idle"
    BY <1>0 DEF Idle
  <2>2. post' = [p \in Posts |-> Idle] /\ \A p \in Posts : post'[p].step = "idle"
    BY <1>13, <2>1 DEF Crash
  <2>3. pc' \in [Completes -> Steps] /\ \A r \in Completes : pc'[r] \in {"idle", "done"}
    BY <1>13, <1>t DEF Crash, InFlight, TypeOK, Steps
  <2>4. /\ answer' \in [Completes -> Completes \cup {None, "error"}]
        /\ fd' \in [Completes -> Inodes \cup {None}] /\ buf' \in [Completes -> Contents]
    BY <1>0, <1>13, <1>t DEF Crash, TypeOK
  <2>5. UNCHANGED <<file, caseOf, chunkRow, chunk, temp, store, content, upload, data,
                    attachments, audited, hurt>>
    BY <1>13 DEF Crash
  <2>6. TypeOK'
    BY <1>t, <2>1, <2>2, <2>3, <2>4, <2>5 DEF TypeOK
  <2> QED BY <2>2, <2>3, <2>5, <2>6 DEF TypeInv, PostTyped, CallTyped
<1>14. ASSUME UNCHANGED vars PROVE TypeInv'
  BY <1>14 DEF vars, TypeInv, TypeOK, PostTyped, CallTyped
<1> QED
  BY <1>1, <1>2, <1>3, <1>4, <1>5, <1>6, <1>7, <1>8, <1>9, <1>10, <1>11, <1>12, <1>13, <1>14
  DEF Next, HandlePost, HandleComplete

-----------------------------------------------------------------------------
LEMMA InodeNames ==
  /\ \A r \in Completes : <<r, "temp">> # None /\ <<r, "copy">> # None
  /\ \A r, q \in Completes : <<r, "temp">> # <<q, "copy">>
  /\ \A r, q \in Completes : <<r, "temp">> = <<q, "temp">> => r = q
  /\ \A r, q \in Completes : <<r, "copy">> = <<q, "copy">> => r = q
  /\ \A r \in Completes : <<r, "copy">> \notin TempInodes
  BY ConstantsAssumption DEF TempInodes

\* A step that gives no inode a path and no completion an inode.
LEMMA PathQuiet ==
  ASSUME PathInv, store' = store,
         \A u \in Uploads : temp'[u] \in {temp[u], None},
         \A q \in Completes : fd'[q] \in {fd[q], None},
         \A q \in Completes : pc'[q] \in BeforeCreate => pc[q] \in BeforeCreate,
         \A q \in Completes : pc'[q] \in BeforeCopy => pc[q] \in BeforeCopy,
         \A q \in Completes : pc'[q] = "copy" =>
           pc[q] = "copy" /\ fd'[q] = fd[q] /\ data'[q] = data[q],
         \A q \in Completes : pc'[q] = "copy" => fd[q] # None
  PROVE  PathInv'
<1>1. TempsApart' /\ StoresApart' /\ TempsNotStored'
  BY DEF PathInv, TempsApart, StoresApart, TempsNotStored
<1>2. ASSUME NEW q \in Completes PROVE TempUnmade(q)' /\ CopyUnmade(q)' /\ CopyApart(q)'
  <2>1. TempUnmade(q) /\ CopyUnmade(q) /\ CopyApart(q)
    BY DEF PathInv
  <2>2. TempUnmade(q)'
    BY <2>1, InodeNames DEF TempUnmade
  <2>3. CopyUnmade(q)'
    BY <2>1, InodeNames DEF CopyUnmade
  <2>4. CopyApart(q)'
    BY <2>1 DEF CopyApart
  <2> QED BY <2>2, <2>3, <2>4
<1> QED BY <1>1, <1>2 DEF PathInv

\* The completion takes its next step: what every action of one in flight does.
LEMMA NextStep ==
  ASSUME TypeOK, NEW r \in Completes, NEW step, pc' = [pc EXCEPT ![r] = step]
  PROVE  pc'[r] = step /\ \A q \in Completes : q # r => pc'[q] = pc[q]
  BY DEF TypeOK

LEMMA PathStep == TypeInv /\ PathInv /\ [Next]_vars => PathInv'
<1> SUFFICES ASSUME TypeInv, PathInv, [Next]_vars PROVE PathInv'
  OBVIOUS
<1> USE DEF given, fileVars, rowVars, callVars
<1>t. TypeOK
  BY DEF TypeInv
<1>c. \A q \in Completes : pc[q] = "copy" => fd[q] # None
  BY DEF TypeInv, CallTyped
\* A step of one completion that makes no file.
<1>q. ASSUME NEW r \in Completes, NEW step \in Steps \ {"copy"},
             pc' = [pc EXCEPT ![r] = step], step \in BeforeCreate => pc[r] \in BeforeCreate,
             step \in BeforeCopy => pc[r] \in BeforeCopy,
             \A u \in Uploads : temp'[u] \in {temp[u], None}, store' = store,
             \/ fd' = fd
             \/ fd' = [fd EXCEPT ![r] = None],
             \A q \in Completes : q # r => data'[q] = data[q]
      PROVE  PathInv'
  <2>1. pc'[r] = step /\ \A q \in Completes : q # r => pc'[q] = pc[q]
    BY <1>q, <1>t, NextStep
  <2>2. \A q \in Completes : fd'[q] \in {fd[q], None} /\ (q # r => fd'[q] = fd[q])
    BY <1>q, <1>t DEF TypeOK
  <2> QED BY <1>c, <1>q, <2>1, <2>2, PathQuiet
<1>1. ASSUME NEW u \in Uploads, InitUpload(u) PROVE PathInv'
  BY <1>1, <1>c, PathQuiet DEF InitUpload
<1>2. ASSUME NEW p \in Posts, HandlePost(p) PROVE PathInv'
  <2>1. UNCHANGED <<temp, store, pc, fd, data>>
    BY <1>2 DEF HandlePost, OpenChunk, WriteChunk, RecordChunk
  <2> QED BY <1>c, <2>1, PathQuiet
<1>3. ASSUME NEW r \in Completes,
             \/ ReadRows(r) \/ ReadChunk(r) \/ FileCallFails(r) \/ WriteTemp(r)
             \/ Deduplicate(r) \/ PassDedupe(r) \/ RenameFails(r) \/ ReadTemp(r)
             \/ WriteStored(r) \/ InsertRow(r) \/ AppendAudit(r) \/ Commit(r) \/ CommitFails(r)
      PROVE  PathInv'
  <2>1. /\ UNCHANGED <<temp, store>>
        /\ fd' = fd \/ fd' = [fd EXCEPT ![r] = None]
        /\ \A q \in Completes : q # r => data'[q] = data[q]
    BY <1>3, <1>t
    DEF ReadRows, ReadChunk, FileCallFails, WriteTemp, Deduplicate, PassDedupe, RenameFails,
        ReadTemp, WriteStored, InsertRow, AppendAudit, Commit, CommitFails, TypeOK
  <2>2. \E step \in Steps \ {"copy"} :
          /\ pc' = [pc EXCEPT ![r] = step]
          /\ step \in BeforeCreate => pc[r] \in BeforeCreate
          /\ step \in BeforeCopy => pc[r] \in BeforeCopy
    BY <1>3
    DEF ReadRows, ReadChunk, FileCallFails, WriteTemp, Deduplicate, PassDedupe, RenameFails,
        ReadTemp, WriteStored, InsertRow, AppendAudit, Commit, CommitFails, Answer, Goto,
        Steps, BeforeCreate, BeforeCopy
  <2> QED BY <1>q, <2>1, <2>2
<1>4. ASSUME NEW r \in Completes, RemoveTemp(r) PROVE PathInv'
  <2>1. /\ UNCHANGED <<store, fd, data>>
        /\ \A u \in Uploads : temp'[u] \in {temp[u], None}
    BY <1>4, <1>t DEF RemoveTemp, TypeOK
  <2>2. \E step \in Steps \ {"copy"} :
          /\ pc' = [pc EXCEPT ![r] = step]
          /\ step \in BeforeCreate => pc[r] \in BeforeCreate
          /\ step \in BeforeCopy => pc[r] \in BeforeCopy
    BY <1>4 DEF RemoveTemp, Goto, Steps, BeforeCreate, BeforeCopy
  <2> QED BY <1>q, <2>1, <2>2
<1>5. ASSUME NEW r \in Completes, CreateTemp(r) PROVE PathInv'
  <2> DEFINE u == upload[r]
             n == IF temp[u] = None THEN <<r, "temp">> ELSE temp[u]
  <2>1. /\ pc[r] = "create" /\ u \in Uploads /\ pc' = [pc EXCEPT ![r] = "read"]
        /\ temp' = [temp EXCEPT ![u] = n] /\ fd' = [fd EXCEPT ![r] = n]
        /\ store' = store /\ data' = data
    BY <1>5 DEF CreateTemp, Goto, TypeInv, CallTyped
  <2>2. /\ n # None /\ n \in TempInodes
        /\ \A v \in Uploads : v # u => temp[v] # n
        /\ \A h \in Contents : store[h] # n
        /\ \A q \in Completes : q # r /\ pc[q] \in BeforeCreate => n # <<q, "temp">>
        /\ \A q \in Completes : pc[q] = "copy" => fd[q] # n
    <3>1. CASE temp[u] = None
      <4>1. n = <<r, "temp">> /\ TempUnmade(r) /\ pc[r] \in BeforeCreate
        BY <2>1, <3>1 DEF PathInv, BeforeCreate
      <4> QED BY <4>1, InodeNames DEF TempUnmade, TempInodes
    <3>2. CASE temp[u] # None
      <4>1. n = temp[u] /\ temp[u] \in TempInodes
        BY <2>1, <3>2 DEF TypeInv
      <4> QED
        BY <2>1, <3>2, <4>1 DEF PathInv, TempsApart, TempsNotStored, TempUnmade, CopyApart
    <3> QED BY <3>1, <3>2
  <2> HIDE DEF n, u
  <2>3. /\ \A v \in Uploads : temp'[v] = IF v = u THEN n ELSE temp[v]
        /\ \A q \in Completes : fd'[q] = IF q = r THEN n ELSE fd[q]
    BY <1>t, <2>1 DEF TypeOK
  <2>4. pc'[r] = "read" /\ \A q \in Completes : q # r => pc'[q] = pc[q]
    BY <1>t, <2>1, NextStep
  <2>5. TempsApart' /\ StoresApart' /\ TempsNotStored'
    BY <2>1, <2>2, <2>3 DEF PathInv, TempsApart, StoresApart, TempsNotStored
  <2>6. ASSUME NEW q \in Completes PROVE TempUnmade(q)' /\ CopyUnmade(q)' /\ CopyApart(q)'
    <3>1. TempUnmade(q) /\ CopyUnmade(q) /\ CopyApart(q)
      BY DEF PathInv
    <3>2. TempUnmade(q)'
      <4>1. pc'[q] \in BeforeCreate => q # r /\ pc[q] \in BeforeCreate
        BY <2>4 DEF BeforeCreate
      <4> QED BY <2>1, <2>2, <2>3, <3>1, <4>1 DEF TempUnmade
    <3>3. CopyUnmade(q)'
      <4>1. pc'[q] \in BeforeCopy => pc[q] \in BeforeCopy
        BY <2>1, <2>4 DEF BeforeCopy, Steps
      <4>2. n # <<q, "copy">>
        BY <2>2, InodeNames
      <4> QED BY <2>1, <2>3, <3>1, <4>1, <4>2 DEF CopyUnmade
    <3>4. CopyApart(q)'
      BY <2>1, <2>2, <2>3, <2>4, <3>1 DEF CopyApart
    <3> QED BY <3>2, <3>3, <3>4
  <2> QED BY <2>5, <2>6 DEF PathInv
<1>6. ASSUME NEW r \in Completes, RenameTemp(r) PROVE PathInv'
  <2> DEFINE u == upload[r]
             g == data[r]
             n == temp[u]
  <2>1. /\ pc[r] = "rename" /\ u \in Uploads /\ g \in Contents /\ n # None
        /\ pc' = [pc EXCEPT ![r] = "insert"]
        /\ store' = [store EXCEPT ![g] = n] /\ temp' = [temp EXCEPT ![u] = None]
        /\ fd' = fd /\ data' = data
    BY <1>6, <1>t DEF RenameTemp, Goto, TypeInv, TypeOK, CallTyped
  <2>2. /\ n \in TempInodes
        /\ \A v \in Uploads : v # u => temp[v] # n
        /\ \A h \in Contents : store[h] # n
        /\ \A q \in Completes : pc[q] \in BeforeCreate => n # <<q, "temp">>
        /\ \A q \in Completes : pc[q] = "copy" => fd[q] # n
    BY <2>1 DEF TypeInv, PathInv, TempsApart, TempsNotStored, TempUnmade, CopyApart
  <2> HIDE DEF n, u, g
  <2>3. /\ \A v \in Uploads : temp'[v] = IF v = u THEN None ELSE temp[v]
        /\ \A h \in Contents : store'[h] = IF h = g THEN n ELSE store[h]
    BY <1>t, <2>1 DEF TypeOK
  <2>4. pc'[r] = "insert" /\ \A q \in Completes : q # r => pc'[q] = pc[q]
    BY <1>t, <2>1, NextStep
  <2>5. TempsApart' /\ StoresApart' /\ TempsNotStored'
    <3>1. TempsApart'
      BY <2>3 DEF PathInv, TempsApart
    <3>2. StoresApart'
      BY <2>2, <2>3 DEF PathInv, StoresApart
    <3>3. TempsNotStored'
      BY <2>2, <2>3 DEF PathInv, TempsNotStored
    <3> QED BY <3>1, <3>2, <3>3
  <2>6. ASSUME NEW q \in Completes PROVE TempUnmade(q)' /\ CopyUnmade(q)' /\ CopyApart(q)'
    <3>1. TempUnmade(q) /\ CopyUnmade(q) /\ CopyApart(q)
      BY DEF PathInv
    <3>2. TempUnmade(q)'
      <4>1. pc'[q] \in BeforeCreate => pc[q] \in BeforeCreate
        BY <2>4 DEF BeforeCreate
      <4> QED BY <2>1, <2>2, <2>3, <3>1, <4>1, InodeNames DEF TempUnmade
    <3>3. CopyUnmade(q)'
      <4>1. pc'[q] \in BeforeCopy => pc[q] \in BeforeCopy
        BY <2>1, <2>4 DEF BeforeCopy, Steps
      <4>2. n # <<q, "copy">>
        BY <2>2, InodeNames
      <4> QED BY <2>1, <2>3, <3>1, <4>1, <4>2 DEF CopyUnmade
    <3>4. CopyApart(q)'
      <4>1. pc'[q] = "copy" => pc[q] = "copy" /\ fd[q] # None
        BY <1>c, <2>4
      <4> QED BY <2>1, <2>2, <2>3, <3>1, <4>1 DEF CopyApart
    <3> QED BY <3>2, <3>3, <3>4
  <2> QED BY <2>5, <2>6 DEF PathInv
<1>7. ASSUME NEW r \in Completes, OpenStored(r) PROVE PathInv'
  <2> DEFINE g == data[r]
             n == IF store[g] = None THEN <<r, "copy">> ELSE store[g]
  <2>1. /\ pc[r] = "open" /\ g \in Contents /\ temp' = temp /\ data' = data
        /\ \/ /\ store' = [store EXCEPT ![g] = n] /\ fd' = [fd EXCEPT ![r] = n]
              /\ pc' = [pc EXCEPT ![r] = "copy"]
           \/ pc' = [pc EXCEPT ![r] = "cleanup"] /\ UNCHANGED <<store, fd>>
    BY <1>7, <1>t DEF OpenStored, Goto, TypeOK
  <2>2. /\ n # None
        /\ \A h \in Contents : h # g => store[h] # n
        /\ \A v \in Uploads : temp[v] # n
        /\ \A q \in Completes : pc[q] \in BeforeCreate => n # <<q, "temp">>
        /\ \A q \in Completes : q # r /\ pc[q] \in BeforeCopy => n # <<q, "copy">>
        /\ \A q \in Completes : pc[q] = "copy" /\ fd[q] = n => data[q] = g
    <3>1. CASE store[g] = None
      <4>1. n = <<r, "copy">> /\ CopyUnmade(r) /\ pc[r] \in BeforeCopy
        BY <2>1, <3>1 DEF PathInv, BeforeCopy, Steps
      <4>2. \A v \in Uploads : temp[v] # n
        BY <4>1, InodeNames DEF TypeInv
      <4> QED BY <4>1, <4>2, InodeNames DEF CopyUnmade
    <3>2. CASE store[g] # None
      <4>1. n = store[g]
        BY <3>2
      <4> QED
        BY <2>1, <3>2, <4>1
        DEF PathInv, StoresApart, TempsNotStored, TempUnmade, CopyUnmade, CopyApart
    <3> QED BY <3>1, <3>2
  <2> HIDE DEF n, g
  <2>3. CASE /\ store' = [store EXCEPT ![g] = n] /\ fd' = [fd EXCEPT ![r] = n]
             /\ pc' = [pc EXCEPT ![r] = "copy"]
    <3>1. /\ \A h \in Contents : store'[h] = IF h = g THEN n ELSE store[h]
          /\ \A q \in Completes : fd'[q] = IF q = r THEN n ELSE fd[q]
      BY <1>t, <2>1, <2>3 DEF TypeOK
    <3>2. pc'[r] = "copy" /\ \A q \in Completes : q # r => pc'[q] = pc[q]
      BY <1>t, <2>3, NextStep
    <3>3. TempsApart' /\ StoresApart' /\ TempsNotStored'
      BY <2>1, <2>2, <3>1 DEF PathInv, TempsApart, StoresApart, TempsNotStored
    <3>4. ASSUME NEW q \in Completes PROVE TempUnmade(q)' /\ CopyUnmade(q)' /\ CopyApart(q)'
      <4>1. TempUnmade(q) /\ CopyUnmade(q) /\ CopyApart(q)
        BY DEF PathInv
      <4>2. TempUnmade(q)'
        <5>1. pc'[q] \in BeforeCreate => pc[q] \in BeforeCreate
          BY <3>2 DEF BeforeCreate
        <5> QED BY <2>1, <2>2, <3>1, <4>1, <5>1 DEF TempUnmade
      <4>3. CopyUnmade(q)'
        <5>1. pc'[q] \in BeforeCopy => q # r /\ pc[q] \in BeforeCopy
          BY <3>2 DEF BeforeCopy
        <5> QED BY <2>1, <2>2, <3>1, <4>1, <5>1 DEF CopyUnmade
      <4>4. CopyApart(q)'
        <5>1. CASE q = r
          BY <2>1, <2>2, <3>1, <5>1 DEF CopyApart, g
        <5>2. CASE q # r
          BY <2>1, <2>2, <3>1, <3>2, <4>1, <5>2 DEF CopyApart
        <5> QED BY <5>1, <5>2
      <4> QED BY <4>2, <4>3, <4>4
    <3> QED BY <3>3, <3>4 DEF PathInv
  <2>4. CASE pc' = [pc EXCEPT ![r] = "cleanup"] /\ UNCHANGED <<store, fd>>
    BY <1>q, <2>1, <2>4 DEF Steps, BeforeCreate, BeforeCopy
  <2> QED BY <2>1, <2>3, <2>4
<1>8. ASSUME Crash PROVE PathInv'
  <2>1. /\ UNCHANGED <<temp, store, data>>
        /\ \A q \in Completes : pc'[q] = "done" \/ (pc[q] \in {"idle", "done"} /\ pc'[q] = pc[q])
        /\ \A q \in Completes : fd'[q] = None
    BY <1>8 DEF Crash, InFlight
  <2>2. \A q \in Completes : (pc'[q] \in BeforeCreate => pc[q] \in BeforeCreate)
                             /\ (pc'[q] \in BeforeCopy => pc[q] \in BeforeCopy)
                             /\ pc'[q] # "copy"
    BY <2>1 DEF BeforeCreate, BeforeCopy, Steps
  <2> QED BY <2>1, <2>2, PathQuiet
<1>9. ASSUME UNCHANGED vars PROVE PathInv'
  BY <1>9, <1>c, PathQuiet DEF vars
<1> QED
  BY <1>1, <1>2, <1>3, <1>4, <1>5, <1>6, <1>7, <1>8, <1>9 DEF Next, HandleComplete

LEMMA UploadInit == Init => UploadInv
<1> SUFFICES ASSUME Init PROVE UploadInv
  OBVIOUS
<1>0. /\ Nothing \in Contents /\ 0 \in 0 .. MaxChunks - 1
      /\ \A r \in Completes : None # <<r, "temp">> /\ None # <<r, "copy">>
  BY NothingType, ConstantsAssumption
<1>1. TypeInv
  <2>1. Idle \in [step : {"idle", "write", "record"}, upload : Uploads \cup {None},
                  index : 0 .. MaxChunks - 1, body : Contents] /\ Idle.step = "idle"
    BY <1>0 DEF Idle
  <2>2. TypeOK
    BY <1>0, <2>1 DEF Init, TypeOK, Steps
  <2>3. \A p \in Posts : PostTyped(p)
    BY <2>1 DEF Init, PostTyped
  <2>4. \A r \in Completes : CallTyped(r)
    BY DEF Init, CallTyped
  <2> QED BY <2>2, <2>3, <2>4 DEF Init, TypeInv
<1>2. PathInv
  BY <1>0
  DEF Init, PathInv, TempsApart, StoresApart, TempsNotStored, TempUnmade, CopyUnmade, CopyApart
<1> QED BY <1>1, <1>2 DEF UploadInv

LEMMA UploadPreserved == UploadInv /\ [Next]_vars => UploadInv'
  BY TypeStep, PathStep DEF UploadInv

\* Whatever calls overlap, fail or are cut short by a crash: the types, and that
\* no file is at two paths.
THEOREM UploadInvariant == Spec => []UploadInv
  BY UploadInit, UploadPreserved, PTL DEF Spec

\* The types of attachments, files and calls (attachments.go).
THEOREM TypeCorrect == Spec => []TypeOK
<1>1. UploadInv => TypeOK
  BY DEF UploadInv, TypeInv
<1> QED BY UploadInvariant, <1>1, PTL

-----------------------------------------------------------------------------
\* Clients send their files' chunks: whoever may still write to a file writes the
\* beginning of what belongs there, the chunk of the upload while it is assembled,
\* and the content of the hash once it is stored.
Fills(r) == pc[r] \in {"read", "write"}
HasData(r) == pc[r] \notin {"idle", "create", "read", "done"}
HasBuf(r) == pc[r] \in {"open", "copy"}

PostData(p) ==
  post[p].step = "write" /\ post[p].index = 0 => post[p].body = Part(post[p].upload)
ChunkData(u) == chunk[u][0] # None => Within(chunk[u][0], Part(u))
CallData(r) ==
  /\ HasData(r) => Within(data[r], Part(upload[r]))
  /\ HasBuf(r) => Within(buf[r], Part(upload[r]))

TempData(u) ==
  temp[u] # None =>
    /\ Within(content[temp[u]], Part(u))
    /\ \A r \in Completes : Fills(r) /\ fd[r] = temp[u] => upload[r] = u

StoreData(h) ==
  store[h] # None =>
    /\ Agree(content[store[h]], h)
    /\ \A r \in Completes : Fills(r) /\ fd[r] = store[h] => Agree(Part(upload[r]), h)

SteadyInv ==
  /\ \A p \in Posts : PostData(p)
  /\ \A u \in Uploads : ChunkData(u) /\ TempData(u)
  /\ \A r \in Completes : CallData(r)
  /\ \A h \in Contents : StoreData(h)

\* A step that changes no stored or assembled file, and starts no writer.
LEMMA SteadyQuiet ==
  ASSUME SteadyInv, UNCHANGED <<file, content>>,
         \A u \in Uploads : temp'[u] \in {temp[u], None},
         \A h \in Contents : store'[h] = store[h],
         \A p \in Posts : PostData(p)',
         \A u \in Uploads : ChunkData(u)',
         \A r \in Completes : CallData(r)',
         \A r \in Completes : Fills(r)' =>
           Fills(r) /\ upload'[r] = upload[r] /\ fd'[r] = fd[r]
  PROVE  SteadyInv'
<1>1. ASSUME NEW u \in Uploads PROVE TempData(u)'
  BY DEF SteadyInv, TempData, Part
<1>2. ASSUME NEW h \in Contents PROVE StoreData(h)'
  BY DEF SteadyInv, StoreData, Part
<1> QED BY <1>1, <1>2 DEF SteadyInv

\* A call that keeps its upload and what it read keeps what is known of it.
LEMMA CallDataKept ==
  ASSUME NEW q \in Completes, CallData(q), upload'[q] = upload[q], file' = file,
         HasData(q)' => HasData(q) /\ data'[q] = data[q],
         HasBuf(q)' => HasBuf(q) /\ buf'[q] = buf[q]
  PROVE  CallData(q)'
  BY DEF CallData, Part

LEMMA SteadyStep ==
  ASSUME UploadInv, UploadInv', SteadyInv, [SteadyNext]_vars
  PROVE  SteadyInv'
<1> USE DEF given, fileVars, rowVars, callVars
<1>t. TypeInv /\ TypeOK /\ PathInv /\ PathInv'
  BY DEF UploadInv, TypeInv
<1>0. 0 \in 0 .. MaxChunks - 1 /\ Nothing \in Contents
  BY ConstantsAssumption, NothingType
<1>f. \A u \in Uploads : Part(u) \in Contents
  BY <1>t, PartType DEF TypeOK
\* A step of a completion that reads and writes no file.
<1>q. ASSUME NEW r \in Completes, NEW step \in Steps \ {"read", "write", "open", "copy"},
             pc' = [pc EXCEPT ![r] = step],
             HasData(r) \/ step \in {"create", "done"},
             UNCHANGED <<file, chunk, store, content, post, data>>,
             \A u \in Uploads : temp'[u] \in {temp[u], None},
             \A q \in Completes : q # r => upload'[q] = upload[q] /\ fd'[q] = fd[q] /\ buf'[q] = buf[q],
             HasData(r) => upload'[r] = upload[r]
      PROVE  SteadyInv'
  <2>1. pc'[r] = step /\ \A q \in Completes : q # r => pc'[q] = pc[q]
    BY <1>q, <1>t, NextStep
  <2>2. ASSUME NEW q \in Completes PROVE CallData(q)'
    <3>1. CallData(q)
      BY DEF SteadyInv
    <3>2. CASE q = r
      BY <1>q, <2>1, <3>1, <3>2 DEF CallData, HasData, HasBuf, Part
    <3>3. CASE q # r
      BY <1>q, <2>1, <3>1, <3>3 DEF CallData, HasData, HasBuf, Part
    <3> QED BY <3>2, <3>3
  <2>3. \A p \in Posts : PostData(p)'
    BY <1>q DEF SteadyInv, PostData, Part
  <2>4. \A u \in Uploads : ChunkData(u)'
    BY <1>q DEF SteadyInv, ChunkData, Part
  <2>5. \A q \in Completes : Fills(q)' =>
          Fills(q) /\ upload'[q] = upload[q] /\ fd'[q] = fd[q]
    BY <1>q, <2>1 DEF Fills
  <2> QED BY <1>q, <2>2, <2>3, <2>4, <2>5, SteadyQuiet
<1>1. ASSUME NEW u \in Uploads, InitUpload(u) PROVE SteadyInv'
  <2>1. UNCHANGED <<file, chunk, temp, store, content, post, pc, upload, fd, data, buf>>
    BY <1>1 DEF InitUpload
  <2> QED
    BY <2>1 DEF SteadyInv, PostData, ChunkData, TempData, CallData, StoreData, Part, Fills,
                HasData, HasBuf
<1>2. ASSUME NEW p \in Posts, HandlePost(p),
             \A q \in Posts : post'[q].step = "write" => Sends(q)'
      PROVE  SteadyInv'
  <2>1. UNCHANGED <<file, temp, store, content, pc, upload, fd, data, buf>>
    BY <1>2 DEF HandlePost, OpenChunk, WriteChunk, RecordChunk
  <2>2. \A r \in Completes : CallData(r)'
    BY <2>1 DEF SteadyInv, CallData, HasData, HasBuf, Part
  <2>3. \A q \in Posts : PostData(q)'
    BY <1>2 DEF PostData, Sends, Part
  <2>4. ASSUME NEW v \in Uploads PROVE ChunkData(v)'
    <3>0. ChunkData(v)
      BY DEF SteadyInv
    <3>1. CASE RecordChunk(p)
      BY <3>0, <3>1, <2>1 DEF RecordChunk, ChunkData, Part
    <3>2. ASSUME NEW u \in Uploads, NEW i \in 0 .. MaxChunks - 1, NEW c \in Contents,
                 chunk' = [chunk EXCEPT ![u][i] = c],
                 i = 0 => Within(c, Part(u))
          PROVE  ChunkData(v)'
      <4>1. /\ chunk'[u][i] = c
            /\ v # u \/ 0 # i => chunk'[v][0] = chunk[v][0]
        BY <1>0, <1>t, <3>2, ChunkWritten
      <4> QED BY <2>1, <3>0, <3>2, <4>1 DEF ChunkData, Part
    <3>3. CASE OpenChunk(p)
      <4>1. PICK u \in Uploads, i \in 0 .. MaxChunks - 1 :
              chunk' = [chunk EXCEPT ![u][i] = Nothing]
        BY <1>t, <3>3, PostSteps
      <4> QED BY <1>0, <3>2, <4>1, NothingType
    <3>4. CASE WriteChunk(p)
      <4> DEFINE u == post[p].upload
                 i == post[p].index
                 b == post[p].body
      <4>1. /\ post[p].step = "write" /\ u \in Uploads /\ i \in 0 .. MaxChunks - 1
            /\ b \in Contents /\ chunk[u][i] \in Contents
        BY <1>t, <3>4, PostSteps
      <4>2. PICK w \in Written(b) : chunk' = [chunk EXCEPT ![u][i] = Over(w, chunk[u][i])]
        BY <1>t, <3>4, PostSteps
      <4>3. i = 0 => Within(b, Part(u)) /\ Within(chunk[u][0], Part(u))
        <5>1. PostData(p) /\ ChunkData(u)
          BY <4>1 DEF SteadyInv
        <5>2. chunk[u][i] # None
          BY <4>1, ConstantsAssumption
        <5> QED BY <4>1, <5>1, <5>2, WithinFacts DEF PostData, ChunkData
      <4> HIDE DEF u, i, b
      <4>4. w \in Contents /\ Within(w, b)
        BY <4>1, WrittenType
      <4>5. Over(w, chunk[u][i]) \in Contents
        BY <4>1, <4>4, OverType
      <4>6. i = 0 => Within(Over(w, chunk[u][i]), Part(u))
        BY <4>3, <4>4, WithinFacts, OverWithin
      <4> QED BY <3>2, <4>1, <4>2, <4>5, <4>6
    <3> QED BY <1>2, <3>1, <3>3, <3>4 DEF HandlePost
  <2> QED BY <2>1, <2>2, <2>3, <2>4, SteadyQuiet DEF Fills
<1>3. ASSUME NEW r \in Completes,
             \/ ReadRows(r) \/ FileCallFails(r) \/ Deduplicate(r) \/ PassDedupe(r)
             \/ RemoveTemp(r) \/ RenameFails(r) \/ InsertRow(r) \/ AppendAudit(r)
             \/ Commit(r) \/ CommitFails(r)
      PROVE  SteadyInv'
  <2>1. /\ UNCHANGED <<file, chunk, store, content, post, data, buf>>
        /\ \A q \in Completes : q # r => upload'[q] = upload[q] /\ fd'[q] = fd[q]
    BY <1>3, <1>t
    DEF ReadRows, FileCallFails, Deduplicate, PassDedupe, RemoveTemp, RenameFails, InsertRow,
        AppendAudit, Commit, CommitFails, TypeOK
  <2>2. PICK step \in Steps \ {"read", "write", "open", "copy"} :
          /\ pc' = [pc EXCEPT ![r] = step]
          /\ HasData(r) \/ step \in {"create", "done"}
    BY <1>3
    DEF ReadRows, FileCallFails, Deduplicate, PassDedupe, RemoveTemp, RenameFails, InsertRow,
        AppendAudit, Commit, CommitFails, Answer, Goto, Steps, HasData
  <2>3. HasData(r) => upload'[r] = upload[r]
    BY <1>3
    DEF ReadRows, FileCallFails, Deduplicate, PassDedupe, RemoveTemp, RenameFails, InsertRow,
        AppendAudit, Commit, CommitFails, HasData
  <2>4. \A u \in Uploads : temp'[u] \in {temp[u], None}
    BY <1>3, <1>t
    DEF ReadRows, FileCallFails, Deduplicate, PassDedupe, RemoveTemp, RenameFails, InsertRow,
        AppendAudit, Commit, CommitFails, TypeOK
  <2> QED BY <1>q, <2>1, <2>2, <2>3, <2>4
<1>4. ASSUME NEW r \in Completes, ReadChunk(r) \/ ReadTemp(r) PROVE SteadyInv'
  <2>0. upload[r] \in Uploads
    BY <1>4, <1>t DEF ReadChunk, ReadTemp, TypeInv, CallTyped
  <2>1. /\ UNCHANGED <<file, chunk, temp, store, content, post, upload>>
        /\ \A q \in Completes : q # r =>
             pc'[q] = pc[q] /\ data'[q] = data[q] /\ buf'[q] = buf[q] /\ fd'[q] = fd[q]
    BY <1>4, <1>t DEF ReadChunk, ReadTemp, Answer, Goto, TypeOK
  <2>2. CallData(r)'
    <3>1. CASE ReadChunk(r)
      <4> DEFINE c == chunk[upload[r]][0]
      <4>1. \/ pc'[r] = "done"
            \/ pc'[r] = "write" /\ c # None /\ data'[r] = c
        BY <3>1, <1>t DEF ReadChunk, Answer, Goto, TypeOK
      <4>2. c # None => Within(c, Part(upload[r]))
        BY <2>0 DEF SteadyInv, ChunkData
      <4> QED BY <2>1, <4>1, <4>2 DEF CallData, HasData, HasBuf, Part
    <3>2. CASE ReadTemp(r)
      <4> DEFINE u == upload[r]
                 b == IF temp[u] = None THEN Nothing ELSE content[temp[u]]
      <4>1. b \in Contents
        BY <1>0, <1>t, <2>0 DEF TypeOK
      <4>2. Within(b, Part(u))
        <5>1. TempData(u)
          BY <2>0 DEF SteadyInv
        <5> QED BY <5>1, NothingType DEF TempData
      <4>3. PICK c \in Written(b) : buf' = [buf EXCEPT ![r] = c]
        BY <3>2 DEF ReadTemp
      <4>4. /\ pc[r] = "fallback" /\ pc'[r] = "open" /\ data' = data /\ buf'[r] = c
        BY <3>2, <1>t, <4>3 DEF ReadTemp, Goto, TypeOK
      <4> HIDE DEF b, u
      <4>5. Within(c, Part(u))
        BY <4>1, <4>2, WrittenType, WithinFacts
      <4>6. CallData(r)
        BY DEF SteadyInv
      <4> QED BY <2>1, <4>4, <4>5, <4>6 DEF CallData, HasData, HasBuf, Part, u
    <3> QED BY <1>4, <3>1, <3>2
  <2>3. \A q \in Completes : CallData(q)'
    <3>1. ASSUME NEW q \in Completes, q # r PROVE CallData(q)'
      BY <2>1, <3>1 DEF SteadyInv, CallData, HasData, HasBuf, Part
    <3> QED BY <2>2, <3>1
  <2>4. \A q \in Completes : Fills(q)' =>
          Fills(q) /\ upload'[q] = upload[q] /\ fd'[q] = fd[q]
    <3>1. Fills(r)' => Fills(r) /\ fd'[r] = fd[r]
      BY <1>4, <1>t DEF ReadChunk, ReadTemp, Answer, Goto, TypeOK, Fills
    <3> QED BY <2>1, <3>1 DEF Fills
  <2>5. (\A p \in Posts : PostData(p)') /\ (\A u \in Uploads : ChunkData(u)')
    BY <2>1 DEF SteadyInv, PostData, ChunkData, Part
  <2> QED BY <2>1, <2>3, <2>4, <2>5, SteadyQuiet
<1>5. ASSUME NEW r \in Completes, CreateTemp(r) PROVE SteadyInv'
  <2> DEFINE u == upload[r]
             n == IF temp[u] = None THEN <<r, "temp">> ELSE temp[u]
  <2>1. /\ pc[r] = "create" /\ u \in Uploads /\ pc' = [pc EXCEPT ![r] = "read"]
        /\ temp' = [temp EXCEPT ![u] = n] /\ fd' = [fd EXCEPT ![r] = n]
        /\ content' = [content EXCEPT ![n] = Nothing]
        /\ UNCHANGED <<file, store, chunk, post, upload, data, buf>>
    BY <1>5, <1>t DEF CreateTemp, Goto, TypeInv, CallTyped
  <2>2. n # None /\ n \in Inodes
    BY <1>t, <2>1, InodeNames DEF TypeInv, TypeOK, Inodes, TempInodes
  <2>3. \A q \in Completes : Fills(q) /\ fd[q] = n => upload[q] = u
    BY <1>t, <2>1, InodeNames DEF PathInv, TempUnmade, BeforeCreate, SteadyInv, TempData
  <2> HIDE DEF n, u
  <2>4. /\ \A v \in Uploads : temp'[v] = IF v = u THEN n ELSE temp[v]
        /\ \A q \in Completes : fd'[q] = IF q = r THEN n ELSE fd[q]
        /\ \A m \in Inodes : content'[m] = IF m = n THEN Nothing ELSE content[m]
    BY <1>t, <2>1 DEF TypeOK
  <2>5. pc'[r] = "read" /\ \A q \in Completes : q # r => pc'[q] = pc[q]
    BY <1>t, <2>1, NextStep
  <2>6. \A q \in Completes : q # r => (Fills(q)' <=> Fills(q))
    BY <2>5 DEF Fills
  <2>7. ASSUME NEW v \in Uploads, temp'[v] # None
        PROVE  /\ Within(content'[temp'[v]], Part(v)')
               /\ \A q \in Completes : Fills(q)' /\ fd'[q] = temp'[v] => upload'[q] = v
    <3>1. CASE v = u
      BY <2>1, <2>2, <2>3, <2>4, <2>6, <3>1, NothingType DEF u
    <3>2. CASE v # u
      <4>1. temp'[v] = temp[v] /\ temp[v] # n /\ temp[v] \in Inodes
        BY <1>t, <2>1, <2>2, <2>4, <2>7, <3>2 DEF PathInv, TempsApart, TypeOK
      <4>2. TempData(v)
        BY DEF SteadyInv
      <4> QED BY <2>1, <2>4, <2>6, <2>7, <4>1, <4>2 DEF TempData, Part
    <3> QED BY <3>1, <3>2
  <2>8. ASSUME NEW h \in Contents, store'[h] # None
        PROVE  /\ Agree(content'[store'[h]], h)
               /\ \A q \in Completes : Fills(q)' /\ fd'[q] = store'[h] => Agree(Part(upload[q])', h)
    <3>1. store'[h] = store[h] /\ store[h] # n /\ store[h] \in Inodes
      BY <1>t, <2>1, <2>2, <2>4, <2>8 DEF PathInv, TempsNotStored, TypeOK
    <3>2. StoreData(h)
      BY DEF SteadyInv
    <3> QED BY <2>1, <2>4, <2>6, <2>8, <3>1, <3>2 DEF StoreData, Part
  <2>9. ASSUME NEW q \in Completes PROVE CallData(q)'
    <3>1. CallData(q) /\ (HasData(q)' => HasData(q)) /\ (HasBuf(q)' => HasBuf(q))
      BY <2>5 DEF SteadyInv, HasData, HasBuf
    <3> QED BY <2>1, <3>1, CallDataKept
  <2>10. (\A p \in Posts : PostData(p)') /\ (\A v \in Uploads : ChunkData(v)')
    BY <2>1 DEF SteadyInv, PostData, ChunkData, Part
  <2> QED BY <2>7, <2>8, <2>9, <2>10 DEF SteadyInv, TempData, StoreData
\* A completion writes the beginning of b to the inode it has open.
<1>w. ASSUME NEW r \in Completes, NEW step \in {"dedupe", "cleanup"},
             NEW b \in Contents, NEW w \in Written(b),
             pc[r] \in {"write", "copy"}, pc' = [pc EXCEPT ![r] = step],
             content' = [content EXCEPT ![fd[r]] = Over(w, content[fd[r]])],
             fd' = [fd EXCEPT ![r] = None],
             UNCHANGED <<file, chunk, temp, store, post, upload, data>>,
             \A q \in Completes : q # r => buf'[q] = buf[q],
             \A v \in Uploads : temp[v] = fd[r] => Within(b, Part(v)),
             \A h \in Contents : store[h] = fd[r] => Agree(b, h)
      PROVE  SteadyInv'
  <2>1. fd[r] \in Inodes
    BY <1>w, <1>t DEF TypeInv, TypeOK, CallTyped
  <2>2. \A m \in Inodes : content'[m] = IF m = fd[r] THEN Over(w, content[fd[r]]) ELSE content[m]
    BY <1>w, <1>t DEF TypeOK
  <2>3. Within(w, b)
    BY <1>w, WrittenType
  <2>4. pc'[r] = step /\ \A q \in Completes : q # r => pc'[q] = pc[q]
    BY <1>w, <1>t, NextStep
  <2>5. \A q \in Completes : Fills(q)' => Fills(q) /\ fd'[q] = fd[q]
    BY <1>w, <1>t, <2>4 DEF Fills, TypeOK
  <2>6. ASSUME NEW v \in Uploads PROVE TempData(v)'
    <3> SUFFICES ASSUME temp[v] # None
                 PROVE  /\ Within(content'[temp[v]], Part(v))
                        /\ \A q \in Completes : Fills(q)' /\ fd'[q] = temp[v] => upload[q] = v
      BY <1>w DEF TempData, Part
    <3>1. TempData(v) /\ temp[v] \in Inodes
      BY <1>t DEF SteadyInv, TypeOK
    <3>2. CASE temp[v] = fd[r]
      <4>1. Within(w, Part(v)) /\ Within(content[fd[r]], Part(v))
        BY <1>w, <2>3, <3>1, <3>2, WithinFacts DEF TempData
      <4>2. Within(Over(w, content[fd[r]]), Part(v))
        BY <4>1, OverWithin
      <4> QED BY <2>1, <2>2, <2>5, <3>1, <3>2, <4>2 DEF TempData
    <3>3. CASE temp[v] # fd[r]
      BY <2>2, <2>5, <3>1, <3>3 DEF TempData
    <3> QED BY <3>2, <3>3
  <2>7. ASSUME NEW h \in Contents PROVE StoreData(h)'
    <3> SUFFICES ASSUME store[h] # None
                 PROVE  /\ Agree(content'[store[h]], h)
                        /\ \A q \in Completes : Fills(q)' /\ fd'[q] = store[h] => Agree(Part(upload[q]), h)
      BY <1>w DEF StoreData, Part
    <3>1. StoreData(h) /\ store[h] \in Inodes
      BY <1>t DEF SteadyInv, TypeOK
    <3>2. CASE store[h] = fd[r]
      <4>1. Agree(w, h) /\ Agree(content[fd[r]], h)
        BY <1>w, <2>3, <3>1, <3>2, WithinFacts DEF StoreData
      <4>2. Agree(Over(w, content[fd[r]]), h)
        BY <4>1, OverAgrees
      <4> QED BY <2>1, <2>2, <2>5, <3>1, <3>2, <4>2 DEF StoreData
    <3>3. CASE store[h] # fd[r]
      BY <2>2, <2>5, <3>1, <3>3 DEF StoreData
    <3> QED BY <3>2, <3>3
  <2>8. ASSUME NEW q \in Completes PROVE CallData(q)'
    <3>1. CallData(q) /\ (HasData(q)' => HasData(q))
          /\ (HasBuf(q)' => HasBuf(q) /\ buf'[q] = buf[q])
      BY <1>w, <2>4 DEF SteadyInv, HasData, HasBuf
    <3> QED BY <1>w, <3>1, CallDataKept
  <2>9. (\A p \in Posts : PostData(p)') /\ (\A v \in Uploads : ChunkData(v)')
    BY <1>w DEF SteadyInv, PostData, ChunkData, Part
  <2> QED BY <2>6, <2>7, <2>8, <2>9 DEF SteadyInv
<1>6. ASSUME NEW r \in Completes, WriteTemp(r) PROVE SteadyInv'
  <2>1. PICK w \in Written(data[r]) :
          content' = [content EXCEPT ![fd[r]] = Over(w, content[fd[r]])]
    BY <1>6 DEF WriteTemp
  <2>2. /\ pc[r] = "write" /\ pc' = [pc EXCEPT ![r] = "dedupe"]
        /\ fd' = [fd EXCEPT ![r] = None] /\ data[r] \in Contents
        /\ UNCHANGED <<file, chunk, temp, store, post, upload, data, buf>>
    BY <1>6, <1>t DEF WriteTemp, Goto, TypeOK
  <2>3. Within(data[r], Part(upload[r])) /\ Fills(r) /\ fd[r] # None
    BY <1>t, <2>2 DEF SteadyInv, CallData, HasData, Fills, TypeInv, CallTyped
  <2>4. \A v \in Uploads : temp[v] = fd[r] => Within(data[r], Part(v))
    BY <2>3 DEF SteadyInv, TempData
  <2>5. \A h \in Contents : store[h] = fd[r] => Agree(data[r], h)
    BY <2>3, WithinFacts DEF SteadyInv, StoreData
  <2> QED BY <1>w, <2>1, <2>2, <2>4, <2>5
<1>7. ASSUME NEW r \in Completes, WriteStored(r) PROVE SteadyInv'
  <2>1. PICK w \in Written(buf[r]) :
          content' = [content EXCEPT ![fd[r]] = Over(w, content[fd[r]])]
    BY <1>7 DEF WriteStored
  <2>2. /\ pc[r] = "copy" /\ pc' = [pc EXCEPT ![r] = "cleanup"]
        /\ fd' = [fd EXCEPT ![r] = None] /\ buf[r] \in Contents
        /\ UNCHANGED <<file, chunk, temp, store, post, upload, data>>
        /\ \A q \in Completes : q # r => buf'[q] = buf[q]
    BY <1>7, <1>t DEF WriteStored, Goto, TypeOK
  <2>3. Within(data[r], Part(upload[r])) /\ Within(buf[r], Part(upload[r])) /\ CopyApart(r)
    BY <1>t, <2>2 DEF SteadyInv, CallData, HasData, HasBuf, PathInv
  <2>4. \A v \in Uploads : temp[v] = fd[r] => Within(buf[r], Part(v))
    BY <2>2, <2>3 DEF CopyApart
  <2>5. \A h \in Contents : store[h] = fd[r] => Agree(buf[r], h)
    BY <2>2, <2>3, WithinFacts DEF CopyApart
  <2> QED BY <1>w, <2>1, <2>2, <2>4, <2>5
<1>8. ASSUME NEW r \in Completes, RenameTemp(r) PROVE SteadyInv'
  <2> DEFINE u == upload[r]
             g == data[r]
  <2>1. /\ UNCHANGED <<file, content, fd, chunk, post, upload, data, buf>> /\ HasData(r)
        /\ u \in Uploads /\ g \in Contents /\ temp[u] # None
        /\ pc' = [pc EXCEPT ![r] = "insert"]
        /\ store' = [store EXCEPT ![g] = temp[u]] /\ temp' = [temp EXCEPT ![u] = None]
    BY <1>8, <1>t DEF RenameTemp, Goto, TypeInv, TypeOK, CallTyped, HasData
  <2>2. Within(g, Part(u)) /\ TempData(u)
    BY <2>1 DEF SteadyInv, CallData
  <2> HIDE DEF u, g
  <2>3. /\ \A v \in Uploads : temp'[v] \in {temp[v], None}
        /\ \A h \in Contents : store'[h] = IF h = g THEN temp[u] ELSE store[h]
    BY <1>t, <2>1 DEF TypeOK
  <2>4. pc'[r] = "insert" /\ \A q \in Completes : q # r => pc'[q] = pc[q]
    BY <1>t, <2>1, NextStep
  <2>5. \A q \in Completes : Fills(q)' => Fills(q)
    BY <2>4 DEF Fills
  <2>6. ASSUME NEW v \in Uploads PROVE TempData(v)'
    BY <2>1, <2>3, <2>5 DEF SteadyInv, TempData, Part
  <2>7. ASSUME NEW h \in Contents PROVE StoreData(h)'
    <3>1. CASE h = g
      <4>1. Agree(content[temp[u]], h) /\ Agree(Part(u), h)
        BY <2>1, <2>2, <3>1, WithinFacts DEF TempData
      <4>2. \A q \in Completes : Fills(q) /\ fd[q] = temp[u] => upload[q] = u
        BY <2>1, <2>2 DEF TempData
      <4> QED BY <2>1, <2>3, <2>5, <3>1, <4>1, <4>2 DEF StoreData, Part
    <3>2. CASE h # g
      BY <2>1, <2>3, <2>5, <3>2 DEF SteadyInv, StoreData, Part
    <3> QED BY <3>1, <3>2
  <2>8. ASSUME NEW q \in Completes PROVE CallData(q)'
    <3>1. CallData(q) /\ (HasData(q)' => HasData(q)) /\ (HasBuf(q)' => HasBuf(q))
      BY <2>1, <2>4 DEF SteadyInv, HasData, HasBuf
    <3> QED BY <2>1, <3>1, CallDataKept
  <2>9. (\A p \in Posts : PostData(p)') /\ (\A v \in Uploads : ChunkData(v)')
    BY <2>1 DEF SteadyInv, PostData, ChunkData, Part
  <2> QED BY <2>6, <2>7, <2>8, <2>9 DEF SteadyInv
<1>9. ASSUME NEW r \in Completes, OpenStored(r) PROVE SteadyInv'
  <2> DEFINE g == data[r]
             n == IF store[g] = None THEN <<r, "copy">> ELSE store[g]
  <2>1. /\ UNCHANGED <<file, temp, chunk, post, upload, data>> /\ pc[r] = "open"
        /\ g \in Contents
        /\ \/ /\ store' = [store EXCEPT ![g] = n] /\ content' = [content EXCEPT ![n] = Nothing]
              /\ fd' = [fd EXCEPT ![r] = n] /\ pc' = [pc EXCEPT ![r] = "copy"] /\ buf' = buf
           \/ /\ buf' = [buf EXCEPT ![r] = Nothing] /\ pc' = [pc EXCEPT ![r] = "cleanup"]
              /\ UNCHANGED <<store, content, fd>>
    BY <1>9, <1>t DEF OpenStored, Goto, TypeOK
  <2>2. /\ n # None /\ n \in Inodes
        /\ \A h \in Contents : h # g => store[h] # n
        /\ \A v \in Uploads : temp[v] # n
        /\ \A q \in Completes : Fills(q) /\ fd[q] = n => Agree(Part(upload[q]), g)
    <3>1. CASE store[g] = None
      <4>1. n = <<r, "copy">> /\ CopyUnmade(r) /\ pc[r] \in BeforeCopy
        BY <1>t, <2>1, <3>1 DEF PathInv, BeforeCopy, Steps
      <4>2. \A v \in Uploads : temp[v] # n
        BY <1>t, <4>1, InodeNames DEF TypeInv
      <4> QED BY <4>1, <4>2, InodeNames DEF CopyUnmade, Inodes
    <3>2. CASE store[g] # None
      <4>1. n = store[g] /\ n \in Inodes
        BY <1>t, <2>1, <3>2 DEF TypeOK
      <4> QED
        BY <1>t, <2>1, <3>2, <4>1
        DEF PathInv, StoresApart, TempsNotStored, SteadyInv, StoreData
    <3> QED BY <3>1, <3>2
  <2> HIDE DEF n, g
  <2>3. CASE /\ store' = [store EXCEPT ![g] = n] /\ content' = [content EXCEPT ![n] = Nothing]
             /\ fd' = [fd EXCEPT ![r] = n] /\ pc' = [pc EXCEPT ![r] = "copy"] /\ buf' = buf
    <3>1. /\ \A h \in Contents : store'[h] = IF h = g THEN n ELSE store[h]
          /\ \A m \in Inodes : content'[m] = IF m = n THEN Nothing ELSE content[m]
          /\ \A q \in Completes : q # r => fd'[q] = fd[q]
      BY <1>t, <2>1, <2>3 DEF TypeOK
    <3>2. pc'[r] = "copy" /\ \A q \in Completes : q # r => pc'[q] = pc[q]
      BY <1>t, <2>3, NextStep
    <3>3. \A q \in Completes : Fills(q)' => Fills(q) /\ fd'[q] = fd[q]
      BY <3>1, <3>2 DEF Fills
    <3>4. ASSUME NEW v \in Uploads PROVE TempData(v)'
      <4>1. TempData(v) /\ temp[v] # n /\ temp[v] \in Inodes \cup {None}
        BY <1>t, <2>2 DEF SteadyInv, TypeOK
      <4> QED BY <2>1, <3>1, <3>3, <4>1 DEF TempData, Part
    <3>5. ASSUME NEW h \in Contents PROVE StoreData(h)'
      <4>1. CASE h = g
        BY <2>1, <2>2, <3>1, <3>3, <4>1, NothingType DEF StoreData, Part
      <4>2. CASE h # g
        <5>1. StoreData(h) /\ store[h] # n /\ store[h] \in Inodes \cup {None}
          BY <1>t, <2>2, <4>2 DEF SteadyInv, TypeOK
        <5> QED BY <2>1, <3>1, <3>3, <4>2, <5>1 DEF StoreData, Part
      <4> QED BY <4>1, <4>2
    <3>6. ASSUME NEW q \in Completes PROVE CallData(q)'
      <4>1. CallData(q) /\ (HasData(q)' => HasData(q)) /\ (HasBuf(q)' => HasBuf(q))
        BY <2>1, <3>2 DEF SteadyInv, HasData, HasBuf
      <4> QED BY <2>1, <2>3, <4>1, CallDataKept
    <3>7. (\A p \in Posts : PostData(p)') /\ (\A v \in Uploads : ChunkData(v)')
      BY <2>1 DEF SteadyInv, PostData, ChunkData, Part
    <3> QED BY <3>4, <3>5, <3>6, <3>7 DEF SteadyInv
  <2>4. CASE /\ buf' = [buf EXCEPT ![r] = Nothing] /\ pc' = [pc EXCEPT ![r] = "cleanup"]
             /\ UNCHANGED <<store, content, fd>>
    <3>1. HasData(r) /\ \A q \in Completes : q # r => buf'[q] = buf[q]
      BY <1>t, <2>1, <2>4 DEF HasData, TypeOK
    <3> QED BY <1>q, <2>1, <2>4, <3>1 DEF Steps
  <2> QED BY <2>1, <2>3, <2>4
<1>10. ASSUME Crash PROVE SteadyInv'
  <2>1. UNCHANGED <<file, temp, store, content, chunk, upload, data>>
    BY <1>10 DEF Crash
  <2>2. \A q \in Completes : pc'[q] \in {"idle", "done"}
    BY <1>10 DEF Crash, InFlight
  <2>3. \A p \in Posts : PostData(p)'
    BY <1>10 DEF Crash, PostData, Idle
  <2>4. /\ \A q \in Completes : CallData(q)'
        /\ \A q \in Completes : ~ Fills(q)'
    BY <2>2 DEF CallData, HasData, HasBuf, Fills
  <2>5. \A v \in Uploads : ChunkData(v)'
    BY <2>1 DEF SteadyInv, ChunkData, Part
  <2> QED BY <2>1, <2>3, <2>4, <2>5, SteadyQuiet
<1>11. ASSUME UNCHANGED vars PROVE SteadyInv'
  <2>1. UNCHANGED <<file, chunk, temp, store, content, post, pc, upload, fd, data, buf>>
    BY <1>11 DEF vars
  <2> QED
    BY <2>1 DEF SteadyInv, PostData, ChunkData, TempData, CallData, StoreData, Part, Fills,
                HasData, HasBuf
<1>12. ASSUME SteadyNext PROVE SteadyInv'
  <2>1. Next /\ \A q \in Posts : post'[q].step = "write" => Sends(q)'
    BY <1>12 DEF SteadyNext
  <2>2. CASE \E r \in Completes : HandleComplete(r)
    <3>1. PICK r \in Completes : HandleComplete(r)
      BY <2>2
    <3> QED BY <3>1, <1>3, <1>4, <1>5, <1>6, <1>7, <1>8, <1>9 DEF HandleComplete
  <2>3. CASE \E p \in Posts : HandlePost(p)
    BY <2>1, <2>3, <1>2
  <2> QED BY <2>1, <2>2, <2>3, <1>1, <1>10 DEF Next
<1> QED BY <1>11, <1>12

LEMMA SteadyInit == Init => SteadyInv
<1> SUFFICES ASSUME Init PROVE SteadyInv
  OBVIOUS
<1>1. ASSUME NEW u \in Uploads PROVE chunk[u][0] = None
  <2>1. 0 \in 0 .. MaxChunks - 1
    BY ConstantsAssumption
  <2>2. chunk[u] = [i \in 0 .. MaxChunks - 1 |-> None]
    BY DEF Init
  <2> QED BY <2>1, <2>2
<1>2. \A p \in Posts : PostData(p)
  BY DEF Init, PostData, Idle
<1> QED
  BY <1>1, <1>2 DEF Init, SteadyInv, ChunkData, TempData, CallData, HasData, HasBuf, StoreData

LEMMA SteadyPreserved ==
  UploadInv /\ SteadyInv /\ [SteadyNext]_vars => UploadInv' /\ SteadyInv'
<1> SUFFICES ASSUME UploadInv, SteadyInv, [SteadyNext]_vars PROVE UploadInv' /\ SteadyInv'
  OBVIOUS
<1>1. [Next]_vars
  BY DEF SteadyNext
<1>2. UploadInv'
  BY <1>1, UploadPreserved
<1> QED BY <1>2, SteadyStep

\* Among clients that send their files' chunks: what is stored or being assembled
\* belongs where it is, and so does what may still be written to it.
THEOREM SteadyInvariant == SteadySpec => [](UploadInv /\ SteadyInv)
  BY UploadInit, SteadyInit, SteadyPreserved, PTL DEF SteadySpec

\* No byte of a stored file is another file's, however calls of one upload or of
\* many interleave, whatever prefix a failing write or read leaves, whether a rename
\* fails with or without its source, and wherever a crash cuts a call, as long as
\* clients send only their files' chunks (attachments.go:157-306).
THEOREM StoredFilesAreTheirOwn == SteadySpec => []NeverForeign
<1>1. SteadyInv => NeverForeign
  BY DEF SteadyInv, StoreData, NeverForeign, Agree
<1> QED BY SteadyInvariant, <1>1, PTL


-----------------------------------------------------------------------------
\* Clients complete an upload again only once they have the answer: nobody else
\* touches the file a completion assembles, and a stored file is all of its content
\* unless a completion that dropped an error answers for it for good.
Building == {"read", "write", "dedupe", "rename", "fallback"}

OneEach == \A q, r \in InFlight : upload[q] = upload[r] => q = r

Kept(r) == store[data[r]] # None \/ r \in hurt

Assembled(r) ==
  /\ pc[r] \in {"idle", "create", "read", "write"} => r \notin hurt
  /\ pc[r] \in {"read", "write"} => temp[upload[r]] = fd[r] /\ content[fd[r]] = Nothing
  /\ pc[r] \in {"dedupe", "rename", "fallback"} =>
       /\ temp[upload[r]] # None
       /\ Within(content[temp[upload[r]]], data[r])
       /\ content[temp[upload[r]]] = data[r] \/ r \in hurt
  /\ pc[r] \in {"fallback", "open", "copy"} => r \in hurt
  /\ pc[r] \in {"open", "copy"} => Within(buf[r], data[r])
  /\ pc[r] = "copy" => store[data[r]] # None
  /\ pc[r] \in {"cleanup", "insert", "audit", "commit"} => Kept(r)

\* The completion q is past every step that could end what it answers for, or is
\* about to write the stored file.
AnswersFor(q, h) ==
  /\ q \in hurt /\ data[q] = h
  /\ pc[q] \notin {"dedupe", "rename", "fallback", "open"}
  /\ pc[q] = "copy" => fd[q] = store[h]

StoredWell(h) ==
  store[h] # None =>
    /\ Within(content[store[h]], h)
    /\ content[store[h]] = h \/ \E q \in Completes : AnswersFor(q, h)

PatientInv ==
  /\ OneEach
  /\ \A r \in Completes : Assembled(r)
  /\ \A h \in Contents : StoredWell(h)
  /\ \A a \in attachments : pc[a] = "done" /\ Kept(a)

\* What a completion assembles and knows survives the steps of the others.
LEMMA AssembledKept ==
  ASSUME NEW q \in Completes, Assembled(q), data[q] \in Contents,
         pc'[q] = pc[q], upload'[q] = upload[q], data'[q] = data[q], buf'[q] = buf[q],
         fd'[q] = fd[q], q \in hurt' <=> q \in hurt,
         \A h \in Contents : store[h] # None => store'[h] # None,
         pc[q] \in Building =>
           /\ temp'[upload[q]] = temp[upload[q]]
           /\ content'[temp[upload[q]]] = content[temp[upload[q]]]
  PROVE  Assembled(q)'
  BY DEF Assembled, Kept, Building

\* A stored file nobody writes stays as good as it was.
LEMMA StoredWellKept ==
  ASSUME NEW h \in Contents, StoredWell(h), store'[h] = store[h],
         store[h] # None => content'[store[h]] = content[store[h]],
         \A q \in Completes : AnswersFor(q, h) => AnswersFor(q, h)'
  PROVE  StoredWell(h)'
  BY DEF StoredWell

\* A step of one completion that leaves the files of the others alone.
LEMMA PatientMove ==
  ASSUME TypeOK, PatientInv, NEW r \in Completes, OneEach', pc[r] # "done",
         \A q \in Completes : q # r =>
           /\ pc'[q] = pc[q] /\ upload'[q] = upload[q] /\ data'[q] = data[q]
           /\ buf'[q] = buf[q] /\ fd'[q] = fd[q] /\ (q \in hurt' <=> q \in hurt),
         \A q \in Completes : q # r /\ pc[q] \in Building =>
           /\ temp'[upload[q]] = temp[upload[q]]
           /\ content'[temp[upload[q]]] = content[temp[upload[q]]],
         \A h \in Contents : store[h] # None => store'[h] # None,
         Assembled(r)',
         \A h \in Contents : StoredWell(h)',
         attachments' \subseteq attachments \cup {r},
         r \in attachments' /\ r \notin attachments => pc'[r] = "done" /\ Kept(r)'
  PROVE  PatientInv'
<1>1. \A q \in Completes : data[q] \in Contents
  BY DEF TypeOK
<1>2. \A q \in Completes : Assembled(q)'
  <2>1. ASSUME NEW q \in Completes, q # r PROVE Assembled(q)'
    <3>1. Assembled(q)
      BY DEF PatientInv
    <3> QED BY <1>1, <2>1, <3>1, AssembledKept
  <2> QED BY <2>1
<1>3. \A a \in attachments' : pc'[a] = "done" /\ Kept(a)'
  <2>1. \A a \in attachments : a \in Completes /\ a # r /\ pc[a] = "done" /\ Kept(a)
    BY DEF TypeOK, PatientInv
  <2> QED BY <1>1, <2>1 DEF Kept
<1> QED BY <1>2, <1>3 DEF PatientInv

LEMMA PatientStep ==
  ASSUME UploadInv, PatientInv, [PatientNext]_vars
  PROVE  PatientInv'
<1> USE DEF given, fileVars, rowVars, callVars
<1>t. TypeInv /\ TypeOK /\ PathInv
  BY DEF UploadInv, TypeInv
<1>o. OneEach'
  BY DEF PatientNext, PatientInv, OneEach, InFlight, vars
<1>d. /\ \A q \in Completes : data[q] \in Contents /\ Assembled(q)
      /\ \A q \in Completes : pc[q] \in Building => upload[q] \in Uploads
      /\ \A h \in Contents : StoredWell(h)
  BY <1>t DEF TypeOK, TypeInv, CallTyped, Building, PatientInv
\* Two completions at work have different uploads and so different files.
<1>u. \A q, r \in Completes :
        q # r /\ pc[q] \in Building /\ pc[r] \notin {"idle", "done"} => upload[q] # upload[r]
  BY DEF PatientInv, OneEach, InFlight, Building
<1>e. \A q \in Completes, h \in Contents :
        AnswersFor(q, h) => pc[q] \notin {"idle", "create", "read", "write"}
  BY <1>d DEF AnswersFor, Assembled
\* The inode a completion assembles its upload in.
<1>b. ASSUME NEW q \in Completes, pc[q] \in Building
      PROVE  temp[upload[q]] \in Inodes /\ temp[upload[q]] # None
  BY <1>b, <1>d, <1>t DEF Assembled, Building, TypeInv, TypeOK, CallTyped
\* A step of a completion that reads and writes no file.
<1>1. ASSUME NEW r \in Completes,
             \/ ReadRows(r) \/ FileCallFails(r) \/ Deduplicate(r) \/ PassDedupe(r)
             \/ InsertRow(r) \/ AppendAudit(r) \/ Commit(r) \/ CommitFails(r)
      PROVE  PatientInv'
  <2>1. /\ UNCHANGED <<temp, store, content, data, buf, hurt>> /\ pc[r] # "done"
        /\ \A q \in Completes : q # r =>
             pc'[q] = pc[q] /\ upload'[q] = upload[q] /\ fd'[q] = fd[q]
    BY <1>1, <1>t
    DEF ReadRows, FileCallFails, Deduplicate, PassDedupe, InsertRow, AppendAudit, Commit,
        CommitFails, Answer, Goto, TypeOK
  <2>2. /\ \/ pc[r] = "idle" /\ pc'[r] \in {"create", "done"}
           \/ pc[r] \in {"create", "read", "dedupe"} /\ pc'[r] \in {"done", "remove"}
           \/ pc[r] = "dedupe" /\ pc'[r] = "rename"
           \/ pc[r] \in {"insert", "audit", "commit"} /\ pc'[r] \in {"audit", "commit", "done"}
        /\ pc[r] # "idle" => upload'[r] = upload[r]
        /\ attachments' \subseteq attachments \cup {r}
        /\ r \in attachments' /\ r \notin attachments => pc[r] = "commit" /\ pc'[r] = "done"
    BY <1>1, <1>t
    DEF ReadRows, FileCallFails, Deduplicate, PassDedupe, InsertRow, AppendAudit, Commit,
        CommitFails, Answer, Goto, TypeOK
  <2>3. Assembled(r)
    BY <1>d
  <2>4. Assembled(r)'
    BY <2>1, <2>2, <2>3 DEF Assembled, Kept
  <2>5. ASSUME NEW h \in Contents PROVE StoredWell(h)'
    <3>1. ASSUME NEW q \in Completes, AnswersFor(q, h) PROVE AnswersFor(q, h)'
      <4>1. CASE q = r
        BY <1>e, <2>1, <2>2, <3>1, <4>1 DEF AnswersFor
      <4>2. CASE q # r
        BY <2>1, <3>1, <4>2 DEF AnswersFor
      <4> QED BY <4>1, <4>2
    <3> QED BY <1>d, <2>1, <3>1, StoredWellKept
  <2>6. r \in attachments' /\ r \notin attachments => pc'[r] = "done" /\ Kept(r)'
    BY <2>1, <2>2, <2>3 DEF Assembled, Kept
  <2> QED BY <1>o, <1>t, <2>1, <2>2, <2>4, <2>5, <2>6, PatientMove
\* A step of a completion that keeps the stored files as they are and ends nothing
\* that answers for one.
<1>m. ASSUME NEW r \in Completes, pc[r] \notin {"idle", "done"}, attachments' = attachments,
             upload' = upload,
             \A q \in Completes : q # r =>
               /\ pc'[q] = pc[q] /\ data'[q] = data[q] /\ buf'[q] = buf[q]
               /\ fd'[q] = fd[q] /\ (q \in hurt' <=> q \in hurt),
             \A v \in Uploads : v # upload[r] => temp'[v] = temp[v],
             \A v \in Uploads : v # upload[r] /\ temp[v] # None =>
               content'[temp[v]] = content[temp[v]],
             store' = store,
             \A h \in Contents : store[h] # None => content'[store[h]] = content[store[h]],
             Assembled(r)',
             \A h \in Contents : AnswersFor(r, h) => AnswersFor(r, h)'
      PROVE  PatientInv'
  <2>1. \A q \in Completes : q # r /\ pc[q] \in Building =>
          /\ temp'[upload[q]] = temp[upload[q]]
          /\ content'[temp[upload[q]]] = content[temp[upload[q]]]
    BY <1>b, <1>d, <1>m, <1>u
  <2>2. ASSUME NEW h \in Contents PROVE StoredWell(h)'
    <3>1. \A q \in Completes : AnswersFor(q, h) => AnswersFor(q, h)'
      BY <1>m DEF AnswersFor
    <3> QED BY <1>d, <1>m, <3>1, StoredWellKept
  <2> QED BY <1>m, <1>o, <1>t, <2>1, <2>2, PatientMove
<1>2. ASSUME NEW r \in Completes, RemoveTemp(r) PROVE PatientInv'
  <2>1. /\ pc[r] \in {"remove", "cleanup"} /\ pc'[r] = IF pc[r] = "remove" THEN "done" ELSE "insert"
        /\ UNCHANGED <<store, content, upload, fd, data, buf, attachments, hurt>>
        /\ \A q \in Completes : q # r => pc'[q] = pc[q]
        /\ \A v \in Uploads : v # upload[r] => temp'[v] = temp[v]
    BY <1>2, <1>t DEF RemoveTemp, Goto, TypeOK
  <2>2. Assembled(r)'
    <3>1. Assembled(r)
      BY <1>d
    <3> QED BY <2>1, <3>1 DEF Assembled, Kept
  <2>3. \A h \in Contents : AnswersFor(r, h) => AnswersFor(r, h)'
    BY <2>1 DEF AnswersFor
  <2> QED BY <1>m, <2>1, <2>2, <2>3
<1>3. ASSUME NEW r \in Completes, CreateTemp(r) PROVE PatientInv'
  <2> DEFINE u == upload[r]
             n == IF temp[u] = None THEN <<r, "temp">> ELSE temp[u]
  <2>1. /\ pc[r] = "create" /\ u \in Uploads /\ pc' = [pc EXCEPT ![r] = "read"]
        /\ temp' = [temp EXCEPT ![u] = n] /\ fd' = [fd EXCEPT ![r] = n]
        /\ content' = [content EXCEPT ![n] = Nothing]
        /\ UNCHANGED <<store, upload, data, buf, attachments, hurt>>
    BY <1>3, <1>t DEF CreateTemp, Goto, TypeInv, CallTyped
  <2>2. /\ n # None /\ n \in Inodes
        /\ \A v \in Uploads : v # u => temp[v] # n
        /\ \A h \in Contents : store[h] # n
    <3>1. CASE temp[u] = None
      <4>1. n = <<r, "temp">> /\ TempUnmade(r) /\ pc[r] \in BeforeCreate
        BY <1>t, <2>1, <3>1 DEF PathInv, BeforeCreate
      <4> QED BY <4>1, InodeNames DEF TempUnmade, Inodes
    <3>2. CASE temp[u] # None
      <4>1. n = temp[u] /\ n \in Inodes
        BY <1>t, <2>1, <3>2 DEF TypeOK
      <4> QED BY <1>t, <2>1, <3>2, <4>1 DEF PathInv, TempsApart, TempsNotStored
    <3> QED BY <3>1, <3>2
  <2> HIDE DEF n, u
  <2>3. /\ \A v \in Uploads : temp'[v] = IF v = u THEN n ELSE temp[v]
        /\ \A q \in Completes : fd'[q] = IF q = r THEN n ELSE fd[q]
        /\ \A m \in Inodes : content'[m] = IF m = n THEN Nothing ELSE content[m]
    BY <1>t, <2>1 DEF TypeOK
  <2>4. pc'[r] = "read" /\ \A q \in Completes : q # r => pc'[q] = pc[q]
    BY <1>t, <2>1, NextStep
  <2>5. Assembled(r)'
    <3>1. Assembled(r)
      BY <1>d
    <3> QED BY <2>1, <2>2, <2>3, <2>4, <3>1 DEF Assembled, u
  <2>6. /\ \A v \in Uploads : v # u /\ temp[v] # None => content'[temp[v]] = content[temp[v]]
        /\ \A h \in Contents : store[h] # None => content'[store[h]] = content[store[h]]
    BY <1>t, <2>2, <2>3 DEF TypeOK
  <2>7. \A h \in Contents : ~ AnswersFor(r, h)
    BY <1>e, <2>1
  <2> QED BY <1>m, <2>1, <2>3, <2>4, <2>5, <2>6, <2>7 DEF u
<1>4. ASSUME NEW r \in Completes, ReadChunk(r) PROVE PatientInv'
  <2>1. /\ pc[r] = "read" /\ pc'[r] \in {"write", "done"}
        /\ pc'[r] = "write" => fd' = fd
        /\ UNCHANGED <<temp, store, content, upload, buf, attachments, hurt>>
        /\ \A q \in Completes : q # r =>
             pc'[q] = pc[q] /\ data'[q] = data[q] /\ fd'[q] = fd[q]
    BY <1>4, <1>t DEF ReadChunk, Answer, Goto, TypeOK
  <2>2. Assembled(r)'
    <3>1. Assembled(r)
      BY <1>d
    <3> QED BY <2>1, <3>1 DEF Assembled
  <2>3. \A h \in Contents : ~ AnswersFor(r, h)
    BY <1>e, <2>1
  <2> QED BY <1>m, <2>1, <2>2, <2>3
<1>5. ASSUME NEW r \in Completes, WriteTemp(r) PROVE PatientInv'
  <2> DEFINE n == fd[r]
             g == data[r]
  <2>1. PICK w \in Written(g) :
          /\ content' = [content EXCEPT ![n] = Over(w, content[n])]
          /\ hurt' = IF w = g THEN hurt ELSE hurt \cup {r}
    BY <1>5 DEF WriteTemp
  <2>2. /\ pc[r] = "write" /\ pc' = [pc EXCEPT ![r] = "dedupe"]
        /\ fd' = [fd EXCEPT ![r] = None]
        /\ UNCHANGED <<temp, store, upload, data, buf, attachments>>
    BY <1>5 DEF WriteTemp, Goto
  <2>3. /\ g \in Contents /\ upload[r] \in Uploads
        /\ n = temp[upload[r]] /\ n # None /\ n \in Inodes /\ content[n] = Nothing
    <3>1. Assembled(r) /\ pc[r] \in Building
      BY <1>d, <2>2 DEF Building
    <3> QED BY <1>b, <1>d, <2>2, <3>1 DEF Assembled
  <2>4. /\ \A v \in Uploads : v # upload[r] => temp[v] # n
        /\ \A h \in Contents : store[h] # n
    BY <1>t, <2>3 DEF PathInv, TempsApart, TempsNotStored
  <2>5. Within(Over(w, content[n]), g) /\ (w = g => Over(w, content[n]) = g)
    <3>1. Within(w, g) /\ Within(content[n], g)
      BY <2>1, <2>3, WrittenType, NothingType
    <3> QED BY <2>3, <3>1, OverWithin, OverWhole
  <2> HIDE DEF n, g
  <2>6. /\ \A m \in Inodes : content'[m] = IF m = n THEN Over(w, content[n]) ELSE content[m]
        /\ \A q \in Completes : q # r => fd'[q] = fd[q] /\ (q \in hurt' <=> q \in hurt)
    BY <1>t, <2>1, <2>2, <2>3 DEF TypeOK
  <2>7. pc'[r] = "dedupe" /\ \A q \in Completes : q # r => pc'[q] = pc[q]
    BY <1>t, <2>2, NextStep
  <2>8. Assembled(r)'
    BY <2>1, <2>2, <2>3, <2>5, <2>6, <2>7 DEF Assembled, g
  <2>9. /\ \A v \in Uploads : v # upload[r] /\ temp[v] # None => content'[temp[v]] = content[temp[v]]
        /\ \A h \in Contents : store[h] # None => content'[store[h]] = content[store[h]]
    BY <1>t, <2>4, <2>6 DEF TypeOK
  <2>10. \A h \in Contents : ~ AnswersFor(r, h)
    BY <1>e, <2>2
  <2> QED BY <1>m, <2>2, <2>6, <2>7, <2>8, <2>9, <2>10
<1>6. ASSUME NEW r \in Completes, RenameFails(r) PROVE PatientInv'
  <2>1. /\ pc[r] = "rename" /\ pc'[r] = "fallback" /\ hurt' = hurt \cup {r}
        /\ UNCHANGED <<temp, store, content, upload, fd, data, buf, attachments>>
        /\ \A q \in Completes : q # r => pc'[q] = pc[q]
    BY <1>6, <1>t DEF RenameFails, Goto, TypeOK
  <2>2. Assembled(r)'
    <3>1. Assembled(r)
      BY <1>d
    <3> QED BY <2>1, <3>1 DEF Assembled
  <2>3. \A h \in Contents : ~ AnswersFor(r, h)
    BY <2>1 DEF AnswersFor
  <2> QED BY <1>m, <2>1, <2>2, <2>3
<1>7. ASSUME NEW r \in Completes, ReadTemp(r) PROVE PatientInv'
  <2> DEFINE u == upload[r]
             b == content[temp[u]]
  <2>1. /\ pc[r] = "fallback" /\ temp[u] # None /\ temp[u] \in Inodes
        /\ Within(b, data[r]) /\ r \in hurt
    <3>1. pc[r] = "fallback" /\ pc[r] \in Building /\ Assembled(r)
      BY <1>7, <1>d DEF ReadTemp, Building
    <3> QED BY <1>b, <3>1 DEF Assembled
  <2>2. PICK c \in Written(b) : buf' = [buf EXCEPT ![r] = c]
    BY <1>7, <2>1 DEF ReadTemp
  <2>3. /\ pc'[r] = "open" /\ buf'[r] = c
        /\ UNCHANGED <<temp, store, content, upload, fd, data, attachments, hurt>>
        /\ \A q \in Completes : q # r => pc'[q] = pc[q] /\ buf'[q] = buf[q]
    BY <1>7, <1>t, <2>2 DEF ReadTemp, Goto, TypeOK
  <2>4. b \in Contents
    BY <1>t, <2>1 DEF TypeOK
  <2> HIDE DEF u, b
  <2>5. Within(c, data[r])
    BY <2>1, <2>4, WrittenType, WithinFacts
  <2>6. Assembled(r)'
    BY <2>1, <2>3, <2>5 DEF Assembled
  <2>7. \A h \in Contents : ~ AnswersFor(r, h)
    BY <2>1 DEF AnswersFor
  <2> QED BY <1>m, <2>1, <2>3, <2>6, <2>7
<1>8. ASSUME NEW r \in Completes, RenameTemp(r) PROVE PatientInv'
  <2> DEFINE u == upload[r]
             g == data[r]
             n == temp[u]
  <2>1. /\ pc[r] = "rename" /\ n # None /\ pc' = [pc EXCEPT ![r] = "insert"]
        /\ store' = [store EXCEPT ![g] = n] /\ temp' = [temp EXCEPT ![u] = None]
        /\ UNCHANGED <<content, upload, fd, data, buf, attachments, hurt>>
    BY <1>8 DEF RenameTemp, Goto
  <2>2. /\ u \in Uploads /\ g \in Contents
        /\ Within(content[n], g) /\ (content[n] = g \/ r \in hurt)
    <3>1. Assembled(r) /\ pc[r] \in Building
      BY <1>d, <2>1 DEF Building
    <3> QED BY <1>d, <2>1, <3>1 DEF Assembled
  <2>3. pc'[r] = "insert" /\ \A q \in Completes : q # r => pc'[q] = pc[q]
    BY <1>t, <2>1, NextStep
  <2>4. \A q \in Completes : q # r /\ pc[q] \in Building => upload[q] \in Uploads /\ upload[q] # u
    BY <1>d, <1>u, <2>1
  <2> HIDE DEF n, u, g
  <2>5. /\ \A v \in Uploads : v # u => temp'[v] = temp[v]
        /\ \A h \in Contents : store'[h] = IF h = g THEN n ELSE store[h]
    BY <1>t, <2>1 DEF TypeOK
  <2>6. Assembled(r)'
    BY <2>1, <2>2, <2>3, <2>5 DEF Assembled, Kept, g
  <2>7. ASSUME NEW h \in Contents PROVE StoredWell(h)'
    <3>1. CASE h = g
      <4>1. CASE content[n] = g
        BY <2>1, <2>2, <2>5, <3>1, <4>1 DEF StoredWell
      <4>2. CASE r \in hurt
        <5>1. AnswersFor(r, h)'
          BY <2>1, <2>3, <3>1, <4>2 DEF AnswersFor, g
        <5> QED BY <2>1, <2>2, <2>5, <3>1, <5>1 DEF StoredWell
      <4> QED BY <2>2, <4>1, <4>2
    <3>2. CASE h # g
      <4>1. \A q \in Completes : AnswersFor(q, h) => AnswersFor(q, h)'
        BY <2>1, <2>3, <2>5, <3>2 DEF AnswersFor
      <4> QED BY <1>d, <2>1, <2>5, <3>2, <4>1, StoredWellKept
    <3> QED BY <3>1, <3>2
  <2>8. \A q \in Completes : q # r /\ pc[q] \in Building =>
          /\ temp'[upload[q]] = temp[upload[q]]
          /\ content'[temp[upload[q]]] = content[temp[upload[q]]]
    BY <2>1, <2>4, <2>5
  <2>9. \A h \in Contents : store[h] # None => store'[h] # None
    BY <2>1, <2>5
  <2> QED BY <1>o, <1>t, <2>1, <2>3, <2>6, <2>7, <2>8, <2>9, PatientMove
<1>9. ASSUME NEW r \in Completes, OpenStored(r) PROVE PatientInv'
  <2> DEFINE g == data[r]
             n == IF store[g] = None THEN <<r, "copy">> ELSE store[g]
  <2>1. /\ pc[r] = "open" /\ g \in Contents
        /\ UNCHANGED <<temp, upload, data, attachments, hurt>>
        /\ \/ /\ store' = [store EXCEPT ![g] = n] /\ content' = [content EXCEPT ![n] = Nothing]
              /\ fd' = [fd EXCEPT ![r] = n] /\ pc' = [pc EXCEPT ![r] = "copy"] /\ buf' = buf
           \/ /\ buf' = [buf EXCEPT ![r] = Nothing] /\ pc' = [pc EXCEPT ![r] = "cleanup"]
              /\ UNCHANGED <<store, content, fd>>
    BY <1>9, <1>t DEF OpenStored, Goto, TypeOK
  <2>2. /\ n # None /\ n \in Inodes
        /\ \A h \in Contents : h # g => store[h] # n
        /\ \A v \in Uploads : temp[v] # n
    <3>1. CASE store[g] = None
      <4>1. n = <<r, "copy">> /\ CopyUnmade(r) /\ pc[r] \in BeforeCopy
        BY <1>t, <2>1, <3>1 DEF PathInv, BeforeCopy, Steps
      <4>2. \A v \in Uploads : temp[v] # n
        BY <1>t, <4>1, InodeNames DEF TypeInv
      <4> QED BY <4>1, <4>2, InodeNames DEF CopyUnmade, Inodes
    <3>2. CASE store[g] # None
      <4>1. n = store[g] /\ n \in Inodes
        BY <1>t, <2>1, <3>2 DEF TypeOK
      <4> QED BY <1>t, <2>1, <3>2, <4>1 DEF PathInv, StoresApart, TempsNotStored
    <3> QED BY <3>1, <3>2
  <2>3. r \in hurt /\ Within(buf[r], g)
    BY <1>d, <2>1 DEF Assembled
  <2> HIDE DEF n, g
  <2>4. CASE /\ store' = [store EXCEPT ![g] = n] /\ content' = [content EXCEPT ![n] = Nothing]
             /\ fd' = [fd EXCEPT ![r] = n] /\ pc' = [pc EXCEPT ![r] = "copy"] /\ buf' = buf
    <3>1. /\ \A h \in Contents : store'[h] = IF h = g THEN n ELSE store[h]
          /\ \A m \in Inodes : content'[m] = IF m = n THEN Nothing ELSE content[m]
          /\ fd'[r] = n /\ \A q \in Completes : q # r => fd'[q] = fd[q]
      BY <1>t, <2>1, <2>2, <2>4 DEF TypeOK
    <3>2. pc'[r] = "copy" /\ \A q \in Completes : q # r => pc'[q] = pc[q]
      BY <1>t, <2>4, NextStep
    <3>3. Assembled(r)'
      BY <2>1, <2>2, <2>3, <2>4, <3>1, <3>2 DEF Assembled, g
    <3>4. ASSUME NEW h \in Contents PROVE StoredWell(h)'
      <4>1. CASE h = g
        <5>1. AnswersFor(r, h)'
          BY <2>1, <2>3, <3>1, <3>2, <4>1 DEF AnswersFor, g
        <5> QED BY <2>2, <3>1, <4>1, <5>1, NothingType DEF StoredWell
      <4>2. CASE h # g
        <5>1. ASSUME NEW q \in Completes, AnswersFor(q, h) PROVE AnswersFor(q, h)'
          <6>1. q # r
            BY <2>1, <5>1 DEF AnswersFor
          <6> QED BY <2>1, <3>1, <3>2, <4>2, <5>1, <6>1 DEF AnswersFor
        <5>2. store'[h] = store[h] /\ (store[h] # None => content'[store[h]] = content[store[h]])
          BY <1>t, <2>2, <3>1, <4>2 DEF TypeOK
        <5> QED BY <1>d, <5>1, <5>2, StoredWellKept
      <4> QED BY <4>1, <4>2
    <3>5. ASSUME NEW q \in Completes, q # r, pc[q] \in Building
          PROVE  /\ temp'[upload[q]] = temp[upload[q]]
                 /\ content'[temp[upload[q]]] = content[temp[upload[q]]]
      <4>1. temp[upload[q]] \in Inodes /\ temp[upload[q]] # n
        BY <1>b, <1>d, <2>2, <3>5
      <4> QED BY <2>1, <3>1, <4>1
    <3>6. \A h \in Contents : store[h] # None => store'[h] # None
      BY <2>2, <3>1
    <3> QED BY <1>o, <1>t, <2>1, <2>4, <3>1, <3>2, <3>3, <3>4, <3>5, <3>6, PatientMove
  <2>5. CASE /\ buf' = [buf EXCEPT ![r] = Nothing] /\ pc' = [pc EXCEPT ![r] = "cleanup"]
             /\ UNCHANGED <<store, content, fd>>
    <3>1. /\ pc'[r] = "cleanup"
          /\ \A q \in Completes : q # r => pc'[q] = pc[q] /\ buf'[q] = buf[q]
      BY <1>t, <2>5 DEF TypeOK
    <3>2. Assembled(r)'
      BY <2>1, <2>3, <2>5, <3>1 DEF Assembled, Kept
    <3>3. \A h \in Contents : ~ AnswersFor(r, h)
      BY <2>1 DEF AnswersFor
    <3> QED BY <1>m, <2>1, <2>5, <3>1, <3>2, <3>3
  <2> QED BY <2>1, <2>4, <2>5
<1>10. ASSUME NEW r \in Completes, WriteStored(r) PROVE PatientInv'
  <2> DEFINE n == fd[r]
             g == data[r]
             b == buf[r]
  <2>1. PICK w \in Written(b) :
          /\ content' = [content EXCEPT ![n] = Over(w, content[n])]
          /\ hurt' = IF w = g THEN hurt \ {r} ELSE hurt
    BY <1>10 DEF WriteStored
  <2>2. /\ pc[r] = "copy" /\ pc' = [pc EXCEPT ![r] = "cleanup"]
        /\ fd' = [fd EXCEPT ![r] = None] /\ buf' = [buf EXCEPT ![r] = Nothing]
        /\ UNCHANGED <<temp, store, upload, data, attachments>>
    BY <1>10 DEF WriteStored, Goto
  <2>3. /\ g \in Contents /\ n \in Inodes /\ r \in hurt /\ store[g] # None
        /\ \A v \in Uploads : temp[v] # n
        /\ \A h \in Contents : store[h] = n => h = g
    <3>1. Assembled(r) /\ CopyApart(r)
      BY <1>d, <1>t DEF PathInv
    <3> QED BY <1>d, <1>t, <2>2, <3>1 DEF Assembled, CopyApart, TypeInv, TypeOK, CallTyped
  <2>4. Within(w, g)
    <3>1. Within(b, g) /\ b \in Contents
      BY <1>d, <1>t, <2>2 DEF Assembled, TypeOK
    <3> QED BY <3>1, WrittenType, WithinFacts
  <2> HIDE DEF n, g, b
  <2>5. /\ \A m \in Inodes : content'[m] = IF m = n THEN Over(w, content[n]) ELSE content[m]
        /\ \A q \in Completes : q # r =>
             fd'[q] = fd[q] /\ buf'[q] = buf[q] /\ (q \in hurt' <=> q \in hurt)
    BY <1>t, <2>1, <2>2, <2>3 DEF TypeOK
  <2>6. pc'[r] = "cleanup" /\ \A q \in Completes : q # r => pc'[q] = pc[q]
    BY <1>t, <2>2, NextStep
  <2>7. Assembled(r)'
    BY <2>2, <2>3, <2>6 DEF Assembled, Kept, g
  <2>8. ASSUME NEW h \in Contents PROVE StoredWell(h)'
    <3>1. CASE store[h] = n
      <4>1. h = g /\ store[h] # None /\ Within(content[n], g)
        BY <1>d, <2>3, <3>1 DEF StoredWell
      <4>2. Within(Over(w, content[n]), g) /\ (w = g => Over(w, content[n]) = g)
        BY <2>3, <2>4, <4>1, OverWithin, OverWhole
      <4>3. w # g => AnswersFor(r, h)'
        BY <2>1, <2>2, <2>3, <2>6, <4>1 DEF AnswersFor, g
      <4> QED BY <2>2, <2>3, <2>5, <3>1, <4>1, <4>2, <4>3 DEF StoredWell
    <3>2. CASE store[h] # n
      <4>1. ASSUME NEW q \in Completes, AnswersFor(q, h) PROVE AnswersFor(q, h)'
        <5>1. q # r
          BY <2>2, <3>2, <4>1 DEF AnswersFor, n
        <5> QED BY <2>2, <2>5, <2>6, <4>1, <5>1 DEF AnswersFor
      <4>2. store'[h] = store[h] /\ (store[h] # None => content'[store[h]] = content[store[h]])
        BY <1>t, <2>2, <2>5, <3>2 DEF TypeOK
      <4> QED BY <1>d, <4>1, <4>2, StoredWellKept
    <3> QED BY <3>1, <3>2
  <2>9. ASSUME NEW q \in Completes, q # r, pc[q] \in Building
        PROVE  /\ temp'[upload[q]] = temp[upload[q]]
               /\ content'[temp[upload[q]]] = content[temp[upload[q]]]
    <3>1. temp[upload[q]] \in Inodes /\ temp[upload[q]] # n
      BY <1>b, <1>d, <2>3, <2>9
    <3> QED BY <2>2, <2>5, <3>1
  <2> QED BY <1>o, <1>t, <2>2, <2>5, <2>6, <2>7, <2>8, <2>9, PatientMove
<1>11. ASSUME UNCHANGED <<temp, store, content, pc, upload, fd, data, buf, attachments, hurt>>
       PROVE  PatientInv'
  BY <1>11
  DEF PatientInv, OneEach, InFlight, Assembled, Kept, StoredWell, AnswersFor
<1>12. ASSUME Crash PROVE PatientInv'
  <2>1. /\ UNCHANGED <<temp, store, content, data, attachments, hurt>>
        /\ \A q \in Completes : pc'[q] = "done" \/ (pc[q] \in {"idle", "done"} /\ pc'[q] = pc[q])
    BY <1>12 DEF Crash, InFlight
  <2>2. \A q \in Completes : Assembled(q)'
    BY <1>d, <2>1 DEF Assembled
  <2>3. ASSUME NEW h \in Contents PROVE StoredWell(h)'
    <3>1. \A q \in Completes : AnswersFor(q, h) => AnswersFor(q, h)'
      BY <2>1 DEF AnswersFor
    <3> QED BY <1>d, <2>1, <3>1, StoredWellKept
  <2>4. \A a \in attachments' : pc'[a] = "done" /\ Kept(a)'
    BY <1>t, <2>1 DEF PatientInv, Kept, TypeOK
  <2> QED BY <1>o, <2>2, <2>3, <2>4 DEF PatientInv
<1>13. CASE UNCHANGED vars
  BY <1>11, <1>13 DEF vars
<1>14. CASE \E u \in Uploads : InitUpload(u)
  BY <1>11, <1>14 DEF InitUpload
<1>15. CASE \E p \in Posts : HandlePost(p)
  BY <1>11, <1>15 DEF HandlePost, OpenChunk, WriteChunk, RecordChunk
<1>16. CASE \E r \in Completes : HandleComplete(r)
  <2>1. PICK r \in Completes : HandleComplete(r)
    BY <1>16
  <2> QED
    BY <2>1, <1>1, <1>2, <1>3, <1>4, <1>5, <1>6, <1>7, <1>8, <1>9, <1>10 DEF HandleComplete
<1> QED BY <1>12, <1>13, <1>14, <1>15, <1>16 DEF PatientNext, Next

LEMMA PatientInit == Init => PatientInv
  BY DEF Init, PatientInv, OneEach, InFlight, Assembled, StoredWell

THEOREM PatientInvariant == PatientSpec => [](UploadInv /\ PatientInv)
<1>1. Init => UploadInv /\ PatientInv
  BY UploadInit, PatientInit
<1>2. UploadInv /\ PatientInv /\ [PatientNext]_vars => (UploadInv /\ PatientInv)'
  <2> SUFFICES ASSUME UploadInv, PatientInv, [PatientNext]_vars PROVE (UploadInv /\ PatientInv)'
    OBVIOUS
  <2>1. [Next]_vars
    BY DEF PatientNext
  <2> QED BY <2>1, UploadPreserved, PatientStep
<1> QED BY <1>1, <1>2, PTL DEF PatientSpec

\* Clients complete an upload again only once they have the answer, and send what
\* bodies they like: every committed attachment is there with the content its hash
\* was taken of, wherever a crash cuts its completion, unless a completion with this
\* content went on after an error it dropped (attachments.go:266, 293-297).
THEOREM StoredFilesAreIntact == PatientSpec => []StoredIntact
<1>1. UploadInv /\ PatientInv => StoredIntact
  <2> SUFFICES ASSUME UploadInv, PatientInv, NEW a \in attachments
               PROVE  Intact(data[a]) \/ \E r \in hurt : data[r] = data[a]
    BY DEF StoredIntact
  <2>1. data[a] \in Contents /\ StoredWell(data[a]) /\ Kept(a)
    BY DEF UploadInv, TypeInv, TypeOK, PatientInv
  <2> QED BY <2>1 DEF StoredWell, AnswersFor, Kept, Intact
<1> QED BY <1>1, PatientInvariant, PTL

\* Of such clients: no byte of a stored file is another file's.
THEOREM PatientFilesAreTheirOwn == PatientSpec => []NeverForeign
<1>1. PatientInv => NeverForeign
  BY DEF PatientInv, StoredWell, Within, NeverForeign
<1> QED BY <1>1, PatientInvariant, PTL

\* While no system call on a file fails, no completion has an error to drop: every
\* attachment is intact, whatever statements fail and wherever the process dies.
THEOREM IntactWithoutDiskFaults ==
  ASSUME "disk" \notin Faults
  PROVE  PatientSpec => [](\A a \in attachments : Intact(data[a]))
<1>1. Init => hurt = {}
  BY DEF Init
<1>2. UploadInv /\ PatientInv /\ hurt = {} /\ [PatientNext]_vars => (hurt = {})'
  <2> SUFFICES ASSUME UploadInv, PatientInv, hurt = {}, [PatientNext]_vars PROVE hurt' = {}
    OBVIOUS
  <2> USE DEF given, fileVars, rowVars, callVars
  <2>1. ASSUME NEW r \in Completes, WriteTemp(r) PROVE hurt' = {}
    <3>1. data[r] \in Contents
      BY DEF UploadInv, TypeInv, TypeOK
    <3> QED BY <2>1, <3>1, WrittenType DEF WriteTemp
  <2>2. ASSUME NEW r \in Completes PROVE ~ RenameFails(r)
    <3>1. Assembled(r)
      BY DEF PatientInv
    <3> QED BY <3>1 DEF RenameFails, Assembled
  <2>3. ASSUME NEW r \in Completes, WriteStored(r) PROVE hurt' = {}
    BY <2>3 DEF WriteStored
  <2>4. ASSUME NEW r \in Completes, HandleComplete(r) PROVE hurt' = {}
    BY <2>1, <2>2, <2>3, <2>4
    DEF HandleComplete, ReadRows, CreateTemp, ReadChunk, FileCallFails, Deduplicate, PassDedupe,
        RemoveTemp, RenameTemp, ReadTemp, OpenStored, InsertRow, AppendAudit, Commit, CommitFails
  <2>5. ASSUME NEW p \in Posts, HandlePost(p) PROVE hurt' = {}
    BY <2>5 DEF HandlePost, OpenChunk, WriteChunk, RecordChunk
  <2> QED BY <2>4, <2>5 DEF PatientNext, Next, InitUpload, Crash, vars
<1>3. UploadInv /\ PatientInv /\ hurt = {} => \A a \in attachments : Intact(data[a])
  <2> SUFFICES ASSUME UploadInv, PatientInv, hurt = {}, NEW a \in attachments
               PROVE  Intact(data[a])
    OBVIOUS
  <2>1. data[a] \in Contents /\ StoredWell(data[a]) /\ Kept(a)
    BY DEF UploadInv, TypeInv, TypeOK, PatientInv
  <2> QED BY <2>1 DEF StoredWell, AnswersFor, Kept, Intact
<1>4. PatientSpec => [](hurt = {})
  BY <1>1, <1>2, PatientInvariant, PTL DEF PatientSpec
<1> QED BY <1>3, <1>4, PatientInvariant, PTL

-----------------------------------------------------------------------------
\* One completion at a time: what was answered was inserted, with the same content.
AnswerTrue(r) ==
  /\ pc[r] \notin {"remove", "done"} => answer[r] = None
  /\ answer[r] \in Completes => answer[r] \in attachments /\ data[answer[r]] = data[r]

SerialInv ==
  /\ \A q, r \in InFlight : q = r
  /\ \A r \in Completes : AnswerTrue(r)
  /\ \A a \in attachments : pc[a] = "done"

\* And if no statement fails, nothing has the hash of what is about to be inserted.
PastDedupe == {"rename", "fallback", "open", "copy", "cleanup", "insert", "audit", "commit"}

NewContent(r) == pc[r] \in PastDedupe => \A a \in attachments : data[a] # data[r]

NewInv == OnePerContent /\ \A r \in Completes : NewContent(r)

\* What a step of one completion does to what it answers.
LEMMA AnswerSteps ==
  ASSUME TypeOK, NEW r \in Completes, HandleComplete(r)
  PROVE  /\ pc[r] # "done"
         /\ \A q \in Completes : q # r =>
              pc'[q] = pc[q] /\ answer'[q] = answer[q] /\ data'[q] = data[q]
         /\ pc[r] # "read" => data' = data
         /\ \/ /\ answer'[r] = answer[r] /\ attachments' = attachments
               /\ pc[r] # "remove" /\ pc'[r] \notin {"remove", "done"}
               /\ pc'[r] \in PastDedupe =>
                    \/ pc[r] \in PastDedupe
                    \/ data'[r] = data[r] /\ \A a \in attachments : data[a] # data[r]
                    \/ "statement" \in Faults
            \/ answer'[r] = "error" /\ attachments' = attachments /\ pc'[r] = "done"
            \/ /\ answer'[r] \in attachments /\ data[answer'[r]] = data[r]
               /\ pc[r] = "dedupe" /\ attachments' = attachments /\ pc'[r] = "remove"
            \/ /\ answer'[r] = answer[r] /\ attachments' = attachments
               /\ pc[r] = "remove" /\ pc'[r] = "done"
            \/ /\ answer'[r] \in {r, "error"} /\ attachments' = attachments \cup {r}
               /\ pc[r] = "commit" /\ pc'[r] = "done"
<1> USE DEF given, fileVars, rowVars, callVars, Answer, Goto, TypeOK, PastDedupe
<1>1. CASE ReadRows(r)
  BY <1>1 DEF ReadRows
<1>2. CASE CreateTemp(r) \/ ReadChunk(r) \/ WriteTemp(r)
  BY <1>2 DEF CreateTemp, ReadChunk, WriteTemp
<1>3. CASE FileCallFails(r) \/ InsertRow(r) \/ AppendAudit(r)
  BY <1>3 DEF FileCallFails, InsertRow, AppendAudit
<1>4. CASE Deduplicate(r)
  BY <1>4 DEF Deduplicate, SameHash
<1>5. CASE PassDedupe(r)
  BY <1>5 DEF PassDedupe, SameHash
<1>6. CASE RemoveTemp(r)
  BY <1>6 DEF RemoveTemp
<1>7. CASE RenameTemp(r) \/ RenameFails(r)
  BY <1>7 DEF RenameTemp, RenameFails
<1>8. CASE ReadTemp(r) \/ OpenStored(r) \/ WriteStored(r)
  BY <1>8 DEF ReadTemp, OpenStored, WriteStored
<1>9. CASE Commit(r)
  BY <1>9 DEF Commit
<1>10. CASE CommitFails(r)
  BY <1>10 DEF CommitFails
<1> QED
  BY <1>1, <1>2, <1>3, <1>4, <1>5, <1>6, <1>7, <1>8, <1>9, <1>10 DEF HandleComplete

LEMMA SerialStep ==
  ASSUME TypeOK, SerialInv, [SerialNext]_vars
  PROVE  SerialInv'
<1>0. \A q, r \in InFlight' : q = r
  BY DEF SerialNext, SerialInv, InFlight, vars
<1>1. ASSUME UNCHANGED <<pc, answer, attachments, data>> PROVE SerialInv'
  BY <1>1 DEF SerialInv, InFlight, AnswerTrue
<1>2. ASSUME NEW r \in Completes, HandleComplete(r) PROVE SerialInv'
  <2>1. /\ AnswerTrue(r) /\ pc[r] # "done" /\ None \notin Completes /\ "error" \notin Completes
        /\ \A a \in attachments : a \in Completes /\ a # r /\ pc[a] = "done"
    BY <1>2, AnswerSteps, ConstantsAssumption DEF SerialInv, TypeOK
  <2>2. \A q \in Completes : q # r =>
          pc'[q] = pc[q] /\ answer'[q] = answer[q] /\ data'[q] = data[q]
    BY <1>2, AnswerSteps
  <2>3. attachments' \in {attachments, attachments \cup {r}}
        /\ (r \in attachments' => pc'[r] = "done")
    BY <1>2, <2>1, AnswerSteps
  <2>4. AnswerTrue(r)'
    <3>1. CASE answer'[r] = answer[r] /\ pc[r] # "remove"
      <4>1. answer'[r] = None /\ answer'[r] \notin Completes
        BY <2>1, <3>1 DEF AnswerTrue
      <4> QED BY <4>1 DEF AnswerTrue
    <3>2. CASE answer'[r] = "error" /\ pc'[r] = "done"
      BY <2>1, <3>2 DEF AnswerTrue
    <3>3. CASE /\ answer'[r] \in attachments /\ data[answer'[r]] = data[r]
               /\ pc[r] = "dedupe" /\ attachments' = attachments /\ pc'[r] = "remove"
      <4>1. data' = data
        BY <1>2, <3>3, AnswerSteps
      <4> QED BY <3>3, <4>1 DEF AnswerTrue
    <3>4. CASE /\ answer'[r] = answer[r] /\ attachments' = attachments
               /\ pc[r] = "remove" /\ pc'[r] = "done"
      <4>1. data' = data
        BY <1>2, <3>4, AnswerSteps
      <4> QED BY <2>1, <3>4, <4>1 DEF AnswerTrue
    <3>5. CASE /\ answer'[r] \in {r, "error"} /\ attachments' = attachments \cup {r}
               /\ pc[r] = "commit" /\ pc'[r] = "done"
      BY <2>1, <3>5 DEF AnswerTrue
    <3> QED BY <1>2, <3>1, <3>2, <3>3, <3>4, <3>5, AnswerSteps
  <2>5. ASSUME NEW q \in Completes PROVE AnswerTrue(q)'
    <3>1. CASE q # r
      <4>1. AnswerTrue(q)
        BY DEF SerialInv
      <4> QED BY <2>1, <2>2, <2>3, <3>1, <4>1 DEF AnswerTrue
    <3> QED BY <2>4, <3>1
  <2>6. \A a \in attachments' : pc'[a] = "done"
    BY <2>1, <2>2, <2>3
  <2> QED BY <1>0, <2>5, <2>6 DEF SerialInv
<1>3. ASSUME Crash PROVE SerialInv'
  <2>1. /\ UNCHANGED <<data, attachments>>
        /\ \A q \in Completes : pc'[q] = IF q \in InFlight THEN "done" ELSE pc[q]
        /\ \A q \in Completes : answer'[q] = IF q \in InFlight THEN "error" ELSE answer[q]
    BY <1>3 DEF Crash, fileVars, rowVars
  <2>2. ASSUME NEW q \in Completes PROVE AnswerTrue(q)'
    <3>1. AnswerTrue(q) /\ "error" \notin Completes
      BY ConstantsAssumption DEF SerialInv
    <3> QED BY <2>1, <3>1 DEF AnswerTrue
  <2>3. \A a \in attachments : a \in Completes
    BY DEF TypeOK
  <2> QED BY <1>0, <2>1, <2>2, <2>3 DEF SerialInv
<1>4. CASE UNCHANGED vars
  BY <1>1, <1>4 DEF vars
<1>5. CASE \E u \in Uploads : InitUpload(u)
  BY <1>1, <1>5 DEF InitUpload, callVars
<1>6. CASE \E p \in Posts : HandlePost(p)
  BY <1>1, <1>6 DEF HandlePost, OpenChunk, WriteChunk, RecordChunk, callVars
<1> QED BY <1>2, <1>3, <1>4, <1>5, <1>6 DEF SerialNext, Next

\* Without failing statements, what passes the query for its hash is new, and
\* stays new until it is committed: no other completion runs meanwhile.
LEMMA NewStep ==
  ASSUME "statement" \notin Faults, TypeOK, SerialInv, NewInv, [SerialNext]_vars
  PROVE  NewInv'
<1>1. ASSUME UNCHANGED <<attachments, data>>,
             \A q \in Completes : pc'[q] \in PastDedupe => pc[q] \in PastDedupe
      PROVE  NewInv'
  BY <1>1 DEF NewInv, NewContent, OnePerContent
<1>2. ASSUME NEW r \in Completes, HandleComplete(r) PROVE NewInv'
  <2>1. /\ \A a \in attachments : a \in Completes /\ a # r
        /\ \A q \in Completes : q # r => pc'[q] = pc[q] /\ data'[q] = data[q]
    BY <1>2, AnswerSteps DEF SerialInv, TypeOK, InFlight
  <2>2. CASE attachments' = attachments
    <3>1. OnePerContent'
      BY <2>1, <2>2 DEF NewInv, OnePerContent
    <3>2. ASSUME NEW q \in Completes PROVE NewContent(q)'
      <4>1. CASE q # r
        BY <2>1, <2>2, <4>1 DEF NewInv, NewContent
      <4>2. CASE q = r /\ pc'[r] \in PastDedupe
        <5>1. data'[r] = data[r] /\ \A a \in attachments : data[a] # data[r]
          <6>1. \/ pc[r] \in PastDedupe
                \/ data'[r] = data[r] /\ \A a \in attachments : data[a] # data[r]
            BY <1>2, <4>2, AnswerSteps DEF PastDedupe
          <6>2. CASE pc[r] \in PastDedupe
            BY <1>2, <6>2, AnswerSteps DEF PastDedupe, NewInv, NewContent
          <6> QED BY <6>1, <6>2
        <5> QED BY <2>1, <2>2, <4>2, <5>1 DEF NewContent
      <4>3. CASE q = r /\ pc'[r] \notin PastDedupe
        BY <4>3 DEF NewContent
      <4> QED BY <4>1, <4>2, <4>3
    <3> QED BY <3>1, <3>2 DEF NewInv
  <2>3. CASE attachments' = attachments \cup {r} /\ pc[r] = "commit" /\ pc'[r] = "done"
    <3>1. data' = data
      BY <1>2, <2>3, AnswerSteps
    <3>2. \A a \in attachments : data[a] # data[r]
      BY <2>3 DEF NewInv, NewContent, PastDedupe
    <3>3. \A q \in Completes : q # r => pc[q] \in {"idle", "done"}
      BY <2>3 DEF SerialInv, InFlight
    <3>4. OnePerContent'
      BY <2>3, <3>1, <3>2 DEF NewInv, OnePerContent
    <3>5. \A q \in Completes : pc'[q] \notin PastDedupe
      BY <2>1, <2>3, <3>3 DEF PastDedupe
    <3> QED BY <3>4, <3>5 DEF NewInv, NewContent
  <2> QED BY <1>2, <2>2, <2>3, AnswerSteps
<1>3. CASE Crash
  <2>1. UNCHANGED <<attachments, data>> /\ \A q \in Completes : pc'[q] \in {"done", pc[q]}
    BY <1>3 DEF Crash, fileVars, rowVars
  <2> QED BY <1>1, <2>1 DEF PastDedupe
<1>4. CASE UNCHANGED vars
  BY <1>1, <1>4 DEF vars
<1>5. CASE \E u \in Uploads : InitUpload(u)
  BY <1>1, <1>5 DEF InitUpload, callVars
<1>6. CASE \E p \in Posts : HandlePost(p)
  BY <1>1, <1>6 DEF HandlePost, OpenChunk, WriteChunk, RecordChunk, callVars
<1> QED BY <1>2, <1>3, <1>4, <1>5, <1>6 DEF SerialNext, Next

LEMMA SerialInit == Init => SerialInv /\ NewInv
  BY ConstantsAssumption
  DEF Init, SerialInv, InFlight, AnswerTrue, NewInv, OnePerContent, NewContent, PastDedupe

\* With one completion at a time, whatever fails and wherever a crash falls: what
\* was answered was inserted.
THEOREM SerialInvariant == SerialSpec => [](TypeOK /\ SerialInv)
<1>1. Init => UploadInv /\ SerialInv
  BY UploadInit, SerialInit
<1>2. UploadInv /\ SerialInv /\ [SerialNext]_vars => (UploadInv /\ SerialInv)'
  <2> SUFFICES ASSUME UploadInv, SerialInv, [SerialNext]_vars PROVE (UploadInv /\ SerialInv)'
    OBVIOUS
  <2>1. [Next]_vars /\ TypeOK
    BY DEF SerialNext, UploadInv, TypeInv
  <2> QED BY <2>1, UploadPreserved, SerialStep
<1>3. UploadInv => TypeOK
  BY DEF UploadInv, TypeInv
<1> QED BY <1>1, <1>2, <1>3, PTL DEF SerialSpec

\* If no statement fails, the query for the hash keeps contents apart.
THEOREM NewInvariant ==
  ASSUME "statement" \notin Faults
  PROVE  SerialSpec => []NewInv
<1>1. Init => NewInv
  BY SerialInit
<1>2. TypeOK /\ SerialInv /\ NewInv /\ [SerialNext]_vars => NewInv'
  BY NewStep
<1> QED BY <1>1, <1>2, SerialInvariant, PTL DEF SerialSpec

\* SHA-256 deduplication: no content is stored under two attachments.
THEOREM OneAttachmentPerContent ==
  ASSUME "statement" \notin Faults
  PROVE  SerialSpec => []OnePerContent
<1>1. NewInv => OnePerContent
  BY DEF NewInv
<1> QED BY <1>1, NewInvariant, PTL

\* Completing an upload again, also after a crash or for another upload of the
\* same content, names the attachment that was named before.
THEOREM CompletionsAgree ==
  ASSUME "statement" \notin Faults
  PROVE  SerialSpec => []CompletionIdempotent
<1>1. SerialInv /\ NewInv => CompletionIdempotent
  <2> SUFFICES ASSUME SerialInv, NewInv, NEW r \in Completes, NEW s \in Completes,
                      Answered(r), Answered(s), data[r] = data[s]
               PROVE  answer[r] = answer[s]
    BY DEF CompletionIdempotent
  <2>1. /\ answer[r] \in attachments /\ data[answer[r]] = data[r]
        /\ answer[s] \in attachments /\ data[answer[s]] = data[s]
    BY DEF SerialInv, AnswerTrue, Answered
  <2> QED BY <2>1 DEF NewInv, OnePerContent
<1> QED BY <1>1, SerialInvariant, NewInvariant, PTL
=============================================================================
