---------------------------- MODULE Attachments -----------------------------
(***************************************************************************)
(* The chunked upload of attachments: attachmentInitUpload,                *)
(* attachmentUploadChunk and attachmentCompleteUpload, over the tables     *)
(* attachment_chunks and attachments and the files below /app/storage.     *)
(*                                                                         *)
(* Files are inodes: os.Create empties the file that is there, a rename    *)
(* moves whatever inode the path names, and a handler keeps writing from   *)
(* the start of the inode it opened.  Each system call and each SQL        *)
(* statement is a step; a system call may fail, and a write that fails     *)
(* leaves any prefix of what it was to write.  SHA-256 is taken to be      *)
(* injective, so a content stands for its hash and for the storage path    *)
(* made of it.                                                             *)
(***************************************************************************)
EXTENDS Naturals, Sequences

CONSTANTS
  Uploads,    \* upload ids
  Cases,      \* values of caseId
  Bytes,      \* what data is made of
  MaxLength,  \* most bytes in a chunk
  MaxChunks,  \* most chunks in a file
  Posts,      \* handlers of POST /attachments/:uploadId/chunk at work at a time
  Completes,  \* calls of POST /attachments/complete
  Faults,     \* what may happen: SQL statements that fail, system calls on
              \* files that fail, deaths of the process
  None        \* no file, no row, no answer

Contents == UNION {[1 .. n -> Bytes] : n \in 0 .. MaxLength}

ASSUME ConstantsAssumption ==
  /\ MaxLength \in Nat
  /\ MaxChunks \in Nat \ {0}
  /\ Faults \subseteq {"statement", "disk", "crash"}
  /\ None \notin Completes \X {"temp", "copy"}
  /\ None \notin Contents
  /\ {None, "error"} \cap Completes = {}

Nothing == <<>>                              \* an empty file
Files == UNION {[1 .. n -> Contents] : n \in 1 .. MaxChunks}
Inodes == Completes \X {"temp", "copy"}

\* What a file holds after new was written from its start, and what a write of
\* data may have written when it returns: all of it, or less on a failing disk.
Over(new, old) ==
  [k \in DOMAIN new \cup DOMAIN old |-> IF k \in DOMAIN new THEN new[k] ELSE old[k]]
Prefixes(c) == {[k \in 1 .. n |-> c[k]] : n \in 0 .. Len(c)}
Written(c) == {w \in Prefixes(c) : w = c \/ "disk" \in Faults}

VARIABLES
  file,        \* upload -> the pieces of the file its client has to send
  caseOf,      \* upload -> caseId given to init
  chunkRow,    \* upload -> status of its row in attachment_chunks (index 0)
  chunk,       \* upload -> chunk index -> the file chunk_<index>
  temp,        \* upload -> inode at uploads/<id>/reassembled.dat
  store,       \* content -> inode at attachments/<hash>
  content,     \* inode -> data
  post,        \* chunk handler -> its step, upload, chunk index and body
  pc,          \* complete call -> where its handler stands
  upload,      \* complete call -> its upload
  fd,          \* complete call -> inode it writes to
  data,        \* complete call -> what it read and hashed
  buf,         \* complete call -> what it read back after a failed rename
  attachments, \* complete calls whose row is committed in attachments
  audited,     \* complete calls whose UPLOAD record is in audit_records
  answer,      \* complete call -> "none", "error", or the attachment it names
  hurt         \* history: complete calls that went on after a failed write or
               \* rename and have not put all they hashed in its place since

fileVars == <<chunk, temp, store, content>>
rowVars == <<attachments, audited>>
callVars == <<pc, upload, fd, data, buf, attachments, audited, answer, hurt>>
given == <<file, caseOf>>
vars == <<file, caseOf, chunkRow, chunk, temp, store, content, post, pc, upload,
          fd, data, buf, attachments, audited, answer, hurt>>

Idle == [step |-> "idle", upload |-> None, index |-> 0, body |-> Nothing]

Steps == {"idle", "create", "read", "write", "dedupe", "remove", "rename",
          "fallback", "open", "copy", "cleanup", "insert", "audit", "commit", "done"}

InFlight == {r \in Completes : pc[r] \notin {"idle", "done"}}

TypeOK ==
  /\ file \in [Uploads -> Files]
  /\ caseOf \in [Uploads -> Cases]
  /\ chunkRow \in [Uploads -> {None, "pending", "uploaded"}]
  /\ chunk \in [Uploads -> [0 .. MaxChunks - 1 -> Contents \cup {None}]]
  /\ temp \in [Uploads -> Inodes \cup {None}]
  /\ store \in [Contents -> Inodes \cup {None}]
  /\ content \in [Inodes -> Contents]
  /\ post \in [Posts -> [step : {"idle", "write", "record"},
                         upload : Uploads \cup {None}, index : 0 .. MaxChunks - 1,
                         body : Contents]]
  /\ pc \in [Completes -> Steps]
  /\ upload \in [Completes -> Uploads \cup {None}]
  /\ fd \in [Completes -> Inodes \cup {None}]
  /\ data \in [Completes -> Contents]
  /\ buf \in [Completes -> Contents]
  /\ attachments \subseteq Completes
  /\ audited \subseteq Completes
  /\ answer \in [Completes -> Completes \cup {None, "error"}]
  /\ hurt \subseteq Completes

Init ==
  /\ file \in [Uploads -> Files]
  /\ caseOf \in [Uploads -> Cases]
  /\ chunkRow = [u \in Uploads |-> None]
  /\ chunk = [u \in Uploads |-> [i \in 0 .. MaxChunks - 1 |-> None]]
  /\ temp = [u \in Uploads |-> None]
  /\ store = [h \in Contents |-> None]
  /\ content = [n \in Inodes |-> Nothing]
  /\ post = [p \in Posts |-> Idle]
  /\ pc = [r \in Completes |-> "idle"]
  /\ upload = [r \in Completes |-> None]
  /\ fd = [r \in Completes |-> None]
  /\ data = [r \in Completes |-> Nothing]
  /\ buf = [r \in Completes |-> Nothing]
  /\ attachments = {}
  /\ audited = {}
  /\ answer = [r \in Completes |-> None]
  /\ hurt = {}

-----------------------------------------------------------------------------
\* attachmentInitUpload makes the directory and one row, for chunk 0, whatever
\* totalChunks says.  When it fails nobody learns the upload id.
InitUpload(u) ==
  /\ chunkRow[u] = None
  /\ chunkRow' = [chunkRow EXCEPT ![u] = "pending"]
  /\ UNCHANGED <<given, fileVars, post, callVars>>

\* attachmentUploadChunk: os.WriteFile empties the file of the chunk, then writes
\* the body of this request, whatever an earlier request for the chunk sent.
\* When it cannot open the file it changes nothing.
OpenChunk(p) ==
  /\ post[p].step = "idle"
  /\ \E u \in Uploads, i \in 0 .. MaxChunks - 1, b \in Contents :
       /\ chunkRow[u] # None
       /\ chunk' = [chunk EXCEPT ![u][i] = Nothing]
       /\ post' = [post EXCEPT ![p] = [step |-> "write", upload |-> u, index |-> i,
                                      body |-> b]]
  /\ UNCHANGED <<given, chunkRow, temp, store, content, callVars>>

\* A write that fails is answered 500 and leaves what it wrote.
WriteChunk(p) ==
  LET u == post[p].upload
      i == post[p].index
  IN  /\ post[p].step = "write"
      /\ \E w \in Written(post[p].body) :
           /\ chunk' = [chunk EXCEPT ![u][i] = Over(w, chunk[u][i])]
           /\ \/ w = post[p].body /\ post' = [post EXCEPT ![p].step = "record"]
              \/ "disk" \in Faults /\ post' = [post EXCEPT ![p] = Idle]
      /\ UNCHANGED <<given, chunkRow, temp, store, content, callVars>>

\* UPDATE attachment_chunks: only the row of chunk 0 exists, and the count of
\* rows is not looked at, so every other chunk is answered "uploaded" too.
RecordChunk(p) ==
  /\ post[p].step = "record"
  /\ \/ chunkRow' = IF post[p].index = 0
                    THEN [chunkRow EXCEPT ![post[p].upload] = "uploaded"]
                    ELSE chunkRow
     \/ "statement" \in Faults /\ UNCHANGED chunkRow
  /\ post' = [post EXCEPT ![p] = Idle]
  /\ UNCHANGED <<given, fileVars, callVars>>

-----------------------------------------------------------------------------
\* attachmentCompleteUpload.

Goto(r, step) == pc' = [pc EXCEPT ![r] = step]
Answer(r, a) == Goto(r, "done") /\ answer' = [answer EXCEPT ![r] = a]

\* SELECT the rows of the upload; an unknown upload has none and answers 400.
ReadRows(r) ==
  /\ pc[r] = "idle"
  /\ \E u \in Uploads :
       /\ upload' = [upload EXCEPT ![r] = u]
       /\ \/ chunkRow[u] # None /\ Goto(r, "create") /\ UNCHANGED answer
          \/ /\ chunkRow[u] = None \/ "statement" \in Faults
             /\ Answer(r, "error")
  /\ UNCHANGED <<given, chunkRow, fileVars, post, fd, data, buf, rowVars, hurt>>

\* Mutant: one reassembled.dat for all uploads.
CreateSharedTemp(r) ==
  LET open == {temp[u] : u \in Uploads} \ {None}
      n == IF open = {} THEN <<r, "temp">> ELSE CHOOSE m \in open : TRUE
  IN  /\ pc[r] = "create"
      /\ temp' = [temp EXCEPT ![upload[r]] = n]
      /\ content' = [content EXCEPT ![n] = Nothing]
      /\ fd' = [fd EXCEPT ![r] = n]
      /\ Goto(r, "read")
      /\ UNCHANGED <<given, chunkRow, chunk, store, post, upload, data, buf,
                     rowVars, answer, hurt>>

\* os.Create(reassembled.dat): a file that is there already is emptied.
CreateTemp(r) ==
  LET n == IF temp[upload[r]] = None THEN <<r, "temp">> ELSE temp[upload[r]]
  IN  /\ pc[r] = "create"
      /\ temp' = [temp EXCEPT ![upload[r]] = n]
      /\ content' = [content EXCEPT ![n] = Nothing]
      /\ fd' = [fd EXCEPT ![r] = n]
      /\ Goto(r, "read")
      /\ UNCHANGED <<given, chunkRow, chunk, store, post, upload, data, buf,
                     rowVars, answer, hurt>>

\* Creating reassembled.dat, reading the chunk or making the directory of the
\* stored file fails: 500, and reassembled.dat stays as it is.
FileCallFails(r) ==
  /\ pc[r] \in {"create", "read", "dedupe"}
  /\ "disk" \in Faults
  /\ fd' = [fd EXCEPT ![r] = None]
  /\ Answer(r, "error")
  /\ UNCHANGED <<given, chunkRow, fileVars, post, upload, data, buf, rowVars, hurt>>

\* The loop over the rows reads the one chunk file they name.
ReadChunk(r) ==
  LET c == chunk[upload[r]][0]
  IN  /\ pc[r] = "read"
      /\ IF c = None
         THEN fd' = [fd EXCEPT ![r] = None] /\ Answer(r, "error") /\ UNCHANGED data
         ELSE data' = [data EXCEPT ![r] = c] /\ Goto(r, "write") /\ UNCHANGED <<fd, answer>>
      /\ UNCHANGED <<given, chunkRow, fileVars, post, upload, buf, rowVars, hurt>>

\* out.Write(data), its error dropped, beside the hash of all of data.
WriteTemp(r) ==
  /\ pc[r] = "write"
  /\ \E w \in Written(data[r]) :
       /\ content' = [content EXCEPT ![fd[r]] = Over(w, content[fd[r]])]
       /\ hurt' = IF w = data[r] THEN hurt ELSE hurt \cup {r}
  /\ fd' = [fd EXCEPT ![r] = None]
  /\ Goto(r, "dedupe")
  /\ UNCHANGED <<given, chunkRow, chunk, temp, store, post, upload, data, buf,
                 rowVars, answer>>

\* Mutant: a file counts as known only within its own upload.
SameHashAndUpload(a, r) == data[a] = data[r] /\ upload[a] = upload[r]

SameHash(a, r) == data[a] = data[r]

\* SELECT id FROM attachments WHERE sha256_hash = ? LIMIT 1
Deduplicate(r) ==
  /\ pc[r] = "dedupe"
  /\ \E a \in attachments :
       /\ SameHash(a, r)
       /\ answer' = [answer EXCEPT ![r] = a]
  /\ Goto(r, "remove")
  /\ UNCHANGED <<given, chunkRow, fileVars, post, upload, fd, data, buf, rowVars, hurt>>

\* Mutant: the query for the hash is not made.
PassDedupeAlways(r) ==
  /\ pc[r] = "dedupe"
  /\ Goto(r, "rename")
  /\ UNCHANGED <<given, chunkRow, fileVars, post, upload, fd, data, buf, rowVars,
                 answer, hurt>>

\* No such row, or the query failed: the upload is taken for a new one.
PassDedupe(r) ==
  /\ pc[r] = "dedupe"
  /\ (\A a \in attachments : ~ SameHash(a, r)) \/ "statement" \in Faults
  /\ Goto(r, "rename")
  /\ UNCHANGED <<given, chunkRow, fileVars, post, upload, fd, data, buf, rowVars,
                 answer, hurt>>

\* os.Remove(reassembled.dat), of whatever file is there by now, its error dropped.
RemoveTemp(r) ==
  /\ pc[r] \in {"remove", "cleanup"}
  /\ \/ temp' = [temp EXCEPT ![upload[r]] = None]
     \/ "disk" \in Faults /\ UNCHANGED temp
  /\ Goto(r, IF pc[r] = "remove" THEN "done" ELSE "insert")
  /\ UNCHANGED <<given, chunkRow, chunk, store, content, post, upload, fd, data, buf,
                 rowVars, answer, hurt>>

\* Mutant: os.Link in place of os.Rename leaves reassembled.dat behind.
LinkTemp(r) ==
  /\ pc[r] = "rename"
  /\ temp[upload[r]] # None
  /\ store' = [store EXCEPT ![data[r]] = temp[upload[r]]]
  /\ Goto(r, "insert")
  /\ UNCHANGED <<given, chunkRow, chunk, temp, content, post, upload, fd, data, buf,
                 rowVars, answer, hurt>>

\* os.Rename(reassembled.dat, attachments/<hash>)
RenameTemp(r) ==
  LET u == upload[r]
  IN  /\ pc[r] = "rename"
      /\ temp[u] # None
      /\ store' = [store EXCEPT ![data[r]] = temp[u]]
      /\ temp' = [temp EXCEPT ![u] = None]
      /\ Goto(r, "insert")
      /\ UNCHANGED <<given, chunkRow, chunk, content, post, upload, fd, data, buf,
                     rowVars, answer, hurt>>

\* There is nothing to rename, or the rename fails with the file still there.
RenameFails(r) ==
  /\ pc[r] = "rename"
  /\ temp[upload[r]] = None \/ "disk" \in Faults
  /\ hurt' = hurt \cup {r}
  /\ Goto(r, "fallback")
  /\ UNCHANGED <<given, chunkRow, fileVars, post, upload, fd, data, buf, rowVars, answer>>

\* data, _ := os.ReadFile(reassembled.dat): what was read before an error counts.
ReadTemp(r) ==
  LET u == upload[r]
  IN  /\ pc[r] = "fallback"
      /\ \E c \in Written(IF temp[u] = None THEN Nothing ELSE content[temp[u]]) :
           buf' = [buf EXCEPT ![r] = c]
      /\ Goto(r, "open")
      /\ UNCHANGED <<given, chunkRow, fileVars, post, upload, fd, data, rowVars, answer, hurt>>

\* os.WriteFile(attachments/<hash>, data) empties the stored file, if there is one,
\* or gives up; its error is dropped.
OpenStored(r) ==
  LET h == data[r]
      n == IF store[h] = None THEN <<r, "copy">> ELSE store[h]
  IN  /\ pc[r] = "open"
      /\ \/ /\ store' = [store EXCEPT ![h] = n]
            /\ content' = [content EXCEPT ![n] = Nothing]
            /\ fd' = [fd EXCEPT ![r] = n]
            /\ Goto(r, "copy")
            /\ UNCHANGED buf
         \/ /\ "disk" \in Faults
            /\ buf' = [buf EXCEPT ![r] = Nothing]
            /\ Goto(r, "cleanup")
            /\ UNCHANGED <<store, content, fd>>
      /\ UNCHANGED <<given, chunkRow, chunk, temp, post, upload, data, rowVars, answer, hurt>>

\* and writes what was read back to the file it opened.
WriteStored(r) ==
  /\ pc[r] = "copy"
  /\ \E w \in Written(buf[r]) :
       /\ content' = [content EXCEPT ![fd[r]] = Over(w, content[fd[r]])]
       /\ hurt' = IF w = data[r] THEN hurt \ {r} ELSE hurt
  /\ fd' = [fd EXCEPT ![r] = None]
  /\ buf' = [buf EXCEPT ![r] = Nothing]
  /\ Goto(r, "cleanup")
  /\ UNCHANGED <<given, chunkRow, chunk, temp, store, post, upload, data, rowVars, answer>>

\* INSERT INTO attachments inside a transaction; visible once it commits.  The
\* case id is read again from the chunk row before; the case of an attachment
\* is that of its upload as long as this query does not fail.
InsertRow(r) ==
  /\ pc[r] = "insert"
  /\ \/ Goto(r, "audit") /\ UNCHANGED answer
     \/ "statement" \in Faults /\ Answer(r, "error")
  /\ UNCHANGED <<given, chunkRow, fileVars, post, upload, fd, data, buf, rowVars, hurt>>

\* The UPLOAD record goes through a connection of its own, before the commit.
AppendAudit(r) ==
  /\ pc[r] = "audit"
  /\ \/ audited' = audited \cup {r}
     \/ "statement" \in Faults /\ UNCHANGED audited
  /\ Goto(r, "commit")
  /\ UNCHANGED <<given, chunkRow, fileVars, post, upload, fd, data, buf, attachments,
                 answer, hurt>>

\* Mutant: the answer carries the upload id for the attachment id.
CommitAnswersUpload(r) ==
  /\ pc[r] = "commit"
  /\ attachments' = attachments \cup {r}
  /\ Answer(r, upload[r])
  /\ UNCHANGED <<given, chunkRow, fileVars, post, upload, fd, data, buf, audited, hurt>>

Commit(r) ==
  /\ pc[r] = "commit"
  /\ attachments' = attachments \cup {r}
  /\ Answer(r, r)
  /\ UNCHANGED <<given, chunkRow, fileVars, post, upload, fd, data, buf, audited, hurt>>

\* The COMMIT fails, or takes effect and the answer is lost with the connection or
\* with the process.
CommitFails(r) ==
  /\ pc[r] = "commit"
  /\ \/ "statement" \in Faults /\ UNCHANGED attachments
     \/ Faults \cap {"statement", "crash"} # {} /\ attachments' = attachments \cup {r}
  /\ Answer(r, "error")
  /\ UNCHANGED <<given, chunkRow, fileVars, post, upload, fd, data, buf, audited, hurt>>

\* The process dies: files and committed rows stay, open transactions roll back.
Crash ==
  /\ "crash" \in Faults
  /\ InFlight # {} \/ \E p \in Posts : post[p] # Idle
  /\ pc' = [r \in Completes |-> IF r \in InFlight THEN "done" ELSE pc[r]]
  /\ answer' = [r \in Completes |-> IF r \in InFlight THEN "error" ELSE answer[r]]
  /\ post' = [p \in Posts |-> Idle]
  /\ fd' = [r \in Completes |-> None]
  /\ buf' = [r \in Completes |-> Nothing]
  /\ UNCHANGED <<given, chunkRow, fileVars, upload, data, rowVars, hurt>>

HandlePost(p) == OpenChunk(p) \/ WriteChunk(p) \/ RecordChunk(p)

HandleComplete(r) ==
  \/ ReadRows(r) \/ CreateTemp(r) \/ ReadChunk(r) \/ FileCallFails(r)
  \/ WriteTemp(r) \/ Deduplicate(r) \/ PassDedupe(r) \/ RemoveTemp(r)
  \/ RenameTemp(r) \/ RenameFails(r)
  \/ ReadTemp(r) \/ OpenStored(r) \/ WriteStored(r)
  \/ InsertRow(r) \/ AppendAudit(r) \/ Commit(r) \/ CommitFails(r)

Next ==
  \/ \E u \in Uploads : InitUpload(u)
  \/ \E p \in Posts : HandlePost(p)
  \/ \E r \in Completes : HandleComplete(r)
  \/ Crash

Spec == Init /\ [][Next]_vars

\* Clients that send a chunk of their file only as it is, however often.
Sends(p) == post[p].index < Len(file[post[p].upload])
              /\ post[p].body = file[post[p].upload][post[p].index + 1]

SteadyNext == Next /\ \A p \in Posts : post'[p].step = "write" => Sends(p)'

SteadySpec == Init /\ [][SteadyNext]_vars

\* Clients that complete an upload again only once they have the answer.
PatientNext == Next /\ \A q, r \in InFlight' : upload'[q] = upload'[r] => q = r

PatientSpec == Init /\ [][PatientNext]_vars

\* One completion at a time, of whatever upload.
SerialNext == Next /\ \A q, r \in InFlight' : q = r

SerialSpec == Init /\ [][SerialNext]_vars

-----------------------------------------------------------------------------
Answered(r) == pc[r] = "done" /\ answer[r] \in Completes

Intact(h) == store[h] # None /\ content[store[h]] = h

\* Every committed attachment can be read back as the content its hash was taken
\* of, whatever completions of other uploads, also of the same content, run beside
\* it and wherever a crash cuts them, unless a completion with that content went on
\* after an error it dropped (attachments.go:266, 293-297).
StoredIntact ==
  \A a \in attachments : Intact(data[a]) \/ \E r \in hurt : data[r] = data[a]

\* Whatever calls overlap and whatever fails, no byte of a stored file is another
\* file's: it holds the bytes its hash was taken of as far as both go.
NeverForeign ==
  \A h \in Contents : store[h] # None =>
    \A k \in DOMAIN h \cap DOMAIN content[store[h]] : content[store[h]][k] = h[k]

\* No content is stored under two attachments (deduplication by SHA-256), also
\* when a crash cut an earlier completion short.
OnePerContent == \A a, b \in attachments : data[a] = data[b] => a = b

\* Completing an upload again names the attachment it named before.
CompletionIdempotent ==
  \A r, s \in Completes :
    Answered(r) /\ Answered(s) /\ upload[r] = upload[s] /\ data[r] = data[s]
      => answer[r] = answer[s]

\* What the README promises of chunked transfer: an attachment is the file.
WholeFile == \A a \in attachments : file[upload[a]] = <<data[a]>>

\* What the verification strategy promises: a deduplicated file is re-linked, so
\* the case it was uploaded for has an attachment with its content.
Relinked ==
  \A r \in Completes :
    Answered(r) =>
      \E a \in attachments :
        data[a] = data[r] /\ caseOf[upload[a]] = caseOf[upload[r]]
=============================================================================
