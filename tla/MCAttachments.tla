---------------------------- MODULE MCAttachments ---------------------------
\* Small instances of Attachments for TLC.
EXTENDS Attachments, TLC

\* Files of one piece, as long as a chunk may be, which differ in the last byte.
DifferingInit ==
  /\ Init
  /\ \A u \in Uploads : Len(file[u]) = 1 /\ Len(file[u][1]) = MaxLength
  /\ \A u, v \in Uploads, k \in 1 .. MaxLength :
       (file[u][1][k] = file[v][1][k]) <=> (k < MaxLength \/ u = v)

\* Whose file is what does not matter to clients that send anything.
AnyInit == Init /\ \A u \in Uploads : file[u] = <<Nothing>>

\* Nothing but ReadChunk sees what a chunk handler does: a request is put off
\* until a completion of its upload is about to read, and once begun goes on
\* unless a completion reads.
PutOff ==
  /\ \A p \in Posts : post[p] = Idle /\ post'[p] # Idle =>
       \E r \in Completes : pc[r] = "read" /\ upload[r] = post'[p].upload
  /\ \/ post' # post
     \/ \A p \in Posts : post[p] = Idle
     \/ \E r \in Completes : pc[r] = "read" /\ pc'[r] # "read"

MCSteadySpec == DifferingInit /\ [][SteadyNext /\ PutOff]_vars
MCPatientSpec == AnyInit /\ [][PatientNext /\ PutOff]_vars
MCSerialSpec == AnyInit /\ [][SerialNext /\ PutOff]_vars

Symmetry ==
  Permutations(Uploads) \cup Permutations(Bytes) \cup Permutations(Posts)
    \cup Permutations(Completes)
=============================================================================
