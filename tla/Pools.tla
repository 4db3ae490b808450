------------------------------- MODULE Pools --------------------------------
(***************************************************************************)
(* The pools of gzip readers, gzip writers and buffers                     *)
(* (larking/compress.go) and their users: RecvMsg and SendMsg of gRPC      *)
(* streams (larking/grpc.go) and the compressed bodies of HTTP requests    *)
(* (larking/http.go), all in goroutines of their own.                      *)
(*                                                                         *)
(* A reader puts itself back when it returns io.EOF, a writer when it is   *)
(* closed, a buffer is put back by hand.  Nothing keeps an object from     *)
(* being put back twice: a pool is a bag.  Every message is Chunks chunks  *)
(* of data that say whose they are.                                        *)
(***************************************************************************)
EXTENDS Naturals, Sequences, FiniteSets

CONSTANTS
  Receivers, Senders, Bodies, \* the users
  Objects,   \* the readers, writers and buffers that can be made (bound)
  NoObject,
  Chunks,    \* chunks of a message
  MaxRounds  \* per user, bound on its messages

Users == Receivers \cup Senders \cup Bodies

ASSUME UsersAreDistinct ==
  Receivers \cap Senders = {} /\ Receivers \cap Bodies = {} /\ Senders \cap Bodies = {}

ASSUME NoObjectIsNone == NoObject \notin Objects

ASSUME BoundsAreNat == Chunks \in Nat /\ MaxRounds \in [Users -> Nat]

VARIABLES
  upc,    \* where each user is
  round,  \* its message
  z,      \* its gzip reader or writer
  b,      \* its buffer
  result, \* what it received or sent, as the chunks' owners
  pool,   \* per kind, how many times each object is in the pool
  made,   \* per kind, the objects that were made
  src,    \* per reader, whose data it reads (owner, chunks left)
  dst,    \* per writer, where it writes and what it holds back
  bytes,  \* per buffer, its content
  again   \* some user has read after io.EOF

poolVars == <<upc, round, z, b, result, pool, made, src, dst, bytes, again>>

Kinds == {"reader", "writer", "buffer"}

Owner(u) == [user |-> u, round |-> round[u]]

Init ==
  /\ upc = [u \in Users |-> "idle"]
  /\ round = [u \in Users |-> 0]
  /\ z = [u \in Users |-> NoObject]
  /\ b = [u \in Users |-> NoObject]
  /\ result = [u \in Users |-> <<>>]
  /\ pool = [k \in Kinds |-> [o \in Objects |-> 0]]
  /\ made = [k \in Kinds |-> {}]
  /\ src = [o \in Objects |-> [owner |-> NoObject, left |-> 0]]
  /\ dst = [o \in Objects |-> [to |-> NoObject, held |-> <<>>]]
  /\ bytes = [o \in Objects |-> <<>>]
  /\ again = FALSE

-----------------------------------------------------------------------------
(* sync.Pool: Get returns an object of the pool or, even if there is one,    *)
(* none, and the caller makes it.                                            *)

Gets(k, o) ==
  \/ pool[k][o] > 0 /\ pool' = [pool EXCEPT ![k][o] = @ - 1] /\ UNCHANGED made
  \/ o \notin made[k] /\ made' = [made EXCEPT ![k] = @ \cup {o}] /\ UNCHANGED pool

Put(k, o) == pool' = [pool EXCEPT ![k][o] = @ + 1] /\ UNCHANGED made

Goes(u, pc) == upc' = [upc EXCEPT ![u] = pc]

(* A message is over, one way or the other. *)
Ends(u) == Goes(u, "idle") /\ round' = [round EXCEPT ![u] = @ + 1]

-----------------------------------------------------------------------------
(* gRPC: the buffer is taken and reset. *)

GetBuffer(u, o) ==
  /\ u \in Receivers \cup Senders /\ upc[u] = "idle" /\ round[u] < MaxRounds[u]
  /\ Gets("buffer", o)
  /\ b' = [b EXCEPT ![u] = o]
  /\ bytes' = [bytes EXCEPT ![o] = <<>>]
  /\ Goes(u, "open")
  /\ UNCHANGED <<round, z, result, src, dst, again>>

(* Decompress, of a body or of a message: a reader for the data of u. *)
MayDecompress(u) ==
  \/ u \in Receivers /\ upc[u] = "open"
  \/ u \in Bodies /\ upc[u] = "idle" /\ round[u] < MaxRounds[u]

Decompress(u, o) ==
  /\ MayDecompress(u)
  /\ Gets("reader", o)
  /\ z' = [z EXCEPT ![u] = o]
  /\ src' = [src EXCEPT ![o] = [owner |-> Owner(u), left |-> Chunks]]
  /\ result' = [result EXCEPT ![u] = <<>>]
  /\ Goes(u, "read")
  /\ UNCHANGED <<round, b, dst, bytes, again>>

(* The data have no gzip header.  gzip.NewReader makes nothing then; Reset   *)
(* fails after it took the data, and the reader goes back.  RecvMsg puts     *)
(* its buffer back.                                                          *)
DecompressFails(u, o) ==
  /\ MayDecompress(u)
  /\ o \in {NoObject} \cup {p \in Objects : pool["reader"][p] > 0}
  /\ src' = IF o = NoObject THEN src ELSE [src EXCEPT ![o] = [owner |-> Owner(u), left |-> 0]]
  /\ IF u \in Receivers THEN Put("buffer", b[u]) /\ b' = [b EXCEPT ![u] = NoObject]
     ELSE UNCHANGED <<pool, made, b>>
  /\ result' = [result EXCEPT ![u] = <<>>]
  /\ Ends(u)
  /\ UNCHANGED <<z, dst, bytes, again>>

(* gzipReader.Read of a chunk; ReadFrom appends it to the buffer. *)
ReadChunk(u) ==
  /\ upc[u] = "read" /\ src[z[u]].left > 0
  /\ src' = [src EXCEPT ![z[u]].left = @ - 1]
  /\ IF u \in Bodies
       THEN result' = [result EXCEPT ![u] = Append(@, src[z[u]].owner)] /\ UNCHANGED bytes
       ELSE bytes' = [bytes EXCEPT ![b[u]] = Append(@, src[z[u]].owner)] /\ UNCHANGED result
  /\ UNCHANGED <<upc, round, z, b, pool, made, dst, again>>

(* The data are corrupt: the reader is not put back, and is lost. *)
ReadFails(u) ==
  /\ upc[u] = "read" /\ src[z[u]].left > 0
  /\ IF u \in Receivers THEN Put("buffer", b[u]) /\ b' = [b EXCEPT ![u] = NoObject]
     ELSE UNCHANGED <<pool, made, b>>
  /\ z' = [z EXCEPT ![u] = NoObject]
  /\ result' = [result EXCEPT ![u] = <<>>]
  /\ Ends(u)
  /\ UNCHANGED <<src, dst, bytes, again>>

(* Mutant: the caller puts the reader back as well. *)
ReadEOFTwice(u) ==
  /\ upc[u] = "read" /\ src[z[u]].left = 0
  /\ pool' = [pool EXCEPT !["reader"][z[u]] = @ + 2] /\ UNCHANGED made
  /\ Goes(u, IF u \in Bodies THEN "eof" ELSE "copy")
  /\ UNCHANGED <<round, z, b, result, src, dst, bytes, again>>

(* Mutant: the reader is put back one chunk early. *)
ReadEOFEarly(u) ==
  /\ upc[u] = "read" /\ src[z[u]].left <= 1
  /\ Put("reader", z[u])
  /\ Goes(u, IF u \in Bodies THEN "eof" ELSE "copy")
  /\ UNCHANGED <<round, z, b, result, src, dst, bytes, again>>

ReadEOF(u) ==
  /\ upc[u] = "read" /\ src[z[u]].left = 0
  /\ Put("reader", z[u])
  /\ Goes(u, IF u \in Bodies THEN "eof" ELSE "copy")
  /\ UNCHANGED <<round, z, b, result, src, dst, bytes, again>>

(* The handler of a body, which AsHTTPBodyReader gave the reader, reads on   *)
(* after io.EOF: it gets what the reader now has, and io.EOF puts it back    *)
(* once more.                                                                *)
ReadAgain(u) ==
  /\ upc[u] = "eof" /\ ~again
  /\ again' = TRUE
  /\ IF src[z[u]].left > 0
       THEN /\ src' = [src EXCEPT ![z[u]].left = @ - 1]
            /\ result' = [result EXCEPT ![u] = Append(@, src[z[u]].owner)]
            /\ UNCHANGED <<pool, made>>
       ELSE Put("reader", z[u]) /\ UNCHANGED <<src, result>>
  /\ UNCHANGED <<upc, round, z, b, dst, bytes>>

BodyEnds(u) ==
  /\ upc[u] = "eof"
  /\ z' = [z EXCEPT ![u] = NoObject]
  /\ Ends(u)
  /\ UNCHANGED <<b, result, pool, made, src, dst, bytes, again>>

-----------------------------------------------------------------------------
(* streamGRPC.compress: Compress, Write, and the deferred Close. *)

Compress(u, o) ==
  /\ u \in Senders /\ upc[u] = "open"
  /\ Gets("writer", o)
  /\ z' = [z EXCEPT ![u] = o]
  /\ dst' = [dst EXCEPT ![o] = [to |-> b[u], held |-> <<>>]]
  /\ Goes(u, "write")
  /\ UNCHANGED <<round, b, result, src, bytes, again>>

(* No writer could be made, for the level that was configured: SendMsg puts  *)
(* its buffer back.                                                          *)
CompressFails(u) ==
  /\ u \in Senders /\ upc[u] = "open"
  /\ Put("buffer", b[u]) /\ b' = [b EXCEPT ![u] = NoObject]
  /\ result' = [result EXCEPT ![u] = <<>>]
  /\ Ends(u)
  /\ UNCHANGED <<z, src, dst, bytes, again>>

(* The writer holds the data back until it is closed. *)
Write(u) ==
  /\ upc[u] = "write"
  /\ dst' = [dst EXCEPT ![z[u]].held = @ \o [i \in 1 .. Chunks |-> Owner(u)]]
  /\ Goes(u, "close")
  /\ UNCHANGED <<round, z, b, result, pool, made, src, bytes, again>>

(* gzip.Writer.Close finishes the stream, then Close puts the writer back. *)
CloseWriter(u) ==
  /\ upc[u] = "close"
  /\ bytes' = [bytes EXCEPT ![dst[z[u]].to] = @ \o dst[z[u]].held]
  /\ dst' = [dst EXCEPT ![z[u]].held = <<>>]
  /\ Goes(u, "put")
  /\ UNCHANGED <<round, z, b, result, pool, made, src, again>>

PutWriter(u) ==
  /\ upc[u] = "put"
  /\ Put("writer", z[u])
  /\ z' = [z EXCEPT ![u] = NoObject]
  /\ Goes(u, "copy")
  /\ UNCHANGED <<round, b, result, src, dst, bytes, again>>

(* copy(b, buf.Bytes()), and the buffer goes back. *)
CopyAndPut(u) ==
  /\ upc[u] = "copy"
  /\ result' = [result EXCEPT ![u] = bytes[b[u]]]
  /\ Put("buffer", b[u])
  /\ z' = [z EXCEPT ![u] = NoObject]
  /\ b' = [b EXCEPT ![u] = NoObject]
  /\ Ends(u)
  /\ UNCHANGED <<src, dst, bytes, again>>

-----------------------------------------------------------------------------
Next ==
  \E u \in Users :
    \/ \E o \in Objects : GetBuffer(u, o) \/ Decompress(u, o) \/ Compress(u, o)
    \/ \E o \in Objects \cup {NoObject} : DecompressFails(u, o)
    \/ ReadChunk(u) \/ ReadFails(u) \/ ReadEOF(u) \/ ReadAgain(u) \/ BodyEnds(u)
    \/ CompressFails(u) \/ Write(u) \/ CloseWriter(u) \/ PutWriter(u) \/ CopyAndPut(u)

Spec == Init /\ [][Next]_poolVars

-----------------------------------------------------------------------------
(* Properties. *)

(* Every variable has its type. *)
TypeOK ==
  /\ upc \in [Users -> {"idle", "open", "read", "eof", "write", "close", "put", "copy"}]
  /\ \A u \in Users : round[u] \in 0 .. MaxRounds[u]
  /\ z \in [Users -> Objects \cup {NoObject}]
  /\ b \in [Users -> Objects \cup {NoObject}]
  /\ \A k \in Kinds : pool[k] \in [Objects -> Nat] /\ made[k] \subseteq Objects
  /\ ~again => \A u \in Users : Len(result[u]) <= Chunks
  /\ again \in BOOLEAN

(* A gzip reader serves one user at a time: while a user reads, no other has *)
(* its reader, and it is not in the pool.  Holds as long as nobody reads     *)
(* after io.EOF.                                                             *)
ReadersExclusive ==
  ~again => \A u \in Receivers \cup Bodies :
    upc[u] = "read" =>
      /\ pool["reader"][z[u]] = 0
      /\ \A v \in (Receivers \cup Bodies) \ {u} : upc[v] = "read" => z[v] # z[u]

(* A buffer and a writer serve one user at a time, whatever the readers do.  *)
BuffersExclusive ==
  /\ \A u \in Receivers \cup Senders :
       upc[u] # "idle" =>
         /\ pool["buffer"][b[u]] = 0
         /\ \A v \in (Receivers \cup Senders) \ {u} : upc[v] # "idle" => b[v] # b[u]
  /\ \A u \in Senders :
       upc[u] \in {"write", "close", "put"} =>
         /\ pool["writer"][z[u]] = 0
         /\ \A v \in Senders \ {u} : upc[v] \in {"write", "close", "put"} => z[v] # z[u]

(* No object of any pool serves two users.                                   *)
ObjectsExclusive == TypeOK /\ ReadersExclusive /\ BuffersExclusive

(* What a user received or sent is its own message, whole: nothing of        *)
(* another message, of another user or of an earlier round, is in it.        *)
OwnData ==
  ~again => \A u \in Users :
    LET mine == [user |-> u, round |-> IF upc[u] \in {"read", "eof"} THEN round[u] ELSE round[u] - 1]
    IN /\ \A i \in 1 .. Len(result[u]) : result[u][i].user = u
       /\ upc[u] \in {"idle", "eof"} /\ result[u] # <<>> =>
            result[u] = [i \in 1 .. Chunks |-> mine]
=============================================================================
