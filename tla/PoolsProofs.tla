----------------------------- MODULE PoolsProofs -----------------------------
(***************************************************************************)
(* Proofs about the pools (Pools), for any number of streams, bodies,      *)
(* objects and messages.                                                   *)
(***************************************************************************)
EXTENDS Pools, SequenceTheorems, TLAPS

Owners == {NoObject} \cup [user : Users, round : Nat]

(* The types of the variables, as functions and records. *)
Types ==
  /\ upc \in [Users -> {"idle", "open", "read", "eof", "write", "close", "put", "copy"}]
  /\ round \in [Users -> Nat]
  /\ z \in [Users -> Objects \cup {NoObject}]
  /\ b \in [Users -> Objects \cup {NoObject}]
  /\ result \in [Users -> Seq(Owners)]
  /\ pool \in [Kinds -> [Objects -> Nat]]
  /\ made \in [Kinds -> SUBSET Objects]
  /\ src \in [Objects -> [owner : Owners, left : Nat]]
  /\ dst \in [Objects -> [to : Objects \cup {NoObject}, held : Seq(Owners)]]
  /\ bytes \in [Objects -> Seq(Owners)]
  /\ again \in BOOLEAN

(* What each user does, and the objects it has then. *)
Role(u) ==
  /\ u \in Receivers => upc[u] \in {"idle", "open", "read", "copy"}
  /\ u \in Senders => upc[u] \in {"idle", "open", "write", "close", "put", "copy"}
  /\ u \in Bodies => upc[u] \in {"idle", "read", "eof"}
  /\ upc[u] \in {"read", "eof", "write", "close", "put"} => z[u] \in Objects
  /\ u \notin Bodies /\ upc[u] # "idle" => b[u] \in Objects
  /\ round[u] <= MaxRounds[u] /\ (upc[u] # "idle" => round[u] < MaxRounds[u])

(* Who uses a reader, a writer, a buffer. *)
ReaderUsers == {u \in Users : upc[u] = "read"}

WriterUsers == {u \in Users : upc[u] \in {"write", "close", "put"}}

BufferUsers == {u \in Users : u \notin Bodies /\ upc[u] # "idle"}

(* A pool p of the objects made, the users and the object h[u] of each: an   *)
(* object is in the pool once, or one user has it, or it is lost.            *)
One(p, m, users, h) ==
  /\ \A o \in Objects : p[o] <= 1 /\ (p[o] = 1 => o \in m)
  /\ \A u \in users : h[u] \in m /\ p[h[u]] = 0
  /\ \A u, v \in users : h[u] = h[v] => u = v

(* n chunks of x *)
Copies(n, x) == [i \in 1 .. n |-> x]

(* What the objects of a user hold, and what it has received or sent. *)
Data(u) ==
  /\ upc[u] \in {"open", "write", "close"} => bytes[b[u]] = <<>>
  /\ upc[u] \in {"put", "copy"} => bytes[b[u]] = Copies(Chunks, Owner(u))
  /\ upc[u] \in {"write", "close"} => dst[z[u]].to = b[u]
  /\ upc[u] = "write" => dst[z[u]].held = <<>>
  /\ upc[u] = "close" => dst[z[u]].held = Copies(Chunks, Owner(u))
  /\ upc[u] = "read" =>
       /\ src[z[u]].owner = Owner(u) /\ src[z[u]].left <= Chunks
       /\ IF u \in Bodies
            THEN result[u] = Copies(Chunks - src[z[u]].left, Owner(u))
            ELSE bytes[b[u]] = Copies(Chunks - src[z[u]].left, Owner(u)) /\ result[u] = <<>>
  /\ upc[u] = "eof" => result[u] = Copies(Chunks, Owner(u))
  /\ upc[u] \notin {"read", "eof"} =>
       result[u] \in {<<>>, Copies(Chunks, [user |-> u, round |-> round[u] - 1])}

IInv ==
  /\ Types
  /\ \A u \in Users : Role(u)
  /\ One(pool["buffer"], made["buffer"], BufferUsers, b)
  /\ One(pool["writer"], made["writer"], WriterUsers, z)
  /\ ~again => /\ One(pool["reader"], made["reader"], ReaderUsers, z)
               /\ \A u \in Users : Data(u)

-----------------------------------------------------------------------------
(* Chunks. *)

LEMMA CopiesNone ==
  ASSUME NEW x
  PROVE  Copies(0, x) = <<>>
BY DEF Copies

LEMMA CopiesSeq ==
  ASSUME NEW S, NEW x \in S, NEW n \in Nat
  PROVE  Copies(n, x) \in Seq(S) /\ Len(Copies(n, x)) = n /\ (\A i \in 1 .. n : Copies(n, x)[i] = x)
BY DEF Copies

LEMMA CopiesAppend ==
  ASSUME NEW x, NEW n \in Nat
  PROVE  Append(Copies(n, x), x) = Copies(n + 1, x)
<1>1. Copies(n, x) \in Seq({x}) /\ Len(Copies(n, x)) = n
  BY CopiesSeq
<1>2. /\ Append(Copies(n, x), x) \in Seq({x})
      /\ Len(Append(Copies(n, x), x)) = n + 1
      /\ \A i \in 1 .. n + 1 : Append(Copies(n, x), x)[i] = x
  BY <1>1 DEF Copies
<1>3. /\ Copies(n + 1, x) \in Seq({x}) /\ Len(Copies(n + 1, x)) = n + 1
      /\ \A i \in 1 .. n + 1 : Copies(n + 1, x)[i] = x
  BY CopiesSeq
<1> QED BY <1>2, <1>3, SeqEqual

LEMMA EmptyConcat ==
  ASSUME NEW S, NEW s \in Seq(S)
  PROVE  <<>> \o s = s
BY ConcatEmptySeq

-----------------------------------------------------------------------------
(* The pools. *)

(* The objects of fewer users, with the same pool. *)
LEMMA OneFewer ==
  ASSUME NEW p, NEW m, NEW S, NEW h, One(p, m, S, h),
         NEW T \in SUBSET S, NEW hh, \A v \in T : hh[v] = h[v]
  PROVE  One(p, m, T, hh)
BY DEF One

(* An object that is taken from a pool is of no other user. *)
LEMMA OneTaken ==
  ASSUME NEW p \in [Objects -> Nat], NEW m \in SUBSET Objects, NEW S, NEW h, One(p, m, S, h),
         NEW u, u \notin S, NEW o \in Objects, NEW hh, hh[u] = o, \A v \in S : hh[v] = h[v],
         p[o] > 0
  PROVE  One([p EXCEPT ![o] = @ - 1], m, S \cup {u}, hh)
<1> DEFINE q == [p EXCEPT ![o] = @ - 1]
<1>1. p[o] = 1 /\ o \in m /\ q[o] = 0 /\ (\A r \in Objects \ {o} : q[r] = p[r])
  BY DEF One
<1>2. \A v \in S : h[v] # o
  BY <1>1 DEF One
<1>3. \A r \in Objects : q[r] <= 1 /\ (q[r] = 1 => r \in m)
  BY <1>1 DEF One
<1>4. \A v \in S \cup {u} : hh[v] \in m /\ q[hh[v]] = 0
  <2>1. SUFFICES ASSUME NEW v \in S
                 PROVE  hh[v] \in m /\ q[hh[v]] = 0
    BY <1>1
  <2>2. h[v] \in m /\ p[h[v]] = 0 /\ h[v] # o /\ h[v] \in Objects
    BY <1>2, <2>1 DEF One
  <2> QED BY <1>1, <2>1, <2>2
<1>5. \A v, w \in S \cup {u} : hh[v] = hh[w] => v = w
  BY <1>2 DEF One
<1> QED BY <1>3, <1>4, <1>5 DEF One

(* An object that is made is of no other user. *)
LEMMA OneMade ==
  ASSUME NEW p \in [Objects -> Nat], NEW m \in SUBSET Objects, NEW S, NEW h, One(p, m, S, h),
         NEW u, u \notin S, NEW o \in Objects, NEW hh, hh[u] = o, \A v \in S : hh[v] = h[v],
         o \notin m
  PROVE  One(p, m \cup {o}, S \cup {u}, hh)
<1>1. p[o] = 0
  <2>1. p[o] \in Nat /\ p[o] <= 1 /\ p[o] # 1
    BY DEF One
  <2> QED BY <2>1
<1>2. \A v \in S : h[v] # o
  BY DEF One
<1>3. \A r \in Objects : p[r] <= 1 /\ (p[r] = 1 => r \in m \cup {o})
  BY DEF One
<1>4. \A v \in S \cup {u} : hh[v] \in m \cup {o} /\ p[hh[v]] = 0
  BY <1>1 DEF One
<1>5. \A v, w \in S \cup {u} : hh[v] = hh[w] => v = w
  BY <1>2 DEF One
<1> QED BY <1>3, <1>4, <1>5 DEF One

(* An object that its only user puts back is in the pool once. *)
LEMMA OnePut ==
  ASSUME NEW p \in [Objects -> Nat], NEW m \in SUBSET Objects, NEW S, NEW h, One(p, m, S, h),
         NEW u \in S, NEW hh, \A v \in S \ {u} : hh[v] = h[v]
  PROVE  One([p EXCEPT ![h[u]] = @ + 1], m, S \ {u}, hh)
<1> DEFINE q == [p EXCEPT ![h[u]] = @ + 1]
<1>1. h[u] \in m /\ h[u] \in Objects /\ p[h[u]] = 0
  BY DEF One
<1>2. q[h[u]] = 1 /\ (\A r \in Objects \ {h[u]} : q[r] = p[r])
  BY <1>1
<1>3. \A r \in Objects : q[r] <= 1 /\ (q[r] = 1 => r \in m)
  BY <1>1, <1>2 DEF One
<1>4. \A v \in S \ {u} : hh[v] \in m /\ q[hh[v]] = 0
  <2>1. SUFFICES ASSUME NEW v \in S \ {u}
                 PROVE  hh[v] \in m /\ q[hh[v]] = 0
    OBVIOUS
  <2>2. h[v] \in m /\ p[h[v]] = 0 /\ h[v] # h[u] /\ h[v] \in Objects /\ hh[v] = h[v]
    BY <2>1 DEF One
  <2> QED BY <1>2, <2>2
<1>5. \A v, w \in S \ {u} : hh[v] = hh[w] => v = w
  BY DEF One
<1> QED BY <1>3, <1>4, <1>5 DEF One

(* sync.Pool.Get and sync.Pool.Put, of a kind of objects. *)
LEMMA GetsOne ==
  ASSUME Types, NEW k \in Kinds, NEW o \in Objects, Gets(k, o)
  PROVE  /\ pool' \in [Kinds -> [Objects -> Nat]] /\ made' \in [Kinds -> SUBSET Objects]
         /\ \A l \in Kinds \ {k} : pool'[l] = pool[l] /\ made'[l] = made[l]
         /\ \A S, h, u, hh :
              One(pool[k], made[k], S, h) /\ u \notin S /\ hh[u] = o /\ (\A v \in S : hh[v] = h[v])
              => One(pool'[k], made'[k], S \cup {u}, hh)
         /\ \A S, h : One(pool[k], made[k], S, h) => \A v \in S : h[v] # o
<1>1. /\ pool \in [Kinds -> [Objects -> Nat]] /\ made \in [Kinds -> SUBSET Objects]
      /\ pool[k] \in [Objects -> Nat] /\ made[k] \in SUBSET Objects
  BY DEF Types
<1>2. \/ pool[k][o] > 0 /\ pool' = [pool EXCEPT ![k][o] = @ - 1] /\ made' = made
      \/ o \notin made[k] /\ made' = [made EXCEPT ![k] = @ \cup {o}] /\ pool' = pool
  BY DEF Gets
<1>3. \/ /\ pool[k][o] > 0 /\ pool'[k] = [pool[k] EXCEPT ![o] = @ - 1] /\ made'[k] = made[k]
      \/ o \notin made[k] /\ made'[k] = made[k] \cup {o} /\ pool'[k] = pool[k]
  BY <1>1, <1>2
<1>4. pool' \in [Kinds -> [Objects -> Nat]] /\ made' \in [Kinds -> SUBSET Objects]
  <2>1. CASE pool[k][o] > 0 /\ pool' = [pool EXCEPT ![k][o] = @ - 1] /\ made' = made
    <3>1. pool[k][o] - 1 \in Nat
      BY <1>1, <2>1
    <3>2. [pool[k] EXCEPT ![o] = pool[k][o] - 1] \in [Objects -> Nat]
      BY <1>1, <3>1
    <3>3. pool' = [pool EXCEPT ![k] = [pool[k] EXCEPT ![o] = pool[k][o] - 1]]
      BY <1>1, <2>1
    <3> QED BY <1>1, <2>1, <3>2, <3>3
  <2>2. CASE o \notin made[k] /\ made' = [made EXCEPT ![k] = @ \cup {o}] /\ pool' = pool
    BY <1>1, <2>2
  <2> QED BY <1>2, <2>1, <2>2
<1>5. \A l \in Kinds \ {k} : pool'[l] = pool[l] /\ made'[l] = made[l]
  BY <1>1, <1>2
<1>6. ASSUME NEW S, NEW h, NEW u, NEW hh, One(pool[k], made[k], S, h), u \notin S, hh[u] = o,
             \A v \in S : hh[v] = h[v]
      PROVE  One(pool'[k], made'[k], S \cup {u}, hh)
  <2>1. CASE pool[k][o] > 0 /\ pool'[k] = [pool[k] EXCEPT ![o] = @ - 1] /\ made'[k] = made[k]
    <3>1. pool[k][o] > 0
      BY <2>1
    <3>2. One([pool[k] EXCEPT ![o] = @ - 1], made[k], S \cup {u}, hh)
      BY <1>1, <1>6, <3>1, OneTaken, Zenon
    <3> QED BY <2>1, <3>2
  <2>2. CASE o \notin made[k] /\ made'[k] = made[k] \cup {o} /\ pool'[k] = pool[k]
    <3>1. One(pool[k], made[k] \cup {o}, S \cup {u}, hh)
      BY <1>1, <1>6, <2>2, OneMade
    <3> QED BY <2>2, <3>1
  <2> QED BY <1>3, <2>1, <2>2
<1>7. ASSUME NEW S, NEW h, One(pool[k], made[k], S, h), NEW v \in S
      PROVE  h[v] # o
  BY <1>1, <1>3, <1>7 DEF One
<1> QED BY <1>4, <1>5, <1>6, <1>7, Zenon

LEMMA PutOne ==
  ASSUME Types, NEW k \in Kinds, NEW o \in Objects, Put(k, o)
  PROVE  /\ pool' \in [Kinds -> [Objects -> Nat]] /\ made' = made
         /\ \A l \in Kinds \ {k} : pool'[l] = pool[l]
         /\ \A S, h, u, hh :
              One(pool[k], made[k], S, h) /\ u \in S /\ h[u] = o /\ (\A v \in S \ {u} : hh[v] = h[v])
              => One(pool'[k], made'[k], S \ {u}, hh)
<1>1. /\ pool \in [Kinds -> [Objects -> Nat]] /\ made \in [Kinds -> SUBSET Objects]
      /\ pool[k] \in [Objects -> Nat] /\ made[k] \in SUBSET Objects
  BY DEF Types
<1>2. pool' = [pool EXCEPT ![k][o] = @ + 1] /\ made' = made
  BY DEF Put
<1>3. pool'[k] = [pool[k] EXCEPT ![o] = @ + 1]
  BY <1>1, <1>2
<1>4. pool' \in [Kinds -> [Objects -> Nat]]
  <2>1. [pool[k] EXCEPT ![o] = pool[k][o] + 1] \in [Objects -> Nat]
    BY <1>1
  <2>2. pool' = [pool EXCEPT ![k] = [pool[k] EXCEPT ![o] = pool[k][o] + 1]]
    BY <1>1, <1>2
  <2> QED BY <1>1, <2>1, <2>2
<1>5. \A l \in Kinds \ {k} : pool'[l] = pool[l]
  BY <1>1, <1>2
<1>6. ASSUME NEW S, NEW h, NEW u, NEW hh, One(pool[k], made[k], S, h), u \in S, h[u] = o,
             \A v \in S \ {u} : hh[v] = h[v]
      PROVE  One(pool'[k], made'[k], S \ {u}, hh)
  <2>1. One([pool[k] EXCEPT ![h[u]] = @ + 1], made[k], S \ {u}, hh)
    BY <1>1, <1>6, OnePut
  <2> QED BY <1>2, <1>3, <1>6, <2>1
<1> QED BY <1>2, <1>4, <1>5, <1>6, Zenon

-----------------------------------------------------------------------------
(* One step of the user w. *)

(* Who uses what when w goes on to pc. *)
LEMMA UsersMove ==
  ASSUME NEW w \in Users, \A u \in Users \ {w} : upc'[u] = upc[u]
  PROVE  /\ w \in Bodies \/ upc'[w] = "idle" => BufferUsers' = BufferUsers \ {w}
         /\ w \notin Bodies /\ upc'[w] # "idle" => BufferUsers' = BufferUsers \cup {w}
         /\ upc'[w] \in {"write", "close", "put"} => WriterUsers' = WriterUsers \cup {w}
         /\ upc'[w] \notin {"write", "close", "put"} => WriterUsers' = WriterUsers \ {w}
         /\ upc'[w] = "read" => ReaderUsers' = ReaderUsers \cup {w}
         /\ upc'[w] # "read" => ReaderUsers' = ReaderUsers \ {w}
<1>1. /\ w \in Bodies \/ upc'[w] = "idle" => BufferUsers' = BufferUsers \ {w}
      /\ w \notin Bodies /\ upc'[w] # "idle" => BufferUsers' = BufferUsers \cup {w}
  BY DEF BufferUsers
<1>2. /\ upc'[w] \in {"write", "close", "put"} => WriterUsers' = WriterUsers \cup {w}
      /\ upc'[w] \notin {"write", "close", "put"} => WriterUsers' = WriterUsers \ {w}
  BY DEF WriterUsers
<1>3. /\ upc'[w] = "read" => ReaderUsers' = ReaderUsers \cup {w}
      /\ upc'[w] # "read" => ReaderUsers' = ReaderUsers \ {w}
  BY DEF ReaderUsers
<1> QED BY <1>1, <1>2, <1>3

LEMMA UpdateAt ==
  ASSUME NEW T, NEW f \in [Objects -> T], NEW p \in Objects, NEW r \in T
  PROVE  /\ [f EXCEPT ![p] = r] \in [Objects -> T] /\ [f EXCEPT ![p] = r][p] = r
         /\ \A q \in Objects \ {p} : [f EXCEPT ![p] = r][q] = f[q]
OBVIOUS

LEMMA HeldExcept ==
  ASSUME NEW T, NEW U, NEW r \in [to : T, held : U], NEW x
  PROVE  [r EXCEPT !.held = x] = [to |-> r.to, held |-> x]
OBVIOUS

LEMMA ConcatAt ==
  ASSUME NEW f \in [Objects -> Seq(Owners)], NEW p, NEW s \in Seq(Owners)
  PROVE  [f EXCEPT ![p] = f[p] \o s] \in [Objects -> Seq(Owners)]
<1>1. CASE p \in Objects
  <2>1. f[p] \o s \in Seq(Owners)
    BY <1>1
  <2> QED BY <1>1, <2>1, UpdateAt
<1>2. CASE p \notin Objects
  BY <1>2
<1> QED BY <1>1, <1>2

LEMMA SetMove ==
  ASSUME NEW S, NEW x
  PROVE  (x \in S => S \cup {x} = S) /\ (x \notin S => S \ {x} = S)
OBVIOUS

(* The data of a user that the step does not touch. *)
LEMMA DataKept ==
  ASSUME Types, NEW u \in Users, Role(u), Data(u),
         upc'[u] = upc[u], round'[u] = round[u], result'[u] = result[u], z'[u] = z[u], b'[u] = b[u],
         u \in BufferUsers => bytes'[b[u]] = bytes[b[u]],
         u \in ReaderUsers => src'[z[u]] = src[z[u]],
         u \in WriterUsers => dst'[z[u]] = dst[z[u]]
  PROVE  Data(u)'
<1>1. Owner(u)' = Owner(u)
  BY DEF Owner
<1>2. /\ upc[u] \in {"open", "write", "close", "put", "copy"} => u \in BufferUsers
      /\ upc[u] \in {"write", "close"} => u \in WriterUsers
      /\ upc[u] = "read" => u \in ReaderUsers
      /\ upc[u] = "read" /\ u \notin Bodies => u \in BufferUsers
  BY DEF Role, BufferUsers, WriterUsers, ReaderUsers
<1>3. /\ upc[u] \in {"open", "write", "close"} => bytes'[b'[u]] = <<>>
      /\ upc[u] \in {"put", "copy"} => bytes'[b'[u]] = Copies(Chunks, Owner(u)')
  BY <1>1, <1>2 DEF Data
<1>4. /\ upc[u] \in {"write", "close"} => dst'[z'[u]].to = b'[u]
      /\ upc[u] = "write" => dst'[z'[u]].held = <<>>
      /\ upc[u] = "close" => dst'[z'[u]].held = Copies(Chunks, Owner(u)')
  BY <1>1, <1>2 DEF Data
<1>5. upc[u] = "read" =>
       /\ src'[z'[u]].owner = Owner(u)' /\ src'[z'[u]].left <= Chunks
       /\ IF u \in Bodies
            THEN result'[u] = Copies(Chunks - src'[z'[u]].left, Owner(u)')
            ELSE bytes'[b'[u]] = Copies(Chunks - src'[z'[u]].left, Owner(u)') /\ result'[u] = <<>>
  BY <1>1, <1>2 DEF Data
<1>6. /\ upc[u] = "eof" => result'[u] = Copies(Chunks, Owner(u)')
      /\ upc[u] \notin {"read", "eof"} =>
           result'[u] \in {<<>>, Copies(Chunks, [user |-> u, round |-> round'[u] - 1])}
  BY <1>1 DEF Data
<1> QED BY <1>3, <1>4, <1>5, <1>6 DEF Data, Copies

(* GetBuffer: a buffer for a message. *)
LEMMA GetBufferInv ==
  ASSUME IInv, NEW w \in Users, NEW o \in Objects, GetBuffer(w, o)
  PROVE  IInv'
<1> USE UsersAreDistinct, BoundsAreNat, NoObjectIsNone
<1>1. Types
  BY DEF IInv
<1>2. \A u \in Users : Role(u)
  BY DEF IInv
<1>3. One(pool["buffer"], made["buffer"], BufferUsers, b)
  BY DEF IInv
<1>4. One(pool["writer"], made["writer"], WriterUsers, z)
  BY DEF IInv
<1>5. ~again => One(pool["reader"], made["reader"], ReaderUsers, z)
  BY DEF IInv
<1>6. ~again => \A u \in Users : Data(u)
  BY DEF IInv
<1>7. /\ b' = [b EXCEPT ![w] = o]
      /\ bytes' = [bytes EXCEPT ![o] = <<>>]
      /\ upc' = [upc EXCEPT ![w] = "open"]
      /\ UNCHANGED <<round, z, result, src, dst, again>>
  BY DEF GetBuffer, Goes
<1>8. /\ w \notin Bodies /\ upc[w] = "idle" /\ round[w] < MaxRounds[w]
      /\ Gets("buffer", o)
  BY <1>2 DEF GetBuffer, Role, Users, Goes
<1>9. /\ b'[w] = o
      /\ upc'[w] = "open"
      /\ \A u \in Users \ {w} : b'[u] = b[u] /\ upc'[u] = upc[u]
  BY <1>1, <1>7 DEF Types
<1>10. /\ w \notin BufferUsers
       /\ w \notin WriterUsers
       /\ w \notin ReaderUsers
  BY <1>8 DEF BufferUsers, WriterUsers, ReaderUsers, Users
<1>11. /\ BufferUsers' = BufferUsers \cup {w}
       /\ WriterUsers' = WriterUsers
       /\ ReaderUsers' = ReaderUsers
  <2>1. /\ BufferUsers' = BufferUsers \cup {w}
        /\ WriterUsers' = WriterUsers \ {w}
        /\ ReaderUsers' = ReaderUsers \ {w}
    <3>1. upc'[w] = "open" /\ (\A u \in Users \ {w} : upc'[u] = upc[u])
      BY <1>9
    <3> QED BY <1>8, <3>1, UsersMove
  <2> QED BY <1>10, <2>1, SetMove
<1>12. /\ pool' \in [Kinds -> [Objects -> Nat]]
       /\ made' \in [Kinds -> SUBSET Objects]
       /\ pool'["writer"] = pool["writer"] /\ made'["writer"] = made["writer"]
       /\ pool'["reader"] = pool["reader"] /\ made'["reader"] = made["reader"]
  <2>1. "buffer" \in Kinds /\ "writer" \in Kinds \ {"buffer"} /\ "reader" \in Kinds \ {"buffer"}
    BY DEF Kinds
  <2> QED BY <1>1, <1>8, <2>1, GetsOne DEF Types
<1>13. One(pool'["buffer"], made'["buffer"], BufferUsers', b') /\ (\A u \in BufferUsers : b[u] # o)
  <2>1. w \notin BufferUsers /\ b'[w] = o /\ (\A u \in BufferUsers : b'[u] = b[u])
    BY <1>9, <1>10 DEF BufferUsers
  <2>2. "buffer" \in Kinds /\ BufferUsers' = BufferUsers \cup {w}
    BY <1>11 DEF Kinds
  <2>3. Gets("buffer", o)
    BY <1>7, <1>8
  <2>4. /\ \A S, h, u, hh :
             One(pool["buffer"], made["buffer"], S, h) /\ u \notin S /\ hh[u] = o
               /\ (\A v \in S : hh[v] = h[v])
             => One(pool'["buffer"], made'["buffer"], S \cup {u}, hh)
        /\ \A S, h : One(pool["buffer"], made["buffer"], S, h) => \A v \in S : h[v] # o
    BY <1>1, <2>2, <2>3, GetsOne
  <2> QED BY <1>3, <2>1, <2>2, <2>3, <2>4
<1>14. One(pool'["writer"], made'["writer"], WriterUsers', z')
  <2>1. WriterUsers' \in SUBSET WriterUsers /\ (\A u \in WriterUsers' : z'[u] = z[u])
    BY <1>7, <1>9, <1>10, <1>11 DEF WriterUsers
  <2>2. pool'["writer"] = pool["writer"] /\ made'["writer"] = made["writer"]
    BY <1>12
  <2> QED BY <1>4, <2>1, <2>2, OneFewer
<1>15. ~again' => One(pool'["reader"], made'["reader"], ReaderUsers', z')
  <2>1. ReaderUsers' \in SUBSET ReaderUsers /\ (\A u \in ReaderUsers' : z'[u] = z[u])
    BY <1>7, <1>9, <1>10, <1>11 DEF ReaderUsers
  <2>2. pool'["reader"] = pool["reader"] /\ made'["reader"] = made["reader"]
    BY <1>12
  <2>3. ~again => One(pool["reader"], made["reader"], ReaderUsers', z')
    BY <1>5, <2>1, OneFewer
  <2> QED BY <1>7, <2>2, <2>3
<1>16. Types'
  BY <1>1, <1>7, <1>12 DEF Types
<1>17. \A u \in Users : Role(u)'
  <2>1. SUFFICES ASSUME NEW u \in Users
                 PROVE  Role(u)'
    OBVIOUS
  <2>2. CASE u # w
    BY <1>2, <1>7, <1>9, <2>1, <2>2 DEF Role
  <2>3. CASE u = w
    BY <1>1, <1>2, <1>7, <1>8, <1>9, <2>1, <2>3 DEF Role, Types
  <2> QED BY <2>2, <2>3
<1>18. ~again' => \A u \in Users : Data(u)'
  <2>1. SUFFICES ASSUME ~again, NEW u \in Users
                 PROVE  Data(u)'
    BY <1>7
  <2>2. Data(u) /\ Role(u)
    BY <1>2, <1>6, <2>1
  <2>3. CASE u # w
    <3>1. u \in BufferUsers => bytes'[b[u]] = bytes[b[u]]
      BY <1>1, <1>2, <1>7, <1>13 DEF Types, Role, BufferUsers
    <3>2. u \in ReaderUsers => src'[z[u]] = src[z[u]]
      BY <1>7
    <3>3. u \in WriterUsers => dst'[z[u]] = dst[z[u]]
      BY <1>7
    <3>4. /\ upc'[u] = upc[u] /\ round'[u] = round[u] /\ result'[u] = result[u]
          /\ z'[u] = z[u] /\ b'[u] = b[u]
      BY <1>7, <1>9, <2>3
    <3> QED BY <1>1, <2>1, <2>2, <3>1, <3>2, <3>3, <3>4, DataKept
  <2>4. CASE u = w
    <3>1. bytes'[o] = <<>>
      BY <1>1, <1>7 DEF Types
    <3> QED BY <1>7, <1>8, <1>9, <2>2, <2>4, <3>1 DEF Data
  <2> QED BY <2>3, <2>4
<1> QED BY <1>13, <1>14, <1>15, <1>16, <1>17, <1>18 DEF IInv

(* Decompress: a reader for the data of w. *)
LEMMA DecompressInv ==
  ASSUME IInv, NEW w \in Users, NEW o \in Objects, Decompress(w, o)
  PROVE  IInv'
<1> USE UsersAreDistinct, BoundsAreNat, NoObjectIsNone
<1>1. Types
  BY DEF IInv
<1>2. \A u \in Users : Role(u)
  BY DEF IInv
<1>3. One(pool["buffer"], made["buffer"], BufferUsers, b)
  BY DEF IInv
<1>4. One(pool["writer"], made["writer"], WriterUsers, z)
  BY DEF IInv
<1>5. ~again => One(pool["reader"], made["reader"], ReaderUsers, z)
  BY DEF IInv
<1>6. ~again => \A u \in Users : Data(u)
  BY DEF IInv
<1>7. /\ z' = [z EXCEPT ![w] = o]
      /\ src' = [src EXCEPT ![o] = [owner |-> Owner(w), left |-> Chunks]]
      /\ result' = [result EXCEPT ![w] = <<>>]
      /\ upc' = [upc EXCEPT ![w] = "read"]
      /\ UNCHANGED <<round, b, dst, bytes, again>>
  BY DEF Decompress, Goes, MayDecompress
<1>8. /\ (w \in Receivers /\ w \notin Bodies /\ upc[w] = "open") \/ (w \in Bodies /\ upc[w] = "idle")
      /\ round[w] < MaxRounds[w]
      /\ Gets("reader", o)
  BY <1>2 DEF Decompress, Role, Users, Goes, MayDecompress
<1>9. /\ z'[w] = o
      /\ result'[w] = <<>>
      /\ upc'[w] = "read"
      /\ \A u \in Users \ {w} : z'[u] = z[u] /\ result'[u] = result[u] /\ upc'[u] = upc[u]
  BY <1>1, <1>7 DEF Types
<1>10. /\ (w \in BufferUsers <=> w \notin Bodies)
       /\ w \notin WriterUsers
       /\ w \notin ReaderUsers
  BY <1>8 DEF BufferUsers, WriterUsers, ReaderUsers, Users
<1>11. /\ BufferUsers' = BufferUsers
       /\ WriterUsers' = WriterUsers
       /\ ReaderUsers' = ReaderUsers \cup {w}
  <2>1. /\ BufferUsers' = IF w \in Bodies THEN BufferUsers \ {w} ELSE BufferUsers \cup {w}
        /\ WriterUsers' = WriterUsers \ {w}
        /\ ReaderUsers' = ReaderUsers \cup {w}
    <3>1. upc'[w] = "read" /\ (\A u \in Users \ {w} : upc'[u] = upc[u])
      BY <1>9
    <3> QED BY <1>8, <3>1, UsersMove
  <2> QED BY <1>10, <2>1, SetMove
<1>12. /\ pool' \in [Kinds -> [Objects -> Nat]]
       /\ made' \in [Kinds -> SUBSET Objects]
       /\ pool'["buffer"] = pool["buffer"] /\ made'["buffer"] = made["buffer"]
       /\ pool'["writer"] = pool["writer"] /\ made'["writer"] = made["writer"]
  <2>1. "reader" \in Kinds /\ "buffer" \in Kinds \ {"reader"} /\ "writer" \in Kinds \ {"reader"}
    BY DEF Kinds
  <2> QED BY <1>1, <1>8, <2>1, GetsOne DEF Types
<1>13. One(pool'["buffer"], made'["buffer"], BufferUsers', b')
  <2>1. BufferUsers' \in SUBSET BufferUsers /\ (\A u \in BufferUsers' : b'[u] = b[u])
    BY <1>7, <1>9, <1>10, <1>11 DEF BufferUsers
  <2>2. pool'["buffer"] = pool["buffer"] /\ made'["buffer"] = made["buffer"]
    BY <1>12
  <2> QED BY <1>3, <2>1, <2>2, OneFewer
<1>14. One(pool'["writer"], made'["writer"], WriterUsers', z')
  <2>1. WriterUsers' \in SUBSET WriterUsers /\ (\A u \in WriterUsers' : z'[u] = z[u])
    BY <1>7, <1>9, <1>10, <1>11 DEF WriterUsers
  <2>2. pool'["writer"] = pool["writer"] /\ made'["writer"] = made["writer"]
    BY <1>12
  <2> QED BY <1>4, <2>1, <2>2, OneFewer
<1>15. ~again' => One(pool'["reader"], made'["reader"], ReaderUsers', z') /\ (\A u \in ReaderUsers : z[u] # o)
  <2>1. w \notin ReaderUsers /\ z'[w] = o /\ (\A u \in ReaderUsers : z'[u] = z[u])
    BY <1>9, <1>10 DEF ReaderUsers
  <2>2. "reader" \in Kinds /\ ReaderUsers' = ReaderUsers \cup {w}
    BY <1>11 DEF Kinds
  <2>3. Gets("reader", o) /\ again' = again
    BY <1>7, <1>8
  <2>4. /\ \A S, h, u, hh :
             One(pool["reader"], made["reader"], S, h) /\ u \notin S /\ hh[u] = o
               /\ (\A v \in S : hh[v] = h[v])
             => One(pool'["reader"], made'["reader"], S \cup {u}, hh)
        /\ \A S, h : One(pool["reader"], made["reader"], S, h) => \A v \in S : h[v] # o
    BY <1>1, <2>2, <2>3, GetsOne
  <2> QED BY <1>5, <2>1, <2>2, <2>3, <2>4
<1>16. Types'
  <2>1. Owner(w) \in Owners /\ <<>> \in Seq(Owners)
    BY <1>1 DEF Owner, Owners, Types
  <2> QED BY <1>1, <1>7, <1>12, <2>1 DEF Types
<1>17. \A u \in Users : Role(u)'
  <2>1. SUFFICES ASSUME NEW u \in Users
                 PROVE  Role(u)'
    OBVIOUS
  <2>2. CASE u # w
    BY <1>2, <1>7, <1>9, <2>1, <2>2 DEF Role
  <2>3. CASE u = w
    BY <1>1, <1>2, <1>7, <1>8, <1>9, <2>1, <2>3 DEF Role, Types
  <2> QED BY <2>2, <2>3
<1>18. ~again' => \A u \in Users : Data(u)'
  <2>1. SUFFICES ASSUME ~again, NEW u \in Users
                 PROVE  Data(u)'
    BY <1>7
  <2>2. Data(u) /\ Role(u)
    BY <1>2, <1>6, <2>1
  <2>3. CASE u # w
    <3>1. u \in BufferUsers => bytes'[b[u]] = bytes[b[u]]
      BY <1>7
    <3>2. u \in ReaderUsers => src'[z[u]] = src[z[u]]
      BY <1>1, <1>2, <1>7, <1>15, <2>1 DEF Types, Role, ReaderUsers
    <3>3. u \in WriterUsers => dst'[z[u]] = dst[z[u]]
      BY <1>7
    <3>4. /\ upc'[u] = upc[u] /\ round'[u] = round[u] /\ result'[u] = result[u]
          /\ z'[u] = z[u] /\ b'[u] = b[u]
      BY <1>7, <1>9, <2>3
    <3> QED BY <1>1, <2>1, <2>2, <3>1, <3>2, <3>3, <3>4, DataKept
  <2>4. CASE u = w
    <3>1. src'[o] = [owner |-> Owner(w), left |-> Chunks]
      BY <1>1, <1>7 DEF Types
    <3>2. Owner(w)' = Owner(w) /\ Copies(Chunks - Chunks, Owner(w)) = <<>>
      <4>1. Chunks - Chunks = 0
        OBVIOUS
      <4> QED BY <1>7, <4>1, CopiesNone DEF Owner
    <3>3. w \notin Bodies => bytes'[b'[w]] = <<>>
      BY <1>7, <1>8, <2>2, <2>4 DEF Data
    <3>4. /\ upc'[w] = "read" /\ result'[w] = <<>> /\ src'[z'[w]].left = Chunks
          /\ src'[z'[w]].owner = Owner(w)'
      BY <1>9, <3>1, <3>2
    <3>5. Copies(Chunks - src'[z'[w]].left, Owner(w)') = <<>>
      BY <3>2, <3>4
    <3> QED BY <2>4, <3>3, <3>4, <3>5 DEF Data
  <2> QED BY <2>3, <2>4
<1> QED BY <1>13, <1>14, <1>15, <1>16, <1>17, <1>18 DEF IInv

(* A message fails before it is read or written: its buffer goes back, and   *)
(* a reader of the pool, o, may have been given the data.                    *)
LEMMA BufferBackInv ==
  ASSUME IInv, NEW w \in Users, NEW o \in Objects \cup {NoObject},
         w \notin Bodies, upc[w] = "open", Put("buffer", b[w]),
         o # NoObject => pool["reader"][o] > 0,
         src' = IF o = NoObject THEN src ELSE [src EXCEPT ![o] = [owner |-> Owner(w), left |-> 0]],
         b' = [b EXCEPT ![w] = NoObject], result' = [result EXCEPT ![w] = <<>>], Ends(w),
         UNCHANGED <<z, dst, bytes, again>>
  PROVE  IInv'
<1> USE UsersAreDistinct, BoundsAreNat, NoObjectIsNone
<1>1. Types
  BY DEF IInv
<1>2. \A u \in Users : Role(u)
  BY DEF IInv
<1>3. One(pool["buffer"], made["buffer"], BufferUsers, b)
  BY DEF IInv
<1>4. One(pool["writer"], made["writer"], WriterUsers, z)
  BY DEF IInv
<1>5. ~again => One(pool["reader"], made["reader"], ReaderUsers, z)
  BY DEF IInv
<1>6. ~again => \A u \in Users : Data(u)
  BY DEF IInv
<1>7. /\ src' = IF o = NoObject THEN src ELSE [src EXCEPT ![o] = [owner |-> Owner(w), left |-> 0]]
      /\ b' = [b EXCEPT ![w] = NoObject]
      /\ round' = [round EXCEPT ![w] = @ + 1]
      /\ result' = [result EXCEPT ![w] = <<>>]
      /\ upc' = [upc EXCEPT ![w] = "idle"]
      /\ UNCHANGED <<z, dst, bytes, again>>
  BY DEF Goes, Ends
<1>8. /\ w \notin Bodies /\ upc[w] = "open" /\ b[w] \in Objects
      /\ round[w] < MaxRounds[w]
      /\ Put("buffer", b[w])
      /\ o # NoObject => o \in Objects /\ pool["reader"][o] > 0
  BY <1>2 DEF Role
<1>9. /\ b'[w] = NoObject
      /\ round'[w] = round[w] + 1
      /\ result'[w] = <<>>
      /\ upc'[w] = "idle"
      /\ \A u \in Users \ {w} : b'[u] = b[u] /\ round'[u] = round[u] /\ result'[u] = result[u] /\ upc'[u] = upc[u]
  BY <1>1, <1>7 DEF Types
<1>10. /\ w \in BufferUsers
       /\ w \notin WriterUsers
       /\ w \notin ReaderUsers
  BY <1>8 DEF BufferUsers, WriterUsers, ReaderUsers, Users
<1>11. /\ BufferUsers' = BufferUsers \ {w}
       /\ WriterUsers' = WriterUsers
       /\ ReaderUsers' = ReaderUsers
  <2>1. /\ BufferUsers' = BufferUsers \ {w}
        /\ WriterUsers' = WriterUsers \ {w}
        /\ ReaderUsers' = ReaderUsers \ {w}
    <3>1. upc'[w] = "idle" /\ (\A u \in Users \ {w} : upc'[u] = upc[u])
      BY <1>9
    <3> QED BY <1>8, <3>1, UsersMove
  <2> QED BY <1>10, <2>1, SetMove
<1>12. /\ pool' \in [Kinds -> [Objects -> Nat]]
       /\ made' \in [Kinds -> SUBSET Objects]
       /\ pool'["writer"] = pool["writer"] /\ made'["writer"] = made["writer"]
       /\ pool'["reader"] = pool["reader"] /\ made'["reader"] = made["reader"]
  <2>1. "buffer" \in Kinds /\ "writer" \in Kinds \ {"buffer"} /\ "reader" \in Kinds \ {"buffer"}
    BY DEF Kinds
  <2> QED BY <1>1, <1>8, <2>1, PutOne DEF Types
<1>13. One(pool'["buffer"], made'["buffer"], BufferUsers', b')
  <2>1. w \in BufferUsers /\ b[w] = b[w] /\ (\A u \in BufferUsers \ {w} : b'[u] = b[u])
    BY <1>7, <1>9, <1>10 DEF BufferUsers
  <2>2. "buffer" \in Kinds /\ BufferUsers' = BufferUsers \ {w} /\ b[w] \in Objects
    BY <1>8, <1>11 DEF Kinds
  <2>3. Put("buffer", b[w])
    BY <1>7, <1>8
  <2>4. \A S, h, u, hh :
          One(pool["buffer"], made["buffer"], S, h) /\ u \in S /\ h[u] = b[w]
            /\ (\A v \in S \ {u} : hh[v] = h[v])
          => One(pool'["buffer"], made'["buffer"], S \ {u}, hh)
    BY <1>1, <2>2, <2>3, PutOne
  <2> QED BY <1>3, <2>1, <2>2, <2>3, <2>4
<1>14. One(pool'["writer"], made'["writer"], WriterUsers', z')
  <2>1. WriterUsers' \in SUBSET WriterUsers /\ (\A u \in WriterUsers' : z'[u] = z[u])
    BY <1>7, <1>9, <1>10, <1>11 DEF WriterUsers
  <2>2. pool'["writer"] = pool["writer"] /\ made'["writer"] = made["writer"]
    BY <1>12
  <2> QED BY <1>4, <2>1, <2>2, OneFewer
<1>15. ~again' => One(pool'["reader"], made'["reader"], ReaderUsers', z')
  <2>1. ReaderUsers' \in SUBSET ReaderUsers /\ (\A u \in ReaderUsers' : z'[u] = z[u])
    BY <1>7, <1>9, <1>10, <1>11 DEF ReaderUsers
  <2>2. pool'["reader"] = pool["reader"] /\ made'["reader"] = made["reader"]
    BY <1>12
  <2>3. ~again => One(pool["reader"], made["reader"], ReaderUsers', z')
    BY <1>5, <2>1, OneFewer
  <2> QED BY <1>7, <2>2, <2>3
<1>16. Types'
  <2>1. Owner(w) \in Owners /\ <<>> \in Seq(Owners)
    BY <1>1 DEF Owner, Owners, Types
  <2>2. src' \in [Objects -> [owner : Owners, left : Nat]]
    BY <1>1, <1>7, <2>1 DEF Types
  <2> QED BY <1>1, <1>7, <1>12, <2>1, <2>2 DEF Types
<1>17. \A u \in Users : Role(u)'
  <2>1. SUFFICES ASSUME NEW u \in Users
                 PROVE  Role(u)'
    OBVIOUS
  <2>2. CASE u # w
    BY <1>2, <1>7, <1>9, <2>1, <2>2 DEF Role
  <2>3. CASE u = w
    BY <1>1, <1>2, <1>7, <1>8, <1>9, <2>1, <2>3 DEF Role, Types
  <2> QED BY <2>2, <2>3
<1>18. ~again' => \A u \in Users : Data(u)'
  <2>1. SUFFICES ASSUME ~again, NEW u \in Users
                 PROVE  Data(u)'
    BY <1>7
  <2>2. Data(u) /\ Role(u)
    BY <1>2, <1>6, <2>1
  <2>3. CASE u # w
    <3>1. u \in BufferUsers => bytes'[b[u]] = bytes[b[u]]
      BY <1>7
    <3>2. u \in ReaderUsers => src'[z[u]] = src[z[u]]
      <4>1. u \in ReaderUsers => pool["reader"][z[u]] = 0 /\ z[u] \in Objects
        BY <1>1, <1>5, <2>1 DEF One, Types, Kinds
      <4>2. u \in ReaderUsers => z[u] # o
        BY <1>8, <4>1
      <4> QED BY <1>1, <1>7, <4>1, <4>2 DEF Types
    <3>3. u \in WriterUsers => dst'[z[u]] = dst[z[u]]
      BY <1>7
    <3>4. /\ upc'[u] = upc[u] /\ round'[u] = round[u] /\ result'[u] = result[u]
          /\ z'[u] = z[u] /\ b'[u] = b[u]
      BY <1>7, <1>9, <2>3
    <3> QED BY <1>1, <2>1, <2>2, <3>1, <3>2, <3>3, <3>4, DataKept
  <2>4. CASE u = w
    BY <1>9, <2>4 DEF Data
  <2> QED BY <2>3, <2>4
<1> QED BY <1>13, <1>14, <1>15, <1>16, <1>17, <1>18 DEF IInv

(* Decompress fails: RecvMsg puts its buffer back. *)
LEMMA DecompressFailsReceiverInv ==
  ASSUME IInv, NEW w \in Users, NEW o \in Objects \cup {NoObject}, DecompressFails(w, o), w \in Receivers
  PROVE  IInv'
<1>1. /\ upc[w] = "open" /\ Put("buffer", b[w]) /\ (o # NoObject => pool["reader"][o] > 0)
      /\ src' = IF o = NoObject THEN src ELSE [src EXCEPT ![o] = [owner |-> Owner(w), left |-> 0]]
      /\ b' = [b EXCEPT ![w] = NoObject] /\ result' = [result EXCEPT ![w] = <<>>] /\ Ends(w)
      /\ UNCHANGED <<z, dst, bytes, again>>
  BY UsersAreDistinct DEF DecompressFails, MayDecompress
<1> QED BY <1>1, UsersAreDistinct, BufferBackInv

(* Compress fails: SendMsg does too. *)
LEMMA CompressFailsInv ==
  ASSUME IInv, NEW w \in Users, CompressFails(w)
  PROVE  IInv'
<1>1. /\ w \notin Bodies /\ upc[w] = "open" /\ Put("buffer", b[w])
      /\ src' = src /\ b' = [b EXCEPT ![w] = NoObject] /\ result' = [result EXCEPT ![w] = <<>>]
      /\ Ends(w) /\ UNCHANGED <<z, dst, bytes, again>>
  BY UsersAreDistinct DEF CompressFails
<1>2. src' = IF NoObject = NoObject THEN src
             ELSE [src EXCEPT ![NoObject] = [owner |-> Owner(w), left |-> 0]]
  BY <1>1
<1> QED BY <1>1, <1>2, BufferBackInv

(* Decompress fails for a body. *)
LEMMA DecompressFailsBodyInv ==
  ASSUME IInv, NEW w \in Users, NEW o \in Objects \cup {NoObject}, DecompressFails(w, o), w \in Bodies
  PROVE  IInv'
<1> USE UsersAreDistinct, BoundsAreNat, NoObjectIsNone
<1>1. Types
  BY DEF IInv
<1>2. \A u \in Users : Role(u)
  BY DEF IInv
<1>3. One(pool["buffer"], made["buffer"], BufferUsers, b)
  BY DEF IInv
<1>4. One(pool["writer"], made["writer"], WriterUsers, z)
  BY DEF IInv
<1>5. ~again => One(pool["reader"], made["reader"], ReaderUsers, z)
  BY DEF IInv
<1>6. ~again => \A u \in Users : Data(u)
  BY DEF IInv
<1>7. /\ src' = IF o = NoObject THEN src ELSE [src EXCEPT ![o] = [owner |-> Owner(w), left |-> 0]]
      /\ round' = [round EXCEPT ![w] = @ + 1]
      /\ result' = [result EXCEPT ![w] = <<>>]
      /\ upc' = [upc EXCEPT ![w] = "idle"]
      /\ UNCHANGED <<z, b, pool, made, dst, bytes, again>>
  BY DEF DecompressFails, Goes, MayDecompress, Ends
<1>8. /\ w \in Bodies /\ upc[w] = "idle"
      /\ round[w] < MaxRounds[w]
      /\ o # NoObject => o \in Objects /\ pool["reader"][o] > 0
  BY <1>2 DEF DecompressFails, Role, Users, Goes, MayDecompress, Ends
<1>9. /\ round'[w] = round[w] + 1
      /\ result'[w] = <<>>
      /\ upc'[w] = "idle"
      /\ \A u \in Users \ {w} : round'[u] = round[u] /\ result'[u] = result[u] /\ upc'[u] = upc[u]
  BY <1>1, <1>7 DEF Types
<1>10. /\ w \notin BufferUsers
       /\ w \notin WriterUsers
       /\ w \notin ReaderUsers
  BY <1>8 DEF BufferUsers, WriterUsers, ReaderUsers, Users
<1>11. /\ BufferUsers' = BufferUsers
       /\ WriterUsers' = WriterUsers
       /\ ReaderUsers' = ReaderUsers
  <2>1. /\ BufferUsers' = BufferUsers \ {w}
        /\ WriterUsers' = WriterUsers \ {w}
        /\ ReaderUsers' = ReaderUsers \ {w}
    <3>1. upc'[w] = "idle" /\ (\A u \in Users \ {w} : upc'[u] = upc[u])
      BY <1>9
    <3> QED BY <1>8, <3>1, UsersMove
  <2> QED BY <1>10, <2>1, SetMove
<1>12. UNCHANGED <<pool, made>>
  BY <1>7
<1>13. One(pool'["buffer"], made'["buffer"], BufferUsers', b')
  <2>1. BufferUsers' \in SUBSET BufferUsers /\ (\A u \in BufferUsers' : b'[u] = b[u])
    BY <1>7, <1>9, <1>10, <1>11 DEF BufferUsers
  <2>2. pool'["buffer"] = pool["buffer"] /\ made'["buffer"] = made["buffer"]
    BY <1>12
  <2> QED BY <1>3, <2>1, <2>2, OneFewer
<1>14. One(pool'["writer"], made'["writer"], WriterUsers', z')
  <2>1. WriterUsers' \in SUBSET WriterUsers /\ (\A u \in WriterUsers' : z'[u] = z[u])
    BY <1>7, <1>9, <1>10, <1>11 DEF WriterUsers
  <2>2. pool'["writer"] = pool["writer"] /\ made'["writer"] = made["writer"]
    BY <1>12
  <2> QED BY <1>4, <2>1, <2>2, OneFewer
<1>15. ~again' => One(pool'["reader"], made'["reader"], ReaderUsers', z')
  <2>1. ReaderUsers' \in SUBSET ReaderUsers /\ (\A u \in ReaderUsers' : z'[u] = z[u])
    BY <1>7, <1>9, <1>10, <1>11 DEF ReaderUsers
  <2>2. pool'["reader"] = pool["reader"] /\ made'["reader"] = made["reader"]
    BY <1>12
  <2>3. ~again => One(pool["reader"], made["reader"], ReaderUsers', z')
    BY <1>5, <2>1, OneFewer
  <2> QED BY <1>7, <2>2, <2>3
<1>16. Types'
  <2>1. Owner(w) \in Owners /\ <<>> \in Seq(Owners)
    BY <1>1 DEF Owner, Owners, Types
  <2>2. src' \in [Objects -> [owner : Owners, left : Nat]]
    BY <1>1, <1>7, <2>1 DEF Types
  <2> QED BY <1>1, <1>7, <1>12, <2>1, <2>2 DEF Types
<1>17. \A u \in Users : Role(u)'
  <2>1. SUFFICES ASSUME NEW u \in Users
                 PROVE  Role(u)'
    OBVIOUS
  <2>2. CASE u # w
    BY <1>2, <1>7, <1>9, <2>1, <2>2 DEF Role
  <2>3. CASE u = w
    BY <1>1, <1>2, <1>7, <1>8, <1>9, <2>1, <2>3 DEF Role, Types
  <2> QED BY <2>2, <2>3
<1>18. ~again' => \A u \in Users : Data(u)'
  <2>1. SUFFICES ASSUME ~again, NEW u \in Users
                 PROVE  Data(u)'
    BY <1>7
  <2>2. Data(u) /\ Role(u)
    BY <1>2, <1>6, <2>1
  <2>3. CASE u # w
    <3>1. u \in BufferUsers => bytes'[b[u]] = bytes[b[u]]
      BY <1>7
    <3>2. u \in ReaderUsers => src'[z[u]] = src[z[u]]
      <4>1. u \in ReaderUsers => pool["reader"][z[u]] = 0 /\ z[u] \in Objects
        BY <1>1, <1>5, <2>1 DEF One, Types, Kinds
      <4>2. u \in ReaderUsers => z[u] # o
        BY <1>8, <4>1
      <4> QED BY <1>1, <1>7, <4>1, <4>2 DEF Types
    <3>3. u \in WriterUsers => dst'[z[u]] = dst[z[u]]
      BY <1>7
    <3>4. /\ upc'[u] = upc[u] /\ round'[u] = round[u] /\ result'[u] = result[u]
          /\ z'[u] = z[u] /\ b'[u] = b[u]
      BY <1>7, <1>9, <2>3
    <3> QED BY <1>1, <2>1, <2>2, <3>1, <3>2, <3>3, <3>4, DataKept
  <2>4. CASE u = w
    BY <1>9, <2>4 DEF Data
  <2> QED BY <2>3, <2>4
<1> QED BY <1>13, <1>14, <1>15, <1>16, <1>17, <1>18 DEF IInv

(* A reader is lost, and RecvMsg puts its buffer back. *)
LEMMA ReadFailsReceiverInv ==
  ASSUME IInv, NEW w \in Users, ReadFails(w), w \in Receivers
  PROVE  IInv'
<1> USE UsersAreDistinct, BoundsAreNat, NoObjectIsNone
<1>1. Types
  BY DEF IInv
<1>2. \A u \in Users : Role(u)
  BY DEF IInv
<1>3. One(pool["buffer"], made["buffer"], BufferUsers, b)
  BY DEF IInv
<1>4. One(pool["writer"], made["writer"], WriterUsers, z)
  BY DEF IInv
<1>5. ~again => One(pool["reader"], made["reader"], ReaderUsers, z)
  BY DEF IInv
<1>6. ~again => \A u \in Users : Data(u)
  BY DEF IInv
<1>7. /\ z' = [z EXCEPT ![w] = NoObject]
      /\ b' = [b EXCEPT ![w] = NoObject]
      /\ round' = [round EXCEPT ![w] = @ + 1]
      /\ result' = [result EXCEPT ![w] = <<>>]
      /\ upc' = [upc EXCEPT ![w] = "idle"]
      /\ UNCHANGED <<src, dst, bytes, again>>
  BY DEF ReadFails, Goes, Ends
<1>8. /\ w \notin Bodies /\ upc[w] = "read" /\ b[w] \in Objects
      /\ round[w] < MaxRounds[w]
      /\ Put("buffer", b[w])
  BY <1>2 DEF ReadFails, Role, Users, Goes, Ends
<1>9. /\ z'[w] = NoObject
      /\ b'[w] = NoObject
      /\ round'[w] = round[w] + 1
      /\ result'[w] = <<>>
      /\ upc'[w] = "idle"
      /\ \A u \in Users \ {w} : z'[u] = z[u] /\ b'[u] = b[u] /\ round'[u] = round[u] /\ result'[u] = result[u] /\ upc'[u] = upc[u]
  BY <1>1, <1>7 DEF Types
<1>10. /\ w \in BufferUsers
       /\ w \notin WriterUsers
       /\ w \in ReaderUsers
  BY <1>8 DEF BufferUsers, WriterUsers, ReaderUsers, Users
<1>11. /\ BufferUsers' = BufferUsers \ {w}
       /\ WriterUsers' = WriterUsers
       /\ ReaderUsers' = ReaderUsers \ {w}
  <2>1. /\ BufferUsers' = BufferUsers \ {w}
        /\ WriterUsers' = WriterUsers \ {w}
        /\ ReaderUsers' = ReaderUsers \ {w}
    <3>1. upc'[w] = "idle" /\ (\A u \in Users \ {w} : upc'[u] = upc[u])
      BY <1>9
    <3> QED BY <1>8, <3>1, UsersMove
  <2> QED BY <1>10, <2>1, SetMove
<1>12. /\ pool' \in [Kinds -> [Objects -> Nat]]
       /\ made' \in [Kinds -> SUBSET Objects]
       /\ pool'["writer"] = pool["writer"] /\ made'["writer"] = made["writer"]
       /\ pool'["reader"] = pool["reader"] /\ made'["reader"] = made["reader"]
  <2>1. "buffer" \in Kinds /\ "writer" \in Kinds \ {"buffer"} /\ "reader" \in Kinds \ {"buffer"}
    BY DEF Kinds
  <2> QED BY <1>1, <1>8, <2>1, PutOne DEF Types
<1>13. One(pool'["buffer"], made'["buffer"], BufferUsers', b')
  <2>1. w \in BufferUsers /\ b[w] = b[w] /\ (\A u \in BufferUsers \ {w} : b'[u] = b[u])
    BY <1>7, <1>9, <1>10 DEF BufferUsers
  <2>2. "buffer" \in Kinds /\ BufferUsers' = BufferUsers \ {w} /\ b[w] \in Objects
    BY <1>8, <1>11 DEF Kinds
  <2>3. Put("buffer", b[w])
    BY <1>7, <1>8
  <2>4. \A S, h, u, hh :
          One(pool["buffer"], made["buffer"], S, h) /\ u \in S /\ h[u] = b[w]
            /\ (\A v \in S \ {u} : hh[v] = h[v])
          => One(pool'["buffer"], made'["buffer"], S \ {u}, hh)
    BY <1>1, <2>2, <2>3, PutOne
  <2> QED BY <1>3, <2>1, <2>2, <2>3, <2>4
<1>14. One(pool'["writer"], made'["writer"], WriterUsers', z')
  <2>1. WriterUsers' \in SUBSET WriterUsers /\ (\A u \in WriterUsers' : z'[u] = z[u])
    BY <1>7, <1>9, <1>10, <1>11 DEF WriterUsers
  <2>2. pool'["writer"] = pool["writer"] /\ made'["writer"] = made["writer"]
    BY <1>12
  <2> QED BY <1>4, <2>1, <2>2, OneFewer
<1>15. ~again' => One(pool'["reader"], made'["reader"], ReaderUsers', z')
  <2>1. ReaderUsers' \in SUBSET ReaderUsers /\ (\A u \in ReaderUsers' : z'[u] = z[u])
    BY <1>7, <1>9, <1>10, <1>11 DEF ReaderUsers
  <2>2. pool'["reader"] = pool["reader"] /\ made'["reader"] = made["reader"]
    BY <1>12
  <2>3. ~again => One(pool["reader"], made["reader"], ReaderUsers', z')
    BY <1>5, <2>1, OneFewer
  <2> QED BY <1>7, <2>2, <2>3
<1>16. Types'
  <2>1. <<>> \in Seq(Owners)
    OBVIOUS
  <2> QED BY <1>1, <1>7, <1>12, <2>1 DEF Types
<1>17. \A u \in Users : Role(u)'
  <2>1. SUFFICES ASSUME NEW u \in Users
                 PROVE  Role(u)'
    OBVIOUS
  <2>2. CASE u # w
    BY <1>2, <1>7, <1>9, <2>1, <2>2 DEF Role
  <2>3. CASE u = w
    BY <1>1, <1>2, <1>7, <1>8, <1>9, <2>1, <2>3 DEF Role, Types
  <2> QED BY <2>2, <2>3
<1>18. ~again' => \A u \in Users : Data(u)'
  <2>1. SUFFICES ASSUME ~again, NEW u \in Users
                 PROVE  Data(u)'
    BY <1>7
  <2>2. Data(u) /\ Role(u)
    BY <1>2, <1>6, <2>1
  <2>3. CASE u # w
    <3>1. u \in BufferUsers => bytes'[b[u]] = bytes[b[u]]
      BY <1>7
    <3>2. u \in ReaderUsers => src'[z[u]] = src[z[u]]
      BY <1>7
    <3>3. u \in WriterUsers => dst'[z[u]] = dst[z[u]]
      BY <1>7
    <3>4. /\ upc'[u] = upc[u] /\ round'[u] = round[u] /\ result'[u] = result[u]
          /\ z'[u] = z[u] /\ b'[u] = b[u]
      BY <1>7, <1>9, <2>3
    <3> QED BY <1>1, <2>1, <2>2, <3>1, <3>2, <3>3, <3>4, DataKept
  <2>4. CASE u = w
    BY <1>9, <2>4 DEF Data
  <2> QED BY <2>3, <2>4
<1> QED BY <1>13, <1>14, <1>15, <1>16, <1>17, <1>18 DEF IInv

(* A reader of a body is lost. *)
LEMMA ReadFailsBodyInv ==
  ASSUME IInv, NEW w \in Users, ReadFails(w), w \in Bodies
  PROVE  IInv'
<1> USE UsersAreDistinct, BoundsAreNat, NoObjectIsNone
<1>1. Types
  BY DEF IInv
<1>2. \A u \in Users : Role(u)
  BY DEF IInv
<1>3. One(pool["buffer"], made["buffer"], BufferUsers, b)
  BY DEF IInv
<1>4. One(pool["writer"], made["writer"], WriterUsers, z)
  BY DEF IInv
<1>5. ~again => One(pool["reader"], made["reader"], ReaderUsers, z)
  BY DEF IInv
<1>6. ~again => \A u \in Users : Data(u)
  BY DEF IInv
<1>7. /\ z' = [z EXCEPT ![w] = NoObject]
      /\ round' = [round EXCEPT ![w] = @ + 1]
      /\ result' = [result EXCEPT ![w] = <<>>]
      /\ upc' = [upc EXCEPT ![w] = "idle"]
      /\ UNCHANGED <<b, pool, made, src, dst, bytes, again>>
  BY DEF ReadFails, Goes, Ends
<1>8. /\ w \in Bodies /\ upc[w] = "read"
      /\ round[w] < MaxRounds[w]
  BY <1>2 DEF ReadFails, Role, Users, Goes, Ends
<1>9. /\ z'[w] = NoObject
      /\ round'[w] = round[w] + 1
      /\ result'[w] = <<>>
      /\ upc'[w] = "idle"
      /\ \A u \in Users \ {w} : z'[u] = z[u] /\ round'[u] = round[u] /\ result'[u] = result[u] /\ upc'[u] = upc[u]
  BY <1>1, <1>7 DEF Types
<1>10. /\ w \notin BufferUsers
       /\ w \notin WriterUsers
       /\ w \in ReaderUsers
  BY <1>8 DEF BufferUsers, WriterUsers, ReaderUsers, Users
<1>11. /\ BufferUsers' = BufferUsers
       /\ WriterUsers' = WriterUsers
       /\ ReaderUsers' = ReaderUsers \ {w}
  <2>1. /\ BufferUsers' = BufferUsers \ {w}
        /\ WriterUsers' = WriterUsers \ {w}
        /\ ReaderUsers' = ReaderUsers \ {w}
    <3>1. upc'[w] = "idle" /\ (\A u \in Users \ {w} : upc'[u] = upc[u])
      BY <1>9
    <3> QED BY <1>8, <3>1, UsersMove
  <2> QED BY <1>10, <2>1, SetMove
<1>12. UNCHANGED <<pool, made>>
  BY <1>7
<1>13. One(pool'["buffer"], made'["buffer"], BufferUsers', b')
  <2>1. BufferUsers' \in SUBSET BufferUsers /\ (\A u \in BufferUsers' : b'[u] = b[u])
    BY <1>7, <1>9, <1>10, <1>11 DEF BufferUsers
  <2>2. pool'["buffer"] = pool["buffer"] /\ made'["buffer"] = made["buffer"]
    BY <1>12
  <2> QED BY <1>3, <2>1, <2>2, OneFewer
<1>14. One(pool'["writer"], made'["writer"], WriterUsers', z')
  <2>1. WriterUsers' \in SUBSET WriterUsers /\ (\A u \in WriterUsers' : z'[u] = z[u])
    BY <1>7, <1>9, <1>10, <1>11 DEF WriterUsers
  <2>2. pool'["writer"] = pool["writer"] /\ made'["writer"] = made["writer"]
    BY <1>12
  <2> QED BY <1>4, <2>1, <2>2, OneFewer
<1>15. ~again' => One(pool'["reader"], made'["reader"], ReaderUsers', z')
  <2>1. ReaderUsers' \in SUBSET ReaderUsers /\ (\A u \in ReaderUsers' : z'[u] = z[u])
    BY <1>7, <1>9, <1>10, <1>11 DEF ReaderUsers
  <2>2. pool'["reader"] = pool["reader"] /\ made'["reader"] = made["reader"]
    BY <1>12
  <2>3. ~again => One(pool["reader"], made["reader"], ReaderUsers', z')
    BY <1>5, <2>1, OneFewer
  <2> QED BY <1>7, <2>2, <2>3
<1>16. Types'
  <2>1. <<>> \in Seq(Owners)
    OBVIOUS
  <2> QED BY <1>1, <1>7, <1>12, <2>1 DEF Types
<1>17. \A u \in Users : Role(u)'
  <2>1. SUFFICES ASSUME NEW u \in Users
                 PROVE  Role(u)'
    OBVIOUS
  <2>2. CASE u # w
    BY <1>2, <1>7, <1>9, <2>1, <2>2 DEF Role
  <2>3. CASE u = w
    BY <1>1, <1>2, <1>7, <1>8, <1>9, <2>1, <2>3 DEF Role, Types
  <2> QED BY <2>2, <2>3
<1>18. ~again' => \A u \in Users : Data(u)'
  <2>1. SUFFICES ASSUME ~again, NEW u \in Users
                 PROVE  Data(u)'
    BY <1>7
  <2>2. Data(u) /\ Role(u)
    BY <1>2, <1>6, <2>1
  <2>3. CASE u # w
    <3>1. u \in BufferUsers => bytes'[b[u]] = bytes[b[u]]
      BY <1>7
    <3>2. u \in ReaderUsers => src'[z[u]] = src[z[u]]
      BY <1>7
    <3>3. u \in WriterUsers => dst'[z[u]] = dst[z[u]]
      BY <1>7
    <3>4. /\ upc'[u] = upc[u] /\ round'[u] = round[u] /\ result'[u] = result[u]
          /\ z'[u] = z[u] /\ b'[u] = b[u]
      BY <1>7, <1>9, <2>3
    <3> QED BY <1>1, <2>1, <2>2, <3>1, <3>2, <3>3, <3>4, DataKept
  <2>4. CASE u = w
    BY <1>9, <2>4 DEF Data
  <2> QED BY <2>3, <2>4
<1> QED BY <1>13, <1>14, <1>15, <1>16, <1>17, <1>18 DEF IInv

(* io.EOF: the reader goes back to its pool. *)
LEMMA ReadEOFReceiverInv ==
  ASSUME IInv, NEW w \in Users, ReadEOF(w), w \in Receivers
  PROVE  IInv'
<1> USE UsersAreDistinct, BoundsAreNat, NoObjectIsNone
<1>1. Types
  BY DEF IInv
<1>2. \A u \in Users : Role(u)
  BY DEF IInv
<1>3. One(pool["buffer"], made["buffer"], BufferUsers, b)
  BY DEF IInv
<1>4. One(pool["writer"], made["writer"], WriterUsers, z)
  BY DEF IInv
<1>5. ~again => One(pool["reader"], made["reader"], ReaderUsers, z)
  BY DEF IInv
<1>6. ~again => \A u \in Users : Data(u)
  BY DEF IInv
<1>7. /\ upc' = [upc EXCEPT ![w] = "copy"]
      /\ UNCHANGED <<round, z, b, result, src, dst, bytes, again>>
  BY DEF ReadEOF, Goes
<1>8. /\ w \notin Bodies /\ b[w] \in Objects
      /\ upc[w] = "read" /\ src[z[w]].left = 0 /\ z[w] \in Objects
      /\ round[w] < MaxRounds[w]
      /\ Put("reader", z[w])
  BY <1>2 DEF ReadEOF, Role, Users, Goes
<1>9. /\ upc'[w] = "copy"
      /\ \A u \in Users \ {w} : upc'[u] = upc[u]
  BY <1>1, <1>7 DEF Types
<1>10. /\ w \in BufferUsers
       /\ w \notin WriterUsers
       /\ w \in ReaderUsers
  BY <1>8 DEF BufferUsers, WriterUsers, ReaderUsers, Users
<1>11. /\ BufferUsers' = BufferUsers
       /\ WriterUsers' = WriterUsers
       /\ ReaderUsers' = ReaderUsers \ {w}
  <2>1. /\ BufferUsers' = BufferUsers \cup {w}
        /\ WriterUsers' = WriterUsers \ {w}
        /\ ReaderUsers' = ReaderUsers \ {w}
    <3>1. upc'[w] = "copy" /\ (\A u \in Users \ {w} : upc'[u] = upc[u])
      BY <1>9
    <3> QED BY <1>8, <3>1, UsersMove
  <2> QED BY <1>10, <2>1, SetMove
<1>12. /\ pool' \in [Kinds -> [Objects -> Nat]]
       /\ made' \in [Kinds -> SUBSET Objects]
       /\ pool'["buffer"] = pool["buffer"] /\ made'["buffer"] = made["buffer"]
       /\ pool'["writer"] = pool["writer"] /\ made'["writer"] = made["writer"]
  <2>1. "reader" \in Kinds /\ "buffer" \in Kinds \ {"reader"} /\ "writer" \in Kinds \ {"reader"}
    BY DEF Kinds
  <2> QED BY <1>1, <1>8, <2>1, PutOne DEF Types
<1>13. One(pool'["buffer"], made'["buffer"], BufferUsers', b')
  <2>1. BufferUsers' \in SUBSET BufferUsers /\ (\A u \in BufferUsers' : b'[u] = b[u])
    BY <1>7, <1>9, <1>10, <1>11 DEF BufferUsers
  <2>2. pool'["buffer"] = pool["buffer"] /\ made'["buffer"] = made["buffer"]
    BY <1>12
  <2> QED BY <1>3, <2>1, <2>2, OneFewer
<1>14. One(pool'["writer"], made'["writer"], WriterUsers', z')
  <2>1. WriterUsers' \in SUBSET WriterUsers /\ (\A u \in WriterUsers' : z'[u] = z[u])
    BY <1>7, <1>9, <1>10, <1>11 DEF WriterUsers
  <2>2. pool'["writer"] = pool["writer"] /\ made'["writer"] = made["writer"]
    BY <1>12
  <2> QED BY <1>4, <2>1, <2>2, OneFewer
<1>15. ~again' => One(pool'["reader"], made'["reader"], ReaderUsers', z')
  <2>1. w \in ReaderUsers /\ z[w] = z[w] /\ (\A u \in ReaderUsers \ {w} : z'[u] = z[u])
    BY <1>7, <1>9, <1>10 DEF ReaderUsers
  <2>2. "reader" \in Kinds /\ ReaderUsers' = ReaderUsers \ {w} /\ z[w] \in Objects
    BY <1>8, <1>11 DEF Kinds
  <2>3. Put("reader", z[w]) /\ again' = again
    BY <1>7, <1>8
  <2>4. \A S, h, u, hh :
          One(pool["reader"], made["reader"], S, h) /\ u \in S /\ h[u] = z[w]
            /\ (\A v \in S \ {u} : hh[v] = h[v])
          => One(pool'["reader"], made'["reader"], S \ {u}, hh)
    BY <1>1, <2>2, <2>3, PutOne
  <2> QED BY <1>5, <2>1, <2>2, <2>3, <2>4
<1>16. Types'
  BY <1>1, <1>7, <1>12 DEF Types
<1>17. \A u \in Users : Role(u)'
  <2>1. SUFFICES ASSUME NEW u \in Users
                 PROVE  Role(u)'
    OBVIOUS
  <2>2. CASE u # w
    BY <1>2, <1>7, <1>9, <2>1, <2>2 DEF Role
  <2>3. CASE u = w
    BY <1>1, <1>2, <1>7, <1>8, <1>9, <2>1, <2>3 DEF Role, Types
  <2> QED BY <2>2, <2>3
<1>18. ~again' => \A u \in Users : Data(u)'
  <2>1. SUFFICES ASSUME ~again, NEW u \in Users
                 PROVE  Data(u)'
    BY <1>7
  <2>2. Data(u) /\ Role(u)
    BY <1>2, <1>6, <2>1
  <2>3. CASE u # w
    <3>1. u \in BufferUsers => bytes'[b[u]] = bytes[b[u]]
      BY <1>7
    <3>2. u \in ReaderUsers => src'[z[u]] = src[z[u]]
      BY <1>7
    <3>3. u \in WriterUsers => dst'[z[u]] = dst[z[u]]
      BY <1>7
    <3>4. /\ upc'[u] = upc[u] /\ round'[u] = round[u] /\ result'[u] = result[u]
          /\ z'[u] = z[u] /\ b'[u] = b[u]
      BY <1>7, <1>9, <2>3
    <3> QED BY <1>1, <2>1, <2>2, <3>1, <3>2, <3>3, <3>4, DataKept
  <2>4. CASE u = w
    <3>1. Chunks - src[z[w]].left = Chunks
      BY <1>8
    <3>2. Owner(w)' = Owner(w)
      BY <1>7 DEF Owner
    <3>3. bytes'[b'[w]] = Copies(Chunks, Owner(w)') /\ result'[w] = <<>>
      BY <1>7, <1>8, <2>2, <2>4, <3>1, <3>2 DEF Data
    <3> QED BY <1>7, <1>8, <1>9, <2>4, <3>3 DEF Data
  <2> QED BY <2>3, <2>4
<1> QED BY <1>13, <1>14, <1>15, <1>16, <1>17, <1>18 DEF IInv

(* io.EOF: the reader goes back to its pool. *)
LEMMA ReadEOFBodyInv ==
  ASSUME IInv, NEW w \in Users, ReadEOF(w), w \in Bodies
  PROVE  IInv'
<1> USE UsersAreDistinct, BoundsAreNat, NoObjectIsNone
<1>1. Types
  BY DEF IInv
<1>2. \A u \in Users : Role(u)
  BY DEF IInv
<1>3. One(pool["buffer"], made["buffer"], BufferUsers, b)
  BY DEF IInv
<1>4. One(pool["writer"], made["writer"], WriterUsers, z)
  BY DEF IInv
<1>5. ~again => One(pool["reader"], made["reader"], ReaderUsers, z)
  BY DEF IInv
<1>6. ~again => \A u \in Users : Data(u)
  BY DEF IInv
<1>7. /\ upc' = [upc EXCEPT ![w] = "eof"]
      /\ UNCHANGED <<round, z, b, result, src, dst, bytes, again>>
  BY DEF ReadEOF, Goes
<1>8. /\ w \in Bodies
      /\ upc[w] = "read" /\ src[z[w]].left = 0 /\ z[w] \in Objects
      /\ round[w] < MaxRounds[w]
      /\ Put("reader", z[w])
  BY <1>2 DEF ReadEOF, Role, Users, Goes
<1>9. /\ upc'[w] = "eof"
      /\ \A u \in Users \ {w} : upc'[u] = upc[u]
  BY <1>1, <1>7 DEF Types
<1>10. /\ w \notin BufferUsers
       /\ w \notin WriterUsers
       /\ w \in ReaderUsers
  BY <1>8 DEF BufferUsers, WriterUsers, ReaderUsers, Users
<1>11. /\ BufferUsers' = BufferUsers
       /\ WriterUsers' = WriterUsers
       /\ ReaderUsers' = ReaderUsers \ {w}
  <2>1. /\ BufferUsers' = BufferUsers \ {w}
        /\ WriterUsers' = WriterUsers \ {w}
        /\ ReaderUsers' = ReaderUsers \ {w}
    <3>1. upc'[w] = "eof" /\ (\A u \in Users \ {w} : upc'[u] = upc[u])
      BY <1>9
    <3> QED BY <1>8, <3>1, UsersMove
  <2> QED BY <1>10, <2>1, SetMove
<1>12. /\ pool' \in [Kinds -> [Objects -> Nat]]
       /\ made' \in [Kinds -> SUBSET Objects]
       /\ pool'["buffer"] = pool["buffer"] /\ made'["buffer"] = made["buffer"]
       /\ pool'["writer"] = pool["writer"] /\ made'["writer"] = made["writer"]
  <2>1. "reader" \in Kinds /\ "buffer" \in Kinds \ {"reader"} /\ "writer" \in Kinds \ {"reader"}
    BY DEF Kinds
  <2> QED BY <1>1, <1>8, <2>1, PutOne DEF Types
<1>13. One(pool'["buffer"], made'["buffer"], BufferUsers', b')
  <2>1. BufferUsers' \in SUBSET BufferUsers /\ (\A u \in BufferUsers' : b'[u] = b[u])
    BY <1>7, <1>9, <1>10, <1>11 DEF BufferUsers
  <2>2. pool'["buffer"] = pool["buffer"] /\ made'["buffer"] = made["buffer"]
    BY <1>12
  <2> QED BY <1>3, <2>1, <2>2, OneFewer
<1>14. One(pool'["writer"], made'["writer"], WriterUsers', z')
  <2>1. WriterUsers' \in SUBSET WriterUsers /\ (\A u \in WriterUsers' : z'[u] = z[u])
    BY <1>7, <1>9, <1>10, <1>11 DEF WriterUsers
  <2>2. pool'["writer"] = pool["writer"] /\ made'["writer"] = made["writer"]
    BY <1>12
  <2> QED BY <1>4, <2>1, <2>2, OneFewer
<1>15. ~again' => One(pool'["reader"], made'["reader"], ReaderUsers', z')
  <2>1. w \in ReaderUsers /\ z[w] = z[w] /\ (\A u \in ReaderUsers \ {w} : z'[u] = z[u])
    BY <1>7, <1>9, <1>10 DEF ReaderUsers
  <2>2. "reader" \in Kinds /\ ReaderUsers' = ReaderUsers \ {w} /\ z[w] \in Objects
    BY <1>8, <1>11 DEF Kinds
  <2>3. Put("reader", z[w]) /\ again' = again
    BY <1>7, <1>8
  <2>4. \A S, h, u, hh :
          One(pool["reader"], made["reader"], S, h) /\ u \in S /\ h[u] = z[w]
            /\ (\A v \in S \ {u} : hh[v] = h[v])
          => One(pool'["reader"], made'["reader"], S \ {u}, hh)
    BY <1>1, <2>2, <2>3, PutOne
  <2> QED BY <1>5, <2>1, <2>2, <2>3, <2>4
<1>16. Types'
  BY <1>1, <1>7, <1>12 DEF Types
<1>17. \A u \in Users : Role(u)'
  <2>1. SUFFICES ASSUME NEW u \in Users
                 PROVE  Role(u)'
    OBVIOUS
  <2>2. CASE u # w
    BY <1>2, <1>7, <1>9, <2>1, <2>2 DEF Role
  <2>3. CASE u = w
    BY <1>1, <1>2, <1>7, <1>8, <1>9, <2>1, <2>3 DEF Role, Types
  <2> QED BY <2>2, <2>3
<1>18. ~again' => \A u \in Users : Data(u)'
  <2>1. SUFFICES ASSUME ~again, NEW u \in Users
                 PROVE  Data(u)'
    BY <1>7
  <2>2. Data(u) /\ Role(u)
    BY <1>2, <1>6, <2>1
  <2>3. CASE u # w
    <3>1. u \in BufferUsers => bytes'[b[u]] = bytes[b[u]]
      BY <1>7
    <3>2. u \in ReaderUsers => src'[z[u]] = src[z[u]]
      BY <1>7
    <3>3. u \in WriterUsers => dst'[z[u]] = dst[z[u]]
      BY <1>7
    <3>4. /\ upc'[u] = upc[u] /\ round'[u] = round[u] /\ result'[u] = result[u]
          /\ z'[u] = z[u] /\ b'[u] = b[u]
      BY <1>7, <1>9, <2>3
    <3> QED BY <1>1, <2>1, <2>2, <3>1, <3>2, <3>3, <3>4, DataKept
  <2>4. CASE u = w
    <3>1. Chunks - src[z[w]].left = Chunks
      BY <1>8
    <3>2. Owner(w)' = Owner(w)
      BY <1>7 DEF Owner
    <3>3. result'[w] = Copies(Chunks, Owner(w)')
      BY <1>7, <1>8, <2>2, <2>4, <3>1, <3>2 DEF Data
    <3> QED BY <1>7, <1>8, <1>9, <2>4, <3>3 DEF Data
  <2> QED BY <2>3, <2>4
<1> QED BY <1>13, <1>14, <1>15, <1>16, <1>17, <1>18 DEF IInv

(* The handler of a body has read it. *)
LEMMA BodyEndsInv ==
  ASSUME IInv, NEW w \in Users, BodyEnds(w)
  PROVE  IInv'
<1> USE UsersAreDistinct, BoundsAreNat, NoObjectIsNone
<1>1. Types
  BY DEF IInv
<1>2. \A u \in Users : Role(u)
  BY DEF IInv
<1>3. One(pool["buffer"], made["buffer"], BufferUsers, b)
  BY DEF IInv
<1>4. One(pool["writer"], made["writer"], WriterUsers, z)
  BY DEF IInv
<1>5. ~again => One(pool["reader"], made["reader"], ReaderUsers, z)
  BY DEF IInv
<1>6. ~again => \A u \in Users : Data(u)
  BY DEF IInv
<1>7. /\ z' = [z EXCEPT ![w] = NoObject]
      /\ round' = [round EXCEPT ![w] = @ + 1]
      /\ upc' = [upc EXCEPT ![w] = "idle"]
      /\ UNCHANGED <<b, result, pool, made, src, dst, bytes, again>>
  BY DEF BodyEnds, Goes, Ends
<1>8. /\ w \in Bodies /\ upc[w] = "eof"
      /\ round[w] < MaxRounds[w]
  BY <1>2 DEF BodyEnds, Role, Users, Goes, Ends
<1>9. /\ z'[w] = NoObject
      /\ round'[w] = round[w] + 1
      /\ upc'[w] = "idle"
      /\ \A u \in Users \ {w} : z'[u] = z[u] /\ round'[u] = round[u] /\ upc'[u] = upc[u]
  BY <1>1, <1>7 DEF Types
<1>10. /\ w \notin BufferUsers
       /\ w \notin WriterUsers
       /\ w \notin ReaderUsers
  BY <1>8 DEF BufferUsers, WriterUsers, ReaderUsers, Users
<1>11. /\ BufferUsers' = BufferUsers
       /\ WriterUsers' = WriterUsers
       /\ ReaderUsers' = ReaderUsers
  <2>1. /\ BufferUsers' = BufferUsers \ {w}
        /\ WriterUsers' = WriterUsers \ {w}
        /\ ReaderUsers' = ReaderUsers \ {w}
    <3>1. upc'[w] = "idle" /\ (\A u \in Users \ {w} : upc'[u] = upc[u])
      BY <1>9
    <3> QED BY <1>8, <3>1, UsersMove
  <2> QED BY <1>10, <2>1, SetMove
<1>12. UNCHANGED <<pool, made>>
  BY <1>7
<1>13. One(pool'["buffer"], made'["buffer"], BufferUsers', b')
  <2>1. BufferUsers' \in SUBSET BufferUsers /\ (\A u \in BufferUsers' : b'[u] = b[u])
    BY <1>7, <1>9, <1>10, <1>11 DEF BufferUsers
  <2>2. pool'["buffer"] = pool["buffer"] /\ made'["buffer"] = made["buffer"]
    BY <1>12
  <2> QED BY <1>3, <2>1, <2>2, OneFewer
<1>14. One(pool'["writer"], made'["writer"], WriterUsers', z')
  <2>1. WriterUsers' \in SUBSET WriterUsers /\ (\A u \in WriterUsers' : z'[u] = z[u])
    BY <1>7, <1>9, <1>10, <1>11 DEF WriterUsers
  <2>2. pool'["writer"] = pool["writer"] /\ made'["writer"] = made["writer"]
    BY <1>12
  <2> QED BY <1>4, <2>1, <2>2, OneFewer
<1>15. ~again' => One(pool'["reader"], made'["reader"], ReaderUsers', z')
  <2>1. ReaderUsers' \in SUBSET ReaderUsers /\ (\A u \in ReaderUsers' : z'[u] = z[u])
    BY <1>7, <1>9, <1>10, <1>11 DEF ReaderUsers
  <2>2. pool'["reader"] = pool["reader"] /\ made'["reader"] = made["reader"]
    BY <1>12
  <2>3. ~again => One(pool["reader"], made["reader"], ReaderUsers', z')
    BY <1>5, <2>1, OneFewer
  <2> QED BY <1>7, <2>2, <2>3
<1>16. Types'
  BY <1>1, <1>7, <1>12 DEF Types
<1>17. \A u \in Users : Role(u)'
  <2>1. SUFFICES ASSUME NEW u \in Users
                 PROVE  Role(u)'
    OBVIOUS
  <2>2. CASE u # w
    BY <1>2, <1>7, <1>9, <2>1, <2>2 DEF Role
  <2>3. CASE u = w
    BY <1>1, <1>2, <1>7, <1>8, <1>9, <2>1, <2>3 DEF Role, Types
  <2> QED BY <2>2, <2>3
<1>18. ~again' => \A u \in Users : Data(u)'
  <2>1. SUFFICES ASSUME ~again, NEW u \in Users
                 PROVE  Data(u)'
    BY <1>7
  <2>2. Data(u) /\ Role(u)
    BY <1>2, <1>6, <2>1
  <2>3. CASE u # w
    <3>1. u \in BufferUsers => bytes'[b[u]] = bytes[b[u]]
      BY <1>7
    <3>2. u \in ReaderUsers => src'[z[u]] = src[z[u]]
      BY <1>7
    <3>3. u \in WriterUsers => dst'[z[u]] = dst[z[u]]
      BY <1>7
    <3>4. /\ upc'[u] = upc[u] /\ round'[u] = round[u] /\ result'[u] = result[u]
          /\ z'[u] = z[u] /\ b'[u] = b[u]
      BY <1>7, <1>9, <2>3
    <3> QED BY <1>1, <2>1, <2>2, <3>1, <3>2, <3>3, <3>4, DataKept
  <2>4. CASE u = w
    <3>1. [user |-> w, round |-> round'[w] - 1] = Owner(w)
      <4>1. round[w] \in Nat /\ round'[w] = round[w] + 1
        BY <1>1, <1>9 DEF Types
      <4>2. round'[w] - 1 = round[w]
        BY <4>1
      <4> QED BY <4>2 DEF Owner
    <3>2. result'[w] = Copies(Chunks, Owner(w))
      BY <1>7, <1>8, <2>2, <2>4 DEF Data
    <3>3. result'[w] \in {<<>>, Copies(Chunks, [user |-> w, round |-> round'[w] - 1])}
      BY <3>1, <3>2
    <3> QED BY <1>9, <2>4, <3>3 DEF Data
  <2> QED BY <2>3, <2>4
<1> QED BY <1>13, <1>14, <1>15, <1>16, <1>17, <1>18 DEF IInv

(* A chunk of a body is read. *)
LEMMA ReadChunkBodyInv ==
  ASSUME IInv, NEW w \in Users, ReadChunk(w), w \in Bodies
  PROVE  IInv'
<1> USE UsersAreDistinct, BoundsAreNat, NoObjectIsNone
<1>1. Types
  BY DEF IInv
<1>2. \A u \in Users : Role(u)
  BY DEF IInv
<1>3. One(pool["buffer"], made["buffer"], BufferUsers, b)
  BY DEF IInv
<1>4. One(pool["writer"], made["writer"], WriterUsers, z)
  BY DEF IInv
<1>5. ~again => One(pool["reader"], made["reader"], ReaderUsers, z)
  BY DEF IInv
<1>6. ~again => \A u \in Users : Data(u)
  BY DEF IInv
<1>7. /\ src' = [src EXCEPT ![z[w]].left = @ - 1]
      /\ result' = [result EXCEPT ![w] = Append(@, src[z[w]].owner)]
      /\ UNCHANGED <<upc, round, z, b, pool, made, dst, bytes, again>>
  BY DEF ReadChunk
<1>8. /\ w \in Bodies /\ upc[w] = "read" /\ z[w] \in Objects /\ src[z[w]].left > 0
      /\ round[w] < MaxRounds[w]
  BY <1>2 DEF ReadChunk, Role, Users
<1>9. /\ result'[w] = Append(result[w], src[z[w]].owner)
      /\ \A u \in Users \ {w} : result'[u] = result[u]
  BY <1>1, <1>7 DEF Types
<1>10. /\ w \notin BufferUsers
       /\ w \notin WriterUsers
       /\ w \in ReaderUsers
  BY <1>8 DEF BufferUsers, WriterUsers, ReaderUsers, Users
<1>11. /\ BufferUsers' = BufferUsers
       /\ WriterUsers' = WriterUsers
       /\ ReaderUsers' = ReaderUsers
  BY <1>7 DEF BufferUsers, WriterUsers, ReaderUsers
<1>12. UNCHANGED <<pool, made>>
  BY <1>7
<1>13. One(pool'["buffer"], made'["buffer"], BufferUsers', b')
  <2>1. BufferUsers' \in SUBSET BufferUsers /\ (\A u \in BufferUsers' : b'[u] = b[u])
    BY <1>7, <1>9, <1>10, <1>11 DEF BufferUsers
  <2>2. pool'["buffer"] = pool["buffer"] /\ made'["buffer"] = made["buffer"]
    BY <1>12
  <2> QED BY <1>3, <2>1, <2>2, OneFewer
<1>14. One(pool'["writer"], made'["writer"], WriterUsers', z')
  <2>1. WriterUsers' \in SUBSET WriterUsers /\ (\A u \in WriterUsers' : z'[u] = z[u])
    BY <1>7, <1>9, <1>10, <1>11 DEF WriterUsers
  <2>2. pool'["writer"] = pool["writer"] /\ made'["writer"] = made["writer"]
    BY <1>12
  <2> QED BY <1>4, <2>1, <2>2, OneFewer
<1>15. ~again' => One(pool'["reader"], made'["reader"], ReaderUsers', z')
  <2>1. ReaderUsers' \in SUBSET ReaderUsers /\ (\A u \in ReaderUsers' : z'[u] = z[u])
    BY <1>7, <1>9, <1>10, <1>11 DEF ReaderUsers
  <2>2. pool'["reader"] = pool["reader"] /\ made'["reader"] = made["reader"]
    BY <1>12
  <2>3. ~again => One(pool["reader"], made["reader"], ReaderUsers', z')
    BY <1>5, <2>1, OneFewer
  <2> QED BY <1>7, <2>2, <2>3
<1>19. /\ src'[z[w]] = [owner |-> src[z[w]].owner, left |-> src[z[w]].left - 1]
       /\ \A p \in Objects \ {z[w]} : src'[p] = src[p]
       /\ src' \in [Objects -> [owner : Owners, left : Nat]]
       /\ src[z[w]].owner \in Owners /\ src[z[w]].left \in Nat
  <2>1. src \in [Objects -> [owner : Owners, left : Nat]] /\ z[w] \in Objects
    BY <1>1, <1>8 DEF Types
  <2>2. src[z[w]] \in [owner : Owners, left : Nat] /\ src[z[w]].left > 0
    BY <1>8, <2>1
  <2>3. src[z[w]].owner \in Owners /\ src[z[w]].left \in Nat /\ src[z[w]].left - 1 \in Nat
    BY <2>2
  <2>4. [src[z[w]] EXCEPT !.left = src[z[w]].left - 1]
          = [owner |-> src[z[w]].owner, left |-> src[z[w]].left - 1]
    BY <2>2
  <2>5. src' = [src EXCEPT ![z[w]] = [src[z[w]] EXCEPT !.left = src[z[w]].left - 1]]
    BY <1>7
  <2>6. src' = [src EXCEPT ![z[w]] = [owner |-> src[z[w]].owner, left |-> src[z[w]].left - 1]]
    BY <2>4, <2>5, Zenon
  <2>7. [owner |-> src[z[w]].owner, left |-> src[z[w]].left - 1] \in [owner : Owners, left : Nat]
    BY <2>3
  <2> QED BY <2>1, <2>3, <2>6, <2>7, UpdateAt
<1>16. Types'
  <2>1. result' \in [Users -> Seq(Owners)]
    BY <1>1, <1>7, <1>19 DEF Types
  <2> QED BY <1>1, <1>7, <1>12, <1>19, <2>1 DEF Types
<1>17. \A u \in Users : Role(u)'
  <2>1. SUFFICES ASSUME NEW u \in Users
                 PROVE  Role(u)'
    OBVIOUS
  <2>2. CASE u # w
    BY <1>2, <1>7, <1>9, <2>1, <2>2 DEF Role
  <2>3. CASE u = w
    BY <1>1, <1>2, <1>7, <1>8, <1>9, <2>1, <2>3 DEF Role, Types
  <2> QED BY <2>2, <2>3
<1>18. ~again' => \A u \in Users : Data(u)'
  <2>1. SUFFICES ASSUME ~again, NEW u \in Users
                 PROVE  Data(u)'
    BY <1>7
  <2>2. Data(u) /\ Role(u)
    BY <1>2, <1>6, <2>1
  <2>3. CASE u # w
    <3>1. u \in BufferUsers => bytes'[b[u]] = bytes[b[u]]
      BY <1>7
    <3>2. u \in ReaderUsers => src'[z[u]] = src[z[u]]
      <4>1. u \in ReaderUsers => z[u] # z[w] /\ z[u] \in Objects
        BY <1>2, <1>5, <1>10, <2>1, <2>3 DEF One, Role, ReaderUsers
      <4> QED BY <1>19, <4>1
    <3>3. u \in WriterUsers => dst'[z[u]] = dst[z[u]]
      BY <1>7
    <3>4. /\ upc'[u] = upc[u] /\ round'[u] = round[u] /\ result'[u] = result[u]
          /\ z'[u] = z[u] /\ b'[u] = b[u]
      BY <1>7, <1>9, <2>3
    <3> QED BY <1>1, <2>1, <2>2, <3>1, <3>2, <3>3, <3>4, DataKept
  <2>4. CASE u = w
    <3>1. /\ src[z[w]].owner = Owner(w) /\ src[z[w]].left <= Chunks
          /\ result[w] = Copies(Chunks - src[z[w]].left, Owner(w))
      BY <1>8, <2>2, <2>4 DEF Data
    <3>2. Append(result[w], Owner(w)) = Copies(Chunks - src'[z[w]].left, Owner(w))
      <4>1. Chunks - src[z[w]].left \in Nat
        BY <1>19, <3>1
      <4>2. src'[z[w]].left = src[z[w]].left - 1
        BY <1>19
      <4>3. Chunks - src'[z[w]].left = (Chunks - src[z[w]].left) + 1
        BY <1>19, <4>2
      <4> QED BY <3>1, <4>1, <4>3, CopiesAppend
    <3>3. result'[w] = Copies(Chunks - src'[z'[w]].left, Owner(w)')
      BY <1>7, <1>9, <3>1, <3>2 DEF Owner
    <3>4. src'[z'[w]].owner = Owner(w)' /\ src'[z'[w]].left <= Chunks
      BY <1>7, <1>19, <3>1 DEF Owner
    <3>5. upc'[w] = "read"
      BY <1>7, <1>8, <3>1
    <3> QED BY <1>8, <2>4, <3>3, <3>4, <3>5 DEF Data
  <2> QED BY <2>3, <2>4
<1> QED BY <1>13, <1>14, <1>15, <1>16, <1>17, <1>18 DEF IInv

(* A chunk of a message is read into its buffer. *)
LEMMA ReadChunkMessageInv ==
  ASSUME IInv, NEW w \in Users, ReadChunk(w), w \notin Bodies
  PROVE  IInv'
<1> USE UsersAreDistinct, BoundsAreNat, NoObjectIsNone
<1>1. Types
  BY DEF IInv
<1>2. \A u \in Users : Role(u)
  BY DEF IInv
<1>3. One(pool["buffer"], made["buffer"], BufferUsers, b)
  BY DEF IInv
<1>4. One(pool["writer"], made["writer"], WriterUsers, z)
  BY DEF IInv
<1>5. ~again => One(pool["reader"], made["reader"], ReaderUsers, z)
  BY DEF IInv
<1>6. ~again => \A u \in Users : Data(u)
  BY DEF IInv
<1>7. /\ src' = [src EXCEPT ![z[w]].left = @ - 1]
      /\ bytes' = [bytes EXCEPT ![b[w]] = Append(@, src[z[w]].owner)]
      /\ UNCHANGED <<upc, round, z, b, result, pool, made, dst, again>>
  BY DEF ReadChunk
<1>8. /\ w \notin Bodies /\ upc[w] = "read" /\ z[w] \in Objects /\ src[z[w]].left > 0
      /\ b[w] \in Objects
      /\ round[w] < MaxRounds[w]
  BY <1>2 DEF ReadChunk, Role, Users
<1>9. UNCHANGED <<upc, round, z, b, result>>
  BY <1>7
<1>10. /\ w \in BufferUsers
       /\ w \notin WriterUsers
       /\ w \in ReaderUsers
  BY <1>8 DEF BufferUsers, WriterUsers, ReaderUsers, Users
<1>11. /\ BufferUsers' = BufferUsers
       /\ WriterUsers' = WriterUsers
       /\ ReaderUsers' = ReaderUsers
  BY <1>7 DEF BufferUsers, WriterUsers, ReaderUsers
<1>12. UNCHANGED <<pool, made>>
  BY <1>7
<1>13. One(pool'["buffer"], made'["buffer"], BufferUsers', b')
  <2>1. BufferUsers' \in SUBSET BufferUsers /\ (\A u \in BufferUsers' : b'[u] = b[u])
    BY <1>7, <1>9, <1>10, <1>11 DEF BufferUsers
  <2>2. pool'["buffer"] = pool["buffer"] /\ made'["buffer"] = made["buffer"]
    BY <1>12
  <2> QED BY <1>3, <2>1, <2>2, OneFewer
<1>14. One(pool'["writer"], made'["writer"], WriterUsers', z')
  <2>1. WriterUsers' \in SUBSET WriterUsers /\ (\A u \in WriterUsers' : z'[u] = z[u])
    BY <1>7, <1>9, <1>10, <1>11 DEF WriterUsers
  <2>2. pool'["writer"] = pool["writer"] /\ made'["writer"] = made["writer"]
    BY <1>12
  <2> QED BY <1>4, <2>1, <2>2, OneFewer
<1>15. ~again' => One(pool'["reader"], made'["reader"], ReaderUsers', z')
  <2>1. ReaderUsers' \in SUBSET ReaderUsers /\ (\A u \in ReaderUsers' : z'[u] = z[u])
    BY <1>7, <1>9, <1>10, <1>11 DEF ReaderUsers
  <2>2. pool'["reader"] = pool["reader"] /\ made'["reader"] = made["reader"]
    BY <1>12
  <2>3. ~again => One(pool["reader"], made["reader"], ReaderUsers', z')
    BY <1>5, <2>1, OneFewer
  <2> QED BY <1>7, <2>2, <2>3
<1>19. /\ src'[z[w]] = [owner |-> src[z[w]].owner, left |-> src[z[w]].left - 1]
       /\ \A p \in Objects \ {z[w]} : src'[p] = src[p]
       /\ src' \in [Objects -> [owner : Owners, left : Nat]]
       /\ src[z[w]].owner \in Owners /\ src[z[w]].left \in Nat
  <2>1. src \in [Objects -> [owner : Owners, left : Nat]] /\ z[w] \in Objects
    BY <1>1, <1>8 DEF Types
  <2>2. src[z[w]] \in [owner : Owners, left : Nat] /\ src[z[w]].left > 0
    BY <1>8, <2>1
  <2>3. src[z[w]].owner \in Owners /\ src[z[w]].left \in Nat /\ src[z[w]].left - 1 \in Nat
    BY <2>2
  <2>4. [src[z[w]] EXCEPT !.left = src[z[w]].left - 1]
          = [owner |-> src[z[w]].owner, left |-> src[z[w]].left - 1]
    BY <2>2
  <2>5. src' = [src EXCEPT ![z[w]] = [src[z[w]] EXCEPT !.left = src[z[w]].left - 1]]
    BY <1>7
  <2>6. src' = [src EXCEPT ![z[w]] = [owner |-> src[z[w]].owner, left |-> src[z[w]].left - 1]]
    BY <2>4, <2>5, Zenon
  <2>7. [owner |-> src[z[w]].owner, left |-> src[z[w]].left - 1] \in [owner : Owners, left : Nat]
    BY <2>3
  <2> QED BY <2>1, <2>3, <2>6, <2>7, UpdateAt
<1>20. /\ bytes'[b[w]] = Append(bytes[b[w]], src[z[w]].owner)
       /\ \A p \in Objects \ {b[w]} : bytes'[p] = bytes[p]
       /\ bytes' \in [Objects -> Seq(Owners)]
  BY <1>1, <1>7, <1>8, <1>19 DEF Types
<1>16. Types'
  BY <1>1, <1>7, <1>12, <1>19, <1>20 DEF Types
<1>17. \A u \in Users : Role(u)'
  <2>1. SUFFICES ASSUME NEW u \in Users
                 PROVE  Role(u)'
    OBVIOUS
  <2>2. CASE u # w
    BY <1>2, <1>7, <1>9, <2>1, <2>2 DEF Role
  <2>3. CASE u = w
    BY <1>1, <1>2, <1>7, <1>8, <1>9, <2>1, <2>3 DEF Role, Types
  <2> QED BY <2>2, <2>3
<1>18. ~again' => \A u \in Users : Data(u)'
  <2>1. SUFFICES ASSUME ~again, NEW u \in Users
                 PROVE  Data(u)'
    BY <1>7
  <2>2. Data(u) /\ Role(u)
    BY <1>2, <1>6, <2>1
  <2>3. CASE u # w
    <3>1. u \in BufferUsers => bytes'[b[u]] = bytes[b[u]]
      <4>1. u \in BufferUsers => b[u] # b[w] /\ b[u] \in Objects
        BY <1>2, <1>3, <1>10, <2>3 DEF One, Role, BufferUsers
      <4> QED BY <1>20, <4>1
    <3>2. u \in ReaderUsers => src'[z[u]] = src[z[u]]
      <4>1. u \in ReaderUsers => z[u] # z[w] /\ z[u] \in Objects
        BY <1>2, <1>5, <1>10, <2>1, <2>3 DEF One, Role, ReaderUsers
      <4> QED BY <1>19, <4>1
    <3>3. u \in WriterUsers => dst'[z[u]] = dst[z[u]]
      BY <1>7
    <3>4. /\ upc'[u] = upc[u] /\ round'[u] = round[u] /\ result'[u] = result[u]
          /\ z'[u] = z[u] /\ b'[u] = b[u]
      BY <1>7, <1>9, <2>3
    <3> QED BY <1>1, <2>1, <2>2, <3>1, <3>2, <3>3, <3>4, DataKept
  <2>4. CASE u = w
    <3>1. /\ src[z[w]].owner = Owner(w) /\ src[z[w]].left <= Chunks
          /\ bytes[b[w]] = Copies(Chunks - src[z[w]].left, Owner(w)) /\ result[w] = <<>>
      BY <1>8, <2>2, <2>4 DEF Data
    <3>2. Append(bytes[b[w]], Owner(w)) = Copies(Chunks - src'[z[w]].left, Owner(w))
      <4>1. Chunks - src[z[w]].left \in Nat
        BY <1>19, <3>1
      <4>2. src'[z[w]].left = src[z[w]].left - 1
        BY <1>19
      <4>3. Chunks - src'[z[w]].left = (Chunks - src[z[w]].left) + 1
        BY <1>19, <4>2
      <4> QED BY <3>1, <4>1, <4>3, CopiesAppend
    <3>3. bytes'[b'[w]] = Copies(Chunks - src'[z'[w]].left, Owner(w)')
      BY <1>7, <1>9, <1>20, <3>1, <3>2 DEF Owner
    <3>4. src'[z'[w]].owner = Owner(w)' /\ src'[z'[w]].left <= Chunks
      BY <1>7, <1>19, <3>1 DEF Owner
    <3>5. upc'[w] = "read" /\ result'[w] = <<>>
      BY <1>7, <1>8, <3>1
    <3> QED BY <1>8, <2>4, <3>3, <3>4, <3>5 DEF Data
  <2> QED BY <2>3, <2>4
<1> QED BY <1>13, <1>14, <1>15, <1>16, <1>17, <1>18 DEF IInv

(* A body is read after io.EOF, and its reader has data. *)
LEMMA ReadAgainDataInv ==
  ASSUME IInv, NEW w \in Users, ReadAgain(w), src[z[w]].left > 0
  PROVE  IInv'
<1> USE UsersAreDistinct, BoundsAreNat, NoObjectIsNone
<1>1. Types
  BY DEF IInv
<1>2. \A u \in Users : Role(u)
  BY DEF IInv
<1>3. One(pool["buffer"], made["buffer"], BufferUsers, b)
  BY DEF IInv
<1>4. One(pool["writer"], made["writer"], WriterUsers, z)
  BY DEF IInv
<1>5. ~again => One(pool["reader"], made["reader"], ReaderUsers, z)
  BY DEF IInv
<1>6. ~again => \A u \in Users : Data(u)
  BY DEF IInv
<1>7. /\ src' = [src EXCEPT ![z[w]].left = @ - 1]
      /\ result' = [result EXCEPT ![w] = Append(@, src[z[w]].owner)]
      /\ again' = TRUE
      /\ UNCHANGED <<upc, round, z, b, pool, made, dst, bytes>>
  BY DEF ReadAgain
<1>8. /\ w \in Bodies /\ upc[w] = "eof" /\ z[w] \in Objects /\ src[z[w]].left > 0
      /\ round[w] < MaxRounds[w]
  BY <1>2 DEF ReadAgain, Role, Users
<1>9. /\ result'[w] = Append(result[w], src[z[w]].owner)
      /\ \A u \in Users \ {w} : result'[u] = result[u]
  BY <1>1, <1>7 DEF Types
<1>10. /\ w \notin BufferUsers
       /\ w \notin WriterUsers
       /\ w \notin ReaderUsers
  BY <1>8 DEF BufferUsers, WriterUsers, ReaderUsers, Users
<1>11. /\ BufferUsers' = BufferUsers
       /\ WriterUsers' = WriterUsers
       /\ ReaderUsers' = ReaderUsers
  BY <1>7 DEF BufferUsers, WriterUsers, ReaderUsers
<1>12. UNCHANGED <<pool, made>>
  BY <1>7
<1>13. One(pool'["buffer"], made'["buffer"], BufferUsers', b')
  <2>1. BufferUsers' \in SUBSET BufferUsers /\ (\A u \in BufferUsers' : b'[u] = b[u])
    BY <1>7, <1>9, <1>10, <1>11 DEF BufferUsers
  <2>2. pool'["buffer"] = pool["buffer"] /\ made'["buffer"] = made["buffer"]
    BY <1>12
  <2> QED BY <1>3, <2>1, <2>2, OneFewer
<1>14. One(pool'["writer"], made'["writer"], WriterUsers', z')
  <2>1. WriterUsers' \in SUBSET WriterUsers /\ (\A u \in WriterUsers' : z'[u] = z[u])
    BY <1>7, <1>9, <1>10, <1>11 DEF WriterUsers
  <2>2. pool'["writer"] = pool["writer"] /\ made'["writer"] = made["writer"]
    BY <1>12
  <2> QED BY <1>4, <2>1, <2>2, OneFewer
<1>15. again'
  BY <1>7
<1>19. /\ src'[z[w]] = [owner |-> src[z[w]].owner, left |-> src[z[w]].left - 1]
       /\ \A p \in Objects \ {z[w]} : src'[p] = src[p]
       /\ src' \in [Objects -> [owner : Owners, left : Nat]]
       /\ src[z[w]].owner \in Owners /\ src[z[w]].left \in Nat
  <2>1. src \in [Objects -> [owner : Owners, left : Nat]] /\ z[w] \in Objects
    BY <1>1, <1>8 DEF Types
  <2>2. src[z[w]] \in [owner : Owners, left : Nat] /\ src[z[w]].left > 0
    BY <1>8, <2>1
  <2>3. src[z[w]].owner \in Owners /\ src[z[w]].left \in Nat /\ src[z[w]].left - 1 \in Nat
    BY <2>2
  <2>4. [src[z[w]] EXCEPT !.left = src[z[w]].left - 1]
          = [owner |-> src[z[w]].owner, left |-> src[z[w]].left - 1]
    BY <2>2
  <2>5. src' = [src EXCEPT ![z[w]] = [src[z[w]] EXCEPT !.left = src[z[w]].left - 1]]
    BY <1>7
  <2>6. src' = [src EXCEPT ![z[w]] = [owner |-> src[z[w]].owner, left |-> src[z[w]].left - 1]]
    BY <2>4, <2>5, Zenon
  <2>7. [owner |-> src[z[w]].owner, left |-> src[z[w]].left - 1] \in [owner : Owners, left : Nat]
    BY <2>3
  <2> QED BY <2>1, <2>3, <2>6, <2>7, UpdateAt
<1>16. Types'
  <2>1. result' \in [Users -> Seq(Owners)]
    BY <1>1, <1>7, <1>19 DEF Types
  <2> QED BY <1>1, <1>7, <1>12, <1>19, <2>1 DEF Types
<1>17. \A u \in Users : Role(u)'
  <2>1. SUFFICES ASSUME NEW u \in Users
                 PROVE  Role(u)'
    OBVIOUS
  <2>2. CASE u # w
    BY <1>2, <1>7, <1>9, <2>1, <2>2 DEF Role
  <2>3. CASE u = w
    BY <1>1, <1>2, <1>7, <1>8, <1>9, <2>1, <2>3 DEF Role, Types
  <2> QED BY <2>2, <2>3
<1>18. ~again' => \A u \in Users : Data(u)'
  BY <1>15
<1> QED BY <1>13, <1>14, <1>15, <1>16, <1>17, <1>18 DEF IInv

(* A body is read after io.EOF, and its reader goes back once more. *)
LEMMA ReadAgainEOFInv ==
  ASSUME IInv, NEW w \in Users, ReadAgain(w), ~(src[z[w]].left > 0)
  PROVE  IInv'
<1> USE UsersAreDistinct, BoundsAreNat, NoObjectIsNone
<1>1. Types
  BY DEF IInv
<1>2. \A u \in Users : Role(u)
  BY DEF IInv
<1>3. One(pool["buffer"], made["buffer"], BufferUsers, b)
  BY DEF IInv
<1>4. One(pool["writer"], made["writer"], WriterUsers, z)
  BY DEF IInv
<1>5. ~again => One(pool["reader"], made["reader"], ReaderUsers, z)
  BY DEF IInv
<1>6. ~again => \A u \in Users : Data(u)
  BY DEF IInv
<1>7. /\ again' = TRUE
      /\ UNCHANGED <<upc, round, z, b, result, src, dst, bytes>>
  BY DEF ReadAgain
<1>8. /\ w \in Bodies /\ upc[w] = "eof" /\ z[w] \in Objects
      /\ Put("reader", z[w])
      /\ round[w] < MaxRounds[w]
  BY <1>2 DEF ReadAgain, Role, Users
<1>9. UNCHANGED <<upc, round, z, b, result>>
  BY <1>7
<1>10. /\ w \notin BufferUsers
       /\ w \notin WriterUsers
       /\ w \notin ReaderUsers
  BY <1>8 DEF BufferUsers, WriterUsers, ReaderUsers, Users
<1>11. /\ BufferUsers' = BufferUsers
       /\ WriterUsers' = WriterUsers
       /\ ReaderUsers' = ReaderUsers
  BY <1>7 DEF BufferUsers, WriterUsers, ReaderUsers
<1>12. /\ pool' \in [Kinds -> [Objects -> Nat]]
       /\ made' \in [Kinds -> SUBSET Objects]
       /\ pool'["buffer"] = pool["buffer"] /\ made'["buffer"] = made["buffer"]
       /\ pool'["writer"] = pool["writer"] /\ made'["writer"] = made["writer"]
  <2>1. "reader" \in Kinds /\ "buffer" \in Kinds \ {"reader"} /\ "writer" \in Kinds \ {"reader"}
    BY DEF Kinds
  <2> QED BY <1>1, <1>8, <2>1, PutOne DEF Types
<1>13. One(pool'["buffer"], made'["buffer"], BufferUsers', b')
  <2>1. BufferUsers' \in SUBSET BufferUsers /\ (\A u \in BufferUsers' : b'[u] = b[u])
    BY <1>7, <1>9, <1>10, <1>11 DEF BufferUsers
  <2>2. pool'["buffer"] = pool["buffer"] /\ made'["buffer"] = made["buffer"]
    BY <1>12
  <2> QED BY <1>3, <2>1, <2>2, OneFewer
<1>14. One(pool'["writer"], made'["writer"], WriterUsers', z')
  <2>1. WriterUsers' \in SUBSET WriterUsers /\ (\A u \in WriterUsers' : z'[u] = z[u])
    BY <1>7, <1>9, <1>10, <1>11 DEF WriterUsers
  <2>2. pool'["writer"] = pool["writer"] /\ made'["writer"] = made["writer"]
    BY <1>12
  <2> QED BY <1>4, <2>1, <2>2, OneFewer
<1>15. again'
  BY <1>7
<1>16. Types'
  BY <1>1, <1>7, <1>12 DEF Types
<1>17. \A u \in Users : Role(u)'
  <2>1. SUFFICES ASSUME NEW u \in Users
                 PROVE  Role(u)'
    OBVIOUS
  <2>2. CASE u # w
    BY <1>2, <1>7, <1>9, <2>1, <2>2 DEF Role
  <2>3. CASE u = w
    BY <1>1, <1>2, <1>7, <1>8, <1>9, <2>1, <2>3 DEF Role, Types
  <2> QED BY <2>2, <2>3
<1>18. ~again' => \A u \in Users : Data(u)'
  BY <1>15
<1> QED BY <1>13, <1>14, <1>15, <1>16, <1>17, <1>18 DEF IInv

(* Compress: a writer for the message of w. *)
LEMMA CompressInv ==
  ASSUME IInv, NEW w \in Users, NEW o \in Objects, Compress(w, o)
  PROVE  IInv'
<1> USE UsersAreDistinct, BoundsAreNat, NoObjectIsNone
<1>1. Types
  BY DEF IInv
<1>2. \A u \in Users : Role(u)
  BY DEF IInv
<1>3. One(pool["buffer"], made["buffer"], BufferUsers, b)
  BY DEF IInv
<1>4. One(pool["writer"], made["writer"], WriterUsers, z)
  BY DEF IInv
<1>5. ~again => One(pool["reader"], made["reader"], ReaderUsers, z)
  BY DEF IInv
<1>6. ~again => \A u \in Users : Data(u)
  BY DEF IInv
<1>7. /\ z' = [z EXCEPT ![w] = o]
      /\ dst' = [dst EXCEPT ![o] = [to |-> b[w], held |-> <<>>]]
      /\ upc' = [upc EXCEPT ![w] = "write"]
      /\ UNCHANGED <<round, b, result, src, bytes, again>>
  BY DEF Compress, Goes
<1>8. /\ w \notin Bodies /\ w \in Senders /\ upc[w] = "open" /\ b[w] \in Objects
      /\ round[w] < MaxRounds[w]
      /\ Gets("writer", o)
  BY <1>2 DEF Compress, Role, Users, Goes
<1>9. /\ z'[w] = o
      /\ upc'[w] = "write"
      /\ \A u \in Users \ {w} : z'[u] = z[u] /\ upc'[u] = upc[u]
  BY <1>1, <1>7 DEF Types
<1>10. /\ w \in BufferUsers
       /\ w \notin WriterUsers
       /\ w \notin ReaderUsers
  BY <1>8 DEF BufferUsers, WriterUsers, ReaderUsers, Users
<1>11. /\ BufferUsers' = BufferUsers
       /\ WriterUsers' = WriterUsers \cup {w}
       /\ ReaderUsers' = ReaderUsers
  <2>1. /\ BufferUsers' = BufferUsers \cup {w}
        /\ WriterUsers' = WriterUsers \cup {w}
        /\ ReaderUsers' = ReaderUsers \ {w}
    <3>1. upc'[w] = "write" /\ (\A u \in Users \ {w} : upc'[u] = upc[u])
      BY <1>9
    <3> QED BY <1>8, <3>1, UsersMove
  <2> QED BY <1>10, <2>1, SetMove
<1>12. /\ pool' \in [Kinds -> [Objects -> Nat]]
       /\ made' \in [Kinds -> SUBSET Objects]
       /\ pool'["buffer"] = pool["buffer"] /\ made'["buffer"] = made["buffer"]
       /\ pool'["reader"] = pool["reader"] /\ made'["reader"] = made["reader"]
  <2>1. "writer" \in Kinds /\ "buffer" \in Kinds \ {"writer"} /\ "reader" \in Kinds \ {"writer"}
    BY DEF Kinds
  <2> QED BY <1>1, <1>8, <2>1, GetsOne DEF Types
<1>13. One(pool'["buffer"], made'["buffer"], BufferUsers', b')
  <2>1. BufferUsers' \in SUBSET BufferUsers /\ (\A u \in BufferUsers' : b'[u] = b[u])
    BY <1>7, <1>9, <1>10, <1>11 DEF BufferUsers
  <2>2. pool'["buffer"] = pool["buffer"] /\ made'["buffer"] = made["buffer"]
    BY <1>12
  <2> QED BY <1>3, <2>1, <2>2, OneFewer
<1>14. One(pool'["writer"], made'["writer"], WriterUsers', z') /\ (\A u \in WriterUsers : z[u] # o)
  <2>1. w \notin WriterUsers /\ z'[w] = o /\ (\A u \in WriterUsers : z'[u] = z[u])
    BY <1>9, <1>10 DEF WriterUsers
  <2>2. "writer" \in Kinds /\ WriterUsers' = WriterUsers \cup {w}
    BY <1>11 DEF Kinds
  <2>3. Gets("writer", o)
    BY <1>7, <1>8
  <2>4. /\ \A S, h, u, hh :
             One(pool["writer"], made["writer"], S, h) /\ u \notin S /\ hh[u] = o
               /\ (\A v \in S : hh[v] = h[v])
             => One(pool'["writer"], made'["writer"], S \cup {u}, hh)
        /\ \A S, h : One(pool["writer"], made["writer"], S, h) => \A v \in S : h[v] # o
    BY <1>1, <2>2, <2>3, GetsOne
  <2> QED BY <1>4, <2>1, <2>2, <2>3, <2>4
<1>15. ~again' => One(pool'["reader"], made'["reader"], ReaderUsers', z')
  <2>1. ReaderUsers' \in SUBSET ReaderUsers /\ (\A u \in ReaderUsers' : z'[u] = z[u])
    BY <1>7, <1>9, <1>10, <1>11 DEF ReaderUsers
  <2>2. pool'["reader"] = pool["reader"] /\ made'["reader"] = made["reader"]
    BY <1>12
  <2>3. ~again => One(pool["reader"], made["reader"], ReaderUsers', z')
    BY <1>5, <2>1, OneFewer
  <2> QED BY <1>7, <2>2, <2>3
<1>16. Types'
  <2>1. [to |-> b[w], held |-> <<>>] \in [to : Objects \cup {NoObject}, held : Seq(Owners)]
    BY <1>8
  <2> QED BY <1>1, <1>7, <1>12, <2>1 DEF Types
<1>17. \A u \in Users : Role(u)'
  <2>1. SUFFICES ASSUME NEW u \in Users
                 PROVE  Role(u)'
    OBVIOUS
  <2>2. CASE u # w
    BY <1>2, <1>7, <1>9, <2>1, <2>2 DEF Role
  <2>3. CASE u = w
    BY <1>1, <1>2, <1>7, <1>8, <1>9, <2>1, <2>3 DEF Role, Types
  <2> QED BY <2>2, <2>3
<1>18. ~again' => \A u \in Users : Data(u)'
  <2>1. SUFFICES ASSUME ~again, NEW u \in Users
                 PROVE  Data(u)'
    BY <1>7
  <2>2. Data(u) /\ Role(u)
    BY <1>2, <1>6, <2>1
  <2>3. CASE u # w
    <3>1. u \in BufferUsers => bytes'[b[u]] = bytes[b[u]]
      BY <1>7
    <3>2. u \in ReaderUsers => src'[z[u]] = src[z[u]]
      BY <1>7
    <3>3. u \in WriterUsers => dst'[z[u]] = dst[z[u]]
      BY <1>1, <1>2, <1>7, <1>14 DEF Types, Role, WriterUsers
    <3>4. /\ upc'[u] = upc[u] /\ round'[u] = round[u] /\ result'[u] = result[u]
          /\ z'[u] = z[u] /\ b'[u] = b[u]
      BY <1>7, <1>9, <2>3
    <3> QED BY <1>1, <2>1, <2>2, <3>1, <3>2, <3>3, <3>4, DataKept
  <2>4. CASE u = w
    <3>1. dst'[o] = [to |-> b[w], held |-> <<>>]
      BY <1>1, <1>7 DEF Types
    <3>2. bytes'[b'[w]] = <<>> /\ dst'[z'[w]].to = b'[w] /\ dst'[z'[w]].held = <<>>
      BY <1>7, <1>8, <1>9, <2>2, <2>4, <3>1 DEF Data
    <3>3. result'[w] \in {<<>>, Copies(Chunks, [user |-> w, round |-> round'[w] - 1])}
      BY <1>7, <1>8, <2>2, <2>4 DEF Data
    <3> QED BY <1>9, <2>4, <3>2, <3>3 DEF Data
  <2> QED BY <2>3, <2>4
<1> QED BY <1>13, <1>14, <1>15, <1>16, <1>17, <1>18 DEF IInv

(* Write: the writer holds the message back. *)
LEMMA WriteInv ==
  ASSUME IInv, NEW w \in Users, Write(w)
  PROVE  IInv'
<1> USE UsersAreDistinct, BoundsAreNat, NoObjectIsNone
<1>1. Types
  BY DEF IInv
<1>2. \A u \in Users : Role(u)
  BY DEF IInv
<1>3. One(pool["buffer"], made["buffer"], BufferUsers, b)
  BY DEF IInv
<1>4. One(pool["writer"], made["writer"], WriterUsers, z)
  BY DEF IInv
<1>5. ~again => One(pool["reader"], made["reader"], ReaderUsers, z)
  BY DEF IInv
<1>6. ~again => \A u \in Users : Data(u)
  BY DEF IInv
<1>7. /\ dst' = [dst EXCEPT ![z[w]].held = @ \o [i \in 1 .. Chunks |-> Owner(w)]]
      /\ upc' = [upc EXCEPT ![w] = "close"]
      /\ UNCHANGED <<round, z, b, result, pool, made, src, bytes, again>>
  BY DEF Write, Goes
<1>8. /\ w \notin Bodies /\ upc[w] = "write" /\ z[w] \in Objects /\ b[w] \in Objects
      /\ round[w] < MaxRounds[w]
  BY <1>2 DEF Write, Role, Users, Goes
<1>9. /\ upc'[w] = "close"
      /\ \A u \in Users \ {w} : upc'[u] = upc[u]
  BY <1>1, <1>7 DEF Types
<1>10. /\ w \in BufferUsers
       /\ w \in WriterUsers
       /\ w \notin ReaderUsers
  BY <1>8 DEF BufferUsers, WriterUsers, ReaderUsers, Users
<1>11. /\ BufferUsers' = BufferUsers
       /\ WriterUsers' = WriterUsers
       /\ ReaderUsers' = ReaderUsers
  <2>1. /\ BufferUsers' = BufferUsers \cup {w}
        /\ WriterUsers' = WriterUsers \cup {w}
        /\ ReaderUsers' = ReaderUsers \ {w}
    <3>1. upc'[w] = "close" /\ (\A u \in Users \ {w} : upc'[u] = upc[u])
      BY <1>9
    <3> QED BY <1>8, <3>1, UsersMove
  <2> QED BY <1>10, <2>1, SetMove
<1>12. UNCHANGED <<pool, made>>
  BY <1>7
<1>13. One(pool'["buffer"], made'["buffer"], BufferUsers', b')
  <2>1. BufferUsers' \in SUBSET BufferUsers /\ (\A u \in BufferUsers' : b'[u] = b[u])
    BY <1>7, <1>9, <1>10, <1>11 DEF BufferUsers
  <2>2. pool'["buffer"] = pool["buffer"] /\ made'["buffer"] = made["buffer"]
    BY <1>12
  <2> QED BY <1>3, <2>1, <2>2, OneFewer
<1>14. One(pool'["writer"], made'["writer"], WriterUsers', z')
  <2>1. WriterUsers' \in SUBSET WriterUsers /\ (\A u \in WriterUsers' : z'[u] = z[u])
    BY <1>7, <1>9, <1>10, <1>11 DEF WriterUsers
  <2>2. pool'["writer"] = pool["writer"] /\ made'["writer"] = made["writer"]
    BY <1>12
  <2> QED BY <1>4, <2>1, <2>2, OneFewer
<1>15. ~again' => One(pool'["reader"], made'["reader"], ReaderUsers', z')
  <2>1. ReaderUsers' \in SUBSET ReaderUsers /\ (\A u \in ReaderUsers' : z'[u] = z[u])
    BY <1>7, <1>9, <1>10, <1>11 DEF ReaderUsers
  <2>2. pool'["reader"] = pool["reader"] /\ made'["reader"] = made["reader"]
    BY <1>12
  <2>3. ~again => One(pool["reader"], made["reader"], ReaderUsers', z')
    BY <1>5, <2>1, OneFewer
  <2> QED BY <1>7, <2>2, <2>3
<1>19. /\ dst'[z[w]] = [to |-> dst[z[w]].to, held |-> dst[z[w]].held \o Copies(Chunks, Owner(w))]
       /\ \A p \in Objects \ {z[w]} : dst'[p] = dst[p]
       /\ dst' \in [Objects -> [to : Objects \cup {NoObject}, held : Seq(Owners)]]
       /\ dst[z[w]].to \in Objects \cup {NoObject} /\ dst[z[w]].held \in Seq(Owners)
  <2>1. /\ dst \in [Objects -> [to : Objects \cup {NoObject}, held : Seq(Owners)]]
        /\ z[w] \in Objects
    BY <1>1, <1>8 DEF Types
  <2>2. dst[z[w]] \in [to : Objects \cup {NoObject}, held : Seq(Owners)]
    BY <2>1
  <2>3. dst[z[w]].held \o Copies(Chunks, Owner(w)) \in Seq(Owners)
    <3>1. Owner(w) \in Owners
      BY <1>1 DEF Owner, Owners, Types
    <3>2. Copies(Chunks, Owner(w)) \in Seq(Owners) /\ dst[z[w]].held \in Seq(Owners)
      BY <2>2, <3>1, CopiesSeq
    <3> QED BY <3>2
  <2>4. [dst[z[w]] EXCEPT !.held = dst[z[w]].held \o Copies(Chunks, Owner(w))]
          = [to |-> dst[z[w]].to, held |-> dst[z[w]].held \o Copies(Chunks, Owner(w))]
    <3>1. PICK x : x = dst[z[w]].held \o Copies(Chunks, Owner(w))
      OBVIOUS
    <3>2. [dst[z[w]] EXCEPT !.held = x] = [to |-> dst[z[w]].to, held |-> x]
      BY <2>2, HeldExcept
    <3> QED BY <3>1, <3>2
  <2>5. dst' = [dst EXCEPT ![z[w]] = [dst[z[w]] EXCEPT !.held = dst[z[w]].held \o Copies(Chunks, Owner(w))]]
    BY <1>7 DEF Copies
  <2>6. dst' = [dst EXCEPT ![z[w]] = [to |-> dst[z[w]].to, held |-> dst[z[w]].held \o Copies(Chunks, Owner(w))]]
    BY <2>4, <2>5, Zenon
  <2>7. /\ [to |-> dst[z[w]].to, held |-> dst[z[w]].held \o Copies(Chunks, Owner(w))]
             \in [to : Objects \cup {NoObject}, held : Seq(Owners)]
        /\ dst[z[w]].to \in Objects \cup {NoObject} /\ dst[z[w]].held \in Seq(Owners)
    BY <2>2, <2>3
  <2> QED BY <2>1, <2>6, <2>7, UpdateAt
<1>16. Types'
  BY <1>1, <1>7, <1>12, <1>19 DEF Types
<1>17. \A u \in Users : Role(u)'
  <2>1. SUFFICES ASSUME NEW u \in Users
                 PROVE  Role(u)'
    OBVIOUS
  <2>2. CASE u # w
    BY <1>2, <1>7, <1>9, <2>1, <2>2 DEF Role
  <2>3. CASE u = w
    BY <1>1, <1>2, <1>7, <1>8, <1>9, <2>1, <2>3 DEF Role, Types
  <2> QED BY <2>2, <2>3
<1>18. ~again' => \A u \in Users : Data(u)'
  <2>1. SUFFICES ASSUME ~again, NEW u \in Users
                 PROVE  Data(u)'
    BY <1>7
  <2>2. Data(u) /\ Role(u)
    BY <1>2, <1>6, <2>1
  <2>3. CASE u # w
    <3>1. u \in BufferUsers => bytes'[b[u]] = bytes[b[u]]
      BY <1>7
    <3>2. u \in ReaderUsers => src'[z[u]] = src[z[u]]
      BY <1>7
    <3>3. u \in WriterUsers => dst'[z[u]] = dst[z[u]]
      <4>1. u \in WriterUsers => z[u] # z[w] /\ z[u] \in Objects
        BY <1>2, <1>4, <1>10, <2>3 DEF One, Role, WriterUsers
      <4> QED BY <1>19, <4>1
    <3>4. /\ upc'[u] = upc[u] /\ round'[u] = round[u] /\ result'[u] = result[u]
          /\ z'[u] = z[u] /\ b'[u] = b[u]
      BY <1>7, <1>9, <2>3
    <3> QED BY <1>1, <2>1, <2>2, <3>1, <3>2, <3>3, <3>4, DataKept
  <2>4. CASE u = w
    <3>1. bytes[b[w]] = <<>> /\ dst[z[w]].to = b[w] /\ dst[z[w]].held = <<>>
      BY <1>8, <2>2, <2>4 DEF Data
    <3>2. <<>> \o Copies(Chunks, Owner(w)) = Copies(Chunks, Owner(w))
      <4>1. Copies(Chunks, Owner(w)) \in Seq({Owner(w)})
        BY CopiesSeq
      <4> QED BY <4>1, EmptyConcat
    <3>3. /\ bytes'[b'[w]] = <<>> /\ dst'[z'[w]].to = b'[w]
          /\ dst'[z'[w]].held = Copies(Chunks, Owner(w)')
      <4>1. dst'[z[w]].to = b[w] /\ dst'[z[w]].held = Copies(Chunks, Owner(w))
        BY <1>19, <3>1, <3>2
      <4>2. Owner(w)' = Owner(w) /\ z'[w] = z[w] /\ b'[w] = b[w] /\ bytes'[b[w]] = bytes[b[w]]
        BY <1>7 DEF Owner
      <4> QED BY <3>1, <4>1, <4>2
    <3>4. result'[w] \in {<<>>, Copies(Chunks, [user |-> w, round |-> round'[w] - 1])}
      BY <1>7, <1>8, <2>2, <2>4 DEF Data
    <3> QED BY <1>9, <2>4, <3>3, <3>4 DEF Data
  <2> QED BY <2>3, <2>4
<1> QED BY <1>13, <1>14, <1>15, <1>16, <1>17, <1>18 DEF IInv

(* Close: the message goes to the buffer. *)
LEMMA CloseWriterInv ==
  ASSUME IInv, NEW w \in Users, CloseWriter(w)
  PROVE  IInv'
<1> USE UsersAreDistinct, BoundsAreNat, NoObjectIsNone
<1>1. Types
  BY DEF IInv
<1>2. \A u \in Users : Role(u)
  BY DEF IInv
<1>3. One(pool["buffer"], made["buffer"], BufferUsers, b)
  BY DEF IInv
<1>4. One(pool["writer"], made["writer"], WriterUsers, z)
  BY DEF IInv
<1>5. ~again => One(pool["reader"], made["reader"], ReaderUsers, z)
  BY DEF IInv
<1>6. ~again => \A u \in Users : Data(u)
  BY DEF IInv
<1>7. /\ bytes' = [bytes EXCEPT ![dst[z[w]].to] = @ \o dst[z[w]].held]
      /\ dst' = [dst EXCEPT ![z[w]].held = <<>>]
      /\ upc' = [upc EXCEPT ![w] = "put"]
      /\ UNCHANGED <<round, z, b, result, pool, made, src, again>>
  BY DEF CloseWriter, Goes
<1>8. /\ w \notin Bodies /\ upc[w] = "close" /\ z[w] \in Objects /\ b[w] \in Objects
      /\ round[w] < MaxRounds[w]
  BY <1>2 DEF CloseWriter, Role, Users, Goes
<1>9. /\ upc'[w] = "put"
      /\ \A u \in Users \ {w} : upc'[u] = upc[u]
  BY <1>1, <1>7 DEF Types
<1>10. /\ w \in BufferUsers
       /\ w \in WriterUsers
       /\ w \notin ReaderUsers
  BY <1>8 DEF BufferUsers, WriterUsers, ReaderUsers, Users
<1>11. /\ BufferUsers' = BufferUsers
       /\ WriterUsers' = WriterUsers
       /\ ReaderUsers' = ReaderUsers
  <2>1. /\ BufferUsers' = BufferUsers \cup {w}
        /\ WriterUsers' = WriterUsers \cup {w}
        /\ ReaderUsers' = ReaderUsers \ {w}
    <3>1. upc'[w] = "put" /\ (\A u \in Users \ {w} : upc'[u] = upc[u])
      BY <1>9
    <3> QED BY <1>8, <3>1, UsersMove
  <2> QED BY <1>10, <2>1, SetMove
<1>12. UNCHANGED <<pool, made>>
  BY <1>7
<1>13. One(pool'["buffer"], made'["buffer"], BufferUsers', b')
  <2>1. BufferUsers' \in SUBSET BufferUsers /\ (\A u \in BufferUsers' : b'[u] = b[u])
    BY <1>7, <1>9, <1>10, <1>11 DEF BufferUsers
  <2>2. pool'["buffer"] = pool["buffer"] /\ made'["buffer"] = made["buffer"]
    BY <1>12
  <2> QED BY <1>3, <2>1, <2>2, OneFewer
<1>14. One(pool'["writer"], made'["writer"], WriterUsers', z')
  <2>1. WriterUsers' \in SUBSET WriterUsers /\ (\A u \in WriterUsers' : z'[u] = z[u])
    BY <1>7, <1>9, <1>10, <1>11 DEF WriterUsers
  <2>2. pool'["writer"] = pool["writer"] /\ made'["writer"] = made["writer"]
    BY <1>12
  <2> QED BY <1>4, <2>1, <2>2, OneFewer
<1>15. ~again' => One(pool'["reader"], made'["reader"], ReaderUsers', z')
  <2>1. ReaderUsers' \in SUBSET ReaderUsers /\ (\A u \in ReaderUsers' : z'[u] = z[u])
    BY <1>7, <1>9, <1>10, <1>11 DEF ReaderUsers
  <2>2. pool'["reader"] = pool["reader"] /\ made'["reader"] = made["reader"]
    BY <1>12
  <2>3. ~again => One(pool["reader"], made["reader"], ReaderUsers', z')
    BY <1>5, <2>1, OneFewer
  <2> QED BY <1>7, <2>2, <2>3
<1>19. /\ dst'[z[w]] = [to |-> dst[z[w]].to, held |-> <<>>]
       /\ \A p \in Objects \ {z[w]} : dst'[p] = dst[p]
       /\ dst' \in [Objects -> [to : Objects \cup {NoObject}, held : Seq(Owners)]]
       /\ dst[z[w]].to \in Objects \cup {NoObject} /\ dst[z[w]].held \in Seq(Owners)
  <2>1. /\ dst \in [Objects -> [to : Objects \cup {NoObject}, held : Seq(Owners)]]
        /\ z[w] \in Objects
    BY <1>1, <1>8 DEF Types
  <2>2. dst[z[w]] \in [to : Objects \cup {NoObject}, held : Seq(Owners)]
    BY <2>1
  <2>3. <<>> \in Seq(Owners)
    OBVIOUS
  <2>4. [dst[z[w]] EXCEPT !.held = <<>>]
          = [to |-> dst[z[w]].to, held |-> <<>>]
    <3>1. PICK x : x = <<>>
      OBVIOUS
    <3>2. [dst[z[w]] EXCEPT !.held = x] = [to |-> dst[z[w]].to, held |-> x]
      BY <2>2, HeldExcept
    <3> QED BY <3>1, <3>2
  <2>5. dst' = [dst EXCEPT ![z[w]] = [dst[z[w]] EXCEPT !.held = <<>>]]
    BY <1>7 DEF Copies
  <2>6. dst' = [dst EXCEPT ![z[w]] = [to |-> dst[z[w]].to, held |-> <<>>]]
    BY <2>4, <2>5, Zenon
  <2>7. /\ [to |-> dst[z[w]].to, held |-> <<>>]
             \in [to : Objects \cup {NoObject}, held : Seq(Owners)]
        /\ dst[z[w]].to \in Objects \cup {NoObject} /\ dst[z[w]].held \in Seq(Owners)
    BY <2>2, <2>3
  <2> QED BY <2>1, <2>6, <2>7, UpdateAt
<1>20. bytes' \in [Objects -> Seq(Owners)]
  <2>1. bytes \in [Objects -> Seq(Owners)] /\ dst[z[w]].held \in Seq(Owners)
    BY <1>1, <1>19 DEF Types
  <2>2. bytes' = [bytes EXCEPT ![dst[z[w]].to] = bytes[dst[z[w]].to] \o dst[z[w]].held]
    BY <1>7
  <2> QED BY <2>1, <2>2, ConcatAt
<1>16. Types'
  BY <1>1, <1>7, <1>12, <1>19, <1>20 DEF Types
<1>17. \A u \in Users : Role(u)'
  <2>1. SUFFICES ASSUME NEW u \in Users
                 PROVE  Role(u)'
    OBVIOUS
  <2>2. CASE u # w
    BY <1>2, <1>7, <1>9, <2>1, <2>2 DEF Role
  <2>3. CASE u = w
    BY <1>1, <1>2, <1>7, <1>8, <1>9, <2>1, <2>3 DEF Role, Types
  <2> QED BY <2>2, <2>3
<1>18. ~again' => \A u \in Users : Data(u)'
  <2>1. SUFFICES ASSUME ~again, NEW u \in Users
                 PROVE  Data(u)'
    BY <1>7
  <2>2. Data(u) /\ Role(u)
    BY <1>2, <1>6, <2>1
  <2>3. CASE u # w
    <3>1. u \in BufferUsers => bytes'[b[u]] = bytes[b[u]]
      <4>1. u \in BufferUsers => b[u] # b[w] /\ b[u] \in Objects
        BY <1>2, <1>3, <1>10, <2>3 DEF One, Role, BufferUsers
      <4>2. dst[z[w]].to = b[w]
        BY <1>6, <1>8, <2>1 DEF Data
      <4> QED BY <1>1, <1>7, <4>1, <4>2 DEF Types
    <3>2. u \in ReaderUsers => src'[z[u]] = src[z[u]]
      BY <1>7
    <3>3. u \in WriterUsers => dst'[z[u]] = dst[z[u]]
      <4>1. u \in WriterUsers => z[u] # z[w] /\ z[u] \in Objects
        BY <1>2, <1>4, <1>10, <2>3 DEF One, Role, WriterUsers
      <4> QED BY <1>19, <4>1
    <3>4. /\ upc'[u] = upc[u] /\ round'[u] = round[u] /\ result'[u] = result[u]
          /\ z'[u] = z[u] /\ b'[u] = b[u]
      BY <1>7, <1>9, <2>3
    <3> QED BY <1>1, <2>1, <2>2, <3>1, <3>2, <3>3, <3>4, DataKept
  <2>4. CASE u = w
    <3>1. /\ bytes[b[w]] = <<>> /\ dst[z[w]].to = b[w]
          /\ dst[z[w]].held = Copies(Chunks, Owner(w))
      BY <1>8, <2>2, <2>4 DEF Data
    <3>2. <<>> \o Copies(Chunks, Owner(w)) = Copies(Chunks, Owner(w))
      <4>1. Copies(Chunks, Owner(w)) \in Seq({Owner(w)})
        BY CopiesSeq
      <4> QED BY <4>1, EmptyConcat
    <3>3. bytes'[b[w]] = bytes[b[w]] \o dst[z[w]].held
      BY <1>1, <1>7, <1>8, <3>1 DEF Types
    <3>4. bytes'[b'[w]] = Copies(Chunks, Owner(w)')
      BY <1>7, <3>1, <3>2, <3>3 DEF Owner
    <3>5. result'[w] \in {<<>>, Copies(Chunks, [user |-> w, round |-> round'[w] - 1])}
      BY <1>7, <1>8, <2>2, <2>4 DEF Data
    <3> QED BY <1>9, <2>4, <3>4, <3>5 DEF Data
  <2> QED BY <2>3, <2>4
<1> QED BY <1>13, <1>14, <1>15, <1>16, <1>17, <1>18 DEF IInv

(* The writer goes back to its pool. *)
LEMMA PutWriterInv ==
  ASSUME IInv, NEW w \in Users, PutWriter(w)
  PROVE  IInv'
<1> USE UsersAreDistinct, BoundsAreNat, NoObjectIsNone
<1>1. Types
  BY DEF IInv
<1>2. \A u \in Users : Role(u)
  BY DEF IInv
<1>3. One(pool["buffer"], made["buffer"], BufferUsers, b)
  BY DEF IInv
<1>4. One(pool["writer"], made["writer"], WriterUsers, z)
  BY DEF IInv
<1>5. ~again => One(pool["reader"], made["reader"], ReaderUsers, z)
  BY DEF IInv
<1>6. ~again => \A u \in Users : Data(u)
  BY DEF IInv
<1>7. /\ z' = [z EXCEPT ![w] = NoObject]
      /\ upc' = [upc EXCEPT ![w] = "copy"]
      /\ UNCHANGED <<round, b, result, src, dst, bytes, again>>
  BY DEF PutWriter, Goes
<1>8. /\ w \notin Bodies /\ upc[w] = "put" /\ z[w] \in Objects /\ b[w] \in Objects
      /\ round[w] < MaxRounds[w]
      /\ Put("writer", z[w])
  BY <1>2 DEF PutWriter, Role, Users, Goes
<1>9. /\ z'[w] = NoObject
      /\ upc'[w] = "copy"
      /\ \A u \in Users \ {w} : z'[u] = z[u] /\ upc'[u] = upc[u]
  BY <1>1, <1>7 DEF Types
<1>10. /\ w \in BufferUsers
       /\ w \in WriterUsers
       /\ w \notin ReaderUsers
  BY <1>8 DEF BufferUsers, WriterUsers, ReaderUsers, Users
<1>11. /\ BufferUsers' = BufferUsers
       /\ WriterUsers' = WriterUsers \ {w}
       /\ ReaderUsers' = ReaderUsers
  <2>1. /\ BufferUsers' = BufferUsers \cup {w}
        /\ WriterUsers' = WriterUsers \ {w}
        /\ ReaderUsers' = ReaderUsers \ {w}
    <3>1. upc'[w] = "copy" /\ (\A u \in Users \ {w} : upc'[u] = upc[u])
      BY <1>9
    <3> QED BY <1>8, <3>1, UsersMove
  <2> QED BY <1>10, <2>1, SetMove
<1>12. /\ pool' \in [Kinds -> [Objects -> Nat]]
       /\ made' \in [Kinds -> SUBSET Objects]
       /\ pool'["buffer"] = pool["buffer"] /\ made'["buffer"] = made["buffer"]
       /\ pool'["reader"] = pool["reader"] /\ made'["reader"] = made["reader"]
  <2>1. "writer" \in Kinds /\ "buffer" \in Kinds \ {"writer"} /\ "reader" \in Kinds \ {"writer"}
    BY DEF Kinds
  <2> QED BY <1>1, <1>8, <2>1, PutOne DEF Types
<1>13. One(pool'["buffer"], made'["buffer"], BufferUsers', b')
  <2>1. BufferUsers' \in SUBSET BufferUsers /\ (\A u \in BufferUsers' : b'[u] = b[u])
    BY <1>7, <1>9, <1>10, <1>11 DEF BufferUsers
  <2>2. pool'["buffer"] = pool["buffer"] /\ made'["buffer"] = made["buffer"]
    BY <1>12
  <2> QED BY <1>3, <2>1, <2>2, OneFewer
<1>14. One(pool'["writer"], made'["writer"], WriterUsers', z')
  <2>1. w \in WriterUsers /\ z[w] = z[w] /\ (\A u \in WriterUsers \ {w} : z'[u] = z[u])
    BY <1>7, <1>9, <1>10 DEF WriterUsers
  <2>2. "writer" \in Kinds /\ WriterUsers' = WriterUsers \ {w} /\ z[w] \in Objects
    BY <1>8, <1>11 DEF Kinds
  <2>3. Put("writer", z[w])
    BY <1>7, <1>8
  <2>4. \A S, h, u, hh :
          One(pool["writer"], made["writer"], S, h) /\ u \in S /\ h[u] = z[w]
            /\ (\A v \in S \ {u} : hh[v] = h[v])
          => One(pool'["writer"], made'["writer"], S \ {u}, hh)
    BY <1>1, <2>2, <2>3, PutOne
  <2> QED BY <1>4, <2>1, <2>2, <2>3, <2>4
<1>15. ~again' => One(pool'["reader"], made'["reader"], ReaderUsers', z')
  <2>1. ReaderUsers' \in SUBSET ReaderUsers /\ (\A u \in ReaderUsers' : z'[u] = z[u])
    BY <1>7, <1>9, <1>10, <1>11 DEF ReaderUsers
  <2>2. pool'["reader"] = pool["reader"] /\ made'["reader"] = made["reader"]
    BY <1>12
  <2>3. ~again => One(pool["reader"], made["reader"], ReaderUsers', z')
    BY <1>5, <2>1, OneFewer
  <2> QED BY <1>7, <2>2, <2>3
<1>16. Types'
  BY <1>1, <1>7, <1>12 DEF Types
<1>17. \A u \in Users : Role(u)'
  <2>1. SUFFICES ASSUME NEW u \in Users
                 PROVE  Role(u)'
    OBVIOUS
  <2>2. CASE u # w
    BY <1>2, <1>7, <1>9, <2>1, <2>2 DEF Role
  <2>3. CASE u = w
    BY <1>1, <1>2, <1>7, <1>8, <1>9, <2>1, <2>3 DEF Role, Types
  <2> QED BY <2>2, <2>3
<1>18. ~again' => \A u \in Users : Data(u)'
  <2>1. SUFFICES ASSUME ~again, NEW u \in Users
                 PROVE  Data(u)'
    BY <1>7
  <2>2. Data(u) /\ Role(u)
    BY <1>2, <1>6, <2>1
  <2>3. CASE u # w
    <3>1. u \in BufferUsers => bytes'[b[u]] = bytes[b[u]]
      BY <1>7
    <3>2. u \in ReaderUsers => src'[z[u]] = src[z[u]]
      BY <1>7
    <3>3. u \in WriterUsers => dst'[z[u]] = dst[z[u]]
      BY <1>7
    <3>4. /\ upc'[u] = upc[u] /\ round'[u] = round[u] /\ result'[u] = result[u]
          /\ z'[u] = z[u] /\ b'[u] = b[u]
      BY <1>7, <1>9, <2>3
    <3> QED BY <1>1, <2>1, <2>2, <3>1, <3>2, <3>3, <3>4, DataKept
  <2>4. CASE u = w
    <3>1. bytes'[b'[w]] = Copies(Chunks, Owner(w)')
      BY <1>7, <1>8, <2>2, <2>4 DEF Data, Owner
    <3>2. result'[w] \in {<<>>, Copies(Chunks, [user |-> w, round |-> round'[w] - 1])}
      BY <1>7, <1>8, <2>2, <2>4 DEF Data
    <3> QED BY <1>9, <2>4, <3>1, <3>2 DEF Data
  <2> QED BY <2>3, <2>4
<1> QED BY <1>13, <1>14, <1>15, <1>16, <1>17, <1>18 DEF IInv

(* The message is copied and the buffer goes back. *)
LEMMA CopyAndPutInv ==
  ASSUME IInv, NEW w \in Users, CopyAndPut(w)
  PROVE  IInv'
<1> USE UsersAreDistinct, BoundsAreNat, NoObjectIsNone
<1>1. Types
  BY DEF IInv
<1>2. \A u \in Users : Role(u)
  BY DEF IInv
<1>3. One(pool["buffer"], made["buffer"], BufferUsers, b)
  BY DEF IInv
<1>4. One(pool["writer"], made["writer"], WriterUsers, z)
  BY DEF IInv
<1>5. ~again => One(pool["reader"], made["reader"], ReaderUsers, z)
  BY DEF IInv
<1>6. ~again => \A u \in Users : Data(u)
  BY DEF IInv
<1>7. /\ result' = [result EXCEPT ![w] = bytes[b[w]]]
      /\ z' = [z EXCEPT ![w] = NoObject]
      /\ b' = [b EXCEPT ![w] = NoObject]
      /\ round' = [round EXCEPT ![w] = @ + 1]
      /\ upc' = [upc EXCEPT ![w] = "idle"]
      /\ UNCHANGED <<src, dst, bytes, again>>
  BY DEF CopyAndPut, Goes, Ends
<1>8. /\ w \notin Bodies /\ upc[w] = "copy" /\ b[w] \in Objects
      /\ round[w] < MaxRounds[w]
      /\ Put("buffer", b[w])
  BY <1>2 DEF CopyAndPut, Role, Users, Goes, Ends
<1>9. /\ result'[w] = bytes[b[w]]
      /\ z'[w] = NoObject
      /\ b'[w] = NoObject
      /\ round'[w] = round[w] + 1
      /\ upc'[w] = "idle"
      /\ \A u \in Users \ {w} : result'[u] = result[u] /\ z'[u] = z[u] /\ b'[u] = b[u] /\ round'[u] = round[u] /\ upc'[u] = upc[u]
  BY <1>1, <1>7 DEF Types
<1>10. /\ w \in BufferUsers
       /\ w \notin WriterUsers
       /\ w \notin ReaderUsers
  BY <1>8 DEF BufferUsers, WriterUsers, ReaderUsers, Users
<1>11. /\ BufferUsers' = BufferUsers \ {w}
       /\ WriterUsers' = WriterUsers
       /\ ReaderUsers' = ReaderUsers
  <2>1. /\ BufferUsers' = BufferUsers \ {w}
        /\ WriterUsers' = WriterUsers \ {w}
        /\ ReaderUsers' = ReaderUsers \ {w}
    <3>1. upc'[w] = "idle" /\ (\A u \in Users \ {w} : upc'[u] = upc[u])
      BY <1>9
    <3> QED BY <1>8, <3>1, UsersMove
  <2> QED BY <1>10, <2>1, SetMove
<1>12. /\ pool' \in [Kinds -> [Objects -> Nat]]
       /\ made' \in [Kinds -> SUBSET Objects]
       /\ pool'["writer"] = pool["writer"] /\ made'["writer"] = made["writer"]
       /\ pool'["reader"] = pool["reader"] /\ made'["reader"] = made["reader"]
  <2>1. "buffer" \in Kinds /\ "writer" \in Kinds \ {"buffer"} /\ "reader" \in Kinds \ {"buffer"}
    BY DEF Kinds
  <2> QED BY <1>1, <1>8, <2>1, PutOne DEF Types
<1>13. One(pool'["buffer"], made'["buffer"], BufferUsers', b')
  <2>1. w \in BufferUsers /\ b[w] = b[w] /\ (\A u \in BufferUsers \ {w} : b'[u] = b[u])
    BY <1>7, <1>9, <1>10 DEF BufferUsers
  <2>2. "buffer" \in Kinds /\ BufferUsers' = BufferUsers \ {w} /\ b[w] \in Objects
    BY <1>8, <1>11 DEF Kinds
  <2>3. Put("buffer", b[w])
    BY <1>7, <1>8
  <2>4. \A S, h, u, hh :
          One(pool["buffer"], made["buffer"], S, h) /\ u \in S /\ h[u] = b[w]
            /\ (\A v \in S \ {u} : hh[v] = h[v])
          => One(pool'["buffer"], made'["buffer"], S \ {u}, hh)
    BY <1>1, <2>2, <2>3, PutOne
  <2> QED BY <1>3, <2>1, <2>2, <2>3, <2>4
<1>14. One(pool'["writer"], made'["writer"], WriterUsers', z')
  <2>1. WriterUsers' \in SUBSET WriterUsers /\ (\A u \in WriterUsers' : z'[u] = z[u])
    BY <1>7, <1>9, <1>10, <1>11 DEF WriterUsers
  <2>2. pool'["writer"] = pool["writer"] /\ made'["writer"] = made["writer"]
    BY <1>12
  <2> QED BY <1>4, <2>1, <2>2, OneFewer
<1>15. ~again' => One(pool'["reader"], made'["reader"], ReaderUsers', z')
  <2>1. ReaderUsers' \in SUBSET ReaderUsers /\ (\A u \in ReaderUsers' : z'[u] = z[u])
    BY <1>7, <1>9, <1>10, <1>11 DEF ReaderUsers
  <2>2. pool'["reader"] = pool["reader"] /\ made'["reader"] = made["reader"]
    BY <1>12
  <2>3. ~again => One(pool["reader"], made["reader"], ReaderUsers', z')
    BY <1>5, <2>1, OneFewer
  <2> QED BY <1>7, <2>2, <2>3
<1>16. Types'
  <2>1. bytes[b[w]] \in Seq(Owners)
    BY <1>1, <1>8 DEF Types
  <2> QED BY <1>1, <1>7, <1>12, <2>1 DEF Types
<1>17. \A u \in Users : Role(u)'
  <2>1. SUFFICES ASSUME NEW u \in Users
                 PROVE  Role(u)'
    OBVIOUS
  <2>2. CASE u # w
    BY <1>2, <1>7, <1>9, <2>1, <2>2 DEF Role
  <2>3. CASE u = w
    BY <1>1, <1>2, <1>7, <1>8, <1>9, <2>1, <2>3 DEF Role, Types
  <2> QED BY <2>2, <2>3
<1>18. ~again' => \A u \in Users : Data(u)'
  <2>1. SUFFICES ASSUME ~again, NEW u \in Users
                 PROVE  Data(u)'
    BY <1>7
  <2>2. Data(u) /\ Role(u)
    BY <1>2, <1>6, <2>1
  <2>3. CASE u # w
    <3>1. u \in BufferUsers => bytes'[b[u]] = bytes[b[u]]
      BY <1>7
    <3>2. u \in ReaderUsers => src'[z[u]] = src[z[u]]
      BY <1>7
    <3>3. u \in WriterUsers => dst'[z[u]] = dst[z[u]]
      BY <1>7
    <3>4. /\ upc'[u] = upc[u] /\ round'[u] = round[u] /\ result'[u] = result[u]
          /\ z'[u] = z[u] /\ b'[u] = b[u]
      BY <1>7, <1>9, <2>3
    <3> QED BY <1>1, <2>1, <2>2, <3>1, <3>2, <3>3, <3>4, DataKept
  <2>4. CASE u = w
    <3>1. [user |-> w, round |-> round'[w] - 1] = Owner(w)
      <4>1. round[w] \in Nat /\ round'[w] = round[w] + 1
        BY <1>1, <1>9 DEF Types
      <4>2. round'[w] - 1 = round[w]
        BY <4>1
      <4> QED BY <4>2 DEF Owner
    <3>2. result'[w] = Copies(Chunks, Owner(w))
      BY <1>8, <1>9, <2>2, <2>4 DEF Data
    <3>3. result'[w] \in {<<>>, Copies(Chunks, [user |-> w, round |-> round'[w] - 1])}
      BY <3>1, <3>2
    <3> QED BY <1>9, <2>4, <3>3 DEF Data
  <2> QED BY <2>3, <2>4
<1> QED BY <1>13, <1>14, <1>15, <1>16, <1>17, <1>18 DEF IInv

-----------------------------------------------------------------------------
LEMMA InitInv ==
  ASSUME Init
  PROVE  IInv
<1> USE UsersAreDistinct, BoundsAreNat, NoObjectIsNone
<1>1. /\ upc = [u \in Users |-> "idle"] /\ round = [u \in Users |-> 0]
      /\ z = [u \in Users |-> NoObject] /\ b = [u \in Users |-> NoObject]
      /\ result = [u \in Users |-> <<>>] /\ again = FALSE
  BY DEF Init
<1>2. /\ pool = [k \in Kinds |-> [o \in Objects |-> 0]] /\ made = [k \in Kinds |-> {}]
      /\ src = [o \in Objects |-> [owner |-> NoObject, left |-> 0]]
      /\ dst = [o \in Objects |-> [to |-> NoObject, held |-> <<>>]]
      /\ bytes = [o \in Objects |-> <<>>]
  BY DEF Init
<1>3. Types
  <2>1. <<>> \in Seq(Owners) /\ NoObject \in Owners
    BY DEF Owners
  <2>2. pool \in [Kinds -> [Objects -> Nat]] /\ made \in [Kinds -> SUBSET Objects]
    BY <1>2
  <2>3. src \in [Objects -> [owner : Owners, left : Nat]]
    BY <1>2, <2>1
  <2>4. dst \in [Objects -> [to : Objects \cup {NoObject}, held : Seq(Owners)]]
    BY <1>2, <2>1
  <2>5. bytes \in [Objects -> Seq(Owners)] /\ result \in [Users -> Seq(Owners)]
    BY <1>1, <1>2, <2>1
  <2> QED BY <1>1, <2>2, <2>3, <2>4, <2>5 DEF Types
<1>4. \A u \in Users : upc[u] = "idle" /\ round[u] = 0 /\ result[u] = <<>>
  BY <1>1
<1>5. \A u \in Users : Role(u)
  BY <1>4 DEF Role
<1>6. BufferUsers = {} /\ WriterUsers = {} /\ ReaderUsers = {}
  BY <1>4 DEF BufferUsers, WriterUsers, ReaderUsers
<1>7. \A k \in Kinds : \A o \in Objects : pool[k][o] = 0
  BY <1>2
<1>8. \A k \in Kinds : \A h : One(pool[k], made[k], {}, h)
  BY <1>7 DEF One
<1>9. \A u \in Users : Data(u)
  BY <1>4 DEF Data
<1> QED BY <1>3, <1>5, <1>6, <1>8, <1>9 DEF IInv, Kinds

LEMMA StutterInv ==
  ASSUME IInv, UNCHANGED poolVars
  PROVE  IInv'
<1>1. UNCHANGED <<upc, round, z, b, result, pool, made, src, dst, bytes, again>>
  BY DEF poolVars
<1>2. Types'
  BY <1>1 DEF IInv, Types
<1>3. \A u \in Users : Role(u)'
  BY <1>1 DEF IInv, Role
<1>4. BufferUsers' = BufferUsers /\ WriterUsers' = WriterUsers /\ ReaderUsers' = ReaderUsers
  BY <1>1 DEF BufferUsers, WriterUsers, ReaderUsers
<1>5. \A u \in Users : Data(u) => Data(u)'
  BY <1>1 DEF Data, Owner
<1> QED BY <1>1, <1>2, <1>3, <1>4, <1>5 DEF IInv

(* IInv is an inductive invariant. *)
LEMMA Inductive == Spec => []IInv
<1>1. Init => IInv
  BY InitInv
<1>2. ASSUME IInv, NEW w \in Users, NEW o \in Objects,
             GetBuffer(w, o) \/ Decompress(w, o) \/ Compress(w, o)
      PROVE  IInv'
  BY <1>2, GetBufferInv, DecompressInv, CompressInv
<1>3. ASSUME IInv, NEW w \in Users, NEW o \in Objects \cup {NoObject}, DecompressFails(w, o)
      PROVE  IInv'
  <2>1. w \in Receivers \/ w \in Bodies
    BY <1>3 DEF DecompressFails, MayDecompress
  <2> QED BY <1>3, <2>1, DecompressFailsReceiverInv, DecompressFailsBodyInv
<1>4. ASSUME IInv, NEW w \in Users, ReadChunk(w) \/ ReadFails(w) \/ ReadEOF(w)
      PROVE  IInv'
  <2>1. w \in Receivers \/ w \in Bodies
    BY <1>4 DEF ReadChunk, ReadFails, ReadEOF, IInv, Role, Users
  <2> QED BY <1>4, <2>1, UsersAreDistinct, ReadChunkBodyInv, ReadChunkMessageInv,
             ReadFailsReceiverInv, ReadFailsBodyInv, ReadEOFReceiverInv, ReadEOFBodyInv
<1>5. ASSUME IInv, NEW w \in Users, ReadAgain(w) \/ BodyEnds(w)
      PROVE  IInv'
  BY <1>5, ReadAgainDataInv, ReadAgainEOFInv, BodyEndsInv
<1>6. ASSUME IInv, NEW w \in Users,
             CompressFails(w) \/ Write(w) \/ CloseWriter(w) \/ PutWriter(w) \/ CopyAndPut(w)
      PROVE  IInv'
  BY <1>6, CompressFailsInv, WriteInv, CloseWriterInv, PutWriterInv, CopyAndPutInv
<1>7. IInv /\ [Next]_poolVars => IInv'
  BY <1>2, <1>3, <1>4, <1>5, <1>6, StutterInv DEF Next
<1> QED BY <1>1, <1>7, PTL DEF Spec

(* Get and Put of compress.go keep every object in one place: a reader, as   *)
(* long as nobody reads after io.EOF, a writer and a buffer always, are in   *)
(* their pool at most once or serve one user.                                *)
THEOREM PooledObjectsExclusive == Spec => []ObjectsExclusive
<1>1. ASSUME IInv
      PROVE  ObjectsExclusive
  <2> USE BoundsAreNat
  <2>1. Types /\ \A u \in Users : Role(u)
    BY <1>1 DEF IInv
  <2>2. ~again => \A u \in Users : Len(result[u]) <= Chunks
    <3>1. SUFFICES ASSUME ~again, NEW u \in Users
                   PROVE  Len(result[u]) <= Chunks
      OBVIOUS
    <3>2. Data(u) /\ Role(u)
      BY <1>1, <3>1 DEF IInv
    <3>3. CASE result[u] = <<>>
      BY <3>3
    <3>4. ASSUME NEW n \in Nat, NEW x, n <= Chunks, result[u] = Copies(n, x)
          PROVE  Len(result[u]) <= Chunks
      <4>1. Len(Copies(n, x)) = n
        BY CopiesSeq
      <4> QED BY <3>4, <4>1
    <3>5. CASE upc[u] = "read" /\ u \in Bodies
      <4>1. z[u] \in Objects
        BY <3>2, <3>5 DEF Role
      <4>2. src[z[u]].left \in Nat /\ src[z[u]].left <= Chunks
        BY <2>1, <3>2, <3>5, <4>1 DEF Types, Data
      <4>3. Chunks - src[z[u]].left \in Nat /\ Chunks - src[z[u]].left <= Chunks
        BY <4>2
      <4>4. result[u] = Copies(Chunks - src[z[u]].left, Owner(u))
        BY <3>2, <3>5 DEF Data
      <4> QED BY <3>4, <4>3, <4>4
    <3>6. CASE upc[u] = "read" /\ u \notin Bodies
      BY <3>2, <3>3, <3>6 DEF Data
    <3>7. CASE upc[u] # "read"
      <4>1. \/ result[u] = <<>> \/ result[u] = Copies(Chunks, Owner(u))
            \/ result[u] = Copies(Chunks, [user |-> u, round |-> round[u] - 1])
        BY <3>2, <3>7 DEF Data
      <4> QED BY <3>3, <3>4, <4>1
    <3> QED BY <3>5, <3>6, <3>7
  <2>3. \A u \in Users : round[u] \in 0 .. MaxRounds[u]
    BY <2>1 DEF Types, Role
  <2>4. \A k \in Kinds : pool[k] \in [Objects -> Nat] /\ made[k] \subseteq Objects
    BY <2>1 DEF Types
  <2>5. TypeOK
    BY <2>1, <2>2, <2>3, <2>4 DEF Types, TypeOK
  <2>6. ReadersExclusive
    <3>1. SUFFICES ASSUME ~again, NEW u \in Receivers \cup Bodies, upc[u] = "read"
                   PROVE  /\ pool["reader"][z[u]] = 0
                          /\ \A v \in (Receivers \cup Bodies) \ {u} :
                               upc[v] = "read" => z[v] # z[u]
      BY DEF ReadersExclusive
    <3>2. One(pool["reader"], made["reader"], ReaderUsers, z)
      BY <1>1, <3>1 DEF IInv
    <3>3. u \in ReaderUsers
      BY <3>1 DEF ReaderUsers, Users
    <3>4. \A v \in (Receivers \cup Bodies) \ {u} : upc[v] = "read" => v \in ReaderUsers
      BY DEF ReaderUsers, Users
    <3> QED BY <3>2, <3>3, <3>4 DEF One
  <2>7. BuffersExclusive
    <3>1. One(pool["buffer"], made["buffer"], BufferUsers, b)
      BY <1>1 DEF IInv
    <3>2. One(pool["writer"], made["writer"], WriterUsers, z)
      BY <1>1 DEF IInv
    <3>3. \A u \in Receivers \cup Senders : upc[u] # "idle" => u \in BufferUsers
      BY UsersAreDistinct DEF BufferUsers, Users
    <3>4. \A u \in Senders : upc[u] \in {"write", "close", "put"} => u \in WriterUsers
      BY DEF WriterUsers, Users
    <3>5. \A u \in Receivers \cup Senders :
            upc[u] # "idle" =>
              /\ pool["buffer"][b[u]] = 0
              /\ \A v \in (Receivers \cup Senders) \ {u} : upc[v] # "idle" => b[v] # b[u]
      BY <3>1, <3>3 DEF One
    <3>6. \A u \in Senders :
            upc[u] \in {"write", "close", "put"} =>
              /\ pool["writer"][z[u]] = 0
              /\ \A v \in Senders \ {u} : upc[v] \in {"write", "close", "put"} => z[v] # z[u]
      BY <3>2, <3>4 DEF One
    <3> QED BY <3>5, <3>6 DEF BuffersExclusive
  <2> QED BY <2>5, <2>6, <2>7 DEF ObjectsExclusive
<1> QED BY <1>1, Inductive, PTL

(* RecvMsg, SendMsg and the readers of request bodies share the pools, and   *)
(* what each of them got or sent is its own message, whole, unless a body    *)
(* was read after io.EOF.                                                    *)
THEOREM MessagesAreOwn == Spec => []OwnData
<1>1. ASSUME IInv
      PROVE  OwnData
  <2> USE BoundsAreNat
  <2> DEFINE mine(u) ==
        [user |-> u, round |-> IF upc[u] \in {"read", "eof"} THEN round[u] ELSE round[u] - 1]
  <2>1. SUFFICES ASSUME ~again, NEW u \in Users
                 PROVE  /\ \A i \in 1 .. Len(result[u]) : result[u][i].user = u
                        /\ upc[u] \in {"idle", "eof"} /\ result[u] # <<>> =>
                             result[u] = [i \in 1 .. Chunks |-> mine(u)]
    BY Zenon DEF OwnData
  <2>2. Data(u) /\ Role(u) /\ Types
    BY <1>1, <2>1 DEF IInv
  <2>3. \E n \in Nat : result[u] = Copies(n, mine(u))
    <3>1. CASE result[u] = <<>>
      BY <3>1, CopiesNone
    <3>2. CASE upc[u] = "read" /\ u \in Bodies
      <4>1. z[u] \in Objects
        BY <2>2, <3>2 DEF Role
      <4>2. src[z[u]].left \in Nat /\ src[z[u]].left <= Chunks
        BY <2>2, <3>2, <4>1 DEF Types, Data
      <4>3. Chunks - src[z[u]].left \in Nat
        BY <4>2
      <4>4. result[u] = Copies(Chunks - src[z[u]].left, Owner(u)) /\ Owner(u) = mine(u)
        BY <2>2, <3>2 DEF Data, Owner
      <4> QED BY <4>3, <4>4
    <3>3. CASE upc[u] = "read" /\ u \notin Bodies
      BY <2>2, <3>1, <3>3 DEF Data
    <3>4. CASE upc[u] = "eof"
      BY <2>2, <3>4 DEF Data, Owner
    <3>5. CASE upc[u] \notin {"read", "eof"}
      BY <2>2, <3>1, <3>5 DEF Data
    <3> QED BY <3>2, <3>3, <3>4, <3>5
  <2>5. \A i \in 1 .. Len(result[u]) : result[u][i].user = u
    <3>1. PICK n \in Nat, x \in {mine(u)} : x.user = u /\ result[u] = Copies(n, x)
      BY <2>3
    <3>2. Len(Copies(n, x)) = n /\ \A i \in 1 .. n : Copies(n, x)[i] = x
      BY CopiesSeq
    <3> QED BY <3>1, <3>2
  <2>6. upc[u] \in {"idle", "eof"} /\ result[u] # <<>> =>
          result[u] = [i \in 1 .. Chunks |-> mine(u)]
    BY <2>2 DEF Data, Owner, Copies
  <2> QED BY <2>5, <2>6
<1> QED BY <1>1, Inductive, PTL

=============================================================================
