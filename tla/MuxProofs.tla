----------------------------- MODULE MuxProofs -----------------------------
(***************************************************************************)
(* Proofs about the registry of larking.Mux, for any number of writers,    *)
(* readers, connections, services and methods: types; routing (the rule    *)
(* tree of a published state never holds two rules for the same node and   *)
(* verb, and a request is answered from the one state it loaded); and      *)
(* safety (no registration is lost, the tables of a published state agree, *)
(* and the detailed registry implements the abstract one).  And about its  *)
(* service configuration: which rules ruleSelector gives to a method.      *)
(***************************************************************************)
EXTENDS Mux, Selector, Inductions

(* delRule only takes entries away. *)
LEMMA DelRuleShrinks ==
  ASSUME NEW t, NEW m, NEW u \in DelRule(t, m)
  PROVE  u \subseteq t
BY DEF DelRule, Pruned, FirstVisited, Candidates

(* An entry made from a binding of a method is an entry of the tree's type. *)
LEMMA EntryType ==
  ASSUME NEW b \in Binding, NEW m \in Methods
  PROVE  Entry(b, m) \in TreeEntry
BY DEF Entry, Binding, TreeEntry

LEMMA ImplicitRuleType ==
  ASSUME NEW m \in Methods
  PROVE  <<ImplicitRule(m)>> \o Rules[m] \in Seq(Binding)
<1>1. ImplicitRule(m) \in Binding
  BY ConstantTypes DEF ImplicitRule, Binding
<1>2. Rules[m] \in Seq(Binding)
  BY ConstantTypes
<1> QED BY <1>1, <1>2

LEMMA RestType ==
  ASSUME NEW q \in Seq(Binding), q # <<>>
  PROVE  /\ Head(q) \in Binding
         /\ Tail(q) \in Seq(Binding)
         /\ SubSeq(q, 2 + Head(q).extra, Len(q)) \in Seq(Binding)
<1>1. Head(q) \in Binding /\ Tail(q) \in Seq(Binding)
  OBVIOUS
<1>2. Head(q).extra \in Nat
  BY <1>1 DEF Binding
<1>3. \A i \in 2 + Head(q).extra .. Len(q) : i \in 1 .. Len(q)
  BY <1>2
<1>4. SubSeq(q, 2 + Head(q).extra, Len(q)) \in Seq(Binding)
  BY <1>2, <1>3, SubSeqProperties
<1> QED BY <1>1, <1>4

LEMMA EmptyStateType == EmptyState \in State
BY DEF EmptyState, State

LEMMA IdleTypes == Idle \in Writer /\ IdleReader \in Reader
BY EmptyStateType DEF Idle, IdleReader, Writer, Reader, WriterPC

-----------------------------------------------------------------------------
(* Type correctness. *)

(* Who an operation may be called for, and where it may be: what makes the  *)
(* applications of Offers, ServiceMethods and conns meaningful.             *)
OpOK(x) ==
  /\ x.op = "service" => x.who \in Services
  /\ x.op \in {"conn", "drop"} => x.who \in Conns
  /\ x.pc \in {"open", "fetch", "file"} => x.op = "conn"
  /\ x.pc = "remove" => x.op \in {"conn", "drop"}
  /\ x.pc \in {"method", "rule", "store"} => x.op \in {"service", "conn"}
  /\ x.pc \in {"lock", "return"} => x.op # "none"
  /\ x.pc = "rule" => x.cur \in Methods
  /\ x.ret = "ok" => x.op \in {"service", "conn"}
  /\ x.pc # "return" => x.ret = "none"

WriterOK(x) == x \in Writer /\ OpOK(x)

TypeInv == TypeOK /\ \A w \in Writers : OpOK(wr[w])

(* A step that only rewrites the locals of one writer keeps the types. *)
LEMMA TypeLocal ==
  ASSUME TypeInv, NEW w \in Writers, NEW pc, NEW next, WriterOK(next),
         Local(w, pc, next)
  PROVE  TypeInv'
BY DEF TypeInv, TypeOK, Local, WriterOK

LEMMA TypeLock ==
  ASSUME TypeInv, NEW w \in Writers, NEW next, WriterOK(next),
         LockAndClone(w, next)
  PROVE  TypeInv'
BY DEF TypeInv, TypeOK, LockAndClone, WriterOK

LEMMA TypeReader ==
  ASSUME TypeInv, NEW r \in Readers, NEW pc, NEW next \in Reader,
         ReaderStep(r, pc, next)
  PROVE  TypeInv'
BY DEF TypeInv, TypeOK, ReaderStep

LEMMA IdleOK == WriterOK(Idle)
BY IdleTypes DEF WriterOK, OpOK, Idle

LEMMA TypeCall ==
  ASSUME TypeInv, NEW w \in Writers, Call(w)
  PROVE  TypeInv'
<1>1. ASSUME NEW op \in {"service", "conn", "drop"}, NEW o \in Owners,
             NEW pc \in {"open", "lock"}, Begin(w, op, o, pc),
             op = "service" => o \in Services,
             op \in {"conn", "drop"} => o \in Conns,
             pc = "open" => op = "conn"
      PROVE  TypeInv'
  <2> DEFINE next == [wr[w] EXCEPT !.pc = pc, !.op = op, !.who = o]
  <2>1. wr[w] \in Writer /\ OpOK(wr[w]) /\ wr[w].pc = "idle"
    BY <1>1 DEF TypeInv, TypeOK, Begin
  <2>2. next \in Writer
    BY <2>1, <1>1 DEF Writer, WriterPC
  <2>3. OpOK(next)
    BY <2>1, <1>1 DEF OpOK, Writer
  <2>4. wr' = [wr EXCEPT ![w] = next] /\ calls' = calls + 1
    BY <1>1 DEF Begin
  <2> HIDE DEF next
  <2> QED BY <2>2, <2>3, <2>4, <1>1 DEF TypeInv, TypeOK, Begin
<1>2. ASSUME NEW svc \in Services, RegisterServiceFatal(w, svc) PROVE TypeInv'
  BY <1>2 DEF TypeInv, TypeOK, RegisterServiceFatal
<1> QED BY <1>1, <1>2 DEF Call, RegisterService, RegisterConn, DropConn, Owners

(* The record each action of a writer leaves in its locals is well typed.   *)
LEMMA TypeLocks ==
  ASSUME TypeInv, NEW w \in Writers,
         LockService(w) \/ LockConn(w) \/ LockDrop(w)
  PROVE  TypeInv'
<1> DEFINE x == wr[w]
<1>0. x \in Writer /\ OpOK(x) /\ state \in State
  BY DEF TypeInv, TypeOK
<1>1. CASE LockService(w)
  <2> DEFINE next == IF x.who \in Described
                       THEN [x EXCEPT !.pc = "method", !.s = state,
                                      !.todo = ServiceMethods[x.who]]
                       ELSE [x EXCEPT !.pc = "return", !.s = state, !.ret = "error"]
  <2>1. x.op = "service" /\ x.pc = "lock"
    BY <1>1 DEF LockService, LockAndClone
  <2>2. ServiceMethods[x.who] \in SUBSET Methods
    BY <2>1, <1>0, ConstantTypes DEF OpOK
  <2>3. next \in Writer
    BY <1>0, <2>2 DEF Writer, WriterPC
  <2>4. OpOK(next)
    BY <1>0, <2>1 DEF OpOK, Writer
  <2>5. LockAndClone(w, next)
    BY <1>1 DEF LockService
  <2> HIDE DEF next
  <2> QED BY <2>3, <2>4, <2>5, TypeLock DEF WriterOK
<1>2. CASE LockConn(w)
  <2> DEFINE next == [x EXCEPT !.pc = "fetch", !.s = state]
  <2>1. x.op = "conn" /\ x.pc = "lock"
    BY <1>2 DEF LockConn, LockAndClone
  <2>2. next \in Writer /\ OpOK(next)
    BY <1>0, <2>1 DEF Writer, WriterPC, OpOK
  <2>3. LockAndClone(w, next)
    BY <1>2 DEF LockConn
  <2> HIDE DEF next
  <2> QED BY <2>2, <2>3, TypeLock DEF WriterOK
<1>3. CASE LockDrop(w)
  <2> DEFINE next == IF state.conns[x.who] = NoConn
                       THEN [x EXCEPT !.pc = "return", !.s = state, !.ret = "false"]
                       ELSE [x EXCEPT !.pc = "remove", !.s = state,
                                      !.drop = state.conns[x.who].handlers]
  <2>1. x.op = "drop" /\ x.pc = "lock" /\ x.who \in Conns
    BY <1>0, <1>3 DEF LockDrop, LockAndClone, OpOK
  <2>2. state.conns[x.who] # NoConn => state.conns[x.who].handlers \in SUBSET Handler
    BY <1>0, <2>1 DEF State, ConnList
  <2>3. next \in Writer
    BY <1>0, <2>2 DEF Writer, WriterPC
  <2>4. OpOK(next)
    BY <1>0, <2>1 DEF OpOK, Writer
  <2>5. LockAndClone(w, next)
    BY <1>3 DEF LockDrop
  <2> HIDE DEF next
  <2> QED BY <2>3, <2>4, <2>5, TypeLock DEF WriterOK
<1> QED BY <1>1, <1>2, <1>3

LEMMA TypeFetch ==
  ASSUME TypeInv, NEW w \in Writers, NEW l, Fetch(w, l)
  PROVE  TypeInv'
<1> DEFINE x == wr[w]
           cl == x.s.conns[x.who]
           got == [x EXCEPT !.hash = l, !.files = {l[i] : i \in 1 .. Len(l)}]
           next == IF cl = NoConn THEN [got EXCEPT !.pc = "file"]
                   ELSE IF cl.hash = l THEN [x EXCEPT !.hash = l, !.pc = "store"]
                   ELSE [got EXCEPT !.pc = "remove", !.drop = cl.handlers]
<1>1. x \in Writer /\ OpOK(x) /\ x.op = "conn" /\ x.pc = "fetch" /\ l \in Offers[x.who]
  BY DEF TypeInv, TypeOK, Fetch, Local
<1>2. x.who \in Conns /\ l \in Seq(Files)
  BY <1>1, ConstantTypes DEF OpOK
<1>3. {l[i] : i \in 1 .. Len(l)} \in SUBSET Files
  BY <1>2
<1>4. cl # NoConn => cl.handlers \in SUBSET Handler
  BY <1>1, <1>2 DEF Writer, State, ConnList
<1>5. got \in Writer /\ got.op = "conn" /\ got.who = x.who /\ got.ret = x.ret
  BY <1>1, <1>2, <1>3 DEF Writer
<1> HIDE DEF got
<1>6. next \in Writer
  BY <1>1, <1>2, <1>4, <1>5 DEF Writer, WriterPC
<1>7. OpOK(next)
  BY <1>1, <1>2, <1>5 DEF OpOK, Writer
<1>8. Local(w, "fetch", next)
  BY DEF Fetch, got
<1> HIDE DEF next
<1> QED BY <1>6, <1>7, <1>8, TypeLocal DEF WriterOK

LEMMA TypeRemove ==
  ASSUME TypeInv, NEW w \in Writers,
         RemoveDone(w) \/ \E h \in wr[w].drop : RemoveOne(w, h)
  PROVE  TypeInv'
<1> DEFINE x == wr[w]
<1>0. x \in Writer /\ OpOK(x) /\ x.pc = "remove" /\ x.who \in Conns /\ x.s \in State
  BY DEF TypeInv, TypeOK, RemoveDone, RemoveOne, Local, OpOK, Writer
<1>1. ASSUME NEW h \in x.drop, RemoveOne(w, h)
      PROVE  TypeInv'
  <2> DEFINE left == [x.s EXCEPT !.handlers = @ \ {h}]
  <2>1. left \in State
    BY <1>0 DEF State
  <2>2. PICK t \in IF HandlersOf(left, h.method) = {}
                     THEN DelRule(left.path, h.method)
                     ELSE {left.path} :
               Local(w, "remove", [x EXCEPT !.s = [left EXCEPT !.path = t],
                                            !.drop = @ \ {h}])
    BY <1>1 DEF RemoveOne
  <2>3. t \subseteq left.path
    BY DelRuleShrinks
  <2> HIDE DEF left
  <2>4. [left EXCEPT !.path = t] \in State
    BY <2>1, <2>3 DEF State
  <2> DEFINE s2 == [left EXCEPT !.path = t]
             next == [x EXCEPT !.s = s2, !.drop = @ \ {h}]
  <2>5. s2 \in State /\ Local(w, "remove", next)
    BY <2>2, <2>4
  <2> HIDE DEF s2
  <2>6. next \in Writer /\ OpOK(next)
    BY <1>0, <2>5 DEF Writer, OpOK
  <2> HIDE DEF next
  <2> QED BY <2>5, <2>6, TypeLocal DEF WriterOK
<1>2. CASE RemoveDone(w)
  <2> DEFINE gone == [x EXCEPT !.s.conns[x.who] = NoConn]
             next == IF x.op = "drop"
                       THEN [gone EXCEPT !.pc = "return", !.ret = "true"]
                       ELSE [gone EXCEPT !.pc = "file"]
  <2>1. [x.s EXCEPT !.conns[x.who] = NoConn] \in State
    BY <1>0 DEF State
  <2>2. gone \in Writer /\ gone.op = x.op /\ gone.who = x.who /\ gone.ret = x.ret
    BY <1>0, <2>1 DEF Writer
  <2>3. Local(w, "remove", next)
    BY <1>2 DEF RemoveDone
  <2> HIDE DEF gone
  <2>4. next \in Writer /\ OpOK(next)
    BY <1>0, <2>2 DEF Writer, WriterPC, OpOK
  <2> HIDE DEF next
  <2> QED BY <2>3, <2>4, TypeLocal DEF WriterOK
<1> QED BY <1>1, <1>2

LEMMA TypeFails ==
  ASSUME TypeInv, NEW w \in Writers, FetchFails(w) \/ NewFileFails(w)
  PROVE  TypeInv'
<1> DEFINE x == wr[w]
           next == [x EXCEPT !.pc = "return", !.ret = "error"]
<1>1. x \in Writer /\ OpOK(x) /\ x.pc \in {"fetch", "file"}
  BY DEF TypeInv, TypeOK, FetchFails, NewFileFails, Local
<1>2. next \in Writer /\ OpOK(next)
  BY <1>1 DEF Writer, WriterPC, OpOK
<1>3. \E pc : Local(w, pc, next)
  BY DEF FetchFails, NewFileFails, Return
<1> HIDE DEF next
<1> QED BY <1>2, <1>3, TypeLocal DEF WriterOK

LEMMA TypeFiles ==
  ASSUME TypeInv, NEW w \in Writers,
         FilesDone(w) \/ \E f \in Files : NewFile(w, f)
  PROVE  TypeInv'
<1> DEFINE x == wr[w]
<1>0. x \in Writer /\ OpOK(x) /\ x.pc = "file" /\ x.op = "conn" /\ x.who \in Conns
  BY DEF TypeInv, TypeOK, FilesDone, NewFile, Local, OpOK
<1>1. ASSUME NEW f \in Files, NewFile(w, f)
      PROVE  TypeInv'
  <2> DEFINE next == [x EXCEPT !.pc = "method", !.files = @ \ {f},
                               !.todo = FileMethods[f]]
  <2>1. FileMethods[f] \in SUBSET Methods
    BY ConstantTypes
  <2>2. next \in Writer /\ OpOK(next)
    BY <1>0, <2>1 DEF Writer, WriterPC, OpOK
  <2>3. Local(w, "file", next)
    BY <1>1 DEF NewFile
  <2> HIDE DEF next
  <2> QED BY <2>2, <2>3, TypeLocal DEF WriterOK
<1>2. CASE FilesDone(w)
  <2> DEFINE cl == [handlers |-> x.added, hash |-> x.hash]
             next == [x EXCEPT !.pc = "store", !.s.conns[x.who] = cl]
  <2>1. cl \in ConnList /\ x.s \in State
    BY <1>0 DEF Writer, ConnList
  <2> HIDE DEF cl
  <2>2. [x.s EXCEPT !.conns[x.who] = cl] \in State
    BY <1>0, <2>1 DEF State
  <2>3. next \in Writer /\ OpOK(next)
    BY <1>0, <2>2 DEF Writer, WriterPC, OpOK
  <2>4. Local(w, "file", next)
    BY <1>2 DEF FilesDone, cl
  <2> HIDE DEF next
  <2> QED BY <2>3, <2>4, TypeLocal DEF WriterOK
<1> QED BY <1>1, <1>2

LEMMA TypeMethods ==
  ASSUME TypeInv, NEW w \in Writers,
         MethodsDone(w) \/ \E m \in Methods : BeginMethod(w, m)
  PROVE  TypeInv'
<1> DEFINE x == wr[w]
<1>0. x \in Writer /\ OpOK(x) /\ x.pc = "method" /\ x.op \in {"service", "conn"}
  BY DEF TypeInv, TypeOK, MethodsDone, BeginMethod, Local, OpOK
<1>1. ASSUME NEW m \in Methods, BeginMethod(w, m)
      PROVE  TypeInv'
  <2> DEFINE rules == <<ImplicitRule(m)>> \o Rules[m]
             next == IF x.op = "service" /\ m \notin Described
                       THEN [x EXCEPT !.pc = "return", !.ret = "error"]
                       ELSE [x EXCEPT !.pc = "rule", !.todo = @ \ {m}, !.cur = m,
                                      !.rules = rules]
  <2>1. rules \in Seq(Binding)
    BY ImplicitRuleType
  <2>2. Local(w, "method", next)
    BY <1>1 DEF BeginMethod, Return
  <2> HIDE DEF rules
  <2>3. next \in Writer /\ OpOK(next)
    BY <1>0, <2>1 DEF Writer, WriterPC, OpOK
  <2> HIDE DEF next
  <2> QED BY <2>2, <2>3, TypeLocal DEF WriterOK
<1>2. CASE MethodsDone(w)
  <2> DEFINE next == [x EXCEPT !.pc = IF x.op = "conn" THEN "file" ELSE "store"]
  <2>1. next \in Writer /\ OpOK(next)
    BY <1>0 DEF Writer, WriterPC, OpOK
  <2>2. Local(w, "method", next)
    BY <1>2 DEF MethodsDone
  <2> HIDE DEF next
  <2> QED BY <2>1, <2>2, TypeLocal DEF WriterOK
<1> QED BY <1>1, <1>2

(* The three ways out of addRule. *)
LEMMA OutcomeType ==
  ASSUME NEW t, NEW b, NEW m
  PROVE  AddRuleOutcome(t, b, m) \in {"error", "already", "panic", "added"}
BY DEF AddRuleOutcome

LEMMA TypeAddRule ==
  ASSUME TypeInv, NEW w \in Writers, AddRule(w)
  PROVE  TypeInv'
<1> DEFINE x == wr[w]
           b == Head(x.rules)
           outcome == AddRuleOutcome(x.s.path, b, x.cur)
           s2 == [x.s EXCEPT !.path = @ \cup {Entry(b, x.cur)}]
           next == CASE outcome = "added" ->
                          [x EXCEPT !.s.path = @ \cup {Entry(b, x.cur)},
                                    !.rules = Tail(@)]
                     [] outcome = "already" ->
                          [x EXCEPT !.rules = SubSeq(@, 2 + b.extra, Len(@))]
                     [] OTHER -> [x EXCEPT !.pc = "return", !.ret = outcome]
<1>1. x \in Writer /\ OpOK(x) /\ x.pc = "rule" /\ x.rules # <<>>
  BY DEF TypeInv, TypeOK, AddRule, Local
<1>2. x.s \in State /\ x.rules \in Seq(Binding) /\ x.cur \in Methods
      /\ x.op \in {"service", "conn"}
  BY <1>1 DEF Writer, OpOK
<1>3. /\ b \in Binding
      /\ Tail(x.rules) \in Seq(Binding)
      /\ SubSeq(x.rules, 2 + b.extra, Len(x.rules)) \in Seq(Binding)
  BY <1>1, <1>2, RestType
<1>4. Entry(b, x.cur) \in TreeEntry
  BY <1>2, <1>3, EntryType
<1>5. s2 \in State
  BY <1>2, <1>4 DEF State
<1>6. outcome \in {"error", "already", "panic", "added"}
  BY OutcomeType
<1>7. Local(w, "rule", next)
  BY DEF AddRule, Return
<1> HIDE DEF outcome
<1>8. CASE outcome = "added"
  <2> DEFINE n == [x EXCEPT !.s = s2, !.rules = Tail(@)]
  <2>1. next = n
    BY <1>8, <1>1 DEF Writer
  <2> HIDE DEF s2
  <2>2. n \in Writer /\ OpOK(n)
    BY <1>1, <1>2, <1>3, <1>5 DEF Writer, OpOK
  <2> HIDE DEF next, n
  <2> QED BY <2>1, <2>2, <1>7, TypeLocal DEF WriterOK
<1>9. CASE outcome = "already"
  <2> DEFINE n == [x EXCEPT !.rules = SubSeq(@, 2 + b.extra, Len(@))]
  <2>1. next = n
    BY <1>9
  <2>2. n \in Writer /\ OpOK(n)
    BY <1>1, <1>2, <1>3 DEF Writer, OpOK
  <2> HIDE DEF next, n
  <2> QED BY <2>1, <2>2, <1>7, TypeLocal DEF WriterOK
<1>10. CASE outcome \in {"error", "panic"}
  <2> DEFINE n == [x EXCEPT !.pc = "return", !.ret = outcome]
  <2>1. next = n
    BY <1>10
  <2>2. n \in Writer /\ OpOK(n)
    BY <1>1, <1>2, <1>10 DEF Writer, WriterPC, OpOK
  <2> HIDE DEF next, n
  <2> QED BY <2>1, <2>2, <1>7, TypeLocal DEF WriterOK
<1> QED BY <1>6, <1>8, <1>9, <1>10

LEMMA TypeAppend ==
  ASSUME TypeInv, NEW w \in Writers, AppendHandler(w)
  PROVE  TypeInv'
<1> DEFINE x == wr[w]
           h == [method |-> x.cur, owner |-> x.who, hash |-> x.hash]
           next == [x EXCEPT !.pc = "method", !.s.handlers = @ \cup {h},
                             !.added = @ \cup {h}, !.cur = NoMethod]
<1>1. x \in Writer /\ OpOK(x) /\ x.pc = "rule" /\ x.who \in Owners /\ x.cur \in Methods
  BY DEF TypeInv, TypeOK, AppendHandler, Local, OpOK, Owners
<1>2. h \in Handler
  BY <1>1 DEF Writer, Handler
<1>3. Local(w, "rule", next)
  BY DEF AppendHandler
<1> HIDE DEF h
<1>4. [x.s EXCEPT !.handlers = @ \cup {h}] \in State
  BY <1>1, <1>2 DEF Writer, State
<1>5. next \in Writer /\ OpOK(next)
  BY <1>1, <1>2, <1>4 DEF Writer, WriterPC, OpOK
<1> HIDE DEF next
<1> QED BY <1>3, <1>5, TypeLocal DEF WriterOK

LEMMA TypeStore ==
  ASSUME TypeInv, NEW w \in Writers, StoreState(w)
  PROVE  TypeInv'
<1> DEFINE x == wr[w]
           next == [x EXCEPT !.pc = "return", !.ret = "ok"]
<1>1. x \in Writer /\ OpOK(x) /\ x.pc = "store" /\ x.s \in State
  BY DEF TypeInv, TypeOK, StoreState, Writer
<1>2. next \in Writer /\ OpOK(next)
  BY <1>1 DEF Writer, WriterPC, OpOK
<1>3. wr' = [wr EXCEPT ![w] = next]
  BY DEF StoreState, Return
<1> HIDE DEF next
<1> QED BY <1>1, <1>2, <1>3 DEF TypeInv, TypeOK, StoreState

LEMMA TypeUnlock ==
  ASSUME TypeInv, NEW w \in Writers, Unlock(w)
  PROVE  TypeInv'
<1> DEFINE x == wr[w]
<1>1. x \in Writer /\ OpOK(x) /\ acked \in Acked
  BY DEF TypeInv, TypeOK
<1>2. acked' \in Acked
  BY <1>1 DEF Unlock, Acked, OpOK, Writer
<1>3. wr' = [wr EXCEPT ![w] = Idle] /\ WriterOK(Idle) /\ exited' \in BOOLEAN
  BY IdleOK DEF Unlock
<1> QED BY <1>2, <1>3 DEF TypeInv, TypeOK, Unlock, WriterOK

LEMMA TypeOpen ==
  ASSUME TypeInv, NEW w \in Writers, OpenStream(w) \/ OpenStreamFails(w)
  PROVE  TypeInv'
<1> DEFINE x == wr[w]
           next == [x EXCEPT !.pc = "lock"]
<1>1. x \in Writer /\ OpOK(x) /\ x.pc = "open"
  BY DEF TypeInv, TypeOK, OpenStream, OpenStreamFails
<1>2. WriterOK(next)
  BY <1>1 DEF WriterOK, Writer, WriterPC, OpOK
<1>3. wr' = [wr EXCEPT ![w] = next] \/ wr' = [wr EXCEPT ![w] = Idle]
  BY DEF OpenStream, OpenStreamFails
<1> HIDE DEF next
<1> QED BY <1>2, <1>3, IdleOK DEF TypeInv, TypeOK, OpenStream, OpenStreamFails, WriterOK

LEMMA TypeRequests ==
  ASSUME TypeInv, NEW r \in Readers, StartRequest(r) \/ Serve(r)
  PROVE  TypeInv'
<1> DEFINE x == rd[r]
<1>0. x \in Reader /\ state \in State
  BY DEF TypeInv, TypeOK
<1>1. Loaded \in Reader
  <2> DEFINE seen == {h.method : h \in state.handlers}
  <2>1. seen \in SUBSET Methods
    BY <1>0 DEF State, Handler
  <2>2. Loaded = [IdleReader EXCEPT !.snap = state, !.seen = seen]
    BY DEF Loaded
  <2> HIDE DEF seen
  <2> QED BY <1>0, <2>1, <2>2, IdleTypes DEF Reader
<1>2. ASSUME NEW q \in HTTPRequests, ServeHTTP(r, q)
      PROVE  TypeInv'
  <2>1. [Loaded EXCEPT !.pc = "match", !.req = q] \in Reader
    BY <1>1 DEF Reader
  <2> QED BY <1>2, <2>1, TypeReader DEF ServeHTTP
<1>3. ASSUME NEW m \in Methods, ServeGRPC(r, m)
      PROVE  TypeInv'
  <2>1. [Loaded EXCEPT !.pc = "pick", !.proto = "grpc", !.method = m] \in Reader
    BY <1>1 DEF Reader
  <2> QED BY <1>3, <2>1, TypeReader DEF ServeGRPC
<1>4. CASE Match(r)
  <2> DEFINE found(bad) == Search(x.snap.path \ bad, x.req.route, x.req.verb)
  <2>1. PICK bad \in SUBSET Capturing(x.snap.path) :
          \/ ReaderStep(r, "match", [x EXCEPT !.pc = "done", !.out = "NotFound"])
          \/ \E e \in found(bad) :
               ReaderStep(r, "match", [x EXCEPT !.pc = "pick", !.method = e.method])
          \/ ReaderStep(r, "match", [x EXCEPT !.pc = "done", !.out = "InvalidArgument"])
    BY <1>4 DEF Match
  <2>2. \A e \in found(bad) : e.method \in Methods
    BY <1>0 DEF Search, Matching, Reader, State, TreeEntry
  <2>3. /\ [x EXCEPT !.pc = "done", !.out = "NotFound"] \in Reader
        /\ [x EXCEPT !.pc = "done", !.out = "InvalidArgument"] \in Reader
    BY <1>0 DEF Reader
  <2>4. ASSUME NEW e \in found(bad)
        PROVE  [x EXCEPT !.pc = "pick", !.method = e.method] \in Reader
    BY <1>0, <2>2 DEF Reader
  <2> HIDE DEF found
  <2> QED BY <2>1, <2>3, <2>4, TypeReader
<1>5. CASE PickMethodHandler(r)
  <2> DEFINE hds == HandlersOf(x.snap, x.method)
  <2>1. \A h \in hds : h \in Handler
    BY <1>0 DEF HandlersOf, Reader, State
  <2>2. [x EXCEPT !.pc = "done", !.out = "Unimplemented"] \in Reader
    BY <1>0 DEF Reader
  <2>3. ASSUME NEW h \in hds
        PROVE  [x EXCEPT !.pc = "done", !.out = "handled", !.hd = h] \in Reader
    BY <1>0, <2>1 DEF Reader
  <2> HIDE DEF hds
  <2> QED BY <1>5, <2>2, <2>3, TypeReader DEF PickMethodHandler, hds
<1>6. CASE Respond(r)
  BY <1>6, IdleTypes, TypeReader DEF Respond
<1> QED BY <1>2, <1>3, <1>4, <1>5, <1>6 DEF StartRequest, Serve

LEMMA TypeInit == Init => TypeInv
<1> SUFFICES ASSUME Init PROVE TypeInv
  OBVIOUS
<1>1. wr \in [Writers -> Writer] /\ \A w \in Writers : OpOK(wr[w])
  BY IdleOK DEF Init, WriterOK
<1>2. rd \in [Readers -> Reader]
  BY IdleTypes DEF Init
<1>3. acked \in Acked
  BY DEF Init, Acked
<1>4. state \in State /\ mu = NoWriter /\ calls \in Nat
  BY EmptyStateType DEF Init
<1>5. exited \in BOOLEAN
  BY DEF Init
<1> QED BY <1>1, <1>2, <1>3, <1>4, <1>5 DEF TypeInv, TypeOK

LEMMA TypeNext == TypeInv /\ [Next]_vars => TypeInv'
<1> SUFFICES ASSUME TypeInv, [Next]_vars PROVE TypeInv'
  OBVIOUS
<1>1. ASSUME NEW w \in Writers, Call(w) PROVE TypeInv'
  BY <1>1, TypeCall
<1>2. ASSUME NEW w \in Writers, Backend(w) PROVE TypeInv'
  BY <1>2, TypeOpen, TypeFetch, TypeFails, TypeFiles DEF Backend
<1>3. ASSUME NEW w \in Writers, Compute(w) PROVE TypeInv'
  BY <1>3, TypeLocks, TypeRemove, TypeFiles, TypeMethods, TypeAddRule,
     TypeAppend, TypeStore, TypeUnlock DEF Compute
<1>4. ASSUME NEW r \in Readers, StartRequest(r) \/ Serve(r) PROVE TypeInv'
  BY <1>4, TypeRequests
<1>5. CASE UNCHANGED vars
  BY <1>5 DEF vars, TypeInv, TypeOK
<1> QED BY <1>1, <1>2, <1>3, <1>4, <1>5 DEF Next

(* Every reachable state is well typed: in particular every published state *)
(* and every clone is a state of the Go type, whatever the backends answer. *)
THEOREM TypeCorrect == Spec => []TypeOK
<1>1. Spec => []TypeInv
  BY TypeInit, TypeNext, PTL DEF Spec
<1>2. TypeInv => TypeOK
  BY DEF TypeInv
<1> QED BY <1>1, <1>2, PTL

-----------------------------------------------------------------------------
(* Routing. *)

(* No two entries of the tree t hold the same node and verb. *)
Unambiguous(t) == \A e, f \in t : e.node = f.node /\ e.verb = f.verb => e = f

LEMMA UnambiguousSubset ==
  ASSUME NEW t, NEW u \in SUBSET t, Unambiguous(t)
  PROVE  Unambiguous(u)
BY DEF Unambiguous

(* addRule adds only where it found neither a method of the verb nor        *)
(* methodAll.                                                               *)
LEMMA AddRuleUnambiguous ==
  ASSUME NEW t \in SUBSET TreeEntry, NEW b \in Binding, NEW m \in Methods,
         Unambiguous(t), AddRuleOutcome(t, b, m) = "added"
  PROVE  Unambiguous(t \cup {Entry(b, m)})
<1>1. MethodsAt(t, b) = {} /\ MethodAllAt(t, b) = {}
  BY DEF AddRuleOutcome
<1>2. \A e \in t : ~(e.node = b.node /\ e.verb = b.verb)
  BY <1>1 DEF MethodsAt, MethodAllAt
<1>3. Entry(b, m).node = b.node /\ Entry(b, m).verb = b.verb
  BY DEF Entry
<1> QED BY <1>2, <1>3 DEF Unambiguous

-----------------------------------------------------------------------------
(* The inductive invariant: every clone is unambiguous too.                 *)
PathsOK ==
  /\ TypeInv
  /\ Unambiguous(state.path)
  /\ \A w \in Writers : Unambiguous(wr[w].s.path)

LEMMA IdlePath == Unambiguous(Idle.s.path)
BY DEF Idle, EmptyState, Unambiguous

(* A step that leaves the published state alone and gives one writer an     *)
(* unambiguous tree.                                                        *)
LEMMA PathsStep ==
  ASSUME PathsOK, TypeInv', NEW w \in Writers, NEW n,
         wr' = [wr EXCEPT ![w] = n], state' = state, Unambiguous(n.s.path)
  PROVE  PathsOK'
<1>1. wr \in [Writers -> Writer]
  BY DEF PathsOK, TypeInv, TypeOK
<1>2. \A v \in Writers : wr'[v] = IF v = w THEN n ELSE wr[v]
  BY <1>1
<1> QED BY <1>2 DEF PathsOK, Unambiguous

(* What a writer's step may do to the tree of its clone.                    *)
LEMMA PathsCall ==
  ASSUME PathsOK, TypeInv', NEW w \in Writers, NEW op, NEW o, NEW pc,
         Begin(w, op, o, pc)
  PROVE  PathsOK'
<1>0. wr[w] \in Writer
  BY DEF PathsOK, TypeInv, TypeOK
<1> DEFINE n == [wr[w] EXCEPT !.pc = pc, !.op = op, !.who = o]
<1>2. n.s = wr[w].s
  BY <1>0 DEF Writer
<1>3. wr' = [wr EXCEPT ![w] = n] /\ state' = state
  BY DEF Begin
<1>4. Unambiguous(n.s.path)
  BY <1>2 DEF PathsOK
<1> HIDE DEF n
<1> QED BY <1>3, <1>4, PathsStep

LEMMA PathsLocks ==
  ASSUME PathsOK, TypeInv', NEW w \in Writers,
         LockService(w) \/ LockConn(w) \/ LockDrop(w)
  PROVE  PathsOK'
<1>0. wr[w] \in Writer
  BY DEF PathsOK, TypeInv, TypeOK
<1>1. ASSUME NEW n, LockAndClone(w, n), n.s = state PROVE PathsOK'
  <2>1. wr' = [wr EXCEPT ![w] = n] /\ state' = state
    BY <1>1 DEF LockAndClone
  <2>2. Unambiguous(n.s.path)
    BY <1>1 DEF PathsOK
  <2> QED BY <2>1, <2>2, PathsStep
<1>2. CASE LockService(w)
  <2> DEFINE n == IF wr[w].who \in Described
                    THEN [wr[w] EXCEPT !.pc = "method", !.s = state,
                                       !.todo = ServiceMethods[wr[w].who]]
                    ELSE [wr[w] EXCEPT !.pc = "return", !.s = state, !.ret = "error"]
  <2>1. LockAndClone(w, n)
    BY <1>2 DEF LockService
  <2>2. n.s = state
    BY <1>0 DEF Writer
  <2> HIDE DEF n
  <2> QED BY <1>1, <2>1, <2>2
<1>3. CASE LockConn(w)
  <2> DEFINE n == [wr[w] EXCEPT !.pc = "fetch", !.s = state]
  <2>1. LockAndClone(w, n)
    BY <1>3 DEF LockConn
  <2>2. n.s = state
    BY <1>0 DEF Writer
  <2> HIDE DEF n
  <2> QED BY <1>1, <2>1, <2>2
<1>4. CASE LockDrop(w)
  <2> DEFINE n == IF state.conns[wr[w].who] = NoConn
                    THEN [wr[w] EXCEPT !.pc = "return", !.s = state, !.ret = "false"]
                    ELSE [wr[w] EXCEPT !.pc = "remove", !.s = state,
                                       !.drop = state.conns[wr[w].who].handlers]
  <2>1. LockAndClone(w, n)
    BY <1>4 DEF LockDrop
  <2>2. n.s = state
    BY <1>0 DEF Writer
  <2> HIDE DEF n
  <2> QED BY <1>1, <2>1, <2>2
<1> QED BY <1>2, <1>3, <1>4

(* The steps that leave the tree of the clone as it is.                     *)
LEMMA PathsKept ==
  ASSUME PathsOK, TypeInv', NEW w \in Writers, NEW pc, NEW n,
         Local(w, pc, n), n.s.path = wr[w].s.path
  PROVE  PathsOK'
<1>1. wr' = [wr EXCEPT ![w] = n] /\ state' = state
  BY DEF Local
<1>2. Unambiguous(n.s.path)
  BY DEF PathsOK
<1> QED BY <1>1, <1>2, PathsStep

LEMMA PathsBackend ==
  ASSUME PathsOK, TypeInv', NEW w \in Writers, Backend(w)
  PROVE  PathsOK'
<1>0. wr[w] \in Writer
  BY DEF PathsOK, TypeInv, TypeOK
<1>1. CASE OpenStream(w)
  <2> DEFINE n == [wr[w] EXCEPT !.pc = "lock"]
  <2>1. wr' = [wr EXCEPT ![w] = n] /\ state' = state
    BY <1>1 DEF OpenStream
  <2>2. n.s = wr[w].s
    BY <1>0 DEF Writer
  <2>3. Unambiguous(n.s.path)
    BY <2>2 DEF PathsOK
  <2> HIDE DEF n
  <2> QED BY <2>1, <2>3, PathsStep
<1>2. CASE OpenStreamFails(w)
  BY <1>2, IdlePath, PathsStep DEF OpenStreamFails
<1>3. ASSUME NEW l, Fetch(w, l) PROVE PathsOK'
  <2> DEFINE cl == wr[w].s.conns[wr[w].who]
             got == [wr[w] EXCEPT !.hash = l, !.files = {l[i] : i \in 1 .. Len(l)}]
             n == IF cl = NoConn THEN [got EXCEPT !.pc = "file"]
                  ELSE IF cl.hash = l THEN [wr[w] EXCEPT !.hash = l, !.pc = "store"]
                  ELSE [got EXCEPT !.pc = "remove", !.drop = cl.handlers]
  <2>1. Local(w, "fetch", n)
    BY <1>3 DEF Fetch
  <2>2. n.s = wr[w].s
    BY <1>0 DEF Writer
  <2> HIDE DEF n
  <2> QED BY <2>1, <2>2, PathsKept
<1>4. CASE FetchFails(w) \/ NewFileFails(w)
  <2> DEFINE n == Return(w, "error")
  <2>1. Local(w, "fetch", n) \/ Local(w, "file", n)
    BY <1>4 DEF FetchFails, NewFileFails
  <2>2. n.s = wr[w].s
    BY <1>0 DEF Return, Writer
  <2> HIDE DEF n
  <2> QED BY <2>1, <2>2, PathsKept
<1>5. ASSUME NEW f, NewFile(w, f) PROVE PathsOK'
  <2> DEFINE n == [wr[w] EXCEPT !.pc = "method", !.files = @ \ {f},
                                !.todo = FileMethods[f]]
  <2>1. Local(w, "file", n)
    BY <1>5 DEF NewFile
  <2>2. n.s = wr[w].s
    BY <1>0 DEF Writer
  <2> HIDE DEF n
  <2> QED BY <2>1, <2>2, PathsKept
<1> QED BY <1>1, <1>2, <1>3, <1>4, <1>5 DEF Backend

(* removeHandler takes rules away.                                          *)
LEMMA PathsRemoveOne ==
  ASSUME PathsOK, TypeInv', NEW w \in Writers, NEW h, RemoveOne(w, h)
  PROVE  PathsOK'
<1> DEFINE x == wr[w]
           left == [x.s EXCEPT !.handlers = @ \ {h}]
<1>0. x \in Writer /\ x.s \in State
  BY DEF PathsOK, TypeInv, TypeOK, Writer
<1>1. PICK t \in IF HandlersOf(left, h.method) = {}
                   THEN DelRule(left.path, h.method)
                   ELSE {left.path} :
             Local(w, "remove", [x EXCEPT !.s = [left EXCEPT !.path = t],
                                          !.drop = @ \ {h}])
  BY DEF RemoveOne
<1>2. left.path = x.s.path /\ [left EXCEPT !.path = t].path = t
  BY <1>0 DEF State
<1>3. t \subseteq x.s.path
  BY <1>1, <1>2, DelRuleShrinks
<1>4. Unambiguous(t)
  BY <1>3, UnambiguousSubset DEF PathsOK
<1> DEFINE s2 == [left EXCEPT !.path = t]
           n == [x EXCEPT !.s = s2, !.drop = @ \ {h}]
<1>5. Local(w, "remove", n) /\ s2.path = t
  BY <1>1, <1>2
<1> HIDE DEF s2
<1>6. n.s = s2
  BY <1>0 DEF Writer
<1> HIDE DEF n
<1> QED BY <1>4, <1>5, <1>6, PathsStep DEF Local

LEMMA PathsAddRule ==
  ASSUME PathsOK, TypeInv', NEW w \in Writers, AddRule(w)
  PROVE  PathsOK'
<1> DEFINE x == wr[w]
           b == Head(x.rules)
           outcome == AddRuleOutcome(x.s.path, b, x.cur)
           t == x.s.path \cup {Entry(b, x.cur)}
<1>0. /\ x \in Writer /\ x.s \in State /\ x.s.path \in SUBSET TreeEntry
      /\ x.rules \in Seq(Binding) /\ x.rules # <<>> /\ x.cur \in Methods
  BY DEF PathsOK, TypeInv, TypeOK, Writer, State, OpOK, AddRule, Local
<1>1. b \in Binding
  BY <1>0, RestType
<1>2. PICK n : Local(w, "rule", n) /\ n = CASE outcome = "added" ->
                          [x EXCEPT !.s.path = @ \cup {Entry(b, x.cur)},
                                    !.rules = Tail(@)]
                     [] outcome = "already" ->
                          [x EXCEPT !.rules = SubSeq(@, 2 + b.extra, Len(@))]
                     [] OTHER -> [x EXCEPT !.pc = "return", !.ret = outcome]
  BY DEF AddRule, Return
<1>3. CASE outcome = "added"
  <2>1. n.s.path = t
    <3>1. n = [x EXCEPT !.s = [x.s EXCEPT !.path = t], !.rules = Tail(x.rules)]
      BY <1>0, <1>2, <1>3 DEF Writer
    <3> HIDE DEF t
    <3> QED BY <1>0, <3>1 DEF Writer, State
  <2>2. Unambiguous(t)
    BY <1>0, <1>1, <1>3, AddRuleUnambiguous DEF PathsOK
  <2> HIDE DEF t
  <2> QED BY <1>2, <2>1, <2>2, PathsStep DEF Local
<1>4. CASE outcome # "added"
  <2>1. n.s = x.s
    <3>1. outcome \in {"error", "already", "panic"}
      BY <1>4, OutcomeType
    <3> HIDE DEF outcome
    <3> QED BY <1>0, <1>2, <3>1 DEF Writer
  <2> QED BY <1>2, <2>1, PathsKept
<1> QED BY <1>3, <1>4

LEMMA PathsCompute ==
  ASSUME PathsOK, TypeInv', NEW w \in Writers, Compute(w)
  PROVE  PathsOK'
<1> DEFINE x == wr[w]
<1>0. x \in Writer /\ x.s \in State
  BY DEF PathsOK, TypeInv, TypeOK, Writer
<1>1. CASE RemoveDone(w)
  <2> DEFINE gone == [x EXCEPT !.s.conns[x.who] = NoConn]
  <2>1. gone.s.path = x.s.path
    BY <1>0 DEF Writer, State
  <2>2. gone \in [DOMAIN gone -> {gone[f] : f \in DOMAIN gone}] /\ DOMAIN gone = DOMAIN x
    BY <1>0 DEF Writer
  <2>3. PICK n : /\ Local(w, "remove", n)
                 /\ n = IF x.op = "drop"
                          THEN [gone EXCEPT !.pc = "return", !.ret = "true"]
                          ELSE [gone EXCEPT !.pc = "file"]
    BY <1>1 DEF RemoveDone
  <2> HIDE DEF gone
  <2>4. n.s = gone.s
    BY <1>0, <2>2, <2>3 DEF Writer
  <2> QED BY <2>1, <2>3, <2>4, PathsKept
<1>2. CASE FilesDone(w)
  <2> DEFINE n == [x EXCEPT !.pc = "store",
                            !.s.conns[x.who] = [handlers |-> x.added, hash |-> x.hash]]
  <2>1. Local(w, "file", n)
    BY <1>2 DEF FilesDone
  <2>2. n.s.path = x.s.path
    BY <1>0 DEF Writer, State
  <2> HIDE DEF n
  <2> QED BY <2>1, <2>2, PathsKept
<1>3. ASSUME NEW m, BeginMethod(w, m) PROVE PathsOK'
  <2> DEFINE n == IF x.op = "service" /\ m \notin Described
                    THEN [x EXCEPT !.pc = "return", !.ret = "error"]
                    ELSE [x EXCEPT !.pc = "rule", !.todo = @ \ {m}, !.cur = m,
                                   !.rules = <<ImplicitRule(m)>> \o Rules[m]]
  <2>1. Local(w, "method", n)
    BY <1>3 DEF BeginMethod, Return
  <2>2. n.s = x.s
    BY <1>0 DEF Writer
  <2> HIDE DEF n
  <2> QED BY <2>1, <2>2, PathsKept
<1>4. CASE MethodsDone(w)
  <2>1. PICK n : Local(w, "method", n) /\ n.s = x.s
    BY <1>0, <1>4 DEF MethodsDone, Writer
  <2> QED BY <2>1, PathsKept
<1>5. CASE AppendHandler(w)
  <2> DEFINE h == [method |-> x.cur, owner |-> x.who, hash |-> x.hash]
             n == [x EXCEPT !.pc = "method", !.s.handlers = @ \cup {h},
                            !.added = @ \cup {h}, !.cur = NoMethod]
  <2>1. Local(w, "rule", n)
    BY <1>5 DEF AppendHandler
  <2>2. n.s.path = x.s.path
    BY <1>0 DEF Writer, State
  <2> HIDE DEF n
  <2> QED BY <2>1, <2>2, PathsKept
<1>6. CASE StoreState(w)
  <2> DEFINE n == Return(w, "ok")
  <2>1. wr' = [wr EXCEPT ![w] = n] /\ state' = x.s
    BY <1>6 DEF StoreState
  <2>2. n.s = x.s
    BY <1>0 DEF Return, Writer
  <2> HIDE DEF n
  <2>3. \A v \in Writers : wr'[v].s = wr[v].s
    BY <2>1, <2>2 DEF PathsOK, TypeInv, TypeOK
  <2> QED BY <2>1, <2>3 DEF PathsOK, Unambiguous
<1>7. CASE Unlock(w)
  BY <1>7, IdlePath, PathsStep DEF Unlock
<1> QED BY <1>1, <1>2, <1>3, <1>4, <1>5, <1>6, <1>7, PathsLocks,
           PathsRemoveOne, PathsAddRule DEF Compute

LEMMA PathsInit == Init => PathsOK
BY TypeInit, IdlePath DEF Init, PathsOK, EmptyState, Unambiguous

LEMMA PathsNext == PathsOK /\ [Next]_vars => PathsOK'
<1> SUFFICES ASSUME PathsOK, [Next]_vars PROVE PathsOK'
  OBVIOUS
<1>0. TypeInv'
  BY TypeNext DEF PathsOK
<1>1. ASSUME NEW w \in Writers, Call(w) \/ Backend(w) \/ Compute(w) PROVE PathsOK'
  <2>1. ASSUME NEW svc \in Services, RegisterServiceFatal(w, svc) PROVE PathsOK'
    BY <1>0, <2>1 DEF RegisterServiceFatal, PathsOK, Unambiguous
  <2>2. CASE Call(w)
    BY <1>0, <2>1, <2>2, PathsCall DEF Call, RegisterService, RegisterConn, DropConn
  <2> QED BY <1>0, <1>1, <2>2, PathsBackend, PathsCompute
<1>2. ASSUME NEW r \in Readers, StartRequest(r) \/ Serve(r) PROVE PathsOK'
  <2>1. UNCHANGED <<state, wr>>
    BY <1>2 DEF StartRequest, Serve, ServeHTTP, ServeGRPC, Match,
                PickMethodHandler, Respond, ReaderStep
  <2> QED BY <1>0, <2>1 DEF PathsOK, Unambiguous
<1>3. CASE UNCHANGED vars
  BY <1>0, <1>3 DEF vars, PathsOK, Unambiguous
<1> QED BY <1>1, <1>2, <1>3 DEF Next

(* Routing is a function: whatever the order of registrations, re-          *)
(* registrations and removals, and whatever rules the backends bring, no    *)
(* published tree binds a node and a verb to two methods.                   *)
THEOREM RoutingIsAFunction == Spec => []RulesUnambiguous
<1>1. PathsOK => RulesUnambiguous
  BY DEF PathsOK, Unambiguous, RulesUnambiguous
<1> QED BY <1>1, PathsInit, PathsNext, PTL DEF Spec

-----------------------------------------------------------------------------
(* Requests. *)

(* What a request saw at its load is what its snapshot serves, and its      *)
(* answer was decided on that snapshot.                                     *)
RequestOK(x) ==
  /\ x.seen = {h.method : h \in x.snap.handlers}
  /\ x.pc = "done" => /\ x.out = "Unimplemented" => x.method \notin x.seen
                      /\ x.out = "handled" => x.hd.method \in x.seen

RequestsOK == TypeInv /\ \A r \in Readers : RequestOK(rd[r])

LEMMA RequestsStep ==
  ASSUME RequestsOK, TypeInv', NEW r \in Readers, NEW pc, NEW n,
         ReaderStep(r, pc, n), RequestOK(n)
  PROVE  RequestsOK'
<1>1. rd \in [Readers -> Reader] /\ rd' = [rd EXCEPT ![r] = n]
  BY DEF RequestsOK, TypeInv, TypeOK, ReaderStep
<1>2. \A v \in Readers : rd'[v] = IF v = r THEN n ELSE rd[v]
  BY <1>1
<1> QED BY <1>2 DEF RequestsOK, RequestOK

LEMMA RequestsServed ==
  ASSUME RequestsOK, TypeInv', NEW r \in Readers, StartRequest(r) \/ Serve(r)
  PROVE  RequestsOK'
<1> DEFINE x == rd[r]
<1>0. x \in Reader /\ RequestOK(x)
  BY DEF RequestsOK, TypeInv, TypeOK
<1>1. /\ Loaded.snap = state /\ Loaded.seen = {h.method : h \in state.handlers}
      /\ RequestOK(IdleReader)
  BY DEF Loaded, IdleReader, RequestOK, EmptyState
<1>2. ASSUME NEW q, ServeHTTP(r, q) PROVE RequestsOK'
  <2> DEFINE n == [Loaded EXCEPT !.pc = "match", !.req = q]
  <2>1. ReaderStep(r, "idle", n)
    BY <1>2 DEF ServeHTTP
  <2>2. RequestOK(n)
    BY DEF Loaded, IdleReader, RequestOK
  <2> HIDE DEF n
  <2> QED BY <2>1, <2>2, RequestsStep
<1>3. ASSUME NEW m, ServeGRPC(r, m) PROVE RequestsOK'
  <2> DEFINE n == [Loaded EXCEPT !.pc = "pick", !.proto = "grpc", !.method = m]
  <2>1. ReaderStep(r, "idle", n)
    BY <1>3 DEF ServeGRPC
  <2>2. RequestOK(n)
    BY DEF Loaded, IdleReader, RequestOK
  <2> HIDE DEF n
  <2> QED BY <2>1, <2>2, RequestsStep
<1>4. CASE Match(r)
  <2>1. PICK n : /\ ReaderStep(r, "match", n)
                 /\ \/ n = [x EXCEPT !.pc = "done", !.out = "NotFound"]
                    \/ n = [x EXCEPT !.pc = "done", !.out = "InvalidArgument"]
                    \/ \E m : n = [x EXCEPT !.pc = "pick", !.method = m]
    BY <1>4 DEF Match
  <2>2. RequestOK(n)
    BY <1>0, <2>1 DEF RequestOK, Reader
  <2> QED BY <2>1, <2>2, RequestsStep
<1>5. CASE PickMethodHandler(r)
  <2> DEFINE hds == HandlersOf(x.snap, x.method)
  <2>1. PICK n : /\ ReaderStep(r, "pick", n)
                 /\ \/ /\ hds = {}
                       /\ n = [x EXCEPT !.pc = "done", !.out = "Unimplemented"]
                    \/ \E h \in hds :
                         n = [x EXCEPT !.pc = "done", !.out = "handled", !.hd = h]
    BY <1>5 DEF PickMethodHandler
  <2>2. hds = {} => x.method \notin x.seen
    BY <1>0 DEF RequestOK, HandlersOf
  <2>3. \A h \in hds : h.method \in x.seen
    BY <1>0 DEF RequestOK, HandlersOf
  <2> HIDE DEF hds
  <2>4. RequestOK(n)
    BY <1>0, <2>1, <2>2, <2>3 DEF RequestOK, Reader
  <2> QED BY <2>1, <2>4, RequestsStep
<1>6. CASE Respond(r)
  BY <1>1, <1>6, RequestsStep DEF Respond
<1> QED BY <1>2, <1>3, <1>4, <1>5, <1>6 DEF StartRequest, Serve

LEMMA RequestsInit == Init => RequestsOK
BY TypeInit DEF Init, RequestsOK, RequestOK, IdleReader, EmptyState

LEMMA RequestsNext == RequestsOK /\ [Next]_vars => RequestsOK'
<1> SUFFICES ASSUME RequestsOK, [Next]_vars PROVE RequestsOK'
  OBVIOUS
<1>0. TypeInv'
  BY TypeNext DEF RequestsOK
<1>1. ASSUME NEW w \in Writers, Call(w) \/ Backend(w) \/ Compute(w) PROVE rd' = rd
  BY <1>1 DEF Call, RegisterService, RegisterServiceFatal, RegisterConn, DropConn, Begin, Backend,
              OpenStream, OpenStreamFails, Fetch, FetchFails, NewFile,
              NewFileFails, Compute, LockService, LockConn, LockDrop,
              LockAndClone, RemoveOne, RemoveDone, FilesDone, BeginMethod,
              MethodsDone, AddRule, AppendHandler, StoreState, Unlock, Local
<1>2. ASSUME NEW r \in Readers, StartRequest(r) \/ Serve(r) PROVE RequestsOK'
  BY <1>0, <1>2, RequestsServed
<1>3. CASE rd' = rd
  BY <1>0, <1>3 DEF RequestsOK, RequestOK
<1> QED BY <1>1, <1>2, <1>3 DEF Next, vars

(* A request is answered from one state: whatever writers publish while it  *)
(* runs, it finds a handler exactly when the state it loaded had one.       *)
THEOREM RequestsUseOneState == Spec => []OneStatePerRequest
<1>1. RequestsOK => OneStatePerRequest
  BY DEF RequestsOK, RequestOK, OneStatePerRequest
<1> QED BY <1>1, RequestsInit, RequestsNext, PTL DEF Spec

-----------------------------------------------------------------------------
(* The inductive invariant speaks of a writer's locals x and of the         *)
(* published state st.                                                      *)

Critical(x) == x.pc \notin {"idle", "open", "lock"}

MethodsOf(hs) == {h.method : h \in hs}

MethodsIn(fs) == UNION {FileMethods[f] : f \in fs}

(* What the clone of x must end up serving for its owner, what of it is     *)
(* still to be built, and what the clone kept for its owner.                *)
Target(x) == IF x.op = "conn" THEN MethodsListed(x.hash) ELSE ServiceMethods[x.who]

Pending(x) ==
  x.todo \cup MethodsIn(x.files) \cup (IF x.pc = "rule" THEN {x.cur} ELSE {})

Kept(x, st) == IF x.op = "conn" THEN {} ELSE OwnedBy(st, x.who)

(* The owners other than x's are in the clone as they are published. *)
Frame(x, st) ==
  \A o \in Owners \ {x.who} :
    /\ OwnedBy(x.s, o) = OwnedBy(st, o)
    /\ o \in Conns => x.s.conns[o] = st.conns[o]

Fetching(x, st) ==
  x.pc = "fetch" => /\ OwnedBy(x.s, x.who) = OwnedBy(st, x.who)
                    /\ x.s.conns[x.who] = st.conns[x.who]

Removing(x) ==
  x.pc = "remove" => /\ OwnedBy(x.s, x.who) = x.drop
                     /\ x.added = {}

Building(x, st) ==
  /\ x.pc \in {"remove", "file", "method", "rule"} /\ x.op # "drop" =>
       /\ Target(x) = MethodsOf(x.added) \cup Pending(x)
       /\ x.op = "conn" => x.hash \in Offers[x.who]
  /\ x.pc \in {"file", "method", "rule"} => OwnedBy(x.s, x.who) = Kept(x, st) \cup x.added

Storing(x, st) ==
  x.pc = "store" =>
    /\ MethodsOf(OwnedBy(x.s, x.who)) = Target(x)
    /\ x.op = "conn" => /\ x.hash \in Offers[x.who]
                        /\ x.s.conns[x.who] # NoConn
                        /\ x.s.conns[x.who].hash = x.hash
                        /\ x.s.conns[x.who].handlers = OwnedBy(x.s, x.who)

Stored(x, st) ==
  x.ret = "ok" =>
    /\ x.op = "conn" => st.conns[x.who] # NoConn /\ st.conns[x.who].hash = x.hash
    /\ x.op = "service" => MethodsOf(OwnedBy(st, x.who)) = ServiceMethods[x.who]

(* Locals that are not in use are empty. *)
Fresh(x) ==
  /\ x.pc \in {"idle", "open", "lock", "fetch"} => x.added = {}
  /\ x.pc \notin {"method", "rule", "return"} => x.todo = {}
  /\ x.pc \in {"idle", "open", "lock", "fetch"} \/ x.op = "service" => x.files = {}

WriterInv(x, st) ==
  /\ Fresh(x)
  /\ Critical(x) => /\ Frame(x, st) /\ Fetching(x, st) /\ Removing(x)
                    /\ Building(x, st) /\ Storing(x, st) /\ Stored(x, st)

Mutex == \A w \in Writers : Critical(wr[w]) <=> mu = w

(* A service answers no method that is not its own. *)
ServicesWhole(st) ==
  \A svc \in Services : MethodsOf(OwnedBy(st, svc)) \subseteq ServiceMethods[svc]

RegistryInv ==
  /\ TypeInv
  /\ Mutex
  /\ TablesAgree(state)
  /\ ServicesWhole(state)
  /\ \A w \in Writers : WriterInv(wr[w], state)
  /\ NoLostUpdate

-----------------------------------------------------------------------------
LEMMA InvInit == Init => RegistryInv
<1> SUFFICES ASSUME Init PROVE RegistryInv
  OBVIOUS
<1>1. TypeInv
  BY TypeInit
<1>2. \A w \in Writers : wr[w] = Idle
  BY DEF Init
<1>3. Mutex
  BY <1>2, ConstantsDistinct DEF Mutex, Critical, Idle, Init
<1>4. TablesAgree(state) /\ ServicesWhole(state)
  BY DEF Init, EmptyState, TablesAgree, ServicesWhole, OwnedBy, MethodsOf
<1>5. WriterInv(Idle, state)
  BY DEF WriterInv, Idle, Critical, Fresh
<1>6. NoLostUpdate
  BY DEF NoLostUpdate, Init
<1> QED BY <1>1, <1>2, <1>3, <1>4, <1>5, <1>6 DEF RegistryInv

(* A step of the holder that only rewrites its locals: it is enough to look *)
(* at the record it leaves.                                                 *)
LEMMA SafeLocal ==
  ASSUME RegistryInv, TypeInv', NEW w \in Writers, NEW next,
         NEW pc \in WriterPC \ {"idle", "open", "lock", "return"},
         Local(w, pc, next), Critical(next), WriterInv(next, state)
  PROVE  RegistryInv'
<1>1. wr[w].pc = pc /\ wr \in [Writers -> Writer] /\ Critical(wr[w])
  BY DEF Local, RegistryInv, TypeInv, TypeOK, Critical
<1>2. wr' = [wr EXCEPT ![w] = next] /\ UNCHANGED <<mu, state, acked>>
  BY DEF Local
<1>3. wr'[w] = next /\ \A v \in Writers \ {w} : wr'[v] = wr[v]
  BY <1>1, <1>2
<1>4. Mutex'
  BY <1>1, <1>2, <1>3 DEF RegistryInv, Mutex
<1>5. \A v \in Writers : WriterInv(wr[v], state)'
  <2> SUFFICES ASSUME NEW v \in Writers PROVE WriterInv(wr'[v], state')
    BY DEF WriterInv, Fresh, Critical, Frame, Fetching, Removing, Building,
           Storing, Stored, OwnedBy, Kept, MethodsOf, Target, Pending
  <2> QED BY <1>2, <1>3 DEF RegistryInv
<1>6. NoLostUpdate'
  <2>1. \A v \in Writers : wr[v].pc = "return" => v # w
    BY <1>1
  <2>2. \A c \in Conns : Returning(c) => Returning(c)'
    BY <1>3, <2>1 DEF Returning
  <2> QED BY <1>2, <2>2 DEF NoLostUpdate, RegistryInv
<1>7. TablesAgree(state)' /\ ServicesWhole(state)'
  BY <1>2 DEF RegistryInv, TablesAgree, ServicesWhole, OwnedBy, MethodsOf
<1> QED BY <1>4, <1>5, <1>6, <1>7 DEF RegistryInv

(* What is known of the writer before its step. *)
LEMMA BeforeStep ==
  ASSUME RegistryInv, NEW w \in Writers
  PROVE  /\ wr[w] \in Writer /\ OpOK(wr[w]) /\ WriterInv(wr[w], state)
         /\ wr[w].s \in State /\ state \in State
         /\ TablesAgree(state) /\ ServicesWhole(state)
BY DEF RegistryInv, TypeInv, TypeOK, Writer

(* The steps that change no field the invariant reads except pc and ret. *)
LEMMA SafeReturn ==
  ASSUME NEW x \in Writer, NEW st, NEW ret \in {"error", "panic", "true", "false"},
         Critical(x), WriterInv(x, st)
  PROVE  LET next == [x EXCEPT !.pc = "return", !.ret = ret]
         IN Critical(next) /\ WriterInv(next, st)
<1> DEFINE next == [x EXCEPT !.pc = "return", !.ret = ret]
<1>1. /\ next.pc = "return" /\ next.ret = ret /\ next.s = x.s /\ next.who = x.who
      /\ next.op = x.op /\ next.files = x.files
  BY DEF Writer
<1> HIDE DEF next
<1>2. Frame(next, st)
  BY <1>1 DEF WriterInv, Frame
<1>3. Fresh(next)
  BY <1>1 DEF WriterInv, Fresh
<1>4. Critical(next) /\ WriterInv(next, st)
  BY <1>1, <1>2, <1>3 DEF WriterInv, Critical, Fetching, Removing, Building, Storing, Stored
<1> QED BY <1>4 DEF next

LEMMA SafeFails ==
  ASSUME RegistryInv, TypeInv', NEW w \in Writers, FetchFails(w) \/ NewFileFails(w)
  PROVE  RegistryInv'
<1> DEFINE x == wr[w]
           next == [x EXCEPT !.pc = "return", !.ret = "error"]
<1>1. x \in Writer /\ WriterInv(x, state)
  BY BeforeStep
<1>2. PICK pc \in {"fetch", "file"} : Local(w, pc, next)
  BY DEF FetchFails, NewFileFails, Return
<1>3. Critical(x)
  BY <1>2 DEF Local, Critical
<1>4. Critical(next) /\ WriterInv(next, state)
  BY <1>1, <1>3, SafeReturn
<1> HIDE DEF next
<1> QED BY <1>2, <1>4, SafeLocal DEF WriterPC

LEMMA SafeFetch ==
  ASSUME RegistryInv, TypeInv', NEW w \in Writers, NEW l, Fetch(w, l)
  PROVE  RegistryInv'
<1> DEFINE x == wr[w]
           cl == x.s.conns[x.who]
           fs == {l[i] : i \in 1 .. Len(l)}
           got == [x EXCEPT !.hash = l, !.files = fs]
           next == IF cl = NoConn THEN [got EXCEPT !.pc = "file"]
                   ELSE IF cl.hash = l THEN [x EXCEPT !.hash = l, !.pc = "store"]
                   ELSE [got EXCEPT !.pc = "remove", !.drop = cl.handlers]
<1>1. /\ x \in Writer /\ OpOK(x) /\ WriterInv(x, state) /\ TablesAgree(state)
      /\ x.op = "conn" /\ x.pc = "fetch" /\ l \in Offers[x.who] /\ Critical(x)
      /\ x.ret = "none"
  BY BeforeStep DEF Fetch, Local, Critical, OpOK
<1>2. x.who \in Conns
  BY <1>1 DEF OpOK
<1>3. Local(w, "fetch", next)
  BY DEF Fetch
<1>4. /\ x.added = {} /\ x.todo = {} /\ Frame(x, state)
      /\ OwnedBy(x.s, x.who) = OwnedBy(state, x.who) /\ cl = state.conns[x.who]
  BY <1>1 DEF WriterInv, Fresh, Fetching
<1>5. MethodsIn(fs) = MethodsListed(l)
  BY DEF MethodsIn, MethodsListed
<1> HIDE DEF fs
<1>6. /\ next.who = x.who /\ next.op = "conn" /\ next.s = x.s /\ next.added = {}
      /\ next.todo = {} /\ next.hash = l /\ next.ret = "none"
      /\ next.pc \in {"file", "store", "remove"}
      /\ next.pc \in {"file", "remove"} => next.files = fs
      /\ next.pc = "file" => cl = NoConn
      /\ next.pc = "store" => cl # NoConn /\ cl.hash = l
      /\ next.pc = "remove" => cl # NoConn /\ next.drop = cl.handlers
  BY <1>1, <1>4 DEF Writer
<1> HIDE DEF next, cl
<1>7. Frame(next, state) /\ Fresh(next) /\ Fetching(next, state) /\ Stored(next, state)
  BY <1>4, <1>6 DEF Frame, Fresh, Fetching, Stored
<1>8. IF cl = NoConn THEN OwnedBy(x.s, x.who) = {}
      ELSE OwnedBy(x.s, x.who) = cl.handlers
           /\ MethodsOf(OwnedBy(x.s, x.who)) = MethodsListed(cl.hash)
  BY <1>1, <1>2, <1>4 DEF TablesAgree, MethodsOf
<1>9. Removing(next)
  BY <1>6, <1>8 DEF Removing
<1>10. Building(next, state)
  <2>1. next.pc \in {"file", "remove"} => Pending(next) = MethodsListed(l)
    BY <1>5, <1>6 DEF Pending
  <2>2. MethodsOf(next.added) = {}
    BY <1>6 DEF MethodsOf
  <2>3. Target(next) = MethodsListed(l) /\ Kept(next, state) = {}
    BY <1>6 DEF Target, Kept
  <2> QED BY <1>1, <1>6, <1>8, <2>1, <2>2, <2>3 DEF Building
<1>11. Storing(next, state)
  BY <1>1, <1>6, <1>8 DEF Storing, Target, cl
<1>12. Critical(next) /\ WriterInv(next, state)
  BY <1>6, <1>7, <1>9, <1>10, <1>11 DEF WriterInv, Critical
<1> QED BY <1>3, <1>12, SafeLocal DEF WriterPC

LEMMA SafeRemoveOne ==
  ASSUME RegistryInv, TypeInv', NEW w \in Writers, NEW h \in wr[w].drop, RemoveOne(w, h)
  PROVE  RegistryInv'
<1> DEFINE x == wr[w]
           left == [x.s EXCEPT !.handlers = @ \ {h}]
<1>1. PICK t : Local(w, "remove", [x EXCEPT !.s = [left EXCEPT !.path = t],
                                            !.drop = @ \ {h}])
  BY DEF RemoveOne
<1> DEFINE s2 == [left EXCEPT !.path = t]
           next == [x EXCEPT !.s = s2, !.drop = @ \ {h}]
<1>2. /\ x \in Writer /\ OpOK(x) /\ WriterInv(x, state) /\ x.s \in State
      /\ x.pc = "remove" /\ Critical(x) /\ x.ret = "none"
  BY <1>1, BeforeStep DEF Local, Critical, OpOK
<1>3. s2.handlers = x.s.handlers \ {h} /\ s2.conns = x.s.conns
  BY <1>2 DEF State
<1> HIDE DEF s2
<1>4. /\ next.pc = x.pc /\ next.op = x.op /\ next.who = x.who /\ next.s = s2
      /\ next.hash = x.hash /\ next.files = x.files /\ next.todo = x.todo
      /\ next.added = x.added /\ next.ret = x.ret /\ next.cur = x.cur
      /\ next.drop = x.drop \ {h}
  BY <1>2 DEF Writer
<1>5. OwnedBy(x.s, x.who) = x.drop /\ h.owner = x.who
  BY <1>2 DEF WriterInv, Removing, OwnedBy
<1> HIDE DEF next
<1>6. Frame(next, state)
  <2>1. \A o \in Owners \ {x.who} : OwnedBy(s2, o) = OwnedBy(x.s, o)
    BY <1>3, <1>5 DEF OwnedBy
  <2> QED BY <1>2, <1>3, <1>4, <2>1 DEF Frame, WriterInv
<1>7. Removing(next)
  BY <1>2, <1>3, <1>4, <1>5 DEF Removing, OwnedBy, WriterInv
<1>8. Building(next, state)
  BY <1>2, <1>4 DEF Building, WriterInv, Target, Pending
<1>9. Fresh(next) /\ Fetching(next, state) /\ Storing(next, state) /\ Stored(next, state)
  BY <1>2, <1>4 DEF WriterInv, Fresh, Fetching, Storing, Stored
<1>10. Critical(next) /\ WriterInv(next, state)
  BY <1>2, <1>4, <1>6, <1>7, <1>8, <1>9 DEF WriterInv, Critical
<1>11. Local(w, "remove", next)
  BY <1>1 DEF next, s2
<1> QED BY <1>10, <1>11, SafeLocal DEF WriterPC

LEMMA SafeRemoveDone ==
  ASSUME RegistryInv, TypeInv', NEW w \in Writers, RemoveDone(w)
  PROVE  RegistryInv'
<1> DEFINE x == wr[w]
           s2 == [x.s EXCEPT !.conns[x.who] = NoConn]
           gone == [x EXCEPT !.s.conns[x.who] = NoConn]
           next == IF x.op = "drop"
                     THEN [gone EXCEPT !.pc = "return", !.ret = "true"]
                     ELSE [gone EXCEPT !.pc = "file"]
<1>1. /\ x \in Writer /\ OpOK(x) /\ WriterInv(x, state) /\ x.s \in State
      /\ x.pc = "remove" /\ x.drop = {} /\ Critical(x) /\ x.ret = "none"
      /\ x.op \in {"conn", "drop"}
  BY BeforeStep DEF RemoveDone, Local, Critical, OpOK
<1>2. Local(w, "remove", next)
  BY DEF RemoveDone
<1>3. s2.handlers = x.s.handlers /\ \A o \in Conns \ {x.who} : s2.conns[o] = x.s.conns[o]
  BY <1>1 DEF State
<1>4. /\ gone \in Writer
      /\ gone.s = s2 /\ gone.op = x.op /\ gone.who = x.who /\ gone.hash = x.hash
      /\ gone.files = x.files /\ gone.todo = x.todo /\ gone.added = x.added
      /\ gone.ret = x.ret
  BY <1>1 DEF Writer, State, OpOK
<1> HIDE DEF gone, s2
<1>5. /\ next.s = s2 /\ next.op = x.op /\ next.who = x.who /\ next.hash = x.hash
      /\ next.files = x.files /\ next.todo = x.todo /\ next.added = x.added
      /\ x.op = "drop" => next.pc = "return" /\ next.ret = "true"
      /\ x.op = "conn" => next.pc = "file" /\ next.ret = "none"
  BY <1>1, <1>4 DEF Writer
<1> HIDE DEF next
<1>6. \A o : OwnedBy(s2, o) = OwnedBy(x.s, o)
  BY <1>3 DEF OwnedBy
<1>7. Frame(next, state)
  BY <1>1, <1>3, <1>5, <1>6 DEF Frame, WriterInv
<1>8. Building(next, state)
  <2>1. x.op = "conn" => Pending(next) = Pending(x) /\ Target(next) = Target(x)
                         /\ Kept(next, state) = {}
    BY <1>1, <1>5 DEF Pending, Target, Kept
  <2>2. OwnedBy(s2, x.who) = {} /\ x.added = {}
    BY <1>1, <1>6 DEF WriterInv, Removing
  <2> QED BY <1>1, <1>5, <2>1, <2>2 DEF Building, WriterInv
<1>9. /\ Fresh(next) /\ Fetching(next, state) /\ Removing(next)
      /\ Storing(next, state) /\ Stored(next, state)
  BY <1>1, <1>5 DEF WriterInv, Fresh, Fetching, Removing, Storing, Stored
<1>10. Critical(next) /\ WriterInv(next, state)
  BY <1>1, <1>5, <1>7, <1>8, <1>9 DEF WriterInv, Critical
<1> QED BY <1>2, <1>10, SafeLocal DEF WriterPC

LEMMA SafeNewFile ==
  ASSUME RegistryInv, TypeInv', NEW w \in Writers, NEW f \in Files, NewFile(w, f)
  PROVE  RegistryInv'
<1> DEFINE x == wr[w]
           next == [x EXCEPT !.pc = "method", !.files = @ \ {f},
                             !.todo = FileMethods[f]]
<1>1. /\ x \in Writer /\ OpOK(x) /\ WriterInv(x, state) /\ x.pc = "file"
      /\ f \in x.files /\ Critical(x) /\ x.ret = "none" /\ x.op = "conn"
  BY BeforeStep DEF NewFile, Local, Critical, OpOK
<1>2. Local(w, "file", next)
  BY DEF NewFile
<1>3. /\ next.pc = "method" /\ next.op = "conn" /\ next.who = x.who /\ next.s = x.s
      /\ next.hash = x.hash /\ next.files = x.files \ {f}
      /\ next.todo = FileMethods[f] /\ next.added = x.added /\ next.ret = "none"
  BY <1>1 DEF Writer
<1> HIDE DEF next
<1>4. Pending(next) = Pending(x)
  <2>1. MethodsIn(x.files) = FileMethods[f] \cup MethodsIn(x.files \ {f})
    BY <1>1 DEF MethodsIn
  <2>2. x.todo = {}
    BY <1>1 DEF WriterInv, Fresh
  <2> QED BY <1>1, <1>3, <2>1, <2>2 DEF Pending
<1>5. Building(next, state)
  BY <1>1, <1>3, <1>4 DEF Building, WriterInv, Target, Kept
<1>6. /\ Fresh(next) /\ Frame(next, state) /\ Fetching(next, state) /\ Removing(next)
      /\ Storing(next, state) /\ Stored(next, state)
  BY <1>1, <1>3 DEF WriterInv, Fresh, Frame, Fetching, Removing, Storing, Stored
<1>7. Critical(next) /\ WriterInv(next, state)
  BY <1>3, <1>5, <1>6 DEF WriterInv, Critical
<1> QED BY <1>2, <1>7, SafeLocal DEF WriterPC

LEMMA SafeFilesDone ==
  ASSUME RegistryInv, TypeInv', NEW w \in Writers, FilesDone(w)
  PROVE  RegistryInv'
<1> DEFINE x == wr[w]
           cl == [handlers |-> x.added, hash |-> x.hash]
           s2 == [x.s EXCEPT !.conns[x.who] = cl]
           next == [x EXCEPT !.pc = "store", !.s.conns[x.who] = cl]
<1>1. /\ x \in Writer /\ OpOK(x) /\ WriterInv(x, state) /\ x.pc = "file" /\ x.s \in State
      /\ x.files = {} /\ Critical(x) /\ x.ret = "none" /\ x.op = "conn" /\ x.who \in Conns
  BY BeforeStep DEF FilesDone, Local, Critical, OpOK
<1>2. Local(w, "file", next)
  BY DEF FilesDone
<1>3. /\ s2.handlers = x.s.handlers /\ s2.conns[x.who] = cl
      /\ \A o \in Conns \ {x.who} : s2.conns[o] = x.s.conns[o]
  BY <1>1 DEF State
<1>4. cl.handlers = x.added /\ cl.hash = x.hash /\ cl # NoConn
  BY <1>1, NoConnIsNoList DEF Writer, ConnList
<1> HIDE DEF cl
<1>5. /\ next.pc = "store" /\ next.op = "conn" /\ next.who = x.who /\ next.s = s2
      /\ next.hash = x.hash /\ next.files = {} /\ next.todo = x.todo
      /\ next.added = x.added /\ next.ret = "none"
  BY <1>1 DEF Writer
<1> HIDE DEF next, s2
<1>6. \A o : OwnedBy(s2, o) = OwnedBy(x.s, o)
  BY <1>3 DEF OwnedBy
<1>7. Frame(next, state)
  BY <1>1, <1>3, <1>5, <1>6 DEF Frame, WriterInv
<1>8. OwnedBy(s2, x.who) = x.added /\ Target(x) = MethodsOf(x.added)
      /\ x.hash \in Offers[x.who]
  <2>1. Pending(x) = {}
    BY <1>1 DEF Pending, WriterInv, Fresh, MethodsIn
  <2> QED BY <1>1, <1>6, <2>1 DEF WriterInv, Building, Kept
<1>9. Storing(next, state)
  BY <1>1, <1>3, <1>4, <1>5, <1>8 DEF Storing, Target
<1>10. /\ Fresh(next) /\ Fetching(next, state) /\ Removing(next)
       /\ Building(next, state) /\ Stored(next, state)
  BY <1>1, <1>5 DEF WriterInv, Fresh, Fetching, Removing, Building, Stored
<1>11. Critical(next) /\ WriterInv(next, state)
  BY <1>5, <1>7, <1>9, <1>10 DEF WriterInv, Critical
<1> QED BY <1>2, <1>11, SafeLocal DEF WriterPC

LEMMA SafeBeginMethod ==
  ASSUME RegistryInv, TypeInv', NEW w \in Writers, NEW m \in Methods, BeginMethod(w, m)
  PROVE  RegistryInv'
<1> DEFINE x == wr[w]
           rules == <<ImplicitRule(m)>> \o Rules[m]
           err == [x EXCEPT !.pc = "return", !.ret = "error"]
           next == [x EXCEPT !.pc = "rule", !.todo = @ \ {m}, !.cur = m, !.rules = rules]
<1>1. /\ x \in Writer /\ OpOK(x) /\ WriterInv(x, state) /\ x.pc = "method"
      /\ m \in x.todo /\ Critical(x) /\ x.ret = "none" /\ x.op \in {"service", "conn"}
  BY BeforeStep DEF BeginMethod, Local, Critical, OpOK
<1>2. Local(w, "method", err) \/ Local(w, "method", next)
  BY DEF BeginMethod, Return
<1>3. Critical(err) /\ WriterInv(err, state)
  BY <1>1, SafeReturn
<1> HIDE DEF err, rules
<1>4. /\ next.pc = "rule" /\ next.op = x.op /\ next.who = x.who /\ next.s = x.s
      /\ next.hash = x.hash /\ next.files = x.files /\ next.todo = x.todo \ {m}
      /\ next.added = x.added /\ next.ret = "none" /\ next.cur = m
  BY <1>1 DEF Writer
<1> HIDE DEF next
<1>5. Pending(next) = Pending(x)
  BY <1>1, <1>4 DEF Pending
<1>6. Building(next, state)
  BY <1>1, <1>4, <1>5 DEF Building, WriterInv, Target, Kept
<1>7. /\ Fresh(next) /\ Frame(next, state) /\ Fetching(next, state) /\ Removing(next)
      /\ Storing(next, state) /\ Stored(next, state)
  BY <1>1, <1>4 DEF WriterInv, Fresh, Frame, Fetching, Removing, Storing, Stored
<1>8. Critical(next) /\ WriterInv(next, state)
  BY <1>4, <1>6, <1>7 DEF WriterInv, Critical
<1> QED BY <1>2, <1>3, <1>8, SafeLocal DEF WriterPC

LEMMA SafeMethodsDone ==
  ASSUME RegistryInv, TypeInv', NEW w \in Writers, MethodsDone(w)
  PROVE  RegistryInv'
<1> DEFINE x == wr[w]
           next == [x EXCEPT !.pc = IF x.op = "conn" THEN "file" ELSE "store"]
<1>1. /\ x \in Writer /\ OpOK(x) /\ WriterInv(x, state) /\ x.pc = "method"
      /\ x.todo = {} /\ Critical(x) /\ x.ret = "none" /\ x.op \in {"service", "conn"}
      /\ ServicesWhole(state)
  BY BeforeStep DEF MethodsDone, Local, Critical, OpOK
<1>2. Local(w, "method", next)
  BY DEF MethodsDone
<1>3. /\ next.pc = (IF x.op = "conn" THEN "file" ELSE "store")
      /\ next.op = x.op /\ next.who = x.who /\ next.s = x.s
      /\ next.hash = x.hash /\ next.files = x.files /\ next.todo = {}
      /\ next.added = x.added /\ next.ret = "none"
  BY <1>1 DEF Writer
<1> HIDE DEF next
<1>4. Pending(next) = Pending(x) /\ Target(next) = Target(x)
  BY <1>1, <1>3 DEF Pending, Target
<1>5. Building(next, state)
  BY <1>1, <1>3, <1>4 DEF Building, WriterInv, Kept
<1>6. Storing(next, state)
  <2> SUFFICES ASSUME x.op = "service" PROVE MethodsOf(OwnedBy(x.s, x.who)) = Target(x)
    BY <1>1, <1>3, <1>4 DEF Storing
  <2>1. Pending(x) = {} /\ x.who \in Services
    BY <1>1 DEF Pending, WriterInv, Fresh, MethodsIn, OpOK
  <2>2. MethodsOf(x.added) = ServiceMethods[x.who]
    BY <1>1, <2>1 DEF WriterInv, Building, Target
  <2>3. OwnedBy(x.s, x.who) = OwnedBy(state, x.who) \cup x.added
    BY <1>1 DEF WriterInv, Building, Kept
  <2>4. MethodsOf(OwnedBy(state, x.who)) \subseteq ServiceMethods[x.who]
    BY <1>1, <2>1 DEF ServicesWhole
  <2> QED BY <2>2, <2>3, <2>4 DEF MethodsOf, Target
<1>7. /\ Fresh(next) /\ Frame(next, state) /\ Fetching(next, state) /\ Removing(next)
      /\ Stored(next, state)
  BY <1>1, <1>3 DEF WriterInv, Fresh, Frame, Fetching, Removing, Stored
<1>8. Critical(next) /\ WriterInv(next, state)
  BY <1>1, <1>3, <1>5, <1>6, <1>7 DEF WriterInv, Critical
<1> QED BY <1>2, <1>8, SafeLocal DEF WriterPC

LEMMA SafeAddRule ==
  ASSUME RegistryInv, TypeInv', NEW w \in Writers, AddRule(w)
  PROVE  RegistryInv'
<1> DEFINE x == wr[w]
           b == Head(x.rules)
           outcome == AddRuleOutcome(x.s.path, b, x.cur)
           more == [x EXCEPT !.s.path = @ \cup {Entry(b, x.cur)}, !.rules = Tail(@)]
           skip == [x EXCEPT !.rules = SubSeq(@, 2 + b.extra, Len(@))]
           fail == [x EXCEPT !.pc = "return", !.ret = outcome]
<1>1. /\ x \in Writer /\ OpOK(x) /\ WriterInv(x, state) /\ x.pc = "rule" /\ x.s \in State
      /\ Critical(x) /\ x.ret = "none"
  BY BeforeStep DEF AddRule, Local, Critical, OpOK
<1>2. outcome \in {"error", "already", "panic", "added"}
  BY OutcomeType
<1>3. \/ Local(w, "rule", more) \/ Local(w, "rule", skip)
      \/ outcome \in {"error", "panic"} /\ Local(w, "rule", fail)
  BY <1>2 DEF AddRule, Return
<1> HIDE DEF outcome, b
<1>4. ASSUME NEW next, Local(w, "rule", next),
             next.s.handlers = x.s.handlers, next.s.conns = x.s.conns,
             next.pc = x.pc, next.op = x.op, next.who = x.who, next.hash = x.hash,
             next.files = x.files, next.todo = x.todo, next.added = x.added,
             next.cur = x.cur, next.ret = x.ret
      PROVE  RegistryInv'
  <2>1. \A o : OwnedBy(next.s, o) = OwnedBy(x.s, o)
    BY <1>4 DEF OwnedBy
  <2>2. Pending(next) = Pending(x) /\ Target(next) = Target(x)
        /\ Kept(next, state) = Kept(x, state)
    BY <1>4 DEF Pending, Target, Kept
  <2>3. Building(next, state)
    BY <1>1, <1>4, <2>1, <2>2 DEF Building, WriterInv
  <2>4. Frame(next, state)
    BY <1>1, <1>4, <2>1 DEF Frame, WriterInv
  <2>5. /\ Fresh(next) /\ Fetching(next, state) /\ Removing(next)
        /\ Storing(next, state) /\ Stored(next, state)
    BY <1>1, <1>4 DEF WriterInv, Fresh, Fetching, Removing, Storing, Stored
  <2>6. Critical(next) /\ WriterInv(next, state)
    BY <1>1, <1>4, <2>3, <2>4, <2>5 DEF WriterInv, Critical
  <2> QED BY <1>4, <2>6, SafeLocal DEF WriterPC
<1>5. CASE Local(w, "rule", more)
  <2>1. /\ more.s.handlers = x.s.handlers /\ more.s.conns = x.s.conns
        /\ more.pc = x.pc /\ more.op = x.op /\ more.who = x.who /\ more.hash = x.hash
        /\ more.files = x.files /\ more.todo = x.todo /\ more.added = x.added
        /\ more.cur = x.cur /\ more.ret = x.ret
    BY <1>1 DEF Writer, State
  <2> HIDE DEF more
  <2> QED BY <1>4, <1>5, <2>1
<1>6. CASE Local(w, "rule", skip)
  <2>1. /\ skip.s = x.s
        /\ skip.pc = x.pc /\ skip.op = x.op /\ skip.who = x.who /\ skip.hash = x.hash
        /\ skip.files = x.files /\ skip.todo = x.todo /\ skip.added = x.added
        /\ skip.cur = x.cur /\ skip.ret = x.ret
    BY <1>1 DEF Writer
  <2> HIDE DEF skip
  <2> QED BY <1>4, <1>6, <2>1
<1>7. CASE outcome \in {"error", "panic"} /\ Local(w, "rule", fail)
  <2>1. Critical(fail) /\ WriterInv(fail, state)
    BY <1>1, <1>7, SafeReturn
  <2> HIDE DEF fail
  <2> QED BY <1>7, <2>1, SafeLocal DEF WriterPC
<1> QED BY <1>3, <1>5, <1>6, <1>7

LEMMA SafeAppend ==
  ASSUME RegistryInv, TypeInv', NEW w \in Writers, AppendHandler(w)
  PROVE  RegistryInv'
<1> DEFINE x == wr[w]
           h == [method |-> x.cur, owner |-> x.who, hash |-> x.hash]
           next == [x EXCEPT !.pc = "method", !.s.handlers = @ \cup {h},
                             !.added = @ \cup {h}, !.cur = NoMethod]
<1>1. /\ x \in Writer /\ OpOK(x) /\ WriterInv(x, state) /\ x.pc = "rule" /\ x.s \in State
      /\ Critical(x) /\ x.ret = "none" /\ x.op \in {"service", "conn"}
  BY BeforeStep DEF AppendHandler, Local, Critical, OpOK
<1>2. Local(w, "rule", next)
  BY DEF AppendHandler
<1>3. h.owner = x.who /\ h.method = x.cur
  OBVIOUS
<1> HIDE DEF h
<1>4. /\ next.s.handlers = x.s.handlers \cup {h} /\ next.s.conns = x.s.conns
      /\ next.pc = "method" /\ next.op = x.op /\ next.who = x.who /\ next.hash = x.hash
      /\ next.files = x.files /\ next.todo = x.todo /\ next.added = x.added \cup {h}
      /\ next.ret = "none"
  BY <1>1 DEF Writer, State
<1> HIDE DEF next
<1>5. /\ \A o \in Owners \ {x.who} : OwnedBy(next.s, o) = OwnedBy(x.s, o)
      /\ OwnedBy(next.s, x.who) = OwnedBy(x.s, x.who) \cup {h}
  BY <1>3, <1>4 DEF OwnedBy
<1>6. Frame(next, state)
  BY <1>1, <1>4, <1>5 DEF Frame, WriterInv
<1>7. Building(next, state)
  <2>1. MethodsOf(next.added) = MethodsOf(x.added) \cup {x.cur}
    BY <1>3, <1>4 DEF MethodsOf
  <2>2. Pending(x) = Pending(next) \cup {x.cur}
    BY <1>1, <1>4 DEF Pending
  <2>3. Target(next) = Target(x) /\ Kept(next, state) = Kept(x, state)
    BY <1>4 DEF Target, Kept
  <2>4. Target(x) = MethodsOf(x.added) \cup Pending(x)
        /\ (x.op = "conn" => x.hash \in Offers[x.who])
        /\ OwnedBy(x.s, x.who) = Kept(x, state) \cup x.added
    BY <1>1 DEF WriterInv, Building
  <2> QED BY <1>4, <1>5, <2>1, <2>2, <2>3, <2>4 DEF Building
<1>8. /\ Fresh(next) /\ Fetching(next, state) /\ Removing(next)
      /\ Storing(next, state) /\ Stored(next, state)
  BY <1>1, <1>4 DEF WriterInv, Fresh, Fetching, Removing, Storing, Stored
<1>9. Critical(next) /\ WriterInv(next, state)
  BY <1>4, <1>6, <1>7, <1>8 DEF WriterInv, Critical
<1> QED BY <1>2, <1>9, SafeLocal DEF WriterPC

(* Publishing the clone: the frame says that every other owner is as it     *)
(* was, Storing that the writer's owner is complete.                        *)
LEMMA SafeStore ==
  ASSUME RegistryInv, TypeInv', NEW w \in Writers, StoreState(w)
  PROVE  RegistryInv'
<1> DEFINE x == wr[w]
           next == [x EXCEPT !.pc = "return", !.ret = "ok"]
<1>1. /\ x \in Writer /\ OpOK(x) /\ WriterInv(x, state) /\ x.pc = "store" /\ x.s \in State
      /\ Critical(x) /\ x.op \in {"service", "conn"} /\ mu = w
      /\ TablesAgree(state) /\ ServicesWhole(state)
  BY BeforeStep DEF StoreState, Critical, OpOK, RegistryInv, Mutex
<1>2. wr' = [wr EXCEPT ![w] = next] /\ state' = x.s /\ UNCHANGED <<mu, acked>>
  BY DEF StoreState, Return
<1>3. /\ next.pc = "return" /\ next.ret = "ok" /\ next.op = x.op /\ next.who = x.who
      /\ next.s = x.s /\ next.hash = x.hash /\ next.files = x.files
  BY <1>1 DEF Writer
<1> HIDE DEF next
<1>4. wr'[w] = next /\ \A v \in Writers \ {w} : wr'[v] = wr[v]
  BY <1>2 DEF RegistryInv, TypeInv, TypeOK
<1>5. \A v \in Writers \ {w} : ~Critical(wr[v])
  BY <1>1 DEF RegistryInv, Mutex
<1>6. /\ x.op = "service" => x.who \in Services
      /\ x.op = "conn" => x.who \in Conns
      /\ \A c \in Conns : c \in Owners /\ c \notin Services
      /\ \A svc \in Services : svc \in Owners
  BY <1>1, ConstantsDistinct DEF OpOK, Owners
<1>7. Frame(x, state) /\ Storing(x, state)
  BY <1>1 DEF WriterInv
<1>8. Mutex'
  BY <1>1, <1>2, <1>3, <1>4, <1>5 DEF Mutex, Critical
<1>9. TablesAgree(x.s)
  <2> SUFFICES ASSUME NEW c \in Conns
               PROVE  IF x.s.conns[c] = NoConn
                        THEN OwnedBy(x.s, c) = {}
                        ELSE /\ OwnedBy(x.s, c) = x.s.conns[c].handlers
                             /\ {h.method : h \in OwnedBy(x.s, c)}
                                  = MethodsListed(x.s.conns[c].hash)
    BY DEF TablesAgree
  <2>1. CASE c = x.who
    BY <1>1, <1>6, <1>7, <2>1 DEF Storing, Target, MethodsOf
  <2>2. CASE c # x.who
    <3>1. OwnedBy(x.s, c) = OwnedBy(state, c) /\ x.s.conns[c] = state.conns[c]
      BY <1>6, <1>7, <2>2 DEF Frame
    <3> QED BY <1>1, <3>1 DEF TablesAgree
  <2> QED BY <2>1, <2>2
<1>10. ServicesWhole(x.s)
  <2> SUFFICES ASSUME NEW svc \in Services
               PROVE  MethodsOf(OwnedBy(x.s, svc)) \subseteq ServiceMethods[svc]
    BY DEF ServicesWhole
  <2>1. CASE svc = x.who
    BY <1>1, <1>6, <1>7, <2>1 DEF Storing, Target
  <2>2. CASE svc # x.who
    BY <1>1, <1>6, <1>7, <2>2 DEF Frame, ServicesWhole
  <2> QED BY <2>1, <2>2
<1>11. WriterInv(next, x.s)
  <2>1. Frame(next, x.s) /\ Stored(next, x.s)
    BY <1>1, <1>3, <1>6, <1>7 DEF Frame, Stored, Storing, Target
  <2>2. Fresh(next)
    BY <1>1, <1>3 DEF WriterInv, Fresh
  <2> QED BY <1>3, <2>1, <2>2 DEF WriterInv, Fetching, Removing, Building, Storing
<1>12. ASSUME NEW v \in Writers PROVE WriterInv(wr'[v], state')
  <2>1. v # w => WriterInv(wr[v], x.s)
    BY <1>5 DEF WriterInv, RegistryInv
  <2> QED BY <1>2, <1>4, <1>11, <2>1
<1>13. NoLostUpdate'
  <2>1. ASSUME NEW c \in Conns, acked.conns[c] # NoConn, ~Returning(c)'
        PROVE  x.s.conns[c] # NoConn /\ x.s.conns[c].hash = acked.conns[c]
    <3>1. CASE c = x.who
      BY <1>1, <1>3, <1>4, <1>6, <2>1, <3>1 DEF Returning
    <3>2. CASE c # x.who
      <4>1. x.s.conns[c] = state.conns[c]
        BY <1>6, <1>7, <3>2 DEF Frame
      <4>2. \A v \in Writers : wr[v].pc = "return" => FALSE
        BY <1>1, <1>5 DEF Critical
      <4> QED BY <2>1, <4>1, <4>2 DEF RegistryInv, NoLostUpdate, Returning
    <3> QED BY <3>1, <3>2
  <2>2. ASSUME NEW svc \in acked.services, NEW m \in ServiceMethods[svc]
        PROVE  \E h \in x.s.handlers : h.owner = svc /\ h.method = m
    <3>0. svc \in Services
      BY DEF RegistryInv, TypeInv, TypeOK, Acked
    <3>1. CASE svc = x.who
      BY <1>1, <1>6, <1>7, <3>0, <3>1 DEF Storing, Target, MethodsOf, OwnedBy
    <3>2. CASE svc # x.who
      <4>1. OwnedBy(x.s, svc) = OwnedBy(state, svc)
        BY <1>6, <1>7, <3>0, <3>2 DEF Frame
      <4> QED BY <4>1 DEF RegistryInv, NoLostUpdate, OwnedBy
    <3> QED BY <3>1, <3>2
  <2> QED BY <1>2, <2>1, <2>2 DEF NoLostUpdate
<1>14. TablesAgree(state') /\ ServicesWhole(state')
  BY <1>2, <1>9, <1>10
<1> QED BY <1>8, <1>12, <1>13, <1>14 DEF RegistryInv, TablesAgree, ServicesWhole,
      OwnedBy, MethodsOf, WriterInv, Fresh, Critical, Frame, Fetching, Removing,
      Building, Storing, Stored, Kept, Target, Pending

(* A step before or at the lock, or of a call: nothing is published.        *)
LEMMA SafeQuiet ==
  ASSUME RegistryInv, TypeInv', NEW w \in Writers, NEW next,
         wr' = [wr EXCEPT ![w] = next], UNCHANGED <<state, acked>>,
         wr[w].pc # "return", Mutex', WriterInv(next, state)
  PROVE  RegistryInv'
<1>1. wr'[w] = next /\ \A v \in Writers \ {w} : wr'[v] = wr[v]
  BY DEF RegistryInv, TypeInv, TypeOK
<1>2. ASSUME NEW v \in Writers PROVE WriterInv(wr'[v], state')
  BY <1>1 DEF RegistryInv
<1>3. NoLostUpdate'
  <2>1. \A c \in Conns : Returning(c) => Returning(c)'
    BY <1>1 DEF Returning
  <2> QED BY <2>1 DEF NoLostUpdate, RegistryInv
<1> QED BY <1>2, <1>3 DEF RegistryInv, TablesAgree, ServicesWhole,
      OwnedBy, MethodsOf, WriterInv, Fresh, Critical, Frame, Fetching, Removing,
      Building, Storing, Stored, Kept, Target, Pending

LEMMA SafeCall ==
  ASSUME RegistryInv, TypeInv', NEW w \in Writers, NEW op, NEW o,
         NEW pc \in {"open", "lock"}, Begin(w, op, o, pc)
  PROVE  RegistryInv'
<1> DEFINE x == wr[w]
<1> DEFINE next == [x EXCEPT !.pc = pc, !.op = op, !.who = o]
<1>2. /\ x \in Writer /\ WriterInv(x, state) /\ x.pc = "idle" /\ ~Critical(x)
      /\ wr' = [wr EXCEPT ![w] = next] /\ UNCHANGED <<mu, state, acked>>
  BY BeforeStep DEF Begin, Critical
<1>3. next.pc = pc /\ next.added = x.added /\ next.todo = x.todo /\ next.files = x.files
  BY <1>2 DEF Writer
<1> HIDE DEF next
<1>4. ~Critical(next)
  BY <1>3 DEF Critical
<1>5. WriterInv(next, state)
  BY <1>2, <1>3, <1>4 DEF WriterInv, Fresh
<1>6. Mutex'
  BY <1>2, <1>4 DEF RegistryInv, Mutex, TypeInv, TypeOK
<1> QED BY <1>2, <1>5, <1>6, SafeQuiet

LEMMA SafeOpen ==
  ASSUME RegistryInv, TypeInv', NEW w \in Writers, OpenStream(w) \/ OpenStreamFails(w)
  PROVE  RegistryInv'
<1> DEFINE x == wr[w]
           next == [x EXCEPT !.pc = "lock"]
<1>1. /\ x \in Writer /\ WriterInv(x, state) /\ x.pc = "open" /\ ~Critical(x)
      /\ UNCHANGED <<mu, state, acked>>
  BY BeforeStep DEF OpenStream, OpenStreamFails, Critical
<1>2. PICK n \in {next, Idle} : wr' = [wr EXCEPT ![w] = n]
  BY DEF OpenStream, OpenStreamFails
<1>3. next.pc = "lock" /\ next.added = x.added /\ next.todo = x.todo /\ next.files = x.files
  BY <1>1 DEF Writer
<1> HIDE DEF next
<1>4. ~Critical(next) /\ ~Critical(Idle)
  BY <1>3 DEF Critical, Idle
<1>5. WriterInv(next, state) /\ WriterInv(Idle, state)
  BY <1>1, <1>3, <1>4 DEF WriterInv, Fresh, Idle
<1>6. Mutex'
  BY <1>1, <1>2, <1>4 DEF RegistryInv, Mutex, TypeInv, TypeOK
<1> QED BY <1>1, <1>2, <1>5, <1>6, SafeQuiet

(* Taking the mutex: no other writer is between its clone and its unlock.   *)
LEMMA LockMutex ==
  ASSUME RegistryInv, NEW w \in Writers, NEW next, LockAndClone(w, next), Critical(next)
  PROVE  Mutex'
<1>1. mu = NoWriter /\ mu' = w /\ wr' = [wr EXCEPT ![w] = next]
  BY DEF LockAndClone
<1>2. \A v \in Writers : ~Critical(wr[v])
  BY <1>1, ConstantsDistinct DEF RegistryInv, Mutex
<1> QED BY <1>1, <1>2 DEF RegistryInv, Mutex, TypeInv, TypeOK

LEMMA SafeLocks ==
  ASSUME RegistryInv, TypeInv', NEW w \in Writers,
         LockService(w) \/ LockConn(w) \/ LockDrop(w)
  PROVE  RegistryInv'
<1> DEFINE x == wr[w]
<1>0. /\ x \in Writer /\ OpOK(x) /\ WriterInv(x, state) /\ TablesAgree(state)
      /\ x.pc = "lock" /\ x.ret = "none" /\ state \in State
      /\ x.added = {} /\ x.todo = {} /\ x.files = {}
  BY BeforeStep DEF LockService, LockConn, LockDrop, LockAndClone, OpOK, WriterInv, Fresh
<1>1. ASSUME NEW next, LockAndClone(w, next), Critical(next), WriterInv(next, state)
      PROVE  RegistryInv'
  <2>1. Mutex'
    BY <1>1, LockMutex
  <2> QED BY <1>0, <1>1, <2>1, SafeQuiet DEF LockAndClone
<1>2. ASSUME NEW next, next.s = state, next.who = x.who, next.op = x.op,
             next.added = {}, next.files = {}
      PROVE  /\ Frame(next, state)
             /\ next.pc # "remove" => Removing(next)
             /\ next.pc = "fetch" => Fetching(next, state)
  BY <1>2 DEF Frame, Removing, Fetching
<1>3. CASE LockService(w)
  <2> DEFINE n1 == [x EXCEPT !.pc = "method", !.s = state,
                             !.todo = ServiceMethods[x.who]]
             n2 == [x EXCEPT !.pc = "return", !.s = state, !.ret = "error"]
  <2>1. LockAndClone(w, n1) \/ LockAndClone(w, n2)
    BY <1>3 DEF LockService
  <2>2. x.op = "service" /\ x.who \in Services
    BY <1>0, <1>3 DEF LockService, OpOK
  <2>3. /\ n1.pc = "method" /\ n1.s = state /\ n1.todo = ServiceMethods[x.who]
        /\ n1.op = "service" /\ n1.who = x.who /\ n1.added = {} /\ n1.files = {}
        /\ n1.ret = "none"
    BY <1>0, <2>2 DEF Writer
  <2>4. /\ n2.pc = "return" /\ n2.s = state /\ n2.op = "service" /\ n2.who = x.who
        /\ n2.added = {} /\ n2.files = {} /\ n2.ret = "error"
    BY <1>0, <2>2 DEF Writer
  <2> HIDE DEF n1, n2
  <2>5. Building(n1, state)
    BY <2>3 DEF Building, Target, Pending, Kept, MethodsOf, MethodsIn
  <2>6. Critical(n1) /\ WriterInv(n1, state)
    BY <1>2, <2>2, <2>3, <2>5 DEF WriterInv, Critical, Fresh, Fetching, Storing, Stored
  <2>7. Critical(n2) /\ WriterInv(n2, state)
    BY <1>2, <2>2, <2>4 DEF WriterInv, Critical, Fresh, Fetching, Building, Storing, Stored
  <2> QED BY <1>1, <2>1, <2>6, <2>7
<1>4. CASE LockConn(w)
  <2> DEFINE next == [x EXCEPT !.pc = "fetch", !.s = state]
  <2>1. LockAndClone(w, next)
    BY <1>4 DEF LockConn
  <2>2. /\ next.pc = "fetch" /\ next.s = state /\ next.op = x.op /\ next.who = x.who
        /\ next.added = {} /\ next.files = {} /\ next.todo = {} /\ next.ret = "none"
    BY <1>0 DEF Writer
  <2> HIDE DEF next
  <2>3. Critical(next) /\ WriterInv(next, state)
    BY <1>2, <2>2 DEF WriterInv, Critical, Fresh, Building, Storing, Stored
  <2> QED BY <1>1, <2>1, <2>3
<1>5. CASE LockDrop(w)
  <2> DEFINE n1 == [x EXCEPT !.pc = "return", !.s = state, !.ret = "false"]
             n2 == [x EXCEPT !.pc = "remove", !.s = state,
                             !.drop = state.conns[x.who].handlers]
  <2>1. \/ LockAndClone(w, n1)
        \/ state.conns[x.who] # NoConn /\ LockAndClone(w, n2)
    BY <1>5 DEF LockDrop
  <2>2. x.op = "drop" /\ x.who \in Conns
    BY <1>0, <1>5 DEF LockDrop, OpOK
  <2>3. /\ n1.pc = "return" /\ n1.s = state /\ n1.op = "drop" /\ n1.who = x.who
        /\ n1.added = {} /\ n1.files = {} /\ n1.ret = "false"
    BY <1>0, <2>2 DEF Writer
  <2>4. /\ n2.pc = "remove" /\ n2.s = state /\ n2.op = "drop" /\ n2.who = x.who
        /\ n2.added = {} /\ n2.files = {} /\ n2.todo = {} /\ n2.ret = "none"
        /\ n2.drop = state.conns[x.who].handlers
    BY <1>0, <2>2 DEF Writer
  <2> HIDE DEF n1, n2
  <2>5. Critical(n1) /\ WriterInv(n1, state)
    BY <1>2, <2>2, <2>3 DEF WriterInv, Critical, Fresh, Fetching, Building, Storing, Stored
  <2>6. state.conns[x.who] # NoConn => Removing(n2)
    BY <1>0, <2>2, <2>4 DEF Removing, TablesAgree
  <2>7. state.conns[x.who] # NoConn => Critical(n2) /\ WriterInv(n2, state)
    BY <1>2, <2>2, <2>4, <2>6 DEF WriterInv, Critical, Fresh, Fetching, Building, Storing, Stored
  <2> QED BY <1>1, <2>1, <2>5, <2>7
<1> QED BY <1>3, <1>4, <1>5

LEMMA SafeUnlock ==
  ASSUME RegistryInv, TypeInv', NEW w \in Writers, Unlock(w)
  PROVE  RegistryInv'
<1> DEFINE x == wr[w]
<1>1. /\ x \in Writer /\ OpOK(x) /\ WriterInv(x, state) /\ x.pc = "return" /\ Critical(x)
      /\ mu = w
  BY BeforeStep DEF Unlock, Critical, RegistryInv, Mutex
<1>2. wr' = [wr EXCEPT ![w] = Idle] /\ mu' = NoWriter /\ state' = state
  BY DEF Unlock
<1>3. wr'[w] = Idle /\ \A v \in Writers \ {w} : wr'[v] = wr[v] /\ ~Critical(wr[v])
  BY <1>1, <1>2 DEF RegistryInv, Mutex, TypeInv, TypeOK
<1>4. Mutex'
  BY <1>2, <1>3, ConstantsDistinct DEF Mutex, Critical, Idle
<1>5. WriterInv(Idle, state)
  BY DEF WriterInv, Fresh, Critical, Idle
<1>6. ASSUME NEW v \in Writers PROVE WriterInv(wr'[v], state')
  BY <1>2, <1>3, <1>5 DEF RegistryInv
<1>7. NoLostUpdate'
  <2>0. Stored(x, state) /\ acked \in Acked
    BY <1>1 DEF WriterInv, RegistryInv, TypeInv, TypeOK
  <2>1. ASSUME NEW c \in Conns, acked'.conns[c] # NoConn
        PROVE  state.conns[c] # NoConn /\ state.conns[c].hash = acked'.conns[c]
    <3>1. CASE x.ret = "ok" /\ x.op = "conn" /\ c = x.who
      BY <1>1, <2>0, <3>1 DEF Unlock, Acked, Stored
    <3>2. CASE x.ret = "true" /\ x.op = "drop" /\ c = x.who
      BY <2>0, <2>1, <3>2 DEF Unlock, Acked
    <3>3. CASE c # x.who \/ ~((x.op = "conn" /\ x.ret = "ok") \/ (x.op = "drop" /\ x.ret = "true"))
      <4>1. acked'.conns[c] = acked.conns[c]
        BY <2>0, <3>3 DEF Unlock, Acked
      <4>2. ~Returning(c)
        BY <1>3, <3>3 DEF Critical, Returning
      <4> QED BY <2>1, <4>1, <4>2 DEF RegistryInv, NoLostUpdate
    <3> QED BY <3>1, <3>2, <3>3
  <2>2. ASSUME NEW svc \in acked'.services, NEW m \in ServiceMethods[svc]
        PROVE  \E h \in state.handlers : h.owner = svc /\ h.method = m
    <3>1. CASE svc \in acked.services
      BY <3>1 DEF RegistryInv, NoLostUpdate
    <3>2. CASE svc \notin acked.services
      <4>1. x.ret = "ok" /\ x.op = "service" /\ svc = x.who
        BY <1>1, <2>0, <2>2, <3>2 DEF Unlock, Acked, OpOK
      <4> QED BY <2>0, <4>1 DEF Stored, MethodsOf, OwnedBy
    <3> QED BY <3>1, <3>2
  <2> QED BY <1>2, <2>1, <2>2 DEF NoLostUpdate
<1> QED BY <1>2, <1>4, <1>6, <1>7 DEF RegistryInv, TablesAgree, ServicesWhole,
      OwnedBy, MethodsOf, WriterInv, Fresh, Critical, Frame, Fetching, Removing,
      Building, Storing, Stored, Kept, Target, Pending

(* Requests, and the steps that change nothing, leave the writers alone.    *)
LEMMA SafeRequests ==
  ASSUME RegistryInv, TypeInv', UNCHANGED <<mu, state, wr, acked>>
  PROVE  RegistryInv'
<1>1. ASSUME NEW v \in Writers PROVE WriterInv(wr'[v], state')
  BY DEF RegistryInv
<1>2. Mutex' /\ NoLostUpdate'
  BY DEF RegistryInv, Mutex, Critical, NoLostUpdate, Returning
<1> QED BY <1>1, <1>2 DEF RegistryInv, TablesAgree, ServicesWhole,
      OwnedBy, MethodsOf, WriterInv, Fresh, Critical, Frame, Fetching, Removing,
      Building, Storing, Stored, Kept, Target, Pending

LEMMA InvNext == RegistryInv /\ [Next]_vars => RegistryInv'
<1> SUFFICES ASSUME RegistryInv, [Next]_vars PROVE RegistryInv'
  OBVIOUS
<1>0. TypeInv'
  BY TypeNext DEF RegistryInv
<1>1. ASSUME NEW w \in Writers, Call(w) PROVE RegistryInv'
  <2>1. ASSUME NEW svc \in Services, RegisterServiceFatal(w, svc) PROVE RegistryInv'
    BY <1>0, <2>1, SafeRequests DEF RegisterServiceFatal
  <2> QED BY <1>0, <1>1, <2>1, SafeCall DEF Call, RegisterService, RegisterConn, DropConn
<1>2. ASSUME NEW w \in Writers, Backend(w) PROVE RegistryInv'
  BY <1>0, <1>2, SafeOpen, SafeFetch, SafeFails, SafeNewFile DEF Backend
<1>3. ASSUME NEW w \in Writers, Compute(w) PROVE RegistryInv'
  BY <1>0, <1>3, SafeLocks, SafeRemoveOne, SafeRemoveDone, SafeFilesDone,
     SafeBeginMethod, SafeMethodsDone, SafeAddRule, SafeAppend, SafeStore,
     SafeUnlock DEF Compute
<1>4. ASSUME NEW r \in Readers, StartRequest(r) \/ Serve(r) PROVE RegistryInv'
  <2>1. \E pc, next : ReaderStep(r, pc, next)
    BY <1>4 DEF StartRequest, Serve, ServeHTTP, ServeGRPC, Match,
                PickMethodHandler, Respond
  <2> QED BY <1>0, <2>1, SafeRequests DEF ReaderStep
<1>5. CASE UNCHANGED vars
  BY <1>0, <1>5, SafeRequests DEF vars
<1> QED BY <1>1, <1>2, <1>3, <1>4, <1>5 DEF Next

LEMMA InvHolds == Spec => []RegistryInv
BY InvInit, InvNext, PTL DEF Spec

-----------------------------------------------------------------------------
(* The results. *)

(* No lost update: whatever the interleaving of the writers and the answers *)
(* of the backends, a registration that returned without error stays        *)
(* published until its own owner replaces it.                               *)
THEOREM RegistrationsAreKept == Spec => []NoLostUpdate
<1>1. RegistryInv => NoLostUpdate
  BY DEF RegistryInv
<1> QED BY <1>1, InvHolds, PTL

(* In every published state the conns table and the handlers table agree,   *)
(* and a connection answers the methods of all the files it listed.         *)
THEOREM PublishedTablesAgree == Spec => []ConnTablesAgree
<1>1. RegistryInv => ConnTablesAgree
  BY DEF RegistryInv, ConnTablesAgree
<1> QED BY <1>1, InvHolds, PTL

(* From the clone to the unlock the published state does not move under a   *)
(* writer: outside of its own owner the clone equals it.                    *)
THEOREM ClonesAreCurrent == Spec => []CloneIsCurrent
<1>1. RegistryInv => CloneIsCurrent
  BY DEF RegistryInv, CloneIsCurrent, WriterInv, Critical, Frame
<1> QED BY <1>1, InvHolds, PTL

(* A published state changes only by a store, which replaces the methods of *)
(* one owner by a complete set.                                             *)
LEMMA RefinesStep ==
  RegistryInv /\ [Next]_vars => [Reg!Next]_Serving
<1> SUFFICES ASSUME RegistryInv, Next, state' # state PROVE Reg!Next
  BY DEF vars, Serving, OwnedBy
<1>1. PICK w \in Writers : StoreState(w)
  <2>1. ASSUME NEW r \in Readers, StartRequest(r) \/ Serve(r) PROVE FALSE
    BY <2>1 DEF StartRequest, Serve, ServeHTTP, ServeGRPC, Match,
                PickMethodHandler, Respond, ReaderStep
  <2>2. ASSUME NEW w \in Writers, Call(w) \/ Backend(w) PROVE FALSE
    BY <2>2 DEF Call, RegisterService, RegisterServiceFatal, RegisterConn, DropConn, Begin, Backend,
                OpenStream, OpenStreamFails, Fetch, FetchFails, NewFile,
                NewFileFails, Local
  <2>3. ASSUME NEW w \in Writers, Compute(w) PROVE StoreState(w)
    BY <2>3 DEF Compute, LockService, LockConn, LockDrop, LockAndClone, RemoveOne,
                RemoveDone, FilesDone, BeginMethod, MethodsDone, AddRule,
                AppendHandler, Unlock, Local
  <2> QED BY <2>1, <2>2, <2>3 DEF Next
<1> DEFINE x == wr[w]
<1>2. /\ x \in Writer /\ OpOK(x) /\ WriterInv(x, state) /\ x.pc = "store"
      /\ Critical(x) /\ x.op \in {"service", "conn"} /\ state' = x.s
  BY <1>1, BeforeStep DEF StoreState, Critical, OpOK
<1>3. /\ x.op = "service" => x.who \in Services
      /\ x.op = "conn" => x.who \in Conns
      /\ \A c \in Conns : c \in Owners /\ c \notin Services
      /\ \A svc \in Services : svc \in Owners
  BY <1>2, ConstantsDistinct DEF OpOK, Owners
<1>4. Frame(x, state) /\ Storing(x, state)
  BY <1>2 DEF WriterInv
<1>5. Target(x) \in Complete[x.who]
  BY <1>2, <1>3, <1>4 DEF Target, Complete, Storing
<1>6. Serving' = [Serving EXCEPT ![x.who] = Target(x)]
  <2>1. \A o \in Owners \ {x.who} : OwnedBy(x.s, o) = OwnedBy(state, o)
    BY <1>4 DEF Frame
  <2>2. {h.method : h \in OwnedBy(x.s, x.who)} = Target(x)
    BY <1>2, <1>4 DEF Storing, MethodsOf
  <2>3. Serving' = [o \in Owners |-> {h.method : h \in OwnedBy(x.s, o)}]
    BY <1>2 DEF Serving, OwnedBy
  <2> QED BY <1>2, <1>3, <2>1, <2>2, <2>3 DEF Serving
<1> QED BY <1>2, <1>3, <1>5, <1>6 DEF Reg!Next, Reg!Register

LEMMA RefinesInit == Init => Reg!Init
BY DEF Init, Reg!Init, Serving, OwnedBy, EmptyState

(* The mutex, the clones and the partial edits under them are invisible:    *)
(* the code implements the registry in which a registration is one step.    *)
THEOREM MuxImplementsRegistry == Spec => RefinesRegistry
<1>1. Spec => Reg!Init /\ [][Reg!Next]_Serving
  BY RefinesInit, RefinesStep, InvHolds, PTL DEF Spec
<1> QED BY <1>1 DEF RefinesRegistry, Reg!Spec

-----------------------------------------------------------------------------
(* The service configuration. *)

LEMMA MinFacts ==
  ASSUME NEW S \in SUBSET Nat, S # {}
  PROVE  Min(S) \in S /\ \A x \in S : Min(S) <= x
<1>1. \E x \in S : \A y \in S : x <= y
  BY NatMin
<1> QED BY <1>1 DEF Min

LEMMA DepthFacts ==
  ASSUME NEW sel \in Seq(STRING)
  PROVE  /\ Depth(sel) \in 0 .. Len(sel)
         /\ \A i \in 1 .. Depth(sel) : sel[i] \notin {NoPart, "*"}
         /\ Depth(sel) < Len(sel) => sel[Depth(sel) + 1] \in {NoPart, "*"}
<1> DEFINE n == Len(sel)
           E == {i \in 1 .. n : sel[i] \in {NoPart, "*"}}
           S == E \cup {n + 1}
           m == Min(S)
<1>1. n \in Nat
  OBVIOUS
<1> HIDE DEF n
<1>2. S \in SUBSET Nat /\ S # {}
  BY <1>1
<1> HIDE DEF S
<1>3. m \in S /\ \A x \in S : m <= x
  BY <1>2, MinFacts
<1>4. Depth(sel) = m - 1
  BY DEF Depth, m, S, n
<1> HIDE DEF m
<1>5. m \in 1 .. n + 1
  BY <1>1, <1>3 DEF S
<1>6. ASSUME NEW i \in 1 .. m - 1 PROVE sel[i] \notin {NoPart, "*"}
  <2>1. i \in 1 .. n /\ ~ (m <= i)
    BY <1>1, <1>5
  <2> QED BY <1>3, <2>1 DEF S
<1>7. m - 1 < n => sel[(m - 1) + 1] \in {NoPart, "*"}
  <2> SUFFICES ASSUME m - 1 < n PROVE sel[(m - 1) + 1] \in {NoPart, "*"}
    OBVIOUS
  <2>1. (m - 1) + 1 = m /\ m # n + 1
    BY <1>1, <1>5
  <2>2. m \in E
    BY <1>3, <2>1 DEF S
  <2> HIDE DEF E
  <2> QED BY <2>1, <2>2 DEF E
<1>8. m - 1 \in 0 .. n
  BY <1>1, <1>5
<1> QED BY <1>4, <1>6, <1>7, <1>8 DEF n

(* The rule of a selector is where it names. *)
LEMMA NodeIsNamed ==
  ASSUME NEW sel \in Seq(STRING), sel # <<>>, StarAtEnd(sel)
  PROVE  NodeOf(sel) = Named(sel)
<1> DEFINE n == Len(sel)
           d == Depth(sel)
<1>1. n \in Nat /\ n > 0
  OBVIOUS
<1>2. /\ d \in 0 .. n /\ \A i \in 1 .. d : sel[i] \notin {NoPart, "*"}
      /\ d < n => sel[d + 1] \in {NoPart, "*"}
  BY DepthFacts
<1>3. \A i \in 1 .. n : sel[i] # NoPart /\ (sel[i] = "*" => i = n)
  BY DEF StarAtEnd
<1>4. NodeOf(sel) = SubSeq(sel, 1, d) /\ Last(sel) = sel[n] /\ Front(sel) = SubSeq(sel, 1, n - 1)
  BY DEF NodeOf, Last, Front
<1> HIDE DEF d, n
<1>5. CASE sel[n] = "*"
  <2>1. n \notin 1 .. d
    BY <1>2, <1>5
  <2>2. d < n
    BY <1>1, <1>2, <2>1
  <2>3. d + 1 \in 1 .. n
    BY <1>1, <1>2, <2>2
  <2>4. d + 1 = n
    BY <1>2, <1>3, <2>2, <2>3
  <2>5. d = n - 1
    BY <1>1, <1>2, <2>4
  <2> QED BY <1>4, <1>5, <2>5 DEF Named
<1>6. CASE sel[n] # "*"
  <2>1. ~ (d < n)
    <3> SUFFICES ASSUME d < n PROVE FALSE
      OBVIOUS
    <3>1. d + 1 \in 1 .. n
      BY <1>1, <1>2
    <3> QED BY <1>2, <1>3, <1>6, <3>1
  <2>2. d = n
    BY <1>1, <1>2, <2>1
  <2>3. SubSeq(sel, 1, n) = sel
    BY DEF n
  <2> QED BY <1>4, <1>6, <2>2, <2>3 DEF Named
<1> QED BY <1>5, <1>6

(* setRules panics for the other ones. *)
LEMMA InvalidIsMalformed ==
  ASSUME NEW sel \in Seq(STRING), \A k \in 1 .. Len(sel) : sel[k] # NoPart
  PROVE  InvalidSelector(sel) <=> ~StarAtEnd(sel)
<1> DEFINE n == Len(sel)
           d == Depth(sel)
           rest == SubSeq(sel, d + 1, n)
<1>1. /\ d \in 0 .. n /\ \A i \in 1 .. d : sel[i] \notin {NoPart, "*"}
      /\ d < n => sel[d + 1] \in {NoPart, "*"}
  BY DepthFacts
<1>2. n \in Nat /\ \A k \in 1 .. n : sel[k] # NoPart /\ sel[k] \in STRING
  OBVIOUS
<1>3. InvalidSelector(sel) <=> rest # <<>> /\ rest[1] = "*" /\ Tail(rest) \notin {<<>>, <<NoPart>>}
  BY DEF InvalidSelector
<1>4. /\ rest \in Seq(STRING) /\ Len(rest) = n - d
      /\ \A k \in 1 .. n - d : rest[k] = sel[d + k]
  <2> HIDE DEF d
  <2>1. d + 1 \in 1 .. n + 1 /\ n \in d .. n /\ d \in Nat
    BY <1>1, <1>2
  <2>2. \A i \in d + 1 .. n : sel[i] \in STRING
    BY <1>1, <1>2
  <2>3. /\ rest \in Seq(STRING) /\ Len(rest) = IF d + 1 <= n THEN n - (d + 1) + 1 ELSE 0
        /\ \A k \in 1 .. n - (d + 1) + 1 : rest[k] = sel[(d + 1) + k - 1]
    BY <2>1, <2>2, SubSeqProperties
  <2>4. Len(rest) = n - d /\ n - (d + 1) + 1 = n - d
    BY <1>1, <1>2, <2>3
  <2>5. ASSUME NEW k \in 1 .. n - d PROVE rest[k] = sel[d + k]
    <3>1. k \in 1 .. n - (d + 1) + 1 /\ (d + 1) + k - 1 = d + k
      BY <1>1, <1>2
    <3>2. rest[k] = sel[(d + 1) + k - 1]
      BY <2>3, <3>1
    <3> QED BY <3>1, <3>2
  <2> QED BY <2>3, <2>4, <2>5
<1> HIDE DEF rest, d, n
<1>5. CASE d = n
  <2>1. rest = <<>>
    BY <1>2, <1>4, <1>5, EmptySeq
  <2>2. StarAtEnd(sel)
    BY <1>1, <1>2, <1>5 DEF StarAtEnd, n
  <2> QED BY <1>3, <2>1, <2>2
<1>6. CASE d < n
  <2>1. d + 1 \in 1 .. n /\ 1 \in 1 .. n - d
    BY <1>1, <1>2, <1>6
  <2>2. sel[d + 1] = "*"
    BY <1>1, <1>2, <1>6, <2>1
  <2>3. rest[1] = "*" /\ rest # <<>>
    BY <1>4, <2>1, <2>2
  <2>4. /\ Tail(rest) \in Seq(STRING) /\ Len(Tail(rest)) = (n - d) - 1
        /\ \A k \in 1 .. (n - d) - 1 : Tail(rest)[k] = sel[d + (k + 1)]
    <3>1. /\ Tail(rest) \in Seq(STRING) /\ Len(Tail(rest)) = Len(rest) - 1
          /\ \A k \in 1 .. Len(Tail(rest)) : Tail(rest)[k] = rest[k + 1]
      BY <1>4, <2>3, HeadTailProperties
    <3>2. \A k \in 1 .. (n - d) - 1 : k + 1 \in 1 .. n - d
      BY <1>1, <1>2
    <3> QED BY <1>4, <3>1, <3>2
  <2>5. Tail(rest) # <<NoPart>>
    <3> SUFFICES ASSUME Tail(rest) = <<NoPart>> PROVE FALSE
      OBVIOUS
    <3>1. Len(Tail(rest)) = 1 /\ Tail(rest)[1] = NoPart
      <4>1. Len(<<NoPart>>) = 1 /\ <<NoPart>>[1] = NoPart
        OBVIOUS
      <4> QED BY <4>1, Zenon
    <3>2. 1 \in 1 .. (n - d) - 1 /\ d + (1 + 1) \in 1 .. n
      BY <1>1, <1>2, <2>4, <3>1
    <3> QED BY <1>2, <2>4, <3>1, <3>2
  <2>6. Tail(rest) = <<>> <=> d + 1 = n
    <3>1. Tail(rest) = <<>> <=> Len(Tail(rest)) = 0
      BY <2>4, EmptySeq
    <3> QED BY <1>1, <1>2, <2>4, <3>1
  <2>7. StarAtEnd(sel) <=> d + 1 = n
    <3>1. StarAtEnd(sel) => d + 1 = n
      BY <2>1, <2>2 DEF StarAtEnd, n
    <3>2. ASSUME d + 1 = n PROVE StarAtEnd(sel)
      <4> SUFFICES ASSUME NEW i \in 1 .. n, sel[i] = "*" PROVE i = n
        BY <1>2 DEF StarAtEnd, n
      <4>1. i \notin 1 .. d
        BY <1>1
      <4> QED BY <1>1, <1>2, <3>2, <4>1
    <3> QED BY <3>1, <3>2
  <2> QED BY <1>3, <2>3, <2>5, <2>6, <2>7
<1> QED BY <1>1, <1>2, <1>5, <1>6

(* s has the first i rules whose selectors end at the node, in their order. *)
Collected(s, selectors, node, i) ==
  /\ s \in Seq(Nat)
  /\ \A k \in 1 .. Len(s) : s[k] \in 1 .. i /\ NodeOf(selectors[s[k]]) = node
  /\ \A r \in 1 .. i : NodeOf(selectors[r]) = node => \E k \in 1 .. Len(s) : s[k] = r
  /\ \A a, b \in 1 .. Len(s) : a < b => s[a] < s[b]

LEMMA CollectedSkip ==
  ASSUME NEW selectors, NEW node, NEW s, NEW i \in Nat, Collected(s, selectors, node, i),
         NodeOf(selectors[i + 1]) # node
  PROVE  Collected(s, selectors, node, i + 1)
<1>1. /\ s \in Seq(Nat)
      /\ \A k \in 1 .. Len(s) : s[k] \in 1 .. i /\ NodeOf(selectors[s[k]]) = node
      /\ \A r \in 1 .. i : NodeOf(selectors[r]) = node => \E k \in 1 .. Len(s) : s[k] = r
      /\ \A a, b \in 1 .. Len(s) : a < b => s[a] < s[b]
  BY DEF Collected
<1>2. \A r \in 1 .. i : r \in 1 .. i + 1
  OBVIOUS
<1>3. \A k \in 1 .. Len(s) : s[k] \in 1 .. i + 1
  BY <1>1, <1>2
<1>4. \A r \in 1 .. i + 1 : r = i + 1 \/ r \in 1 .. i
  OBVIOUS
<1>5. \A r \in 1 .. i + 1 : NodeOf(selectors[r]) = node => r \in 1 .. i
  BY <1>4
<1> QED BY <1>1, <1>3, <1>5 DEF Collected

LEMMA CollectedMore ==
  ASSUME NEW selectors, NEW node, NEW s, NEW i \in Nat, Collected(s, selectors, node, i),
         NodeOf(selectors[i + 1]) = node
  PROVE  Collected(Append(s, i + 1), selectors, node, i + 1)
<1> DEFINE t == Append(s, i + 1)
           m == Len(s)
<1>1. /\ s \in Seq(Nat)
      /\ \A k \in 1 .. m : s[k] \in 1 .. i /\ NodeOf(selectors[s[k]]) = node
      /\ \A r \in 1 .. i : NodeOf(selectors[r]) = node => \E k \in 1 .. m : s[k] = r
      /\ \A a, b \in 1 .. m : a < b => s[a] < s[b]
  BY DEF Collected
<1>2. /\ t \in Seq(Nat) /\ Len(t) = m + 1
      /\ t[m + 1] = i + 1 /\ \A k \in 1 .. m : t[k] = s[k]
  BY <1>1, AppendProperties
<1>3. m \in Nat
  BY <1>1
<1> HIDE DEF m, t
<1>4. /\ \A k \in 1 .. m + 1 : k = m + 1 \/ k \in 1 .. m
      /\ \A r \in 1 .. i + 1 : r = i + 1 \/ r \in 1 .. i
      /\ \A r \in 1 .. i : r \in 1 .. i + 1 /\ r < i + 1
      /\ \A k \in 1 .. m : k \in 1 .. m + 1
      /\ m + 1 \in 1 .. m + 1 /\ i + 1 \in 1 .. i + 1
      /\ \A a, b \in 1 .. m + 1 : a < b => a \in 1 .. m
  BY <1>3
<1>5. ASSUME NEW k \in 1 .. m + 1
      PROVE  t[k] \in 1 .. i + 1 /\ NodeOf(selectors[t[k]]) = node
  <2>1. CASE k = m + 1
    BY <1>2, <1>4, <2>1
  <2>2. CASE k \in 1 .. m
    BY <1>1, <1>2, <1>4, <2>2
  <2> QED BY <1>4, <2>1, <2>2
<1>6. ASSUME NEW r \in 1 .. i + 1, NodeOf(selectors[r]) = node
      PROVE  \E k \in 1 .. m + 1 : t[k] = r
  <2>1. CASE r = i + 1
    BY <1>2, <1>4, <2>1
  <2>2. CASE r \in 1 .. i
    <3>1. PICK k \in 1 .. m : s[k] = r
      BY <1>1, <1>6, <2>2
    <3>2. k \in 1 .. m + 1 /\ t[k] = r
      BY <1>2, <1>4, <3>1
    <3> QED BY <3>2
  <2> QED BY <1>4, <2>1, <2>2
<1>7. ASSUME NEW a \in 1 .. m + 1, NEW b \in 1 .. m + 1, a < b
      PROVE  t[a] < t[b]
  <2>1. a \in 1 .. m
    BY <1>4, <1>7
  <2>2. CASE b = m + 1
    <3>1. t[a] = s[a] /\ t[b] = i + 1 /\ s[a] \in 1 .. i
      BY <1>1, <1>2, <2>1, <2>2
    <3> QED BY <1>4, <3>1
  <2>3. CASE b \in 1 .. m
    <3>1. t[a] = s[a] /\ t[b] = s[b]
      BY <1>2, <2>1, <2>3
    <3> QED BY <1>1, <1>7, <2>1, <2>3, <3>1
  <2> QED BY <1>4, <2>2, <2>3
<1>8. Collected(t, selectors, node, i + 1)
  BY <1>2, <1>5, <1>6, <1>7 DEF Collected
<1> QED BY <1>8 DEF t

(* The rules of a node, for any configuration. *)
LEMMA RulesAtCollects ==
  ASSUME NEW selectors, Len(selectors) \in Nat, NEW node
  PROVE  Collected(RulesAt(selectors, node), selectors, node, Len(selectors))
<1> DEFINE n == Len(selectors)
           V == Seq(Nat)
           Step(v, i) == IF NodeOf(selectors[i]) = node THEN Append(v, i) ELSE v
           F == [p \in (0 .. n) \X V |-> IF p[1] = 0 THEN p[2] ELSE Step(p[2], p[1])]
           Eq(f) == f = [i \in 0 .. n |->
                           CASE i = 0 -> <<>>
                             [] i > 0 /\ NodeOf(selectors[i]) = node -> Append(f[i - 1], i)
                             [] OTHER -> f[i - 1]]
           h == CHOOSE f : Eq(f)
<1>1. n \in Nat /\ <<>> \in V
  OBVIOUS
<1>2. RulesAt(selectors, node) = h[n]
  BY DEF RulesAt
<1> HIDE DEF n
<1>3. ASSUME NEW v \in V, NEW i \in 1 .. n
      PROVE  Step(v, i) \in V
  OBVIOUS
<1>4. ASSUME NEW f
      PROVE  \A i \in 0 .. n :
               (CASE i = 0 -> <<>>
                  [] i > 0 /\ NodeOf(selectors[i]) = node -> Append(f[i - 1], i)
                  [] OTHER -> f[i - 1])
               = IF i = 0 THEN <<>> ELSE Step(f[i - 1], i)
  <2> SUFFICES ASSUME NEW i \in 0 .. n
               PROVE  (CASE i = 0 -> <<>>
                         [] i > 0 /\ NodeOf(selectors[i]) = node -> Append(f[i - 1], i)
                         [] OTHER -> f[i - 1])
                      = IF i = 0 THEN <<>> ELSE Step(f[i - 1], i)
    OBVIOUS
  <2>1. i = 0 \/ (i > 0 /\ i # 0)
    BY <1>1
  <2>2. ~ (i = 0 /\ i > 0)
    OBVIOUS
  <2> QED BY <2>1, <2>2
<1>5. \A f : Eq(f) <=> f = [i \in 0 .. n |-> IF i = 0 THEN <<>> ELSE Step(f[i - 1], i)]
  BY <1>4
<1> HIDE DEF Step, Eq
<1>6. ASSUME NEW i \in 0 .. n, NEW v \in V
      PROVE  F[<<i, v>>] = (IF i = 0 THEN v ELSE Step(v, i)) /\ F[<<i, v>>] \in V
  <2>1. F[<<i, v>>] = IF i = 0 THEN v ELSE Step(v, i)
    OBVIOUS
  <2>2. i # 0 => i \in 1 .. n
    BY <1>1
  <2> HIDE DEF F, V
  <2> QED BY <1>3, <2>1, <2>2
<1>7. F \in [(0 .. n) \X V -> V]
  <2>1. \A p \in (0 .. n) \X V : F[p] \in V
    <3> SUFFICES ASSUME NEW p \in (0 .. n) \X V PROVE F[p] \in V
      OBVIOUS
    <3>1. p = <<p[1], p[2]>> /\ p[1] \in 0 .. n /\ p[2] \in V
      OBVIOUS
    <3> HIDE DEF F, V
    <3> QED BY <1>6, <3>1
  <2>2. F = [p \in (0 .. n) \X V |-> F[p]]
    OBVIOUS
  <2> HIDE DEF F
  <2> QED BY <2>1, <2>2
<1> HIDE DEF F, V
<1>8. PICK f \in [0 .. n -> V] : IsLoop(f, 0, n, <<>>, F)
  <2>1. 0 \in Nat /\ n \in Nat /\ 0 <= n /\ <<>> \in V
    BY <1>1
  <2> QED BY <1>7, <2>1, LoopExists
<1>9. Eq(f)
  <2>1. ASSUME NEW i \in 0 .. n
        PROVE  f[i] = IF i = 0 THEN <<>> ELSE Step(f[i - 1], i)
    <3>1. CASE i = 0
      BY <1>8, <3>1 DEF IsLoop
    <3>2. CASE i # 0
      <4>1. i - 1 \in 0 .. n
        BY <1>1, <3>2
      <4>2. f[i] = F[<<i, f[i - 1]>>] /\ f[i - 1] \in V
        BY <1>8, <3>2, <4>1 DEF IsLoop
      <4> QED BY <1>6, <3>2, <4>2
    <3> QED BY <3>1, <3>2
  <2>2. f = [i \in 0 .. n |-> IF i = 0 THEN <<>> ELSE Step(f[i - 1], i)]
    BY <2>1
  <2> QED BY <1>5, <2>2
<1>10. Eq(h)
  BY <1>9
<1> HIDE DEF h
<1>11. h = [i \in 0 .. n |-> IF i = 0 THEN <<>> ELSE Step(h[i - 1], i)]
  BY <1>5, <1>10
<1>12. \A i \in 0 .. n : Collected(h[i], selectors, node, i)
  <2> DEFINE T == {i \in 0 .. n : Collected(h[i], selectors, node, i)}
  <2>1. 0 \in T
    <3>1. h[0] = <<>>
      BY <1>1, <1>11
    <3>2. Collected(<<>>, selectors, node, 0)
      BY DEF Collected
    <3> QED BY <1>1, <3>1, <3>2
  <2>2. ASSUME NEW i \in 0 .. n, i + 1 <= n, i \in T
        PROVE  i + 1 \in T
    <3> DEFINE s == h[i]
               t == h[i + 1]
    <3>1. i + 1 \in 0 .. n /\ (i + 1) - 1 = i /\ i + 1 # 0
      BY <1>1, <2>2
    <3>2. t = IF NodeOf(selectors[i + 1]) = node THEN Append(s, i + 1) ELSE s
      BY <1>11, <3>1 DEF Step
    <3>3. i \in Nat
      BY <1>1
    <3>4. Collected(s, selectors, node, i)
      BY <2>2
    <3> HIDE DEF s, t, T
    <3>5. Collected(t, selectors, node, i + 1)
      BY <3>2, <3>3, <3>4, CollectedMore, CollectedSkip
    <3> QED BY <3>1, <3>5 DEF t, T
  <2> HIDE DEF T
  <2>3. \A i \in 0 .. n : i \in T
    <3>1. 0 \in Nat
      OBVIOUS
    <3> QED BY <1>1, <2>1, <2>2, <3>1, Induction
  <2> QED BY <2>3 DEF T
<1>13. Collected(h[n], selectors, node, n)
  BY <1>1, <1>12
<1> QED BY <1>2, <1>13 DEF n

(* A rule is at one of the first nodes on the way to a name, as deep as d. *)
OnWay(selectors, r, name, d) == \E e \in 0 .. d : NodeOf(selectors[r]) = SubSeq(name, 1, e)

(* Rule i is at a higher node than rule j, or at the same one before it. *)
Ahead(selectors, i, j) ==
  \/ Len(NodeOf(selectors[i])) < Len(NodeOf(selectors[j]))
  \/ Len(NodeOf(selectors[i])) = Len(NodeOf(selectors[j])) /\ i < j

(* s has the rules of these nodes, each once, in order. *)
Gathered(s, selectors, name, d) ==
  /\ s \in Seq(Nat)
  /\ \A k \in 1 .. Len(s) : s[k] \in 1 .. Len(selectors) /\ OnWay(selectors, s[k], name, d)
  /\ \A r \in 1 .. Len(selectors) :
       OnWay(selectors, r, name, d) => \E k \in 1 .. Len(s) : s[k] = r
  /\ \A a, b \in 1 .. Len(s) : a < b => Ahead(selectors, s[a], s[b])

LEMMA PrefixLength ==
  ASSUME NEW name \in Seq(STRING), NEW e \in 0 .. Len(name)
  PROVE  Len(SubSeq(name, 1, e)) = e
<1>1. e \in Int /\ 1 \in Int /\ \A i \in 1 .. e : name[i] \in STRING
  OBVIOUS
<1>2. Len(SubSeq(name, 1, e)) = IF 1 <= e THEN e - 1 + 1 ELSE 0
  BY <1>1, SubSeqProperties
<1> QED BY <1>2

LEMMA GatheredFirst ==
  ASSUME NEW selectors, Len(selectors) \in Nat, NEW name \in Seq(STRING)
  PROVE  Gathered(RulesAt(selectors, <<>>), selectors, name, 0)
<1> DEFINE s == RulesAt(selectors, <<>>)
           n == Len(selectors)
<1>1. /\ s \in Seq(Nat)
      /\ \A k \in 1 .. Len(s) : s[k] \in 1 .. n /\ NodeOf(selectors[s[k]]) = <<>>
      /\ \A r \in 1 .. n : NodeOf(selectors[r]) = <<>> => \E k \in 1 .. Len(s) : s[k] = r
      /\ \A a, b \in 1 .. Len(s) : a < b => s[a] < s[b]
  BY RulesAtCollects DEF Collected
<1>2. SubSeq(name, 1, 0) = <<>>
  BY SubSeqEmpty
<1>3. \A r : OnWay(selectors, r, name, 0) <=> NodeOf(selectors[r]) = <<>>
  <2>1. \A e \in 0 .. 0 : e = 0
    OBVIOUS
  <2>2. 0 \in 0 .. 0
    OBVIOUS
  <2> QED BY <1>2, <2>1, <2>2 DEF OnWay
<1> HIDE DEF s, n
<1>4. \A a, b \in 1 .. Len(s) : a < b => Ahead(selectors, s[a], s[b])
  <2> SUFFICES ASSUME NEW a \in 1 .. Len(s), NEW b \in 1 .. Len(s), a < b
               PROVE  Ahead(selectors, s[a], s[b])
    OBVIOUS
  <2>1. NodeOf(selectors[s[a]]) = NodeOf(selectors[s[b]]) /\ s[a] < s[b]
    BY <1>1
  <2> QED BY <2>1 DEF Ahead
<1>5. Gathered(s, selectors, name, 0)
  BY <1>1, <1>3, <1>4 DEF Gathered, n
<1> QED BY <1>5 DEF s

LEMMA GatheredMore ==
  ASSUME NEW selectors, Len(selectors) \in Nat, NEW name \in Seq(STRING),
         NEW d \in Nat, d + 1 <= Len(name), NEW s, Gathered(s, selectors, name, d)
  PROVE  Gathered(s \o RulesAt(selectors, SubSeq(name, 1, d + 1)), selectors, name, d + 1)
<1> DEFINE node == SubSeq(name, 1, d + 1)
           t == RulesAt(selectors, node)
           u == s \o t
           n == Len(selectors)
           p == Len(s)
           q == Len(t)
<1>1. /\ s \in Seq(Nat)
      /\ \A k \in 1 .. p : s[k] \in 1 .. n /\ OnWay(selectors, s[k], name, d)
      /\ \A r \in 1 .. n : OnWay(selectors, r, name, d) => \E k \in 1 .. p : s[k] = r
      /\ \A a, b \in 1 .. p : a < b => Ahead(selectors, s[a], s[b])
  BY DEF Gathered
<1>2. Len(node) = d + 1
  <2>1. d + 1 \in 0 .. Len(name)
    OBVIOUS
  <2> QED BY <2>1, PrefixLength
<1>3. \A e \in 0 .. d : Len(SubSeq(name, 1, e)) = e
  <2>1. \A e \in 0 .. d : e \in 0 .. Len(name)
    OBVIOUS
  <2> QED BY <2>1, PrefixLength
<1>4. \A r : OnWay(selectors, r, name, d + 1) <=>
               OnWay(selectors, r, name, d) \/ NodeOf(selectors[r]) = node
  <2>1. /\ \A e \in 0 .. d + 1 : e \in 0 .. d \/ e = d + 1
        /\ \A e \in 0 .. d : e \in 0 .. d + 1
        /\ d + 1 \in 0 .. d + 1
    OBVIOUS
  <2> QED BY <2>1 DEF OnWay
<1> HIDE DEF node
<1>5. /\ t \in Seq(Nat)
      /\ \A k \in 1 .. q : t[k] \in 1 .. n /\ NodeOf(selectors[t[k]]) = node
      /\ \A r \in 1 .. n : NodeOf(selectors[r]) = node => \E k \in 1 .. q : t[k] = r
      /\ \A a, b \in 1 .. q : a < b => t[a] < t[b]
  BY RulesAtCollects DEF Collected
<1> HIDE DEF t, n
<1>6. /\ u \in Seq(Nat) /\ Len(u) = p + q
      /\ \A k \in 1 .. p + q : u[k] = IF k <= p THEN s[k] ELSE t[k - p]
  BY <1>1, <1>5, ConcatProperties
<1>7. p \in Nat /\ q \in Nat
  BY <1>1, <1>5
<1> HIDE DEF u, p, q
<1>8. /\ \A k \in 1 .. p + q : k \in 1 .. p \/ (k - p \in 1 .. q /\ ~ (k <= p))
      /\ \A k \in 1 .. p : k \in 1 .. p + q /\ k <= p
      /\ \A k \in 1 .. q : k + p \in 1 .. p + q /\ ~ (k + p <= p) /\ (k + p) - p = k
      /\ \A a, b \in 1 .. p + q : a < b => (a - p < b - p /\ (b <= p => a <= p))
  BY <1>7
<1>9. ASSUME NEW k \in 1 .. p + q
      PROVE  \/ k \in 1 .. p /\ u[k] = s[k]
             \/ k - p \in 1 .. q /\ u[k] = t[k - p]
  BY <1>6, <1>8
<1>10. ASSUME NEW k \in 1 .. p + q
       PROVE  u[k] \in 1 .. n /\ OnWay(selectors, u[k], name, d + 1)
  BY <1>1, <1>4, <1>5, <1>9
<1>11. ASSUME NEW r \in 1 .. n, OnWay(selectors, r, name, d + 1)
       PROVE  \E k \in 1 .. p + q : u[k] = r
  <2>1. CASE OnWay(selectors, r, name, d)
    <3>1. PICK k \in 1 .. p : s[k] = r
      BY <1>1, <2>1
    <3>2. k \in 1 .. p + q /\ u[k] = r
      BY <1>6, <1>8, <3>1
    <3> QED BY <3>2
  <2>2. CASE NodeOf(selectors[r]) = node
    <3>1. PICK k \in 1 .. q : t[k] = r
      BY <1>5, <2>2
    <3>2. k + p \in 1 .. p + q /\ u[k + p] = r
      BY <1>6, <1>8, <3>1
    <3> QED BY <3>2
  <2> QED BY <1>4, <1>11, <2>1, <2>2
<1>12. ASSUME NEW a \in 1 .. p + q, NEW b \in 1 .. p + q, a < b
       PROVE  Ahead(selectors, u[a], u[b])
  <2>1. CASE b \in 1 .. p
    <3>1. a \in 1 .. p
      BY <1>7, <1>12, <2>1
    <3>2. u[a] = s[a] /\ u[b] = s[b]
      BY <1>6, <1>8, <2>1, <3>1
    <3> QED BY <1>1, <1>12, <2>1, <3>1, <3>2
  <2>2. CASE a \in 1 .. p /\ b - p \in 1 .. q /\ u[b] = t[b - p]
    <3>1. u[a] = s[a]
      BY <1>6, <1>8, <2>2
    <3>2. PICK e \in 0 .. d : NodeOf(selectors[s[a]]) = SubSeq(name, 1, e)
      BY <1>1, <2>2 DEF OnWay
    <3>3. Len(NodeOf(selectors[u[a]])) = e
      BY <1>3, <3>1, <3>2
    <3>4. Len(NodeOf(selectors[u[b]])) = d + 1
      BY <1>2, <1>5, <2>2
    <3>5. e < d + 1
      OBVIOUS
    <3> QED BY <3>3, <3>4, <3>5 DEF Ahead
  <2>3. CASE a - p \in 1 .. q /\ u[a] = t[a - p] /\ b - p \in 1 .. q /\ u[b] = t[b - p]
    <3>1. a - p < b - p
      BY <1>8, <1>12
    <3>2. u[a] < u[b]
      BY <1>5, <2>3, <3>1
    <3>3. NodeOf(selectors[u[a]]) = NodeOf(selectors[u[b]])
      BY <1>5, <2>3
    <3> QED BY <3>2, <3>3 DEF Ahead
  <2> QED BY <1>9, <2>1, <2>2, <2>3
<1>13. Gathered(u, selectors, name, d + 1)
  BY <1>6, <1>10, <1>11, <1>12 DEF Gathered, n
<1> QED BY <1>13 DEF u, t, node

(* getRules finds the rules of all the nodes on the way to the name. *)
LEMMA GetRulesGathers ==
  ASSUME NEW selectors, Len(selectors) \in Nat, NEW name \in Seq(STRING)
  PROVE  Gathered(getRules(selectors, name), selectors, name, Len(name))
<1> DEFINE n == Len(name)
           V == Seq(Nat)
           first == RulesAt(selectors, <<>>)
           Step(v, d) == v \o RulesAt(selectors, SubSeq(name, 1, d))
           F == [p \in (0 .. n) \X V |-> IF p[1] = 0 THEN p[2] ELSE Step(p[2], p[1])]
           Eq(f) == f = [d \in 0 .. n |-> IF d = 0 THEN first ELSE Step(f[d - 1], d)]
           h == CHOOSE f : Eq(f)
<1>1. n \in Nat
  OBVIOUS
<1>2. getRules(selectors, name) = h[n]
  BY DEF getRules
<1> HIDE DEF n
<1>3. first \in V /\ \A node : RulesAt(selectors, node) \in V
  BY RulesAtCollects DEF Collected
<1>4. ASSUME NEW v \in V, NEW d
      PROVE  Step(v, d) \in V
  <2> DEFINE w == RulesAt(selectors, SubSeq(name, 1, d))
  <2>1. w \in V
    BY <1>3
  <2> HIDE DEF w
  <2>2. v \o w \in V
    BY <2>1
  <2> QED BY <2>2 DEF w
<1> HIDE DEF Step, first
<1>5. ASSUME NEW d \in 0 .. n, NEW v \in V
      PROVE  F[<<d, v>>] = (IF d = 0 THEN v ELSE Step(v, d)) /\ F[<<d, v>>] \in V
  <2>1. F[<<d, v>>] = IF d = 0 THEN v ELSE Step(v, d)
    OBVIOUS
  <2> HIDE DEF F, V
  <2> QED BY <1>4, <2>1
<1>6. F \in [(0 .. n) \X V -> V]
  <2>1. \A p \in (0 .. n) \X V : F[p] \in V
    <3> SUFFICES ASSUME NEW p \in (0 .. n) \X V PROVE F[p] \in V
      OBVIOUS
    <3>1. p = <<p[1], p[2]>> /\ p[1] \in 0 .. n /\ p[2] \in V
      OBVIOUS
    <3> HIDE DEF F, V
    <3> QED BY <1>5, <3>1
  <2>2. F = [p \in (0 .. n) \X V |-> F[p]]
    OBVIOUS
  <2> HIDE DEF F
  <2> QED BY <2>1, <2>2
<1> HIDE DEF F, V
<1>7. PICK f \in [0 .. n -> V] : IsLoop(f, 0, n, first, F)
  <2>1. 0 \in Nat /\ n \in Nat /\ 0 <= n
    BY <1>1
  <2> QED BY <1>3, <1>6, <2>1, LoopExists
<1>8. Eq(f)
  <2>1. ASSUME NEW d \in 0 .. n
        PROVE  f[d] = IF d = 0 THEN first ELSE Step(f[d - 1], d)
    <3>1. CASE d = 0
      BY <1>7, <3>1 DEF IsLoop
    <3>2. CASE d # 0
      <4>1. d - 1 \in 0 .. n
        BY <1>1, <3>2
      <4>2. f[d] = F[<<d, f[d - 1]>>] /\ f[d - 1] \in V
        BY <1>7, <3>2, <4>1 DEF IsLoop
      <4> QED BY <1>5, <3>2, <4>2
    <3> QED BY <3>1, <3>2
  <2> QED BY <2>1
<1>9. Eq(h)
  BY <1>8
<1> HIDE DEF h
<1>10. \A d \in 0 .. n : Gathered(h[d], selectors, name, d)
  <2> DEFINE T == {d \in 0 .. n : Gathered(h[d], selectors, name, d)}
  <2>1. 0 \in T
    <3>1. h[0] = first
      BY <1>1, <1>9
    <3>2. Gathered(first, selectors, name, 0)
      BY GatheredFirst DEF first
    <3> QED BY <1>1, <3>1, <3>2
  <2>2. ASSUME NEW d \in 0 .. n, d + 1 <= n, d \in T
        PROVE  d + 1 \in T
    <3> DEFINE s == h[d]
               t == h[d + 1]
    <3>1. d + 1 \in 0 .. n /\ (d + 1) - 1 = d /\ d + 1 # 0 /\ d \in Nat
      BY <1>1, <2>2
    <3>2. t = s \o RulesAt(selectors, SubSeq(name, 1, d + 1))
      BY <1>9, <3>1 DEF Step
    <3>3. Gathered(s, selectors, name, d)
      BY <2>2
    <3> HIDE DEF s, t, T
    <3>4. Gathered(t, selectors, name, d + 1)
      BY <2>2, <3>1, <3>2, <3>3, GatheredMore DEF n
    <3> QED BY <3>1, <3>4 DEF t, T
  <2> HIDE DEF T
  <2>3. \A d \in 0 .. n : d \in T
    <3>1. 0 \in Nat
      OBVIOUS
    <3> QED BY <1>1, <2>1, <2>2, <3>1, Induction
  <2> QED BY <2>3 DEF T
<1>11. Gathered(h[n], selectors, name, n)
  BY <1>1, <1>10
<1> QED BY <1>2, <1>11 DEF n

(* What was asked for last, and the answer to it. *)
Asked ==
  /\ config \in Seq(Seq(STRING) \ {<<>>})
  /\ selected.op = "config" =>
       selected.selectors \in Configs /\ selected.out = setRules(selected.selectors)
  /\ selected.op = "select" =>
       selected.name \in Names /\ selected.out = getRules(config, selected.name)

LEMMA AskedStep == Asked /\ [SelectorNext]_selectorVars => Asked'
<1> SUFFICES ASSUME Asked, [SelectorNext]_selectorVars PROVE Asked'
  OBVIOUS
<1>1. ASSUME NEW c \in Configs, ServiceConfig(c) PROVE Asked'
  <2>1. /\ config' = config \/ config' = c
        /\ selected' = [op |-> "config", selectors |-> c, out |-> setRules(c)]
    BY <1>1 DEF ServiceConfig
  <2>2. config' \in Seq(Seq(STRING) \ {<<>>})
    BY <2>1, SelectorTypes DEF Asked
  <2>3. selected'.op = "config" /\ selected'.selectors = c /\ selected'.out = setRules(c)
    BY <2>1
  <2> QED BY <2>2, <2>3 DEF Asked
<1>2. ASSUME NEW m \in Names, Select(m) PROVE Asked'
  <2>1. /\ config' = config
        /\ selected' = [op |-> "select", name |-> m, out |-> getRules(config, m)]
    BY <1>2 DEF Select
  <2>2. selected'.op = "select" /\ selected'.name = m /\ selected'.out = getRules(config, m)
    BY <2>1
  <2>3. selected'.out = getRules(config', selected'.name)
    BY <2>1, <2>2
  <2> QED BY <2>1, <2>2, <2>3 DEF Asked
<1>3. CASE UNCHANGED selectorVars
  BY <1>3 DEF Asked, selectorVars
<1> QED BY <1>1, <1>2, <1>3 DEF SelectorNext

LEMMA AskedPanics == Asked => InvalidPanics
<1> DEFINE sels == selected.selectors
<1> SUFFICES ASSUME Asked, selected.op = "config",
                    \A i \in DOMAIN sels : \A k \in DOMAIN sels[i] : sels[i][k] # NoPart
             PROVE  selected.out = "nil" <=> \A i \in DOMAIN sels : StarAtEnd(sels[i])
  BY DEF InvalidPanics
<1>1. sels \in Seq(Seq(STRING) \ {<<>>}) /\ selected.out = setRules(sels)
  BY SelectorTypes DEF Asked
<1> HIDE DEF sels
<1>2. ASSUME NEW i \in DOMAIN sels
      PROVE  InvalidSelector(sels[i]) <=> ~StarAtEnd(sels[i])
  <2> DEFINE sel == sels[i]
  <2>1. sel \in Seq(STRING)
    BY <1>1
  <2>2. \A k \in DOMAIN sel : sel[k] # NoPart
    OBVIOUS
  <2> HIDE DEF sel
  <2>3. DOMAIN sel = 1 .. Len(sel)
    BY <2>1
  <2>4. InvalidSelector(sel) <=> ~StarAtEnd(sel)
    BY <2>1, <2>2, <2>3, InvalidIsMalformed
  <2> QED BY <2>4 DEF sel
<1>3. "panic" # "nil"
  OBVIOUS
<1>4. selected.out = "nil" <=> ~ \E i \in DOMAIN sels : InvalidSelector(sels[i])
  BY <1>1, <1>3 DEF setRules
<1> QED BY <1>2, <1>4

(* A selector that the comment gives a name to names a prefix of it. *)
LEMMA SelectsPrefix ==
  ASSUME NEW sel \in Seq(STRING), sel # <<>>, NEW name \in Seq(STRING), Selects(sel, name)
  PROVE  \E e \in 0 .. Len(name) : Named(sel) = SubSeq(name, 1, e)
<1> DEFINE n == Len(name)
<1>1. n \in Nat /\ SubSeq(name, 1, n) = name /\ n \in 0 .. n
  OBVIOUS
<1>2. CASE sel = name
  <2>1. n # 0
    BY <1>2
  <2>2. n - 1 \in 0 .. n
    BY <1>1, <2>1
  <2>3. Named(sel) = name \/ Named(sel) = SubSeq(name, 1, n - 1)
    BY <1>2 DEF Named, Front
  <2> HIDE DEF n
  <2> QED BY <1>1, <2>2, <2>3 DEF n
<1>3. CASE Last(sel) = "*" /\ IsStrictPrefix(Front(sel), name)
  <2> DEFINE f == Front(sel)
             m == Len(f)
  <2>1. Named(sel) = f
    BY <1>3 DEF Named
  <2>2. f \in Seq(STRING)
    <3>1. \A i \in 1 .. Len(sel) - 1 : sel[i] \in STRING
      OBVIOUS
    <3>2. 1 \in Int /\ Len(sel) - 1 \in Int
      OBVIOUS
    <3> QED BY <3>1, <3>2, SubSeqProperties DEF Front
  <2>3. m <= n /\ SubSeq(f, 1, m) = SubSeq(name, 1, m)
    BY <1>3 DEF IsStrictPrefix, IsPrefix
  <2> HIDE DEF f
  <2>4. SubSeq(f, 1, m) = f /\ m \in Nat
    BY <2>2
  <2> HIDE DEF m, n
  <2>5. m \in 0 .. n
    BY <1>1, <2>3, <2>4
  <2> QED BY <2>1, <2>3, <2>4, <2>5 DEF n
<1> QED BY <1>2, <1>3 DEF Selects

LEMMA PrefixIsStart ==
  ASSUME NEW f \in Seq(STRING), NEW name \in Seq(STRING), IsPrefix(f, name)
  PROVE  \E e \in 0 .. Len(name) : f = SubSeq(name, 1, e)
<1> DEFINE m == Len(f)
           n == Len(name)
<1>1. m <= n /\ SubSeq(f, 1, m) = SubSeq(name, 1, m)
  BY DEF IsPrefix
<1>2. SubSeq(f, 1, m) = f /\ m \in Nat /\ n \in Nat
  OBVIOUS
<1> HIDE DEF m, n
<1>3. m \in 0 .. n
  BY <1>1, <1>2
<1> QED BY <1>1, <1>2, <1>3 DEF n

LEMMA NamedType ==
  ASSUME NEW sel \in Seq(STRING)
  PROVE  Named(sel) \in Seq(STRING)
<1>1. Front(sel) \in Seq(STRING)
  <2>1. \A i \in 1 .. Len(sel) - 1 : sel[i] \in STRING
    OBVIOUS
  <2>2. 1 \in Int /\ Len(sel) - 1 \in Int
    OBVIOUS
  <2> QED BY <2>1, <2>2, SubSeqProperties DEF Front
<1> QED BY <1>1 DEF Named

LEMMA AskedSelected == Asked => RulesSelected
<1> DEFINE name == selected.name
           out == selected.out
<1> SUFFICES ASSUME Asked, selected.op = "select", \A i \in DOMAIN config : StarAtEnd(config[i])
             PROVE  /\ IsInjective(out)
                    /\ \A i \in DOMAIN config :
                         /\ Selects(config[i], name) => i \in Range(out)
                         /\ i \in Range(out) <=> IsPrefix(Named(config[i]), name)
                    /\ \A a, b \in DOMAIN out : a < b => Before(out[a], out[b])
  BY DEF RulesSelected
<1>1. config \in Seq(Seq(STRING) \ {<<>>}) /\ name \in Seq(STRING) /\ out = getRules(config, name)
  BY SelectorTypes DEF Asked
<1>2. Gathered(out, config, name, Len(name))
  <2>1. Len(config) \in Nat
    BY <1>1
  <2> HIDE DEF name, out
  <2> QED BY <1>1, <2>1, GetRulesGathers
<1> HIDE DEF name, out
<1>3. /\ out \in Seq(Nat)
      /\ \A k \in 1 .. Len(out) :
           out[k] \in 1 .. Len(config) /\ OnWay(config, out[k], name, Len(name))
      /\ \A r \in 1 .. Len(config) :
           OnWay(config, r, name, Len(name)) => \E k \in 1 .. Len(out) : out[k] = r
      /\ \A a, b \in 1 .. Len(out) : a < b => Ahead(config, out[a], out[b])
  BY <1>2 DEF Gathered
<1>4. DOMAIN out = 1 .. Len(out) /\ DOMAIN config = 1 .. Len(config) /\ Len(out) \in Nat
  BY <1>1, <1>3
<1>5. ASSUME NEW i \in DOMAIN config
      PROVE  /\ config[i] \in Seq(STRING) /\ config[i] # <<>>
             /\ NodeOf(config[i]) = Named(config[i])
  <2> DEFINE sel == config[i]
  <2>1. sel \in Seq(STRING) /\ sel # <<>> /\ StarAtEnd(sel)
    BY <1>1
  <2> HIDE DEF sel
  <2>2. NodeOf(sel) = Named(sel)
    BY <2>1, NodeIsNamed
  <2> QED BY <2>1, <2>2 DEF sel
<1>6. ASSUME NEW i \in DOMAIN config, Selects(config[i], name)
      PROVE  i \in Range(out)
  <2> DEFINE sel == config[i]
  <2>1. sel \in Seq(STRING) /\ sel # <<>> /\ Selects(sel, name) /\ NodeOf(sel) = Named(sel)
    BY <1>5, <1>6
  <2>2. OnWay(config, i, name, Len(name)) <=>
          \E e \in 0 .. Len(name) : NodeOf(sel) = SubSeq(name, 1, e)
    BY DEF OnWay
  <2> HIDE DEF sel
  <2>3. \E e \in 0 .. Len(name) : Named(sel) = SubSeq(name, 1, e)
    BY <1>1, <2>1, SelectsPrefix
  <2>4. PICK k \in 1 .. Len(out) : out[k] = i
    BY <1>3, <1>4, <2>1, <2>2, <2>3
  <2> QED BY <1>4, <2>4 DEF Range
<1>10. ASSUME NEW i \in DOMAIN config, IsPrefix(Named(config[i]), name)
       PROVE  i \in Range(out)
  <2> DEFINE sel == config[i]
  <2>1. sel \in Seq(STRING) /\ IsPrefix(Named(sel), name) /\ NodeOf(sel) = Named(sel)
    BY <1>5, <1>10
  <2>2. OnWay(config, i, name, Len(name)) <=>
          \E e \in 0 .. Len(name) : NodeOf(sel) = SubSeq(name, 1, e)
    BY DEF OnWay
  <2> HIDE DEF sel
  <2>3. Named(sel) \in Seq(STRING)
    BY <2>1, NamedType
  <2>4. \E e \in 0 .. Len(name) : Named(sel) = SubSeq(name, 1, e)
    BY <1>1, <2>1, <2>3, PrefixIsStart
  <2>5. PICK k \in 1 .. Len(out) : out[k] = i
    BY <1>3, <1>4, <2>1, <2>2, <2>4
  <2> QED BY <1>4, <2>5 DEF Range
<1>7. ASSUME NEW i \in DOMAIN config, i \in Range(out)
      PROVE  IsPrefix(Named(config[i]), name)
  <2>1. PICK k \in 1 .. Len(out) : out[k] = i
    BY <1>4, <1>7 DEF Range
  <2>2. PICK e \in 0 .. Len(name) : NodeOf(config[i]) = SubSeq(name, 1, e)
    BY <1>3, <2>1 DEF OnWay
  <2> DEFINE f == SubSeq(name, 1, e)
  <2>3. Named(config[i]) = f
    BY <1>5, <2>2
  <2>4. Len(f) = e /\ e <= Len(name)
    BY <1>1, PrefixLength
  <2>5. f \in Seq(STRING)
    <3>1. \A j \in 1 .. e : name[j] \in STRING
      BY <1>1
    <3>2. 1 \in Int /\ e \in Int
      OBVIOUS
    <3> QED BY <3>1, <3>2, SubSeqProperties
  <2>6. SubSeq(f, 1, Len(f)) = f
    <3> HIDE DEF f
    <3> QED BY <2>5
  <2>7. IsPrefix(f, name)
    BY <2>4, <2>6 DEF IsPrefix
  <2> QED BY <2>3, <2>7
<1>8. ASSUME NEW a \in DOMAIN out, NEW b \in DOMAIN out, a < b
      PROVE  Before(out[a], out[b])
  <2>1. out[a] \in DOMAIN config /\ out[b] \in DOMAIN config /\ Ahead(config, out[a], out[b])
    BY <1>3, <1>4, <1>8
  <2>2. NodeOf(config[out[a]]) = Named(config[out[a]]) /\ NodeOf(config[out[b]]) = Named(config[out[b]])
    BY <1>5, <2>1
  <2> QED BY <2>1, <2>2 DEF Before, Ahead
<1>9. IsInjective(out)
  <2>1. ASSUME NEW a \in DOMAIN out, NEW b \in DOMAIN out, a < b
        PROVE  out[a] # out[b]
    <3> SUFFICES ASSUME out[a] = out[b] PROVE FALSE
      OBVIOUS
    <3> DEFINE j == out[a]
               l == Len(Named(config[j]))
    <3>1. Before(j, j)
      BY <1>8, <2>1
    <3>2. j \in Nat
      BY <1>3, <1>4
    <3>3. l < l \/ (l = l /\ j < j)
      BY <3>1 DEF Before
    <3>4. l \in Nat
      <4>1. j \in DOMAIN config
        BY <1>3, <1>4
      <4> HIDE DEF j, l
      <4>2. config[j] \in Seq(STRING) /\ config[j] # <<>>
        BY <1>5, <4>1
      <4>3. Named(config[j]) \in Seq(STRING)
        <5> DEFINE sel == config[j]
        <5> HIDE DEF sel
        <5>1. sel \in Seq(STRING)
          BY <4>2 DEF sel
        <5>2. Named(sel) \in Seq(STRING)
          BY <5>1, NamedType
        <5> QED BY <5>2 DEF sel
      <4> QED BY <4>3 DEF l
    <3> HIDE DEF j, l
    <3> QED BY <3>2, <3>3, <3>4
  <2> SUFFICES ASSUME NEW a \in DOMAIN out, NEW b \in DOMAIN out, out[a] = out[b]
               PROVE  a = b
    BY DEF IsInjective
  <2>2. a \in Nat /\ b \in Nat
    BY <1>4
  <2>3. ~ (a < b) /\ ~ (b < a)
    BY <2>1
  <2> QED BY <2>2, <2>3
<1> QED BY <1>6, <1>7, <1>8, <1>9, <1>10

(* For every configuration, any number of overlapping selectors and every    *)
(* name: setRules panics exactly for a "*" before the end of a selector, and *)
(* getRules returns exactly the rules whose selectors name the method or     *)
(* what encloses it, each once, the less specific first; none that the       *)
(* comment of ruleSelector gives the method is missing.                      *)
THEOREM SelectorsFound == SelectorSpec => []SelectorsResolved
<1>1. SelectorInit => Asked
  <2> SUFFICES ASSUME SelectorInit PROVE Asked
    OBVIOUS
  <2>1. config = <<>> /\ selected = [op |-> "none"]
    BY DEF SelectorInit
  <2>2. selected.op = "none"
    BY <2>1
  <2>3. config \in Seq(Seq(STRING) \ {<<>>})
    BY <2>1
  <2> QED BY <2>2, <2>3 DEF Asked
<1>2. Asked /\ [SelectorNext]_selectorVars => Asked'
  BY AskedStep
<1>3. Asked => SelectorsResolved
  BY AskedPanics, AskedSelected DEF SelectorsResolved
<1> QED BY <1>1, <1>2, <1>3, PTL DEF SelectorSpec
=============================================================================
