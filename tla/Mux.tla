--------------------------------- MODULE Mux ---------------------------------
(***************************************************************************)
(* The registry of larking.Mux: a copy-on-write table that goroutines      *)
(* calling RegisterService, RegisterConn and DropConn rewrite under a      *)
(* mutex, and that requests read without it.                               *)
(*                                                                         *)
(* A writer clones the published state, edits its clone one addRule, one   *)
(* appended handler, one removed handler at a time, and publishes it with  *)
(* storeState; RegisterConn talks to the backend's reflection service      *)
(* while it holds the mutex.  A reader loads the published pointer once,   *)
(* matches its route and picks a handler.                                  *)
(***************************************************************************)
EXTENDS RuleTree

CONSTANTS
  Writers,      \* goroutines that call the registration methods
  Readers,      \* goroutines that serve requests
  Conns,        \* *grpc.ClientConn values
  Services,     \* services of the program, given to RegisterService
  Methods,      \* full method names /Service/Method
  Files,        \* proto files a backend may describe
  FileMethods,  \* the methods of a file's services
  Offers,       \* per conn, the lists of files its reflection service may return
  ServiceMethods, \* the methods of a grpc.ServiceDesc
  Implementing, \* the services whose implementation satisfies its HandlerType
  Described,    \* the services and methods that have a descriptor in opts.files
  ImplicitPath, \* per method, the node of its implicit rule
  Rules,        \* per method, the bindings of its ServiceConfig and annotated rules
  Verbs,        \* HTTP methods
  HTTPRequests, \* the HTTP requests tried: a route and a verb
  MaxCalls,     \* bound on the calls of the registration methods
  NoWriter, NoOwner, NoMethod, NoConn

Owners == Conns \cup Services

Binding == [node : Nodes, verb : Verbs \cup {All},
            err : {"none", "template", "body"}, extra : Nat]

ASSUME ConstantTypes ==
  /\ FileMethods \in [Files -> SUBSET Methods]
  /\ ServiceMethods \in [Services -> SUBSET Methods]
  /\ Implementing \subseteq Services
  /\ Offers \in [Conns -> SUBSET Seq(Files)]
  /\ ImplicitPath \in [Methods -> Nodes]
  /\ Rules \in [Methods -> Seq(Binding)]
  /\ HTTPRequests \subseteq [route : Nodes, verb : Verbs]
  /\ MaxCalls \in Nat

ASSUME ConstantsDistinct ==
  /\ Conns \cap Services = {}
  /\ NoOwner \notin Owners
  /\ NoWriter \notin Writers
  /\ NoMethod \notin Methods
  /\ All \notin Verbs

-----------------------------------------------------------------------------
(* type handler: who answers the method, and for a connection the list of  *)
(* files it was built from.  (The code compares pointers; two handlers     *)
(* built from the same data never exist at once.)                          *)
Handler == [method : Methods, owner : Owners, hash : Seq(Files)]

(* type connList; fdHash is the hash of the file descriptors in the order  *)
(* they came in, so the list of files stands for it.                       *)
ConnList == [handlers : SUBSET Handler, hash : Seq(Files)]

ASSUME NoConnIsNoList == NoConn \notin ConnList

TreeEntry == [node : Nodes, verb : Verbs \cup {All}, method : Methods]

(* type state.  handlers[m] is the set of the handlers of method m; a key  *)
(* whose slice would be empty is absent.  NoConn stands for a missing key. *)
State == [path : SUBSET TreeEntry,
          conns : [Conns -> ConnList \cup {NoConn}],
          handlers : SUBSET Handler]

(* The nil state a new Mux loads, and the clone of it, answer alike. *)
EmptyState == [path |-> {}, conns |-> [c \in Conns |-> NoConn], handlers |-> {}]

HandlersOf(s, m) == {h \in s.handlers : h.method = m}

MethodsListed(l) == UNION {FileMethods[l[i]] : i \in 1 .. Len(l)}

ImplicitRule(m) ==
  [node |-> ImplicitPath[m], verb |-> All, err |-> "none", extra |-> 0]

VARIABLES
  mu,      \* the holder of Mux.mu, or NoWriter
  state,   \* Mux.state, the published state
  wr,      \* the local variables of every writer
  rd,      \* the local variables of every reader
  acked,   \* history: what the callers of the registrations were told
  exited,  \* log.Fatalf has ended the process
  calls    \* number of registration calls made

vars == <<mu, state, wr, rd, acked, exited, calls>>

WriterPC == {"idle", "open", "lock", "fetch", "remove", "file", "method",
             "rule", "store", "return"}

Writer == [pc : WriterPC, op : {"none", "service", "conn", "drop"},
           who : Owners \cup {NoOwner}, s : State, hash : Seq(Files),
           drop : SUBSET Handler, files : SUBSET Files,
           todo : SUBSET Methods, cur : Methods \cup {NoMethod},
           rules : Seq(Binding), added : SUBSET Handler,
           ret : {"none", "ok", "error", "panic", "true", "false"}]

Idle == [pc |-> "idle", op |-> "none", who |-> NoOwner, s |-> EmptyState,
         hash |-> <<>>, drop |-> {}, files |-> {}, todo |-> {},
         cur |-> NoMethod, rules |-> <<>>, added |-> {}, ret |-> "none"]

Reader == [pc : {"idle", "match", "pick", "done"}, proto : {"http", "grpc"},
           req : HTTPRequests \cup {NoMethod}, snap : State,
           method : Methods \cup {NoMethod}, seen : SUBSET Methods,
           out : {"none", "NotFound", "InvalidArgument", "Unimplemented", "handled"},
           hd : Handler \cup {NoMethod}]

IdleReader == [pc |-> "idle", proto |-> "http", req |-> NoMethod,
               snap |-> EmptyState, method |-> NoMethod, seen |-> {},
               out |-> "none", hd |-> NoMethod]

(* What a caller may rely on: for a connection the list its last successful *)
(* RegisterConn installed, unless a DropConn has since returned true; for a  *)
(* service that it was registered.                                           *)
Acked == [conns : [Conns -> Seq(Files) \cup {NoConn}], services : SUBSET Services]

TypeOK ==
  /\ mu \in Writers \cup {NoWriter}
  /\ state \in State
  /\ wr \in [Writers -> Writer]
  /\ rd \in [Readers -> Reader]
  /\ acked \in Acked
  /\ exited \in BOOLEAN
  /\ calls \in Nat

Init ==
  /\ mu = NoWriter
  /\ state = EmptyState
  /\ wr = [w \in Writers |-> Idle]
  /\ rd = [r \in Readers |-> IdleReader]
  /\ acked = [conns |-> [c \in Conns |-> NoConn], services |-> {}]
  /\ exited = FALSE
  /\ calls = 0

-----------------------------------------------------------------------------
(* The calls. *)

Begin(w, op, o, pc) ==
  /\ ~exited
  /\ wr[w].pc = "idle"
  /\ calls < MaxCalls
  /\ wr' = [wr EXCEPT ![w] = [@ EXCEPT !.pc = pc, !.op = op, !.who = o]]
  /\ calls' = calls + 1
  /\ UNCHANGED <<mu, state, rd, acked, exited>>

RegisterService(w, svc) ==
  /\ svc \in Implementing
  /\ Begin(w, "service", svc, "lock")

(* The implementation does not satisfy the handler type: log.Fatalf before  *)
(* the registry is looked at.                                               *)
RegisterServiceFatal(w, svc) ==
  /\ svc \notin Implementing
  /\ ~exited
  /\ wr[w].pc = "idle"
  /\ calls < MaxCalls
  /\ calls' = calls + 1
  /\ exited' = TRUE
  /\ UNCHANGED <<mu, state, wr, rd, acked>>

RegisterConn(w, c) == Begin(w, "conn", c, "open")

DropConn(w, c) == Begin(w, "drop", c, "lock")

(* ServerReflectionInfo with WaitForReady, before the mutex is taken. *)
OpenStream(w) ==
  /\ ~exited
  /\ wr[w].pc = "open"
  /\ wr' = [wr EXCEPT ![w].pc = "lock"]
  /\ UNCHANGED <<mu, state, rd, acked, exited, calls>>

OpenStreamFails(w) ==
  /\ ~exited
  /\ wr[w].pc = "open"
  /\ wr' = [wr EXCEPT ![w] = Idle]
  /\ UNCHANGED <<mu, state, rd, acked, exited, calls>>

(* Mutant: the state is cloned without taking the mutex. *)
LockAndCloneUnlocked(w, next) ==
  /\ ~exited
  /\ wr[w].pc = "lock"
  /\ wr' = [wr EXCEPT ![w] = next]
  /\ UNCHANGED <<mu, state, rd, acked, exited, calls>>

(* m.mu.Lock(); s := m.loadState().clone() *)
LockAndClone(w, next) ==
  /\ ~exited
  /\ wr[w].pc = "lock"
  /\ mu = NoWriter
  /\ mu' = w
  /\ wr' = [wr EXCEPT ![w] = next]
  /\ UNCHANGED <<state, rd, acked, exited, calls>>

LockService(w) ==
  /\ wr[w].op = "service"
  /\ LockAndClone(w,
       IF wr[w].who \in Described
         THEN [wr[w] EXCEPT !.pc = "method", !.s = state,
                            !.todo = ServiceMethods[wr[w].who]]
         ELSE [wr[w] EXCEPT !.pc = "return", !.s = state, !.ret = "error"])

LockConn(w) ==
  /\ wr[w].op = "conn"
  /\ LockAndClone(w, [wr[w] EXCEPT !.pc = "fetch", !.s = state])

LockDrop(w) ==
  /\ wr[w].op = "drop"
  /\ LockAndClone(w,
       IF state.conns[wr[w].who] = NoConn
         THEN [wr[w] EXCEPT !.pc = "return", !.s = state, !.ret = "false"]
         ELSE [wr[w] EXCEPT !.pc = "remove", !.s = state,
                            !.drop = state.conns[wr[w].who].handlers])

-----------------------------------------------------------------------------
(* A step of the writer that holds the mutex and changes only its locals.  *)
Local(w, pc, next) ==
  /\ ~exited
  /\ wr[w].pc = pc
  /\ wr' = [wr EXCEPT ![w] = next]
  /\ UNCHANGED <<mu, state, rd, acked, exited, calls>>

Return(w, ret) == [wr[w] EXCEPT !.pc = "return", !.ret = ret]

(* addConnHandler: list the services, fetch their files, hash them, and    *)
(* compare with what the connection is registered with.                    *)
Fetch(w, l) ==
  /\ wr[w].op = "conn"
  /\ l \in Offers[wr[w].who]
  /\ LET cl == wr[w].s.conns[wr[w].who]
         got == [wr[w] EXCEPT !.hash = l,
                              !.files = {l[i] : i \in 1 .. Len(l)}]
     IN Local(w, "fetch",
          IF cl = NoConn THEN [got EXCEPT !.pc = "file"]
          ELSE IF cl.hash = l THEN [wr[w] EXCEPT !.hash = l, !.pc = "store"]
          ELSE [got EXCEPT !.pc = "remove", !.drop = cl.handlers])

(* Mutant: the error path returns without the Unlock. *)
FetchFailsLocked(w) == Local(w, "fetch", Idle)

(* A Send or a Recv on the reflection stream fails, or the files do not    *)
(* decode: the clone is dropped.                                           *)
FetchFails(w) == Local(w, "fetch", Return(w, "error"))

(* Mutant: the rule goes, the handler stays in its slice. *)
RemoveOneKeepsHandler(w, h) ==
  /\ h \in wr[w].drop
  /\ \E t \in DelRule(wr[w].s.path, h.method) :
       Local(w, "remove", [wr[w] EXCEPT !.s.path = t, !.drop = @ \ {h}])

(* removeHandler, one turn of its loop. *)
RemoveOne(w, h) ==
  /\ h \in wr[w].drop
  /\ LET left == [wr[w].s EXCEPT !.handlers = @ \ {h}]
     IN \E t \in IF HandlersOf(left, h.method) = {}
                   THEN DelRule(left.path, h.method)
                   ELSE {left.path} :
          Local(w, "remove",
                [wr[w] EXCEPT !.s = [left EXCEPT !.path = t],
                              !.drop = @ \ {h}])

(* delete(s.conns, cc).  DropConn returns now, and its clone is not stored. *)
RemoveDone(w) ==
  /\ wr[w].drop = {}
  /\ LET gone == [wr[w] EXCEPT !.s.conns[wr[w].who] = NoConn]
     IN Local(w, "remove",
              IF wr[w].op = "drop"
                THEN [gone EXCEPT !.pc = "return", !.ret = "true"]
                ELSE [gone EXCEPT !.pc = "file"])

(* protodesc.NewFile for one of the files, in the order of a Go map; the   *)
(* resolver asks the backend for the imports it misses.                    *)
NewFile(w, f) ==
  /\ f \in wr[w].files
  /\ Local(w, "file", [wr[w] EXCEPT !.pc = "method", !.files = @ \ {f},
                                    !.todo = FileMethods[f]])

NewFileFails(w) ==
  /\ wr[w].files # {}
  /\ Local(w, "file", Return(w, "error"))

(* The methods list of the connection is complete. *)
FilesDone(w) ==
  /\ wr[w].files = {}
  /\ Local(w, "file",
           [wr[w] EXCEPT !.pc = "store",
                         !.s.conns[wr[w].who] = [handlers |-> wr[w].added,
                                                 hash |-> wr[w].hash]])

(* The next method of the service or of the file; findMethod may miss it.  *)
BeginMethod(w, m) ==
  /\ m \in wr[w].todo
  /\ Local(w, "method",
           IF wr[w].op = "service" /\ m \notin Described
             THEN Return(w, "error")
             ELSE [wr[w] EXCEPT !.pc = "rule", !.todo = @ \ {m}, !.cur = m,
                                !.rules = <<ImplicitRule(m)>> \o Rules[m]])

(* Mutant: an error of addRule ends the loop, and the clone is published. *)
AddRuleBreaks(w) ==
  /\ wr[w].rules # <<>>
  /\ LET b == Head(wr[w].rules)
     IN Local(w, "rule",
          IF AddRuleOutcome(wr[w].s.path, b, wr[w].cur) = "added"
            THEN [wr[w] EXCEPT !.s.path = @ \cup {Entry(b, wr[w].cur)},
                               !.rules = Tail(@)]
            ELSE [wr[w] EXCEPT !.pc = "store"])

(* appendHandler: one call of addRule.  A rule whose own pattern is        *)
(* already bound to the method returns before its additional bindings.     *)
AddRule(w) ==
  /\ wr[w].rules # <<>>
  /\ LET b == Head(wr[w].rules)
         outcome == AddRuleOutcome(wr[w].s.path, b, wr[w].cur)
     IN Local(w, "rule",
          CASE outcome = "added" ->
                 [wr[w] EXCEPT !.s.path = @ \cup {Entry(b, wr[w].cur)},
                               !.rules = Tail(@)]
            [] outcome = "already" ->
                 [wr[w] EXCEPT !.rules = SubSeq(@, 2 + b.extra, Len(@))]
            [] OTHER -> Return(w, outcome))

(* Mutant: the method name is cleared before the handler is made. *)
AppendHandlerUnnamed(w) ==
  /\ wr[w].rules = <<>>
  /\ LET h == [method |-> NoMethod, owner |-> wr[w].who, hash |-> wr[w].hash]
     IN Local(w, "rule",
              [wr[w] EXCEPT !.pc = "method", !.s.handlers = @ \cup {h},
                            !.added = @ \cup {h}, !.cur = NoMethod])

(* The end of appendHandler, and of the caller's append. *)
AppendHandler(w) ==
  /\ wr[w].rules = <<>>
  /\ LET h == [method |-> wr[w].cur, owner |-> wr[w].who, hash |-> wr[w].hash]
     IN Local(w, "rule",
              [wr[w] EXCEPT !.pc = "method", !.s.handlers = @ \cup {h},
                            !.added = @ \cup {h}, !.cur = NoMethod])

MethodsDone(w) ==
  /\ wr[w].todo = {}
  /\ Local(w, "method",
           [wr[w] EXCEPT !.pc = IF wr[w].op = "conn" THEN "file" ELSE "store"])

StoreState(w) ==
  /\ ~exited
  /\ wr[w].pc = "store"
  /\ state' = wr[w].s
  /\ wr' = [wr EXCEPT ![w] = Return(w, "ok")]
  /\ UNCHANGED <<mu, rd, acked, exited, calls>>

(* The deferred Unlock and the return to the caller.  RegisterService ends *)
(* the process when registerService returned an error.                     *)
Unlock(w) ==
  /\ ~exited
  /\ wr[w].pc = "return"
  /\ mu' = NoWriter
  /\ wr' = [wr EXCEPT ![w] = Idle]
  /\ acked' =
       CASE wr[w].op = "drop" /\ wr[w].ret = "true" ->
              [acked EXCEPT !.conns[wr[w].who] = NoConn]
         [] wr[w].op = "conn" /\ wr[w].ret = "ok" ->
              [acked EXCEPT !.conns[wr[w].who] = wr[w].hash]
         [] wr[w].op = "service" /\ wr[w].ret = "ok" ->
              [acked EXCEPT !.services = @ \cup {wr[w].who}]
         [] OTHER -> acked
  /\ exited' = (wr[w].op = "service" /\ wr[w].ret = "error")
  /\ UNCHANGED <<state, rd, calls>>

-----------------------------------------------------------------------------
(* Requests. *)

(* Mutant: requests take the mutex to read the state. *)
ReaderStepLocked(r, pc, next) ==
  /\ ~exited
  /\ mu = NoWriter
  /\ rd[r].pc = pc
  /\ rd' = [rd EXCEPT ![r] = next]
  /\ UNCHANGED <<mu, state, wr, acked, exited, calls>>

ReaderStep(r, pc, next) ==
  /\ ~exited
  /\ rd[r].pc = pc
  /\ rd' = [rd EXCEPT ![r] = next]
  /\ UNCHANGED <<mu, state, wr, acked, exited, calls>>

Loaded == [IdleReader EXCEPT !.snap = state,
                             !.seen = {h.method : h \in state.handlers}]

(* serveHTTP: s := m.loadState() *)
ServeHTTP(r, q) ==
  ReaderStep(r, "idle", [Loaded EXCEPT !.pc = "match", !.req = q])

(* serveGRPC: the URL is the method name, there is nothing to match. *)
ServeGRPC(r, m) ==
  ReaderStep(r, "idle", [Loaded EXCEPT !.pc = "pick", !.proto = "grpc", !.method = m])

(* match.  A captured value that does not parse makes the search back out   *)
(* of that branch, or ends it; a query parameter that does not parse ends    *)
(* the request.                                                              *)
Match(r) ==
  /\ rd[r].pc = "match"
  /\ \E bad \in SUBSET Capturing(rd[r].snap.path) :
       LET found == Search(rd[r].snap.path \ bad, rd[r].req.route, rd[r].req.verb)
       IN \/ /\ found = {}
             /\ ReaderStep(r, "match", [rd[r] EXCEPT !.pc = "done", !.out = "NotFound"])
          \/ \E e \in found :
               ReaderStep(r, "match", [rd[r] EXCEPT !.pc = "pick", !.method = e.method])
          \/ /\ found # {} \/ bad # {}
             /\ ReaderStep(r, "match",
                           [rd[r] EXCEPT !.pc = "done", !.out = "InvalidArgument"])

(* Mutant: the state is loaded a second time to pick the handler. *)
PickMethodHandlerReloads(r) ==
  LET hds == HandlersOf(state, rd[r].method)
  IN \/ /\ hds = {}
        /\ ReaderStep(r, "pick", [rd[r] EXCEPT !.pc = "done", !.out = "Unimplemented"])
     \/ \E h \in hds :
          ReaderStep(r, "pick", [rd[r] EXCEPT !.pc = "done", !.out = "handled", !.hd = h])

(* pickMethodHandler: rand.Intn among the handlers of the method. *)
PickMethodHandler(r) ==
  LET hds == HandlersOf(rd[r].snap, rd[r].method)
  IN \/ /\ hds = {}
        /\ ReaderStep(r, "pick", [rd[r] EXCEPT !.pc = "done", !.out = "Unimplemented"])
     \/ \E h \in hds :
          ReaderStep(r, "pick", [rd[r] EXCEPT !.pc = "done", !.out = "handled", !.hd = h])

(* The handler has run and the response is written. *)
Respond(r) == ReaderStep(r, "done", IdleReader)

-----------------------------------------------------------------------------
Call(w) ==
  \/ \E svc \in Services : RegisterService(w, svc) \/ RegisterServiceFatal(w, svc)
  \/ \E c \in Conns : RegisterConn(w, c) \/ DropConn(w, c)

(* The steps that wait for a backend, or for the context of the call. *)
Backend(w) ==
  \/ OpenStream(w) \/ OpenStreamFails(w)
  \/ (\E l \in UNION {Offers[c] : c \in Conns} : Fetch(w, l))
  \/ FetchFails(w)
  \/ (\E f \in Files : NewFile(w, f)) \/ NewFileFails(w)

Compute(w) ==
  \/ LockService(w) \/ LockConn(w) \/ LockDrop(w)
  \/ (\E h \in wr[w].drop : RemoveOne(w, h)) \/ RemoveDone(w)
  \/ FilesDone(w)
  \/ (\E m \in Methods : BeginMethod(w, m)) \/ MethodsDone(w)
  \/ AddRule(w) \/ AppendHandler(w)
  \/ StoreState(w) \/ Unlock(w)

StartRequest(r) ==
  \/ \E q \in HTTPRequests : ServeHTTP(r, q)
  \/ \E m \in Methods : ServeGRPC(r, m)

Serve(r) == Match(r) \/ PickMethodHandler(r) \/ Respond(r)

Next ==
  \/ \E w \in Writers : Call(w) \/ Backend(w) \/ Compute(w)
  \/ \E r \in Readers : StartRequest(r) \/ Serve(r)

Spec == Init /\ [][Next]_vars

(* A goroutine that can run does run; sync.Mutex hands itself to a waiter. *)
(* A backend may keep a registration waiting for ever.                      *)
FairSpec ==
  /\ Spec
  /\ \A w \in Writers : WF_vars(Compute(w))
  /\ \A r \in Readers : WF_vars(Serve(r))

-----------------------------------------------------------------------------
(* Properties. *)

OwnedBy(s, o) == {h \in s.handlers : h.owner = o}

(* The two tables of a published state agree: the handlers a connection    *)
(* owns in `handlers' are those listed in `conns', one for each method of  *)
(* the files it was last registered with (addConnHandler, removeHandler).  *)
TablesAgree(s) ==
  \A c \in Conns :
    IF s.conns[c] = NoConn
      THEN OwnedBy(s, c) = {}
      ELSE /\ OwnedBy(s, c) = s.conns[c].handlers
           /\ {h.method : h \in OwnedBy(s, c)} = MethodsListed(s.conns[c].hash)

ConnTablesAgree == TablesAgree(state)

(* A RegisterConn or DropConn of c has taken effect and is about to return. *)
Returning(c) ==
  \E w \in Writers : /\ wr[w].pc = "return" /\ wr[w].who = c
                      /\ \/ (wr[w].op = "conn" /\ wr[w].ret = "ok")
                         \/ (wr[w].op = "drop" /\ wr[w].ret = "true")

(* No lost update: what the caller of a registration that returned without *)
(* error was told stays published, whatever the other writers do, until a  *)
(* DropConn of the same connection has returned true.                      *)
NoLostUpdate ==
  /\ \A c \in Conns : acked.conns[c] # NoConn /\ ~Returning(c) =>
       state.conns[c] # NoConn /\ state.conns[c].hash = acked.conns[c]
  /\ \A svc \in acked.services : \A m \in ServiceMethods[svc] :
       \E h \in state.handlers : h.owner = svc /\ h.method = m

(* The clone a writer edits was taken from the state that is still         *)
(* published: outside of the writer's own owner the two have the same      *)
(* handlers and connections (the mutex is held from clone to store).       *)
CloneIsCurrent ==
  \A w \in Writers : wr[w].pc \notin {"idle", "open", "lock"} =>
    \A o \in Owners \ {wr[w].who} :
      /\ OwnedBy(wr[w].s, o) = OwnedBy(state, o)
      /\ o \in Conns => wr[w].s.conns[o] = state.conns[o]

(* Routing is a function: no two rules hold the same node and verb, so     *)
(* addRule's duplicate check lets no method take over another's rule.      *)
RulesUnambiguous ==
  \A e, f \in state.path : e.node = f.node /\ e.verb = f.verb => e = f

(* A request works on the one state it loaded: it is answered Unimplemented *)
(* exactly when its method had no handler at the load, even if a writer     *)
(* publishes between the match and the pick (serveHTTP, serveGRPC).         *)
OneStatePerRequest ==
  \A r \in Readers : rd[r].pc = "done" =>
    /\ rd[r].out = "Unimplemented" => rd[r].method \notin rd[r].seen
    /\ rd[r].out = "handled" => rd[r].hd.method \in rd[r].seen

(* The published table only moves as the abstract registry allows: every   *)
(* store replaces one owner's methods by a complete set and keeps the rest. *)
Complete ==
  [o \in Owners |-> IF o \in Conns
                      THEN {MethodsListed(l) : l \in Offers[o]}
                      ELSE {ServiceMethods[o]}]

Serving == [o \in Owners |-> {h.method : h \in OwnedBy(state, o)}]

Reg == INSTANCE Registry WITH serving <- Serving

RefinesRegistry == Reg!Spec

(* Requests never wait for a registration: each one is answered even when  *)
(* a backend stalls the writer that holds the mutex.                       *)
RequestsFinish ==
  \A r \in Readers : rd[r].pc # "idle" ~> (rd[r].pc = "idle" \/ exited)

(* When backends answer (or the context of the call ends), every call of a  *)
(* registration method returns: no path leaves the mutex locked.            *)
RegistrationsFinish ==
  (\A w \in Writers : WF_vars(Backend(w))) =>
    \A w \in Writers : wr[w].pc # "idle" ~> (wr[w].pc = "idle" \/ exited)

-----------------------------------------------------------------------------
(* What comments and documentation of the repository say, and the code does *)
(* not do.                                                                  *)

(* removeHandler, "Drop conn on client conn.": when DropConn has returned   *)
(* true the connection is no longer in the published state.                 *)
DroppedConnIsGone ==
  \A w \in Writers : wr[w].pc = "return" /\ wr[w].op = "drop" /\ wr[w].ret = "true"
    => state.conns[wr[w].who] = NoConn
=============================================================================
