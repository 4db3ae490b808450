-------------------------- MODULE StreamGRPCProofs --------------------------
(***************************************************************************)
(* Proofs about one gRPC request (StreamGRPC), for any number of           *)
(* goroutines of the handler and of messages of the client.                *)
(***************************************************************************)
EXTENDS StreamGRPC, FiniteSetTheorems, TLAPS

Bit(b) == IF b THEN 1 ELSE 0

(* Inside SendMsg. *)
Sending == {"send", "test", "header", "set", "write"}

(* The goroutines that wg counts, and those it counts once more: in a        *)
(* SendHeader that SendMsg called.                                           *)
Running == {g \in Callers : call[g] # "idle"}

NestedAt(g, p, m) == p \in {"header", "set"} /\ ~(g = Main /\ m = "header")

Nested == {g \in Callers : NestedAt(g, call[g], mpc)}

(* Where the goroutine of the request is in a stream method: the handler's   *)
(* calls, and the SendHeader of serveGRPC.  Nobody calls before the handler  *)
(* runs or in a request that was rejected.                                   *)
MainCalls ==
  /\ call[Main] # "idle" => mpc \in {"handler", "header"}
  /\ mpc = "header" => call[Main] \in {"header", "set"}
  /\ response.rejected => mpc = "returned"
  /\ mpc = "start" \/ response.rejected => \A g \in Callers : call[g] = "idle"

(* The context ends when serveGRPC does; whoever calls later is still before *)
(* its isDone.                                                               *)
TurnedAway ==
  /\ ctx = "cancelled" => mpc \in {"wait", "returned"}
  /\ mpc \in {"wait", "returned"} => ctx # "active" \/ response.rejected
  /\ mpc = "returned" => \A g \in Callers : call[g] \in {"idle", "recv", "send"}

(* One goroutine sends at a time; the request's own may join once the        *)
(* handler has returned.                                                     *)
OneSends ==
  /\ \A g, h \in Callers \ {Main} : call[g] \in Sending /\ call[h] \in Sending => g = h
  /\ mpc = "handler" /\ call[Main] \in Sending =>
       \A g \in Callers \ {Main} : call[g] \notin Sending

(* sentHeader tells whether the headers were set, as long as no late         *)
(* goroutine set them.                                                       *)
HeaderInv ==
  /\ sentHeader => response.headers >= 1
  /\ ~sentHeader => response.headers = 0
  /\ ~response.late => response.headers <= 1
  /\ \A g \in Callers : call[g] = "set" /\ ~Late(g) => ~sentHeader \/ response.late
  /\ mpc = "header" /\ sentHeader => response.late
  /\ mpc \in {"flush", "close", "status"} => sentHeader
  /\ response.status => response.headers >= 1

StatusInv ==
  mpc \in {"cancel", "wait"} /\ ~response.status => ctx \in {"expired", "reset"} \/ response.late

IInv ==
  /\ TypeOK /\ WaitGroupCounts /\ MainCalls /\ TurnedAway /\ OneSends /\ HeaderInv /\ StatusInv

-----------------------------------------------------------------------------
LEMMA CallersFinite == IsFiniteSet(Callers) /\ Main \in Callers
BY FinitelyMany, FS_Singleton, FS_Union DEF Callers

LEMMA SetsFinite ==
  /\ IsFiniteSet(Running) /\ IsFiniteSet(Nested)
  /\ Cardinality(Running) \in Nat /\ Cardinality(Nested) \in Nat
<1>1. Running \in SUBSET Callers /\ Nested \in SUBSET Callers
  BY DEF Running, Nested
<1> QED BY <1>1, CallersFinite, FS_Subset, FS_CardinalityType

LEMMA CountsBoth == WaitGroupCounts <=> wg = Cardinality(Running) + Cardinality(Nested)
BY DEF WaitGroupCounts, Running, Nested, NestedAt

(* What the two sets become when one goroutine moves. *)
LEMMA RunningMoves ==
  ASSUME TypeOK, NEW g \in Callers, NEW p \in CallPC, call' = [call EXCEPT ![g] = p]
  PROVE  /\ Cardinality(Running') = Cardinality(Running) + Bit(p # "idle") - Bit(call[g] # "idle")
         /\ Cardinality(Running') \in Nat
<1>1. Running' = IF p = "idle" THEN Running \ {g} ELSE Running \cup {g}
  BY DEF Running, TypeOK
<1>2. g \in Running <=> call[g] # "idle"
  BY DEF Running
<1>3. /\ Cardinality(Running \ {g}) = IF g \in Running THEN Cardinality(Running) - 1 ELSE Cardinality(Running)
      /\ Cardinality(Running \cup {g}) = IF g \in Running THEN Cardinality(Running) ELSE Cardinality(Running) + 1
      /\ IsFiniteSet(Running \ {g}) /\ IsFiniteSet(Running \cup {g})
  BY SetsFinite, FS_AddElement, FS_RemoveElement
<1>4. Cardinality(Running) \in Nat /\ Cardinality(Running') \in Nat
  BY <1>1, <1>3, SetsFinite, FS_CardinalityType
<1> QED BY <1>1, <1>2, <1>3, <1>4 DEF Bit

LEMMA NestedMoves ==
  ASSUME TypeOK, NEW g \in Callers, NEW p \in CallPC, call' = [call EXCEPT ![g] = p],
         g = Main \/ mpc' = mpc
  PROVE  /\ Cardinality(Nested') = Cardinality(Nested) + Bit(NestedAt(g, p, mpc'))
                                                       - Bit(NestedAt(g, call[g], mpc))
         /\ Cardinality(Nested') \in Nat
<1>1. Nested' = IF NestedAt(g, p, mpc') THEN Nested \cup {g} ELSE Nested \ {g}
  BY DEF Nested, NestedAt, TypeOK
<1>2. g \in Nested <=> NestedAt(g, call[g], mpc)
  BY DEF Nested
<1>3. /\ Cardinality(Nested \ {g}) = IF g \in Nested THEN Cardinality(Nested) - 1 ELSE Cardinality(Nested)
      /\ Cardinality(Nested \cup {g}) = IF g \in Nested THEN Cardinality(Nested) ELSE Cardinality(Nested) + 1
      /\ IsFiniteSet(Nested \ {g}) /\ IsFiniteSet(Nested \cup {g})
  BY SetsFinite, FS_AddElement, FS_RemoveElement
<1>4. Cardinality(Nested) \in Nat /\ Cardinality(Nested') \in Nat
  BY <1>1, <1>3, SetsFinite, FS_CardinalityType
<1> QED BY <1>1, <1>2, <1>3, <1>4 DEF Bit

(* So the count is kept by a step that changes wg by as much. *)
LEMMA CountKept ==
  ASSUME TypeOK, WaitGroupCounts, NEW g \in Callers, NEW p \in CallPC,
         call' = [call EXCEPT ![g] = p], g = Main \/ mpc' = mpc,
         wg' = wg + Bit(p # "idle") - Bit(call[g] # "idle")
                  + Bit(NestedAt(g, p, mpc')) - Bit(NestedAt(g, call[g], mpc))
  PROVE  WaitGroupCounts' /\ wg' \in Nat
<1>1. wg = Cardinality(Running) + Cardinality(Nested)
  BY CountsBoth
<1>2. WaitGroupCounts' <=> wg' = Cardinality(Running') + Cardinality(Nested')
  BY DEF WaitGroupCounts, Running, Nested, NestedAt
<1>3. \A b \in BOOLEAN : Bit(b) \in {0, 1}
  BY DEF Bit
<1>4. /\ Bit(p # "idle") \in {0, 1} /\ Bit(call[g] # "idle") \in {0, 1}
      /\ Bit(NestedAt(g, p, mpc')) \in {0, 1} /\ Bit(NestedAt(g, call[g], mpc)) \in {0, 1}
  BY <1>3 DEF NestedAt
<1>5. Cardinality(Running') = Cardinality(Running) + Bit(p # "idle") - Bit(call[g] # "idle")
  BY RunningMoves
<1>6. Cardinality(Nested') = Cardinality(Nested) + Bit(NestedAt(g, p, mpc'))
                                                 - Bit(NestedAt(g, call[g], mpc))
  BY NestedMoves
<1>7. Cardinality(Running') \in Nat /\ Cardinality(Nested') \in Nat
  BY RunningMoves, NestedMoves
<1>8. wg' = Cardinality(Running') + Cardinality(Nested')
  BY <1>1, <1>4, <1>5, <1>6, SetsFinite
<1> QED BY <1>2, <1>7, <1>8

(* serveGRPC moves and no goroutine does. *)
LEMMA NobodyMoves ==
  ASSUME WaitGroupCounts, call' = call, wg' = wg, mpc # "header", mpc' # "header"
  PROVE  WaitGroupCounts'
BY DEF WaitGroupCounts

(* The steps of a goroutine keep the count. *)
LEMMA CallCounts ==
  ASSUME TypeOK, WaitGroupCounts, MainCalls,
         NEW g \in Callers, RecvMsg(g) \/ SendMsg(g) \/ StreamStep(g)
  PROVE  WaitGroupCounts' /\ wg' \in Nat
<1> USE DEF CallPC
<1>1. wg \in Nat /\ (g = Main /\ mpc = "header" => call[g] \in {"header", "set"})
  BY DEF TypeOK, MainCalls
<1>2. ASSUME NEW p \in CallPC, call[g] = "idle", p \in {"recv", "send"}, Move(g, p, 1)
      PROVE  WaitGroupCounts' /\ wg' \in Nat
  <2>1. /\ call' = [call EXCEPT ![g] = p] /\ mpc' = mpc
        /\ wg' = wg + Bit(p # "idle") - Bit(call[g] # "idle")
                  + Bit(NestedAt(g, p, mpc')) - Bit(NestedAt(g, call[g], mpc))
    BY <1>1, <1>2 DEF Move, Bit, NestedAt
  <2> QED BY <2>1, CountKept
<1>3. ASSUME call[g] \notin {"idle", "header", "set"}, Leave(g, 1)
      PROVE  WaitGroupCounts' /\ wg' \in Nat
  <2>1. /\ call' = [call EXCEPT ![g] = "idle"] /\ mpc' = mpc
        /\ wg' = wg + Bit("idle" # "idle") - Bit(call[g] # "idle")
                  + Bit(NestedAt(g, "idle", mpc')) - Bit(NestedAt(g, call[g], mpc))
    BY <1>1, <1>3 DEF Leave, Bit, NestedAt
  <2> QED BY <2>1, CountKept
<1>4. ASSUME NEW p \in CallPC, call[g] # "idle", p # "idle", Move(g, p, 0),
             call[g] \in {"header", "set"} <=> p \in {"header", "set"}
      PROVE  WaitGroupCounts' /\ wg' \in Nat
  <2>1. /\ call' = [call EXCEPT ![g] = p] /\ mpc' = mpc
        /\ wg' = wg + Bit(p # "idle") - Bit(call[g] # "idle")
                  + Bit(NestedAt(g, p, mpc')) - Bit(NestedAt(g, call[g], mpc))
    BY <1>1, <1>4 DEF Move, Bit, NestedAt
  <2> QED BY <2>1, CountKept
<1>10. CASE RecvMsg(g)
  BY <1>2, <1>10 DEF RecvMsg, MayCall
<1>11. CASE SendMsg(g)
  BY <1>2, <1>11 DEF SendMsg, MayCall
<1>12. CASE RecvMsgIsDone(g)
  BY <1>3, <1>4, <1>12 DEF RecvMsgIsDone
<1>13. CASE ReadMessage(g)
  BY <1>3, <1>13 DEF ReadMessage
<1>14. CASE ReadFails(g)
  BY <1>3, <1>14 DEF ReadFails
<1>15. CASE SendMsgIsDone(g)
  BY <1>3, <1>4, <1>15 DEF SendMsgIsDone
<1>16. CASE SendMsgTest(g)
  <2>1. CASE Move(g, "write", 0)
    BY <1>4, <1>16, <2>1 DEF SendMsgTest
  <2>2. CASE Move(g, "header", 1)
    <3>1. /\ call[g] = "test" /\ call' = [call EXCEPT ![g] = "header"]
          /\ wg' = wg + 1 /\ mpc' = mpc
      BY <1>16, <2>2 DEF SendMsgTest, Move
    <3>2. wg' = wg + Bit("header" # "idle") - Bit(call[g] # "idle")
                  + Bit(NestedAt(g, "header", mpc')) - Bit(NestedAt(g, call[g], mpc))
      BY <1>1, <3>1 DEF Bit, NestedAt
    <3> QED BY <3>1, <3>2, CountKept
  <2> QED BY <1>16, <2>1, <2>2 DEF SendMsgTest
<1>17. CASE SendHeaderCheck(g)
  <2>1. CASE Move(g, "set", 0)
    BY <1>4, <1>17, <2>1 DEF SendHeaderCheck
  <2>2. CASE ~Move(g, "set", 0)
    <3>1. /\ call[g] = "header" /\ call' = [call EXCEPT ![g] = "idle"]
          /\ wg' = wg - Counts(g) /\ (g = Main \/ mpc' = mpc)
      BY <1>17, <2>2 DEF SendHeaderCheck
    <3>2. wg' = wg + Bit("idle" # "idle") - Bit(call[g] # "idle")
                  + Bit(NestedAt(g, "idle", mpc')) - Bit(NestedAt(g, call[g], mpc))
      BY <1>1, <3>1 DEF Counts, Bit, NestedAt
    <3> QED BY <3>1, <3>2, CountKept
  <2> QED BY <2>1, <2>2
<1>18. CASE SendHeaderSet(g)
  <2>1. /\ call[g] = "set" /\ wg' = wg - 1 /\ (g = Main \/ mpc' = mpc)
        /\ call' = [call EXCEPT ![g] = IF g = Main /\ mpc = "header" THEN "idle" ELSE "write"]
    BY <1>18, Zenon DEF SendHeaderSet
  <2>2. CASE g = Main /\ mpc = "header"
    <3>1. call' = [call EXCEPT ![g] = "idle"]
      BY <2>1, <2>2
    <3>2. wg' = wg + Bit("idle" # "idle") - Bit(call[g] # "idle")
                  + Bit(NestedAt(g, "idle", mpc')) - Bit(NestedAt(g, call[g], mpc))
      BY <1>1, <2>1, <2>2 DEF Bit, NestedAt
    <3> QED BY <2>1, <3>1, <3>2, CountKept
  <2>3. CASE ~(g = Main /\ mpc = "header")
    <3>1. call' = [call EXCEPT ![g] = "write"]
      BY <2>1, <2>3
    <3>2. wg' = wg + Bit("write" # "idle") - Bit(call[g] # "idle")
                  + Bit(NestedAt(g, "write", mpc')) - Bit(NestedAt(g, call[g], mpc))
      BY <1>1, <2>1, <2>3 DEF Bit, NestedAt
    <3> QED BY <2>1, <3>1, <3>2, CountKept
  <2> QED BY <2>2, <2>3
<1>19. CASE WriteMessage(g)
  BY <1>3, <1>19 DEF WriteMessage
<1> QED BY <1>10, <1>11, <1>12, <1>13, <1>14, <1>15, <1>16, <1>17, <1>18, <1>19 DEF StreamStep

(* A step of a goroutine that does not set the headers leaves the response    *)
(* alone.                                                                     *)
LEMMA CallKeeps ==
  ASSUME IInv, NEW g \in Callers, RecvMsg(g) \/ SendMsg(g) \/ StreamStep(g)
  PROVE  IInv'
<1> USE CallersFinite DEF CallPC, MainPC
<1>0. WaitGroupCounts' /\ wg' \in Nat
  BY CallCounts DEF IInv
<1>1. TypeOK /\ MainCalls /\ TurnedAway /\ OneSends /\ HeaderInv /\ StatusInv
  BY DEF IInv
<1>2. SUFFICES TypeOK' /\ MainCalls' /\ TurnedAway' /\ OneSends' /\ HeaderInv' /\ StatusInv'
  BY <1>0 DEF IInv
<1>10. CASE RecvMsg(g)
  <2>1. TypeOK'
    BY <1>0, <1>1, <1>10 DEF TypeOK, RecvMsg, MayCall, Move
  <2>2. MainCalls'
    BY <1>1, <1>10 DEF TypeOK, MainCalls, RecvMsg, MayCall, Move
  <2>3. TurnedAway'
    BY <1>1, <1>10 DEF TypeOK, MainCalls, TurnedAway, RecvMsg, MayCall, Move
  <2>4. OneSends'
    BY <1>1, <1>10 DEF TypeOK, MainCalls, OneSends, Sending, RecvMsg, MayCall, Move
  <2>5. HeaderInv'
    BY <1>1, <1>10 DEF TypeOK, MainCalls, HeaderInv, Late, RecvMsg, MayCall, Move
  <2>6. StatusInv'
    BY <1>1, <1>10 DEF TypeOK, MainCalls, TurnedAway, HeaderInv, StatusInv, RecvMsg, MayCall, Move
  <2> QED BY <2>1, <2>2, <2>3, <2>4, <2>5, <2>6
<1>11. CASE SendMsg(g)
  <2>1. TypeOK'
    BY <1>0, <1>1, <1>11 DEF TypeOK, SendMsg, MayCall, Move
  <2>2. MainCalls'
    BY <1>1, <1>11 DEF TypeOK, MainCalls, SendMsg, MayCall, Move
  <2>3. TurnedAway'
    BY <1>1, <1>11 DEF TypeOK, MainCalls, TurnedAway, SendMsg, MayCall, Move
  <2>4. OneSends'
    BY <1>1, <1>11 DEF TypeOK, MainCalls, OneSends, Sending, SendMsg, MayCall, Move
  <2>5. HeaderInv'
    BY <1>1, <1>11 DEF TypeOK, MainCalls, HeaderInv, Late, SendMsg, MayCall, Move
  <2>6. StatusInv'
    BY <1>1, <1>11 DEF TypeOK, MainCalls, TurnedAway, HeaderInv, StatusInv, SendMsg, MayCall, Move
  <2> QED BY <2>1, <2>2, <2>3, <2>4, <2>5, <2>6
<1>12. CASE RecvMsgIsDone(g)
  <2>1. TypeOK'
    BY <1>0, <1>1, <1>12 DEF TypeOK, RecvMsgIsDone, Move, Leave
  <2>2. MainCalls'
    BY <1>1, <1>12 DEF TypeOK, MainCalls, RecvMsgIsDone, Move, Leave
  <2>3. TurnedAway'
    BY <1>1, <1>12 DEF TypeOK, MainCalls, TurnedAway, RecvMsgIsDone, Move, Leave
  <2>4. OneSends'
    BY <1>1, <1>12 DEF TypeOK, MainCalls, OneSends, Sending, RecvMsgIsDone, Move, Leave
  <2>5. HeaderInv'
    BY <1>1, <1>12 DEF TypeOK, MainCalls, HeaderInv, Late, RecvMsgIsDone, Move, Leave
  <2>6. StatusInv'
    BY <1>1, <1>12 DEF TypeOK, MainCalls, TurnedAway, HeaderInv, StatusInv, RecvMsgIsDone, Move, Leave
  <2> QED BY <2>1, <2>2, <2>3, <2>4, <2>5, <2>6
<1>13. CASE ReadMessage(g)
  <2>1. TypeOK'
    BY <1>0, <1>1, <1>13 DEF TypeOK, ReadMessage, Leave
  <2>2. MainCalls'
    BY <1>1, <1>13 DEF TypeOK, MainCalls, ReadMessage, Leave
  <2>3. TurnedAway'
    BY <1>1, <1>13 DEF TypeOK, MainCalls, TurnedAway, ReadMessage, Leave
  <2>4. OneSends'
    BY <1>1, <1>13 DEF TypeOK, MainCalls, OneSends, Sending, ReadMessage, Leave
  <2>5. HeaderInv'
    BY <1>1, <1>13 DEF TypeOK, MainCalls, HeaderInv, Late, ReadMessage, Leave
  <2>6. StatusInv'
    BY <1>1, <1>13 DEF TypeOK, MainCalls, TurnedAway, HeaderInv, StatusInv, ReadMessage, Leave
  <2> QED BY <2>1, <2>2, <2>3, <2>4, <2>5, <2>6
<1>14. CASE ReadFails(g)
  <2>1. TypeOK'
    BY <1>0, <1>1, <1>14 DEF TypeOK, ReadFails, Leave
  <2>2. MainCalls'
    BY <1>1, <1>14 DEF TypeOK, MainCalls, ReadFails, Leave
  <2>3. TurnedAway'
    BY <1>1, <1>14 DEF TypeOK, MainCalls, TurnedAway, ReadFails, Leave
  <2>4. OneSends'
    BY <1>1, <1>14 DEF TypeOK, MainCalls, OneSends, Sending, ReadFails, Leave
  <2>5. HeaderInv'
    BY <1>1, <1>14 DEF TypeOK, MainCalls, HeaderInv, Late, ReadFails, Leave
  <2>6. StatusInv'
    BY <1>1, <1>14 DEF TypeOK, MainCalls, TurnedAway, HeaderInv, StatusInv, ReadFails, Leave
  <2> QED BY <2>1, <2>2, <2>3, <2>4, <2>5, <2>6
<1>15. CASE SendMsgIsDone(g)
  <2>1. TypeOK'
    BY <1>0, <1>1, <1>15 DEF TypeOK, SendMsgIsDone, Move, Leave
  <2>2. MainCalls'
    BY <1>1, <1>15 DEF TypeOK, MainCalls, SendMsgIsDone, Move, Leave
  <2>3. TurnedAway'
    BY <1>1, <1>15 DEF TypeOK, MainCalls, TurnedAway, SendMsgIsDone, Move, Leave
  <2>4. OneSends'
    BY <1>1, <1>15 DEF TypeOK, MainCalls, OneSends, Sending, SendMsgIsDone, Move, Leave
  <2>5. HeaderInv'
    BY <1>1, <1>15 DEF TypeOK, MainCalls, HeaderInv, Late, SendMsgIsDone, Move, Leave
  <2>6. StatusInv'
    BY <1>1, <1>15 DEF TypeOK, MainCalls, TurnedAway, HeaderInv, StatusInv, SendMsgIsDone, Move, Leave
  <2> QED BY <2>1, <2>2, <2>3, <2>4, <2>5, <2>6
<1>16. CASE SendMsgTest(g)
  <2>1. TypeOK'
    BY <1>0, <1>1, <1>16 DEF TypeOK, SendMsgTest, Move
  <2>2. MainCalls'
    BY <1>1, <1>16 DEF TypeOK, MainCalls, SendMsgTest, Move
  <2>3. TurnedAway'
    BY <1>1, <1>16 DEF TypeOK, MainCalls, TurnedAway, SendMsgTest, Move
  <2>4. OneSends'
    BY <1>1, <1>16 DEF TypeOK, MainCalls, OneSends, Sending, SendMsgTest, Move
  <2>5. HeaderInv'
    BY <1>1, <1>16 DEF TypeOK, MainCalls, HeaderInv, Late, SendMsgTest, Move
  <2>6. StatusInv'
    BY <1>1, <1>16 DEF TypeOK, MainCalls, TurnedAway, HeaderInv, StatusInv, SendMsgTest, Move
  <2> QED BY <2>1, <2>2, <2>3, <2>4, <2>5, <2>6
<1>17. CASE SendHeaderCheck(g)
  <2>1. TypeOK'
    BY <1>0, <1>1, <1>17 DEF TypeOK, SendHeaderCheck, Move
  <2>2. MainCalls'
    BY <1>1, <1>17 DEF TypeOK, MainCalls, SendHeaderCheck, Move
  <2>3. TurnedAway'
    BY <1>1, <1>17 DEF TypeOK, MainCalls, TurnedAway, SendHeaderCheck, Move
  <2>4. OneSends'
    BY <1>1, <1>17 DEF TypeOK, MainCalls, OneSends, Sending, SendHeaderCheck, Move
  <2>5. HeaderInv'
    BY <1>1, <1>17 DEF TypeOK, MainCalls, HeaderInv, Late, SendHeaderCheck, Move
  <2>6. StatusInv'
    BY <1>1, <1>17 DEF TypeOK, MainCalls, TurnedAway, HeaderInv, StatusInv, SendHeaderCheck, Move
  <2> QED BY <2>1, <2>2, <2>3, <2>4, <2>5, <2>6
<1>18. CASE WriteMessage(g)
  <2>1. TypeOK'
    BY <1>0, <1>1, <1>18 DEF TypeOK, WriteMessage, Leave
  <2>2. MainCalls'
    BY <1>1, <1>18 DEF TypeOK, MainCalls, WriteMessage, Leave
  <2>3. TurnedAway'
    BY <1>1, <1>18 DEF TypeOK, MainCalls, TurnedAway, WriteMessage, Leave
  <2>4. OneSends'
    BY <1>1, <1>18 DEF TypeOK, MainCalls, OneSends, Sending, WriteMessage, Leave
  <2>5. HeaderInv'
    BY <1>1, <1>18 DEF TypeOK, MainCalls, HeaderInv, Late, WriteMessage, Leave
  <2>6. StatusInv'
    BY <1>1, <1>18 DEF TypeOK, MainCalls, TurnedAway, HeaderInv, StatusInv, WriteMessage, Leave
  <2> QED BY <2>1, <2>2, <2>3, <2>4, <2>5, <2>6
<1>19. CASE SendHeaderSet(g)
  <2>0. PICK l \in BOOLEAN : l = (response.late \/ Late(g))
    OBVIOUS
  <2>1. response' = [response EXCEPT !.headers = @ + 1, !.late = l]
    BY <1>19, <2>0, Zenon DEF SendHeaderSet
  <2>2. /\ response'.headers = response.headers + 1
        /\ response'.late = l
        /\ response'.status = response.status /\ response'.rejected = response.rejected
        /\ response' \in [headers : Nat, late : BOOLEAN, status : BOOLEAN, rejected : BOOLEAN]
    <3>1. response = [headers |-> response.headers, late |-> response.late,
                      status |-> response.status, rejected |-> response.rejected]
      BY <1>1 DEF TypeOK
    <3>2. response' = [headers |-> response.headers + 1, late |-> l,
                       status |-> response.status, rejected |-> response.rejected]
      BY <2>1, <3>1
    <3> QED BY <1>1, <3>2 DEF TypeOK
  <2>3. l <=> response.late \/ (g # Main /\ mpc # "handler")
    BY <2>0, Zenon DEF Late
  <2>4. /\ call[g] = "set" /\ sentHeader' = TRUE
        /\ IF g = Main /\ mpc = "header"
             THEN mpc' = "flush" /\ call' = [call EXCEPT ![g] = "idle"]
             ELSE mpc' = mpc /\ call' = [call EXCEPT ![g] = "write"]
        /\ UNCHANGED <<ctx, input, pending, sent>>
    BY <1>19, Zenon DEF SendHeaderSet
  <2>11. TypeOK'
    BY <1>0, <1>1, <2>2, <2>4 DEF TypeOK
  <2>12. MainCalls'
    BY <1>1, <2>2, <2>4 DEF TypeOK, MainCalls
  <2>13. TurnedAway'
    BY <1>1, <2>2, <2>4 DEF TypeOK, MainCalls, TurnedAway
  <2>14. OneSends'
    BY <1>1, <2>2, <2>4 DEF TypeOK, MainCalls, OneSends, Sending
  <2>15. HeaderInv'
    BY <1>1, <2>2, <2>3, <2>4 DEF TypeOK, MainCalls, OneSends, Sending, HeaderInv, Late
  <2>16. StatusInv'
    BY <1>1, <2>2, <2>3, <2>4 DEF TypeOK, MainCalls, TurnedAway, HeaderInv, StatusInv
  <2> QED BY <2>11, <2>12, <2>13, <2>14, <2>15, <2>16
<1> QED BY <1>10, <1>11, <1>12, <1>13, <1>14, <1>15, <1>16, <1>17, <1>18, <1>19 DEF StreamStep

LEMMA ServeKeeps ==
  ASSUME IInv, ClientSend \/ ClientHalfClose \/ ClientReset \/ Expire
               \/ Reject \/ StartHandler \/ ServeStep
  PROVE  IInv'
<1> USE CallersFinite, BoundIsNat DEF CallPC, MainPC
<1>1. TypeOK /\ WaitGroupCounts /\ MainCalls /\ TurnedAway /\ OneSends /\ HeaderInv /\ StatusInv
  BY DEF IInv
<1>2. SUFFICES /\ TypeOK' /\ WaitGroupCounts' /\ MainCalls' /\ TurnedAway' /\ OneSends'
               /\ HeaderInv' /\ StatusInv'
  BY DEF IInv
<1>10. CASE ClientSend
  <2>0. WaitGroupCounts' /\ wg' \in Nat
    BY <1>1, <1>10 DEF TypeOK, WaitGroupCounts, ClientSend
  <2>1. TypeOK'
    BY <1>1, <1>10, <2>0 DEF TypeOK, ClientSend
  <2>2. MainCalls'
    BY <1>1, <1>10 DEF TypeOK, MainCalls, ClientSend
  <2>3. TurnedAway'
    BY <1>1, <1>10 DEF TypeOK, MainCalls, TurnedAway, ClientSend
  <2>4. OneSends'
    BY <1>1, <1>10 DEF TypeOK, MainCalls, OneSends, Sending, ClientSend
  <2>5. HeaderInv'
    BY <1>1, <1>10 DEF TypeOK, MainCalls, HeaderInv, Late, ClientSend
  <2>6. StatusInv'
    BY <1>1, <1>10 DEF TypeOK, MainCalls, TurnedAway, HeaderInv, StatusInv, ClientSend
  <2> QED BY <2>0, <2>1, <2>2, <2>3, <2>4, <2>5, <2>6
<1>11. CASE ClientHalfClose
  <2>0. WaitGroupCounts' /\ wg' \in Nat
    BY <1>1, <1>11 DEF TypeOK, WaitGroupCounts, ClientHalfClose
  <2>1. TypeOK'
    BY <1>1, <1>11, <2>0 DEF TypeOK, ClientHalfClose
  <2>2. MainCalls'
    BY <1>1, <1>11 DEF TypeOK, MainCalls, ClientHalfClose
  <2>3. TurnedAway'
    BY <1>1, <1>11 DEF TypeOK, MainCalls, TurnedAway, ClientHalfClose
  <2>4. OneSends'
    BY <1>1, <1>11 DEF TypeOK, MainCalls, OneSends, Sending, ClientHalfClose
  <2>5. HeaderInv'
    BY <1>1, <1>11 DEF TypeOK, MainCalls, HeaderInv, Late, ClientHalfClose
  <2>6. StatusInv'
    BY <1>1, <1>11 DEF TypeOK, MainCalls, TurnedAway, HeaderInv, StatusInv, ClientHalfClose
  <2> QED BY <2>0, <2>1, <2>2, <2>3, <2>4, <2>5, <2>6
<1>12. CASE ClientReset
  <2>0. WaitGroupCounts' /\ wg' \in Nat
    BY <1>1, <1>12 DEF TypeOK, WaitGroupCounts, ClientReset
  <2>1. TypeOK'
    BY <1>1, <1>12, <2>0 DEF TypeOK, ClientReset
  <2>2. MainCalls'
    BY <1>1, <1>12 DEF TypeOK, MainCalls, ClientReset
  <2>3. TurnedAway'
    BY <1>1, <1>12 DEF TypeOK, MainCalls, TurnedAway, ClientReset
  <2>4. OneSends'
    BY <1>1, <1>12 DEF TypeOK, MainCalls, OneSends, Sending, ClientReset
  <2>5. HeaderInv'
    BY <1>1, <1>12 DEF TypeOK, MainCalls, HeaderInv, Late, ClientReset
  <2>6. StatusInv'
    BY <1>1, <1>12 DEF TypeOK, MainCalls, TurnedAway, HeaderInv, StatusInv, ClientReset
  <2> QED BY <2>0, <2>1, <2>2, <2>3, <2>4, <2>5, <2>6
<1>13. CASE Expire
  <2>0. WaitGroupCounts' /\ wg' \in Nat
    BY <1>1, <1>13 DEF TypeOK, WaitGroupCounts, Expire
  <2>1. TypeOK'
    BY <1>1, <1>13, <2>0 DEF TypeOK, Expire
  <2>2. MainCalls'
    BY <1>1, <1>13 DEF TypeOK, MainCalls, Expire
  <2>3. TurnedAway'
    BY <1>1, <1>13 DEF TypeOK, MainCalls, TurnedAway, Expire
  <2>4. OneSends'
    BY <1>1, <1>13 DEF TypeOK, MainCalls, OneSends, Sending, Expire
  <2>5. HeaderInv'
    BY <1>1, <1>13 DEF TypeOK, MainCalls, HeaderInv, Late, Expire
  <2>6. StatusInv'
    BY <1>1, <1>13 DEF TypeOK, MainCalls, TurnedAway, HeaderInv, StatusInv, Expire
  <2> QED BY <2>0, <2>1, <2>2, <2>3, <2>4, <2>5, <2>6
<1>14. CASE Reject
  <2>0. WaitGroupCounts' /\ wg' \in Nat
    BY <1>1, <1>14 DEF TypeOK, WaitGroupCounts, Reject, ServeGoes
  <2>1. TypeOK'
    BY <1>1, <1>14, <2>0 DEF TypeOK, Reject, ServeGoes
  <2>2. MainCalls'
    BY <1>1, <1>14 DEF TypeOK, MainCalls, Reject, ServeGoes
  <2>3. TurnedAway'
    BY <1>1, <1>14 DEF TypeOK, MainCalls, TurnedAway, Reject, ServeGoes
  <2>4. OneSends'
    BY <1>1, <1>14 DEF TypeOK, MainCalls, OneSends, Sending, Reject, ServeGoes
  <2>5. HeaderInv'
    BY <1>1, <1>14 DEF TypeOK, MainCalls, HeaderInv, Late, Reject, ServeGoes
  <2>6. StatusInv'
    BY <1>1, <1>14 DEF TypeOK, MainCalls, TurnedAway, HeaderInv, StatusInv, Reject, ServeGoes
  <2> QED BY <2>0, <2>1, <2>2, <2>3, <2>4, <2>5, <2>6
<1>15. CASE StartHandler
  <2>0. WaitGroupCounts' /\ wg' \in Nat
    BY <1>1, <1>15 DEF TypeOK, WaitGroupCounts, StartHandler, ServeGoes
  <2>1. TypeOK'
    BY <1>1, <1>15, <2>0 DEF TypeOK, StartHandler, ServeGoes
  <2>2. MainCalls'
    BY <1>1, <1>15 DEF TypeOK, MainCalls, StartHandler, ServeGoes
  <2>3. TurnedAway'
    BY <1>1, <1>15 DEF TypeOK, MainCalls, TurnedAway, StartHandler, ServeGoes
  <2>4. OneSends'
    BY <1>1, <1>15 DEF TypeOK, MainCalls, OneSends, Sending, StartHandler, ServeGoes
  <2>5. HeaderInv'
    BY <1>1, <1>15 DEF TypeOK, MainCalls, HeaderInv, Late, StartHandler, ServeGoes
  <2>6. StatusInv'
    BY <1>1, <1>15 DEF TypeOK, MainCalls, TurnedAway, HeaderInv, StatusInv, StartHandler, ServeGoes
  <2> QED BY <2>0, <2>1, <2>2, <2>3, <2>4, <2>5, <2>6
<1>16. CASE HandlerReturns
  <2>0. WaitGroupCounts' /\ wg' \in Nat
    BY <1>1, <1>16 DEF TypeOK, WaitGroupCounts, HandlerReturns, ServeGoes
  <2>1. TypeOK'
    BY <1>1, <1>16, <2>0 DEF TypeOK, HandlerReturns, ServeGoes
  <2>2. MainCalls'
    BY <1>1, <1>16 DEF TypeOK, MainCalls, HandlerReturns, ServeGoes
  <2>3. TurnedAway'
    BY <1>1, <1>16 DEF TypeOK, MainCalls, TurnedAway, HandlerReturns, ServeGoes
  <2>4. OneSends'
    BY <1>1, <1>16 DEF TypeOK, MainCalls, OneSends, Sending, HandlerReturns, ServeGoes
  <2>5. HeaderInv'
    BY <1>1, <1>16 DEF TypeOK, MainCalls, HeaderInv, Late, HandlerReturns, ServeGoes
  <2>6. StatusInv'
    BY <1>1, <1>16 DEF TypeOK, MainCalls, TurnedAway, HeaderInv, StatusInv, HandlerReturns, ServeGoes
  <2> QED BY <2>0, <2>1, <2>2, <2>3, <2>4, <2>5, <2>6
<1>17. CASE FinishHeader
  <2>0. WaitGroupCounts' /\ wg' \in Nat
    <3>1. CASE sentHeader
      BY <1>1, <1>17, <3>1 DEF FinishHeader, WaitGroupCounts, TypeOK
    <3>2. CASE ~sentHeader
      <4>1. call[Main] = "idle" /\ mpc' = "header" /\ call' = [call EXCEPT ![Main] = "header"]
        BY <1>1, <1>17, <3>2 DEF FinishHeader, MainCalls
      <4>2. wg' = wg + Bit("header" # "idle") - Bit(call[Main] # "idle")
                     + Bit(NestedAt(Main, "header", mpc')) - Bit(NestedAt(Main, call[Main], mpc))
        BY <1>1, <1>17, <3>2, <4>1 DEF FinishHeader, TypeOK, Bit, NestedAt
      <4> QED BY <1>1, <4>1, <4>2, CountKept
    <3> QED BY <3>1, <3>2
  <2>1. TypeOK'
    BY <1>1, <1>17, <2>0 DEF TypeOK, FinishHeader
  <2>2. MainCalls'
    BY <1>1, <1>17 DEF TypeOK, MainCalls, FinishHeader
  <2>3. TurnedAway'
    BY <1>1, <1>17 DEF TypeOK, MainCalls, TurnedAway, FinishHeader
  <2>4. OneSends'
    BY <1>1, <1>17 DEF TypeOK, MainCalls, OneSends, Sending, FinishHeader
  <2>5. HeaderInv'
    BY <1>1, <1>17 DEF TypeOK, MainCalls, HeaderInv, Late, FinishHeader
  <2>6. StatusInv'
    BY <1>1, <1>17 DEF TypeOK, MainCalls, TurnedAway, HeaderInv, StatusInv, FinishHeader
  <2> QED BY <2>0, <2>1, <2>2, <2>3, <2>4, <2>5, <2>6
<1>18. CASE FlushHeader
  <2>0. WaitGroupCounts' /\ wg' \in Nat
    BY <1>1, <1>18 DEF TypeOK, WaitGroupCounts, FlushHeader, ServeGoes
  <2>1. TypeOK'
    BY <1>1, <1>18, <2>0 DEF TypeOK, FlushHeader, ServeGoes
  <2>2. MainCalls'
    BY <1>1, <1>18 DEF TypeOK, MainCalls, FlushHeader, ServeGoes
  <2>3. TurnedAway'
    BY <1>1, <1>18 DEF TypeOK, MainCalls, TurnedAway, FlushHeader, ServeGoes
  <2>4. OneSends'
    BY <1>1, <1>18 DEF TypeOK, MainCalls, OneSends, Sending, FlushHeader, ServeGoes
  <2>5. HeaderInv'
    BY <1>1, <1>18 DEF TypeOK, MainCalls, HeaderInv, Late, FlushHeader, ServeGoes
  <2>6. StatusInv'
    BY <1>1, <1>18 DEF TypeOK, MainCalls, TurnedAway, HeaderInv, StatusInv, FlushHeader, ServeGoes
  <2> QED BY <2>0, <2>1, <2>2, <2>3, <2>4, <2>5, <2>6
<1>19. CASE CloseBody
  <2>0. WaitGroupCounts' /\ wg' \in Nat
    BY <1>1, <1>19 DEF TypeOK, WaitGroupCounts, CloseBody, ServeGoes
  <2>1. TypeOK'
    BY <1>1, <1>19, <2>0 DEF TypeOK, CloseBody, ServeGoes
  <2>2. MainCalls'
    BY <1>1, <1>19 DEF TypeOK, MainCalls, CloseBody, ServeGoes
  <2>3. TurnedAway'
    BY <1>1, <1>19 DEF TypeOK, MainCalls, TurnedAway, CloseBody, ServeGoes
  <2>4. OneSends'
    BY <1>1, <1>19 DEF TypeOK, MainCalls, OneSends, Sending, CloseBody, ServeGoes
  <2>5. HeaderInv'
    BY <1>1, <1>19 DEF TypeOK, MainCalls, HeaderInv, Late, CloseBody, ServeGoes
  <2>6. StatusInv'
    BY <1>1, <1>19 DEF TypeOK, MainCalls, TurnedAway, HeaderInv, StatusInv, CloseBody, ServeGoes
  <2> QED BY <2>0, <2>1, <2>2, <2>3, <2>4, <2>5, <2>6
<1>20. CASE WriteStatus
  <2>0. WaitGroupCounts' /\ wg' \in Nat
    BY <1>1, <1>20 DEF TypeOK, WaitGroupCounts, WriteStatus, ServeGoes
  <2>1. TypeOK'
    BY <1>1, <1>20, <2>0 DEF TypeOK, WriteStatus, ServeGoes
  <2>2. MainCalls'
    BY <1>1, <1>20 DEF TypeOK, MainCalls, WriteStatus, ServeGoes
  <2>3. TurnedAway'
    BY <1>1, <1>20 DEF TypeOK, MainCalls, TurnedAway, WriteStatus, ServeGoes
  <2>4. OneSends'
    BY <1>1, <1>20 DEF TypeOK, MainCalls, OneSends, Sending, WriteStatus, ServeGoes
  <2>5. HeaderInv'
    BY <1>1, <1>20 DEF TypeOK, MainCalls, HeaderInv, Late, WriteStatus, ServeGoes
  <2>6. StatusInv'
    BY <1>1, <1>20 DEF TypeOK, MainCalls, TurnedAway, HeaderInv, StatusInv, WriteStatus, ServeGoes
  <2> QED BY <2>0, <2>1, <2>2, <2>3, <2>4, <2>5, <2>6
<1>21. CASE Cancel
  <2>0. WaitGroupCounts' /\ wg' \in Nat
    BY <1>1, <1>21 DEF TypeOK, WaitGroupCounts, Cancel, ServeGoes
  <2>1. TypeOK'
    BY <1>1, <1>21, <2>0 DEF TypeOK, Cancel, ServeGoes
  <2>2. MainCalls'
    BY <1>1, <1>21 DEF TypeOK, MainCalls, Cancel, ServeGoes
  <2>3. TurnedAway'
    BY <1>1, <1>21 DEF TypeOK, MainCalls, TurnedAway, Cancel, ServeGoes
  <2>4. OneSends'
    BY <1>1, <1>21 DEF TypeOK, MainCalls, OneSends, Sending, Cancel, ServeGoes
  <2>5. HeaderInv'
    BY <1>1, <1>21 DEF TypeOK, MainCalls, HeaderInv, Late, Cancel, ServeGoes
  <2>6. StatusInv'
    BY <1>1, <1>21 DEF TypeOK, MainCalls, TurnedAway, HeaderInv, StatusInv, Cancel, ServeGoes
  <2> QED BY <2>0, <2>1, <2>2, <2>3, <2>4, <2>5, <2>6
<1>22. CASE Wait
  <2>0. WaitGroupCounts' /\ wg' \in Nat
    BY <1>1, <1>22 DEF TypeOK, WaitGroupCounts, Wait, ServeGoes
  <2>1. TypeOK'
    BY <1>1, <1>22, <2>0 DEF TypeOK, Wait, ServeGoes
  <2>2. MainCalls'
    BY <1>1, <1>22 DEF TypeOK, MainCalls, Wait, ServeGoes
  <2>3. TurnedAway'
    <3>1. Cardinality(Running) = 0
      BY <1>1, <1>22, CountsBoth, SetsFinite DEF Wait
    <3>2. Running = {}
      BY <3>1, SetsFinite, FS_EmptySet
    <3>3. \A g \in Callers : call[g] = "idle"
      BY <3>2 DEF Running
    <3> QED BY <1>1, <1>22, <3>3 DEF TypeOK, MainCalls, TurnedAway, Wait, ServeGoes
  <2>4. OneSends'
    BY <1>1, <1>22 DEF TypeOK, MainCalls, OneSends, Sending, Wait, ServeGoes
  <2>5. HeaderInv'
    BY <1>1, <1>22 DEF TypeOK, MainCalls, HeaderInv, Late, Wait, ServeGoes
  <2>6. StatusInv'
    BY <1>1, <1>22 DEF TypeOK, MainCalls, TurnedAway, HeaderInv, StatusInv, Wait, ServeGoes
  <2> QED BY <2>0, <2>1, <2>2, <2>3, <2>4, <2>5, <2>6
<1> QED BY <1>10, <1>11, <1>12, <1>13, <1>14, <1>15, <1>16, <1>17, <1>18, <1>19, <1>20, <1>21, <1>22 DEF ServeStep

LEMMA InitInv == Init => IInv
<1> SUFFICES ASSUME Init PROVE IInv
  OBVIOUS
<1>1. Running = {} /\ Nested = {}
  BY DEF Init, Running, Nested, NestedAt
<1>2. WaitGroupCounts
  BY <1>1, CountsBoth, FS_EmptySet DEF Init
<1>3. TypeOK
  <2>1. response \in [headers : Nat, late : BOOLEAN, status : BOOLEAN, rejected : BOOLEAN]
    BY DEF Init
  <2>2. call \in [Callers -> CallPC] /\ mpc \in MainPC
    BY DEF Init, MainPC, CallPC
  <2>3. sent \in 0 .. MaxMessages /\ pending \in Nat /\ wg \in Nat
    BY BoundIsNat DEF Init
  <2>4. sentHeader \in BOOLEAN /\ ctx = "active" /\ input = "open"
    BY DEF Init
  <2> QED BY <2>1, <2>2, <2>3, <2>4 DEF TypeOK
<1>4. MainCalls /\ TurnedAway /\ OneSends
  BY CallersFinite DEF Init, MainCalls, TurnedAway, OneSends, Sending
<1>5. HeaderInv /\ StatusInv
  BY DEF Init, HeaderInv, Late, StatusInv
<1> QED BY <1>2, <1>3, <1>4, <1>5 DEF IInv

LEMMA NextInv == IInv /\ [Next]_vars => IInv'
<1> SUFFICES ASSUME IInv, [Next]_vars PROVE IInv'
  OBVIOUS
<1>1. CASE UNCHANGED vars
  BY <1>1 DEF vars, IInv, TypeOK, WaitGroupCounts, MainCalls, TurnedAway, OneSends, HeaderInv,
              Late, StatusInv
<1>2. CASE \E g \in Callers : RecvMsg(g) \/ SendMsg(g) \/ StreamStep(g)
  BY <1>2, CallKeeps
<1>3. CASE ClientSend \/ ClientHalfClose \/ ClientReset \/ Expire \/ Reject \/ StartHandler
           \/ ServeStep
  BY <1>3, ServeKeeps
<1> QED BY <1>1, <1>2, <1>3 DEF Next

LEMMA Inductive == Spec => []IInv
BY InitInv, NextInv, PTL DEF Spec

-----------------------------------------------------------------------------
(* The wait group of serveGRPC (stream.wg) always counts the stream methods   *)
(* that are running, a SendMsg inside SendHeader twice.                        *)
THEOREM RequestCounted == Spec => []RequestInv
<1>1. IInv => RequestInv
  BY DEF IInv, RequestInv
<1> QED BY <1>1, Inductive, PTL

(* Once serveGRPC has returned, no goroutine of the handler touches the        *)
(* ResponseWriter or the body: wg.Wait let none stay behind, and the cancelled *)
(* context stops the ones that call later.                                     *)
THEOREM NothingUsedAfterReturn == Spec => []NoUseAfterReturn
<1>1. IInv => NoUseAfterReturn
  BY DEF IInv, TurnedAway, NoUseAfterReturn, Touching
<1> QED BY <1>1, Inductive, PTL

(* The headers of a response are set once, before its status, if no goroutine  *)
(* of the handler sends its first message as the handler returns.              *)
THEOREM HeadersSetOnce == Spec => []HeadersOnce
<1>1. IInv => HeadersOnce
  BY DEF IInv, HeaderInv, HeadersOnce
<1> QED BY <1>1, Inductive, PTL

(* serveGRPC leaves a request without a status only if its context was over,   *)
(* or such a goroutine made its SendHeader fail.                               *)
THEOREM StatusWritten == Spec => []StatusUnlessCancelled
<1>1. IInv => StatusUnlessCancelled
  BY DEF IInv, StatusInv, StatusUnlessCancelled
<1> QED BY <1>1, Inductive, PTL

(* What net/http owns again once serveGRPC has returned: the response, and    *)
(* the body, from which nothing is taken (the client may still send).          *)
ResponseIsFinal ==
  [][mpc = "returned" => /\ mpc' = "returned" /\ response' = response
                         /\ pending' >= pending]_vars

(* After serveGRPC's return no step of any goroutine changes the response or   *)
(* reads the body.                                                             *)
THEOREM NothingChangedAfterReturn == Spec => ResponseIsFinal
<1> DEFINE A == mpc = "returned" => /\ mpc' = "returned" /\ response' = response
                                    /\ pending' >= pending
<1>1. IInv /\ [Next]_vars => [A]_vars
  <2> SUFFICES ASSUME IInv, Next, mpc = "returned"
               PROVE  mpc' = "returned" /\ response' = response /\ pending' >= pending
    BY DEF vars
  <2>1. pending \in Nat /\ \A g \in Callers : call[g] \in {"idle", "recv", "send"}
    BY DEF IInv, TypeOK, TurnedAway
  <2>2. ASSUME NEW g \in Callers, RecvMsg(g) \/ SendMsg(g) \/ StreamStep(g)
        PROVE  mpc' = "returned" /\ response' = response /\ pending' >= pending
    BY <2>1, <2>2 DEF RecvMsg, SendMsg, StreamStep, RecvMsgIsDone, ReadMessage, ReadFails,
                      SendMsgIsDone, SendMsgTest, SendHeaderCheck, SendHeaderSet, WriteMessage,
                      Move, Leave
  <2>3. ~(Reject \/ StartHandler \/ ServeStep)
    BY DEF Reject, StartHandler, ServeStep, HandlerReturns, FinishHeader, FlushHeader, CloseBody,
           WriteStatus, Cancel, Wait, ServeGoes
  <2>4. ASSUME ClientSend \/ ClientHalfClose \/ ClientReset \/ Expire
        PROVE  mpc' = "returned" /\ response' = response /\ pending' >= pending
    BY <2>1, <2>4 DEF ClientSend, ClientHalfClose, ClientReset, Expire
  <2> QED BY <2>2, <2>3, <2>4 DEF Next
<1> QED BY <1>1, Inductive, PTL DEF Spec, ResponseIsFinal
=============================================================================
