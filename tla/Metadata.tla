------------------------------ MODULE Metadata ------------------------------
(***************************************************************************)
(* Metadata as HTTP headers and back, and the grpc-message and             *)
(* grpc-timeout headers (larking/grpc.go).                                 *)
(*                                                                         *)
(* A key is its name and whether it ends in "-bin"; keys are in lower      *)
(* case.  Metadata maps keys to sequences of byte strings, a header maps   *)
(* them to sequences of texts: bytes in the form "plain", or in base64     *)
(* without padding ("raw") or with it ("padded").                          *)
(***************************************************************************)
EXTENDS Naturals, Sequences, FiniteSetsExt, TLC

Key(n) == [name |-> n, bin |-> FALSE]
BinKey(n) == [name |-> n, bin |-> TRUE]

Plain(b) == [data |-> b, form |-> "plain"]

NoMD == [k \in {} |-> <<>>]

(* Mutant: handlers may set the type of the answer. *)
ReservedWithoutType(k) ==
  ~k.bin /\ k.name \in {"user-agent", "grpc-message-type", "grpc-encoding", "grpc-message",
                        "grpc-status", "grpc-timeout", "grpc-status-details", "te"}

isReservedHeader(k) ==
  ~k.bin /\ k.name \in {"content-type", "user-agent", "grpc-message-type", "grpc-encoding",
                        "grpc-message", "grpc-status", "grpc-timeout", "grpc-status-details", "te"}

isWhitelistedHeader(k) == ~k.bin /\ k.name \in {":authority", "user-agent"}

encodeBinHeader(b) == [data |-> b, form |-> "raw"]

(* Both branches decode base64 without padding: "=" is an error to it, which *)
(* the text has unless its bytes are a multiple of three.                    *)
DecodesBin(v) == v.form = "raw" \/ (v.form = "padded" /\ Len(v.data) % 3 = 0)

decodeBinHeader(v) == IF DecodesBin(v) THEN v.data ELSE <<>>

(* newIncomingContext: a value that cannot be decoded becomes the empty one. *)
newIncomingContext(header) ==
  [k \in {k \in DOMAIN header : ~isReservedHeader(k) \/ isWhitelistedHeader(k)} |->
     [i \in DOMAIN header[k] |-> IF k.bin THEN decodeBinHeader(header[k][i])
                                 ELSE header[k][i].data]]

Outgoing(k, vs) ==
  [i \in DOMAIN vs |-> IF k.bin THEN encodeBinHeader(vs[i]) ELSE Plain(vs[i])]

setOutgoingHeader(header, md) ==
  LET sent == {k \in DOMAIN md : ~isReservedHeader(k)}
  IN [k \in DOMAIN header \cup sent |-> IF k \in sent THEN Outgoing(k, md[k]) ELSE header[k]]

(* Header.Set *)
SetText(h, k, text) == [x \in DOMAIN h \cup {k} |-> IF x = k THEN <<text>> ELSE h[x]]

Set(h, k, v) == SetText(h, k, Plain(v))

(* metadata.Join *)
Join(a, b) ==
  [k \in DOMAIN a \cup DOMAIN b |->
     (IF k \in DOMAIN a THEN a[k] ELSE <<>>) \o (IF k \in DOMAIN b THEN b[k] ELSE <<>>)]

-----------------------------------------------------------------------------
(* A message is a sequence of characters: "%" and "ctl" (a control or        *)
(* non-ASCII one) are escaped, the others are not.                           *)
Escaped(c) == c \in {"%", "ctl"}

(* What follows the last escaped character is not written. *)
encodeGrpcMessage(msg) ==
  LET escapes == {i \in 1 .. Len(msg) : Escaped(msg[i])}
      n == IF escapes = {} THEN Len(msg) ELSE Max(escapes)
  IN [i \in 1 .. n |-> [c |-> msg[i], escaped |-> i \in escapes]]

timeoutUnit(u) == u \in {"H", "M", "S", "m", "u", "n"}

(* A timeout is the characters before its unit (a number, or not one) and    *)
(* the unit.  Hours beyond the range of time.Duration are clamped; eight     *)
(* digits of the other units are within it.                                  *)
decodeTimeout(t) ==
  IF \/ t.length + 1 < 2 \/ t.length + 1 > 9
     \/ ~timeoutUnit(t.unit) \/ ~t.numeric
    THEN "error" ELSE IF t.negative THEN "expired" ELSE "ok"
=============================================================================
