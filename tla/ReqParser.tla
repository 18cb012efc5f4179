------------------------------ MODULE ReqParser ------------------------------
(***************************************************************************)
(* The receive buffer of one TCP connection and the request parser that    *)
(* reads from it.  Sources: buf_ctrl.c (the chain of blocks), parser.c,    *)
(* str_helper.c and the parts of client_info.c that own the two.           *)
(*                                                                         *)
(* A connection is a record, and every function of the code an operator on *)
(* it.  Positions count the bytes of the connection from 0: byte p is in   *)
(* block p \div BUFBLK_SIZE.  The block after the last full one exists as  *)
(* soon as that is full (recv_clnt_data), and so Len(data) \div            *)
(* BUFBLK_SIZE is the block being received into, curr_buf.                 *)
(*                                                                         *)
(* A byte is "_" (a space), a digit, or a token: a method name is one      *)
(* byte, and the rooms and limits of the code are scaled with it.  The     *)
(* byte behind the last one received is whatever malloc left there (junk). *)
(***************************************************************************)
EXTENDS Naturals, Sequences, FiniteSets, FiniteSetsExt, SequencesExt

CONSTANTS
    BUFBLK_SIZE,  \* bytes in a block; 2048 in the code
    MethodRoom,   \* METHOD_MAX_LEN + 1: the longest method and a space; 8
    LenRoom,      \* the room for a length and a space; 10
    Field1Max,    \* REQ_FIELD1_MAX_LEN, 9
    Field2Max     \* REQ_FIELD2_MAX_LEN, 512

ASSUME ParserAssumption ==
    /\ BUFBLK_SIZE \in Nat \ {0, 1}
    /\ MethodRoom \in Nat \ {0, 1} /\ LenRoom \in Nat \ {0}
    /\ Field1Max \in Nat /\ Field2Max \in Nat

Space == "_"
DigitValue == [d \in {"0", "1", "2", "3"} |->
               CASE d = "0" -> 0 [] d = "1" -> 1 [] d = "2" -> 2 [] d = "3" -> 3]
Method == {"ADDFILE", "GETRD"}

\* create_clnt_info: one empty block, the parser at its start.
NewConn ==
    [data |-> <<>>, junk |-> Space, first |-> 0, pos |-> 0, node |-> "block",
     st |-> "NEW", meth |-> "", len1 |-> 0, len2 |-> 0, f1 |-> <<>>,
     f2 |-> <<>>, rst |-> "OK", ret |-> "wait"]

-----------------------------------------------------------------------------
(* Bugs this code does not have, to see that the properties would notice.  *)

BugFreeBuf(c) == [c EXCEPT !.first = Len(c.data) \div BUFBLK_SIZE + 1]
BugUpdateConn(c) == [c EXCEPT !.rst = "OK", !.len1 = 0, !.len2 = 0]
BugFieldDone(c, v) == [c EXCEPT !.f1 = v, !.st = "DONE"]

-----------------------------------------------------------------------------
(* buf_ctrl.c                                                              *)

CurrBuf(c) == Len(c.data) \div BUFBLK_SIZE

\* recv_clnt_data receives at most up to the end of the current block.
Room(c) == BUFBLK_SIZE - (Len(c.data) % BUFBLK_SIZE)

\* get_next_byte: "next_byte_idx > len" lets the byte behind the last one
\* received be read as well.
Readable(c) == c.pos..Len(c.data)
ByteAt(c, p) == IF p < Len(c.data) THEN c.data[p + 1] ELSE c.junk
Bytes(c, from, to) == [i \in 1..(to - from + 1) |-> ByteAt(c, from + i - 1)]

\* The reader has passed junk in the last place of a block, and the next block
\* is not there yet: its node is NULL.
PastChain(c, p) == p = Len(c.data) + 1 /\ p % BUFBLK_SIZE = 0

\* Reading on when nothing is readable any more.
RunOut(c) == [ret |-> IF PastChain(c, Len(c.data) + 1) THEN "crash" ELSE "wait",
              val |-> <<>>, pos |-> c.pos]

Found(c, from, to, next) == [ret |-> "go", val |-> Bytes(c, from, to), pos |-> next]

\* get_bytes
GetBytes(c, size) ==
    IF c.pos + size - 1 \in Readable(c)
    THEN Found(c, c.pos, c.pos + size - 1, c.pos + size)
    ELSE RunOut(c)

\* get_next_field: skip spaces, then read up to a space, size bytes at most.
FieldFrom(c) == {i \in Readable(c) : ByteAt(c, i) # Space}
GetNextField(c, size) ==
    IF FieldFrom(c) = {} THEN RunOut(c)
    ELSE LET from   == Min(FieldFrom(c))
             spaces == {i \in Readable(c) : from < i /\ ByteAt(c, i) = Space}
             full   == from + size
         IN  IF \E i \in spaces : i < full
             THEN Found(c, from, Min(spaces) - 1, Min(spaces) + 1)
             ELSE IF full \in Readable(c)
             THEN [ret |-> "failed", val |-> <<>>, pos |-> c.pos]
             ELSE RunOut(c)

\* What the two do to the position of the parser when they succeed.
Advance(c, r) ==
    [c EXCEPT !.ret = r.ret, !.pos = r.pos,
              !.node = IF r.ret = "go" /\ PastChain(c, r.pos) THEN "null" ELSE @]

\* free_buf up to, and without, the block being received into.
FreeBuf(c) == [c EXCEPT !.first = CurrBuf(c)]

\* The block the parser is in has been freed.
Dangling(c) == c.pos \div BUFBLK_SIZE < c.first

-----------------------------------------------------------------------------
(* parser.c                                                                *)

BadRequest(c) == [c EXCEPT !.st = "ERROR", !.rst = "BAD_REQUEST", !.ret = "stop"]

ParseMethod(c) ==
    LET r == GetNextField(c, MethodRoom)
        d == Advance(c, r)
    IN  CASE r.ret = "failed" -> BadRequest(c)
          [] r.ret \in {"wait", "crash"} -> d
          [] OTHER -> IF r.val \in {<<m>> : m \in Method}
                      THEN [d EXCEPT !.meth = r.val[1], !.st = "METHOD_DONE"]
                      ELSE BadRequest(d)

\* str_to_num; signs, which strtol takes too, are no bytes of the model.
IsNum(s) == \A i \in DOMAIN s : s[i] \in DOMAIN DigitValue
Num(s) == FoldLeft(LAMBDA n, d : 10 * n + DigitValue[d], 0, s)

ParseLen(c) ==
    LET r == GetNextField(c, LenRoom)
        d == Advance(c, r)
        InRange(max) == IsNum(r.val) /\ Num(r.val) \in 1..max
    IN  CASE r.ret = "failed" -> BadRequest(c)
          [] r.ret \in {"wait", "crash"} -> d
          [] OTHER ->
             IF c.st = "METHOD_DONE" /\ InRange(Field1Max)
             THEN [d EXCEPT !.len1 = Num(r.val), !.st = "LEN1_DONE"]
             ELSE IF c.st = "FIELD1_DONE" /\ InRange(Field2Max)
             THEN [d EXCEPT !.len2 = Num(r.val), !.st = "LEN2_DONE"]
             ELSE BadRequest(d)

FieldDone(c, v) ==
    IF c.st = "LEN1_DONE"
    THEN [c EXCEPT !.f1 = v, !.st = IF c.meth = "GETRD" THEN "DONE" ELSE "FIELD1_DONE"]
    ELSE [c EXCEPT !.f2 = v, !.st = "DONE"]

ParseData(c) ==
    LET r == GetBytes(c, IF c.st = "LEN1_DONE" THEN c.len1 ELSE c.len2)
        d == Advance(c, r)
    IN  IF r.ret = "go" THEN FieldDone(d, r.val) ELSE d

ParseStep(c) ==
    CASE c.st = "NEW" -> ParseMethod(c)
      [] c.st \in {"METHOD_DONE", "FIELD1_DONE"} -> ParseLen(c)
      [] c.st \in {"LEN1_DONE", "LEN2_DONE"} -> ParseData(c)

\* parse_req: steps until one fails or the request is complete, five at most.
\* The set has one member, the connection as the parser leaves it.  A node that
\* is NULL fails the assertion of get_next_field, or is read through.
ParseReq(c) ==
    LET Stopped(d) == d.st = "DONE" \/ d.ret # "go"
        Run[k \in 0..5] ==
            IF k = 0 THEN {[c EXCEPT !.ret = "go"]}
            ELSE {IF Stopped(d) THEN d ELSE ParseStep(d) : d \in Run[k - 1]}
    IN  IF c.node = "null" THEN {[c EXCEPT !.ret = "crash"]} ELSE Run[5]

FullReq(c) == c.st \in {"DONE", "ERROR"}

\* update_clnt_info, after a request has been answered.  Method and fields stay
\* in the code; nothing reads them before the next request has set them.
UpdateConn(c) ==
    FreeBuf([c EXCEPT !.st = "NEW", !.rst = "OK", !.len1 = 0, !.len2 = 0,
                      !.meth = "", !.f1 = <<>>, !.f2 = <<>>])

\* recv_clnt_data: the bytes are appended, the one behind them is unknown.
Receive(c, bytes, junk) == [c EXCEPT !.data = @ \o bytes, !.junk = junk]

\* Nothing is parsed again before more is received: the junk no longer matters.
Waiting(c) == [c EXCEPT !.junk = Space]
=============================================================================
