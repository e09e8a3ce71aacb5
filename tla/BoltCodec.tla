------------------------------ MODULE BoltCodec ------------------------------
(***************************************************************************)
(* command.go: the Command record and its wire codec for BOLTv1, BOLTv2   *)
(* and TBRemoting, byte by byte.  Every field is written at its wire      *)
(* width (uint8, uint16 or uint32 of the value) and read back from the    *)
(* offsets the readers use.  A stream is a byte sequence; a read returns  *)
(* the command, the count the reader reports, the error, and the number   *)
(* of bytes it took from the stream.                                      *)
(*                                                                         *)
(* readhelper.AllocToAtLeast(b, n) (sofa-common-go, not in this           *)
(* repository) is taken to return a buffer of length n, and              *)
(* readhelper.ReadToBytes(r, n, b) to read exactly n bytes or fail.       *)
(***************************************************************************)
EXTENDS FastSimpleMap

ProtoBOLTV1 == 1
ProtoBOLTV2 == 2
ProtoTBRemoting == 13
TypeBOLTResponse == 0
TypeBOLTRequest == 1
TypeBOLTRequestOneWay == 2

IsBOLTRequestType(t) == t \in {TypeBOLTRequest, TypeBOLTRequestOneWay}

(* Reset: scalars to zero, byte slices and the header map to length 0.     *)
ResetCommand(cmd) ==
    [proto |-> 0, ver1 |-> 0, typ |-> 0, cmdcode |-> 0, ver2 |-> 0, rid |-> 0,
     codec |-> 0, switc |-> 0, timeout |-> 0, status |-> 0,
     connection |-> <<>>, class |-> <<>>, content |-> <<>>,
     headers |-> ResetOp(cmd.headers)]

(* Command.CopyTo(d): the scalar fields, class and content copied into    *)
(* d's own arrays, the header map by FastSimpleMap.CopyTo; the connection *)
(* field is not copied, d keeps its own.                                   *)
CopyTo(c, d) ==
    [d EXCEPT !.proto = c.proto, !.ver1 = c.ver1, !.typ = c.typ,
              !.cmdcode = c.cmdcode, !.ver2 = c.ver2, !.rid = c.rid,
              !.codec = c.codec, !.switc = c.switc, !.timeout = c.timeout,
              !.status = c.status, !.class = c.class, !.content = c.content,
              !.headers = CopyToOp(c.headers, d.headers)]

(* Size                                                                    *)
Size(cmd) ==
    LET body == Len(cmd.class) + GetEncodeSize(cmd.headers) + Len(cmd.content)
    IN  CASE cmd.proto \in {0, ProtoBOLTV1} ->
               IF IsBOLTRequestType(cmd.typ) THEN 20 + body ELSE 24 + body
          [] cmd.proto = ProtoBOLTV2 ->
               IF IsBOLTRequestType(cmd.typ) THEN 24 + body ELSE 22 + body
          [] cmd.proto = ProtoTBRemoting -> 14 + body
          [] OTHER -> 0

(* The CRC32 trailer: no reader checks it (the TODO in the BOLTv2          *)
(* readers), so only its four bytes are modelled, not their value.         *)
CRC32Trailer(b) == PutUint32(0)

Body(cmd) == cmd.class \o EncodeOp(cmd.headers) \o cmd.content

Lengths16(cmd) ==
    PutUint16(Len(cmd.class)) \o PutUint16(GetEncodeSize(cmd.headers))
    \o PutUint32(Len(cmd.content))

(* writeRequestCommandBOLTV1 / writeResponseCommandBOLTV1                  *)
WriteBOLTV1(cmd) ==
    LET head == <<cmd.proto, cmd.typ>> \o PutUint16(cmd.cmdcode) \o <<cmd.ver2>>
                \o PutUint32(cmd.rid) \o <<cmd.codec>>
        mid  == IF IsBOLTRequestType(cmd.typ) THEN PutUint32(cmd.timeout)
                ELSE PutUint16(cmd.status)
    IN  head \o mid \o Lengths16(cmd) \o Body(cmd)

(* writeRequestCommandBOLTV2 / writeResponseCommandBOLTV2                  *)
WriteBOLTV2(cmd) ==
    LET head == <<cmd.proto, cmd.ver1, cmd.typ>> \o PutUint16(cmd.cmdcode)
                \o <<cmd.ver2>> \o PutUint32(cmd.rid) \o <<cmd.codec, cmd.switc>>
        mid  == IF IsBOLTRequestType(cmd.typ) THEN PutUint32(cmd.timeout)
                ELSE PutUint16(cmd.status)
        b    == head \o mid \o Lengths16(cmd) \o Body(cmd)
    IN  IF cmd.switc > 0 THEN b \o CRC32Trailer(b) ELSE b

(* writeCommandTBRemoting: the class length is a single byte.              *)
WriteTBRemoting(cmd) ==
    <<cmd.proto, cmd.cmdcode % 256, cmd.codec, cmd.typ, 0>>
    \o PutUint32(Len(cmd.connection)) \o PutUint8(Len(cmd.class))
    \o PutUint32(Len(cmd.content))
    \o cmd.connection \o cmd.class \o cmd.content

(* WriteCommand: [b |-> frame, err |-> error].                             *)
WriteCommand(cmd) ==
    CASE cmd.proto \in {0, ProtoBOLTV1} /\ cmd.typ \in 0..2 ->
           [b |-> WriteBOLTV1(cmd), err |-> "none"]
      [] cmd.proto = ProtoBOLTV2 /\ cmd.typ \in 0..2 ->
           [b |-> WriteBOLTV2(cmd), err |-> "none"]
      [] cmd.proto = ProtoTBRemoting -> [b |-> WriteTBRemoting(cmd), err |-> "none"]
      [] cmd.proto \in {0, ProtoBOLTV1, ProtoBOLTV2} ->
           [b |-> <<>>, err |-> "MalformedType"]
      [] OTHER -> [b |-> <<>>, err |-> "MalformedProto"]

-----------------------------------------------------------------------------
(* Reading.  Fail returns (0, err) with the bytes taken so far.            *)
Fail(cmd, err, used) == [cmd |-> cmd, n |-> 0, err |-> err, used |-> used]

(* Mutant: the CRC32 trailer is not read when switc > 0.                  *)
ReadBodyNoCRC(cmd, data, pos, cl, hl, tl, base) ==
    IF ~Check(data, pos, cl + hl + tl) THEN Fail(cmd, "EOF", Len(data))
    ELSE LET d == DecodeOp(cmd.headers, Slice(data, pos + cl, hl))
         IN  IF d.err # "none" THEN Fail(cmd, d.err, pos + cl + hl)
             ELSE [cmd  |-> [cmd EXCEPT !.class = Slice(data, pos, cl),
                                        !.headers = d.m,
                                        !.content = Slice(data, pos + cl + hl, tl)],
                   err  |-> "none", used |-> pos + cl + hl + tl,
                   n    |-> base + ((cl + hl) % 65536) + tl]

(* The shared tail of the BOLT readers: class, header bytes and their      *)
(* Decode into cmd.headers, content, and the CRC32 when switc > 0.  The    *)
(* count returned is base + int(classLen+headerLen) + int(contentLen),     *)
(* the sum of the two lengths taken in uint16.                            *)
ReadBody(cmd, data, pos, cl, hl, tl, base) ==
    IF ~Check(data, pos, cl) THEN Fail(cmd, "EOF", Len(data))
    ELSE LET c1 == [cmd EXCEPT !.class = Slice(data, pos, cl)]
             p1 == pos + cl
         IN  IF ~Check(data, p1, hl) THEN Fail(c1, "EOF", Len(data))
             ELSE LET d  == DecodeOp(c1.headers, Slice(data, p1, hl))
                      c2 == [c1 EXCEPT !.headers = d.m]
                      p2 == p1 + hl
                  IN  IF d.err # "none" THEN Fail(c2, d.err, p2)
                      ELSE IF ~Check(data, p2, tl) THEN Fail(c2, "EOF", Len(data))
                      ELSE LET c3 == [c2 EXCEPT !.content = Slice(data, p2, tl)]
                               p3 == p2 + tl
                               Ok(u) == [cmd |-> c3, err |-> "none", used |-> u,
                                         n |-> base + ((cl + hl) % 65536) + tl]
                           IN  IF c3.switc = 0 THEN Ok(p3)
                               ELSE IF ~Check(data, p3, 4) THEN Fail(c3, "EOF", Len(data))
                               ELSE Ok(p3 + 4)

(* readRequestCommandBOLTV1, from the byte after type (pos 2).  Like the  *)
(* response reader it takes ver2 from b32[3], the first byte of the        *)
(* request id, where the writer put ver2 in b32[2].                        *)
ReadRequestBOLTV1(cmd, data) ==
    LET h  == Slice(data, 2, 20)
        c1 == [cmd EXCEPT !.cmdcode = Uint16At(h, 0), !.ver2 = h[4],
                          !.rid = Uint32At(h, 3), !.codec = h[8],
                          !.timeout = Uint32At(h, 8)]
    IN  IF ~Check(data, 2, 20) THEN Fail(cmd, "EOF", Len(data))
        ELSE ReadBody(c1, data, 22, Uint16At(h, 12), Uint16At(h, 14), Uint32At(h, 16), 22)

(* readResponseCommandBOLTV1: status where the request has the timeout.    *)
ReadResponseBOLTV1(cmd, data) ==
    LET h  == Slice(data, 2, 18)
        c1 == [cmd EXCEPT !.cmdcode = Uint16At(h, 0), !.ver2 = h[4],
                          !.rid = Uint32At(h, 3), !.codec = h[8],
                          !.status = Uint16At(h, 8)]
    IN  IF ~Check(data, 2, 18) THEN Fail(cmd, "EOF", Len(data))
        ELSE ReadBody(c1, data, 20, Uint16At(h, 10), Uint16At(h, 12), Uint32At(h, 14), 20)

(* readCommandBOLTV1: the switch on the type ReadCommand has read.         *)
ReadBOLTV1(cmd, data) ==
    IF IsBOLTRequestType(cmd.typ) THEN ReadRequestBOLTV1(cmd, data)
    ELSE ReadResponseBOLTV1(cmd, data)

(* readRequestCommandBOLTV2, from pos 3.                                   *)
ReadRequestBOLTV2(cmd, data) ==
    LET h  == Slice(data, 3, 21)
        c1 == [cmd EXCEPT !.cmdcode = Uint16At(h, 0), !.ver2 = h[3],
                          !.rid = Uint32At(h, 3), !.codec = h[8], !.switc = h[9],
                          !.timeout = Uint32At(h, 9)]
    IN  IF ~Check(data, 3, 21) THEN Fail(cmd, "EOF", Len(data))
        ELSE ReadBody(c1, data, 24, Uint16At(h, 13), Uint16At(h, 15), Uint32At(h, 17), 24)

(* readResponseCommandBOLTV2: status where the request has the timeout.    *)
ReadResponseBOLTV2(cmd, data) ==
    LET h  == Slice(data, 3, 19)
        c1 == [cmd EXCEPT !.cmdcode = Uint16At(h, 0), !.ver2 = h[3],
                          !.rid = Uint32At(h, 3), !.codec = h[8], !.switc = h[9],
                          !.status = Uint16At(h, 9)]
    IN  IF ~Check(data, 3, 19) THEN Fail(cmd, "EOF", Len(data))
        ELSE ReadBody(c1, data, 22, Uint16At(h, 11), Uint16At(h, 13), Uint32At(h, 15), 22)

(* readCommandBOLTV2: the switch on the type ReadCommand has read.         *)
ReadBOLTV2(cmd, data) ==
    IF IsBOLTRequestType(cmd.typ) THEN ReadRequestBOLTV2(cmd, data)
    ELSE ReadResponseBOLTV2(cmd, data)

(* readCommandTBRemoting, from pos 1.                                      *)
ReadTBRemoting(cmd, data) ==
    LET h  == Slice(data, 1, 13)
        nl == Uint32At(h, 4)  cl == h[9]  tl == Uint32At(h, 9)
        c1 == [cmd EXCEPT !.proto = ProtoTBRemoting, !.cmdcode = h[1],
                          !.codec = h[2], !.typ = h[3]]
        p  == 14
    IN  IF ~Check(data, 1, 13) THEN Fail(cmd, "EOF", Len(data))
        ELSE IF ~Check(data, p, nl + cl + tl) THEN Fail(c1, "EOF", Len(data))
        ELSE [cmd  |-> [c1 EXCEPT !.connection = Slice(data, p, nl),
                                  !.class = Slice(data, p + nl, cl),
                                  !.content = Slice(data, p + nl + cl, tl)],
              n    |-> 14 + nl + cl + tl, err |-> "none", used |-> p + nl + cl + tl]

(* ReadCommand with readCommandBOLTV1 / readCommandBOLTV2 dispatching on   *)
(* the type byte.                                                          *)
ReadCommand(cmd, data) ==
    IF Len(data) = 0 THEN Fail(cmd, "EOF", 0)
    ELSE LET proto == data[1]
             c0    == [cmd EXCEPT !.proto = proto]
         IN  CASE proto \in {0, ProtoBOLTV1} ->
                    IF Len(data) < 2 THEN Fail(c0, "EOF", 1)
                    ELSE LET c1 == [c0 EXCEPT !.typ = data[2]]
                         IN  IF c1.typ \in 0..2 THEN ReadBOLTV1(c1, data)
                             ELSE Fail(c1, "MalformedType", 2)
               [] proto = ProtoBOLTV2 ->
                    IF Len(data) < 3 THEN Fail(c0, "EOF", Len(data))
                    ELSE LET c1 == [c0 EXCEPT !.ver1 = data[2], !.typ = data[3]]
                         IN  IF c1.typ \in 0..2 THEN ReadBOLTV2(c1, data)
                             ELSE Fail(c1, "MalformedType", 3)
               [] proto = ProtoTBRemoting -> ReadTBRemoting(c0, data)
               [] OTHER -> Fail(c0, "MalformedProto", 1)

=============================================================================
