--------------------------- MODULE MCPooledCommand ---------------------------
EXTENDS PooledCommand

(* Header keys "a".."d" and values "1", "2" as bytes.                      *)
KA == <<97>>
KB == <<98>>
KC == <<99>>
KD == <<100>>
V1 == <<49>>
V2 == <<50>>

(* A command as a peer builds it: cmdcode 1, codec 1 (hessian2), class     *)
(* "C", content 0x01, and the header pairs set in order on a fresh map.    *)
Cmd(proto, ver1, typ, ver2, rid, switc, conn, pairs) ==
    [proto |-> proto, ver1 |-> ver1, typ |-> typ, cmdcode |-> 1, ver2 |-> ver2,
     rid |-> rid, codec |-> 1, switc |-> switc, timeout |-> 3, status |-> 0,
     connection |-> conn, class |-> <<67>>, content |-> <<1>>,
     headers |-> FoldLeft(LAMBDA m, p : SetOp(m, p[1], p[2]), New, pairs)]

(* Every layout: BOLTv1 request and response, BOLTv2 request with the      *)
(* CRC32 trailer, TBRemoting oneway.                                       *)
MixedFrames ==
    { Cmd(ProtoBOLTV1, 0, TypeBOLTRequest, 0, 1, 0, <<>>, <<<<KA, V1>>, <<KB, V2>>>>),
      Cmd(ProtoBOLTV2, 1, TypeBOLTRequestOneWay, 1, 2, 1, <<>>, <<<<KC, V1>>, <<StrHost, V2>>>>),
      Cmd(ProtoTBRemoting, 0, 1, 0, 0, 0, <<7>>, <<>>),
      Cmd(ProtoBOLTV1, 0, TypeBOLTResponse, 0, 1, 0, <<>>, <<>>) }
MixedKeys == {KA, KC, StrHost}

(* BOLTv2 requests whose header keys differ from frame to frame.           *)
V2Frames ==
    { Cmd(ProtoBOLTV2, 1, TypeBOLTRequest, 0, 1, 0, <<>>, <<<<KA, V1>>, <<KB, V2>>>>),
      Cmd(ProtoBOLTV2, 1, TypeBOLTRequest, 0, 2, 0, <<>>, <<<<KC, V1>>, <<KD, V2>>>>) }
V2Keys == {KA, KB, KC, KD}

OneValue == {V1}

(* Handlers that only delete headers.                                     *)
NoValues == {}
=============================================================================
