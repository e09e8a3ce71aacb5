------------------------------- MODULE Buffer -------------------------------
(***************************************************************************)
(* simplemap/buffer: a cursor over a byte slice, with big-endian fixed-   *)
(* width integers and uint32-length-prefixed strings.  A byte slice is a  *)
(* sequence over Byte; a cursor position is 0-based, as in the code.       *)
(***************************************************************************)
EXTENDS Naturals, Sequences

Byte == 0..255

(* math.MaxUint32 at pos: all four bytes 0xff.  (TLC's integers stop at   *)
(* 2^31 - 1, so the sentinel is recognised by its bytes; every other       *)
(* length and id in the models stays below 2^31.)                          *)
IsMaxUint32At(data, pos) == \A i \in 1..4 : data[pos + i] = 255

(* MustPutUint8/16/32: binary.BigEndian of the value truncated to the      *)
(* field's width (the callers convert with uint8(), uint16(), uint32()).   *)
PutUint8(x) == << x % 256 >>

PutUint16(x) == << (x \div 256) % 256, x % 256 >>

PutUint32(x) == << (x \div 16777216) % 256, (x \div 65536) % 256,
                   (x \div 256) % 256, x % 256 >>

(* MustPutUint32String: uint32(len(s)) followed by the bytes of s.         *)
PutUint32String(s) == PutUint32(Len(s)) \o s

(* Check: size more bytes are available at pos.                            *)
Check(data, pos, size) == pos + size <= Len(data)

(* MustRef / MustCopy: the size bytes at pos.                              *)
Slice(data, pos, size) == SubSeq(data, pos + 1, pos + size)

(* MustUint16 / MustUint32: the big-endian value at pos.                   *)
Uint16At(data, pos) == data[pos + 1] * 256 + data[pos + 2]

Uint32At(data, pos) ==
    ((data[pos + 1] * 256 + data[pos + 2]) * 256 + data[pos + 3]) * 256
        + data[pos + 4]

=============================================================================
