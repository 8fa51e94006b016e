---------------------------- MODULE NhacMessage ----------------------------
(***************************************************************************)
(* The messages of nhac (tools/src/nhac.cpp): the classes TLV and Message. *)
(* A message is the sequence of its records; on the wire it is a sequence  *)
(* of bytes.                                                               *)
(***************************************************************************)
EXTENDS Integers, SequencesExt

CONSTANT MD5(_)  \* digest of a sequence of bytes, 16 bytes

Byte == 0 .. 255

(* The n bytes of x, the lowest first. *)
LittleEndian(x, n) ==
    LET shifted[i \in 0 .. n] == IF i = 0 THEN x ELSE shifted[i - 1] \div 256
    IN  [i \in 1 .. n |-> shifted[i - 1] % 256]

FromLE32(t) == t[1] + 256 * (t[2] + 256 * (t[3] + 256 * t[4]))

(* The length of a value is kept in one byte. *)
GetLength(tlv) == Len(tlv.value) % 256

GetCompleteSize(tlvs) == FoldSeq(LAMBDA tlv, n : n + 2 + GetLength(tlv), 4 + 16, tlvs)

SerializeTLV(tlv) == <<tlv.tag, Len(tlv.value) % 256>> \o tlv.value

(* Size and records, without the checksum. *)
Content(tlvs) ==
    LittleEndian(GetCompleteSize(tlvs), 4)
        \o FlattenSeq([i \in DOMAIN tlvs |-> SerializeTLV(tlvs[i])])

(* Neither the size, nor a record after those before it, exceeds n bytes. *)
CanSerialize(tlvs, n) == GetCompleteSize(tlvs) <= n /\ Len(Content(tlvs)) <= n

----------------------------------------------------------------------------
(* The n bytes of t read as a message; ok is FALSE where the code throws. *)

Malformed == [ok |-> FALSE, tlvs |-> <<>>, received |-> <<>>, calculated |-> <<>>]

TLVFits(t, pos, end) == end - pos >= 2 /\ end - pos >= 2 + t[pos + 2]

DeserializeTLV(t, pos) ==
    [tag |-> t[pos + 1], value |-> SubSeq(t, pos + 3, pos + 2 + t[pos + 2])]

Deserialize(t, n) ==
    IF n < 20 \/ FromLE32(t) > n \/ FromLE32(t) < 20 THEN Malformed
    ELSE LET end == FromLE32(t) - 16
             loop[pos \in 4 .. end] ==
                 IF pos = end
                 THEN [ok |-> TRUE, tlvs |-> <<>>, received |-> SubSeq(t, end + 1, end + 16),
                       calculated |-> MD5(SubSeq(t, 1, end))]
                 ELSE IF TLVFits(t, pos, end)
                 THEN [loop[pos + 2 + t[pos + 2]] EXCEPT !.tlvs = <<DeserializeTLV(t, pos)>> \o @]
                 ELSE Malformed
             msg == loop[4]
         IN  IF msg.ok THEN msg ELSE Malformed

MAGIC_BYTES == <<78, 72, 65, 49>>  \* NHA1

(* What print() calls a record; "" if it has no explanation for it. *)
Decode(tlv) ==
    LET tag == tlv.tag % 128
        isQuery == tlv.tag >= 128
        size == Len(tlv.value)
        Sized(n) == size = IF isQuery THEN 0 ELSE n
    IN  CASE tlv.tag = 0 /\ tlv.value = MAGIC_BYTES  -> "magic"
          [] tlv.tag = 1 /\ size = 4                 -> "version"
          [] tlv.tag = 2 /\ size = 1                 -> "type"
          [] tlv.tag = 3 /\ size = 1                 -> "flags"
          [] tlv.tag = 4                             -> "user_data"
          [] tlv.tag = 5                             -> "user_data_mirrored"
          [] tag = 16 /\ (isQuery => size = 0)       -> "capabilities"
          [] tag = 32 /\ (isQuery => size = 0)       -> "temperatures"
          [] tag = 17 /\ Sized(16)                   -> "device_id"
          [] tag = 18 /\ Sized(8)                    -> "monotonic_timer_rx"
          [] tag = 19 /\ Sized(8)                    -> "monotonic_timer_tx"
          [] tag = 20 /\ Sized(8)                    -> "device_id_last_updated"
          [] OTHER                                   -> ""
============================================================================
