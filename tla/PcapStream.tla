----------------------------- MODULE PcapStream -----------------------------
(***************************************************************************)
(* The incremental decoder of classic PCAP (sensor-capture                 *)
(* fritzbox/pcap.rs).                                                      *)
(*                                                                         *)
(* A stream is what the router writes: its file header and the sequence of *)
(* its packet records, each the two lengths of its header; the bytes of a  *)
(* frame are a length only.  A decoder is how far it is in that stream.    *)
(* Byte order and time stamps are left out: they change how a number is    *)
(* read, not where it stands.                                              *)
(***************************************************************************)
EXTENDS Integers, Sequences, FiniteSets, FiniteSetsExt, Functions

CONSTANT MaxPacket   (* capture.fritzbox.max_packet_bytes *)

ASSUME MaxPacketAssumption == MaxPacket \in Nat \ {0}

Global == 24
RecordHeader == [standard |-> 16, extended |-> 24]
EthernetSlack == 14
Ethernet == 1

(* The magic numbers, each in both byte orders, and the record layout they *)
(* announce.                                                               *)
DetectFormat ==
  [tcpdump |-> "standard", nanosecond |-> "standard",
   kuznetzov |-> "extended"]

HeaderErrors == {"UnsupportedMagic", "UnsupportedVersion", "SnapshotTooLarge"}
RecordErrors ==
  {"EmptyRecord", "RecordExceedsConfiguredLimit", "RecordExceedsSnaplen",
   "CapturedLongerThanOriginal"}
Errors == HeaderErrors \cup RecordErrors \cup {"BufferLimit"}

Decoder ==
  [known : BOOLEAN,                  (* the file header has been read      *)
   taken : Nat,                      (* records given out                  *)
   buffer : Nat,                     (* bytes received and not yet consumed*)
   error : Errors \cup {"none"}]

NewDecoder == [known |-> FALSE, taken |-> 0, buffer |-> 0, error |-> "none"]

(* What the router may write: any lengths.                                 *)
Recorded(s) ==
  s.snaplen \in Nat /\ s.records \in Seq([cap : Nat, orig : Nat])

(* What the reader finds wrong with the file header, in its order. *)
HeaderError(s) ==
  CASE s.magic \notin DOMAIN DetectFormat -> "UnsupportedMagic"
    [] s.magic \in DOMAIN DetectFormat /\ s.version # 2 -> "UnsupportedVersion"
    [] s.magic \in DOMAIN DetectFormat /\ s.version = 2
         /\ (s.snaplen = 0 \/ s.snaplen > MaxPacket) -> "SnapshotTooLarge"
    [] OTHER -> "none"

(* For another format any layout will do: its records are never reached. *)
Variant(s) ==
  IF s.magic \in DOMAIN DetectFormat THEN DetectFormat[s.magic] ELSE "standard"
HeaderLength(s) == RecordHeader[Variant(s)]
RecordLength(s, k) == HeaderLength(s) + s.records[k].cap

(* Patched kernels count the link header on top of the declared length. *)
SnaplenSlack(s) ==
  IF Variant(s) = "extended" /\ s.link = Ethernet THEN EthernetSlack ELSE 0

(* What the reader finds wrong with a record header, in its order. *)
RecordError(s, k) ==
  LET r == s.records[k] IN
  IF r.cap = 0 THEN "EmptyRecord"
  ELSE IF r.cap > MaxPacket THEN "RecordExceedsConfiguredLimit"
  ELSE IF r.cap > s.snaplen + SnaplenSlack(s) THEN "RecordExceedsSnaplen"
  ELSE IF r.cap > r.orig THEN "CapturedLongerThanOriginal"
  ELSE "none"

(* The file header, once all of it is there. *)
TakeHeader(s, d) ==
  IF d.known \/ d.buffer < Global THEN d
  ELSE IF HeaderError(s) # "none" THEN [d EXCEPT !.error = HeaderError(s)]
  ELSE [d EXCEPT !.known = TRUE, !.buffer = @ - Global]

(* Slip: one record for each piece of the stream. *)
TakeOneRecord(s, d) ==
  LET k == d.taken + 1 IN
  IF k > Len(s.records) \/ d.buffer < HeaderLength(s) THEN d
  ELSE IF RecordError(s, k) # "none"
  THEN [d EXCEPT !.error = RecordError(s, k)]
  ELSE IF d.buffer < RecordLength(s, k) THEN d
  ELSE [d EXCEPT !.taken = k, !.buffer = @ - RecordLength(s, k)]

(* Records, as long as the next one is there in full. *)
TakeRecords(s, decoder) ==
  LET take[d \in Decoder] ==
        LET k == d.taken + 1 IN
        IF k > Len(s.records) \/ d.buffer < HeaderLength(s) THEN d
        ELSE IF RecordError(s, k) # "none"
        THEN [d EXCEPT !.error = RecordError(s, k)]
        ELSE IF d.buffer < RecordLength(s, k) THEN d
        ELSE take[[d EXCEPT !.taken = k, !.buffer = @ - RecordLength(s, k)]]
  IN take[decoder]

DecodeAvailable(s, d) ==
  LET h == TakeHeader(s, d) IN IF h.known THEN TakeRecords(s, h) ELSE h

BufferCapacity == MaxPacket + Max({Global, RecordHeader["extended"]})

(* A chunk of n bytes is taken in pieces that fit the buffer.  The packets *)
(* of a chunk are those of the successful result: after an error the       *)
(* caller gets none of them.                                               *)
Push(s, decoder, n) ==
  LET feed[x \in Decoder \X Nat] ==
        LET d == x[1]
            rest == x[2]
            room == BufferCapacity - d.buffer
            piece == Min({room, rest})
        IN IF rest = 0 \/ d.error # "none" THEN d
           ELSE IF room = 0 THEN [d EXCEPT !.error = "BufferLimit"]
           ELSE feed[<<DecodeAvailable(s, [d EXCEPT !.buffer = @ + piece]),
                       rest - piece>>]
  IN feed[<<decoder, n>>]

-----------------------------------------------------------------------------
(* The reference: what a reader of the whole file finds in its first n     *)
(* bytes.                                                                  *)

RecordEnd(s, k) ==
  Global + SumFunction([i \in 1..k |-> RecordLength(s, i)])
StreamLength(s) == RecordEnd(s, Len(s.records))

WholeRecords(s, n) ==
  IF HeaderError(s) # "none" \/ n < Global THEN 0
  ELSE Max({k \in 0..Len(s.records) :
              /\ \A i \in 1..k : RecordError(s, i) = "none"
              /\ RecordEnd(s, k) <= n})

=============================================================================
