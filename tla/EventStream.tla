----------------------------- MODULE EventStream -----------------------------
(***************************************************************************)
(* The AWS eventstream framing of src/eventstream.go, and a decoder that   *)
(* reads it by the format the file's header comment gives.                 *)
(*                                                                         *)
(* A byte is a pair: a number below ByteLimit, a character of a name or a  *)
(* payload, or one of the four bytes of the checksum of a sequence (two    *)
(* sequences that differ have different checksums).                        *)
(***************************************************************************)
EXTENDS Integers, Sequences, SequencesExt

CONSTANT ByteLimit    \* 256 in the code

ASSUME ByteAssumption == ByteLimit \in Nat \ 0..7

Chars(text) == [i \in 1..Len(text) |-> <<"char", text[i]>>]

\* binary.BigEndian: the low digits of n, the highest first.
PutUint(n, width) ==
  [i \in 1..width |-> <<"number", (n \div ByteLimit^(width - i)) % ByteLimit>>]

ChecksumIEEE(bytes) == [i \in 1..4 |-> <<"crc", <<i, bytes>>>>]

encodeHeader(h) ==
  PutUint(Len(h.name), 1) \o Chars(h.name)
  \o PutUint(7, 1) \o PutUint(Len(h.value), 2) \o Chars(h.value)

encodeEventStreamMessage(headers, payload) ==
  LET hbuf == FoldLeft(LAMBDA buf, h : buf \o encodeHeader(h), << >>, headers)
      lengths == PutUint(12 + Len(hbuf) + Len(payload) + 4, 4) \o PutUint(Len(hbuf), 4)
      body == lengths \o ChecksumIEEE(lengths) \o hbuf \o Chars(payload)
  IN body \o ChecksumIEEE(body)

Header(name, value) == [name |-> name, value |-> value]

\* Names of two characters stand for :event-type and the like.
Headers(type, name, message) ==
  << Header(type, name), Header(<<":", "c">>, <<"application/json">>),
     Header(<<":", "m">>, <<message>>) >>

EventMessage(name, payload) ==
  encodeEventStreamMessage(Headers(<<":", "e">>, name, "event"), payload)

\* A message whose last byte is flipped.
CorruptMessage ==
  LET frame == EventMessage(<<"contentBlockDelta">>, <<"{", "text:", "?", "}">>)
  IN [frame EXCEPT ![Len(frame)] = <<"flipped", @>>]
-----------------------------------------------------------------------------
(* The decoder of a client.                                                *)

Bad == [ok |-> FALSE, payload |-> << >>]

\* The number in bytes from..from+width-1; -1 if they are not a number.
Uint(bytes, from, width) ==
  IF from + width - 1 > Len(bytes)
       \/ \E i \in from..(from + width - 1) : bytes[i][1] # "number"
  THEN -1
  ELSE LET value[k \in 0..width] ==
             IF k = 0 THEN 0 ELSE value[k - 1] * ByteLimit + bytes[from + k - 1][2]
       IN value[width]

\* hbuf is a sequence of complete headers.
WellFormed(hbuf) ==
  LET from[i \in 1..(Len(hbuf) + 1)] ==
        \/ i = Len(hbuf) + 1
        \/ \E n \in {Uint(hbuf, i, 1)} \ {-1} :
             \E v \in {Uint(hbuf, i + n + 2, 2)} \ {-1} :
               /\ i + n + 3 + v <= Len(hbuf)
               /\ \A j \in (i + 1)..(i + n) : hbuf[j][1] = "char"
               /\ Uint(hbuf, i + n + 1, 1) = 7
               /\ \A j \in (i + n + 4)..(i + n + 3 + v) : hbuf[j][1] = "char"
               /\ from[i + n + 4 + v]
  IN from[1]

Parsed(message) ==
  LET size == Len(message)
      hlen == Uint(message, 5, 4)
      body == SubSeq(message, 1, size - 4)
      sound ==
        /\ hlen >= 0 /\ 12 + hlen + 4 <= size
        /\ SubSeq(message, 9, 12) = ChecksumIEEE(SubSeq(message, 1, 8))
        /\ \A i \in 1..4 : message[size - 4 + i][1] = "crc"
        /\ SubSeq(message, size - 3, size) = ChecksumIEEE(body)
        /\ WellFormed(SubSeq(message, 13, 12 + hlen))
  IN IF sound
     THEN [ok |-> TRUE,
           payload |-> [i \in 1..(size - 16 - hlen) |-> message[12 + hlen + i][2]]]
     ELSE Bad

\* The messages of a body, each as long as it says.
Messages(bytes) ==
  LET from[i \in 1..(Len(bytes) + 1)] ==
        LET total == Uint(bytes, i, 4)
        IN IF i = Len(bytes) + 1 THEN << >>
           ELSE IF total < 16 \/ i + total - 1 > Len(bytes) THEN <<Bad>>
           ELSE <<Parsed(SubSeq(bytes, i, i + total - 1))>> \o from[i + total]
  IN from[1]
=============================================================================
