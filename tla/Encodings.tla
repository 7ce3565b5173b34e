----------------------------- MODULE Encodings -----------------------------
(***************************************************************************)
(* Encodings that two programs must agree on: the lines of the control     *)
(* protocol, and the lengths in a version 4 Git index.  Texts are          *)
(* sequences of bytes.                                                     *)
(***************************************************************************)
EXTENDS Integers, Sequences, SequencesExt

CONSTANT WordMax   \* the largest value of the integer the length is read into

ASSUME WordAssumption == WordMax \in Nat /\ WordMax > 127

Percent == 37
FieldEnd == 9
LineEnd == 10
LineReturn == 13
-----------------------------------------------------------------------------
(***************************************************************************)
(* The control protocol: fields separated by tabs, ended by a newline.     *)
(***************************************************************************)
HexDigit(n) == IF n < 10 THEN 48 + n ELSE 55 + n
hex_value(c) ==
    CASE c \in 48 .. 57 -> c - 48
      [] c \in 65 .. 70 -> c - 55
      [] c \in 97 .. 102 -> c - 87
      [] OTHER -> -1

MutKeepsPercent(c) == c < 32
Escapes(c) == c = Percent \/ c < 32
append_escaped(out, field) ==
    FoldLeft(LAMBDA text, c : text \o IF Escapes(c) THEN <<Percent, HexDigit(c \div 16), HexDigit(c % 16)>>
                                      ELSE <<c>>,
             out, field)

encode_message(fields) ==
    LET text[i \in 0 .. Len(fields)] ==
            IF i = 0 THEN <<>>
            ELSE append_escaped(IF i = 1 THEN text[0] ELSE Append(text[i - 1], FieldEnd), fields[i])
    IN Append(text[Len(fields)], LineEnd)

(* A percent sign that two hexadecimal digits do not follow stands for       *)
(* itself.                                                                   *)
decode_message(line) ==
    LET Put(fields, c) == [fields EXCEPT ![Len(fields)] = Append(@, c)]
        Byte(i) == IF line[i] = Percent /\ i + 2 <= Len(line)
                     THEN hex_value(line[i + 1]) >= 0 /\ hex_value(line[i + 2]) >= 0 ELSE FALSE
        before[i \in 1 .. Len(line) + 1] ==   \* the index of the first byte not yet decoded: fields
            IF i = 1 THEN [next |-> 1, fields |-> <<<<>>>>]
            ELSE LET done == before[i - 1] IN
                 IF done.next # i - 1 \/ line[i - 1] \in {LineEnd, LineReturn} THEN done
                 ELSE IF line[i - 1] = FieldEnd THEN [next |-> i, fields |-> Append(done.fields, <<>>)]
                 ELSE IF Byte(i - 1)
                   THEN [next |-> i + 2,
                         fields |-> Put(done.fields, (16 * hex_value(line[i])) + hex_value(line[i + 1]))]
                 ELSE [next |-> i, fields |-> Put(done.fields, line[i - 1])]
    IN before[Len(line) + 1].fields
-----------------------------------------------------------------------------
(***************************************************************************)
(* Git's offset varint: the number of bytes to drop from the last path.    *)
(***************************************************************************)
MutDropsOffset(value, byte) == (value * 128) + (byte % 128)
Shifted(value, byte) == ((value + 1) * 128) + (byte % 128)

(* The value and the index after it, or -1 for a truncated or too large one. *)
read_path_strip_length(bytes) ==
    LET failed == [value |-> -1, next |-> 0]
        read[i \in 1 .. Len(bytes)] ==   \* after the i-th byte
            IF i = 1 THEN [value |-> bytes[1] % 128, next |-> 2]
            ELSE LET done == read[i - 1] IN
                 IF done.next # i \/ bytes[i - 1] < 128 THEN done
                 ELSE IF done.value >= WordMax \div 128 THEN failed
                 ELSE [value |-> Shifted(done.value, bytes[i]), next |-> i + 1]
        Unended == read[Len(bytes)].next = Len(bytes) + 1 /\ Last(bytes) >= 128
    IN IF bytes = <<>> THEN failed ELSE IF Unended THEN failed ELSE read[Len(bytes)]

(* The reference: Git writes a value as the last seven bits, then what is    *)
(* above them, less one, as long as there is any.                            *)
WriteLength(value) ==
    LET bytes[n \in 0 .. value] ==
            IF n < 128 THEN <<(n % 128) + 128>> ELSE Append(bytes[(n \div 128) - 1], (n % 128) + 128)
        all == bytes[value]
    IN [all EXCEPT ![Len(all)] = @ - 128]
=============================================================================
