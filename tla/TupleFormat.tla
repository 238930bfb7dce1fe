----------------------------- MODULE TupleFormat -----------------------------
(***************************************************************************)
(* The layout of a tuple in pages and in the logs (TupleSerializer,        *)
(* HeapTupleSerializer): a header, a bitmap if some attribute is NULL, and *)
(* the attributes that are not NULL, one after the other.                  *)
(*                                                                         *)
(* A byte has BitsPerByte bits.  The fields of headers and the length of a *)
(* variable attribute take one cell each: nothing depends on their width.  *)
(* A value is <<>> when it is NULL and <<v>> otherwise.                    *)
(***************************************************************************)
EXTENDS Integers, Sequences, SequencesExt

CONSTANTS
  BitsPerByte,
  Desc    \* the attributes: [byVal |-> BOOLEAN, length |-> bytes, -1 if variable]

ASSUME TupleFormatAssumption ==
  /\ BitsPerByte \in Nat \ {0} /\ Len(Desc) > 0
  /\ \A i \in DOMAIN Desc : /\ Desc[i].byVal \in BOOLEAN /\ Desc[i].length \in Nat \cup {-1}
                             /\ Desc[i].byVal => Desc[i].length > 0

Radix == 2^BitsPerByte
IsNull(value) == value = <<>>
HasNull(row) == \E i \in DOMAIN row : IsNull(row[i])

\* What Serialize asserts of a row: the value of a variable attribute is not empty.
Serializable(row) ==
  \A i \in DOMAIN row : IsNull(row[i]) \/ Desc[i].byVal \/ row[i][1] # <<>>

BitmapSize(n) == (n + BitsPerByte - 1) \div BitsPerByte

\* Bit (idx mod BitsPerByte) of byte (idx div BitsPerByte), from the lowest, is
\* set when attribute idx + 1 is not NULL.
Bitmap(row) ==
  LET Bit(idx) == IF idx < Len(row) /\ ~IsNull(row[idx + 1]) THEN 2^(idx % BitsPerByte) ELSE 0
  IN  [b \in 1..BitmapSize(Len(row)) |->
         FoldLeft(LAMBDA byte, i : byte + Bit((b - 1) * BitsPerByte + i - 1), 0,
                  [i \in 1..BitsPerByte |-> i])]

BitOf(bitmap, idx) == (bitmap[(idx \div BitsPerByte) + 1] \div 2^(idx % BitsPerByte)) % 2

\* A scalar is cast to the attribute's width and stored with its lowest byte first.
AttrBytes(attr, v) ==
  IF attr.byVal THEN [i \in 1..attr.length |-> ((v % Radix^attr.length) \div Radix^(i - 1)) % Radix]
  ELSE IF attr.length > 0 THEN SubSeq(v, 1, attr.length)
  ELSE <<Len(v)>> \o v

SerializeTuple(row) ==
  (IF HasNull(row) THEN Bitmap(row) ELSE <<>>)
  \o FlattenSeq([i \in DOMAIN row |-> IF IsNull(row[i]) THEN <<>> ELSE AttrBytes(Desc[i], row[i][1])])

\* The value of an attribute whose bytes begin at bytes[at], and where they end.
extract_attr_datum(attr, bytes, at) ==
  IF attr.byVal
    THEN LET u == FoldRight(LAMBDA byte, high : byte + Radix * high, SubSeq(bytes, at, at + attr.length - 1), 0)
             wrap == Radix^attr.length
         IN  [value |-> IF 2 * u < wrap THEN u ELSE u - wrap, next |-> at + attr.length]
  ELSE IF attr.length > 0
    THEN [value |-> SubSeq(bytes, at, at + attr.length - 1), next |-> at + attr.length]
  ELSE [value |-> SubSeq(bytes, at + 1, at + bytes[at]), next |-> at + 1 + bytes[at]]

DeserializeTuple(bytes, hasnulls) ==
  LET Read(got, i) ==
        IF hasnulls /\ BitOf(bytes, i - 1) = 0
          THEN [got EXCEPT !.row = Append(@, <<>>)]
          ELSE LET d == extract_attr_datum(Desc[i], bytes, got.at)
               IN  [row |-> Append(got.row, <<d.value>>), at |-> d.next]
      start == IF hasnulls THEN BitmapSize(Len(Desc)) ELSE 0
  IN  FoldLeft(Read, [row |-> <<>>, at |-> start + 1], [i \in DOMAIN Desc |-> i]).row

HasNulls == 2

\* The transaction that made the tuple, its undo record, the flags, the tuple.
SerializeHeap(xid, undo, row) ==
  <<xid, undo, IF HasNull(row) THEN HasNulls ELSE 0>> \o SerializeTuple(row)

DeserializeHeap(bytes) ==
  [xid |-> bytes[1], undo |-> bytes[2],
   row |-> DeserializeTuple(SubSeq(bytes, 4, Len(bytes)), (bytes[3] \div HasNulls) % 2 = 1)]

-----------------------------------------------------------------------------

\* What a row is after it was stored, without a word about its layout: a scalar is
\* the number of the attribute's width that is congruent to it, the rest as it was.
Stored(row) ==
  [i \in DOMAIN row |->
     IF IsNull(row[i]) \/ ~Desc[i].byVal THEN row[i]
     ELSE LET wrap == Radix^Desc[i].length
          IN  <<CHOOSE n \in -(wrap \div 2)..(wrap \div 2 - 1) : (n - row[i][1]) % wrap = 0>>]
==============================================================================
