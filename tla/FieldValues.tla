----------------------------- MODULE FieldValues ------------------------------
(***************************************************************************)
(* The value of a field of a key or of data: how wide the schema makes the *)
(* field, which values the helpers of tdi_utils.hpp let a driver accept,   *)
(* and how it keeps them as bytes in network order.  A value comes as a    *)
(* 64-bit number or as an array of bytes, and is read back as either.      *)
(*                                                                         *)
(* What a driver's setValue does is external: it calls the helpers one     *)
(* after the other, and stores the value if none of them objects.          *)
(*                                                                         *)
(* Numbers have the code's structure with smaller parameters: a byte has   *)
(* ByteBits bits, and a word, the 64-bit number, WordBytes bytes.          *)
(***************************************************************************)
EXTENDS Naturals, Sequences

CONSTANTS
  ByteBits,         \* 8
  WordBytes,        \* 8
  MaxWidth,         \* bound: the widest field of bytes, in bits
  MatchType,        \* match types of key fields
  NoMatch,          \* that of a data field
  Null

ASSUME SizeAssumption ==
  /\ ByteBits \in Nat \ {0} /\ WordBytes \in Nat \ {0} /\ MaxWidth \in Nat
  /\ NoMatch \notin MatchType /\ Null \notin Nat \union Seq(Nat)

\* The powers of 2, which the code makes by shifting.
pow2[n \in Nat] == IF n = 0 THEN 1 ELSE 2 * pow2[n - 1]

Base == pow2[ByteBits]
Byte == 0..(Base - 1)
WordBits == ByteBits * WordBytes
Word == 0..(pow2[WordBits] - 1)

\* The bytes of a field.
Bytes(width) == (width + ByteBits - 1) \div ByteBits

\* Arrays of bytes, among them too long and too short ones.
Array == UNION {[1..n -> Byte] : n \in 0..Bytes(MaxWidth)}

VARIABLES
  field,            \* the field: its type, its width in bits, its match type
  stream,           \* bytes the driver keeps for it, or Null
  sts,              \* what the last set has answered
  out,              \* what has been read since, as a number, or Null
  accepted,         \* history: the number last accepted, or Null
  fitted            \* history: the last value was one the field can have

valueVars == <<field, stream, sts, out, accepted, fitted>>

-----------------------------------------------------------------------------

(***************************************************************************)
(* The field, from the schema.                                             *)
(***************************************************************************)

\* Integers come in widths of whole bytes, signed and unsigned ones.
SchemaType == {"bytes", "uint", "int", "bool", "float", "string", "container"}

DataTypeOf(type, repeated) ==
  CASE type = "bytes" -> "BYTE_STREAM"
    [] type \in {"uint", "int"} /\ repeated -> "INT_ARR"
    [] type = "uint" /\ ~repeated -> "UINT64"
    [] type = "int" /\ ~repeated -> "INT64"
    [] type = "bool" -> IF repeated THEN "BOOL_ARR" ELSE "BOOL"
    [] type = "float" -> "FLOAT"
    [] type = "string" -> IF repeated THEN "STRING_ARR" ELSE "STRING"
    [] type = "container" -> "CONTAINER"

DataType == {DataTypeOf(type, repeated) : type \in SchemaType, repeated \in BOOLEAN}

\* n is the width the type lists, for integers in its name.
FieldWidth(type, n) ==
  CASE type \in {"bytes", "string"} -> n
    [] type \in {"uint", "int"} -> n * ByteBits
    [] type = "bool" -> 1
    [] type \in {"float", "container"} -> 0

IsPtr == field.width > WordBits

ValuesInit ==
  /\ \E type \in SchemaType, repeated \in BOOLEAN, match \in MatchType \union {NoMatch},
        n \in 0..MaxWidth :
       /\ type \in {"uint", "int"} => n \in 1..WordBytes
       /\ field = [type |-> DataTypeOf(type, repeated), width |-> FieldWidth(type, n),
                   match |-> match]
  /\ stream = Null
  /\ sts = "none"
  /\ out = Null
  /\ accepted = Null
  /\ fitted = FALSE

-----------------------------------------------------------------------------

(***************************************************************************)
(* Byte order.                                                             *)
(***************************************************************************)

\* The number that bytes in network order stand for.
Number(bytes) ==
  LET upTo[i \in 0..Len(bytes)] == IF i = 0 THEN 0 ELSE upTo[i - 1] * Base + bytes[i]
  IN  upTo[Len(bytes)]

\* The bytes of a word in network order.
WordOf(n) == [i \in 1..WordBytes |-> (n \div pow2[ByteBits * (WordBytes - i)]) % Base]

\* Mutation: the bytes are copied to the start of the word.
ToHostOrder_AtStart(bytes) ==
  Number([i \in 1..WordBytes |-> IF i <= Len(bytes) THEN bytes[i] ELSE 0])

\* The bytes are copied to the end of a word that was 0.
ToHostOrder(bytes) ==
  LET skipped == WordBytes - Len(bytes)
  IN  Number([i \in 1..WordBytes |-> IF i <= skipped THEN 0 ELSE bytes[i - skipped]])

\* Mutation: the whole word is copied.
ToNetworkOrder_Whole(size, n) == WordOf(n)

\* The end of the word is copied.
ToNetworkOrder(size, n) == [i \in 1..size |-> WordOf(n)[WordBytes - size + i]]

-----------------------------------------------------------------------------

(***************************************************************************)
(* The checks.  A value is a record of what the application passes: the    *)
(* match type, and a word or an array of bytes.                            *)
(***************************************************************************)

WordValue(match, n) ==
  [match |-> match, isPointer |-> FALSE, size |-> WordBytes, word |-> n, bytes |-> <<>>]

BytesValue(match, a) ==
  [match |-> match, isPointer |-> TRUE, size |-> Len(a), word |-> 0, bytes |-> a]

\* Data fields are not looked up this way.
KeyFieldSafeGet(v) ==
  IF field.match = NoMatch THEN "SUCCESS"
  ELSE IF field.match # v.match THEN "INVALID_ARG"
  ELSE IF IsPtr /\ v.size <= WordBytes THEN "NOT_SUPPORTED"
  ELSE "SUCCESS"

FieldTypeCompatible(isPointer, size) ==
  IF isPointer THEN size = Bytes(field.width) ELSE field.width <= WordBits

\* Mutation: the bits of the first byte that the field lacks are not looked at.
InBounds_WholeBytes(v) ==
  IF v.isPointer THEN v.size = Bytes(field.width)
  ELSE field.width < WordBits => v.word <= pow2[field.width] - 1

\* A word is compared with the largest number, of an array the first byte is
\* shifted by the bits the field has of it.
InBounds(v) ==
  IF v.isPointer
    THEN /\ v.size = Bytes(field.width)
         /\ LET shift == field.width % ByteBits
            IN  shift # 0 => v.bytes[1] \div pow2[shift] = 0
    ELSE field.width < WordBits => v.word <= pow2[field.width] - 1

\* What the checks say, in their order.
Verdict(v) ==
  IF KeyFieldSafeGet(v) # "SUCCESS" THEN KeyFieldSafeGet(v)
  ELSE IF FieldTypeCompatible(v.isPointer, v.size) /\ InBounds(v) THEN "SUCCESS"
  ELSE "INVALID_ARG"

-----------------------------------------------------------------------------

\* Fields of the other types have setters and getters of their own.
HasNumber == field.type \in {"BYTE_STREAM", "UINT64"}

\* The number of a value, and whether the field can have it, in this form.
NumberOf(v) == IF v.isPointer THEN Number(v.bytes) ELSE v.word

Fits(v) ==
  /\ field.match \in {NoMatch, v.match}
  /\ IF v.isPointer THEN v.size = Bytes(field.width) ELSE field.width <= WordBits
  /\ NumberOf(v) < pow2[field.width]

SetFieldValue(v) ==
  /\ HasNumber
  /\ sts' = Verdict(v)
  /\ fitted' = Fits(v)
  /\ out' = Null
  /\ IF sts' = "SUCCESS"
       THEN /\ stream' = IF v.isPointer THEN v.bytes
                         ELSE ToNetworkOrder(Bytes(field.width), v.word)
            /\ accepted' = NumberOf(v)
       ELSE UNCHANGED <<stream, accepted>>
  /\ UNCHANGED field

\* Read as a word: not from a wide field.
GetWord ==
  /\ stream # Null
  /\ FieldTypeCompatible(FALSE, WordBytes)
  /\ out' = ToHostOrder(stream)
  /\ UNCHANGED <<field, stream, sts, accepted, fitted>>

\* Read as bytes, into an array of the field's size.
GetBytes ==
  /\ stream # Null
  /\ FieldTypeCompatible(TRUE, Len(stream))
  /\ out' = Number(stream)
  /\ UNCHANGED <<field, stream, sts, accepted, fitted>>

ValuesNext ==
  \/ \E match \in MatchType :
       \/ \E n \in Word : SetFieldValue(WordValue(match, n))
       \/ \E a \in Array : SetFieldValue(BytesValue(match, a))
  \/ GetWord \/ GetBytes

ValuesSpec == ValuesInit /\ [][ValuesNext]_valueVars

-----------------------------------------------------------------------------

(***************************************************************************)
(* Properties.                                                             *)
(***************************************************************************)

\* The variables have their types; what is kept has the size of the field,
\* whichever way it came.
ValuesTypeOK ==
  /\ field \in [type : DataType, width : Nat, match : MatchType \union {NoMatch}]
  /\ stream # Null => Len(stream) = Bytes(field.width) /\ \A i \in DOMAIN stream : stream[i] \in Byte
  /\ sts \in {"none", "SUCCESS", "INVALID_ARG", "NOT_SUPPORTED"}
  /\ out \in Nat \union {Null} /\ accepted \in Nat \union {Null}
  /\ (accepted = Null) <=> (stream = Null)
  /\ fitted \in BOOLEAN

\* A value is accepted exactly if the field has the bits for it and, of a key,
\* the match type: as a word for a field of up to 64 bits, as bytes for every
\* field, also for widths that are no multiple of a byte (the comment at
\* KeyFieldInfo::isPtrGet).
AcceptedIffFits == sts # "none" => (sts = "SUCCESS" <=> fitted)

\* What is read is what was last accepted, whichever way it was set and
\* whichever way it is read; what was refused since has left no trace.
ReadsBack == out # Null => out = accepted
=============================================================================
