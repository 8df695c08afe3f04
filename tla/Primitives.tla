------------------------------ MODULE Primitives ------------------------------
(***************************************************************************)
(* The numbers of a ROOT tree on their way to a reader: the primitive      *)
(* walkers of root2avro/src/datawalker.cpp, which write them to a buffer   *)
(* or print them, and the factories of scaroot-reader's factory.scala,     *)
(* which read them back from the bytes with the signed types of Java.      *)
(*                                                                         *)
(* A number of b bytes is a value below 2^(8b) in the buffer.  Half[b]     *)
(* stands for 2^(8b-1), so that small widths can be checked and the proofs *)
(* are about all.  Floating-point numbers are opaque: they are named by    *)
(* their bits.                                                             *)
(***************************************************************************)
EXTENDS Integers

CONSTANTS
  Half,       \* half of the values of 1, 2, 4 and 8 bytes (128 for one byte)
  Mantissa,   \* the integers below it are exact as a double (2^53)
  SixDigits   \* the numbers below it are exact in a C++ stream's default precision

Sizes == {1, 2, 4, 8}
All(b) == 2 * Half[b]

ASSUME WidthsAssumption == Half \in [Sizes -> Nat \ {0}]
ASSUME PrecisionAssumption == Mantissa \in Nat /\ SixDigits \in Nat

(***************************************************************************)
(* The walkers.  A walker of one C++ type has a name in the repr, sizeOf() *)
(* bytes in memory and in the buffer, a SchemaInstruction, an Avro type,   *)
(* and one of four readings of its bytes.  copies names the overloads of   *)
(* copyToBuffer that store the value: the one that is given an address and *)
(* the one that is given an element of a TTreeReaderArray.                 *)
(***************************************************************************)
PrimitiveWalker(type, size, reading, schema, avro) ==
  [kind |-> "number", type |-> type, size |-> size, reading |-> reading,
   schema |-> schema, avro |-> avro, copies |-> {"address", "element"}]

BoolWalker   == PrimitiveWalker("bool", 1, "truth", "SchemaBool", "boolean")
CharWalker   == PrimitiveWalker("char", 1, "signed", "SchemaChar", "int")
UCharWalker  == PrimitiveWalker("unsigned char", 1, "unsigned", "SchemaUChar", "int")
ShortWalker  == PrimitiveWalker("short", 2, "signed", "SchemaShort", "int")
UShortWalker == PrimitiveWalker("unsigned short", 2, "unsigned", "SchemaUShort", "int")
IntWalker    == PrimitiveWalker("int", 4, "signed", "SchemaInt", "int")
\* UIntWalker::copyToBuffer(ptr, limit, address) moves on without storing anything.
UIntWalker   ==
  [kind |-> "number", type |-> "unsigned int", size |-> 4, reading |-> "unsigned",
   schema |-> "SchemaUInt", avro |-> "long", copies |-> {"element"}]
LongWalker   == PrimitiveWalker("Long64_t", 8, "signed", "SchemaLong", "long")
ULongWalker  == PrimitiveWalker("ULong64_t", 8, "unsigned", "SchemaULong", "double")
FloatWalker  == PrimitiveWalker("float", 4, "bits", "SchemaFloat", "float")
DoubleWalker == PrimitiveWalker("double", 8, "bits", "SchemaDouble", "double")

Numbers == {BoolWalker, CharWalker, UCharWalker, ShortWalker, UShortWalker, IntWalker,
            UIntWalker, LongWalker, ULongWalker, FloatWalker, DoubleWalker}

\* The values a variable of the walker's C++ type can hold.
Values(w) ==
  IF w.reading = "truth" THEN {0, 1}
  ELSE IF w.reading = "signed" THEN -Half[w.size] .. Half[w.size] - 1
  ELSE 0 .. All(w.size) - 1

\* Two's complement: what a store of n leaves in b bytes.
Stored(b, n) == IF n < 0 THEN n + All(b) ELSE n

\* copyToBuffer: old is what the buffer holds at the place already.
Copied(w, overload, n, old) == IF overload \in w.copies THEN Stored(w.size, n) ELSE old

\* A number with too many digits loses the last one.
Rounded(n, limit) == IF n < limit THEN n ELSE n - (n % 2)

PrintedJSON(w, n) == IF w.reading = "bits" THEN Rounded(n, SixDigits) ELSE n
PrintedAvro(w, n) ==
  IF w.avro = "double" /\ w.reading = "unsigned" THEN Rounded(n, Mantissa) ELSE n

(***************************************************************************)
(* The factories.  get, getShort, getInt and getLong of a ByteBuffer read  *)
(* signed numbers.                                                         *)
(***************************************************************************)
Get(b, bits) == IF bits < Half[b] THEN bits ELSE bits - All(b)

FactoryBool(bits)   == IF Get(1, bits) # 0 THEN 1 ELSE 0
FactoryByte(bits)   == Get(1, bits)
\* Mutant: the byte is left signed.
FactoryUByteSigned(bits) == Get(1, bits)
FactoryUByte(bits)  == LET out == Get(1, bits) IN IF out < 0 THEN 2 * Half[1] + out ELSE out
FactoryShort(bits)  == Get(2, bits)
FactoryUShort(bits) == LET out == Get(2, bits) IN IF out < 0 THEN 2 * Half[2] + out ELSE out
FactoryInt(bits)    == Get(4, bits)
FactoryUInt(bits)   == LET out == Get(4, bits) IN IF out < 0 THEN 2 * Half[4] + out ELSE out
FactoryLong(bits)   == Get(8, bits)
\* out.toDouble may round, and so may the sum, which is one of doubles; 2 * Half[8] is exact.
FactoryULong(bits)  ==
  LET out == Get(8, bits)
      d   == IF out < 0 THEN -Rounded(-out, Mantissa) ELSE Rounded(out, Mantissa)
  IN  Rounded(IF out < 0 THEN 2 * Half[8] + d ELSE d, Mantissa)
FactoryFloat(bits)  == bits
FactoryDouble(bits) == bits

\* new String(out, "US-ASCII") puts U+FFFD in place of each byte that is not ASCII.
Replacement == 65533
AsciiDecoded(chars) ==
  [i \in DOMAIN chars |-> IF chars[i] < Half[1] THEN chars[i] ELSE Replacement]

\* How many bytes the factory of a schema takes, and what it makes of them.
Taken(schema) ==
  IF schema \in {"SchemaBool", "SchemaChar", "SchemaUChar"} THEN 1
  ELSE IF schema \in {"SchemaShort", "SchemaUShort"} THEN 2
  ELSE IF schema \in {"SchemaInt", "SchemaUInt", "SchemaFloat"} THEN 4
  ELSE 8

Made(bits) ==
  [SchemaBool   |-> FactoryBool(bits),
   SchemaChar   |-> FactoryByte(bits),
   SchemaUChar  |-> FactoryUByte(bits),
   SchemaShort  |-> FactoryShort(bits),
   SchemaUShort |-> FactoryUShort(bits),
   SchemaInt    |-> FactoryInt(bits),
   SchemaUInt   |-> FactoryUInt(bits),
   SchemaLong   |-> FactoryLong(bits),
   SchemaULong  |-> FactoryULong(bits),
   SchemaFloat  |-> FactoryFloat(bits),
   SchemaDouble |-> FactoryDouble(bits)]
=============================================================================
