------------------------------ MODULE Compress ------------------------------
(***************************************************************************)
(* The LZW coder and decoder of save files (compress.c), one character and *)
(* one code at a time.  A code below FirstCode is a character; the others  *)
(* are entries of a table that both sides build alike and both restart     *)
(* when it is full, the decoder one code later.  Codes are numbers here:   *)
(* their packing in bytes (output_code, input_code) is left out.           *)
(***************************************************************************)
EXTENDS Integers, Sequences

CONSTANTS
  FirstCode,   (* 256: the number of characters.                           *)
  LzwBits      (* LZWBITS, the width of a code.                            *)

ASSUME CompressAssumption ==
  /\ FirstCode \in Nat \ {0} /\ LzwBits \in Nat
  /\ 2 ^ LzwBits > FirstCode + 2

MaxValue  == 2 ^ LzwBits - 1       (* MAX_VALUE, which ends a section.      *)
MaxCode   == MaxValue - 1          (* MAX_CODE, the last code of the table. *)
Character == 0 .. FirstCode - 1
Code      == 0 .. MaxValue

Entry   == [prefix : Code, append : Character]
Coder   == [string : Code, table : Seq(Entry)]
Decoder == [old : Code, char : Character, next : FirstCode..MaxCode,
            table : [FirstCode..MaxValue -> Entry]]

(***************************************************************************)
(* compress: the table is a sequence, entry k being code FirstCode + k - 1.*)
(***************************************************************************)
NextCode(table) == FirstCode + Len(table)

Matches(table, string, c) ==
  {k \in DOMAIN table : table[k] = [prefix |-> string, append |-> c]}

(* Start a section with its first character. *)
Started(c) == [string |-> c, table |-> <<>>]

(* The string so far and c are in the table: read on. *)
Extends(coder, c) == Matches(coder.table, coder.string, c) # {}

Longer(coder, c) ==
  [coder EXCEPT !.string =
     FirstCode - 1 + CHOOSE k \in Matches(coder.table, coder.string, c) : TRUE]

(* They are not: the code of the string goes out, the longer string gets   *)
(* the next code, and a table that is full is cleared.                     *)
Added(coder, c) ==
  IF NextCode(coder.table) <= MaxCode
  THEN Append(coder.table, [prefix |-> coder.string, append |-> c])
  ELSE coder.table

Restarted(coder, c) ==
  LET table == Added(coder, c) IN
  [string |-> c, table |-> IF NextCode(table) > MaxCode THEN <<>> ELSE table]

(***************************************************************************)
(* expand: the table keeps its old entries when next goes back to          *)
(* FirstCode, so it is a function on codes.                                *)
(***************************************************************************)
NoEntry == [prefix |-> 0, append |-> 0]

(* The first code should be a character; its low bits are taken for one.   *)
FirstRead(c) ==
  [old |-> c, char |-> c % FirstCode, next |-> FirstCode,
   table |-> [k \in FirstCode..MaxValue |-> NoEntry]]

(* decode_string: the characters of a code, followed through its prefixes  *)
(* for at most limit steps; what is left of it after n steps.              *)
Prefixes(table, code, limit) ==
  LET rest[n \in 0..limit] ==
        IF n = 0 THEN code
        ELSE LET c == rest[n - 1] IN IF c < FirstCode THEN c ELSE table[c].prefix
  IN  rest

(* A code from a damaged file may have no first character within the limit.*)
Decodable(table, code, limit) == Prefixes(table, code, limit)[limit] < FirstCode

DecodeString(table, code, limit) ==
  LET rest == Prefixes(table, code, limit)
      steps == CHOOSE n \in 0..limit : /\ rest[n] < FirstCode
                                       /\ \A k \in 0..(n - 1) : rest[k] >= FirstCode
  IN  [k \in 1..(steps + 1) |-> IF k = 1 THEN rest[steps]
                               ELSE table[rest[steps + 1 - k]].append]

(* A code that is not in the table yet is the old string and its first     *)
(* character once more.                                                    *)
Known(decoder, code) == code < decoder.next

Looked(decoder, code) == IF Known(decoder, code) THEN code ELSE decoder.old

Decoded(decoder, code, limit) ==
  LET string == DecodeString(decoder.table, Looked(decoder, code), limit) IN
  IF Known(decoder, code) THEN string ELSE Append(string, decoder.char)

(* Mutant: the new entry ends in the character of the code before. *)
ReadLast(decoder, code, string) ==
  LET table  == IF decoder.next <= MaxCode
                THEN [decoder.table EXCEPT ![decoder.next] =
                        [prefix |-> decoder.old, append |-> decoder.char]]
                ELSE decoder.table
      next   == IF decoder.next <= MaxCode THEN decoder.next + 1 ELSE decoder.next
  IN  [old |-> code, char |-> Head(string), table |-> table,
       next |-> IF next > MaxCode THEN FirstCode ELSE next]

Read(decoder, code, string) ==
  LET table  == IF decoder.next <= MaxCode
                THEN [decoder.table EXCEPT ![decoder.next] =
                        [prefix |-> decoder.old, append |-> Head(string)]]
                ELSE decoder.table
      next   == IF decoder.next <= MaxCode THEN decoder.next + 1 ELSE decoder.next
  IN  [old |-> code, char |-> Head(string), table |-> table,
       next |-> IF next > MaxCode THEN FirstCode ELSE next]
=============================================================================
