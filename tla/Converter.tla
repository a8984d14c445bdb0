------------------------------ MODULE Converter ------------------------------
(***************************************************************************)
(* utf16_to_utf8 and utf8_to_utf16 (Utilities/converter.cpp).  Both run    *)
(* one loop: read a code point at an index, U+FFFD when it is ill formed,  *)
(* and write it in the other encoding if it still fits the buffer.  With   *)
(* no buffer (NULL) the same loop adds up the sizes instead; that pass is  *)
(* run here beside the writing one, in `size'.                             *)
(* Masks and shifts are division and remainder by powers of two; indices   *)
(* start at 1.  The caller converts a text and then, pass 2, converts what *)
(* was written back into a buffer that is large enough.                    *)
(***************************************************************************)
EXTENDS Integers, Sequences, FiniteSets

CONSTANTS
  Texts16, Texts8,   \* the texts to convert, in either encoding
  Buffers,           \* sizes of the caller's buffer in pass 1
  LargeBuffer        \* size of the buffer in pass 2

utf16_t == {u \in Nat : u <= 65535}
utf8_t  == {b \in Nat : b <= 255}

ASSUME ConverterAssumption ==
  /\ Texts16 \subseteq Seq(utf16_t)
  /\ Texts8 \subseteq Seq(utf8_t)
  /\ Buffers \subseteq Nat
  /\ LargeBuffer \in Nat

INVALID_CODEPOINT == 65533      \* U+FFFD
BMP_END     == 65535
UNICODE_MAX == 1114111          \* U+10FFFF

\* What a decoder returns: a code point, and the index of the last unit of it.
Read(codepoint, index) == [codepoint |-> codepoint, index |-> index]

-----------------------------------------------------------------------------
(* UTF-16 *)

IsSurrogate(unit)     == unit \div 2048 = 27    \* 11011 in the upper five bits
IsHighSurrogate(unit) == unit \div 1024 = 54
IsLowSurrogate(unit)  == unit \div 1024 = 55

FromSurrogates(high, low) == (high % 1024) * 1024 + (low % 1024) + 65536

\* Mutant: the unit after an unmatched high surrogate is swallowed.
decode_utf16_Swallows(s, i) ==
  IF ~IsSurrogate(s[i]) THEN Read(s[i], i)
  ELSE IF ~IsHighSurrogate(s[i]) \/ i = Len(s) THEN Read(INVALID_CODEPOINT, i)
  ELSE IF ~IsLowSurrogate(s[i + 1]) THEN Read(INVALID_CODEPOINT, i + 1)
  ELSE Read(FromSurrogates(s[i], s[i + 1]), i + 1)

decode_utf16(s, i) ==
  IF ~IsSurrogate(s[i]) THEN Read(s[i], i)
  ELSE IF ~IsHighSurrogate(s[i]) \/ i = Len(s) \/ ~IsLowSurrogate(s[i + 1])
         THEN Read(INVALID_CODEPOINT, i)
  ELSE Read(FromSurrogates(s[i], s[i + 1]), i + 1)

\* Mutant: the comparison is strict.
calculate_utf16_len_Strict(codepoint) == IF codepoint < BMP_END THEN 1 ELSE 2

calculate_utf16_len(codepoint) == IF codepoint <= BMP_END THEN 1 ELSE 2

\* Mutant: the planes above the first are not counted from 0.
encode_utf16_NoOffset(codepoint) ==
  IF codepoint <= BMP_END THEN <<codepoint>>
  ELSE <<55296 + ((codepoint \div 1024) % 1024), 56320 + (codepoint % 1024)>>

\* The units written.  (That they fit is tested by Fits.)
encode_utf16(codepoint) ==
  IF codepoint <= BMP_END THEN <<codepoint>>
  ELSE <<55296 + (((codepoint - 65536) \div 1024) % 1024),
         56320 + ((codepoint - 65536) % 1024)>>

-----------------------------------------------------------------------------
(* UTF-8 *)

IsContinuation(byte) == byte \div 64 = 2

\* utf8_leading_bytes[n - 1] matches the byte.
Leads(byte, n) ==
  \/ n = 1 /\ byte \div 128 = 0
  \/ n = 2 /\ byte \div 32 = 6
  \/ n = 3 /\ byte \div 16 = 14
  \/ n = 4 /\ byte \div 8 = 30

calculate_utf8_len(codepoint) ==
  IF codepoint <= 127 THEN 1
  ELSE IF codepoint <= 2047 THEN 2
  ELSE IF codepoint <= 65535 THEN 3 ELSE 4

\* The bits of n bytes from i, n - 1 of them continuation bytes.
CodepointAt(s, i, n) ==
  LET Cont(k) == s[i + k] % 64
  IN IF n = 1 THEN s[i] % 128
     ELSE IF n = 2 THEN (s[i] % 32) * 64 + Cont(1)
     ELSE IF n = 3 THEN ((s[i] % 16) * 64 + Cont(1)) * 64 + Cont(2)
     ELSE (((s[i] % 8) * 64 + Cont(1)) * 64 + Cont(2)) * 64 + Cont(3)

\* n bytes from i, the first of which leads n, are all there.
Complete(s, i, n) ==
  i + n - 1 <= Len(s) /\ \A j \in 1..n - 1 : IsContinuation(s[i + j])

\* Not overlong, no surrogate, not beyond Unicode.
Proper(codepoint, n) ==
  /\ calculate_utf8_len(codepoint) = n
  /\ ~IsSurrogate(codepoint)
  /\ codepoint <= UNICODE_MAX

\* Of the n bytes the first one announces, how many are there.
Found(s, i, n) == CHOOSE k \in 1..n : Complete(s, i, k) /\ (k < n => ~Complete(s, i, k + 1))

\* Before an error the index has advanced over the continuation bytes found.
decode_utf8(s, i) ==
  IF \A n \in 1..4 : ~Leads(s[i], n) THEN Read(INVALID_CODEPOINT, i)
  ELSE LET n == CHOOSE k \in 1..4 : Leads(s[i], k)
           found == Found(s, i, n)
       IN IF found = n /\ Proper(CodepointAt(s, i, n), n)
            THEN Read(CodepointAt(s, i, n), i + n - 1)
            ELSE Read(INVALID_CODEPOINT, i + found - 1)

Continuation(bits) == 128 + (bits % 64)

\* The bytes written.  (That they fit is tested by Fits.)
encode_utf8(codepoint) ==
  LET n == calculate_utf8_len(codepoint)
  IN IF n = 1 THEN <<codepoint % 128>>
     ELSE IF n = 2 THEN <<192 + ((codepoint \div 64) % 32), Continuation(codepoint)>>
     ELSE IF n = 3 THEN <<224 + ((codepoint \div 4096) % 16), Continuation(codepoint \div 64),
                          Continuation(codepoint)>>
     ELSE <<240 + ((codepoint \div 262144) % 8), Continuation(codepoint \div 4096),
            Continuation(codepoint \div 64), Continuation(codepoint)>>

-----------------------------------------------------------------------------
(* The loop *)

VARIABLES
  from,           \* the encoding of the text being read
  text, at,       \* that text, and where it is read next
  len,            \* the size of the buffer it is converted into
  output,         \* what is in the buffer
  size,           \* what a pass without a buffer has added up
  pass,           \* 1, or 2 when what was written is being converted back
  codepoints,     \* the code points read in this pass
  given           \* in pass 2, those of pass 1

converterVars == <<from, text, at, len, output, size, pass, codepoints, given>>

ConverterInit ==
  /\ \/ from = "utf16" /\ text \in Texts16
     \/ from = "utf8" /\ text \in Texts8
  /\ len \in Buffers
  /\ at = 1 /\ output = <<>> /\ size = 0
  /\ pass = 1 /\ codepoints = <<>> /\ given = <<>>

Decoded == IF from = "utf16" THEN decode_utf16(text, at) ELSE decode_utf8(text, at)
Encoded(codepoint) == IF from = "utf16" THEN encode_utf8(codepoint) ELSE encode_utf16(codepoint)
Length(codepoint) ==
  IF from = "utf16" THEN calculate_utf8_len(codepoint) ELSE calculate_utf16_len(codepoint)

\* Mutant: the last unit of the buffer is not counted.
Fits_PastTheEnd(codepoint) == Len(output) + Length(codepoint) <= len + 1

Fits(codepoint) == Len(output) + Length(codepoint) <= len

\* One round of the loop of utf16_to_utf8 or utf8_to_utf16, with and without a
\* buffer.  A code point that does not fit is dropped; the loop goes on.
Convert ==
  /\ at <= Len(text)
  /\ at' = Decoded.index + 1
  /\ codepoints' = Append(codepoints, Decoded.codepoint)
  /\ output' = IF Fits(Decoded.codepoint) THEN output \o Encoded(Decoded.codepoint) ELSE output
  /\ size' = size + Length(Decoded.codepoint)
  /\ UNCHANGED <<from, text, len, pass, given>>

Converted == at > Len(text)

ConvertBack ==
  /\ Converted /\ pass = 1
  /\ pass' = 2
  /\ from' = IF from = "utf16" THEN "utf8" ELSE "utf16"
  /\ text' = output
  /\ len' = LargeBuffer
  /\ given' = codepoints
  /\ at' = 1 /\ output' = <<>> /\ size' = 0 /\ codepoints' = <<>>

ConverterNext == Convert \/ ConvertBack

ConverterSpec == ConverterInit /\ [][ConverterNext]_converterVars

-----------------------------------------------------------------------------
(* Reference definitions: what Unicode calls well formed.                    *)

Within(first, last) == first..last

Tail8 == Within(128, 191)       \* a continuation byte

\* The ranges of the bytes of a code point (Unicode, table 3-7).
Rows8 ==
  {<<Within(0, 127)>>,
   <<Within(194, 223), Tail8>>,
   <<{224}, Within(160, 191), Tail8>>,
   <<Within(225, 236) \cup {238, 239}, Tail8, Tail8>>,
   <<{237}, Within(128, 159), Tail8>>,
   <<{240}, Within(144, 191), Tail8, Tail8>>,
   <<Within(241, 243), Tail8, Tail8, Tail8>>,
   <<{244}, Within(128, 143), Tail8, Tail8>>}
Rows16 ==
  {<<Within(0, 55295) \cup Within(57344, 65535)>>,
   <<Within(55296, 56319), Within(56320, 57343)>>}

RowsOf(encoding) == IF encoding = "utf16" THEN Rows16 ELSE Rows8

\* U+FFFD itself.
ReplacementRow(encoding) == IF encoding = "utf16" THEN <<{65533}>> ELSE <<{239}, {191}, {189}>>

\* The units of s from i on are those of the row.
Stands(row, s, i) == i + Len(row) - 1 <= Len(s) /\ \A j \in 1..Len(row) : s[i + j - 1] \in row[j]

\* The first n units of s are rows side by side: each is in one.  (What begins a
\* row is nowhere else in one and tells its length, so rows never overlap.)
Covered(rows, s, n) ==
  \A k \in 1..n : \E row \in rows, i \in 1..k :
    /\ k < i + Len(row) /\ i + Len(row) - 1 <= n
    /\ Stands(row, s, i)

WellFormed(encoding, s) == Covered(RowsOf(encoding), s, Len(s))

HasReplacement(encoding, s) == \E i \in 1..Len(s) : Stands(ReplacementRow(encoding), s, i)

\* The places of the ASCII characters among the first n of s.
Ascii(s, n) == {k \in 1..n : s[k] <= 127}

\* t has the ASCII characters of s, in the same order: as many of them, and each
\* is what the one with as many before it is in s.
SameAscii(s, t) ==
  /\ Cardinality(Ascii(s, Len(s))) = Cardinality(Ascii(t, Len(t)))
  /\ \A k \in Ascii(t, Len(t)) : \E i \in Ascii(s, Len(s)) :
        t[k] = s[i] /\ Cardinality(Ascii(t, k)) = Cardinality(Ascii(s, i))

Other(encoding) == IF encoding = "utf16" THEN "utf8" ELSE "utf16"

-----------------------------------------------------------------------------
(* Properties *)

\* Whatever was read and however small the buffer is, the buffer holds well
\* formed text and no more of it than it has room for: a code point is written
\* whole or not at all.
WritesWellFormedText == Len(output) <= len /\ WellFormed(Other(from), output)

\* What converter.h promises of a call without a buffer: a buffer of the size
\* it returns receives the whole text, and none needs more.
SizeIsEnough == Converted => IF size <= len THEN Len(output) = size ELSE Len(output) < size

\* A text is read without a replacement character exactly when it is well formed
\* and holds none itself, although the decoders look ahead and resume in the
\* middle of what they reject; and no ASCII character next to a broken sequence
\* is lost with it.
ReplacesIllFormed ==
  Converted /\ pass = 1 =>
    /\ WellFormed(from, text) /\ ~HasReplacement(from, text)
         <=> \A k \in 1..Len(codepoints) : codepoints[k] # INVALID_CODEPOINT
    /\ SameAscii(text, codepoints)

\* Converted into the other encoding and back, a text reads as it did at first,
\* unless the buffer was too small for it.
RoundTrip ==
  Converted /\ pass = 2 =>
    \/ codepoints = given
    \/ Len(codepoints) < Len(given)
=============================================================================
