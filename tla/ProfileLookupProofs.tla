------------------------- MODULE ProfileLookupProofs -------------------------
(***************************************************************************)
(* Proofs about the way from the bytes of profiles to the answer to a      *)
(* query: the text of key files (KeyFileText), their reader                *)
(* (KeyFileReader), the list of profiles and the matcher (Matcher), for    *)
(* any bytes, section, keys, values and limits.                            *)
(*                                                                         *)
(* Text: what the code computes by walking over the bytes is a recursive   *)
(* function, what it should compute is said without walking. From a place  *)
(* on, the bytes "fall" into characters (Falls), and are decoded by a      *)
(* function (IsDecoder); both are followed from the end to the beginning.  *)
(* A line is cut at the places where the code looks (Starts, EntryCut),    *)
(* and these are the places of a cut by the grammar.                       *)
(*                                                                         *)
(* Reader: it returns values exactly for a file it should take, those that *)
(* the last lines of the section give. It keeps four summaries of the      *)
(* lines it has passed. The invariant says of each what it is a summary    *)
(* of; from that follows what the end of the file, or a line that is       *)
(* refused, means for the whole.                                           *)
(*                                                                         *)
(* Matcher: a word of a query begins at a place with no typed place before *)
(* it, and its number is that of the beginnings up to it, so that tokens   *)
(* and places correspond (WordIs). What is answered is a set of matches    *)
(* (Matches) under an order of which Before is shown to be one; a finite   *)
(* set in a strict order of all of it can be laid out in one way only      *)
(* (InOrderIs), which is why the order of the list does not show.          *)
(***************************************************************************)
EXTENDS ProfileLookup, NaturalsInduction, WellFoundedInduction, SequenceTheorems,
        FiniteSetTheorems, TLAPS

-----------------------------------------------------------------------------
(* The bytes of characters                                                  *)

Byte == 0 .. 255

CodePoint(c) == c > 0 /\ c <= 1114111 /\ ~(55296 <= c /\ c <= 57343)

\* Six bits of a code point, and what is above them.
LEMMA SixBits ==
    ASSUME NEW c \in Nat
    PROVE  c \div 64 \in Nat /\ c % 64 \in 0 .. 63 /\ c = (c \div 64) * 64 + (c % 64)
BY SMT

\* Twelve bits are twice six, and eighteen are thrice.
LEMMA TwiceSix ==
    ASSUME NEW c \in Nat
    PROVE  (c \div 64) \div 64 = c \div 4096 /\ (c \div 4096) \div 64 = c \div 262144
BY SMT

LEMMA Joined ==
    ASSUME NEW q \in Nat, NEW r \in 0 .. 63, NEW c, c = q * 64 + r
    PROVE  c \div 64 = q /\ c % 64 = r
BY SMT

\* The bytes of a code point.
LEMMA ByOne == \A c \in Nat : c \div 1 = c
BY SMT

LEMMA Encoding1 == \A c \in Nat : c < 128 => Encoding(c) = <<c>>
BY SMT DEF Encoding

LEMMA Encoding2 == \A c \in Nat : 128 <= c /\ c < 2048 =>
    Encoding(c) = <<192 + (c \div 64), 128 + (c % 64)>>
BY ByOne, SMT DEF Encoding

LEMMA Encoding3 == \A c \in Nat : 2048 <= c /\ c < 65536 =>
    Encoding(c) = <<224 + (c \div 4096), 128 + ((c \div 64) % 64), 128 + (c % 64)>>
BY ByOne, SMT DEF Encoding

LEMMA Encoding4 == \A c \in Nat : 65536 <= c =>
    Encoding(c) = <<240 + (c \div 262144), 128 + ((c \div 4096) % 64),
                    128 + ((c \div 64) % 64), 128 + (c % 64)>>
BY ByOne, SMT DEF Encoding

LEMMA EncodingLength == \A c \in Nat :
    Len(Encoding(c)) = IF c < 128 THEN 1 ELSE IF c < 2048 THEN 2 ELSE IF c < 65536 THEN 3 ELSE 4
<1>. SUFFICES ASSUME NEW c \in Nat
              PROVE  Len(Encoding(c)) = IF c < 128 THEN 1 ELSE IF c < 2048 THEN 2
                                        ELSE IF c < 65536 THEN 3 ELSE 4
    OBVIOUS
<1>1. CASE c < 128
    BY <1>1, Encoding1, SMT
<1>2. CASE 128 <= c /\ c < 2048
    BY <1>2, Encoding2, SMT
<1>3. CASE 2048 <= c /\ c < 65536
    BY <1>3, Encoding3, SMT
<1>4. CASE 65536 <= c
    BY <1>4, Encoding4, SMT
<1>. QED BY <1>1, <1>2, <1>3, <1>4, SMT

LEMMA SpeltForms ==
    /\ \A a : Spelt(<<a>>) = a
    /\ \A a, b : Spelt(<<a, b>>) = (a - 192) * 64 + b - 128
    /\ \A a, b, c : Spelt(<<a, b, c>>) = (a - 224) * 4096 + (b - 128) * 64 + c - 128
    /\ \A a, b, c, d : Spelt(<<a, b, c, d>>) =
           (a - 240) * 262144 + (b - 128) * 4096 + (c - 128) * 64 + d - 128
BY SMTT(30) DEF Spelt

\* One byte is a character if it is of the first half.
LEMMA OneByte ==
    ASSUME NEW a \in Byte
    PROVE  IsCharacter(<<a>>) <=> a \in 1 .. 127
<1>. USE DEF Byte
<1>1. IsCharacter(<<a>>) <=> CodePoint(a) /\ Encoding(a) = <<a>>
    BY SpeltForms, SMT DEF IsCharacter, CodePoint
<1>2. a < 128 => Encoding(a) = <<a>>
    BY Encoding1, SMT
<1>3. a >= 128 => Encoding(a) # <<a>>
    <2>1. Len(<<a>>) = 1
        OBVIOUS
    <2>. QED BY <2>1, EncodingLength, SMT
<1>. QED BY <1>1, <1>2, <1>3, SMT DEF CodePoint

LEMMA TwoBytes ==
    ASSUME NEW a \in Byte, NEW b \in Byte
    PROVE  IsCharacter(<<a, b>>) <=> a \in 194 .. 223 /\ b \in 128 .. 191
<1>. USE DEF Byte
<1>. DEFINE c == (a - 192) * 64 + b - 128
<1>1. IsCharacter(<<a, b>>) <=> CodePoint(c) /\ Encoding(c) = <<a, b>>
    BY SpeltForms, SMT DEF IsCharacter, CodePoint
<1>2. ASSUME CodePoint(c), Encoding(c) = <<a, b>>
      PROVE  a \in 194 .. 223 /\ b \in 128 .. 191
    <2>0. c \in Nat /\ c <= 1114111
        BY <1>2, SMT DEF CodePoint
    <2>. HIDE DEF c
    <2>1. 128 <= c /\ c < 2048
        <3>1. Len(Encoding(c)) = 2
            BY <1>2, SMT
        <3>. QED BY <2>0, <3>1, EncodingLength, SMT
    <2>2. a = 192 + (c \div 64) /\ b = 128 + (c % 64)
        BY <1>2, <2>0, <2>1, Encoding2, SMT
    <2>3. c \div 64 \in Nat /\ c % 64 \in 0 .. 63 /\ c = (c \div 64) * 64 + (c % 64)
        BY <2>0, SixBits
    <2>. QED BY <2>1, <2>2, <2>3, SMT
<1>3. ASSUME a \in 194 .. 223, b \in 128 .. 191
      PROVE  CodePoint(c) /\ Encoding(c) = <<a, b>>
    <2>. DEFINE q == a - 192
                r == b - 128
    <2>1. q \in Nat /\ r \in 0 .. 63 /\ c = q * 64 + r /\ 192 + q = a /\ 128 + r = b
        BY <1>3, SMT
    <2>2. c \in Nat /\ 128 <= c /\ c < 2048
        BY <1>3, SMT
    <2>. HIDE DEF q, r, c
    <2>3. c \div 64 = q /\ c % 64 = r
        BY <2>1, Joined, SMT
    <2>4. Encoding(c) = <<192 + q, 128 + r>>
        BY <2>2, <2>3, Encoding2, SMT
    <2>. QED BY <2>1, <2>2, <2>4, SMT DEF CodePoint
<1>. QED BY <1>1, <1>2, <1>3, SMT

LEMMA ThreeBytes ==
    ASSUME NEW a \in Byte, NEW b \in Byte, NEW d \in Byte
    PROVE  IsCharacter(<<a, b, d>>) <=>
               /\ a \in 224 .. 239 /\ b \in 128 .. 191 /\ d \in 128 .. 191
               /\ (a = 224 => b >= 160) /\ (a = 237 => b <= 159)
<1>. USE DEF Byte
<1>. DEFINE c == (a - 224) * 4096 + (b - 128) * 64 + d - 128
            Ok == /\ a \in 224 .. 239 /\ b \in 128 .. 191 /\ d \in 128 .. 191
                  /\ (a = 224 => b >= 160) /\ (a = 237 => b <= 159)
<1>1. IsCharacter(<<a, b, d>>) <=> CodePoint(c) /\ Encoding(c) = <<a, b, d>>
    BY SpeltForms, SMT DEF IsCharacter, CodePoint
<1>2. ASSUME CodePoint(c), Encoding(c) = <<a, b, d>>
      PROVE  Ok
    <2>0. c \in Nat /\ ~(55296 <= c /\ c <= 57343)
        BY <1>2, SMT DEF CodePoint
    <2>. HIDE DEF c
    <2>1. 2048 <= c /\ c < 65536
        <3>1. Len(Encoding(c)) = 3
            BY <1>2, SMT
        <3>. QED BY <2>0, <3>1, EncodingLength, SMT
    <2>2. a = 224 + (c \div 4096) /\ b = 128 + ((c \div 64) % 64) /\ d = 128 + (c % 64)
        BY <1>2, <2>0, <2>1, Encoding3, SMT
    <2>3. PICK h \in Nat : h = c \div 64
        BY <2>0, SixBits
    <2>4. h \div 64 = c \div 4096 /\ c = h * 64 + (c % 64) /\ c % 64 \in 0 .. 63
        BY <2>0, <2>3, SixBits, TwiceSix, SMT
    <2>5. h = (h \div 64) * 64 + (h % 64) /\ h % 64 \in 0 .. 63 /\ h \div 64 \in Nat
        BY <2>3, SixBits
    <2>6. a = 224 + (h \div 64) /\ b = 128 + (h % 64)
        BY <2>2, <2>3, <2>4, SMT
    <2>7. h >= 32 /\ h < 1024 /\ ~(864 <= h /\ h < 896)
        BY <2>0, <2>1, <2>3, <2>4, SMT
    <2>. QED BY <2>2, <2>4, <2>5, <2>6, <2>7, SMT
<1>3. ASSUME Ok
      PROVE  CodePoint(c) /\ Encoding(c) = <<a, b, d>>
    <2>. DEFINE q == a - 224
                r == b - 128
                s == d - 128
                h == q * 64 + r
    <2>1. /\ q \in Nat /\ r \in 0 .. 63 /\ s \in 0 .. 63 /\ c = h * 64 + s /\ h \in Nat
          /\ 224 + q = a /\ 128 + r = b /\ 128 + s = d
        BY <1>3, SMT
    <2>2. c \in Nat /\ 2048 <= c /\ c < 65536 /\ ~(55296 <= c /\ c <= 57343)
        BY <1>3, SMT
    <2>. HIDE DEF h, q, r, s, c
    <2>3. c \div 64 = h /\ c % 64 = s
        BY <2>1, Joined, SMT
    <2>4. h \div 64 = q /\ h % 64 = r
        BY <2>1, Joined, SMT DEF h
    <2>5. c \div 4096 = q
        BY <2>2, <2>3, <2>4, TwiceSix, SMT
    <2>6. Encoding(c) = <<224 + q, 128 + r, 128 + s>>
        BY <2>2, <2>3, <2>4, <2>5, Encoding3, SMT
    <2>. QED BY <2>1, <2>2, <2>6, SMT DEF CodePoint
<1>. QED BY <1>1, <1>2, <1>3, SMT

LEMMA FourBytes ==
    ASSUME NEW a \in Byte, NEW b \in Byte, NEW d \in Byte, NEW e \in Byte
    PROVE  IsCharacter(<<a, b, d, e>>) <=>
               /\ a \in 240 .. 244 /\ b \in 128 .. 191 /\ d \in 128 .. 191 /\ e \in 128 .. 191
               /\ (a = 240 => b >= 144) /\ (a = 244 => b <= 143)
<1>. USE DEF Byte
<1>. DEFINE c == (a - 240) * 262144 + (b - 128) * 4096 + (d - 128) * 64 + e - 128
            Ok == /\ a \in 240 .. 244 /\ b \in 128 .. 191 /\ d \in 128 .. 191 /\ e \in 128 .. 191
                  /\ (a = 240 => b >= 144) /\ (a = 244 => b <= 143)
<1>1. IsCharacter(<<a, b, d, e>>) <=> CodePoint(c) /\ Encoding(c) = <<a, b, d, e>>
    BY SpeltForms, SMT DEF IsCharacter, CodePoint
<1>2. ASSUME CodePoint(c), Encoding(c) = <<a, b, d, e>>
      PROVE  Ok
    <2>0. c \in Nat /\ c <= 1114111
        BY <1>2, SMT DEF CodePoint
    <2>. HIDE DEF c
    <2>1. 65536 <= c
        <3>1. Len(Encoding(c)) = 4
            BY <1>2, SMT
        <3>. QED BY <2>0, <3>1, EncodingLength, SMT
    <2>2. /\ a = 240 + (c \div 262144) /\ b = 128 + ((c \div 4096) % 64)
          /\ d = 128 + ((c \div 64) % 64) /\ e = 128 + (c % 64)
        BY <1>2, <2>0, <2>1, Encoding4, SMT
    <2>3. PICK h \in Nat : h = c \div 64
        BY <2>0, SixBits
    <2>4. PICK g \in Nat : g = h \div 64
        BY <2>3, SixBits
    <2>5. /\ g = c \div 4096 /\ g \div 64 = c \div 262144
          /\ c = h * 64 + (c % 64) /\ c % 64 \in 0 .. 63
        BY <2>0, <2>3, <2>4, SixBits, TwiceSix, SMT
    <2>6. h = g * 64 + (h % 64) /\ h % 64 \in 0 .. 63
        BY <2>3, <2>4, SixBits
    <2>7. g = (g \div 64) * 64 + (g % 64) /\ g % 64 \in 0 .. 63 /\ g \div 64 \in Nat
        BY <2>4, SixBits
    <2>8. a = 240 + (g \div 64) /\ b = 128 + (g % 64) /\ d = 128 + (h % 64)
        BY <2>2, <2>3, <2>5, SMT
    <2>9. h >= 1024 /\ h < 17408
        BY <2>0, <2>1, <2>3, <2>5, SMT
    <2>10. g >= 16 /\ g < 272
        BY <2>3, <2>4, <2>6, <2>9, SMT
    <2>11. d \in 128 .. 191 /\ e \in 128 .. 191
        BY <2>2, <2>5, <2>6, <2>8, SMT
    <2>12. a \in 240 .. 244 /\ b \in 128 .. 191
        BY <2>7, <2>8, <2>10, SMT
    <2>13. (a = 240 => b >= 144) /\ (a = 244 => b <= 143)
        BY <2>7, <2>8, <2>10, SMT
    <2>. QED BY <2>11, <2>12, <2>13
<1>3. ASSUME Ok
      PROVE  CodePoint(c) /\ Encoding(c) = <<a, b, d, e>>
    <2>. DEFINE q == a - 240
                r == b - 128
                s == d - 128
                t == e - 128
                g == q * 64 + r
                h == g * 64 + s
    <2>1. /\ q \in Nat /\ r \in 0 .. 63 /\ s \in 0 .. 63 /\ t \in 0 .. 63
          /\ g \in Nat /\ h \in Nat /\ c = h * 64 + t
          /\ 240 + q = a /\ 128 + r = b /\ 128 + s = d /\ 128 + t = e
        BY <1>3, SMT
    <2>2. c \in Nat /\ 65536 <= c /\ c <= 1114111
        BY <1>3, SMT
    <2>. HIDE DEF g, h, q, r, s, t, c
    <2>3. c \div 64 = h /\ c % 64 = t
        BY <2>1, Joined, SMT
    <2>4. h \div 64 = g /\ h % 64 = s
        BY <2>1, Joined, SMT DEF h
    <2>5. g \div 64 = q /\ g % 64 = r
        BY <2>1, Joined, SMT DEF g
    <2>6. c \div 4096 = g /\ c \div 262144 = q
        BY <2>2, <2>3, <2>4, <2>5, TwiceSix, SMT
    <2>7. Encoding(c) = <<240 + q, 128 + r, 128 + s, 128 + t>>
        BY <2>2, <2>3, <2>4, <2>5, <2>6, Encoding4, SMT
    <2>. QED BY <2>1, <2>2, <2>7, SMT DEF CodePoint
<1>. QED BY <1>1, <1>2, <1>3, SMT

\* What a lead byte tells of the length of its character.
LEMMA LengthForms ==
    ASSUME NEW bytes, NEW i, bytes[i] \in Byte
    PROVE  /\ CharacterLength(bytes, i) \in 0 .. 4
           /\ CharacterLength(bytes, i) = 1 <=> bytes[i] \in 1 .. 127
           /\ CharacterLength(bytes, i) = 2 <=> bytes[i] \in 194 .. 223 /\ Continued(bytes, i + 1, 1)
           /\ CharacterLength(bytes, i) = 3 <=>
                 /\ bytes[i] \in 224 .. 239 /\ Continued(bytes, i + 1, 2)
                 /\ (bytes[i] = 224 => bytes[i + 1] >= 160) /\ (bytes[i] = 237 => bytes[i + 1] <= 159)
           /\ CharacterLength(bytes, i) = 4 <=>
                 /\ bytes[i] \in 240 .. 244 /\ Continued(bytes, i + 1, 3)
                 /\ (bytes[i] = 240 => bytes[i + 1] >= 144) /\ (bytes[i] = 244 => bytes[i + 1] <= 143)
<1>. USE DEF Byte
<1>1. CASE bytes[i] \in 1 .. 127
    BY <1>1, SMT DEF CharacterLength
<1>2. CASE bytes[i] \in 194 .. 223
    BY <1>2, SMT DEF CharacterLength
<1>3. CASE bytes[i] \in 224 .. 239
    BY <1>3, SMT DEF CharacterLength
<1>4. CASE bytes[i] \in 240 .. 244
    BY <1>4, SMT DEF CharacterLength
<1>5. CASE bytes[i] \notin (1 .. 127) \cup (194 .. 223) \cup (224 .. 239) \cup (240 .. 244)
    BY <1>5, SMT DEF CharacterLength
<1>. QED BY <1>1, <1>2, <1>3, <1>4, <1>5

\* What follows a lead byte.
LEMMA ContinuedForms ==
    ASSUME NEW bytes, NEW i \in Nat, Len(bytes) \in Nat
    PROVE  /\ Continued(bytes, i, 1) <=> i <= Len(bytes) /\ bytes[i] \in 128 .. 191
           /\ Continued(bytes, i, 2) <=>
                 i + 1 <= Len(bytes) /\ bytes[i] \in 128 .. 191 /\ bytes[i + 1] \in 128 .. 191
           /\ Continued(bytes, i, 3) <=>
                 /\ i + 2 <= Len(bytes) /\ bytes[i] \in 128 .. 191
                 /\ bytes[i + 1] \in 128 .. 191 /\ bytes[i + 2] \in 128 .. 191
<1>1. Continued(bytes, i, 1) <=> i <= Len(bytes) /\ bytes[i] \in 128 .. 191
    <2>1. \A n : n \in i .. i + 1 - 1 <=> n = i
        OBVIOUS
    <2>. QED BY <2>1 DEF Continued
<1>2. Continued(bytes, i, 2) <=>
          i + 1 <= Len(bytes) /\ bytes[i] \in 128 .. 191 /\ bytes[i + 1] \in 128 .. 191
    <2>1. \A n : n \in i .. i + 2 - 1 <=> n = i \/ n = i + 1
        OBVIOUS
    <2>2. i + 2 - 1 = i + 1
        OBVIOUS
    <2>. QED BY <2>1, <2>2 DEF Continued
<1>3. Continued(bytes, i, 3) <=>
          /\ i + 2 <= Len(bytes) /\ bytes[i] \in 128 .. 191
          /\ bytes[i + 1] \in 128 .. 191 /\ bytes[i + 2] \in 128 .. 191
    <2>1. \A n : n \in i .. i + 3 - 1 <=> n = i \/ n = i + 1 \/ n = i + 2
        OBVIOUS
    <2>2. i + 3 - 1 = i + 2
        OBVIOUS
    <2>. QED BY <2>1, <2>2 DEF Continued
<1>. QED BY <1>1, <1>2, <1>3

\* At most four bytes are a character exactly if they are the one that the code sees there.
LEMMA CharacterAt ==
    ASSUME NEW bytes \in Seq(Byte), NEW i \in 1 .. Len(bytes), NEW k \in 1 .. 4,
           i + k - 1 <= Len(bytes)
    PROVE  IsCharacter(SubSeq(bytes, i, i + k - 1)) <=> CharacterLength(bytes, i) = k
<1>. DEFINE s == SubSeq(bytes, i, i + k - 1)
<1>0. i \in Nat /\ k \in Nat /\ Len(bytes) \in Nat /\ i + k - 1 \in Int
    OBVIOUS
<1>1. s \in Seq(Byte) /\ Len(s) = k /\ \A n \in 1 .. k : s[n] = bytes[i + n - 1]
    <2>1. \A n \in i .. i + k - 1 : bytes[n] \in Byte
        BY <1>0
    <2>. QED BY <1>0, <2>1, SubSeqProperties
<1>2. \A n \in 1 .. Len(bytes) : bytes[n] \in Byte
    OBVIOUS
<1>. HIDE DEF s
<1>3. CASE k = 1
    <2>1. s = <<bytes[i]>>
        BY <1>0, <1>1, <1>3
    <2>2. IsCharacter(s) <=> bytes[i] \in 1 .. 127
        BY <1>2, <2>1, OneByte
    <2>3. CharacterLength(bytes, i) = 1 <=> bytes[i] \in 1 .. 127
        BY <1>2, LengthForms
    <2>. QED BY <1>3, <2>2, <2>3 DEF s
<1>4. CASE k = 2
    <2>0. i + 1 \in 1 .. Len(bytes)
        BY <1>0, <1>4
    <2>1. s = <<bytes[i], bytes[i + 1]>>
        BY <1>0, <1>1, <1>4
    <2>2. IsCharacter(s) <=> bytes[i] \in 194 .. 223 /\ bytes[i + 1] \in 128 .. 191
        BY <1>2, <2>0, <2>1, TwoBytes
    <2>3. CharacterLength(bytes, i) = 2 <=> bytes[i] \in 194 .. 223 /\ Continued(bytes, i + 1, 1)
        BY <1>2, LengthForms
    <2>4. Continued(bytes, i + 1, 1) <=> bytes[i + 1] \in 128 .. 191
        BY <1>0, <2>0, ContinuedForms
    <2>. QED BY <1>4, <2>2, <2>3, <2>4 DEF s
<1>5. CASE k = 3
    <2>0. i + 1 \in 1 .. Len(bytes) /\ i + 2 \in 1 .. Len(bytes) /\ i + 1 + 1 = i + 2
        BY <1>0, <1>5
    <2>1. s = <<bytes[i], bytes[i + 1], bytes[i + 2]>>
        BY <1>0, <1>1, <1>5
    <2>2. IsCharacter(s) <=>
              /\ bytes[i] \in 224 .. 239 /\ bytes[i + 1] \in 128 .. 191 /\ bytes[i + 2] \in 128 .. 191
              /\ (bytes[i] = 224 => bytes[i + 1] >= 160) /\ (bytes[i] = 237 => bytes[i + 1] <= 159)
        BY <1>2, <2>0, <2>1, ThreeBytes
    <2>3. CharacterLength(bytes, i) = 3 <=>
              /\ bytes[i] \in 224 .. 239 /\ Continued(bytes, i + 1, 2)
              /\ (bytes[i] = 224 => bytes[i + 1] >= 160) /\ (bytes[i] = 237 => bytes[i + 1] <= 159)
        BY <1>2, LengthForms
    <2>4. Continued(bytes, i + 1, 2) <=> bytes[i + 1] \in 128 .. 191 /\ bytes[i + 2] \in 128 .. 191
        BY <1>0, <2>0, ContinuedForms
    <2>. QED BY <1>5, <2>2, <2>3, <2>4 DEF s
<1>6. CASE k = 4
    <2>0. /\ i + 1 \in 1 .. Len(bytes) /\ i + 2 \in 1 .. Len(bytes) /\ i + 3 \in 1 .. Len(bytes)
          /\ i + 1 + 1 = i + 2 /\ i + 1 + 2 = i + 3
        BY <1>0, <1>6
    <2>1. s = <<bytes[i], bytes[i + 1], bytes[i + 2], bytes[i + 3]>>
        BY <1>0, <1>1, <1>6
    <2>2. IsCharacter(s) <=>
              /\ bytes[i] \in 240 .. 244 /\ bytes[i + 1] \in 128 .. 191
              /\ bytes[i + 2] \in 128 .. 191 /\ bytes[i + 3] \in 128 .. 191
              /\ (bytes[i] = 240 => bytes[i + 1] >= 144) /\ (bytes[i] = 244 => bytes[i + 1] <= 143)
        <3>. DEFINE Fits(a, b, d, e) ==
                        /\ a \in 240 .. 244 /\ b \in 128 .. 191 /\ d \in 128 .. 191 /\ e \in 128 .. 191
                        /\ (a = 240 => b >= 144) /\ (a = 244 => b <= 143)
        <3>1. /\ bytes[i] \in Byte /\ bytes[i + 1] \in Byte /\ bytes[i + 2] \in Byte
              /\ bytes[i + 3] \in Byte
            BY <1>2, <2>0
        <3>2. \A a, b, d, e \in Byte : IsCharacter(<<a, b, d, e>>) <=> Fits(a, b, d, e)
            BY FourBytes
        <3>3. IsCharacter(s) <=> Fits(bytes[i], bytes[i + 1], bytes[i + 2], bytes[i + 3])
            <4>. HIDE DEF Fits
            <4>. QED BY <2>1, <3>1, <3>2, Zenon
        <3>. QED BY <3>3
    <2>3. CharacterLength(bytes, i) = 4 <=>
              /\ bytes[i] \in 240 .. 244 /\ Continued(bytes, i + 1, 3)
              /\ (bytes[i] = 240 => bytes[i + 1] >= 144) /\ (bytes[i] = 244 => bytes[i + 1] <= 143)
        BY <1>2, LengthForms
    <2>4. Continued(bytes, i + 1, 3) <=>
              bytes[i + 1] \in 128 .. 191 /\ bytes[i + 2] \in 128 .. 191 /\ bytes[i + 3] \in 128 .. 191
        BY <1>0, <2>0, ContinuedForms
    <2>. QED BY <1>6, <2>2, <2>3, <2>4 DEF s
<1>. QED BY <1>3, <1>4, <1>5, <1>6

\* A character that the code sees ends where the bytes end, or before.
LEMMA CharacterFits ==
    ASSUME NEW bytes \in Seq(Byte), NEW i \in 1 .. Len(bytes), CharacterLength(bytes, i) # 0
    PROVE  /\ CharacterLength(bytes, i) \in 1 .. 4
           /\ i + CharacterLength(bytes, i) - 1 <= Len(bytes)
<1>0. i \in Nat /\ i + 1 \in Nat /\ Len(bytes) \in Nat /\ bytes[i] \in Byte
    OBVIOUS
<1>1. /\ Continued(bytes, i + 1, 1) => i + 1 <= Len(bytes)
      /\ Continued(bytes, i + 1, 2) => i + 2 <= Len(bytes)
      /\ Continued(bytes, i + 1, 3) => i + 3 <= Len(bytes)
    BY <1>0, ContinuedForms
<1>2. \/ CharacterLength(bytes, i) = 1
      \/ CharacterLength(bytes, i) = 2 /\ Continued(bytes, i + 1, 1)
      \/ CharacterLength(bytes, i) = 3 /\ Continued(bytes, i + 1, 2)
      \/ CharacterLength(bytes, i) = 4 /\ Continued(bytes, i + 1, 3)
    <2>1. CharacterLength(bytes, i) \in 1 .. 4
        BY <1>0, LengthForms
    <2>2. CASE CharacterLength(bytes, i) = 1
        BY <2>2
    <2>3. CASE CharacterLength(bytes, i) = 2
        BY <1>0, <2>3, LengthForms
    <2>4. CASE CharacterLength(bytes, i) = 3
        BY <1>0, <2>4, LengthForms
    <2>5. CASE CharacterLength(bytes, i) = 4
        BY <1>0, <2>5, LengthForms
    <2>. QED BY <2>1, <2>2, <2>3, <2>4, <2>5
<1>. QED BY <1>0, <1>1, <1>2

-----------------------------------------------------------------------------
(* Walking over the characters of the bytes                                *)

LEMMA LeastNumber ==
    ASSUME NEW S \in SUBSET Nat, S # {}
    PROVE  \E e \in S : \A f \in S : ~(f < e)
<1>. DEFINE R == {ss \in Nat \X Nat : ss[1] < ss[2]}
<1>1. IsWellFoundedOn(R, Nat)
    BY NatLessThanWellFounded DEF OpToRel
<1>. HIDE DEF R
<1>2. PICK e \in S : \A f \in S : ~(<<f, e>> \in R)
    BY <1>1, WFMin
<1>3. \A f \in S : ~(f < e)
    BY <1>2 DEF R
<1>. QED BY <1>3

\* A set of whole numbers below a bound has a largest member, and Max is it.
LEMMA LargestNumber ==
    ASSUME NEW S, NEW n \in Int, \A c \in S : c \in Int /\ c <= n, S # {}
    PROVE  Max(S) \in S /\ \A c \in S : c <= Max(S)
<1>. DEFINE Below == {k \in Nat : n - k \in S}
<1>1. Below # {}
    <2>1. PICK c \in S : TRUE
        OBVIOUS
    <2>2. n - c \in Nat /\ n - (n - c) = c
        BY <2>1
    <2>. QED BY <2>1, <2>2
<1>2. PICK e \in Below : \A f \in Below : ~(f < e)
    BY <1>1, LeastNumber
<1>3. n - e \in S /\ \A c \in S : n - e >= c
    <2>1. SUFFICES ASSUME NEW c \in S PROVE n - e >= c
        BY <1>2
    <2>2. n - c \in Below
        <3>1. n - c \in Nat /\ n - (n - c) = c
            OBVIOUS
        <3>. QED BY <3>1
    <2>3. ~(n - c < e)
        BY <1>2, <2>2
    <2>. QED BY <1>2, <2>3
<1>4. \E x \in S : \A y \in S : x >= y
    BY <1>3
<1>5. Max(S) \in S /\ \A y \in S : Max(S) >= y
    BY <1>4 DEF Max
<1>. QED BY <1>5

LEMMA LargestIs ==
    ASSUME NEW S, NEW m \in S, \A c \in S : c \in Int /\ c <= m
    PROVE  Max(S) = m
<1>1. Max(S) \in S /\ \A c \in S : c <= Max(S)
    BY LargestNumber
<1>. QED BY <1>1

\* The cut before a place, where the bytes from i on are cut.
Previous(cuts, i, to) == Max({c \in cuts \cup {i - 1} : c < to})

CutsFrom(bytes, i, cuts) ==
    /\ i <= Len(bytes) => Len(bytes) \in cuts
    /\ \A to \in cuts : /\ to - Previous(cuts, i, to) <= 4
                        /\ IsCharacter(SubSeq(bytes, Previous(cuts, i, to) + 1, to))

\* The bytes from i on fall into characters.
Falls(bytes, i) == \E cuts \in SUBSET (i .. Len(bytes)) : CutsFrom(bytes, i, cuts)

\* The bytes fall into characters from their start if they are UTF-8.
LEMMA FallsAll ==
    ASSUME NEW bytes \in Seq(Byte)
    PROVE  IsUtf8(bytes) <=> Falls(bytes, 1)
<1>1. bytes # <<>> <=> 1 <= Len(bytes)
    OBVIOUS
<1>2. \A cuts, to : Previous(cuts, 1, to) = Max({c \in cuts \cup {0} : c < to})
    BY DEF Previous
<1>3. ASSUME NEW cuts
      PROVE  CutsFrom(bytes, 1, cuts) <=>
                 /\ bytes # <<>> => Len(bytes) \in cuts
                 /\ \A to \in cuts :
                       LET from == Max({c \in cuts \cup {0} : c < to}) IN
                       to - from <= 4 /\ IsCharacter(SubSeq(bytes, from + 1, to))
    <2>. DEFINE Ends(from, to) == to - from <= 4 /\ IsCharacter(SubSeq(bytes, from + 1, to))
    <2>1. CutsFrom(bytes, 1, cuts) <=>
              /\ bytes # <<>> => Len(bytes) \in cuts
              /\ \A to \in cuts : Ends(Previous(cuts, 1, to), to)
        BY <1>1, Zenon DEF CutsFrom
    <2>2. CutsFrom(bytes, 1, cuts) <=>
              /\ bytes # <<>> => Len(bytes) \in cuts
              /\ \A to \in cuts : Ends(Max({c \in cuts \cup {0} : c < to}), to)
        BY <1>2, <2>1, Zenon
    <2>. QED BY <2>2, Zenon
<1>. QED BY <1>3, Zenon DEF IsUtf8, Falls

\* What is cut off at the front changes no cut behind it.
LEMMA PreviousTheSame ==
    ASSUME NEW i \in Nat \ {0}, NEW k \in Nat \ {0}, NEW cuts \in SUBSET Nat,
           \A c \in cuts : c >= i + k, NEW to \in cuts
    PROVE  Previous(cuts \cup {i + k - 1}, i, to) = Previous(cuts, i + k, to)
<1>. DEFINE more == cuts \cup {i + k - 1}
            S == {c \in cuts \cup {i + k - 1} : c < to}
            T == {c \in more \cup {i - 1} : c < to}
<1>1. S # {} /\ i + k - 1 \in S
    OBVIOUS
<1>2. \A c \in S : c \in Int /\ c <= to
    OBVIOUS
<1>3. Max(S) \in S /\ \A c \in S : c <= Max(S)
    <2>. HIDE DEF S
    <2>1. to \in Int
        OBVIOUS
    <2>. QED BY <1>1, <1>2, <2>1, LargestNumber
<1>4. Max(S) >= i + k - 1
    BY <1>1, <1>3
<1>5. Max(S) \in T
    <2>1. \A c \in S : c \in T
        OBVIOUS
    <2>. QED BY <1>3, <2>1, Zenon
<1>6. \A c \in T : c \in Int /\ c <= Max(S)
    <2>1. SUFFICES ASSUME NEW c \in T PROVE c \in Int /\ c <= Max(S)
        OBVIOUS
    <2>2. c \in S \/ c = i - 1
        BY <2>1
    <2>3. Max(S) \in Int
        BY <1>2, <1>3, Zenon
    <2>4. CASE c \in S
        BY <1>2, <1>3, <2>4, Zenon
    <2>5. CASE c = i - 1
        <3>. HIDE DEF S
        <3>. QED BY <1>4, <2>3, <2>5
    <2>. QED BY <2>2, <2>4, <2>5
<1>7. Max(T) = Max(S)
    <2>. HIDE DEF S, T
    <2>. QED BY <1>5, <1>6, LargestIs
<1>. QED BY <1>7 DEF Previous

\* Nothing is left to cut behind the last byte.
LEMMA FallsAtTheEnd ==
    ASSUME NEW bytes \in Seq(Byte)
    PROVE  Falls(bytes, Len(bytes) + 1)
<1>1. Len(bytes) \in Nat /\ ~(Len(bytes) + 1 <= Len(bytes))
    OBVIOUS
<1>2. CutsFrom(bytes, Len(bytes) + 1, {})
    BY <1>1 DEF CutsFrom
<1>. QED BY <1>2 DEF Falls

\* A character, and what falls into characters behind it, is cut at its end too.
LEMMA FallsWithCharacter ==
    ASSUME NEW bytes \in Seq(Byte), NEW i \in 1 .. Len(bytes), CharacterLength(bytes, i) # 0,
           Falls(bytes, i + CharacterLength(bytes, i))
    PROVE  Falls(bytes, i)
<1>. DEFINE k == CharacterLength(bytes, i)
<1>1. k \in 1 .. 4 /\ i + k - 1 <= Len(bytes)
    BY CharacterFits
<1>2. IsCharacter(SubSeq(bytes, i, i + k - 1))
    BY <1>1, CharacterAt
<1>. HIDE DEF k
<1>3. PICK cuts \in SUBSET (i + k .. Len(bytes)) : CutsFrom(bytes, i + k, cuts)
    BY DEF Falls, k
<1>. DEFINE more == cuts \cup {i + k - 1}
<1>4. more \in SUBSET (i .. Len(bytes)) /\ cuts \in SUBSET Nat /\ \A c \in cuts : c >= i + k
    BY <1>1, <1>3
<1>5. \A to \in cuts : Previous(more, i, to) = Previous(cuts, i + k, to)
    <2>1. i \in Nat \ {0} /\ k \in Nat \ {0}
        BY <1>1
    <2>. QED BY <1>4, <2>1, PreviousTheSame
<1>6. Previous(more, i, i + k - 1) = i - 1
    <2>. DEFINE T == {c \in more \cup {i - 1} : c < i + k - 1}
    <2>1. \A c \in T : c = i - 1
        BY <1>1, <1>4
    <2>2. i - 1 \in T
        BY <1>1
    <2>. HIDE DEF T
    <2>3. Max(T) = i - 1
        BY <2>1, <2>2, LargestIs
    <2>. QED BY <2>3 DEF Previous, T
<1>7. i <= Len(bytes) => Len(bytes) \in more
    BY <1>1, <1>3 DEF CutsFrom
<1>8. ASSUME NEW to \in more
      PROVE  /\ to - Previous(more, i, to) <= 4
             /\ IsCharacter(SubSeq(bytes, Previous(more, i, to) + 1, to))
    <2>1. CASE to \in cuts
        <3>. HIDE DEF more
        <3>. QED BY <1>3, <1>5, <2>1, Zenon DEF CutsFrom
    <2>2. CASE to = i + k - 1
        <3>. HIDE DEF more
        <3>1. i - 1 + 1 = i /\ (i + k - 1) - (i - 1) <= 4
            BY <1>1
        <3>. QED BY <1>2, <1>6, <2>2, <3>1, Zenon
    <2>. QED BY <1>8, <2>1, <2>2
<1>9. CutsFrom(bytes, i, more)
    <2>. HIDE DEF more
    <2>. QED BY <1>7, <1>8, Zenon DEF CutsFrom
<1>. QED BY <1>4, <1>9 DEF Falls

\* The first cut is where the code sees the first character end.
LEMMA FallsIntoCharacter ==
    ASSUME NEW bytes \in Seq(Byte), NEW i \in 1 .. Len(bytes), Falls(bytes, i)
    PROVE  CharacterLength(bytes, i) # 0 /\ Falls(bytes, i + CharacterLength(bytes, i))
<1>1. PICK more \in SUBSET (i .. Len(bytes)) : CutsFrom(bytes, i, more)
    BY DEF Falls
<1>2. more \in SUBSET Nat /\ more # {} /\ Len(bytes) \in more
    BY <1>1 DEF CutsFrom
<1>3. PICK first \in more : \A c \in more : ~(c < first)
    BY <1>2, LeastNumber
<1>4. first \in i .. Len(bytes) /\ \A c \in more : c \in Nat /\ first <= c
    BY <1>1, <1>2, <1>3
<1>5. Previous(more, i, first) = i - 1
    <2>. DEFINE T == {c \in more \cup {i - 1} : c < first}
    <2>1. i - 1 \in T
        BY <1>4
    <2>2. \A c \in T : c \in Int /\ c <= i - 1
        BY <1>4
    <2>. HIDE DEF T
    <2>3. Max(T) = i - 1
        BY <2>1, <2>2, LargestIs
    <2>. QED BY <2>3 DEF Previous, T
<1>. DEFINE k == first - (i - 1)
<1>6. k \in 1 .. 4 /\ i + k - 1 = first
    <2>1. first - Previous(more, i, first) <= 4
        BY <1>1, <1>3 DEF CutsFrom
    <2>. QED BY <1>4, <1>5, <2>1
<1>7. IsCharacter(SubSeq(bytes, i, first))
    <2>1. IsCharacter(SubSeq(bytes, i - 1 + 1, first))
        BY <1>1, <1>3, <1>5, Zenon DEF CutsFrom
    <2>2. i - 1 + 1 = i
        OBVIOUS
    <2>. QED BY <2>1, <2>2, Zenon
<1>. HIDE DEF k
<1>8. CharacterLength(bytes, i) = k
    BY <1>4, <1>6, <1>7, CharacterAt
<1>. DEFINE cuts == more \ {first}
<1>9. /\ cuts \in SUBSET (i + k .. Len(bytes)) /\ cuts \in SUBSET Nat
      /\ \A c \in cuts : c >= i + k
    BY <1>1, <1>4, <1>6
<1>10. more = cuts \cup {i + k - 1}
    BY <1>3, <1>6
<1>11. \A to \in cuts : Previous(more, i, to) = Previous(cuts, i + k, to)
    <2>1. i \in Nat \ {0} /\ k \in Nat \ {0}
        BY <1>6
    <2>. HIDE DEF cuts
    <2>2. \A to \in cuts : Previous(cuts \cup {i + k - 1}, i, to) = Previous(cuts, i + k, to)
        BY <1>9, <2>1, PreviousTheSame
    <2>. QED BY <1>10, <2>2, Zenon
<1>12. i + k <= Len(bytes) => Len(bytes) \in cuts
    BY <1>2, <1>4, <1>6
<1>13. CutsFrom(bytes, i + k, cuts)
    <2>1. \A to \in cuts : to \in more
        OBVIOUS
    <2>. HIDE DEF cuts
    <2>. QED BY <1>1, <1>11, <1>12, <2>1, Zenon DEF CutsFrom
<1>14. Falls(bytes, i + k)
    BY <1>9, <1>13 DEF Falls
<1>. QED BY <1>6, <1>8, <1>14

\* Walking: one character, then the rest.
LEMMA FallsStep ==
    ASSUME NEW bytes \in Seq(Byte), NEW i \in 1 .. Len(bytes) + 1
    PROVE  Falls(bytes, i) <=>
               \/ i > Len(bytes)
               \/ CharacterLength(bytes, i) # 0 /\ Falls(bytes, i + CharacterLength(bytes, i))
<1>1. CASE i > Len(bytes)
    <2>1. i = Len(bytes) + 1
        BY <1>1
    <2>. QED BY <1>1, <2>1, FallsAtTheEnd
<1>2. CASE ~(i > Len(bytes))
    <2>1. i \in 1 .. Len(bytes)
        BY <1>2
    <2>. QED BY <1>2, <2>1, FallsWithCharacter, FallsIntoCharacter
<1>. QED BY <1>1, <1>2

\* The walk of the code, one step of it. A walk is a function that agrees with its steps.
WalkStep(bytes, v, i) ==
    \/ i > Len(bytes)
    \/ CharacterLength(bytes, i) # 0 /\ v[i + CharacterLength(bytes, i)]

IsWalk(bytes, v) == v = [i \in 1 .. Len(bytes) + 1 |-> WalkStep(bytes, v, i)]

\* There is a walk: where the bytes fall into characters.
LEMMA WalkExists ==
    ASSUME NEW bytes \in Seq(Byte)
    PROVE  \E v : IsWalk(bytes, v)
<1>. DEFINE v == [i \in 1 .. Len(bytes) + 1 |-> Falls(bytes, i)]
<1>1. ASSUME NEW i \in 1 .. Len(bytes) + 1
      PROVE  Falls(bytes, i) = WalkStep(bytes, v, i)
    <2>. DEFINE k == CharacterLength(bytes, i)
    <2>1. ASSUME ~(i > Len(bytes)), k # 0
          PROVE  v[i + k] = Falls(bytes, i + k)
        <3>1. i + k \in 1 .. Len(bytes) + 1
            <4>1. i \in 1 .. Len(bytes)
                BY <2>1
            <4>. QED BY <2>1, <4>1, CharacterFits
        <3>. QED BY <3>1
    <2>2. Falls(bytes, i) <=> i > Len(bytes) \/ (k # 0 /\ Falls(bytes, i + k))
        BY FallsStep
    <2>. HIDE DEF v
    <2>3. Falls(bytes, i) <=> WalkStep(bytes, v, i)
        BY <2>1, <2>2, Zenon DEF WalkStep
    <2>. QED BY <2>3, Zenon DEF Falls, WalkStep
<1>2. v = [i \in 1 .. Len(bytes) + 1 |-> WalkStep(bytes, v, i)]
    <2>. DEFINE w == [i \in 1 .. Len(bytes) + 1 |-> WalkStep(bytes, v, i)]
    <2>1. \A i \in 1 .. Len(bytes) + 1 : v[i] = w[i]
        BY <1>1, Zenon
    <2>. QED BY <2>1, Zenon
<1>3. IsWalk(bytes, v)
    <2>. HIDE DEF v
    <2>. QED BY <1>2, Zenon DEF IsWalk
<1>. QED BY <1>3, Zenon

\* Every walk finds at every place whether the bytes from there fall into characters.
LEMMA WalkIsExact ==
    ASSUME NEW bytes \in Seq(Byte), NEW v, IsWalk(bytes, v)
    PROVE  \A i \in 1 .. Len(bytes) + 1 : v[i] <=> Falls(bytes, i)
<1>. DEFINE Wrong == {n \in Nat : Len(bytes) + 1 - n \in 1 .. Len(bytes) + 1
                                  /\ ~(v[Len(bytes) + 1 - n] <=> Falls(bytes, Len(bytes) + 1 - n))}
<1>1. SUFFICES Wrong = {}
    <2>1. SUFFICES ASSUME NEW i \in 1 .. Len(bytes) + 1, ~(v[i] <=> Falls(bytes, i))
                   PROVE  Wrong # {}
        OBVIOUS
    <2>2. Len(bytes) + 1 - i \in Nat /\ Len(bytes) + 1 - (Len(bytes) + 1 - i) = i
        OBVIOUS
    <2>3. Len(bytes) + 1 - i \in Wrong
        BY <2>1, <2>2
    <2>. QED BY <2>3
<1>2. SUFFICES ASSUME Wrong # {} PROVE FALSE
    OBVIOUS
<1>3. PICK n \in Wrong : \A m \in Wrong : ~(m < n)
    BY <1>2, LeastNumber
<1>. DEFINE i == Len(bytes) + 1 - n
<1>4. n \in Nat /\ i \in 1 .. Len(bytes) + 1 /\ ~(v[i] <=> Falls(bytes, i))
    BY <1>3
<1>5. v[i] = WalkStep(bytes, v, i)
    <2>. HIDE DEF i
    <2>. QED BY <1>4, Zenon DEF IsWalk
<1>6. ASSUME ~(i > Len(bytes)), CharacterLength(bytes, i) # 0
      PROVE  v[i + CharacterLength(bytes, i)] <=> Falls(bytes, i + CharacterLength(bytes, i))
    <2>. DEFINE k == CharacterLength(bytes, i)
    <2>1. k \in 1 .. 4 /\ i + k - 1 <= Len(bytes)
        <3>1. i \in 1 .. Len(bytes)
            BY <1>4, <1>6
        <3>. QED BY <1>6, <3>1, CharacterFits
    <2>. HIDE DEF k
    <2>2. /\ n - k \in Nat /\ n - k < n /\ Len(bytes) + 1 - (n - k) = i + k
          /\ i + k \in 1 .. Len(bytes) + 1
        BY <1>4, <2>1
    <2>3. n - k \notin Wrong
        BY <1>3, <2>2
    <2>4. v[i + k] <=> Falls(bytes, i + k)
        BY <2>2, <2>3
    <2>. QED BY <2>4 DEF k
<1>. HIDE DEF i
<1>. QED BY <1>4, <1>5, <1>6, FallsStep DEF WalkStep

\* The code takes exactly UTF-8 for UTF-8.
LEMMA ValidIsUtf8 ==
    ASSUME NEW bytes \in Seq(Byte)
    PROVE  IsValidUtf8(bytes) <=> IsUtf8(bytes)
<1>. DEFINE v == CHOOSE v : IsWalk(bytes, v)
<1>1. IsValidUtf8(bytes) = v[1]
    BY DEF IsValidUtf8, IsWalk, WalkStep
<1>2. IsWalk(bytes, v)
    BY WalkExists, Zenon
<1>. HIDE DEF v
<1>3. v[1] <=> Falls(bytes, 1)
    <2>1. 1 \in 1 .. Len(bytes) + 1
        OBVIOUS
    <2>. QED BY <1>2, <2>1, WalkIsExact
<1>. QED BY <1>1, <1>3, FallsAll

LEMMA UnescapedIsByte == \A b \in DOMAIN Unescaped : Unescaped[b] \in Byte
BY DEF Unescaped, Byte, Space, LineFeed, Tab, Return, Backslash

-----------------------------------------------------------------------------
(* Which backslashes begin an escape                                       *)

\* The last place before i that holds no backslash.
Run(bytes, i) == Max({j \in 0 .. i - 1 : j = 0 \/ bytes[j] # Backslash})

LEMMA RunIs ==
    ASSUME NEW bytes, NEW i \in Nat, i # 0
    PROVE  /\ Run(bytes, i) \in 0 .. i - 1
           /\ i = 1 \/ bytes[i - 1] # Backslash => Run(bytes, i) = i - 1
           /\ i # 1 /\ bytes[i - 1] = Backslash => Run(bytes, i) = Run(bytes, i - 1)
<1>. DEFINE S(k) == {j \in 0 .. k - 1 : j = 0 \/ bytes[j] # Backslash}
<1>1. \A k \in Nat : \A c \in S(k) : c \in Int /\ c <= k - 1
    OBVIOUS
<1>2. ASSUME NEW k \in Nat, k # 0
      PROVE  Max(S(k)) \in S(k) /\ \A c \in S(k) : c <= Max(S(k))
    <2>1. 0 \in S(k) /\ k - 1 \in Int
        BY <1>2
    <2>2. S(k) # {}
        BY <2>1
    <2>. HIDE DEF S
    <2>. QED BY <1>1, <2>1, <2>2, LargestNumber
<1>3. Run(bytes, i) = Max(S(i)) /\ Run(bytes, i - 1) = Max(S(i - 1))
    BY DEF Run
<1>4. Max(S(i)) \in 0 .. i - 1
    <2>1. \A c \in S(i) : c \in 0 .. i - 1
        OBVIOUS
    <2>. HIDE DEF S
    <2>. QED BY <1>2, <2>1
<1>5. ASSUME i = 1 \/ bytes[i - 1] # Backslash
      PROVE  Max(S(i)) = i - 1
    <2>1. i - 1 \in S(i)
        BY <1>5
    <2>2. \A c \in S(i) : c \in Int /\ c <= i - 1
        BY <1>1
    <2>. HIDE DEF S
    <2>. QED BY <2>1, <2>2, LargestIs
<1>6. ASSUME i # 1, bytes[i - 1] = Backslash
      PROVE  Max(S(i)) = Max(S(i - 1))
    <2>1. S(i) = S(i - 1)
        <3>1. \A j : j \in 0 .. i - 1 <=> j = i - 1 \/ j \in 0 .. (i - 1) - 1
            BY <1>6
        <3>2. i - 1 # 0
            BY <1>6
        <3>. QED BY <1>6, <3>1, <3>2
    <2>. HIDE DEF S
    <2>. QED BY <2>1
<1>. HIDE DEF S
<1>. QED BY <1>3, <1>4, <1>5, <1>6

\* A backslash begins an escape if the one before it does not.
LEMMA EscapeStep ==
    ASSUME NEW bytes \in Seq(Byte), NEW i \in 1 .. Len(bytes)
    PROVE  i \in EscapesIn(bytes) <=> bytes[i] = Backslash /\ i - 1 \notin EscapesIn(bytes)
<1>1. i \in Nat /\ i # 0 /\ DOMAIN bytes = 1 .. Len(bytes)
    OBVIOUS
<1>2. \A k : k \in EscapesIn(bytes) <=>
                 /\ k \in 1 .. Len(bytes) /\ bytes[k] = Backslash /\ (k - Run(bytes, k) - 1) % 2 = 0
    BY <1>1 DEF EscapesIn, Run
<1>3. CASE i = 1
    <2>1. Run(bytes, i) = i - 1 /\ i - 1 \notin EscapesIn(bytes)
        BY <1>1, <1>2, <1>3, RunIs
    <2>2. (i - Run(bytes, i) - 1) % 2 = 0
        BY <1>1, <2>1
    <2>. QED BY <1>2, <2>1, <2>2
<1>4. CASE i # 1 /\ bytes[i - 1] # Backslash
    <2>1. Run(bytes, i) = i - 1 /\ i - 1 \notin EscapesIn(bytes)
        BY <1>1, <1>2, <1>4, RunIs
    <2>2. (i - Run(bytes, i) - 1) % 2 = 0
        BY <1>1, <2>1
    <2>. QED BY <1>2, <2>1, <2>2
<1>5. CASE i # 1 /\ bytes[i - 1] = Backslash
    <2>1. Run(bytes, i) = Run(bytes, i - 1)
        BY <1>1, <1>5, RunIs
    <2>2. i - 1 \in Nat /\ i - 1 # 0 /\ i - 1 \in 1 .. Len(bytes)
        BY <1>1, <1>5
    <2>3. PICK r \in 0 .. (i - 1) - 1 : r = Run(bytes, i - 1)
        BY <2>2, RunIs
    <2>4. (i - r - 1) % 2 = 0 <=> ~(((i - 1) - r - 1) % 2 = 0)
        <3>1. PICK m \in Nat : m = (i - 1) - r - 1
            BY <1>1, <2>2, <2>3
        <3>2. i - r - 1 = m + 1
            BY <1>1, <2>3, <3>1
        <3>3. (m + 1) % 2 = 0 <=> ~(m % 2 = 0)
            OBVIOUS
        <3>. QED BY <3>1, <3>2, <3>3
    <2>. QED BY <1>2, <1>5, <2>1, <2>2, <2>3, <2>4
<1>. QED BY <1>3, <1>4, <1>5

-----------------------------------------------------------------------------
(* Counting what is kept                                                    *)

Among(kept, i, j) == {h \in kept : i <= h /\ h <= j}

LEMMA CountAmong ==
    ASSUME NEW n \in Nat, NEW kept \in SUBSET (1 .. n), NEW i \in 1 .. n, NEW j \in Nat
    PROVE  /\ IsFiniteSet(Among(kept, i, j)) /\ Cardinality(Among(kept, i, j)) \in Nat
           /\ i \in kept /\ i <= j =>
                  Cardinality(Among(kept, i, j)) = 1 + Cardinality(Among(kept, i + 1, j))
           /\ i \notin kept => Among(kept, i, j) = Among(kept, i + 1, j)
<1>1. IsFiniteSet(1 .. n)
    BY FS_Interval
<1>2. \A k : IsFiniteSet(Among(kept, k, j)) /\ Cardinality(Among(kept, k, j)) \in Nat
    <2>1. SUFFICES ASSUME NEW k PROVE IsFiniteSet(Among(kept, k, j)) /\ Cardinality(Among(kept, k, j)) \in Nat
        OBVIOUS
    <2>2. Among(kept, k, j) \in SUBSET (1 .. n)
        BY DEF Among
    <2>. QED BY <1>1, <2>2, FS_Subset, FS_CardinalityType
<1>3. \A h \in kept : i <= h <=> h = i \/ i + 1 <= h
    OBVIOUS
<1>4. i \notin kept => Among(kept, i, j) = Among(kept, i + 1, j)
    BY <1>3 DEF Among
<1>5. ASSUME i \in kept, i <= j
      PROVE  Cardinality(Among(kept, i, j)) = 1 + Cardinality(Among(kept, i + 1, j))
    <2>1. Among(kept, i, j) = Among(kept, i + 1, j) \cup {i}
        BY <1>3, <1>5 DEF Among
    <2>2. i \notin Among(kept, i + 1, j)
        BY DEF Among
    <2>3. Cardinality(Among(kept, i + 1, j) \cup {i}) = Cardinality(Among(kept, i + 1, j)) + 1
        BY <1>2, <2>2, FS_AddElement
    <2>4. Cardinality(Among(kept, i + 1, j)) \in Nat
        BY <1>2
    <2>. QED BY <2>1, <2>3, <2>4
<1>. QED BY <1>2, <1>4, <1>5

-----------------------------------------------------------------------------
(* Decoding from a place on                                                 *)

KeptOf(bytes) == DOMAIN bytes \ EscapesIn(bytes)

\* There is an escape from i on that is none.
Spoilt(bytes, i) ==
    \E e \in EscapesIn(bytes) : e >= i /\ (e = Len(bytes) \/ bytes[e + 1] \notin DOMAIN Unescaped)

\* What a byte that is kept stands for.
Stands(bytes, j) == IF j - 1 \in EscapesIn(bytes) THEN Unescaped[bytes[j]] ELSE bytes[j]

CountIn(bytes, i, j) == Cardinality(Among(KeptOf(bytes), i, j))

\* The value is what the bytes from i on decode to.
DecodesFrom(value, bytes, i) ==
    IF Spoilt(bytes, i) THEN value = Undecodable
    ELSE /\ value \in Seq(Byte) /\ Len(value) = CountIn(bytes, i, Len(bytes))
         /\ \A j \in Among(KeptOf(bytes), i, Len(bytes)) :
                /\ CountIn(bytes, i, j) \in 1 .. Len(value)
                /\ value[CountIn(bytes, i, j)] = Stands(bytes, j)

LEMMA DecodesAll ==
    ASSUME NEW bytes \in Seq(Byte), NEW value, DecodesFrom(value, bytes, 1),
           Undecodable \notin Seq(Byte)
    PROVE  IsDecodingOf(value, bytes)
<1>. DEFINE kept == DOMAIN bytes \ EscapesIn(bytes)
            place(i) == Cardinality({j \in kept : j <= i})
<1>1. DOMAIN bytes = 1 .. Len(bytes) /\ Len(bytes) \in Nat /\ EscapesIn(bytes) \subseteq DOMAIN bytes
    BY DEF EscapesIn
<1>2. Spoilt(bytes, 1) <=> \E i \in EscapesIn(bytes) : i = Len(bytes) \/ bytes[i + 1] \notin DOMAIN Unescaped
    BY <1>1 DEF Spoilt
<1>3. CASE Spoilt(bytes, 1)
    BY <1>2, <1>3 DEF DecodesFrom, IsDecodingOf
<1>4. CASE ~Spoilt(bytes, 1)
    <2>1. /\ value \in Seq(Byte) /\ Len(value) = CountIn(bytes, 1, Len(bytes))
          /\ \A j \in Among(KeptOf(bytes), 1, Len(bytes)) : value[CountIn(bytes, 1, j)] = Stands(bytes, j)
        BY <1>4 DEF DecodesFrom
    <2>2. Among(KeptOf(bytes), 1, Len(bytes)) = kept
        BY <1>1 DEF Among, KeptOf
    <2>3. \A i \in kept : CountIn(bytes, 1, i) = place(i)
        <3>1. SUFFICES ASSUME NEW i \in kept PROVE Among(kept, 1, i) = {j \in kept : j <= i}
            BY DEF CountIn, KeptOf
        <3>. QED BY <1>1 DEF Among
    <2>4. value # Undecodable /\ Len(value) = Cardinality(kept)
        BY <2>1, <2>2 DEF CountIn
    <2>5. \A i \in kept : value[place(i)] = IF i - 1 \in EscapesIn(bytes) THEN Unescaped[bytes[i]] ELSE bytes[i]
        <3>1. SUFFICES ASSUME NEW i \in kept PROVE value[CountIn(bytes, 1, i)] = Stands(bytes, i)
            BY <2>3 DEF Stands
        <3>2. i \in Among(KeptOf(bytes), 1, Len(bytes))
            BY <2>2
        <3>. QED BY <2>1, <3>2
    <2>. QED BY <1>2, <1>4, <2>4, <2>5 DEF IsDecodingOf
<1>. QED BY <1>3, <1>4

\* Behind the last byte nothing is left.
LEMMA DecodesNothing ==
    ASSUME NEW bytes \in Seq(Byte)
    PROVE  DecodesFrom(<<>>, bytes, Len(bytes) + 1)
<1>1. DOMAIN bytes = 1 .. Len(bytes) /\ Len(bytes) \in Nat /\ EscapesIn(bytes) \subseteq DOMAIN bytes
    BY DEF EscapesIn
<1>2. ~Spoilt(bytes, Len(bytes) + 1)
    BY <1>1 DEF Spoilt
<1>3. Among(KeptOf(bytes), Len(bytes) + 1, Len(bytes)) = {}
    BY <1>1 DEF Among, KeptOf
<1>4. CountIn(bytes, Len(bytes) + 1, Len(bytes)) = 0
    BY <1>3, FS_EmptySet DEF CountIn
<1>5. <<>> \in Seq(Byte) /\ Len(<<>>) = 0
    OBVIOUS
<1>. QED BY <1>2, <1>3, <1>4, <1>5 DEF DecodesFrom

\* A byte that is kept comes before what the rest decodes to.
LEMMA DecodesKept ==
    ASSUME NEW bytes \in Seq(Byte), NEW i \in 1 .. Len(bytes), i \notin EscapesIn(bytes),
           NEW rest, DecodesFrom(rest, bytes, i + 1), Undecodable \notin Seq(Byte),
           i - 1 \in EscapesIn(bytes) => bytes[i] \in DOMAIN Unescaped
    PROVE  DecodesFrom(IF rest = Undecodable THEN Undecodable ELSE <<Stands(bytes, i)>> \o rest, bytes, i)
<1>. DEFINE value == <<Stands(bytes, i)>> \o rest
            kept == KeptOf(bytes)
            n == Len(bytes)
<1>1. n \in Nat /\ DOMAIN bytes = 1 .. n /\ EscapesIn(bytes) \subseteq 1 .. n /\ i \in Nat /\ i <= n
    BY DEF EscapesIn
<1>2. Spoilt(bytes, i) <=> Spoilt(bytes, i + 1)
    BY <1>1 DEF Spoilt
<1>3. CASE Spoilt(bytes, i + 1)
    BY <1>2, <1>3 DEF DecodesFrom
<1>4. CASE ~Spoilt(bytes, i + 1)
    <2>1. /\ rest \in Seq(Byte) /\ rest # Undecodable /\ Len(rest) = CountIn(bytes, i + 1, n)
          /\ \A j \in Among(kept, i + 1, n) : /\ CountIn(bytes, i + 1, j) \in 1 .. Len(rest)
                                              /\ rest[CountIn(bytes, i + 1, j)] = Stands(bytes, j)
        BY <1>4 DEF DecodesFrom
    <2>2. Stands(bytes, i) \in Byte
        BY UnescapedIsByte DEF Stands
    <2>. DEFINE s == Stands(bytes, i)
    <2>. HIDE DEF s
    <2>3. /\ value \in Seq(Byte) /\ Len(value) = 1 + Len(rest) /\ value[1] = s
          /\ \A k \in 1 .. Len(rest) : value[1 + k] = rest[k]
        <3>1. s \in Byte
            BY <2>2 DEF s
        <3>2. <<s>> \in Seq(Byte) /\ Len(<<s>>) = 1 /\ <<s>>[1] = s
            BY <3>1
        <3>3. value = <<s>> \o rest
            BY DEF s
        <3>. QED BY <2>1, <3>2, <3>3, ConcatProperties
    <2>. HIDE DEF value, kept
    <2>4. kept \in SUBSET (1 .. n) /\ i \in kept
        BY <1>1 DEF KeptOf, kept
    <2>5. \A j \in i .. n : CountIn(bytes, i, j) = 1 + CountIn(bytes, i + 1, j)
        <3>1. SUFFICES ASSUME NEW j \in i .. n
                       PROVE  Cardinality(Among(kept, i, j)) = 1 + Cardinality(Among(kept, i + 1, j))
            BY DEF CountIn, kept
        <3>2. j \in Nat /\ i <= j /\ i \in 1 .. n
            BY <1>1
        <3>. QED BY <1>1, <2>4, <3>2, CountAmong
    <2>6. Len(value) = CountIn(bytes, i, n)
        <3>1. CountIn(bytes, i, n) = 1 + CountIn(bytes, i + 1, n)
            BY <1>1, <2>5
        <3>2. CountIn(bytes, i + 1, n) = Len(rest)
            BY <2>1
        <3>. QED BY <2>3, <3>1, <3>2
    <2>7. ASSUME NEW j \in Among(kept, i, n)
          PROVE  CountIn(bytes, i, j) \in 1 .. Len(value) /\ value[CountIn(bytes, i, j)] = Stands(bytes, j)
        <3>0. j \in i .. n /\ j \in kept /\ Len(rest) \in Nat
            BY <1>1, <2>1, <2>4 DEF Among
        <3>1. CASE j = i
            <4>1. Among(kept, i + 1, i) = {}
                <5>1. \A h \in kept : ~(i + 1 <= h /\ h <= i)
                    BY <1>1, <2>4
                <5>. QED BY <5>1 DEF Among
            <4>2. CountIn(bytes, i + 1, i) = 0
                BY <4>1, FS_EmptySet DEF CountIn, kept
            <4>3. CountIn(bytes, i, i) = 1
                BY <1>1, <2>5, <4>2
            <4>. QED BY <2>3, <3>0, <3>1, <4>3 DEF s
        <3>2. CASE j # i
            <4>1. j \in Among(kept, i + 1, n)
                BY <1>1, <3>0, <3>2 DEF Among
            <4>2. /\ CountIn(bytes, i + 1, j) \in 1 .. Len(rest)
                  /\ rest[CountIn(bytes, i + 1, j)] = Stands(bytes, j)
                BY <2>1, <4>1
            <4>3. CountIn(bytes, i, j) = 1 + CountIn(bytes, i + 1, j)
                BY <2>5, <3>0
            <4>. QED BY <2>3, <3>0, <4>2, <4>3
        <3>. QED BY <3>1, <3>2
    <2>8. DecodesFrom(value, bytes, i)
        BY <1>2, <1>4, <2>3, <2>6, <2>7 DEF DecodesFrom, kept
    <2>. QED BY <2>1, <2>8 DEF value
<1>. QED BY <1>3, <1>4

\* A byte that begins an escape is gone; a good one spoils nothing.
LEMMA DecodesEscape ==
    ASSUME NEW bytes \in Seq(Byte), NEW i \in 1 .. Len(bytes), i \in EscapesIn(bytes),
           NEW rest
    PROVE  /\ i = Len(bytes) \/ bytes[i + 1] \notin DOMAIN Unescaped => DecodesFrom(Undecodable, bytes, i)
           /\ ~(i = Len(bytes) \/ bytes[i + 1] \notin DOMAIN Unescaped) /\ DecodesFrom(rest, bytes, i + 1)
                  => DecodesFrom(rest, bytes, i)
<1>. DEFINE n == Len(bytes)
            kept == KeptOf(bytes)
<1>1. n \in Nat /\ DOMAIN bytes = 1 .. n /\ EscapesIn(bytes) \subseteq 1 .. n /\ i \in Nat /\ i <= n
    BY DEF EscapesIn
<1>2. ASSUME i = n \/ bytes[i + 1] \notin DOMAIN Unescaped
      PROVE  DecodesFrom(Undecodable, bytes, i)
    <2>1. Spoilt(bytes, i)
        <3>1. i >= i
            BY <1>1
        <3>. QED BY <1>2, <3>1, Zenon DEF Spoilt
    <2>. QED BY <2>1 DEF DecodesFrom
<1>3. ASSUME ~(i = n \/ bytes[i + 1] \notin DOMAIN Unescaped), DecodesFrom(rest, bytes, i + 1)
      PROVE  DecodesFrom(rest, bytes, i)
    <2>1. Spoilt(bytes, i) <=> Spoilt(bytes, i + 1)
        <3>1. \A e \in EscapesIn(bytes) : e >= i <=> e = i \/ e >= i + 1
            BY <1>1
        <3>. QED BY <1>3, <3>1, Zenon DEF Spoilt
    <2>2. kept \in SUBSET (1 .. n) /\ i \notin kept
        BY <1>1 DEF KeptOf
    <2>. HIDE DEF kept
    <2>3. \A j \in Nat : Among(kept, i, j) = Among(kept, i + 1, j)
        BY <1>1, <2>2, CountAmong
    <2>4. \A j \in Nat : CountIn(bytes, i, j) = CountIn(bytes, i + 1, j)
        BY <2>3 DEF CountIn, kept
    <2>5. \A j \in Among(kept, i + 1, n) : j \in Nat
        BY <2>2 DEF Among
    <2>6. /\ Among(kept, i, n) = Among(kept, i + 1, n)
          /\ CountIn(bytes, i, n) = CountIn(bytes, i + 1, n)
          /\ \A j \in Among(kept, i, n) : CountIn(bytes, i, j) = CountIn(bytes, i + 1, j)
        BY <1>1, <2>3, <2>4, <2>5
    <2>7. Among(KeptOf(bytes), i, n) = Among(KeptOf(bytes), i + 1, n)
        BY <2>6 DEF kept
    <2>. QED BY <1>3, <2>1, <2>6, <2>7 DEF DecodesFrom, kept
<1>. QED BY <1>2, <1>3

\* The decoding of the code, one step of it.
DecodeStep(bytes, d, i) ==
    IF i > Len(bytes) THEN <<>>
    ELSE IF bytes[i] # Backslash
         THEN IF d[i + 1] = Undecodable THEN Undecodable ELSE <<bytes[i]>> \o d[i + 1]
    ELSE IF i = Len(bytes) \/ bytes[i + 1] \notin DOMAIN Unescaped \/ d[i + 2] = Undecodable
         THEN Undecodable
    ELSE <<Unescaped[bytes[i + 1]]>> \o d[i + 2]

\* A function that decodes from every place from k on.
IsDecoder(bytes, d, k) == d = [i \in k .. Len(bytes) + 2 |-> DecodeStep(bytes, d, i)]

\* What decodes from the next place on can be made to decode from this one too.
LEMMA DecoderGrows ==
    ASSUME NEW bytes \in Seq(Byte), NEW k \in 1 .. Len(bytes) + 2, NEW d,
           IsDecoder(bytes, d, k + 1)
    PROVE  \E e : IsDecoder(bytes, e, k)
<1>. DEFINE n == Len(bytes) + 2
            e == [i \in k .. n |-> IF i = k THEN DecodeStep(bytes, d, k) ELSE d[i]]
<1>0. n \in Nat /\ k \in Nat
    OBVIOUS
<1>1. \A i \in k + 1 .. n : d[i] = DecodeStep(bytes, d, i)
    BY Zenon DEF IsDecoder
<1>2. \A i \in k + 1 .. n : i \in k .. n /\ e[i] = d[i]
    BY <1>0
<1>3. e[k] = DecodeStep(bytes, d, k)
    BY <1>0
<1>4. ASSUME NEW i \in k .. n
      PROVE  DecodeStep(bytes, e, i) = DecodeStep(bytes, d, i)
    <2>. HIDE DEF e
    <2>1. CASE i > Len(bytes)
        BY <2>1, Zenon DEF DecodeStep
    <2>2. CASE ~(i > Len(bytes))
        <3>1. i + 1 \in k + 1 .. n /\ i + 2 \in k + 1 .. n
            BY <1>0, <2>2
        <3>2. e[i + 1] = d[i + 1] /\ e[i + 2] = d[i + 2]
            BY <1>2, <3>1
        <3>. QED BY <3>2, Zenon DEF DecodeStep
    <2>. QED BY <2>1, <2>2
<1>5. \A i \in k .. n : e[i] = DecodeStep(bytes, e, i)
    <2>1. SUFFICES ASSUME NEW i \in k .. n PROVE e[i] = DecodeStep(bytes, d, i)
        BY <1>4
    <2>2. CASE i = k
        BY <1>3, <2>2
    <2>3. CASE i # k
        <3>1. i \in k + 1 .. n
            BY <1>0, <2>3
        <3>. QED BY <1>1, <1>2, <3>1, Zenon
    <2>. QED BY <2>2, <2>3
<1>6. e = [i \in k .. n |-> DecodeStep(bytes, e, i)]
    <2>. DEFINE w == [i \in k .. n |-> DecodeStep(bytes, e, i)]
    <2>1. e = [i \in k .. n |-> e[i]]
        OBVIOUS
    <2>. HIDE DEF e
    <2>. QED BY <1>5, <2>1, Zenon
<1>7. IsDecoder(bytes, e, k)
    <2>. HIDE DEF e
    <2>. QED BY <1>6, Zenon DEF IsDecoder
<1>. HIDE DEF e
<1>. QED BY <1>7

LEMMA DecoderExists ==
    ASSUME NEW bytes \in Seq(Byte)
    PROVE  \E d : IsDecoder(bytes, d, 1)
<1>. DEFINE n == Len(bytes) + 2
            Without == {m \in Nat : n - m \in 1 .. n /\ ~\E d : IsDecoder(bytes, d, n - m)}
<1>0. n \in Nat /\ n >= 2
    OBVIOUS
<1>1. SUFFICES ASSUME ~\E d : IsDecoder(bytes, d, 1) PROVE FALSE
    OBVIOUS
<1>2. n - 1 \in Without
    <2>1. n - (n - 1) = 1 /\ n - 1 \in Nat
        BY <1>0
    <2>. QED BY <1>0, <1>1, <2>1
<1>3. PICK m \in Without : \A h \in Without : ~(h < m)
    <2>1. Without \in SUBSET Nat /\ Without # {}
        BY <1>2
    <2>. HIDE DEF Without
    <2>. QED BY <2>1, LeastNumber
<1>. DEFINE k == n - m
<1>4. m \in Nat /\ k \in 1 .. n /\ ~\E d : IsDecoder(bytes, d, k)
    BY <1>3
<1>5. \E d : IsDecoder(bytes, d, k + 1)
    <2>1. CASE k = n
        <3>1. k + 1 .. n = {}
            BY <1>0, <2>1
        <3>. DEFINE d == [i \in {} |-> <<>>]
        <3>2. d = [i \in {} |-> DecodeStep(bytes, d, i)]
            OBVIOUS
        <3>3. IsDecoder(bytes, d, k + 1)
            <4>. HIDE DEF d, k
            <4>. QED BY <3>1, <3>2, Zenon DEF IsDecoder
        <3>. QED BY <3>3, Zenon
    <2>2. CASE k # n
        <3>1. m - 1 \in Nat /\ m - 1 < m /\ n - (m - 1) = k + 1 /\ k + 1 \in 1 .. n
            BY <1>0, <1>4, <2>2
        <3>2. m - 1 \notin Without
            BY <1>3, <3>1
        <3>. QED BY <3>1, <3>2
    <2>. QED BY <2>1, <2>2
<1>. HIDE DEF k
<1>. QED BY <1>4, <1>5, DecoderGrows

\* From every place that the decoding comes to, it decodes what is left.
LEMMA DecoderIsExact ==
    ASSUME NEW bytes \in Seq(Byte), NEW d, IsDecoder(bytes, d, 1), Undecodable \notin Seq(Byte)
    PROVE  \A i \in 1 .. Len(bytes) + 1 : i - 1 \notin EscapesIn(bytes) => DecodesFrom(d[i], bytes, i)
<1>. DEFINE n == Len(bytes) + 1
            Wrong == {m \in Nat : /\ n - m \in 1 .. n /\ (n - m) - 1 \notin EscapesIn(bytes)
                                  /\ ~DecodesFrom(d[n - m], bytes, n - m)}
<1>0. n \in Nat /\ Len(bytes) \in Nat
    OBVIOUS
<1>1. SUFFICES ASSUME NEW j \in 1 .. n, j - 1 \notin EscapesIn(bytes), ~DecodesFrom(d[j], bytes, j)
               PROVE  FALSE
    OBVIOUS
<1>2. n - j \in Wrong
    <2>1. n - (n - j) = j /\ n - j \in Nat
        BY <1>0
    <2>. QED BY <1>1, <2>1
<1>3. PICK m \in Wrong : \A h \in Wrong : ~(h < m)
    <2>1. Wrong \in SUBSET Nat /\ Wrong # {}
        BY <1>2
    <2>. HIDE DEF Wrong
    <2>. QED BY <2>1, LeastNumber
<1>. DEFINE i == n - m
<1>4. m \in Nat /\ i \in 1 .. n /\ i - 1 \notin EscapesIn(bytes) /\ ~DecodesFrom(d[i], bytes, i)
    BY <1>3
<1>5. d[i] = DecodeStep(bytes, d, i)
    <2>1. i \in 1 .. Len(bytes) + 2
        BY <1>4
    <2>. HIDE DEF i
    <2>. QED BY <2>1, Zenon DEF IsDecoder
<1>6. ASSUME NEW k \in 1 .. n, i < k, k - 1 \notin EscapesIn(bytes)
      PROVE  DecodesFrom(d[k], bytes, k)
    <2>1. n - k \in Nat /\ n - k < m /\ n - (n - k) = k
        BY <1>0, <1>4, <1>6
    <2>2. n - k \notin Wrong
        BY <1>3, <2>1
    <2>. QED BY <1>6, <2>1, <2>2
<1>. HIDE DEF i, Wrong
<1>7. CASE i = n
    <2>1. d[i] = <<>>
        BY <1>0, <1>5, <1>7 DEF DecodeStep
    <2>. QED BY <1>4, <1>7, <2>1, DecodesNothing
<1>8. CASE i # n
    <2>1. i \in 1 .. Len(bytes) /\ ~(i > Len(bytes)) /\ i + 1 \in 1 .. n /\ i < i + 1 /\ i + 1 - 1 = i
        BY <1>0, <1>4, <1>8
    <2>2. CASE bytes[i] # Backslash
        <3>1. i \notin EscapesIn(bytes)
            BY <2>1, <2>2, EscapeStep
        <3>2. DecodesFrom(d[i + 1], bytes, i + 1)
            BY <1>6, <2>1, <3>1
        <3>3. Stands(bytes, i) = bytes[i]
            BY <1>4 DEF Stands
        <3>4. d[i] = IF d[i + 1] = Undecodable THEN Undecodable ELSE <<Stands(bytes, i)>> \o d[i + 1]
            BY <1>5, <2>1, <2>2, <3>3, Zenon DEF DecodeStep
        <3>5. DecodesFrom(d[i], bytes, i)
            BY <1>4, <2>1, <3>1, <3>2, <3>4, DecodesKept
        <3>. QED BY <1>4, <3>5
    <2>3. CASE bytes[i] = Backslash /\ (i = Len(bytes) \/ bytes[i + 1] \notin DOMAIN Unescaped)
        <3>1. i \in EscapesIn(bytes)
            BY <1>4, <2>1, <2>3, EscapeStep
        <3>2. d[i] = Undecodable
            BY <1>5, <2>1, <2>3, Zenon DEF DecodeStep
        <3>. QED BY <1>4, <2>1, <2>3, <3>1, <3>2, DecodesEscape
    <2>4. CASE bytes[i] = Backslash /\ ~(i = Len(bytes) \/ bytes[i + 1] \notin DOMAIN Unescaped)
        <3>1. i \in EscapesIn(bytes)
            BY <1>4, <2>1, <2>4, EscapeStep
        <3>2. i + 1 \in 1 .. Len(bytes) /\ i + 2 \in 1 .. n /\ i < i + 2 /\ i + 2 - 1 = i + 1
              /\ (i + 1) + 1 = i + 2
            BY <1>0, <2>1, <2>4
        <3>3. i + 1 \notin EscapesIn(bytes)
            BY <2>1, <3>1, <3>2, EscapeStep
        <3>4. DecodesFrom(d[i + 2], bytes, i + 2)
            BY <1>6, <3>2, <3>3
        <3>5. Stands(bytes, i + 1) = Unescaped[bytes[i + 1]]
            BY <2>1, <3>1 DEF Stands
        <3>6. d[i] = IF d[i + 2] = Undecodable THEN Undecodable ELSE <<Stands(bytes, i + 1)>> \o d[i + 2]
            BY <1>5, <2>1, <2>4, <3>5, Zenon DEF DecodeStep
        <3>7. DecodesFrom(d[i], bytes, i + 1)
            BY <2>4, <3>2, <3>3, <3>4, <3>6, DecodesKept
        <3>8. DecodesFrom(d[i], bytes, i)
            BY <2>1, <2>4, <3>1, <3>7, DecodesEscape
        <3>. QED BY <1>4, <3>8
    <2>. QED BY <2>2, <2>3, <2>4
<1>. QED BY <1>7, <1>8

\* The code decodes to what the bytes stand for.
LEMMA DecodesFromStart ==
    ASSUME NEW bytes \in Seq(Byte), Undecodable \notin Seq(Byte)
    PROVE  DecodesFrom(DecodeValue(bytes), bytes, 1)
<1>. DEFINE d == CHOOSE d : IsDecoder(bytes, d, 1)
<1>1. DecodeValue(bytes) = d[1]
    BY DEF DecodeValue, IsDecoder, DecodeStep
<1>2. IsDecoder(bytes, d, 1)
    BY DecoderExists, Zenon
<1>. HIDE DEF d
<1>3. 1 \in 1 .. Len(bytes) + 1 /\ 1 - 1 \notin EscapesIn(bytes)
    BY DEF EscapesIn
<1>4. DecodesFrom(d[1], bytes, 1)
    BY <1>2, <1>3, DecoderIsExact
<1>. QED BY <1>1, <1>4

LEMMA DecodeIsDecoding ==
    ASSUME NEW bytes \in Seq(Byte), Undecodable \notin Seq(Byte)
    PROVE  IsDecodingOf(DecodeValue(bytes), bytes)
BY DecodesFromStart, DecodesAll

LEMMA DecodedIsBytes ==
    ASSUME NEW bytes \in Seq(Byte), Undecodable \notin Seq(Byte)
    PROVE  DecodeValue(bytes) \in Seq(Byte) \cup {Undecodable}
BY DecodesFromStart DEF DecodesFrom

-----------------------------------------------------------------------------
(* What is said of the file that was read                                   *)

\* Lines of any names and values; those of Names and Values are the reader's.
Lines(N, V) == [kind : {"blank", "header", "entry", "junk"}, name : N,
                value : V \cup {Undecodable}, size : Nat]

Entries(N, V) == [line : Lines(N, V), end : Nat]

\* The types of the reader's variables.
ReaderTypes(N, V) ==
    /\ values \in [AllowedKeys -> V \cup {Absent}] /\ invalidValues \subseteq AllowedKeys
    /\ hasSection \in BOOLEAN /\ inRequestedSection \in BOOLEAN /\ hasRequestedSection \in BOOLEAN
    /\ totalBytes \in 0 .. MaximumTotalBytes /\ lineCount \in 0 .. MaximumLineCount
    /\ outcome \in {"reading", "malformed", "unreadable", "values"}
    /\ file \in Seq(Entries(N, V))

\* The line at place i is, or would be, in the requested section.
Inside(i) == \E j \in 1 .. i - 1 : HeaderOf(j, i) /\ file[j].line.name = Section

\* What is counted: the lines, and the bytes up to the end of the last one.
Counts ==
    /\ Len(file) = lineCount
    /\ \A i \in DOMAIN file : file[i].end <= totalBytes

\* What is known of the headers.
Headers ==
    /\ hasSection <=> \E i \in DOMAIN file : file[i].line.kind = "header"
    /\ hasRequestedSection <=> SectionThere
    /\ inRequestedSection <=> Inside(Len(file) + 1)

\* What is kept of an allowed key is what the last line that sets it gives.
Kept == \A k \in AllowedKeys :
    /\ (\A i \in DOMAIN file : ~Sets(i, k)) => values[k] = Absent /\ k \notin invalidValues
    /\ (\E i \in DOMAIN file : Sets(i, k)) => \E i \in DOMAIN file : SetsLast(i, k)
    /\ \A i \in DOMAIN file : SetsLast(i, k) =>
           IF file[i].line.value = Undecodable THEN values[k] = Absent /\ k \in invalidValues
           ELSE values[k] = file[i].line.value /\ k \notin invalidValues

ReaderInvariant(N, V) ==
    /\ ReaderTypes(N, V)
    /\ outcome \in {"reading", "values"} => Counts /\ WellFormed /\ Headers /\ Kept
    /\ outcome = "values" => hasRequestedSection /\ invalidValues = {}
    /\ outcome = "malformed" => ~Acceptable

-----------------------------------------------------------------------------
(* What one more line does to what is said of the file.                     *)

\* It is at the end of the file, and what was there stays.
LEMMA OneMore ==
    ASSUME NEW N, NEW V, ReaderTypes(N, V), NEW l \in Lines(N, V), Passed(l)
    PROVE  /\ file' \in Seq(Entries(N, V)) /\ Len(file) \in Nat /\ Len(file') = Len(file) + 1
           /\ DOMAIN file = 1 .. Len(file) /\ DOMAIN file' = 1 .. Len(file) + 1
           /\ \A i \in 1 .. Len(file) : file'[i] = file[i]
           /\ file'[Len(file) + 1].line = l
           /\ file'[Len(file) + 1].end = totalBytes + l.size
  <1>1. file \in Seq(Entries(N, V))
    BY DEF ReaderTypes, Entries
  <1>2. [line |-> l, end |-> totalBytes + l.size] \in Entries(N, V)
    BY DEF ReaderTypes, Entries, Lines
  <1>3. file' = Append(file, [line |-> l, end |-> totalBytes + l.size])
    BY DEF Passed
  <1>4. /\ file' \in Seq(Entries(N, V)) /\ Len(file) \in Nat /\ Len(file') = Len(file) + 1
        /\ DOMAIN file = 1 .. Len(file) /\ DOMAIN file' = 1 .. Len(file) + 1
        /\ \A i \in 1 .. Len(file) : file'[i] = file[i]
        /\ file'[Len(file) + 1] = [line |-> l, end |-> totalBytes + l.size]
    BY <1>1, <1>2, <1>3
  <1> QED BY <1>4

\* The headers of the lines before it stay their headers.
LEMMA SameHeaders ==
    ASSUME NEW N, NEW V, ReaderTypes(N, V), NEW l \in Lines(N, V), Passed(l),
           NEW i \in 1 .. Len(file) + 1
    PROVE  /\ Inside(i)' <=> Inside(i)
           /\ \A k : i <= Len(file) => (Sets(i, k)' <=> Sets(i, k))
  <1>1. Len(file) \in Nat /\ \A h \in 1 .. Len(file) : file'[h] = file[h]
    BY OneMore
  <1>2. \A j \in 1 .. i - 1 : HeaderOf(j, i)' <=> HeaderOf(j, i)
    BY <1>1 DEF HeaderOf
  <1>3. Inside(i)' <=> Inside(i)
    BY <1>1, <1>2 DEF Inside
  <1>4. ASSUME NEW k, i <= Len(file) PROVE Sets(i, k)' <=> Sets(i, k)
    BY <1>1, <1>3, <1>4 DEF Sets, Inside
  <1> QED BY <1>3, <1>4

\* Whether the next line is in the section: it is if this one is its header, or if this
\* one is in it and no header.
LEMMA NextInside ==
    ASSUME NEW N, NEW V, ReaderTypes(N, V), NEW l \in Lines(N, V), Passed(l), NEW n \in Nat, n = Len(file)
    PROVE  /\ l.kind = "header" => (Inside(n + 2)' <=> l.name = Section)
           /\ l.kind # "header" => (Inside(n + 2)' <=> Inside(n + 1))
  <1>1. /\ \A h \in 1 .. n : file'[h] = file[h]
        /\ file'[n + 1].line = l
    BY OneMore
  <1>2. CASE l.kind = "header"
    <2>1. HeaderOf(n + 1, n + 2)'
      BY <1>1, <1>2 DEF HeaderOf
    <2>2. \A j \in 1 .. n + 1 : HeaderOf(j, n + 2)' => j = n + 1
      BY <1>1, <1>2 DEF HeaderOf
    <2>3. Inside(n + 2)' <=> l.name = Section
      BY <1>1, <2>1, <2>2 DEF Inside
    <2> QED BY <1>2, <2>3
  <1>3. CASE l.kind # "header"
    <2>1. ~HeaderOf(n + 1, n + 2)'
      BY <1>1, <1>3 DEF HeaderOf
    <2>2. \A j \in 1 .. n : HeaderOf(j, n + 2)' <=> HeaderOf(j, n + 1)
      BY <1>1, <1>3 DEF HeaderOf
    <2>3. Inside(n + 2)' <=> Inside(n + 1)
      BY <1>1, <2>1, <2>2 DEF Inside
    <2> QED BY <1>3, <2>3
  <1> QED BY <1>2, <1>3

\* The new line sets a key if it is an entry of the section with its name; then it is the
\* last one to do so, and otherwise the last one stays the last.
LEMMA NextSets ==
    ASSUME NEW N, NEW V, ReaderTypes(N, V), NEW l \in Lines(N, V), Passed(l), NEW n \in Nat, n = Len(file), NEW k
    PROVE  LET sets == l.kind = "entry" /\ l.name = k /\ Inside(n + 1)
           IN /\ Sets(n + 1, k)' <=> sets
              /\ \A i \in 1 .. n : Sets(i, k)' <=> Sets(i, k)
              /\ sets => /\ SetsLast(n + 1, k)'
                         /\ \A i \in 1 .. n : ~SetsLast(i, k)'
              /\ ~sets => /\ ~SetsLast(n + 1, k)'
                          /\ \A i \in 1 .. n : SetsLast(i, k)' <=> SetsLast(i, k)
  <1>. DEFINE sets == l.kind = "entry" /\ l.name = k /\ Inside(n + 1)
  <1>1. Len(file') = n + 1 /\ file'[n + 1].line = l
    BY OneMore
  <1>2. Inside(n + 1)' <=> Inside(n + 1)
    BY <1>1, SameHeaders
  <1>3. Sets(n + 1, k)' <=> sets
    BY <1>1, <1>2 DEF Sets, Inside
  <1>4. \A i \in 1 .. n : Sets(i, k)' <=> Sets(i, k)
    BY <1>1, SameHeaders
  <1>5. sets => SetsLast(n + 1, k)' /\ \A i \in 1 .. n : ~SetsLast(i, k)'
    BY <1>1, <1>3 DEF SetsLast
  <1>6. ~sets => ~SetsLast(n + 1, k)' /\ \A i \in 1 .. n : SetsLast(i, k)' <=> SetsLast(i, k)
    BY <1>1, <1>3, <1>4 DEF SetsLast
  <1> QED BY <1>3, <1>4, <1>5, <1>6

-----------------------------------------------------------------------------
(* The steps of the reader.                                                 *)

\* A line that is refused is what makes the file one that the reader should not take.
LEMMA RefusedLine ==
    ASSUME NEW N, NEW V, ReaderInvariant(N, V), NEW l \in Lines(N, V), RefuseLine(l)
    PROVE  ReaderInvariant(N, V)'
  <1>. DEFINE n == Len(file)
  <1>1. outcome = "reading" /\ outcome' = "malformed" /\ Passed(l)
    BY DEF RefuseLine, Malformed
  <1>2. ReaderTypes(N, V) /\ Counts /\ WellFormed /\ Headers
    BY <1>1 DEF ReaderInvariant
  <1>3. /\ n \in Nat /\ Len(file') = n + 1 /\ DOMAIN file' = 1 .. n + 1 /\ DOMAIN file = 1 .. n
        /\ \A i \in 1 .. n : file'[i] = file[i]
        /\ file'[n + 1].line = l /\ file'[n + 1].end = totalBytes + l.size
    BY <1>1, <1>2, OneMore
  <1>4. ReaderTypes(N, V)'
    <2>1. file' \in Seq(Entries(N, V))
      BY <1>1, <1>2, OneMore DEF Entries
    <2> QED BY <1>1, <1>2, <2>1 DEF ReaderTypes, RefuseLine, Malformed
  <1>5. ~Acceptable'
    <2>1. CASE lineCount + 1 > MaximumLineCount
      <3>1. ~(Len(file') <= MaximumLineCount)
        BY <1>2, <1>3, <2>1, ReaderAssumption DEF Counts
      <3> QED BY <3>1 DEF Acceptable, WithinLimits
    <2>2. CASE totalBytes > MaximumTotalBytes - l.size
      <3>1. totalBytes \in Nat /\ l.size \in Nat
        BY <1>2 DEF ReaderTypes, Lines
      <3>2. ~(file'[n + 1].end <= MaximumTotalBytes)
        BY <1>3, <2>2, <3>1, ReaderAssumption
      <3> QED BY <1>3, <3>2 DEF Acceptable, WithinLimits
    <2>3. CASE l.kind = "junk"
      <3>1. ~WellFormed'
        BY <1>3, <2>3 DEF WellFormed
      <3> QED BY <3>1 DEF Acceptable
    <2>4. CASE l.kind = "entry" /\ ~hasSection
      <3>1. ~\E j \in 1 .. n : file[j].line.kind = "header"
        BY <1>2, <1>3, <2>4 DEF Headers
      <3>2. ~WellFormed'
        BY <1>3, <2>4, <3>1 DEF WellFormed
      <3> QED BY <3>2 DEF Acceptable
    <2> QED BY <2>1, <2>2, <2>3, <2>4 DEF RefuseLine, Refused, TooMuch
  <1> QED BY <1>1, <1>4, <1>5 DEF ReaderInvariant

\* A line that is counted keeps the file within the limits and well formed.
LEMMA CountedLine ==
    ASSUME NEW N, NEW V, ReaderInvariant(N, V), outcome = "reading", NEW l \in Lines(N, V), ~Refused(l), Counted(l)
    PROVE  /\ Counts' /\ WellFormed'
           /\ totalBytes' \in 0 .. MaximumTotalBytes /\ lineCount' \in 0 .. MaximumLineCount
           /\ file' \in Seq(Entries(N, V)) /\ outcome' = "reading"
  <1>. DEFINE n == Len(file)
  <1>1. Passed(l) /\ totalBytes' = totalBytes + l.size /\ lineCount' = lineCount + 1
        /\ outcome' = "reading"
    BY DEF Counted
  <1>2. ReaderTypes(N, V) /\ Counts /\ WellFormed /\ Headers
    BY DEF ReaderInvariant
  <1>3. /\ n \in Nat /\ Len(file') = n + 1 /\ DOMAIN file' = 1 .. n + 1 /\ DOMAIN file = 1 .. n
        /\ \A i \in 1 .. n : file'[i] = file[i]
        /\ file'[n + 1].line = l /\ file'[n + 1].end = totalBytes + l.size
    BY <1>1, <1>2, OneMore
  <1>4. file' \in Seq(Entries(N, V))
    BY <1>1, <1>2, OneMore DEF Entries
  <1>5. l.size \in Nat /\ totalBytes \in Nat /\ lineCount \in Nat
    BY <1>2 DEF ReaderTypes, Lines
  <1>6. totalBytes' \in 0 .. MaximumTotalBytes /\ lineCount' \in 0 .. MaximumLineCount
    BY <1>1, <1>5, ReaderAssumption DEF Refused, TooMuch
  <1>7. Counts'
    <2>1. \A i \in 1 .. n : file[i].end \in Nat /\ file[i].end <= totalBytes
      <3>1. file \in Seq(Entries(N, V))
        BY <1>2 DEF ReaderTypes, Entries
      <3>2. \A i \in DOMAIN file : file[i] \in Entries(N, V)
        BY <3>1
      <3>3. \A i \in 1 .. n : file[i].end \in Nat
        BY <1>3, <3>2 DEF Entries
      <3>4. \A i \in 1 .. n : file[i].end <= totalBytes
        BY <1>2, <1>3 DEF Counts
      <3> QED BY <3>3, <3>4
    <2>2. \A i \in 1 .. n + 1 : file'[i].end <= totalBytes + l.size
      BY <1>3, <1>5, <2>1
    <2> QED BY <1>1, <1>2, <1>3, <2>2 DEF Counts
  <1>8. WellFormed'
    <2>1. l.kind # "junk" /\ (l.kind = "entry" => \E j \in 1 .. n : file[j].line.kind = "header")
      BY <1>2, <1>3 DEF Refused, Headers
    <2>2. ASSUME NEW i \in 1 .. n
          PROVE  /\ file'[i].line.kind # "junk"
                 /\ file'[i].line.kind = "entry" => \E j \in 1 .. i - 1 : file'[j].line.kind = "header"
      <3>1. /\ file[i].line.kind # "junk"
            /\ file[i].line.kind = "entry" => \E j \in 1 .. i - 1 : file[j].line.kind = "header"
        BY <1>2, <1>3 DEF WellFormed
      <3> QED BY <1>3, <3>1
    <2>3. /\ file'[n + 1].line.kind # "junk"
          /\ file'[n + 1].line.kind = "entry" => \E j \in 1 .. n : file'[j].line.kind = "header"
      BY <1>3, <2>1
    <2> QED BY <1>3, <2>2, <2>3 DEF WellFormed
  <1> QED BY <1>1, <1>4, <1>6, <1>7, <1>8

\* A line that sets no allowed key leaves what is kept of them.
LEMMA NothingSet ==
    ASSUME NEW N, NEW V, ReaderTypes(N, V), Kept, NEW l \in Lines(N, V), Passed(l), UNCHANGED <<values, invalidValues>>,
           ~(l.kind = "entry" /\ Inside(Len(file) + 1) /\ l.name \in AllowedKeys)
    PROVE  Kept'
  <1>1. PICK n \in Nat : n = Len(file)
    BY OneMore
  <1>2. /\ DOMAIN file' = 1 .. n + 1 /\ DOMAIN file = 1 .. n
        /\ \A i \in 1 .. n : file'[i] = file[i]
    BY <1>1, OneMore
  <1>3. SUFFICES ASSUME NEW k \in AllowedKeys
        PROVE /\ (\A i \in DOMAIN file : ~Sets(i, k))' => (values[k] = Absent /\ k \notin invalidValues)'
              /\ (\E i \in DOMAIN file : Sets(i, k))' => (\E i \in DOMAIN file : SetsLast(i, k))'
              /\ \A i \in DOMAIN file' : SetsLast(i, k)' =>
                   IF file'[i].line.value = Undecodable THEN (values[k] = Absent /\ k \in invalidValues)'
                   ELSE values'[k] = file'[i].line.value /\ k \notin invalidValues'
    BY DEF Kept
  <1>4. /\ ~Sets(n + 1, k)' /\ ~SetsLast(n + 1, k)'
        /\ \A i \in 1 .. n : (Sets(i, k)' <=> Sets(i, k)) /\ (SetsLast(i, k)' <=> SetsLast(i, k))
    BY <1>1, NextSets
  <1>5. /\ (\A i \in 1 .. n : ~Sets(i, k)) => values[k] = Absent /\ k \notin invalidValues
        /\ (\E i \in 1 .. n : Sets(i, k)) => \E i \in 1 .. n : SetsLast(i, k)
        /\ \A i \in 1 .. n : SetsLast(i, k) =>
             IF file[i].line.value = Undecodable THEN values[k] = Absent /\ k \in invalidValues
             ELSE values[k] = file[i].line.value /\ k \notin invalidValues
    BY <1>2 DEF Kept
  <1> QED BY <1>1, <1>2, <1>4, <1>5

LEMMA SkippedLine ==
    ASSUME NEW N, NEW V, ReaderInvariant(N, V), NEW l \in Lines(N, V), SkipBlank(l) \/ SkipEntry(l)
    PROVE  ReaderInvariant(N, V)'
  <1>1. outcome = "reading" /\ ~Refused(l) /\ Counted(l) /\ Passed(l)
    BY DEF SkipBlank, SkipEntry, Counted
  <1>2. ReaderTypes(N, V) /\ Headers /\ Kept
    BY <1>1 DEF ReaderInvariant
  <1>3. UNCHANGED <<values, invalidValues, hasSection, inRequestedSection, hasRequestedSection>>
    BY DEF SkipBlank, SkipEntry
  <1>4. l.kind # "header" /\ ~(l.kind = "entry" /\ Inside(Len(file) + 1) /\ l.name \in AllowedKeys)
    BY <1>2 DEF SkipBlank, SkipEntry, Wanted, Headers
  <1>5. /\ Counts' /\ WellFormed' /\ outcome' = "reading"
        /\ totalBytes' \in 0 .. MaximumTotalBytes /\ lineCount' \in 0 .. MaximumLineCount
        /\ file' \in Seq(Entries(N, V))
    BY <1>1, CountedLine
  <1>6. Kept'
    BY <1>1, <1>2, <1>3, <1>4, NothingSet
  <1>7. Headers'
    <2>1. PICK n \in Nat : n = Len(file)
      BY <1>1, <1>2, OneMore
    <2>2. /\ DOMAIN file' = 1 .. n + 1 /\ DOMAIN file = 1 .. n /\ Len(file') = n + 1
          /\ \A i \in 1 .. n : file'[i] = file[i]
          /\ file'[n + 1].line = l
      BY <1>1, <1>2, <2>1, OneMore
    <2>3. Inside(n + 2)' <=> Inside(n + 1)
      BY <1>1, <1>2, <1>4, <2>1, NextInside
    <2>4. inRequestedSection' <=> Inside(Len(file) + 1)'
      BY <1>2, <1>3, <2>1, <2>2, <2>3 DEF Headers
    <2>5. hasSection' <=> (\E i \in DOMAIN file : file[i].line.kind = "header")'
      BY <1>2, <1>3, <1>4, <2>2 DEF Headers
    <2>6. SectionThere' <=> SectionThere
      BY <1>4, <2>2 DEF SectionThere
    <2>7. hasRequestedSection' <=> SectionThere'
      BY <1>2, <1>3, <2>6 DEF Headers
    <2> QED BY <2>4, <2>5, <2>7 DEF Headers
  <1>8. ReaderTypes(N, V)'
    BY <1>2, <1>3, <1>5 DEF ReaderTypes
  <1> QED BY <1>5, <1>6, <1>7, <1>8 DEF ReaderInvariant

LEMMA HeaderLineTaken ==
    ASSUME NEW N, NEW V, ReaderInvariant(N, V), NEW l \in Lines(N, V), EnterSection(l)
    PROVE  ReaderInvariant(N, V)'
  <1>1. outcome = "reading" /\ ~Refused(l) /\ Counted(l) /\ Passed(l) /\ l.kind = "header"
    BY DEF EnterSection, Counted
  <1>2. ReaderTypes(N, V) /\ Headers /\ Kept
    BY <1>1 DEF ReaderInvariant
  <1>3. UNCHANGED <<values, invalidValues>>
    BY DEF EnterSection
  <1>4. /\ Counts' /\ WellFormed' /\ outcome' = "reading"
        /\ totalBytes' \in 0 .. MaximumTotalBytes /\ lineCount' \in 0 .. MaximumLineCount
        /\ file' \in Seq(Entries(N, V))
    BY <1>1, CountedLine
  <1>5. Kept'
    BY <1>1, <1>2, <1>3, NothingSet
  <1>6. Headers'
    <2>1. PICK n \in Nat : n = Len(file)
      BY <1>1, <1>2, OneMore
    <2>2. /\ DOMAIN file' = 1 .. n + 1 /\ DOMAIN file = 1 .. n /\ Len(file') = n + 1
          /\ \A i \in 1 .. n : file'[i] = file[i]
          /\ file'[n + 1].line = l
      BY <1>1, <1>2, <2>1, OneMore
    <2>3. Inside(n + 2)' <=> l.name = Section
      BY <1>1, <1>2, <2>1, NextInside
    <2>4. inRequestedSection' <=> Inside(Len(file) + 1)'
      <3>1. inRequestedSection' <=> l.name = Section
        BY DEF EnterSection
      <3>2. Len(file') + 1 = n + 2
        BY <2>2
      <3> QED BY <2>3, <3>1, <3>2
    <2>5. hasSection' /\ (\E i \in DOMAIN file : file[i].line.kind = "header")'
      BY <1>1, <2>2 DEF EnterSection
    <2>6. SectionThere' <=> SectionThere \/ l.name = Section
      BY <1>1, <2>2 DEF SectionThere
    <2>7. hasRequestedSection' <=> SectionThere'
      BY <1>2, <2>6 DEF Headers, EnterSection
    <2> QED BY <2>4, <2>5, <2>7 DEF Headers
  <1>7. hasSection' \in BOOLEAN /\ inRequestedSection' \in BOOLEAN /\ hasRequestedSection' \in BOOLEAN
    BY DEF EnterSection
  <1>8. ReaderTypes(N, V)'
    BY <1>2, <1>3, <1>4, <1>7 DEF ReaderTypes
  <1> QED BY <1>4, <1>5, <1>6, <1>8 DEF ReaderInvariant

LEMMA EntryTaken ==
    ASSUME NEW N, NEW V, ReaderInvariant(N, V), NEW l \in Lines(N, V), TakeEntry(l)
    PROVE  ReaderInvariant(N, V)'
  <1>1. /\ outcome = "reading" /\ ~Refused(l) /\ Counted(l) /\ Passed(l) /\ l.kind = "entry"
        /\ inRequestedSection /\ l.name \in AllowedKeys
        /\ UNCHANGED <<hasSection, inRequestedSection, hasRequestedSection>>
    BY DEF TakeEntry, Counted, Wanted
  <1>2. ReaderTypes(N, V) /\ Headers /\ Kept
    BY <1>1 DEF ReaderInvariant
  <1>3. l.value \in V \cup {Undecodable}
    BY DEF Lines
  <1>4. /\ Counts' /\ WellFormed' /\ outcome' = "reading"
        /\ totalBytes' \in 0 .. MaximumTotalBytes /\ lineCount' \in 0 .. MaximumLineCount
        /\ file' \in Seq(Entries(N, V))
    BY <1>1, CountedLine
  <1>5. PICK n \in Nat : n = Len(file)
    BY <1>1, <1>2, OneMore
  <1>6. /\ DOMAIN file' = 1 .. n + 1 /\ DOMAIN file = 1 .. n /\ Len(file') = n + 1
        /\ \A i \in 1 .. n : file'[i] = file[i]
        /\ file'[n + 1].line = l
    BY <1>1, <1>2, <1>5, OneMore
  <1>7. Inside(n + 1)
    BY <1>1, <1>2, <1>5 DEF Headers
  <1>8. /\ values' \in [AllowedKeys -> V \cup {Absent}]
        /\ values'[l.name] = IF l.value = Undecodable THEN Absent ELSE l.value
        /\ \A k \in AllowedKeys : k # l.name => values'[k] = values[k]
    BY <1>1, <1>2, <1>3 DEF TakeEntry, ReaderTypes
  <1>9. /\ invalidValues' \subseteq AllowedKeys
        /\ l.name \in invalidValues' <=> l.value = Undecodable
        /\ \A k \in AllowedKeys : k # l.name => (k \in invalidValues' <=> k \in invalidValues)
    BY <1>1, <1>2 DEF TakeEntry, Invalid, ReaderTypes
  <1>10. Kept'
    <2>1. SUFFICES ASSUME NEW k \in AllowedKeys
          PROVE /\ (\A i \in DOMAIN file : ~Sets(i, k))' => (values[k] = Absent /\ k \notin invalidValues)'
                /\ (\E i \in DOMAIN file : Sets(i, k))' => (\E i \in DOMAIN file : SetsLast(i, k))'
                /\ \A i \in DOMAIN file' : SetsLast(i, k)' =>
                     IF file'[i].line.value = Undecodable THEN (values[k] = Absent /\ k \in invalidValues)'
                     ELSE values'[k] = file'[i].line.value /\ k \notin invalidValues'
      BY DEF Kept
    <2>2. CASE k = l.name
      <3>0. /\ Passed(l) /\ ReaderTypes(N, V) /\ n = Len(file)
            /\ l.kind = "entry" /\ l.name = k /\ Inside(n + 1)
        BY <1>1, <1>2, <1>5, <1>7, <2>2
      <3>1. l.kind = "entry" /\ l.name = k /\ Inside(n + 1) =>
              /\ Sets(n + 1, k)' /\ SetsLast(n + 1, k)' /\ \A i \in 1 .. n : ~SetsLast(i, k)'
        <4>1. LET sets == l.kind = "entry" /\ l.name = k /\ Inside(n + 1)
              IN /\ Sets(n + 1, k)' <=> sets
                 /\ sets => SetsLast(n + 1, k)' /\ \A i \in 1 .. n : ~SetsLast(i, k)'
          BY <3>0, NextSets
        <4> QED BY <4>1, Zenon
      <3> QED BY <1>6, <1>8, <1>9, <2>2, <3>0, <3>1
    <2>3. CASE k # l.name
      <3>1. /\ ~Sets(n + 1, k)' /\ ~SetsLast(n + 1, k)'
            /\ \A i \in 1 .. n : (Sets(i, k)' <=> Sets(i, k)) /\ (SetsLast(i, k)' <=> SetsLast(i, k))
        <4>1. ~(l.kind = "entry" /\ l.name = k /\ Inside(n + 1))
          BY <2>3
        <4>2. LET sets == l.kind = "entry" /\ l.name = k /\ Inside(n + 1)
              IN /\ Sets(n + 1, k)' <=> sets
                 /\ \A i \in 1 .. n : Sets(i, k)' <=> Sets(i, k)
                 /\ ~sets => /\ ~SetsLast(n + 1, k)'
                             /\ \A i \in 1 .. n : SetsLast(i, k)' <=> SetsLast(i, k)
          BY <1>1, <1>2, <1>5, NextSets
        <4> QED BY <4>1, <4>2
      <3>2. /\ (\A i \in 1 .. n : ~Sets(i, k)) => values[k] = Absent /\ k \notin invalidValues
            /\ (\E i \in 1 .. n : Sets(i, k)) => \E i \in 1 .. n : SetsLast(i, k)
            /\ \A i \in 1 .. n : SetsLast(i, k) =>
                 IF file[i].line.value = Undecodable THEN values[k] = Absent /\ k \in invalidValues
                 ELSE values[k] = file[i].line.value /\ k \notin invalidValues
        BY <1>2, <1>6 DEF Kept
      <3>3. values'[k] = values[k] /\ (k \in invalidValues' <=> k \in invalidValues)
        BY <1>8, <1>9, <2>3
      <3> QED BY <1>6, <3>1, <3>2, <3>3
    <2> QED BY <2>2, <2>3
  <1>11. Headers'
    <2>1. Inside(n + 2)' <=> Inside(n + 1)
      BY <1>1, <1>2, <1>5, NextInside
    <2>2. inRequestedSection' <=> Inside(Len(file) + 1)'
      BY <1>1, <1>6, <1>7, <2>1
    <2>3. hasSection' <=> (\E i \in DOMAIN file : file[i].line.kind = "header")'
      BY <1>1, <1>2, <1>6 DEF Headers
    <2>4. SectionThere' <=> SectionThere
      BY <1>1, <1>6 DEF SectionThere
    <2>5. hasRequestedSection' <=> SectionThere'
      BY <1>1, <1>2, <2>4 DEF Headers
    <2> QED BY <2>2, <2>3, <2>5 DEF Headers
  <1>12. ReaderTypes(N, V)'
    BY <1>1, <1>2, <1>4, <1>8, <1>9 DEF ReaderTypes
  <1> QED BY <1>4, <1>10, <1>11, <1>12 DEF ReaderInvariant

\* What the invariant says is about the reader's variables only.
LEMMA SameReader ==
    ASSUME NEW N, NEW V, ReaderInvariant(N, V), UNCHANGED readerVars
    PROVE  ReaderInvariant(N, V)'
  <1>1. ReaderTypes(N, V)' /\ (Counts => Counts') /\ (WellFormed => WellFormed')
    BY DEF readerVars, ReaderInvariant, ReaderTypes, Counts, WellFormed
  <1>2. Headers => Headers'
    BY DEF readerVars, Headers, SectionThere, Inside, HeaderOf
  <1>3. \A i, k : (Sets(i, k)' <=> Sets(i, k)) /\ (SetsLast(i, k)' <=> SetsLast(i, k))
    BY DEF readerVars, Sets, SetsLast, HeaderOf
  <1>4. Kept => Kept'
    BY <1>3 DEF readerVars, Kept
  <1>5. Acceptable' <=> Acceptable
    <2>1. (WithinLimits' <=> WithinLimits) /\ (WellFormed' <=> WellFormed)
          /\ (SectionThere' <=> SectionThere)
      BY DEF readerVars, WithinLimits, WellFormed, SectionThere
    <2>2. AllDecodable' <=> AllDecodable
      BY <1>3 DEF readerVars, AllDecodable
    <2> QED BY <2>1, <2>2 DEF Acceptable
  <1>6. UNCHANGED <<outcome, hasRequestedSection, invalidValues>>
    BY DEF readerVars
  <1> QED BY <1>1, <1>2, <1>4, <1>5, <1>6 DEF ReaderInvariant

\* At the end of the file the reader takes what it should.
LEMMA FileEnds ==
    ASSUME NEW N, NEW V, ReaderInvariant(N, V), EndOfFile
    PROVE  ReaderInvariant(N, V)'
  <1>1. /\ outcome = "reading"
        /\ outcome' = IF hasRequestedSection /\ invalidValues = {} THEN "values" ELSE "malformed"
        /\ UNCHANGED <<values, invalidValues, hasSection, inRequestedSection, hasRequestedSection,
                       totalBytes, lineCount, file>>
    BY DEF EndOfFile
  <1>2. ReaderTypes(N, V) /\ Counts /\ WellFormed /\ Headers /\ Kept
    BY <1>1 DEF ReaderInvariant
  <1>3. Counts' /\ WellFormed' /\ Headers'
    BY <1>1, <1>2 DEF Counts, WellFormed, Headers, SectionThere, Inside, HeaderOf
  <1>4. \A i, k : (Sets(i, k)' <=> Sets(i, k)) /\ (SetsLast(i, k)' <=> SetsLast(i, k))
    BY <1>1 DEF Sets, SetsLast, HeaderOf
  <1>5. Kept'
    BY <1>1, <1>2, <1>4 DEF Kept
  <1>6. ReaderTypes(N, V)'
    BY <1>1, <1>2 DEF ReaderTypes
  <1>7. ~(hasRequestedSection /\ invalidValues = {}) => ~Acceptable'
    <2>1. CASE ~hasRequestedSection
      <3>1. ~SectionThere'
        BY <1>1, <1>2, <2>1 DEF Headers, SectionThere
      <3> QED BY <3>1 DEF Acceptable
    <2>2. CASE invalidValues # {}
      <3>1. PICK k \in AllowedKeys : k \in invalidValues
        BY <1>2, <2>2 DEF ReaderTypes
      <3>2. PICK i \in DOMAIN file : SetsLast(i, k)
        BY <1>2, <3>1 DEF Kept
      <3>3. file[i].line.value = Undecodable
        BY <1>2, <3>1, <3>2 DEF Kept
      <3>4. ~AllDecodable'
        BY <1>1, <1>4, <3>1, <3>2, <3>3 DEF AllDecodable
      <3> QED BY <3>4 DEF Acceptable
    <2> QED BY <2>1, <2>2
  <1>8. outcome' = "values" => hasRequestedSection' /\ invalidValues' = {}
    BY <1>1
  <1>9. outcome' = "malformed" => ~Acceptable'
    BY <1>1, <1>7
  <1> QED BY <1>3, <1>5, <1>6, <1>8, <1>9 DEF ReaderInvariant

\* A file of which nothing was read.
LEMMA NothingRead ==
    ASSUME NEW N, NEW V, ReaderInit
    PROVE  ReaderInvariant(N, V)
  <1>1. ReaderTypes(N, V)
    <2>1. file \in Seq(Entries(N, V)) /\ invalidValues \subseteq AllowedKeys
      BY DEF ReaderInit
    <2>2. hasSection \in BOOLEAN /\ inRequestedSection \in BOOLEAN /\ hasRequestedSection \in BOOLEAN
      BY DEF ReaderInit
    <2>3. /\ values \in [AllowedKeys -> V \cup {Absent}]
          /\ totalBytes \in 0 .. MaximumTotalBytes /\ lineCount \in 0 .. MaximumLineCount
      BY ReaderAssumption DEF ReaderInit
    <2> QED BY <2>1, <2>2, <2>3 DEF ReaderInit, ReaderTypes
  <1>2. Len(file) = 0 /\ DOMAIN file = {}
    BY DEF ReaderInit
  <1>3. Counts /\ WellFormed
    BY <1>2 DEF ReaderInit, Counts, WellFormed
  <1>4. Headers
    BY <1>2 DEF ReaderInit, Headers, SectionThere, Inside
  <1>5. Kept
    BY <1>2 DEF ReaderInit, Kept
  <1> QED BY <1>1, <1>3, <1>4, <1>5 DEF ReaderInit, ReaderInvariant

LEMMA LineIsRead ==
    ASSUME NEW N, NEW V, ReaderInvariant(N, V), NEW l \in Lines(N, V), ReadLine(l)
    PROVE  ReaderInvariant(N, V)'
  BY RefusedLine, SkippedLine, HeaderLineTaken, EntryTaken DEF ReadLine

LEMMA ReadingFails ==
    ASSUME NEW N, NEW V, ReaderInvariant(N, V), ReadFails
    PROVE  ReaderInvariant(N, V)'
  BY DEF ReadFails, ReaderInvariant, ReaderTypes

\* What the reader keeps is what it should return, if nothing stands for no value.
LEMMA KeptIsExact ==
    ASSUME NEW N, NEW V, Absent \notin V \cup {Undecodable}, ReaderInvariant(N, V)
    PROVE  ReaderIsExact
  <1> SUFFICES ASSUME outcome = "values"
      PROVE /\ Acceptable
            /\ \A k \in AllowedKeys : values[k] = Absent <=> ~\E i \in DOMAIN file : Sets(i, k)
            /\ \A k \in AllowedKeys, i \in DOMAIN file :
                   SetsLast(i, k) => values[k] = file[i].line.value
    BY DEF ReaderInvariant, ReaderIsExact
  <1>1. /\ ReaderTypes(N, V) /\ Counts /\ WellFormed /\ Headers /\ Kept
        /\ hasRequestedSection /\ invalidValues = {}
    BY DEF ReaderInvariant
  <1>2. \A i \in DOMAIN file : file[i] \in Entries(N, V)
    <2>1. file \in Seq(Entries(N, V))
      BY <1>1 DEF ReaderTypes
    <2> QED BY <2>1
  <1>3. \A k \in AllowedKeys, i \in DOMAIN file :
           SetsLast(i, k) => file[i].line.value # Undecodable /\ values[k] = file[i].line.value
    BY <1>1 DEF Kept
  <1>4. \A k \in AllowedKeys : values[k] = Absent <=> ~\E i \in DOMAIN file : Sets(i, k)
    <2>1. \A i \in DOMAIN file : file[i].line.value # Absent
      BY <1>2 DEF Entries, Lines
    <2> QED BY <1>1, <1>3, <2>1 DEF Kept
  <1>5. WithinLimits
    <2>1. \A i \in DOMAIN file : file[i].end \in Nat
      BY <1>2 DEF Entries
    <2>2. \A i \in DOMAIN file : file[i].end <= totalBytes
      BY <1>1 DEF Counts
    <2> QED BY <1>1, <2>1, <2>2, ReaderAssumption DEF Counts, WithinLimits, ReaderTypes
  <1>6. SectionThere /\ AllDecodable
    BY <1>1, <1>3 DEF Headers, AllDecodable
  <1> QED BY <1>1, <1>3, <1>4, <1>5, <1>6 DEF Acceptable

-----------------------------------------------------------------------------
\* What the reader keeps is at every line a summary of the file so far, and what it says
\* of a file it refuses is true.
THEOREM ReaderKeepsInvariant == ReaderSpec => []ReaderInvariant(Names, Values)
  <1>1. ReaderInit => ReaderInvariant(Names, Values)
    BY NothingRead
  <1>2. ReaderInvariant(Names, Values) /\ [ReaderNext]_readerVars => ReaderInvariant(Names, Values)'
    <2> SUFFICES ASSUME ReaderInvariant(Names, Values), [ReaderNext]_readerVars
                 PROVE ReaderInvariant(Names, Values)'
      OBVIOUS
    <2>1. CASE UNCHANGED readerVars
      BY <2>1, SameReader
    <2>2. ASSUME NEW l \in Line, ReadLine(l) PROVE ReaderInvariant(Names, Values)'
      <3>1. l \in Lines(Names, Values)
        BY DEF Line, Lines
      <3> QED BY <2>2, <3>1, LineIsRead
    <2>3. CASE EndOfFile
      BY <2>3, FileEnds
    <2>4. CASE ReadFails
      BY <2>4, ReadingFails
    <2> QED BY <2>1, <2>2, <2>3, <2>4 DEF ReaderNext
  <1> QED BY <1>1, <1>2, PTL DEF ReaderSpec

\* Every variable keeps its type: the counters stay within their limits.
THEOREM ReaderTypesHold == ReaderSpec => []ReaderTypeOK
  <1>1. ReaderInvariant(Names, Values) => ReaderTypeOK
    BY DEF ReaderInvariant, ReaderTypes, ReaderTypeOK, Entries, Lines, Line
  <1> QED BY <1>1, ReaderKeepsInvariant, PTL

\* The reader returns values exactly for a file it should take, and they are those the last
\* lines of the requested section give.
THEOREM ReaderReturnsTheLast == ReaderSpec => []ReaderIsExact
  <1>1. ReaderInvariant(Names, Values) => ReaderIsExact
    BY KeptIsExact, ReaderAssumption
  <1> QED BY <1>1, ReaderKeepsInvariant, PTL

-----------------------------------------------------------------------------
(* Cutting a line                                                           *)

\* The smallest member of a set of natural numbers.
LEMMA SmallestNumber ==
    ASSUME NEW S \in SUBSET Nat, S # {}
    PROVE  Min(S) \in S /\ \A c \in S : Min(S) <= c
<1>1. PICK e \in S : \A c \in S : ~(c < e)
    BY LeastNumber
<1>2. \A c \in S : e <= c
    BY <1>1
<1>. QED BY <1>2 DEF Min

LEMMA SmallestIs ==
    ASSUME NEW S \in SUBSET Nat, NEW m \in S, \A c \in S : m <= c
    PROVE  Min(S) = m
<1>1. Min(S) \in S /\ \A c \in S : Min(S) <= c
    BY SmallestNumber
<1>2. m \in Nat /\ Min(S) \in Nat
    BY <1>1, Zenon
<1>3. Min(S) <= m /\ m <= Min(S)
    BY <1>1, Zenon
<1>. QED BY <1>2, <1>3

\* A cut of a line, which may be empty.
LEMMA Cut ==
    ASSUME NEW bytes \in Seq(Byte), NEW m \in 1 .. Len(bytes) + 1, NEW n \in m - 1 .. Len(bytes)
    PROVE  /\ SubSeq(bytes, m, n) \in Seq(Byte) /\ Len(SubSeq(bytes, m, n)) = n - m + 1
           /\ \A i \in 1 .. n - m + 1 : SubSeq(bytes, m, n)[i] = bytes[m + i - 1]
<1>1. m \in Int /\ n \in Int /\ \A i \in m .. n : bytes[i] \in Byte
    OBVIOUS
<1>. QED BY <1>1, SubSeqProperties

LEMMA CutOfCut ==
    ASSUME NEW bytes \in Seq(Byte), NEW m \in 1 .. Len(bytes) + 1, NEW n \in m - 1 .. Len(bytes),
           NEW p \in 1 .. n - m + 2, NEW q \in p - 1 .. n - m + 1
    PROVE  SubSeq(SubSeq(bytes, m, n), p, q) = SubSeq(bytes, m + p - 1, m + q - 1)
<1>. DEFINE s == SubSeq(bytes, m, n)
            t == SubSeq(s, p, q)
            u == SubSeq(bytes, m + p - 1, m + q - 1)
<1>1. s \in Seq(Byte) /\ Len(s) = n - m + 1 /\ \A i \in 1 .. n - m + 1 : s[i] = bytes[m + i - 1]
    BY Cut
<1>2. t \in Seq(Byte) /\ Len(t) = q - p + 1 /\ \A i \in 1 .. q - p + 1 : t[i] = s[p + i - 1]
    <2>. HIDE DEF s
    <2>1. p \in 1 .. Len(s) + 1 /\ q \in p - 1 .. Len(s)
        BY <1>1
    <2>. QED BY <1>1, <2>1, Cut
<1>3. u \in Seq(Byte) /\ Len(u) = q - p + 1 /\ \A i \in 1 .. q - p + 1 : u[i] = bytes[m + p - 1 + i - 1]
    <2>1. /\ m + p - 1 \in 1 .. Len(bytes) + 1 /\ m + q - 1 \in (m + p - 1) - 1 .. Len(bytes)
          /\ (m + q - 1) - (m + p - 1) + 1 = q - p + 1
        OBVIOUS
    <2>. QED BY <2>1, Cut
<1>4. \A i \in 1 .. q - p + 1 : t[i] = u[i]
    <2>. HIDE DEF s, t, u
    <2>1. SUFFICES ASSUME NEW i \in 1 .. q - p + 1 PROVE t[i] = u[i]
        OBVIOUS
    <2>2. p + i - 1 \in 1 .. n - m + 1 /\ m + (p + i - 1) - 1 = m + p - 1 + i - 1
        OBVIOUS
    <2>. QED BY <1>1, <1>2, <1>3, <2>2
<1>. HIDE DEF s, t, u
<1>5. t = u
    BY <1>2, <1>3, <1>4, SeqEqual
<1>. QED BY <1>5 DEF s, t, u

\* What is left between blanks: from p to q.
Ends(bytes, before, after, p, q) ==
    /\ \A i \in 1 .. p - 1 : bytes[i] \in before
    /\ p <= Len(bytes) => bytes[p] \notin before
    /\ q >= p => bytes[q] \notin after
    /\ \A i \in q + 1 .. Len(bytes) : bytes[i] \in after

LEMMA TrimmedIs ==
    ASSUME NEW bytes \in Seq(Byte), NEW before, NEW after,
           NEW p \in 1 .. Len(bytes) + 1, NEW q \in p - 1 .. Len(bytes),
           Ends(bytes, before, after, p, q)
    PROVE  Trimmed(bytes, before, after) = SubSeq(bytes, p, q)
<1>. DEFINE n == Len(bytes)
            solid == {i \in DOMAIN bytes : bytes[i] \notin before}
            first == IF solid = {} THEN n + 1 ELSE Min(solid)
            ending == {i \in p .. n : bytes[i] \notin after}
<1>0. n \in Nat /\ DOMAIN bytes = 1 .. n /\ p \in Nat /\ q \in Int
    OBVIOUS
<1>1. first = p
    <2>1. CASE p = n + 1
        <3>1. solid = {}
            BY <1>0, <2>1 DEF Ends
        <3>. QED BY <2>1, <3>1
    <2>2. CASE p # n + 1
        <3>1. p \in solid /\ solid \in SUBSET Nat
            BY <1>0, <2>2 DEF Ends
        <3>2. \A c \in solid : p <= c
            BY <1>0 DEF Ends
        <3>. HIDE DEF solid
        <3>3. Min(solid) = p
            BY <3>1, <3>2, SmallestIs
        <3>. QED BY <3>1, <3>3
    <2>. QED BY <2>1, <2>2
<1>2. (IF ending = {} THEN p - 1 ELSE Max(ending)) = q
    <2>1. CASE q = p - 1
        <3>1. ending = {}
            BY <1>0, <2>1 DEF Ends
        <3>. QED BY <2>1, <3>1
    <2>2. CASE q # p - 1
        <3>1. q \in ending
            BY <1>0, <2>2 DEF Ends
        <3>2. \A c \in ending : c \in Int /\ c <= q
            BY <1>0 DEF Ends
        <3>. HIDE DEF ending
        <3>3. Max(ending) = q
            BY <3>1, <3>2, LargestIs
        <3>. QED BY <3>1, <3>3
    <2>. QED BY <2>1, <2>2
<1>3. Trimmed(bytes, before, after) =
          SubSeq(bytes, first, IF {i \in first .. n : bytes[i] \notin after} = {} THEN first - 1
                               ELSE Max({i \in first .. n : bytes[i] \notin after}))
    BY Zenon DEF Trimmed
<1>. HIDE DEF first
<1>4. Trimmed(bytes, before, after) = SubSeq(bytes, p, IF ending = {} THEN p - 1 ELSE Max(ending))
    BY <1>1, <1>3, Zenon
<1>. HIDE DEF ending
<1>. QED BY <1>2, <1>4, Zenon

LEMMA TrimmedAtEnd ==
    ASSUME NEW bytes \in Seq(Byte), NEW before, NEW after, 1 \in 1 .. Len(bytes) + 1,
           NEW q \in 1 - 1 .. Len(bytes), Ends(bytes, before, after, 1, q)
    PROVE  Trimmed(bytes, before, after) = SubSeq(bytes, 1, q)
BY TrimmedIs

\* The first byte from i on that is not among some, and the last one.
LEMMA FirstOther ==
    ASSUME NEW bytes \in Seq(Byte), NEW blanks, NEW i \in 1 .. Len(bytes) + 1
    PROVE  \E p \in i .. Len(bytes) + 1 :
               /\ \A j \in i .. p - 1 : bytes[j] \in blanks
               /\ p <= Len(bytes) => bytes[p] \notin blanks
<1>. DEFINE S == {j \in i .. Len(bytes) : bytes[j] \notin blanks}
<1>0. Len(bytes) \in Nat /\ i \in Nat
    OBVIOUS
<1>1. CASE S = {}
    <2>1. \A j \in i .. (Len(bytes) + 1) - 1 : bytes[j] \in blanks
        BY <1>0, <1>1
    <2>2. Len(bytes) + 1 \in i .. Len(bytes) + 1 /\ ~(Len(bytes) + 1 <= Len(bytes))
        BY <1>0
    <2>. QED BY <2>1, <2>2
<1>2. CASE S # {}
    <2>1. S \in SUBSET Nat
        BY <1>0
    <2>2. PICK p \in S : \A c \in S : ~(c < p)
        BY <1>2, <2>1, LeastNumber
    <2>3. \A j \in i .. p - 1 : bytes[j] \in blanks
        BY <1>0, <2>2
    <2>. QED BY <1>0, <2>2, <2>3
<1>. QED BY <1>1, <1>2

LEMMA LastOther ==
    ASSUME NEW bytes \in Seq(Byte), NEW blanks, NEW i \in 1 .. Len(bytes), NEW k \in i .. Len(bytes),
           bytes[i] \notin blanks
    PROVE  \E q \in i .. k : bytes[q] \notin blanks /\ \A j \in q + 1 .. k : bytes[j] \in blanks
<1>. DEFINE S == {j \in i .. k : bytes[j] \notin blanks}
<1>1. S # {} /\ k \in Int /\ \A c \in S : c \in Int /\ c <= k
    OBVIOUS
<1>2. Max(S) \in S /\ \A c \in S : c <= Max(S)
    <2>. HIDE DEF S
    <2>. QED BY <1>1, LargestNumber
<1>3. PICK q \in S : \A c \in S : c <= q
    BY <1>2
<1>4. \A j \in q + 1 .. k : bytes[j] \in blanks
    BY <1>3
<1>. QED BY <1>3, <1>4

-----------------------------------------------------------------------------
(* Keys                                                                     *)

LEMMA BytesAreNumbers ==
    ASSUME NEW bytes \in Seq(Byte)
    PROVE  /\ Len(bytes) \in Nat /\ DOMAIN bytes = 1 .. Len(bytes)
           /\ \A i \in 1 .. Len(bytes) : bytes[i] \in Nat
           /\ bytes # <<>> => Len(bytes) >= 1
<1>1. \A i \in 1 .. Len(bytes) : bytes[i] \in Byte
    OBVIOUS
<1>2. \A b \in Byte : b \in Nat
    BY DEF Byte
<1>3. bytes # <<>> => Len(bytes) \in Nat \ {0}
    BY EmptySeq
<1>. QED BY <1>1, <1>2, <1>3

\* Where a place is in a key with a locale that begins behind m.
LEMMA Regions ==
    ASSUME NEW n \in Nat, NEW m \in 1 .. n, NEW i \in 1 .. n
    PROVE  i \in 1 .. m \/ i = m + 1 \/ i \in m + 2 .. n - 1 \/ i = n
OBVIOUS

\* A key holds no equals sign.
LEMMA KeyWithoutEquals ==
    ASSUME NEW key \in Seq(Byte), IsKey(key)
    PROVE  \A i \in 1 .. Len(key) : key[i] # Equals
<1>0. Len(key) \in Nat /\ \A i \in 1 .. Len(key) : key[i] \in Nat
    BY BytesAreNumbers
<1>1. PICK n \in 1 .. Len(key) :
          /\ \A i \in 1 .. n : key[i] \notin {Opening, Closing, Equals}
          /\ \/ n = Len(key)
             \/ /\ n + 3 <= Len(key) /\ key[n + 1] = Opening /\ Last(key) = Closing
                /\ \A i \in n + 2 .. Len(key) - 1 : LocaleByte(key[i])
    BY Zenon DEF IsKey
<1>2. Last(key) = key[Len(key)]
    BY DEF Last
<1>3. \A b \in Nat : LocaleByte(b) => b # Equals
    BY DEF LocaleByte, Equals
<1>4. Opening # Equals /\ Closing # Equals
    BY DEF Opening, Closing, Equals
<1>5. SUFFICES ASSUME NEW i \in 1 .. Len(key) PROVE key[i] # Equals
    OBVIOUS
<1>6. CASE i \in 1 .. n
    BY <1>1, <1>6
<1>7. CASE i \notin 1 .. n
    <2>1. i = n + 1 \/ i = Len(key) \/ i \in n + 2 .. Len(key) - 1
        BY <1>0, <1>7
    <2>2. n # Len(key)
        BY <1>0, <1>7
    <2>3. /\ key[n + 1] = Opening /\ key[Len(key)] = Closing
          /\ \A j \in n + 2 .. Len(key) - 1 : LocaleByte(key[j])
        BY <1>1, <1>2, <2>2
    <2>4. CASE i \in n + 2 .. Len(key) - 1
        BY <1>0, <1>3, <2>3, <2>4
    <2>5. CASE i = n + 1 \/ i = Len(key)
        BY <1>4, <2>3, <2>5
    <2>. QED BY <2>1, <2>4, <2>5
<1>. QED BY <1>6, <1>7

\* What is left between the blanks before an equals sign is a valid name exactly if it is a key.
LEMMA ValidKeyIsKey ==
    ASSUME NEW key \in Seq(Byte), key # <<>>, key[1] \notin Syntactic, Last(key) \notin Syntactic,
           \A i \in 1 .. Len(key) : key[i] # Equals
    PROVE  IsValidKeyName(key) <=> IsKey(key)
<1>. DEFINE n == Len(key)
            openings == {i \in DOMAIN key : key[i] = Opening}
            closings == {i \in DOMAIN key : key[i] = Closing}
            Locale == /\ Min(openings) # 1 /\ Cardinality(openings) = 1
                      /\ closings # {} /\ Min(closings) = n
                      /\ Min(openings) + 1 < n
                      /\ \A i \in Min(openings) + 1 .. n - 1 : LocaleByte(key[i])
            Named(m) == \A i \in 1 .. m : key[i] \notin {Opening, Closing, Equals}
            Tagged(m) == /\ m + 3 <= n /\ key[m + 1] = Opening /\ key[n] = Closing
                         /\ \A i \in m + 2 .. n - 1 : LocaleByte(key[i])
<1>0. n \in Nat /\ n >= 1 /\ DOMAIN key = 1 .. n /\ \A i \in 1 .. n : key[i] \in Nat
    BY BytesAreNumbers
<1>1. openings \in SUBSET (1 .. n) /\ closings \in SUBSET (1 .. n)
    BY <1>0
<1>2. IsValidKeyName(key) <=> IF openings = {} THEN closings = {} ELSE Locale
    BY DEF IsValidKeyName
<1>3. IsKey(key) <=> \E m \in 1 .. n : Named(m) /\ (m = n \/ Tagged(m))
    BY Zenon DEF IsKey, Last
<1>4. Opening # Closing /\ Opening \in Nat /\ Closing \in Nat
      /\ \A b \in Nat : LocaleByte(b) => b # Opening /\ b # Closing
    BY DEF LocaleByte, Opening, Closing
<1>5. ASSUME openings = {}, closings = {} PROVE IsKey(key)
    <2>1. Named(n)
        BY <1>0, <1>5
    <2>2. n \in 1 .. n
        BY <1>0
    <2>. HIDE DEF Named, Tagged, n
    <2>. QED BY <1>3, <2>1, <2>2, Zenon
<1>6. ASSUME openings # {}, Locale PROVE IsKey(key)
    <2>1. openings \in SUBSET Nat /\ closings \in SUBSET Nat
        BY <1>1
    <2>2. PICK o \in openings : o = Min(openings)
        <3>. HIDE DEF openings
        <3>. QED BY <1>6, <2>1, SmallestNumber
    <2>3. /\ \A c \in openings : o <= c
          /\ n \in closings /\ \A c \in closings : n <= c
        <3>. HIDE DEF openings, closings
        <3>. QED BY <1>6, <2>1, <2>2, SmallestNumber
    <2>4. o \in 1 .. n /\ o # 1 /\ o + 1 < n /\ key[o] = Opening /\ key[n] = Closing
          /\ \A i \in o + 1 .. n - 1 : LocaleByte(key[i])
        BY <1>0, <1>6, <2>2, <2>3
    <2>5. o - 1 \in 1 .. n /\ (o - 1) + 1 = o /\ (o - 1) + 2 = o + 1
        BY <1>0, <2>4
    <2>6. Named(o - 1)
        BY <1>0, <2>3, <2>4
    <2>7. Tagged(o - 1)
        BY <1>0, <2>4, <2>5
    <2>. HIDE DEF Named, Tagged, n
    <2>. QED BY <1>3, <2>5, <2>6, <2>7, Zenon
<1>7. ASSUME IsKey(key), openings = {} PROVE closings = {}
    <2>1. PICK m \in 1 .. n : Named(m) /\ (m = n \/ Tagged(m))
        <3>. HIDE DEF Named, Tagged, n
        <3>. QED BY <1>3, <1>7, Zenon
    <2>2. ~Tagged(m)
        <3>1. SUFFICES ASSUME Tagged(m) PROVE m + 1 \in openings
            BY <1>7
        <3>. QED BY <1>0, <3>1
    <2>3. Named(n)
        BY <2>1, <2>2
    <2>. QED BY <1>0, <2>3
<1>8. ASSUME IsKey(key), openings # {} PROVE Locale
    <2>1. PICK m \in 1 .. n : Named(m) /\ (m = n \/ Tagged(m))
        <3>. HIDE DEF Named, Tagged, n
        <3>. QED BY <1>3, <1>8, Zenon
    <2>2. m # n
        <3>1. PICK o \in openings : TRUE
            BY <1>8
        <3>. QED BY <1>0, <2>1, <3>1
    <2>3. Tagged(m)
        BY <2>1, <2>2
    <2>4. \A i \in 1 .. n : key[i] = Opening => i = m + 1
        <3>1. SUFFICES ASSUME NEW i \in 1 .. n, key[i] = Opening PROVE i = m + 1
            OBVIOUS
        <3>2. i \in 1 .. m \/ i = m + 1 \/ i \in m + 2 .. n - 1 \/ i = n
            BY <1>0, Regions
        <3>3. i \notin 1 .. m
            BY <2>1, <3>1
        <3>4. i \notin m + 2 .. n - 1
            BY <1>0, <1>4, <2>3, <3>1
        <3>5. i # n
            BY <1>4, <2>3, <3>1
        <3>. QED BY <3>2, <3>3, <3>4, <3>5
    <2>5. \A i \in 1 .. n : key[i] = Closing => i = n
        <3>1. SUFFICES ASSUME NEW i \in 1 .. n, key[i] = Closing PROVE i = n
            OBVIOUS
        <3>2. i \in 1 .. m \/ i = m + 1 \/ i \in m + 2 .. n - 1 \/ i = n
            BY <1>0, Regions
        <3>3. i \notin 1 .. m
            BY <2>1, <3>1
        <3>4. i \notin m + 2 .. n - 1
            BY <1>0, <1>4, <2>3, <3>1
        <3>5. i # m + 1
            BY <1>4, <2>3, <3>1
        <3>. QED BY <3>2, <3>3, <3>4, <3>5
    <2>6. openings = {m + 1} /\ closings = {n}
        <3>1. m + 1 \in 1 .. n /\ n \in 1 .. n /\ key[m + 1] = Opening /\ key[n] = Closing
            BY <1>0, <2>3
        <3>. QED BY <1>0, <2>4, <2>5, <3>1
    <2>7. Min(openings) = m + 1 /\ Min(closings) = n /\ Cardinality(openings) = 1 /\ closings # {}
        <3>. HIDE DEF openings, closings
        <3>1. Min({m + 1}) = m + 1
            BY <1>0, SmallestIs
        <3>2. Min({n}) = n
            BY <1>0, SmallestIs
        <3>. QED BY <2>6, <3>1, <3>2, FS_Singleton
    <2>8. \A i \in (m + 1) + 1 .. n - 1 : LocaleByte(key[i])
        BY <1>0, <2>3
    <2>9. m + 1 # 1 /\ (m + 1) + 1 < n
        BY <1>0, <2>3
    <2>. HIDE DEF openings, closings, Tagged, Named
    <2>. QED BY <2>7, <2>8, <2>9
<1>. HIDE DEF openings, closings, Locale, Named, Tagged, n
<1>. QED BY <1>2, <1>5, <1>6, <1>7, <1>8, Zenon

-----------------------------------------------------------------------------
(* Kinds of lines                                                           *)

\* What is not blank in a line begins at f.
Starts(body, f) ==
    /\ \A i \in 1 .. f - 1 : body[i] \in Syntactic
    /\ f <= Len(body) => body[f] \notin Syntactic

LEMMA BodyIsBytes ==
    ASSUME NEW text \in Seq(Byte)
    PROVE  WithoutEnding(text) \in Seq(Byte)
<1>1. \A s \in Seq(Byte) : Front(s) \in Seq(Byte)
    <2>1. SUFFICES ASSUME NEW s \in Seq(Byte) PROVE SubSeq(s, 1, Len(s) - 1) \in Seq(Byte)
        BY DEF Front
    <2>2. 1 \in Int /\ Len(s) - 1 \in Int /\ \A i \in 1 .. Len(s) - 1 : s[i] \in Byte
        OBVIOUS
    <2>. QED BY <2>2, SubSeqProperties
<1>. QED BY <1>1, Zenon DEF WithoutEnding

LEMMA BodyStarts ==
    ASSUME NEW body \in Seq(Byte)
    PROVE  \E f \in 1 .. Len(body) + 1 : Starts(body, f)
<1>1. 1 \in 1 .. Len(body) + 1
    OBVIOUS
<1>. QED BY <1>1, FirstOther DEF Starts

\* The line from there on.
LEMMA ContentIs ==
    ASSUME NEW body \in Seq(Byte), NEW f \in 1 .. Len(body) + 1, Starts(body, f)
    PROVE  Trimmed(body, Syntactic, {}) = SubSeq(body, f, Len(body))
<1>1. Ends(body, Syntactic, {}, f, Len(body))
    BY DEF Starts, Ends
<1>2. Len(body) \in f - 1 .. Len(body)
    OBVIOUS
<1>. QED BY <1>1, <1>2, TrimmedIs

\* What the code does with a line depends on what it begins with.
LEMMA ParsedForms ==
    ASSUME NEW text \in Seq(Byte), IsUtf8(text), Len(text) <= MaximumLineBytes, MaximumLineBytes \in Nat,
           NEW body, body = WithoutEnding(text), NEW f \in 1 .. Len(body) + 1, Starts(body, f),
           NEW content, content = SubSeq(body, f, Len(body))
    PROVE  /\ f = Len(body) + 1 \/ body[f] = Hash => Parsed(text).kind = "blank"
           /\ f # Len(body) + 1 /\ body[f] = Opening => Parsed(text) = HeaderLine(content, text)
           /\ f # Len(body) + 1 /\ body[f] \notin {Hash, Opening} => Parsed(text) = EntryLine(content, text)
<1>1. body \in Seq(Byte)
    BY BodyIsBytes
<1>2. content = Trimmed(WithoutEnding(text), Syntactic, {})
    BY <1>1, ContentIs
<1>3. ~(Len(text) > MaximumLineBytes \/ ~IsValidUtf8(text))
    BY ValidIsUtf8
<1>4. Parsed(text) = IF content = <<>> \/ content[1] = Hash THEN LineOf("blank", <<>>, <<>>, text)
                     ELSE IF content[1] = Opening THEN HeaderLine(content, text)
                     ELSE EntryLine(content, text)
    BY <1>2, <1>3, Zenon DEF Parsed
<1>5. /\ content \in Seq(Byte) /\ Len(content) = Len(body) - f + 1
      /\ f # Len(body) + 1 => content[1] = body[f]
    <2>1. Len(body) \in f - 1 .. Len(body)
        BY <1>1
    <2>2. /\ content \in Seq(Byte) /\ Len(content) = Len(body) - f + 1
          /\ \A i \in 1 .. Len(body) - f + 1 : content[i] = body[f + i - 1]
        BY <1>1, <2>1, Cut
    <2>3. f # Len(body) + 1 => 1 \in 1 .. Len(body) - f + 1 /\ f + 1 - 1 = f
        BY <1>1
    <2>. QED BY <2>2, <2>3
<1>6. content = <<>> <=> f = Len(body) + 1
    <2>1. content = <<>> <=> Len(content) = 0
        BY <1>5, EmptySeq
    <2>2. Len(body) \in Nat
        BY <1>1
    <2>. QED BY <1>5, <2>1, <2>2
<1>7. LineOf("blank", <<>>, <<>>, text).kind = "blank"
    BY DEF LineOf
<1>8. Hash # Opening
    BY DEF Hash, Opening
<1>9. CASE f = Len(body) + 1
    BY <1>4, <1>6, <1>7, <1>9, Zenon
<1>10. CASE f # Len(body) + 1
    <2>1. content # <<>> /\ content[1] = body[f]
        BY <1>5, <1>6, <1>10
    <2>. QED BY <1>4, <1>7, <1>8, <1>10, <2>1, Zenon
<1>. QED BY <1>9, <1>10

\* A header ends where nothing but blanks follow.
LEMMA HeaderForms ==
    ASSUME NEW body \in Seq(Byte), NEW f \in 1 .. Len(body), NEW q \in f .. Len(body),
           body[q] \notin {Space, Tab}, \A i \in q + 1 .. Len(body) : body[i] \in {Space, Tab}, NEW text
    PROVE  /\ q >= f + 2 /\ body[q] = Closing /\ IsValidGroupName(SubSeq(body, f + 1, q - 1)) =>
                 HeaderLine(SubSeq(body, f, Len(body)), text) = LineOf("header", SubSeq(body, f + 1, q - 1), <<>>, text)
           /\ ~(q >= f + 2 /\ body[q] = Closing /\ IsValidGroupName(SubSeq(body, f + 1, q - 1))) =>
                 HeaderLine(SubSeq(body, f, Len(body)), text) = Junk(text)
<1>11. PICK content, group : content = SubSeq(body, f, Len(body)) /\ group = SubSeq(body, f + 1, q - 1)
    OBVIOUS
<1>. USE <1>11
<1>. DEFINE header == Trimmed(content, {}, {Space, Tab})
            m == q - f + 1
<1>. HIDE DEF header
<1>0. Len(body) \in Nat /\ f \in Nat /\ q \in Nat /\ m \in Nat /\ m >= 1
    OBVIOUS
<1>1. /\ content \in Seq(Byte) /\ Len(content) = Len(body) - f + 1
      /\ \A i \in 1 .. Len(body) - f + 1 : content[i] = body[f + i - 1]
    <2>1. f \in 1 .. Len(body) + 1 /\ Len(body) \in f - 1 .. Len(body)
        BY <1>0
    <2>. QED BY <2>1, Cut
<1>2. Ends(content, {}, {Space, Tab}, 1, m)
    <2>1. content[m] = body[q]
        <3>1. m \in 1 .. Len(body) - f + 1 /\ f + m - 1 = q
            BY <1>0
        <3>. QED BY <1>1, <3>1
    <2>2. ASSUME NEW i \in m + 1 .. Len(content) PROVE content[i] \in {Space, Tab}
        <3>1. i \in 1 .. Len(body) - f + 1 /\ f + i - 1 \in q + 1 .. Len(body)
            BY <1>0, <1>1
        <3>. QED BY <1>1, <3>1
    <2>. QED BY <2>1, <2>2 DEF Ends
<1>3. header = SubSeq(content, 1, m)
    <2>1. 1 \in 1 .. Len(content) + 1 /\ m \in 1 - 1 .. Len(content)
        BY <1>0, <1>1
    <2>. HIDE DEF m
    <2>2. content \in Seq(Byte)
        BY <1>1
    <2>. QED BY <1>2, <2>1, <2>2, TrimmedAtEnd, Zenon DEF header
<1>4. header = SubSeq(body, f, q)
    <2>1. /\ f \in 1 .. Len(body) + 1 /\ Len(body) \in f - 1 .. Len(body)
          /\ 1 \in 1 .. Len(body) - f + 2 /\ m \in 1 - 1 .. Len(body) - f + 1
        BY <1>0
    <2>2. f + 1 - 1 = f /\ f + m - 1 = q
        BY <1>0
    <2>. HIDE DEF m
    <2>3. SubSeq(SubSeq(body, f, Len(body)), 1, m) = SubSeq(body, f + 1 - 1, f + m - 1)
        BY <2>1, CutOfCut
    <2>. QED BY <1>3, <2>2, <2>3, Zenon
<1>5. /\ header \in Seq(Byte) /\ Len(header) = m
      /\ \A i \in 1 .. m : header[i] = body[f + i - 1]
    <2>1. f \in 1 .. Len(body) + 1 /\ q \in f - 1 .. Len(body)
        BY <1>0
    <2>2. /\ SubSeq(body, f, q) \in Seq(Byte) /\ Len(SubSeq(body, f, q)) = m
          /\ \A i \in 1 .. m : SubSeq(body, f, q)[i] = body[f + i - 1]
        BY <2>1, Cut
    <2>. QED BY <1>4, <2>2, Zenon
<1>6. Last(header) = body[q]
    <2>1. m \in 1 .. m /\ f + m - 1 = q
        BY <1>0
    <2>. HIDE DEF header, m
    <2>. QED BY <1>5, <2>1 DEF Last
<1>7. m >= 3 => SubSeq(header, 2, Len(header) - 1) = group
    <2>1. SUFFICES ASSUME m >= 3 PROVE SubSeq(SubSeq(body, f, q), 2, m - 1) = group
        BY <1>4, <1>5
    <2>2. /\ f \in 1 .. Len(body) + 1 /\ q \in f - 1 .. Len(body)
          /\ 2 \in 1 .. q - f + 2 /\ m - 1 \in 2 - 1 .. q - f + 1
          /\ f + 2 - 1 = f + 1 /\ f + (m - 1) - 1 = q - 1
        BY <1>0, <2>1
    <2>. HIDE DEF m
    <2>. QED BY <2>2, CutOfCut
<1>8. m >= 3 <=> q >= f + 2
    BY <1>0
<1>9. HeaderLine(content, text) =
          IF Len(header) >= 3 /\ Last(header) = Closing /\ IsValidGroupName(SubSeq(header, 2, Len(header) - 1))
          THEN LineOf("header", SubSeq(header, 2, Len(header) - 1), <<>>, text) ELSE Junk(text)
    BY Zenon DEF HeaderLine, header
<1>10. Len(header) = m
    BY <1>5
<1>. HIDE DEF header, m
<1>12. /\ q >= f + 2 /\ body[q] = Closing /\ IsValidGroupName(group) =>
             HeaderLine(content, text) = LineOf("header", group, <<>>, text)
       /\ ~(q >= f + 2 /\ body[q] = Closing /\ IsValidGroupName(group)) =>
             HeaderLine(content, text) = Junk(text)
    BY <1>6, <1>7, <1>8, <1>9, <1>10
<1>. QED BY <1>11, <1>12, Zenon

\* A name between brackets.
LEMMA Bracketed ==
    ASSUME NEW group \in Seq(Byte)
    PROVE  LET t == <<Opening>> \o group \o <<Closing>> IN
           /\ t \in Seq(Byte) /\ Len(t) = Len(group) + 2
           /\ t[1] = Opening /\ t[Len(group) + 2] = Closing
           /\ \A i \in 1 .. Len(group) : t[i + 1] = group[i]
<1>. DEFINE o == <<Opening>>
            c == <<Closing>>
            u == o \o group
            t == u \o c
            n == Len(group)
<1>0. n \in Nat
    OBVIOUS
<1>1. o \in Seq(Byte) /\ Len(o) = 1 /\ o[1] = Opening /\ c \in Seq(Byte) /\ Len(c) = 1 /\ c[1] = Closing
    BY DEF Byte, Opening, Closing
<1>. HIDE DEF o, c
<1>2. /\ u \in Seq(Byte) /\ Len(u) = Len(o) + Len(group)
      /\ \A i \in 1 .. Len(o) + Len(group) : u[i] = IF i <= Len(o) THEN o[i] ELSE group[i - Len(o)]
    BY <1>1, ConcatProperties
<1>3. Len(u) = n + 1 /\ u[1] = Opening /\ \A i \in 1 .. n : u[i + 1] = group[i]
    <2>. HIDE DEF u
    <2>1. 1 \in 1 .. Len(o) + n /\ 1 <= Len(o) /\ Len(u) = n + 1
        BY <1>0, <1>1, <1>2
    <2>2. ASSUME NEW i \in 1 .. n PROVE u[i + 1] = group[i]
        <3>1. i + 1 \in 1 .. Len(o) + n /\ ~(i + 1 <= Len(o)) /\ (i + 1) - Len(o) = i
            BY <1>0, <1>1
        <3>. QED BY <1>2, <3>1
    <2>3. u[1] = Opening
        BY <1>1, <1>2, <2>1
    <2>. QED BY <2>1, <2>2, <2>3
<1>. HIDE DEF u
<1>4. /\ t \in Seq(Byte) /\ Len(t) = Len(u) + Len(c)
      /\ \A i \in 1 .. Len(u) + Len(c) : t[i] = IF i <= Len(u) THEN u[i] ELSE c[i - Len(u)]
    <2>1. u \in Seq(Byte) /\ c \in Seq(Byte)
        BY <1>1, <1>2
    <2>. QED BY <2>1, ConcatProperties
<1>. HIDE DEF t
<1>5. Len(t) = n + 2 /\ t[1] = Opening /\ t[n + 2] = Closing /\ \A i \in 1 .. n : t[i + 1] = group[i]
    <2>1. Len(t) = n + 2 /\ Len(u) + Len(c) = n + 2 /\ Len(u) = n + 1
        BY <1>0, <1>1, <1>3, <1>4
    <2>2. t[1] = Opening
        BY <1>0, <1>3, <1>4, <2>1
    <2>3. t[n + 2] = Closing
        <3>1. n + 2 \in 1 .. n + 2 /\ ~(n + 2 <= n + 1) /\ (n + 2) - (n + 1) = 1
            BY <1>0
        <3>. QED BY <1>1, <1>4, <2>1, <3>1
    <2>4. ASSUME NEW i \in 1 .. n PROVE t[i + 1] = group[i]
        <3>1. i + 1 \in 1 .. n + 2 /\ i + 1 <= n + 1
            BY <1>0
        <3>. QED BY <1>3, <1>4, <2>1, <3>1
    <2>. QED BY <2>1, <2>2, <2>3, <2>4
<1>. QED BY <1>4, <1>5 DEF t, u, o, c

\* What stands in a line is bytes.
LEMMA PartsAreBytes ==
    ASSUME NEW body \in Seq(Byte)
    PROVE  \A s \in Parts(body) : s \in Seq(Byte)
<1>1. SUFFICES ASSUME NEW s \in Parts(body) PROVE s \in Seq(Byte)
    OBVIOUS
<1>2. PICK from \in 1 .. Len(body) + 1, to \in 0 .. Len(body) : s = SubSeq(body, from, to)
    BY DEF Parts
<1>3. from \in Int /\ to \in Int /\ \A i \in from .. to : body[i] \in Byte
    OBVIOUS
<1>4. SubSeq(body, from, to) \in Seq(Byte)
    BY <1>3, SubSeqProperties
<1>. QED BY <1>2, <1>4

\* What a stretch of a line is made of.
LEMMA MadeIs ==
    ASSUME NEW bytes \in Seq(Byte), NEW m \in 1 .. Len(bytes) + 1, NEW n \in m - 1 .. Len(bytes), NEW from
    PROVE  Made(SubSeq(bytes, m, n), from) <=> \A i \in m .. n : bytes[i] \in from
<1>. DEFINE s == SubSeq(bytes, m, n)
<1>0. m \in Nat /\ n \in Int /\ n - m + 1 \in Nat
    OBVIOUS
<1>1. s \in Seq(Byte) /\ Len(s) = n - m + 1 /\ \A i \in 1 .. n - m + 1 : s[i] = bytes[m + i - 1]
    BY Cut
<1>. HIDE DEF s
<1>2. DOMAIN s = 1 .. n - m + 1
    BY <1>1
<1>3. Made(s, from) <=> \A i \in 1 .. n - m + 1 : bytes[m + i - 1] \in from
    BY <1>1, <1>2 DEF Made
<1>4. (\A i \in 1 .. n - m + 1 : bytes[m + i - 1] \in from) <=> \A i \in m .. n : bytes[i] \in from
    <2>1. ASSUME \A i \in 1 .. n - m + 1 : bytes[m + i - 1] \in from, NEW i \in m .. n
          PROVE  bytes[i] \in from
        <3>1. i - m + 1 \in 1 .. n - m + 1 /\ m + (i - m + 1) - 1 = i
            BY <1>0
        <3>. QED BY <2>1, <3>1
    <2>2. ASSUME \A i \in m .. n : bytes[i] \in from, NEW i \in 1 .. n - m + 1
          PROVE  bytes[m + i - 1] \in from
        <3>1. m + i - 1 \in m .. n
            BY <1>0
        <3>. QED BY <2>2, <3>1
    <2>. QED BY <2>1, <2>2
<1>. QED BY <1>3, <1>4 DEF s

\* A line has the form of a header exactly if it is one by the grammar.
LEMMA HeaderOfForm ==
    ASSUME NEW body \in Seq(Byte), NEW f \in 1 .. Len(body), Starts(body, f), body[f] = Opening,
           NEW q \in f + 2 .. Len(body), body[q] = Closing,
           \A i \in q + 1 .. Len(body) : body[i] \in {Space, Tab},
           NEW group, group = SubSeq(body, f + 1, q - 1), IsValidGroupName(group)
    PROVE  IsHeader(body, group) /\ group \in Parts(body)
<1>0. Len(body) \in Nat /\ f \in Nat /\ q \in Nat
    OBVIOUS
<1>1. /\ group \in Seq(Byte) /\ Len(group) = q - f - 1
      /\ \A i \in 1 .. q - f - 1 : group[i] = body[f + 1 + i - 1]
    <2>1. f + 1 \in 1 .. Len(body) + 1 /\ q - 1 \in (f + 1) - 1 .. Len(body) /\ (q - 1) - (f + 1) + 1 = q - f - 1
        BY <1>0
    <2>. QED BY <2>1, Cut
<1>2. group \in Parts(body)
    <2>1. f + 1 \in 1 .. Len(body) + 1 /\ q - 1 \in 0 .. Len(body)
        BY <1>0
    <2>2. \E from \in 1 .. Len(body) + 1, to \in 0 .. Len(body) : group = SubSeq(body, from, to)
        BY <2>1, Zenon
    <2>. QED BY <2>2 DEF Parts
<1>. DEFINE a == f - 1
            b == Len(body) - q
<1>3. /\ a \in 0 .. Len(body) /\ b \in 0 .. Len(body) /\ a + Len(group) + 2 + b = Len(body)
      /\ a + 1 = f /\ a + Len(group) + 2 = q /\ a + Len(group) + 3 = q + 1
    BY <1>0, <1>1
<1>4. Made(SubSeq(body, 1, a), Syntactic)
    <2>1. 1 \in 1 .. Len(body) + 1 /\ a \in 1 - 1 .. Len(body)
        BY <1>0
    <2>2. \A i \in 1 .. a : body[i] \in Syntactic
        BY DEF Starts
    <2>. HIDE DEF a
    <2>. QED BY <2>1, <2>2, MadeIs
<1>5. SubSeq(body, f, q) = <<Opening>> \o group \o <<Closing>>
    <2>. DEFINE s == SubSeq(body, f, q)
                t == <<Opening>> \o group \o <<Closing>>
    <2>1. s \in Seq(Byte) /\ Len(s) = q - f + 1 /\ \A i \in 1 .. q - f + 1 : s[i] = body[f + i - 1]
        <3>1. f \in 1 .. Len(body) + 1 /\ q \in f - 1 .. Len(body)
            BY <1>0
        <3>. QED BY <3>1, Cut
    <2>2. /\ t \in Seq(Byte) /\ Len(t) = Len(group) + 2 /\ t[1] = Opening /\ t[Len(group) + 2] = Closing
          /\ \A i \in 1 .. Len(group) : t[i + 1] = group[i]
        BY <1>1, Bracketed
    <2>. HIDE DEF s, t
    <2>3. Len(t) = q - f + 1 /\ Len(group) + 2 = q - f + 1
        BY <1>0, <1>1, <2>2
    <2>4. ASSUME NEW i \in 1 .. q - f + 1 PROVE s[i] = t[i]
        <3>1. CASE i = 1
            <4>1. s[i] = Opening
                BY <1>0, <2>1, <3>1
            <4>. QED BY <2>2, <3>1, <4>1
        <3>2. CASE i = q - f + 1
            <4>1. s[i] = Closing
                BY <1>0, <2>1, <3>2
            <4>. QED BY <2>2, <2>3, <3>2, <4>1
        <3>3. CASE i # 1 /\ i # q - f + 1
            <4>1. /\ i - 1 \in 1 .. Len(group) /\ i - 1 \in 1 .. q - f - 1 /\ (i - 1) + 1 = i
                  /\ f + 1 + (i - 1) - 1 = f + i - 1
                BY <1>0, <1>1, <3>3
            <4>2. t[i] = group[i - 1]
                BY <2>2, <4>1
            <4>3. s[i] = body[f + i - 1] /\ group[i - 1] = body[f + i - 1]
                BY <1>1, <2>1, <4>1
            <4>. QED BY <4>2, <4>3
        <3>. QED BY <3>1, <3>2, <3>3
    <2>5. s = t
        BY <2>1, <2>2, <2>3, <2>4, SeqEqual
    <2>. QED BY <2>5 DEF s, t
<1>6. Made(SubSeq(body, q + 1, Len(body)), {Space, Tab})
    <2>1. q + 1 \in 1 .. Len(body) + 1 /\ Len(body) \in (q + 1) - 1 .. Len(body)
        BY <1>0
    <2>. QED BY <2>1, MadeIs
<1>. HIDE DEF a, b
<1>7. SubSeq(body, a + 1, a + Len(group) + 2) = <<Opening>> \o group \o <<Closing>>
    BY <1>3, <1>5, Zenon
<1>8. Made(SubSeq(body, a + Len(group) + 3, Len(body)), {Space, Tab})
    BY <1>3, <1>6, Zenon
<1>9. IsHeader(body, group)
    BY <1>3, <1>4, <1>7, <1>8, Zenon DEF IsHeader
<1>. QED BY <1>2, <1>9

LEMMA FormOfHeader ==
    ASSUME NEW body \in Seq(Byte), NEW group \in Seq(Byte), IsHeader(body, group)
    PROVE  \E f \in 1 .. Len(body), q \in 1 .. Len(body) :
               /\ q >= f + 2 /\ Starts(body, f) /\ body[f] = Opening /\ body[q] = Closing
               /\ \A i \in q + 1 .. Len(body) : body[i] \in {Space, Tab}
               /\ group = SubSeq(body, f + 1, q - 1)
<1>1. PICK a \in 0 .. Len(body), b \in 0 .. Len(body) :
          /\ a + Len(group) + 2 + b = Len(body)
          /\ Made(SubSeq(body, 1, a), Syntactic)
          /\ SubSeq(body, a + 1, a + Len(group) + 2) = <<Opening>> \o group \o <<Closing>>
          /\ Made(SubSeq(body, a + Len(group) + 3, Len(body)), {Space, Tab})
    BY Zenon DEF IsHeader
<1>. DEFINE n == Len(group)
            f == a + 1
            q == a + n + 2
<1>2. /\ Len(body) \in Nat /\ n \in Nat /\ f \in 1 .. Len(body) /\ q \in 1 .. Len(body) /\ q >= f + 2
      /\ a + n + 3 = q + 1 /\ f \in 1 .. Len(body) + 1 /\ q \in f - 1 .. Len(body) /\ n + 2 = q - f + 1
    <2>1. a + n + 2 + b = Len(body)
        BY <1>1, Zenon
    <2>2. n \in Nat /\ Len(body) \in Nat
        OBVIOUS
    <2>6. n >= 1
        <3>1. group # <<>>
            BY Zenon DEF IsHeader, IsValidGroupName
        <3>. QED BY <3>1, BytesAreNumbers
    <2>. HIDE DEF n
    <2>3. a \in Nat /\ b \in Nat
        BY <2>2
    <2>4. f \in Nat /\ q \in Nat /\ f >= 1 /\ q >= f + 2 /\ q <= Len(body)
        <3>. DEFINE l == Len(body)
        <3>1. a + n + 2 + b = l /\ l \in Nat
            BY <2>1, <2>2
        <3>. HIDE DEF l
        <3>2. a + n + 2 <= l
            BY <2>2, <2>3, <3>1
        <3>3. q <= Len(body)
            BY <3>2, Zenon DEF l
        <3>4. f \in Nat /\ q \in Nat /\ f >= 1 /\ q >= f + 2
            BY <2>2, <2>3, <2>6
        <3>. HIDE DEF f, q
        <3>. QED BY <3>3, <3>4, Zenon
    <2>5. a + n + 3 = q + 1 /\ n + 2 = q - f + 1
        BY <2>2, <2>3
    <2>. HIDE DEF f, q
    <2>. QED BY <2>2, <2>4, <2>5
<1>3. \A i \in 1 .. a : body[i] \in Syntactic
    <2>1. 1 \in 1 .. Len(body) + 1 /\ a \in 1 - 1 .. Len(body)
        BY <1>2
    <2>2. Made(SubSeq(body, 1, a), Syntactic)
        BY <1>1, Zenon
    <2>. QED BY <2>1, <2>2, MadeIs
<1>4. \A i \in q + 1 .. Len(body) : body[i] \in {Space, Tab}
    <2>1. q + 1 \in 1 .. Len(body) + 1 /\ Len(body) \in (q + 1) - 1 .. Len(body)
        BY <1>2
    <2>. HIDE DEF q
    <2>2. Made(SubSeq(body, q + 1, Len(body)), {Space, Tab})
        BY <1>1, <1>2, Zenon
    <2>. QED BY <2>1, <2>2, MadeIs
<1>. DEFINE s == SubSeq(body, f, q)
<1>5. /\ s \in Seq(Byte) /\ Len(s) = n + 2 /\ \A i \in 1 .. n + 2 : s[i] = body[f + i - 1]
      /\ s[1] = Opening /\ s[n + 2] = Closing /\ \A i \in 1 .. n : s[i + 1] = group[i]
    <2>1. s = <<Opening>> \o group \o <<Closing>>
        BY <1>1
    <2>. HIDE DEF f, q
    <2>2. Len(s) = q - f + 1 /\ \A i \in 1 .. q - f + 1 : s[i] = body[f + i - 1]
        BY <1>2, Cut
    <2>. HIDE DEF s
    <2>3. /\ s \in Seq(Byte) /\ Len(s) = n + 2 /\ s[1] = Opening /\ s[n + 2] = Closing
          /\ \A i \in 1 .. n : s[i + 1] = group[i]
        BY <2>1, Bracketed
    <2>. QED BY <1>2, <2>2, <2>3
<1>. HIDE DEF s
<1>6. body[f] = Opening /\ body[q] = Closing
    <2>1. 1 \in 1 .. n + 2 /\ n + 2 \in 1 .. n + 2 /\ f + 1 - 1 = f /\ f + (n + 2) - 1 = q
        BY <1>2
    <2>. HIDE DEF f, q
    <2>. QED BY <1>5, <2>1
<1>7. group = SubSeq(body, f + 1, q - 1)
    <2>. DEFINE t == SubSeq(body, f + 1, q - 1)
    <2>1. f + 1 \in 1 .. Len(body) + 1 /\ q - 1 \in (f + 1) - 1 .. Len(body) /\ (q - 1) - (f + 1) + 1 = n
        BY <1>2
    <2>2. t \in Seq(Byte) /\ Len(t) = n /\ \A i \in 1 .. n : t[i] = body[f + 1 + i - 1]
        <3>. HIDE DEF f, q
        <3>. QED BY <2>1, Cut
    <2>. HIDE DEF t
    <2>3. \A i \in 1 .. n : group[i] = t[i]
        <3>1. \A i \in 1 .. n : i + 1 \in 1 .. n + 2 /\ f + (i + 1) - 1 = f + 1 + i - 1
            BY <1>2
        <3>. HIDE DEF f, q
        <3>. QED BY <1>5, <2>2, <3>1
    <2>4. group = t
        BY <2>2, <2>3, SeqEqual
    <2>. QED BY <2>4 DEF t
<1>8. Starts(body, f)
    <2>1. f - 1 = a
        BY <1>2
    <2>2. Opening \notin Syntactic
        BY DEF Opening, Syntactic, Space, Tab, FormFeed
    <2>. HIDE DEF f
    <2>. QED BY <1>3, <1>6, <2>1, <2>2 DEF Starts
<1>. HIDE DEF f, q
<1>. QED BY <1>2, <1>4, <1>6, <1>7, <1>8

\* A line without anything, or with a comment only, is one by the grammar.
LEMMA BlankOfForm ==
    ASSUME NEW body \in Seq(Byte), NEW f \in 1 .. Len(body) + 1, Starts(body, f)
    PROVE  IsBlank(body) <=> f = Len(body) + 1 \/ body[f] = Hash
<1>0. Len(body) \in Nat /\ f \in Nat
    OBVIOUS
<1>1. \A a \in 0 .. Len(body) : Made(SubSeq(body, 1, a), Syntactic) <=> \A i \in 1 .. a : body[i] \in Syntactic
    <2>1. SUFFICES ASSUME NEW a \in 0 .. Len(body)
                   PROVE  Made(SubSeq(body, 1, a), Syntactic) <=> \A i \in 1 .. a : body[i] \in Syntactic
        OBVIOUS
    <2>2. 1 \in 1 .. Len(body) + 1 /\ a \in 1 - 1 .. Len(body)
        BY <1>0
    <2>. QED BY <2>2, MadeIs
<1>2. Hash \notin Syntactic
    BY DEF Hash, Syntactic, Space, Tab, FormFeed
<1>3. IsBlank(body) <=> \E a \in 0 .. Len(body) : /\ \A i \in 1 .. a : body[i] \in Syntactic
                                                  /\ a < Len(body) => body[a + 1] = Hash
    BY <1>1 DEF IsBlank
<1>4. ASSUME NEW a \in 0 .. Len(body), \A i \in 1 .. a : body[i] \in Syntactic,
             a < Len(body) => body[a + 1] = Hash
      PROVE  f = Len(body) + 1 \/ body[f] = Hash
    <2>1. f > a
        <3>1. SUFFICES ASSUME ~(f > a) PROVE FALSE
            OBVIOUS
        <3>2. f \in 1 .. a /\ f <= Len(body)
            BY <1>0, <3>1
        <3>. QED BY <1>4, <3>2 DEF Starts
    <2>2. CASE a = Len(body)
        BY <1>0, <2>1, <2>2
    <2>3. CASE a # Len(body)
        <3>1. a < Len(body) /\ a + 1 \in Nat
            BY <1>0, <2>3
        <3>2. body[a + 1] \notin Syntactic
            BY <1>2, <1>4, <3>1
        <3>3. ~(a + 1 \in 1 .. f - 1)
            BY <3>2 DEF Starts
        <3>4. f = a + 1
            BY <1>0, <2>1, <3>1, <3>3
        <3>. QED BY <1>4, <3>1, <3>4
    <2>. QED BY <2>2, <2>3
<1>5. ASSUME f = Len(body) + 1 \/ body[f] = Hash
      PROVE  \E a \in 0 .. Len(body) : /\ \A i \in 1 .. a : body[i] \in Syntactic
                                       /\ a < Len(body) => body[a + 1] = Hash
    <2>1. f - 1 \in 0 .. Len(body) /\ (f - 1) + 1 = f
        BY <1>0
    <2>2. \A i \in 1 .. f - 1 : body[i] \in Syntactic
        BY DEF Starts
    <2>3. f - 1 < Len(body) => body[(f - 1) + 1] = Hash
        BY <1>0, <1>5, <2>1
    <2>. QED BY <2>1, <2>2, <2>3
<1>. QED BY <1>3, <1>4, <1>5

-----------------------------------------------------------------------------
(* Entries                                                                  *)

\* A line without an equals sign, or that begins with one, is no entry.
LEMMA NoEntryForm ==
    ASSUME NEW body \in Seq(Byte), NEW f \in 1 .. Len(body),
           NEW content, content = SubSeq(body, f, Len(body)), NEW text,
           body[f] = Equals \/ \A i \in f .. Len(body) : body[i] # Equals
    PROVE  EntryLine(content, text) = Junk(text)
<1>. DEFINE equals == {i \in DOMAIN content : content[i] = Equals}
            key == Trimmed(SubSeq(content, 1, Min(equals) - 1), Syntactic, Syntactic)
<1>0. Len(body) \in Nat /\ f \in Nat
    OBVIOUS
<1>1. /\ content \in Seq(Byte) /\ Len(content) = Len(body) - f + 1
      /\ \A i \in 1 .. Len(body) - f + 1 : content[i] = body[f + i - 1]
    <2>1. f \in 1 .. Len(body) + 1 /\ Len(body) \in f - 1 .. Len(body)
        BY <1>0
    <2>. QED BY <2>1, Cut
<1>2. DOMAIN content = 1 .. Len(body) - f + 1
    BY <1>1
<1>3. CASE \A i \in f .. Len(body) : body[i] # Equals
    <2>1. ASSUME NEW i \in 1 .. Len(body) - f + 1 PROVE content[i] # Equals
        <3>1. f + i - 1 \in f .. Len(body)
            BY <1>0
        <3>. QED BY <1>1, <1>3, <3>1
    <2>2. equals = {}
        BY <1>2, <2>1
    <2>. QED BY <2>2, Zenon DEF EntryLine
<1>4. CASE body[f] = Equals
    <2>1. 1 \in equals
        <3>1. 1 \in 1 .. Len(body) - f + 1 /\ f + 1 - 1 = f
            BY <1>0
        <3>. QED BY <1>1, <1>2, <1>4, <3>1
    <2>2. \A c \in equals : c \in Nat /\ 1 <= c
        BY <1>2
    <2>. HIDE DEF equals
    <2>3. Min(equals) = 1
        BY <2>1, <2>2, SmallestIs
    <2>4. SubSeq(content, 1, Min(equals) - 1) = <<>>
        BY <2>3, SubSeqEmpty
    <2>5. Trimmed(<<>>, Syntactic, Syntactic) = <<>>
        <3>1. <<>> \in Seq(Byte) /\ Len(<<>>) = 0
            BY EmptySeq
        <3>. DEFINE e == <<>>
        <3>. HIDE DEF e
        <3>2. e \in Seq(Byte) /\ Len(e) = 0
            BY <3>1 DEF e
        <3>3. 1 \in 1 .. Len(e) + 1 /\ 0 \in 1 - 1 .. Len(e) /\ Ends(e, Syntactic, Syntactic, 1, 0)
            BY <3>2 DEF Ends
        <3>4. Trimmed(e, Syntactic, Syntactic) = SubSeq(e, 1, 0)
            BY <3>2, <3>3, TrimmedAtEnd
        <3>5. SubSeq(e, 1, 0) = <<>>
            BY SubSeqEmpty
        <3>. QED BY <3>4, <3>5 DEF e
    <2>6. key = <<>>
        BY <2>4, <2>5
    <2>7. ~IsValidKeyName(key)
        BY <2>6, Zenon DEF IsValidKeyName
    <2>. QED BY <2>7, Zenon DEF EntryLine, equals
<1>. QED BY <1>3, <1>4

\* Where the key of a line begins and ends, its equals sign, and where its value begins.
EntryCut(body, f, k, e, v) ==
    /\ Starts(body, f) /\ body[f] \notin Syntactic /\ body[f] \notin {Hash, Opening}
    /\ body[k] \notin Syntactic /\ \A i \in k + 1 .. e - 1 : body[i] \in Syntactic
    /\ body[e] = Equals /\ \A i \in f .. e - 1 : body[i] # Equals
    /\ \A i \in e + 1 .. v - 1 : body[i] \in Syntactic
    /\ v <= Len(body) => body[v] \notin Syntactic

\* Otherwise what is before the sign without blanks behind it is the key, and what is behind
\* it without blanks before it is the value.
LEMMA EntryForm ==
    ASSUME NEW body \in Seq(Byte), NEW f \in 1 .. Len(body), NEW e \in f + 1 .. Len(body),
           NEW k \in f .. e - 1, NEW v \in e + 1 .. Len(body) + 1, EntryCut(body, f, k, e, v),
           NEW content, content = SubSeq(body, f, Len(body)), NEW text
    PROVE  EntryLine(content, text) =
               IF IsValidKeyName(SubSeq(body, f, k))
               THEN LineOf("entry", SubSeq(body, f, k), DecodeValue(SubSeq(body, v, Len(body))), text)
               ELSE Junk(text)
<1>. DEFINE n == Len(body)
            equals == {i \in DOMAIN content : content[i] = Equals}
            before == SubSeq(content, 1, Min(equals) - 1)
            behind == SubSeq(content, Min(equals) + 1, Len(content))
<1>9. /\ body[f] \notin Syntactic /\ body[k] \notin Syntactic
      /\ \A i \in k + 1 .. e - 1 : body[i] \in Syntactic
      /\ body[e] = Equals /\ \A i \in f .. e - 1 : body[i] # Equals
      /\ \A i \in e + 1 .. v - 1 : body[i] \in Syntactic
      /\ v <= Len(body) => body[v] \notin Syntactic
    BY Zenon DEF EntryCut
<1>. USE <1>9
<1>0. n \in Nat /\ f \in Nat /\ e \in Nat /\ k \in Nat /\ v \in Nat
    OBVIOUS
<1>1. /\ content \in Seq(Byte) /\ Len(content) = n - f + 1
      /\ \A i \in 1 .. n - f + 1 : content[i] = body[f + i - 1]
    <2>1. f \in 1 .. n + 1 /\ n \in f - 1 .. n
        BY <1>0
    <2>. QED BY <2>1, Cut
<1>2. Min(equals) = e - f + 1
    <2>0. DOMAIN content = 1 .. n - f + 1
        BY <1>1
    <2>1. e - f + 1 \in equals
        <3>1. e - f + 1 \in 1 .. n - f + 1 /\ f + (e - f + 1) - 1 = e
            BY <1>0
        <3>. QED BY <1>1, <2>0, <3>1
    <2>2. ASSUME NEW c \in equals PROVE c \in Nat /\ e - f + 1 <= c
        <3>1. c \in 1 .. n - f + 1 /\ body[f + c - 1] = Equals
            BY <1>1, <2>0
        <3>2. ~(f + c - 1 \in f .. e - 1)
            BY <3>1
        <3>3. c \in Nat /\ c >= 1
            BY <3>1
        <3>. HIDE <1>9
        <3>. HIDE DEF n
        <3>4. ~(c <= e - f)
            BY <1>0, <3>2, <3>3
        <3>. QED BY <1>0, <3>3, <3>4
    <2>. HIDE DEF equals
    <2>. QED BY <2>1, <2>2, SmallestIs
<1>. HIDE DEF equals
<1>3. before = SubSeq(body, f, e - 1)
    <2>1. /\ f \in 1 .. n + 1 /\ n \in f - 1 .. n /\ 1 \in 1 .. n - f + 2
          /\ e - f \in 1 - 1 .. n - f + 1 /\ f + 1 - 1 = f /\ f + (e - f) - 1 = e - 1
          /\ (e - f + 1) - 1 = e - f
        BY <1>0
    <2>2. SubSeq(SubSeq(body, f, n), 1, e - f) = SubSeq(body, f + 1 - 1, f + (e - f) - 1)
        <3>. HIDE DEF n
        <3>. QED BY <2>1, CutOfCut DEF n
    <2>. QED BY <1>2, <2>1, <2>2
<1>4. behind = SubSeq(body, e + 1, n)
    <2>1. /\ f \in 1 .. n + 1 /\ n \in f - 1 .. n /\ e - f + 2 \in 1 .. n - f + 2
          /\ n - f + 1 \in (e - f + 2) - 1 .. n - f + 1
          /\ f + (e - f + 2) - 1 = e + 1 /\ f + (n - f + 1) - 1 = n /\ (e - f + 1) + 1 = e - f + 2
        BY <1>0
    <2>2. SubSeq(SubSeq(body, f, n), e - f + 2, n - f + 1) = SubSeq(body, f + (e - f + 2) - 1, f + (n - f + 1) - 1)
        <3>. HIDE DEF n
        <3>. QED BY <2>1, CutOfCut DEF n
    <2>. QED BY <1>1, <1>2, <2>1, <2>2
<1>5. Trimmed(before, Syntactic, Syntactic) = SubSeq(body, f, k)
    <2>. DEFINE s == SubSeq(body, f, e - 1)
    <2>1. s \in Seq(Byte) /\ Len(s) = e - f /\ \A i \in 1 .. e - f : s[i] = body[f + i - 1]
        <3>1. f \in 1 .. n + 1 /\ e - 1 \in f - 1 .. n /\ (e - 1) - f + 1 = e - f
            BY <1>0
        <3>. QED BY <3>1, Cut
    <2>. HIDE DEF s
    <2>2. Ends(s, Syntactic, Syntactic, 1, k - f + 1)
        <3>1. s[1] = body[f] /\ s[k - f + 1] = body[k]
            <4>1. /\ 1 \in 1 .. e - f /\ f + 1 - 1 = f
                  /\ k - f + 1 \in 1 .. e - f /\ f + (k - f + 1) - 1 = k
                BY <1>0
            <4>. QED BY <2>1, <4>1
        <3>2. ASSUME NEW i \in (k - f + 1) + 1 .. e - f PROVE s[i] \in Syntactic
            <4>1. i \in 1 .. e - f /\ f + i - 1 \in k + 1 .. e - 1
                BY <1>0
            <4>. QED BY <2>1, <4>1
        <3>. QED BY <2>1, <3>1, <3>2 DEF Ends
    <2>3. 1 \in 1 .. Len(s) + 1 /\ k - f + 1 \in 1 - 1 .. Len(s)
        BY <1>0, <2>1
    <2>4. Trimmed(s, Syntactic, Syntactic) = SubSeq(s, 1, k - f + 1)
        BY <2>1, <2>2, <2>3, TrimmedAtEnd
    <2>5. SubSeq(SubSeq(body, f, e - 1), 1, k - f + 1) = SubSeq(body, f + 1 - 1, f + (k - f + 1) - 1)
        <3>1. /\ f \in 1 .. n + 1 /\ e - 1 \in f - 1 .. n /\ 1 \in 1 .. (e - 1) - f + 2
              /\ k - f + 1 \in 1 - 1 .. (e - 1) - f + 1
            BY <1>0
        <3>. QED BY <3>1, CutOfCut
    <2>6. f + 1 - 1 = f /\ f + (k - f + 1) - 1 = k
        BY <1>0
    <2>. QED BY <1>3, <2>4, <2>5, <2>6, Zenon DEF s
<1>6. Trimmed(behind, Syntactic, {}) = SubSeq(body, v, n)
    <2>. DEFINE s == SubSeq(body, e + 1, n)
    <2>1. s \in Seq(Byte) /\ Len(s) = n - e /\ \A i \in 1 .. n - e : s[i] = body[e + 1 + i - 1]
        <3>1. e + 1 \in 1 .. n + 1 /\ n \in (e + 1) - 1 .. n /\ n - (e + 1) + 1 = n - e
            BY <1>0
        <3>2. e + 1 \in 1 .. Len(body) + 1 /\ Len(body) \in (e + 1) - 1 .. Len(body)
            BY <3>1
        <3>3. LET t == SubSeq(body, e + 1, Len(body)) IN
              /\ t \in Seq(Byte) /\ Len(t) = Len(body) - (e + 1) + 1
              /\ \A i \in 1 .. Len(body) - (e + 1) + 1 : t[i] = body[e + 1 + i - 1]
            BY <3>2, Cut
        <3>. QED BY <3>1, <3>3, Zenon
    <2>. HIDE DEF s
    <2>2. Starts(s, v - e)
        <3>1. ASSUME NEW i \in 1 .. (v - e) - 1 PROVE s[i] \in Syntactic
            <4>1. i \in 1 .. n - e /\ e + 1 + i - 1 \in e + 1 .. v - 1
                BY <1>0
            <4>. QED BY <2>1, <4>1
        <3>2. ASSUME v - e <= Len(s) PROVE s[v - e] \notin Syntactic
            <4>1. v - e \in 1 .. n - e /\ e + 1 + (v - e) - 1 = v /\ v <= n
                BY <1>0, <2>1, <3>2
            <4>. QED BY <2>1, <4>1
        <3>. QED BY <3>1, <3>2 DEF Starts
    <2>3. v - e \in 1 .. Len(s) + 1
        BY <1>0, <2>1
    <2>4. Trimmed(s, Syntactic, {}) = SubSeq(s, v - e, Len(s))
        BY <2>1, <2>2, <2>3, ContentIs
    <2>5. SubSeq(SubSeq(body, e + 1, n), v - e, n - e) = SubSeq(body, e + 1 + (v - e) - 1, e + 1 + (n - e) - 1)
        <3>1. /\ e + 1 \in 1 .. n + 1 /\ n \in (e + 1) - 1 .. n /\ v - e \in 1 .. n - (e + 1) + 2
              /\ n - e \in (v - e) - 1 .. n - (e + 1) + 1
            BY <1>0
        <3>. HIDE DEF n
        <3>. QED BY <3>1, CutOfCut DEF n
    <2>6. e + 1 + (v - e) - 1 = v /\ e + 1 + (n - e) - 1 = n /\ Len(s) = n - e
        BY <1>0, <2>1
    <2>. QED BY <1>4, <2>4, <2>5, <2>6, Zenon DEF s
<1>7. equals # {}
    <2>1. e - f + 1 \in 1 .. n - f + 1 /\ f + (e - f + 1) - 1 = e /\ DOMAIN content = 1 .. n - f + 1
        BY <1>0, <1>1
    <2>. QED BY <1>1, <2>1 DEF equals
<1>8. EntryLine(content, text) =
          IF equals # {} /\ IsValidKeyName(Trimmed(before, Syntactic, Syntactic))
          THEN LineOf("entry", Trimmed(before, Syntactic, Syntactic), DecodeValue(Trimmed(behind, Syntactic, {})), text)
          ELSE Junk(text)
    BY Zenon DEF EntryLine, equals
<1>. HIDE DEF before, behind
<1>. QED BY <1>5, <1>6, <1>7, <1>8, Zenon
-----------------------------------------------------------------------------
\* A line by the grammar is cut so.
LEMMA CutOfEntry ==
    ASSUME NEW body \in Seq(Byte), NEW key \in Seq(Byte), NEW encoded \in Seq(Byte),
           IsEntry(body, key, encoded)
    PROVE  \E f \in 1 .. Len(body) : \E e \in f + 1 .. Len(body) :
               \E k \in f .. e - 1, v \in e + 1 .. Len(body) + 1 :
                   /\ EntryCut(body, f, k, e, v)
                   /\ key = SubSeq(body, f, k) /\ encoded = SubSeq(body, v, Len(body))
<1>. DEFINE l == Len(body)
            n == Len(key)
            m == Len(encoded)
<1>0. l \in Nat /\ n \in Nat /\ m \in Nat /\ l = Len(body) /\ n = Len(key) /\ m = Len(encoded)
    OBVIOUS
<1>1. PICK a \in 0 .. Len(body), b \in 0 .. Len(body), c \in 0 .. Len(body) :
          /\ a + Len(key) + b + 1 + c + Len(encoded) = Len(body)
          /\ Made(SubSeq(body, 1, a), Syntactic)
          /\ SubSeq(body, a + 1, a + Len(key)) = key
          /\ Made(SubSeq(body, a + Len(key) + 1, a + Len(key) + b), Syntactic)
          /\ body[a + Len(key) + b + 1] = Equals
          /\ Made(SubSeq(body, a + Len(key) + b + 2, a + Len(key) + b + 1 + c), Syntactic)
          /\ SubSeq(body, Len(body) - Len(encoded) + 1, Len(body)) = encoded
    BY Zenon DEF IsEntry
<1>2. a \in Nat /\ b \in Nat /\ c \in Nat
    BY <1>0
<1>. HIDE DEF l, n, m
<1>. DEFINE f == a + 1
            k == a + n
            e == a + n + b + 1
            v == e + c + 1
<1>3. a + n + b + 1 + c + m = l
    BY <1>0, <1>1, Zenon
<1>4. /\ IsKey(key) /\ key # <<>> /\ key[1] \notin Syntactic /\ Last(key) \notin Syntactic
      /\ key[1] \notin {Hash, Opening} /\ (encoded # <<>> => encoded[1] \notin Syntactic)
    BY Zenon DEF IsEntry, IsKey
<1>5. n >= 1
    BY <1>0, <1>4, EmptySeq
<1>6. /\ f \in 1 .. l /\ e \in f + 1 .. l /\ k \in f .. e - 1 /\ v \in e + 1 .. l + 1
      /\ v = l - m + 1 /\ f \in Nat /\ e \in Nat /\ k \in Nat /\ v \in Nat
    BY <1>0, <1>2, <1>3, <1>5
<1>7. \A i \in 1 .. a : body[i] \in Syntactic
    <2>1. 1 \in 1 .. Len(body) + 1 /\ a \in 1 - 1 .. Len(body)
        BY <1>0, <1>2, <1>6
    <2>2. Made(SubSeq(body, 1, a), Syntactic)
        BY <1>1, Zenon
    <2>. QED BY <2>1, <2>2, MadeIs
<1>8. \A i \in k + 1 .. e - 1 : body[i] \in Syntactic
    <2>1. k + 1 \in 1 .. Len(body) + 1 /\ e - 1 \in (k + 1) - 1 .. Len(body)
        BY <1>0, <1>2, <1>6
    <2>2. Made(SubSeq(body, k + 1, a + n + b), Syntactic)
        BY <1>0, <1>1, Zenon
    <2>3. e - 1 = a + n + b
        BY <1>0, <1>2
    <2>. HIDE DEF k, e
    <2>. QED BY <2>1, <2>2, <2>3, MadeIs
<1>9. \A i \in e + 1 .. v - 1 : body[i] \in Syntactic
    <2>1. e + 1 \in 1 .. Len(body) + 1 /\ v - 1 \in (e + 1) - 1 .. Len(body)
        BY <1>0, <1>2, <1>6
    <2>2. Made(SubSeq(body, a + n + b + 2, a + n + b + 1 + c), Syntactic)
        BY <1>0, <1>1, Zenon
    <2>3. v - 1 = a + n + b + 1 + c /\ e + 1 = a + n + b + 2
        BY <1>0, <1>2
    <2>4. Made(SubSeq(body, e + 1, v - 1), Syntactic)
        BY <2>2, <2>3, Zenon
    <2>. HIDE DEF v, e
    <2>. QED BY <2>1, <2>4, MadeIs
<1>10. body[e] = Equals
    BY <1>0, <1>1, Zenon
<1>11. key = SubSeq(body, f, k)
    BY <1>0, <1>1, Zenon
<1>12. encoded = SubSeq(body, v, Len(body))
    <2>1. SubSeq(body, l - m + 1, l) = encoded
        BY <1>0, <1>1, Zenon
    <2>2. v = l - m + 1
        BY <1>6
    <2>. HIDE DEF v
    <2>. QED BY <1>0, <2>1, <2>2, Zenon
<1>. HIDE DEF f, k, e, v
<1>13. \A i \in 1 .. n : key[i] = body[f + i - 1]
    <2>1. f \in 1 .. Len(body) + 1 /\ k \in f - 1 .. Len(body) /\ k - f + 1 = n
        BY <1>0, <1>2, <1>6 DEF f, k
    <2>2. \A i \in 1 .. k - f + 1 : SubSeq(body, f, k)[i] = body[f + i - 1]
        BY <2>1, Cut
    <2>. QED BY <1>11, <2>1, <2>2, Zenon
<1>14. body[f] = key[1] /\ body[k] = Last(key)
    <2>1. 1 \in 1 .. n /\ f + 1 - 1 = f /\ n \in 1 .. n /\ f + n - 1 = k
        BY <1>0, <1>2, <1>5, <1>6 DEF f, k
    <2>2. body[f] = key[1] /\ body[k] = key[n]
        BY <1>13, <2>1
    <2>. QED BY <1>0, <2>2, Zenon DEF Last
<1>15. \A i \in f .. e - 1 : body[i] # Equals
    <2>1. SUFFICES ASSUME NEW i \in f .. e - 1 PROVE body[i] # Equals
        OBVIOUS
    <2>2. CASE i <= k
        <3>1. i - f + 1 \in 1 .. n /\ f + (i - f + 1) - 1 = i
            BY <1>0, <1>2, <1>6, <2>2 DEF f, k
        <3>2. key[i - f + 1] # Equals
            BY <1>0, <1>4, <3>1, KeyWithoutEquals
        <3>. QED BY <1>13, <3>1, <3>2
    <2>3. CASE i > k
        <3>1. i \in k + 1 .. e - 1
            BY <1>6, <2>3
        <3>2. Equals \notin Syntactic
            BY DEF Equals, Syntactic, Space, Tab, FormFeed
        <3>. QED BY <1>8, <3>1, <3>2
    <2>. QED BY <1>6, <2>2, <2>3
<1>16. v <= Len(body) => body[v] \notin Syntactic
    <2>1. SUFFICES ASSUME v <= Len(body) PROVE body[v] \notin Syntactic
        OBVIOUS
    <2>2. v \in 1 .. Len(body) + 1 /\ Len(body) \in v - 1 .. Len(body) /\ 1 \in 1 .. Len(body) - v + 1 /\ v + 1 - 1 = v
        BY <1>0, <1>2, <1>6, <2>1
    <2>3. Len(SubSeq(body, v, Len(body))) = Len(body) - v + 1 /\ SubSeq(body, v, Len(body))[1] = body[v]
        BY <2>2, Cut
    <2>4. Len(body) - v + 1 >= 1
        BY <2>2
    <2>5. encoded # <<>>
        <3>1. Len(encoded) = Len(body) - v + 1
            BY <1>12, <2>3, Zenon
        <3>2. Len(encoded) >= 1
            BY <2>4, <3>1
        <3>. QED BY <1>0, <3>2
    <2>. QED BY <1>4, <1>12, <2>3, <2>5, Zenon
<1>17. Starts(body, f)
    <2>1. f - 1 = a
        BY <1>2 DEF f
    <2>. QED BY <1>4, <1>7, <1>14, <2>1 DEF Starts
<1>18. EntryCut(body, f, k, e, v)
    BY <1>4, <1>8, <1>9, <1>10, <1>14, <1>15, <1>16, <1>17, Zenon DEF EntryCut
<1>. QED BY <1>0, <1>6, <1>11, <1>12, <1>18
\* A line that is cut so is an entry by the grammar.
LEMMA EntryOfCut ==
    ASSUME NEW body \in Seq(Byte), NEW f \in 1 .. Len(body), NEW e \in f + 1 .. Len(body),
           NEW k \in f .. e - 1, NEW v \in e + 1 .. Len(body) + 1, EntryCut(body, f, k, e, v),
           NEW key, key = SubSeq(body, f, k), IsKey(key),
           NEW encoded, encoded = SubSeq(body, v, Len(body))
    PROVE  IsEntry(body, key, encoded)
<1>. DEFINE l == Len(body)
<1>0. l \in Nat /\ f \in Nat /\ e \in Nat /\ k \in Nat /\ v \in Nat /\ l = Len(body)
    OBVIOUS
<1>1. key \in Seq(Byte) /\ Len(key) = k - f + 1 /\ key[1] = body[f]
    <2>1. f \in 1 .. Len(body) + 1 /\ k \in f - 1 .. Len(body) /\ 1 \in 1 .. k - f + 1 /\ f + 1 - 1 = f
        BY <1>0
    <2>. QED BY <2>1, Cut
<1>2. /\ encoded \in Seq(Byte) /\ Len(encoded) = Len(body) - v + 1
      /\ encoded # <<>> => encoded[1] \notin Syntactic
    <2>1. v \in 1 .. Len(body) + 1 /\ Len(body) \in v - 1 .. Len(body)
        BY <1>0
    <2>2. /\ encoded \in Seq(Byte) /\ Len(encoded) = Len(body) - v + 1
          /\ \A i \in 1 .. Len(body) - v + 1 : encoded[i] = body[v + i - 1]
        BY <2>1, Cut
    <2>3. ASSUME encoded # <<>> PROVE encoded[1] \notin Syntactic
        <3>1. Len(encoded) >= 1
            BY <2>2, <2>3, BytesAreNumbers
        <3>2. v <= Len(body) /\ 1 \in 1 .. Len(body) - v + 1 /\ v + 1 - 1 = v
            BY <1>0, <2>2, <3>1
        <3>. QED BY <2>2, <3>2 DEF EntryCut
    <2>. QED BY <2>2, <2>3
<1>. HIDE DEF l
<1>. DEFINE a == f - 1
            b == e - 1 - k
            c == v - 1 - e
<1>3. /\ a \in 0 .. l /\ b \in 0 .. l /\ c \in 0 .. l
      /\ a + Len(key) + b + 1 + c + Len(encoded) = l
      /\ a + 1 = f /\ a + Len(key) = k /\ a + Len(key) + 1 = k + 1 /\ a + Len(key) + b = e - 1
      /\ a + Len(key) + b + 1 = e /\ a + Len(key) + b + 2 = e + 1
      /\ a + Len(key) + b + 1 + c = v - 1 /\ l - Len(encoded) + 1 = v
    BY <1>0, <1>1, <1>2
<1>. HIDE DEF a, b, c
<1>4. Made(SubSeq(body, 1, f - 1), Syntactic)
    <2>1. 1 \in 1 .. Len(body) + 1 /\ f - 1 \in 1 - 1 .. Len(body)
        BY <1>0
    <2>2. \A i \in 1 .. f - 1 : body[i] \in Syntactic
        BY DEF EntryCut, Starts
    <2>. QED BY <2>1, <2>2, MadeIs
<1>5. Made(SubSeq(body, k + 1, e - 1), Syntactic)
    <2>1. k + 1 \in 1 .. Len(body) + 1 /\ e - 1 \in (k + 1) - 1 .. Len(body)
        BY <1>0
    <2>2. \A i \in k + 1 .. e - 1 : body[i] \in Syntactic
        BY DEF EntryCut
    <2>. QED BY <2>1, <2>2, MadeIs
<1>6. Made(SubSeq(body, e + 1, v - 1), Syntactic)
    <2>1. e + 1 \in 1 .. Len(body) + 1 /\ v - 1 \in (e + 1) - 1 .. Len(body)
        BY <1>0
    <2>2. \A i \in e + 1 .. v - 1 : body[i] \in Syntactic
        BY DEF EntryCut
    <2>. QED BY <2>1, <2>2, MadeIs
<1>7. /\ a + Len(key) + b + 1 + c + Len(encoded) = Len(body)
      /\ Made(SubSeq(body, 1, a), Syntactic)
      /\ SubSeq(body, a + 1, a + Len(key)) = key
      /\ Made(SubSeq(body, a + Len(key) + 1, a + Len(key) + b), Syntactic)
      /\ body[a + Len(key) + b + 1] = Equals
      /\ Made(SubSeq(body, a + Len(key) + b + 2, a + Len(key) + b + 1 + c), Syntactic)
      /\ SubSeq(body, Len(body) - Len(encoded) + 1, Len(body)) = encoded
    <2>1. a = f - 1
        BY DEF a
    <2>2. body[e] = Equals
        BY DEF EntryCut
    <2>. QED BY <1>0, <1>3, <1>4, <1>5, <1>6, <2>1, <2>2, Zenon
<1>8. key[1] \notin {Hash, Opening}
    BY <1>1 DEF EntryCut
<1>9. a \in 0 .. Len(body) /\ b \in 0 .. Len(body) /\ c \in 0 .. Len(body)
    BY <1>0, <1>3, Zenon
<1>. QED BY <1>2, <1>7, <1>8, <1>9, Zenon DEF IsEntry

\* What the code makes of a line that is cut so.
LEMMA EntryCutForm ==
    ASSUME NEW body \in Seq(Byte), NEW f \in 1 .. Len(body), NEW e \in f + 1 .. Len(body),
           NEW k \in f .. e - 1, NEW v \in e + 1 .. Len(body) + 1, EntryCut(body, f, k, e, v), NEW text
    PROVE  /\ IsKey(SubSeq(body, f, k)) =>
                 EntryLine(SubSeq(body, f, Len(body)), text) =
                     LineOf("entry", SubSeq(body, f, k), DecodeValue(SubSeq(body, v, Len(body))), text)
           /\ ~IsKey(SubSeq(body, f, k)) => EntryLine(SubSeq(body, f, Len(body)), text) = Junk(text)
<1>9. PICK content, key, encoded : /\ content = SubSeq(body, f, Len(body))
                                   /\ key = SubSeq(body, f, k) /\ encoded = SubSeq(body, v, Len(body))
    OBVIOUS
<1>. USE <1>9
<1>0. Len(body) \in Nat /\ f \in Nat /\ e \in Nat /\ k \in Nat /\ v \in Nat
    OBVIOUS
<1>1. EntryLine(content, text) =
          IF IsValidKeyName(SubSeq(body, f, k))
          THEN LineOf("entry", SubSeq(body, f, k), DecodeValue(SubSeq(body, v, Len(body))), text)
          ELSE Junk(text)
    BY EntryForm
<1>2. IsValidKeyName(key) <=> IsKey(key)
    <2>1. f \in 1 .. Len(body) + 1 /\ k \in f - 1 .. Len(body)
        BY <1>0
    <2>2. /\ key \in Seq(Byte) /\ Len(key) = k - f + 1
          /\ \A i \in 1 .. k - f + 1 : key[i] = body[f + i - 1]
        BY <2>1, Cut
    <2>3. key[1] = body[f] /\ Last(key) = body[k]
        <3>1. 1 \in 1 .. k - f + 1 /\ f + 1 - 1 = f /\ f + (k - f + 1) - 1 = k /\ k - f + 1 \in 1 .. k - f + 1
            BY <1>0
        <3>2. key[1] = body[f] /\ key[k - f + 1] = body[k]
            BY <2>2, <3>1
        <3>. QED BY <2>2, <3>2, Zenon DEF Last
    <2>4. key # <<>>
        <3>1. Len(key) >= 1
            BY <1>0, <2>2
        <3>2. Len(<<>>) = 0
            BY EmptySeq
        <3>3. ~(Len(<<>>) >= 1)
            BY <3>2
        <3>. QED BY <3>1, <3>3, Zenon
    <2>5. ASSUME NEW i \in 1 .. Len(key) PROVE key[i] # Equals
        <3>1. i \in 1 .. k - f + 1 /\ f + i - 1 \in f .. e - 1
            BY <1>0, <2>2
        <3>. QED BY <2>2, <3>1 DEF EntryCut
    <2>6. key[1] \notin Syntactic /\ Last(key) \notin Syntactic
        BY <2>3 DEF EntryCut
    <2>. QED BY <2>2, <2>4, <2>5, <2>6, ValidKeyIsKey
<1>. QED BY <1>1, <1>2, <1>9, Zenon

\* A line that begins neither with a comment nor with a header is cut so if it has an equals
\* sign behind its first byte that is no blank.
LEMMA CutOfLine ==
    ASSUME NEW body \in Seq(Byte), NEW f \in 1 .. Len(body), Starts(body, f),
           body[f] \notin {Hash, Opening}, body[f] # Equals,
           ~ \A i \in f .. Len(body) : body[i] # Equals
    PROVE  \E e \in f + 1 .. Len(body) : \E k \in f .. e - 1, v \in e + 1 .. Len(body) + 1 :
               EntryCut(body, f, k, e, v)
<1>. DEFINE S == {i \in f .. Len(body) : body[i] = Equals}
<1>0. Len(body) \in Nat /\ f \in Nat /\ body[f] \notin Syntactic
    BY DEF Starts
<1>1. PICK e \in S : \A i \in S : ~(i < e)
    <2>1. S \in SUBSET Nat /\ S # {}
        BY <1>0
    <2>. HIDE DEF S
    <2>. QED BY <2>1, LeastNumber
<1>2. /\ e \in Nat /\ e \in f + 1 .. Len(body) /\ body[e] = Equals
      /\ \A i \in f .. e - 1 : body[i] # Equals
    BY <1>0, <1>1
<1>. HIDE DEF S
<1>3. PICK k \in f .. e - 1 : body[k] \notin Syntactic /\ \A i \in k + 1 .. e - 1 : body[i] \in Syntactic
    <2>1. e - 1 \in f .. Len(body)
        BY <1>0, <1>2
    <2>. QED BY <1>0, <2>1, LastOther
<1>4. PICK v \in e + 1 .. Len(body) + 1 :
          /\ \A i \in e + 1 .. v - 1 : body[i] \in Syntactic
          /\ v <= Len(body) => body[v] \notin Syntactic
    <2>1. e + 1 \in 1 .. Len(body) + 1
        BY <1>0, <1>2
    <2>. QED BY <2>1, FirstOther
<1>5. EntryCut(body, f, k, e, v)
    BY <1>0, <1>2, <1>3, <1>4, Zenon DEF EntryCut
<1>. QED BY <1>2, <1>5, Zenon
-----------------------------------------------------------------------------
(* The code against the grammar                                             *)

\* What begins with a bracket is a header or nothing, what begins otherwise an entry or nothing.
LEMMA KindsOfForms ==
    ASSUME NEW content, NEW text
    PROVE  HeaderLine(content, text).kind \in {"header", "junk"} /\ EntryLine(content, text).kind \in {"entry", "junk"}
<1>1. \A kind, name, value : LineOf(kind, name, value, text).kind = kind
    BY DEF LineOf
<1>2. Junk(text).kind = "junk"
    BY <1>1, Zenon DEF Junk
<1>3. HeaderLine(content, text).kind = "header" \/ HeaderLine(content, text) = Junk(text)
    BY <1>1, Zenon DEF HeaderLine
<1>4. EntryLine(content, text).kind = "entry" \/ EntryLine(content, text) = Junk(text)
    BY <1>1, Zenon DEF EntryLine
<1>. QED BY <1>2, <1>3, <1>4

LEMMA SuffixesAre ==
    ASSUME NEW body \in Seq(Byte)
    PROVE  /\ \A s \in Suffixes(body) : s \in Seq(Byte)
           /\ \A v \in 1 .. Len(body) + 1 : SubSeq(body, v, Len(body)) \in Suffixes(body)
<1>0. Len(body) \in Nat
    OBVIOUS
<1>1. ASSUME NEW v \in 1 .. Len(body) PROVE SubSeq(body, v, Len(body)) \in Seq(Byte)
    <2>1. v \in Int /\ Len(body) \in Int /\ \A i \in v .. Len(body) : body[i] \in Byte
        BY <1>0
    <2>. QED BY <2>1, SubSeqProperties
<1>2. <<>> \in Seq(Byte)
    BY EmptySeq
<1>3. ASSUME NEW v \in 1 .. Len(body) + 1 PROVE SubSeq(body, v, Len(body)) \in Suffixes(body)
    <2>1. CASE v \in 1 .. Len(body)
        BY <2>1, Zenon DEF Suffixes
    <2>2. CASE v \notin 1 .. Len(body)
        <3>1. v > Len(body) /\ v \in Int /\ Len(body) \in Int
            BY <1>0, <2>2
        <3>2. SubSeq(body, v, Len(body)) = <<>>
            BY <3>1, SubSeqEmpty
        <3>. QED BY <3>2, Zenon DEF Suffixes
    <2>. QED BY <2>1, <2>2
<1>4. ASSUME NEW s \in Suffixes(body) PROVE s \in Seq(Byte)
    <2>1. s = <<>> \/ \E v \in 1 .. Len(body) : s = SubSeq(body, v, Len(body))
        BY <1>4, Zenon DEF Suffixes
    <2>. QED BY <1>1, <1>2, <2>1, Zenon
<1>. QED BY <1>3, <1>4

\* What the code takes for a header is one by the grammar, with the name that it takes.
LEMMA HeaderIsTold ==
    ASSUME NEW body \in Seq(Byte), NEW f \in 1 .. Len(body), Starts(body, f), body[f] = Opening,
           NEW content, content = SubSeq(body, f, Len(body)), NEW text,
           NEW l, l = HeaderLine(content, text), l.kind = "header"
    PROVE  IsHeader(body, l.name) /\ l.name \in Parts(body)
<1>0. Len(body) \in Nat /\ f \in Nat
    OBVIOUS
<1>1. PICK q \in f .. Len(body) :
          body[q] \notin {Space, Tab} /\ \A j \in q + 1 .. Len(body) : body[j] \in {Space, Tab}
    <2>1. PICK blanks : blanks = {Space, Tab}
        OBVIOUS
    <2>2. body[f] \notin blanks /\ Len(body) \in f .. Len(body)
        BY <1>0, <2>1 DEF Opening, Space, Tab
    <2>3. \E q \in f .. Len(body) : body[q] \notin blanks /\ \A j \in q + 1 .. Len(body) : body[j] \in blanks
        BY <2>2, LastOther
    <2>. QED BY <2>1, <2>3, Zenon
<1>2. PICK group : group = SubSeq(body, f + 1, q - 1)
    OBVIOUS
<1>3. /\ q >= f + 2 /\ body[q] = Closing /\ IsValidGroupName(group) =>
            HeaderLine(content, text) = LineOf("header", group, <<>>, text)
      /\ ~(q >= f + 2 /\ body[q] = Closing /\ IsValidGroupName(group)) =>
            HeaderLine(content, text) = Junk(text)
    BY <1>1, <1>2, HeaderForms
<1>4. /\ LineOf("header", group, <<>>, text).name = group
      /\ Junk(text).kind # "header"
    BY DEF LineOf, Junk
<1>5. /\ q >= f + 2 /\ body[q] = Closing /\ IsValidGroupName(group)
      /\ l = LineOf("header", group, <<>>, text)
    BY <1>3, <1>4
<1>6. q \in f + 2 .. Len(body)
    BY <1>0, <1>5
<1>7. IsHeader(body, group) /\ group \in Parts(body)
    BY <1>1, <1>2, <1>5, <1>6, HeaderOfForm
<1>. QED BY <1>4, <1>5, <1>7, Zenon

\* What is a header by the grammar the code takes for one.
LEMMA HeaderIsTaken ==
    ASSUME NEW body \in Seq(Byte), NEW group \in Seq(Byte), IsHeader(body, group), NEW text
    PROVE  \E f \in 1 .. Len(body) :
               /\ Starts(body, f) /\ body[f] = Opening
               /\ HeaderLine(SubSeq(body, f, Len(body)), text).kind = "header"
<1>1. PICK f \in 1 .. Len(body), q \in 1 .. Len(body) :
          /\ q >= f + 2 /\ Starts(body, f) /\ body[f] = Opening /\ body[q] = Closing
          /\ \A i \in q + 1 .. Len(body) : body[i] \in {Space, Tab}
          /\ group = SubSeq(body, f + 1, q - 1)
    BY FormOfHeader
<1>2. PICK content : content = SubSeq(body, f, Len(body))
    OBVIOUS
<1>3. IsValidGroupName(group)
    BY Zenon DEF IsHeader
<1>4. body[q] \notin {Space, Tab} /\ q \in f .. Len(body)
    BY <1>1 DEF Closing, Space, Tab
<1>5. q >= f + 2 /\ body[q] = Closing /\ IsValidGroupName(group) =>
          HeaderLine(content, text) = LineOf("header", group, <<>>, text)
    BY <1>1, <1>2, <1>4, HeaderForms
<1>6. LineOf("header", group, <<>>, text).kind = "header"
    BY DEF LineOf
<1>. QED BY <1>1, <1>2, <1>3, <1>5, <1>6, Zenon

\* The same for entries.
LEMMA EntryIsTold ==
    ASSUME NEW body \in Seq(Byte), NEW f \in 1 .. Len(body), Starts(body, f), body[f] \notin {Hash, Opening},
           NEW content, content = SubSeq(body, f, Len(body)), NEW text, Undecodable \notin Seq(Byte),
           NEW l, l = EntryLine(content, text), l.kind = "entry"
    PROVE  /\ l.name \in Parts(body) /\ IsKey(l.name)
           /\ \E e \in Suffixes(body) : IsEntry(body, l.name, e) /\ IsDecodingOf(l.value, e)
<1>0. Len(body) \in Nat /\ f \in Nat
    OBVIOUS
<1>1. Junk(text).kind # "entry"
    BY DEF LineOf, Junk
<1>2. body[f] # Equals /\ ~ \A i \in f .. Len(body) : body[i] # Equals
    <2>1. SUFFICES ASSUME body[f] = Equals \/ \A i \in f .. Len(body) : body[i] # Equals PROVE FALSE
        OBVIOUS
    <2>2. EntryLine(content, text) = Junk(text)
        BY <2>1, NoEntryForm
    <2>. QED BY <1>1, <2>2
<1>3. PICK e \in f + 1 .. Len(body) : \E k \in f .. e - 1, v \in e + 1 .. Len(body) + 1 : EntryCut(body, f, k, e, v)
    BY <1>2, CutOfLine
<1>4. PICK k \in f .. e - 1, v \in e + 1 .. Len(body) + 1 : EntryCut(body, f, k, e, v)
    BY <1>3
<1>5. PICK key, encoded : key = SubSeq(body, f, k) /\ encoded = SubSeq(body, v, Len(body))
    OBVIOUS
<1>6. /\ IsKey(key) => EntryLine(content, text) = LineOf("entry", key, DecodeValue(encoded), text)
      /\ ~IsKey(key) => EntryLine(content, text) = Junk(text)
    BY <1>4, <1>5, EntryCutForm
<1>7. IsKey(key) /\ l = LineOf("entry", key, DecodeValue(encoded), text)
    BY <1>1, <1>6, Zenon
<1>8. l.name = key /\ l.value = DecodeValue(encoded)
    BY <1>7 DEF LineOf
<1>9. key \in Parts(body)
    <2>1. f \in 1 .. Len(body) + 1 /\ k \in 0 .. Len(body)
        BY <1>0
    <2>2. \E from \in 1 .. Len(body) + 1, to \in 0 .. Len(body) : key = SubSeq(body, from, to)
        BY <1>5, <2>1, Zenon
    <2>. QED BY <2>2 DEF Parts
<1>10. encoded \in Suffixes(body) /\ encoded \in Seq(Byte)
    <2>1. v \in 1 .. Len(body) + 1
        BY <1>0
    <2>2. encoded \in Suffixes(body)
        BY <1>5, <2>1, SuffixesAre
    <2>3. \A s \in Suffixes(body) : s \in Seq(Byte)
        BY SuffixesAre
    <2>. QED BY <2>2, <2>3, Zenon
<1>11. IsEntry(body, key, encoded)
    BY <1>4, <1>5, <1>7, EntryOfCut
<1>12. IsDecodingOf(DecodeValue(encoded), encoded)
    BY <1>10, DecodeIsDecoding
<1>. QED BY <1>7, <1>8, <1>9, <1>10, <1>11, <1>12, Zenon

LEMMA EntryIsTaken ==
    ASSUME NEW body \in Seq(Byte), NEW key \in Seq(Byte), NEW encoded \in Seq(Byte),
           IsEntry(body, key, encoded), NEW text
    PROVE  \E f \in 1 .. Len(body) :
               /\ Starts(body, f) /\ body[f] \notin {Hash, Opening}
               /\ EntryLine(SubSeq(body, f, Len(body)), text).kind = "entry"
<1>1. PICK f \in 1 .. Len(body) : \E e \in f + 1 .. Len(body) :
          \E k \in f .. e - 1, v \in e + 1 .. Len(body) + 1 :
              /\ EntryCut(body, f, k, e, v)
              /\ key = SubSeq(body, f, k) /\ encoded = SubSeq(body, v, Len(body))
    BY CutOfEntry
<1>2. PICK e \in f + 1 .. Len(body) :
          \E k \in f .. e - 1, v \in e + 1 .. Len(body) + 1 :
              /\ EntryCut(body, f, k, e, v)
              /\ key = SubSeq(body, f, k) /\ encoded = SubSeq(body, v, Len(body))
    BY <1>1, Zenon
<1>3. PICK k \in f .. e - 1, v \in e + 1 .. Len(body) + 1 :
          /\ EntryCut(body, f, k, e, v)
          /\ key = SubSeq(body, f, k) /\ encoded = SubSeq(body, v, Len(body))
    BY <1>2, Zenon
<1>4. PICK content : content = SubSeq(body, f, Len(body))
    OBVIOUS
<1>5. IsKey(key) => EntryLine(content, text) = LineOf("entry", key, DecodeValue(encoded), text)
    BY <1>3, <1>4, EntryCutForm
<1>6. IsKey(key)
    BY Zenon DEF IsEntry
<1>7. LineOf("entry", key, DecodeValue(encoded), text).kind = "entry"
    BY DEF LineOf
<1>8. Starts(body, f) /\ body[f] \notin {Hash, Opening}
    BY <1>3, Zenon DEF EntryCut
<1>. QED BY <1>4, <1>5, <1>6, <1>7, <1>8, Zenon

\* What the code makes of a line that is text, by what it begins with.
LEMMA ParsedFrom ==
    ASSUME NEW text \in Seq(Byte), IsUtf8(text), Len(text) <= MaximumLineBytes, MaximumLineBytes \in Nat,
           NEW body, body = WithoutEnding(text), NEW f \in 1 .. Len(body), Starts(body, f),
           NEW content, content = SubSeq(body, f, Len(body))
    PROVE  /\ body[f] = Hash => Parsed(text).kind = "blank"
           /\ body[f] = Opening => Parsed(text) = HeaderLine(content, text)
           /\ body[f] \notin {Hash, Opening} => Parsed(text) = EntryLine(content, text)
<1>1. body \in Seq(Byte)
    BY BodyIsBytes
<1>2. f \in 1 .. Len(body) + 1 /\ f # Len(body) + 1
    BY <1>1
<1>. QED BY <1>2, ParsedForms

LEMMA LinesAreTold ==
    ASSUME line \in Seq(Byte), MaximumLineBytes \in Nat, Undecodable \notin Seq(Byte)
    PROVE  LineIsExact
<1>. DEFINE Goal(l, body, encodings) ==
                /\ l.kind = "blank" <=> IsBlank(body)
                /\ l.kind = "header" <=> \E g \in Parts(body) : IsHeader(body, g)
                /\ l.kind = "entry" <=> \E k \in {k \in Parts(body) : IsKey(k)}, e \in encodings : IsEntry(body, k, e)
                /\ l.kind = "header" => IsHeader(body, l.name)
                /\ l.kind = "entry" => \E e \in encodings : IsEntry(body, l.name, e) /\ IsDecodingOf(l.value, e)
<1>1. SUFFICES ASSUME IsUtf8(line), Len(line) <= MaximumLineBytes
               PROVE  Goal(Parsed(line), WithoutEnding(line), Suffixes(WithoutEnding(line)))
    BY Zenon DEF LineIsExact
<1>2. PICK l, body, encodings :
          l = Parsed(line) /\ body = WithoutEnding(line) /\ encodings = Suffixes(WithoutEnding(line))
    OBVIOUS
<1>3. body \in Seq(Byte)
    BY <1>2, BodyIsBytes
<1>4. /\ \A s \in Parts(body) : s \in Seq(Byte)
      /\ \A s \in encodings : s \in Seq(Byte)
    BY <1>2, <1>3, PartsAreBytes, SuffixesAre
<1>5. ASSUME NEW f \in 1 .. Len(body), Starts(body, f)
      PROVE  /\ body[f] = Hash => l.kind = "blank"
             /\ body[f] = Opening => l = HeaderLine(SubSeq(body, f, Len(body)), line)
             /\ body[f] \notin {Hash, Opening} => l = EntryLine(SubSeq(body, f, Len(body)), line)
    BY <1>1, <1>2, <1>5, ParsedFrom
<1>6. PICK f \in 1 .. Len(body) + 1 : Starts(body, f)
    BY <1>3, BodyStarts
<1>7. IsBlank(body) <=> f = Len(body) + 1 \/ body[f] = Hash
    BY <1>3, <1>6, BlankOfForm
<1>8. \A g \in Parts(body) : IsHeader(body, g) => l.kind = "header"
    <2>1. SUFFICES ASSUME NEW g \in Seq(Byte), IsHeader(body, g) PROVE l.kind = "header"
        BY <1>4
    <2>2. PICK h \in 1 .. Len(body) : /\ Starts(body, h) /\ body[h] = Opening
                                      /\ HeaderLine(SubSeq(body, h, Len(body)), line).kind = "header"
        BY <1>3, <2>1, HeaderIsTaken
    <2>. QED BY <1>5, <2>2
<1>9. \A k \in Parts(body), e \in encodings : IsEntry(body, k, e) => l.kind = "entry"
    <2>1. SUFFICES ASSUME NEW k \in Seq(Byte), NEW e \in Seq(Byte), IsEntry(body, k, e) PROVE l.kind = "entry"
        BY <1>4
    <2>2. PICK h \in 1 .. Len(body) : /\ Starts(body, h) /\ body[h] \notin {Hash, Opening}
                                      /\ EntryLine(SubSeq(body, h, Len(body)), line).kind = "entry"
        BY <1>3, <2>1, EntryIsTaken
    <2>. QED BY <1>5, <2>2
<1>10. Goal(l, body, encodings)
    <2>1. CASE f = Len(body) + 1 \/ body[f] = Hash
        <3>1. l.kind = "blank"
            <4>1. f = Len(body) + 1 => l.kind = "blank"
                BY <1>1, <1>2, <1>6, ParsedForms
            <4>2. f # Len(body) + 1 => f \in 1 .. Len(body)
                BY <1>3
            <4>. QED BY <1>5, <1>6, <2>1, <4>1, <4>2
        <3>. QED BY <1>7, <1>8, <1>9, <2>1, <3>1
    <2>2. CASE f # Len(body) + 1 /\ body[f] = Opening
        <3>1. f \in 1 .. Len(body)
            BY <1>3, <2>2
        <3>2. PICK content : content = SubSeq(body, f, Len(body))
            OBVIOUS
        <3>3. l = HeaderLine(content, line)
            BY <1>5, <1>6, <2>2, <3>1, <3>2
        <3>4. l.kind # "blank" /\ l.kind # "entry"
            BY <3>3, KindsOfForms
        <3>5. l.kind = "header" => IsHeader(body, l.name) /\ l.name \in Parts(body)
            BY <1>3, <1>6, <2>2, <3>1, <3>2, <3>3, HeaderIsTold
        <3>6. ~IsBlank(body)
            BY <1>7, <2>2 DEF Opening, Hash
        <3>. QED BY <1>8, <1>9, <3>4, <3>5, <3>6, Zenon
    <2>3. CASE f # Len(body) + 1 /\ body[f] \notin {Hash, Opening}
        <3>1. f \in 1 .. Len(body)
            BY <1>3, <2>3
        <3>2. PICK content : content = SubSeq(body, f, Len(body))
            OBVIOUS
        <3>3. l = EntryLine(content, line)
            BY <1>5, <1>6, <2>3, <3>1, <3>2
        <3>4. l.kind # "blank" /\ l.kind # "header"
            BY <3>3, KindsOfForms
        <3>5. l.kind = "entry" =>
                 /\ l.name \in Parts(body) /\ IsKey(l.name)
                 /\ \E e \in encodings : IsEntry(body, l.name, e) /\ IsDecodingOf(l.value, e)
            <4>1. encodings = Suffixes(body)
                BY <1>2
            <4>. QED BY <1>3, <1>6, <2>3, <3>1, <3>2, <3>3, <4>1, EntryIsTold
        <3>6. ~IsBlank(body)
            BY <1>7, <2>3
        <3>. QED BY <1>8, <1>9, <3>4, <3>5, <3>6, Zenon
    <2>. QED BY <2>1, <2>2, <2>3
<1>. HIDE DEF Goal
<1>. QED BY <1>2, <1>10, Zenon

-----------------------------------------------------------------------------
(* The lines of every run                                                   *)

LineOfBytes == alphabet \in Alphabets /\ line \in Seq(Byte)

\* What a run has of a line is bytes.
LEMMA LineStaysOfBytes ==
    ASSUME LineOfBytes, [Next]_vars
    PROVE  LineOfBytes'
<1>1. ASSUME NEW p \in alphabet, Read(p) PROVE LineOfBytes'
    <2>1. p \in Seq(Byte)
        BY LookupAssumption DEF LineOfBytes, Byte
    <2>. QED BY <1>1, <2>1, ConcatProperties DEF LineOfBytes, Read
<1>2. CASE EndLine \/ EndLastLine \/ FailFile \/ ParseProfile
    <2>1. alphabet' = alphabet /\ line' = <<>>
        BY <1>2, Zenon DEF EndLine, EndLastLine, FailFile, ParseProfile
    <2>. QED BY <2>1 DEF LineOfBytes
<1>3. CASE EndFile \/ UNCHANGED vars
    BY <1>3 DEF LineOfBytes, EndFile, lookupVars, vars
<1>4. ASSUME NEW p \in QueryAlphabet, Type(p) PROVE LineOfBytes'
    BY <1>4 DEF LineOfBytes, Type
<1>. QED BY <1>1, <1>2, <1>3, <1>4 DEF Next

LEMMA LinesAreBytes == Spec => []LineOfBytes
<1>1. Init => LineOfBytes
    BY DEF Init, LineOfBytes
<1>. QED BY <1>1, LineStaysOfBytes, PTL DEF Spec

\* isValidUtf8 (key_file_reader.cpp:44) accepts a line exactly if it is a sequence of encoded
\* code points, whatever bytes the line is made of and however long it is.
THEOREM LookupTakesExactlyUtf8 == Spec => []Utf8IsExact
<1>1. LineOfBytes => Utf8IsExact
    BY ValidIsUtf8 DEF LineOfBytes, Utf8IsExact
<1>. QED BY <1>1, LinesAreBytes, PTL

\* decodeValue (key_file_reader.cpp:168) gives what the bytes stand for, or refuses them if
\* one of their escapes is none, whatever bytes they are.
THEOREM LookupDecodesExactly == Spec => []DecodeIsExact
<1>1. LineOfBytes => DecodeIsExact
    <2>1. Undecodable \notin Seq(Byte)
        BY LookupAssumption DEF Byte
    <2>. QED BY <2>1, DecodeIsDecoding DEF LineOfBytes, DecodeIsExact
<1>. QED BY <1>1, LinesAreBytes, PTL

\* A line is taken for what the grammar says (key_file_reader.cpp:278-335), whatever bytes it
\* is made of: a comment, a header or an entry exactly if it can be cut into the parts of one,
\* with the name and the decoded value that the cut gives.
THEOREM LookupReadsLinesExactly == Spec => []LineIsExact
<1>1. LineOfBytes => LineIsExact
    <2>1. Undecodable \notin Seq(Byte) /\ MaximumLineBytes \in Nat
        BY LookupAssumption DEF Byte
    <2>. QED BY <2>1, LinesAreTold DEF LineOfBytes
<1>. QED BY <1>1, LinesAreBytes, PTL

-----------------------------------------------------------------------------
(* What stands in order                                                     *)

\* R is a strict order of all of S.
Orders(R, S) ==
    /\ \A d \in S : <<d, d>> \notin R
    /\ \A c, d, e \in S : <<c, d>> \in R /\ <<d, e>> \in R => <<c, e>> \in R
    /\ \A d, e \in S : d # e => <<d, e>> \in R \/ <<e, d>> \in R

\* How many are before e.
Rank(S, R, e) == Cardinality({d \in S : <<d, e>> \in R})

\* Ranks are as the order is, and below the number of members.
LEMMA RanksOrdered ==
    ASSUME NEW S, IsFiniteSet(S), NEW R, Orders(R, S)
    PROVE  /\ Cardinality(S) \in Nat
           /\ \A e \in S : Rank(S, R, e) \in Nat /\ Rank(S, R, e) < Cardinality(S)
           /\ \A d, e \in S : <<d, e>> \in R <=> Rank(S, R, d) < Rank(S, R, e)
<1>. DEFINE P(e) == {d \in S : <<d, e>> \in R}
<1>1. \A e : IsFiniteSet(P(e)) /\ Cardinality(P(e)) \in Nat
    <2>1. \A e : P(e) \in SUBSET S
        OBVIOUS
    <2>. HIDE DEF P
    <2>. QED BY <2>1, FS_Subset, FS_CardinalityType
<1>2. ASSUME NEW A, NEW B, IsFiniteSet(B), A \in SUBSET B, NEW x \in B, x \notin A
      PROVE  Cardinality(A) < Cardinality(B)
    <2>1. Cardinality(A) <= Cardinality(B) /\ Cardinality(A) # Cardinality(B)
        BY <1>2, FS_Subset
    <2>2. Cardinality(A) \in Nat /\ Cardinality(B) \in Nat
        BY <1>2, FS_Subset, FS_CardinalityType
    <2>. QED BY <2>1, <2>2
<1>3. ASSUME NEW e \in S PROVE Cardinality(P(e)) < Cardinality(S)
    <2>1. P(e) \in SUBSET S /\ e \notin P(e)
        BY DEF Orders
    <2>. HIDE DEF P
    <2>. QED BY <1>2, <2>1
<1>4. ASSUME NEW d \in S, NEW e \in S, <<d, e>> \in R PROVE Cardinality(P(d)) < Cardinality(P(e))
    <2>1. P(d) \in SUBSET P(e)
        BY <1>4 DEF Orders
    <2>2. d \in P(e) /\ d \notin P(d)
        BY <1>4 DEF Orders
    <2>. HIDE DEF P
    <2>. QED BY <1>1, <1>2, <2>1, <2>2
<1>5. \A e : Rank(S, R, e) = Cardinality(P(e))
    BY DEF Rank
<1>. HIDE DEF P
<1>6. ASSUME NEW d \in S, NEW e \in S PROVE <<d, e>> \in R <=> Rank(S, R, d) < Rank(S, R, e)
    <2>1. Cardinality(P(d)) \in Nat /\ Cardinality(P(e)) \in Nat
        BY <1>1
    <2>2. CASE <<d, e>> \in R
        BY <1>4, <1>5, <2>2
    <2>3. CASE d = e
        <3>1. <<d, e>> \notin R
            BY <2>3 DEF Orders
        <3>. QED BY <1>5, <2>1, <2>3, <3>1
    <2>4. CASE <<e, d>> \in R
        <3>1. <<d, e>> \notin R
            BY <2>4 DEF Orders
        <3>2. Cardinality(P(e)) < Cardinality(P(d))
            BY <1>4, <2>4
        <3>. QED BY <1>5, <2>1, <3>1, <3>2
    <2>. QED BY <2>2, <2>3, <2>4 DEF Orders
<1>7. Cardinality(S) \in Nat
    BY FS_CardinalityType
<1>. QED BY <1>1, <1>3, <1>5, <1>6, <1>7

\* Every place has its member and every member its place, the one that its rank is.
LEMMA InOrderIs ==
    ASSUME NEW S, IsFiniteSet(S), NEW R, Orders(R, S)
    PROVE  /\ Cardinality(S) \in Nat
           /\ DOMAIN InOrder(S, R) = 1 .. Cardinality(S)
           /\ InOrder(S, R) \in Seq(S) /\ Len(InOrder(S, R)) = Cardinality(S)
           /\ \A n \in 1 .. Cardinality(S) :
                  InOrder(S, R)[n] \in S /\ Rank(S, R, InOrder(S, R)[n]) = n - 1
           /\ \A e \in S : /\ Rank(S, R, e) + 1 \in 1 .. Cardinality(S)
                           /\ InOrder(S, R)[Rank(S, R, e) + 1] = e
           /\ \A i, j \in 1 .. Cardinality(S) : i < j <=> <<InOrder(S, R)[i], InOrder(S, R)[j]>> \in R
<1>. DEFINE c == Cardinality(S)
            r == [e \in S |-> Rank(S, R, e)]
            s == InOrder(S, R)
<1>1. /\ c \in Nat
      /\ \A e \in S : Rank(S, R, e) \in Nat /\ Rank(S, R, e) < c
      /\ \A d, e \in S : <<d, e>> \in R <=> Rank(S, R, d) < Rank(S, R, e)
    BY RanksOrdered
<1>2. \A d, e \in S : Rank(S, R, d) = Rank(S, R, e) => d = e
    <2>1. SUFFICES ASSUME NEW d \in S, NEW e \in S, d # e PROVE Rank(S, R, d) # Rank(S, R, e)
        OBVIOUS
    <2>2. <<d, e>> \in R \/ <<e, d>> \in R
        BY <2>1 DEF Orders
    <2>3. Rank(S, R, d) < Rank(S, R, e) \/ Rank(S, R, e) < Rank(S, R, d)
        BY <1>1, <2>2
    <2>4. Rank(S, R, d) \in Nat /\ Rank(S, R, e) \in Nat
        BY <1>1
    <2>. QED BY <2>3, <2>4
<1>3. r \in Injection(S, 0 .. c - 1)
    <2>1. r \in [S -> 0 .. c - 1]
        BY <1>1
    <2>2. \A d, e \in S : r[d] = r[e] => d = e
        BY <1>2
    <2>. HIDE DEF r
    <2>. QED BY <2>1, <2>2 DEF Injection, IsInjective
<1>4. IsFiniteSet(0 .. c - 1) /\ Cardinality(0 .. c - 1) = c
    <2>1. 0 \in Int /\ c - 1 \in Int
        BY <1>1
    <2>. QED BY <1>1, <2>1, FS_Interval
<1>5. r \in Surjection(S, 0 .. c - 1)
    <2>. DEFINE T == 0 .. c - 1
    <2>1. IsFiniteSet(T) /\ Cardinality(S) = Cardinality(T) /\ r \in Injection(S, T)
        BY <1>3, <1>4
    <2>. HIDE DEF r, T
    <2>2. r \in Surjection(S, T)
        BY <2>1, FS_Injection
    <2>. QED BY <2>2 DEF T
<1>6. \A n \in 1 .. c : \E e \in S : Rank(S, R, e) = n - 1
    <2>1. \A m \in 0 .. c - 1 : \E e \in S : r[e] = m
        <3>. HIDE DEF r
        <3>. QED BY <1>5 DEF Surjection
    <2>2. \A n \in 1 .. c : n - 1 \in 0 .. c - 1
        BY <1>1
    <2>. QED BY <2>1, <2>2
<1>7. s = [n \in 1 .. c |-> CHOOSE e \in S : Rank(S, R, e) = n - 1]
    BY DEF InOrder, Rank
<1>. HIDE DEF s, c, r
<1>8. \A n \in 1 .. c : s[n] \in S /\ Rank(S, R, s[n]) = n - 1
    BY <1>6, <1>7
<1>9. \A e \in S : Rank(S, R, e) + 1 \in 1 .. c /\ s[Rank(S, R, e) + 1] = e
    <2>1. SUFFICES ASSUME NEW e \in S PROVE Rank(S, R, e) + 1 \in 1 .. c /\ s[Rank(S, R, e) + 1] = e
        OBVIOUS
    <2>2. Rank(S, R, e) \in Nat /\ Rank(S, R, e) + 1 \in 1 .. c /\ (Rank(S, R, e) + 1) - 1 = Rank(S, R, e)
        BY <1>1
    <2>3. s[Rank(S, R, e) + 1] \in S /\ Rank(S, R, s[Rank(S, R, e) + 1]) = Rank(S, R, e)
        BY <1>8, <2>2
    <2>. QED BY <1>2, <2>2, <2>3
<1>10. \A i, j \in 1 .. c : i < j <=> <<s[i], s[j]>> \in R
    <2>1. SUFFICES ASSUME NEW i \in 1 .. c, NEW j \in 1 .. c PROVE i < j <=> <<s[i], s[j]>> \in R
        OBVIOUS
    <2>2. /\ s[i] \in S /\ s[j] \in S
          /\ Rank(S, R, s[i]) = i - 1 /\ Rank(S, R, s[j]) = j - 1
        BY <1>8
    <2>3. <<s[i], s[j]>> \in R <=> i - 1 < j - 1
        BY <1>1, <2>2
    <2>. QED BY <2>3
<1>11. s \in Seq(S) /\ Len(s) = c /\ DOMAIN s = 1 .. c
    <2>1. s \in [1 .. c -> S]
        BY <1>7, <1>8
    <2>. QED BY <1>1, <2>1
<1>. QED BY <1>1, <1>8, <1>9, <1>10, <1>11 DEF s, c

\* A finite set of numbers in ascending order.
LEMMA AscendingIs ==
    ASSUME NEW S \in SUBSET Int, IsFiniteSet(S)
    PROVE  /\ Cardinality(S) \in Nat
           /\ Ascending(S) \in Seq(S) /\ Len(Ascending(S)) = Cardinality(S)
           /\ DOMAIN Ascending(S) = 1 .. Cardinality(S)
           /\ \A n \in 1 .. Cardinality(S) : /\ Ascending(S)[n] \in S
                                             /\ Cardinality({d \in S : d < Ascending(S)[n]}) = n - 1
           /\ \A e \in S : /\ Cardinality({d \in S : d < e}) + 1 \in 1 .. Cardinality(S)
                           /\ Ascending(S)[Cardinality({d \in S : d < e}) + 1] = e
           /\ \A i, j \in 1 .. Cardinality(S) : i < j <=> Ascending(S)[i] < Ascending(S)[j]
<1>. DEFINE R == {p \in S \X S : p[1] < p[2]}
<1>1. \A d, e \in S : <<d, e>> \in R <=> d < e
    OBVIOUS
<1>. HIDE DEF R
<1>2. Orders(R, S)
    BY <1>1 DEF Orders
<1>3. \A e \in S : Rank(S, R, e) = Cardinality({d \in S : d < e})
    <2>1. \A e \in S : {d \in S : <<d, e>> \in R} = {d \in S : d < e}
        BY <1>1
    <2>. QED BY <2>1 DEF Rank
<1>4. Ascending(S) = InOrder(S, R)
    BY DEF Ascending, R
<1>5. /\ Cardinality(S) \in Nat
      /\ DOMAIN InOrder(S, R) = 1 .. Cardinality(S)
      /\ InOrder(S, R) \in Seq(S) /\ Len(InOrder(S, R)) = Cardinality(S)
      /\ \A n \in 1 .. Cardinality(S) :
             InOrder(S, R)[n] \in S /\ Rank(S, R, InOrder(S, R)[n]) = n - 1
      /\ \A e \in S : /\ Rank(S, R, e) + 1 \in 1 .. Cardinality(S)
                      /\ InOrder(S, R)[Rank(S, R, e) + 1] = e
      /\ \A i, j \in 1 .. Cardinality(S) : i < j <=> <<InOrder(S, R)[i], InOrder(S, R)[j]>> \in R
    BY <1>2, InOrderIs
<1>. QED BY <1>1, <1>3, <1>4, <1>5

-----------------------------------------------------------------------------
(* What is cut out of bytes                                                 *)

\* What is cut out of bytes is bytes.
LEMMA CutIsBytes ==
    ASSUME NEW bytes \in Seq(Byte), NEW a \in Int, NEW b \in Int, a >= 1, b <= Len(bytes)
    PROVE  SubSeq(bytes, a, b) \in Seq(Byte)
<1>1. \A i \in a .. b : bytes[i] \in Byte
    <2>1. \A i \in a .. b : i \in 1 .. Len(bytes)
        OBVIOUS
    <2>. QED BY <2>1
<1>. QED BY <1>1, SubSeqProperties

\* What is trimmed is bytes.
LEMMA TrimmedIsBytes ==
    ASSUME NEW bytes \in Seq(Byte), NEW before, NEW after
    PROVE  Trimmed(bytes, before, after) \in Seq(Byte)
<1>. DEFINE n == Len(bytes)
            solid == {i \in DOMAIN bytes : bytes[i] \notin before}
            first == IF solid = {} THEN n + 1 ELSE Min(solid)
            ending == {i \in first .. n : bytes[i] \notin after}
            last == IF ending = {} THEN first - 1 ELSE Max(ending)
<1>0. n \in Nat /\ DOMAIN bytes = 1 .. n
    OBVIOUS
<1>1. first \in 1 .. n + 1
    <2>1. CASE solid = {}
        BY <1>0, <2>1
    <2>2. CASE solid # {}
        <3>1. solid \in SUBSET Nat /\ \A i \in solid : i \in 1 .. n
            BY <1>0
        <3>. HIDE DEF solid
        <3>2. Min(solid) \in solid
            BY <2>2, <3>1, SmallestNumber
        <3>3. first = Min(solid) /\ Min(solid) \in 1 .. n
            BY <2>2, <3>1, <3>2
        <3>. HIDE DEF first
        <3>. QED BY <1>0, <3>3
    <2>. QED BY <2>1, <2>2
<1>. HIDE DEF first
<1>2. last \in Int /\ last <= n
    <2>1. CASE ending = {}
        BY <1>0, <1>1, <2>1
    <2>2. CASE ending # {}
        <3>1. \A i \in ending : i \in Int /\ i <= n
            BY <1>0, <1>1
        <3>. HIDE DEF ending
        <3>2. Max(ending) \in ending
            BY <1>0, <2>2, <3>1, LargestNumber
        <3>. QED BY <2>2, <3>1, <3>2
    <2>. QED BY <2>1, <2>2
<1>3. Trimmed(bytes, before, after) = SubSeq(bytes, first, last)
    BY Zenon DEF Trimmed, first
<1>. HIDE DEF last
<1>. QED BY <1>1, <1>2, <1>3, CutIsBytes

\* So is what is stripped, also if nothing was read.
LEMMA StrippedIsBytes ==
    ASSUME NEW value \in Seq(Byte) \cup {Absent}
    PROVE  Stripped(value) \in Seq(Byte)
<1>. DEFINE text == IF value = Absent THEN <<>> ELSE value
            spaces == (9 .. 13) \cup {32}
<1>1. text \in Seq(Byte)
    OBVIOUS
<1>. HIDE DEF text
<1>2. Trimmed(text, spaces, spaces) \in Seq(Byte)
    BY <1>1, TrimmedIsBytes
<1>. QED BY <1>2, Zenon DEF Stripped, text

\* Labels are cut out of the value between its commas.
LEMMA LabelsAreBytes ==
    ASSUME NEW display \in Seq(Byte)
    PROVE  LabelsOf(display) \in Seq(Seq(Byte))
<1>. DEFINE n == Len(display)
            C == {i \in 1 .. n : display[i] = Comma} \cup {0, n + 1}
            cuts == Ascending(C)
            part(m) == Stripped(SubSeq(display, cuts[m] + 1, cuts[m + 1] - 1))
            F == {m \in 1 .. Len(cuts) - 1 : part(m) # <<>>}
            labels == Ascending(F)
<1>0. n \in Nat
    OBVIOUS
<1>1. C \in SUBSET Int /\ IsFiniteSet(C) /\ \A i \in C : i \in 0 .. n + 1
    <2>1. C \in SUBSET (0 .. n + 1)
        BY <1>0
    <2>2. IsFiniteSet(0 .. n + 1)
        BY <1>0, FS_Interval
    <2>. HIDE DEF C
    <2>3. IsFiniteSet(C)
        BY <2>1, <2>2, FS_Subset
    <2>. QED BY <2>1, <2>3
<1>. HIDE DEF C
<1>2. Len(cuts) \in Nat /\ \A m \in 1 .. Len(cuts) : cuts[m] \in 0 .. n + 1
    BY <1>1, AscendingIs
<1>. HIDE DEF cuts
<1>3. \A m \in 1 .. Len(cuts) - 1 : part(m) \in Seq(Byte)
    <2>1. SUFFICES ASSUME NEW m \in 1 .. Len(cuts) - 1 PROVE part(m) \in Seq(Byte)
        OBVIOUS
    <2>2. m \in 1 .. Len(cuts) /\ m + 1 \in 1 .. Len(cuts)
        BY <1>2
    <2>3. cuts[m] \in 0 .. n + 1 /\ cuts[m + 1] \in 0 .. n + 1
        BY <1>2, <2>2
    <2>4. SubSeq(display, cuts[m] + 1, cuts[m + 1] - 1) \in Seq(Byte)
        <3>1. cuts[m] + 1 \in Int /\ cuts[m] + 1 >= 1 /\ cuts[m + 1] - 1 \in Int /\ cuts[m + 1] - 1 <= n
            BY <1>0, <2>3
        <3>. QED BY <3>1, CutIsBytes
    <2>. QED BY <2>4, StrippedIsBytes
<1>. HIDE DEF part
<1>4. F \in SUBSET Int /\ IsFiniteSet(F)
    <2>1. F \in SUBSET (1 .. Len(cuts) - 1) /\ \A m \in F : m \in Int
        OBVIOUS
    <2>2. IsFiniteSet(1 .. Len(cuts) - 1)
        <3>1. 1 \in Int /\ Len(cuts) - 1 \in Int
            BY <1>2
        <3>. QED BY <3>1, FS_Interval
    <2>. HIDE DEF F
    <2>3. IsFiniteSet(F)
        BY <2>1, <2>2, FS_Subset
    <2>. QED BY <2>1, <2>3
<1>5. /\ Cardinality(F) \in Nat /\ DOMAIN labels = 1 .. Cardinality(F)
      /\ \A i \in 1 .. Cardinality(F) : labels[i] \in F
    <2>. HIDE DEF F
    <2>. QED BY <1>4, AscendingIs
<1>. HIDE DEF labels
<1>6. [i \in DOMAIN labels |-> part(labels[i])] \in Seq(Seq(Byte))
    <2>1. \A i \in 1 .. Cardinality(F) : part(labels[i]) \in Seq(Byte)
        <3>1. \A m \in F : m \in 1 .. Len(cuts) - 1
            OBVIOUS
        <3>. HIDE DEF F
        <3>. QED BY <1>3, <1>5, <3>1
    <2>. HIDE DEF F
    <2>2. [i \in 1 .. Cardinality(F) |-> part(labels[i])] \in Seq(Seq(Byte))
        BY <1>5, <2>1
    <2>. QED BY <1>5, <2>2
<1>7. LabelsOf(display) = [i \in DOMAIN labels |-> part(labels[i])]
    BY Zenon DEF LabelsOf, labels, part, cuts, C
<1>. QED BY <1>6, <1>7

\* What a line is has bytes for its name and, unless it is undecodable, its value.
LEMMA ParsedIsALine ==
    ASSUME NEW bytes \in Seq(Byte), Undecodable \notin Seq(Byte)
    PROVE  Parsed(bytes) \in Lines(Seq(Byte), Seq(Byte))
<1>0. Len(bytes) \in Nat /\ <<>> \in Seq(Byte)
    OBVIOUS
<1>1. ASSUME NEW kind \in {"blank", "header", "entry", "junk"}, NEW name \in Seq(Byte),
             NEW value \in Seq(Byte) \cup {Undecodable}
      PROVE  LineOf(kind, name, value, bytes) \in Lines(Seq(Byte), Seq(Byte))
    BY <1>0 DEF LineOf, Lines
<1>2. Junk(bytes) \in Lines(Seq(Byte), Seq(Byte))
    BY <1>0, <1>1 DEF Junk
<1>3. ASSUME NEW content \in Seq(Byte) PROVE HeaderLine(content, bytes) \in Lines(Seq(Byte), Seq(Byte))
    <2>. DEFINE header == Trimmed(content, {}, {Space, Tab})
                group == SubSeq(header, 2, Len(header) - 1)
    <2>1. header \in Seq(Byte)
        BY TrimmedIsBytes
    <2>. HIDE DEF header
    <2>2. group \in Seq(Byte)
        BY <2>1, CutIsBytes
    <2>3. LineOf("header", group, <<>>, bytes) \in Lines(Seq(Byte), Seq(Byte))
        BY <1>0, <1>1, <2>2
    <2>4. HeaderLine(content, bytes) \in {LineOf("header", group, <<>>, bytes), Junk(bytes)}
        BY Zenon DEF HeaderLine, header
    <2>. QED BY <1>2, <2>3, <2>4
<1>4. ASSUME NEW content \in Seq(Byte) PROVE EntryLine(content, bytes) \in Lines(Seq(Byte), Seq(Byte))
    <2>. DEFINE equals == {i \in DOMAIN content : content[i] = Equals}
                key == Trimmed(SubSeq(content, 1, Min(equals) - 1), Syntactic, Syntactic)
                encoded == Trimmed(SubSeq(content, Min(equals) + 1, Len(content)), Syntactic, {})
    <2>1. CASE equals = {}
        <3>1. EntryLine(content, bytes) = Junk(bytes)
            BY <2>1, Zenon DEF EntryLine
        <3>. QED BY <1>2, <3>1
    <2>2. CASE equals # {}
        <3>1. equals \in SUBSET Nat /\ \A i \in equals : i \in 1 .. Len(content)
            OBVIOUS
        <3>. HIDE DEF equals
        <3>2. Min(equals) \in 1 .. Len(content)
            BY <2>2, <3>1, SmallestNumber
        <3>3. /\ SubSeq(content, 1, Min(equals) - 1) \in Seq(Byte)
              /\ SubSeq(content, Min(equals) + 1, Len(content)) \in Seq(Byte)
            BY <3>2, CutIsBytes
        <3>4. key \in Seq(Byte) /\ encoded \in Seq(Byte)
            BY <3>3, TrimmedIsBytes
        <3>. HIDE DEF key, encoded
        <3>5. LineOf("entry", key, DecodeValue(encoded), bytes) \in Lines(Seq(Byte), Seq(Byte))
            BY <1>1, <3>4, DecodedIsBytes
        <3>6. EntryLine(content, bytes) \in {LineOf("entry", key, DecodeValue(encoded), bytes), Junk(bytes)}
            BY Zenon DEF EntryLine, equals, key, encoded
        <3>. QED BY <1>2, <3>5, <3>6
    <2>. QED BY <2>1, <2>2
<1>. DEFINE content == Trimmed(WithoutEnding(bytes), Syntactic, {})
<1>5. content \in Seq(Byte)
    BY BodyIsBytes, TrimmedIsBytes
<1>6. LineOf("blank", <<>>, <<>>, bytes) \in Lines(Seq(Byte), Seq(Byte))
    BY <1>0, <1>1
<1>7. Parsed(bytes) \in {Junk(bytes), LineOf("blank", <<>>, <<>>, bytes),
                         HeaderLine(content, bytes), EntryLine(content, bytes)}
    BY Zenon DEF Parsed
<1>. HIDE DEF content
<1>. QED BY <1>2, <1>3, <1>4, <1>5, <1>6, <1>7

-----------------------------------------------------------------------------
(* What a run has of profiles                                               *)

\* Profiles whose fields are bytes.
Record == [name : Seq(Byte), server : Seq(Byte), labels : Seq(Seq(Byte)), path : Nat]

\* The list of profiles goes up by path, which is that of a file that was read.
Listed ==
    /\ profiles \in Seq(Record) /\ paths \in Nat /\ query \in Seq(Byte) \cup {Absent}
    /\ \A i \in DOMAIN profiles : profiles[i].path <= paths
    /\ \A i, j \in DOMAIN profiles : i < j => profiles[i].path < profiles[j].path

\* The reader that reads bytes.
ReaderOfBytes == ReaderInvariant(Seq(Byte), Seq(Byte))

\* What holds of the line, the reader and the list at every step.
LookupInvariant == LineOfBytes /\ ReaderOfBytes /\ Listed

\* The marks are no bytes.
LEMMA MarksAreNone == Undecodable \notin Seq(Byte) /\ Absent \notin Seq(Byte) \cup {Undecodable}
BY LookupAssumption, ReaderAssumption DEF Byte

\* The reader is reset.
LEMMA ReaderIsReset == ReaderInit' => ReaderOfBytes'
<1>1. ReaderInit => ReaderOfBytes
    BY NothingRead DEF ReaderOfBytes
<1>. QED BY <1>1, PTL

\* A profile that was parsed is behind the others.
LEMMA ProfileIsListed ==
    ASSUME LookupInvariant, ParseProfile
    PROVE  Listed'
<1>. DEFINE name == Stripped(values[Name])
            labels == LabelsOf(Stripped(values[Labels]))
            new == [name |-> name, server |-> Stripped(values[Server]), labels |-> labels, path |-> paths + 1]
            n == Len(profiles)
<1>1. /\ profiles \in Seq(Record) /\ paths \in Nat /\ query \in Seq(Byte) \cup {Absent}
      /\ \A i \in DOMAIN profiles : profiles[i].path <= paths
      /\ \A i, j \in DOMAIN profiles : i < j => profiles[i].path < profiles[j].path
    BY DEF LookupInvariant, Listed
<1>2. query' = query /\ paths' = paths + 1 /\ profiles' \in {profiles, Append(profiles, new)}
    BY Zenon DEF ParseProfile
<1>3. new \in Record
    <2>1. values \in [AllowedKeys -> Seq(Byte) \cup {Absent}]
        BY DEF LookupInvariant, ReaderOfBytes, ReaderInvariant, ReaderTypes
    <2>2. \A k \in {Name, Server, Labels} : values[k] \in Seq(Byte) \cup {Absent}
        BY <2>1, LookupAssumption
    <2>3. \A k \in {Name, Server, Labels} : Stripped(values[k]) \in Seq(Byte)
        BY <2>2, StrippedIsBytes
    <2>4. labels \in Seq(Seq(Byte))
        BY <2>3, LabelsAreBytes
    <2>5. name \in Seq(Byte) /\ Stripped(values[Server]) \in Seq(Byte)
        BY <2>3
    <2>. HIDE DEF labels, name
    <2>. QED BY <1>1, <2>4, <2>5 DEF Record
<1>. HIDE DEF new
<1>4. /\ n \in Nat /\ DOMAIN profiles = 1 .. n
      /\ \A i \in 1 .. n : profiles[i] \in Record /\ profiles[i].path \in Nat
    <2>1. /\ n \in Nat /\ DOMAIN profiles = 1 .. n /\ \A i \in 1 .. n : profiles[i] \in Record
        BY <1>1
    <2>2. \A r \in Record : r.path \in Nat
        BY DEF Record
    <2>. QED BY <2>1, <2>2
<1>5. CASE profiles' = profiles
    <2>1. \A i \in DOMAIN profiles : profiles[i].path <= paths + 1
        BY <1>1, <1>4
    <2>. QED BY <1>1, <1>2, <1>5, <2>1 DEF Listed
<1>6. CASE profiles' = Append(profiles, new)
    <2>1. new.path = paths + 1
        BY DEF new
    <2>2. /\ profiles' \in Seq(Record) /\ DOMAIN profiles' = 1 .. n + 1
          /\ \A i \in 1 .. n : profiles'[i] = profiles[i]
          /\ profiles'[n + 1] = new
        BY <1>1, <1>3, <1>4, <1>6
    <2>3. \A i \in 1 .. n + 1 : profiles'[i].path <= paths + 1
        <3>1. \A i \in 1 .. n : profiles'[i].path <= paths + 1
            BY <1>1, <1>4, <2>2
        <3>2. profiles'[n + 1].path <= paths + 1
            BY <1>1, <2>1, <2>2
        <3>. QED BY <1>4, <3>1, <3>2
    <2>4. \A i, j \in 1 .. n + 1 : i < j => profiles'[i].path < profiles'[j].path
        <3>1. SUFFICES ASSUME NEW i \in 1 .. n + 1, NEW j \in 1 .. n + 1, i < j
                       PROVE  profiles'[i].path < profiles'[j].path
            OBVIOUS
        <3>2. i \in 1 .. n /\ profiles'[i] = profiles[i] /\ profiles[i].path \in Nat /\ profiles[i].path <= paths
            BY <1>1, <1>4, <2>2, <3>1
        <3>3. CASE j = n + 1
            BY <1>1, <2>1, <2>2, <3>2, <3>3
        <3>4. CASE j # n + 1
            <4>1. j \in 1 .. n
                BY <1>4, <3>4
            <4>. QED BY <1>1, <1>4, <2>2, <3>1, <3>2, <4>1
        <3>. QED BY <3>3, <3>4
    <2>. QED BY <1>1, <1>2, <2>2, <2>3, <2>4 DEF Listed
<1>. QED BY <1>2, <1>5, <1>6

\* What is read, listed and typed is of bytes, and the reader keeps its invariant from
\* file to file.
THEOREM LookupKeepsInvariant == Spec => []LookupInvariant
<1>1. Init => LookupInvariant
    <2>. SUFFICES ASSUME Init PROVE LookupInvariant
        OBVIOUS
    <2>1. ReaderOfBytes
        BY NothingRead DEF Init, ReaderOfBytes
    <2>2. LineOfBytes /\ Listed
        BY DEF Init, LineOfBytes, Listed
    <2>. QED BY <2>1, <2>2 DEF LookupInvariant
<1>2. LookupInvariant /\ [Next]_vars => LookupInvariant'
    <2>. SUFFICES ASSUME LookupInvariant, [Next]_vars PROVE LookupInvariant'
        OBVIOUS
    <2>1. LineOfBytes /\ ReaderOfBytes /\ Listed
        BY DEF LookupInvariant
    <2>2. LineOfBytes'
        BY <2>1, LineStaysOfBytes
    <2>. SUFFICES ReaderOfBytes' /\ Listed'
        BY <2>2 DEF LookupInvariant
    <2>3. Parsed(line) \in Lines(Seq(Byte), Seq(Byte))
        BY <2>1, MarksAreNone, ParsedIsALine DEF LineOfBytes
    <2>4. ASSUME NEW p, Read(p) PROVE ReaderOfBytes' /\ Listed'
        <3>1. UNCHANGED readerVars /\ UNCHANGED <<profiles, paths, query>>
            BY <2>4 DEF Read
        <3>2. ReaderOfBytes'
            BY <2>1, <3>1, SameReader DEF ReaderOfBytes
        <3>. QED BY <2>1, <3>1, <3>2 DEF Listed
    <2>5. CASE EndLine \/ EndLastLine
        <3>1. ReadLine(Parsed(line)) /\ UNCHANGED <<profiles, paths, query>>
            BY <2>5 DEF EndLine, EndLastLine
        <3>2. ReaderOfBytes'
            <4>1. ReaderInvariant(Seq(Byte), Seq(Byte))
                BY <2>1 DEF ReaderOfBytes
            <4>2. ReaderInvariant(Seq(Byte), Seq(Byte))'
                BY <2>3, <3>1, <4>1, LineIsRead
            <4>. QED BY <4>2 DEF ReaderOfBytes
        <3>. QED BY <2>1, <3>1, <3>2 DEF Listed
    <2>6. CASE EndFile \/ FailFile
        <3>1. (EndOfFile \/ ReadFails) /\ UNCHANGED <<profiles, paths, query>>
            BY <2>6 DEF EndFile, FailFile, lookupVars
        <3>2. ReaderOfBytes'
            <4>1. ReaderInvariant(Seq(Byte), Seq(Byte))
                BY <2>1 DEF ReaderOfBytes
            <4>2. ReaderInvariant(Seq(Byte), Seq(Byte))'
                BY <3>1, <4>1, FileEnds, ReadingFails
            <4>. QED BY <4>2 DEF ReaderOfBytes
        <3>. QED BY <2>1, <3>1, <3>2 DEF Listed
    <2>7. CASE ParseProfile
        <3>1. ReaderInit'
            BY <2>7 DEF ParseProfile, ReaderInit
        <3>. QED BY <2>7, <3>1, ReaderIsReset, ProfileIsListed
    <2>8. ASSUME NEW p \in QueryAlphabet, Type(p) PROVE ReaderOfBytes' /\ Listed'
        <3>1. UNCHANGED readerVars /\ UNCHANGED <<profiles, paths>>
            BY <2>8 DEF Type
        <3>2. query' \in Seq(Byte)
            <4>1. p \in Seq(Byte)
                BY LookupAssumption DEF Byte
            <4>. DEFINE q == IF query = Absent THEN <<>> ELSE query
            <4>2. q \in Seq(Byte) /\ query' = q \o p
                BY <2>1, <2>8, Zenon, EmptySeq DEF Type, Listed
            <4>. HIDE DEF q
            <4>. QED BY <4>1, <4>2, ConcatProperties
        <3>3. ReaderOfBytes'
            BY <2>1, <3>1, SameReader DEF ReaderOfBytes
        <3>. QED BY <2>1, <3>1, <3>2, <3>3 DEF Listed
    <2>9. CASE UNCHANGED vars
        <3>1. UNCHANGED readerVars /\ UNCHANGED <<profiles, paths, query>>
            BY <2>9 DEF vars, lookupVars
        <3>2. ReaderOfBytes'
            BY <2>1, <3>1, SameReader DEF ReaderOfBytes
        <3>. QED BY <2>1, <3>1, <3>2 DEF Listed
    <2>. QED BY <2>4, <2>5, <2>6, <2>7, <2>8, <2>9 DEF Next
<1>. QED BY <1>1, <1>2, PTL DEF Spec

\* Of every file of a run, line by line and file by file, the reader returns what it should:
\* values exactly if the file is one to take, and those of the last lines of the section.
THEOREM LookupReadsFilesExactly == Spec => []ReaderIsExact
<1>1. LookupInvariant => ReaderIsExact
    BY KeptIsExact, MarksAreNone DEF LookupInvariant, ReaderOfBytes
<1>. QED BY <1>1, LookupKeepsInvariant, PTL

-----------------------------------------------------------------------------
(* The words of a query                                                     *)

\* The places of what was typed, and of those the ones that begin a word.
Typed(rest) == {i \in DOMAIN rest : ~IsSpace(rest[i])}
Begins(rest) == {i \in Typed(rest) : i - 1 \notin Typed(rest)}
Word(rest, i) == Cardinality({j \in Begins(rest) : j <= i})
Place(rest, i) == Cardinality({j \in Typed(rest) : j <= i /\ Word(rest, j) = Word(rest, i)})

\* The last place of the word that begins at b.
LastOf(rest, b) == Max({j \in b .. Len(rest) : \A k \in b .. j : ~IsSpace(rest[k])})

\* There are finitely many of them, and they are numbers.
LEMMA TypedIs ==
    ASSUME NEW rest \in Seq(Byte)
    PROVE  /\ Len(rest) \in Nat
           /\ \A i : i \in Typed(rest) <=> i \in 1 .. Len(rest) /\ ~IsSpace(rest[i])
           /\ Begins(rest) \in SUBSET Int /\ IsFiniteSet(Begins(rest))
           /\ \A i \in Begins(rest) : i \in Typed(rest) /\ i - 1 \notin Typed(rest)
<1>1. /\ Len(rest) \in Nat
      /\ \A i : i \in Typed(rest) <=> i \in 1 .. Len(rest) /\ ~IsSpace(rest[i])
    BY DEF Typed
<1>2. Begins(rest) \in SUBSET (1 .. Len(rest))
    BY <1>1 DEF Begins
<1>3. IsFiniteSet(Begins(rest))
    <2>1. IsFiniteSet(1 .. Len(rest))
        BY <1>1, FS_Interval
    <2>. QED BY <1>2, <2>1, FS_Subset
<1>4. \A i \in Begins(rest) : i \in Typed(rest) /\ i - 1 \notin Typed(rest)
    BY DEF Begins
<1>. QED BY <1>1, <1>2, <1>3, <1>4

\* Each place is in a word: typed without a space since its beginning.
LEMMA WordBegins ==
    ASSUME NEW rest \in Seq(Byte), NEW i \in Typed(rest)
    PROVE  \E b \in Begins(rest) : b \in 1 .. i /\ \A k \in b .. i : k \in Typed(rest)
<1>. DEFINE S == {b \in 1 .. i : \A k \in b .. i : k \in Typed(rest)}
<1>0. i \in Nat /\ i >= 1 /\ i <= Len(rest) /\ Len(rest) \in Nat
    BY TypedIs
<1>1. i \in S /\ S \in SUBSET Nat
    BY <1>0
<1>2. PICK b \in S : \A c \in S : ~(c < b)
    <2>. HIDE DEF S
    <2>. QED BY <1>1, LeastNumber
<1>3. b - 1 \notin Typed(rest)
    <2>1. SUFFICES ASSUME b - 1 \in Typed(rest) PROVE FALSE
        OBVIOUS
    <2>2. b \in Nat /\ b - 1 \in 1 .. i
        BY <1>0, <2>1, TypedIs
    <2>3. \A k \in b - 1 .. i : k = b - 1 \/ k \in b .. i
        BY <1>0, <2>2
    <2>4. b - 1 \in S
        BY <2>1, <2>2, <2>3
    <2>. QED BY <1>2, <2>2, <2>4
<1>4. b \in Typed(rest)
    BY <1>0
<1>. QED BY <1>3, <1>4 DEF Begins

\* It is the word with the number of that beginning.
LEMMA WordIs ==
    ASSUME NEW rest \in Seq(Byte), NEW i \in Int, NEW b \in Begins(rest), b <= i,
           \A k \in b .. i : k \in Typed(rest)
    PROVE  /\ Word(rest, i) \in 1 .. Cardinality(Begins(rest))
           /\ Ascending(Begins(rest))[Word(rest, i)] = b
<1>. DEFINE B == Begins(rest)
            below == {d \in B : d < b}
<1>1. /\ B \in SUBSET Int /\ IsFiniteSet(B) /\ \A j \in B : j \in Int /\ j - 1 \notin Typed(rest)
      /\ b \in B /\ b \in Int
    BY TypedIs
<1>. HIDE DEF B
<1>2. {j \in B : j <= i} = below \cup {b}
    <2>1. \A j \in B : b < j /\ j <= i => j - 1 \in b .. i
        BY <1>1
    <2>2. \A j \in B : j <= i => j <= b
        <3>1. \A j \in B : ~(b < j /\ j <= i)
            BY <1>1, <2>1
        <3>. QED BY <1>1, <3>1
    <2>3. \A j \in B : j <= i <=> j < b \/ j = b
        BY <1>1, <2>2
    <2>. QED BY <1>1, <2>3
<1>3. Word(rest, i) = Cardinality(below) + 1
    <2>1. below \in SUBSET B /\ b \notin below
        BY <1>1 DEF B
    <2>. HIDE DEF below
    <2>2. IsFiniteSet(below)
        BY <1>1, <2>1, FS_Subset
    <2>3. Cardinality(below \cup {b}) = Cardinality(below) + 1
        BY <2>1, <2>2, FS_AddElement
    <2>. QED BY <1>2, <2>3 DEF Word, B
<1>4. Cardinality(below) + 1 \in 1 .. Cardinality(B) /\ Ascending(B)[Cardinality(below) + 1] = b
    BY <1>1, AscendingIs DEF B
<1>. QED BY <1>3, <1>4 DEF B

\* A word is what was typed from its beginning to its last place.
LEMMA WordEnds ==
    ASSUME NEW rest \in Seq(Byte), NEW b \in Begins(rest)
    PROVE  /\ b \in 1 .. Len(rest) /\ LastOf(rest, b) \in b .. Len(rest)
           /\ \A i \in Int : i \in b .. LastOf(rest, b) <=> b <= i /\ \A k \in b .. i : k \in Typed(rest)
<1>. DEFINE S == {j \in b .. Len(rest) : \A k \in b .. j : ~IsSpace(rest[k])}
<1>1. b \in 1 .. Len(rest) /\ ~IsSpace(rest[b]) /\ Len(rest) \in Nat
    BY TypedIs
<1>2. b \in S /\ S # {} /\ Len(rest) \in Int /\ \A c \in S : c \in Int /\ c <= Len(rest)
    BY <1>1
<1>3. Max(S) \in S /\ \A c \in S : c <= Max(S)
    <2>. HIDE DEF S
    <2>. QED BY <1>1, <1>2, LargestNumber
<1>4. LastOf(rest, b) = Max(S)
    BY DEF LastOf
<1>5. PICK m \in S : m = Max(S)
    BY <1>3
<1>6. m \in b .. Len(rest) /\ \A k \in b .. m : ~IsSpace(rest[k])
    BY <1>5
<1>7. ASSUME NEW i \in Int PROVE i \in b .. m <=> b <= i /\ \A k \in b .. i : k \in Typed(rest)
    <2>1. ASSUME i \in b .. m PROVE b <= i /\ \A k \in b .. i : k \in Typed(rest)
        <3>1. \A k \in b .. i : k \in b .. m /\ k \in 1 .. Len(rest)
            BY <1>1, <1>6, <2>1
        <3>. QED BY <1>6, <2>1, <3>1, TypedIs
    <2>2. ASSUME b <= i, \A k \in b .. i : k \in Typed(rest) PROVE i \in b .. m
        <3>1. \A k \in b .. i : k \in 1 .. Len(rest) /\ ~IsSpace(rest[k])
            BY <2>2, TypedIs
        <3>2. i \in b .. i
            BY <1>1, <2>2
        <3>3. i \in S
            BY <1>1, <2>2, <3>1, <3>2
        <3>4. i <= m
            <4>. HIDE DEF S
            <4>. QED BY <1>3, <1>5, <3>3
        <3>. QED BY <1>1, <2>2, <3>4
    <2>. QED BY <2>1, <2>2
<1>. HIDE DEF S
<1>. QED BY <1>1, <1>4, <1>5, <1>6, <1>7

\* The places of the n-th word.
LEMMA PlacesOfWord ==
    ASSUME NEW rest \in Seq(Byte), NEW n \in 1 .. Cardinality(Begins(rest))
    PROVE  /\ Ascending(Begins(rest))[n] \in Begins(rest)
           /\ {i \in Typed(rest) : Word(rest, i) = n} =
                 Ascending(Begins(rest))[n] .. LastOf(rest, Ascending(Begins(rest))[n])
<1>1. PICK b : b = Ascending(Begins(rest))[n]
    OBVIOUS
<1>2. b \in Begins(rest)
    <2>1. Begins(rest) \in SUBSET Int /\ IsFiniteSet(Begins(rest))
        BY TypedIs
    <2>. QED BY <1>1, <2>1, AscendingIs
<1>3. \A i \in Typed(rest) : i \in Int
    BY TypedIs
<1>4. b \in Int
    BY <1>2, TypedIs
<1>5. ASSUME NEW i \in Typed(rest), Word(rest, i) = n PROVE i \in b .. LastOf(rest, b)
    <2>1. PICK c \in Begins(rest) : c \in 1 .. i /\ \A k \in c .. i : k \in Typed(rest)
        BY WordBegins
    <2>2. c <= i /\ i \in Int
        BY <1>3, <2>1
    <2>3. Ascending(Begins(rest))[Word(rest, i)] = c
        BY <2>1, <2>2, WordIs
    <2>4. c = b
        BY <1>1, <1>5, <2>3
    <2>. QED BY <1>2, <2>1, <2>2, <2>4, WordEnds
<1>6. ASSUME NEW i \in b .. LastOf(rest, b) PROVE i \in Typed(rest) /\ Word(rest, i) = n
    <2>1. LastOf(rest, b) \in Int
        BY <1>2, WordEnds
    <2>2. i \in Int /\ b <= i /\ \A k \in b .. i : k \in Typed(rest)
        BY <1>2, <1>4, <2>1, WordEnds
    <2>3. i \in b .. i
        BY <1>4, <2>2
    <2>4. Word(rest, i) \in 1 .. Cardinality(Begins(rest)) /\ Ascending(Begins(rest))[Word(rest, i)] = b
        BY <1>2, <2>2, WordIs
    <2>5. \A m, k \in 1 .. Cardinality(Begins(rest)) :
              Ascending(Begins(rest))[m] = Ascending(Begins(rest))[k] => m = k
        <3>1. Begins(rest) \in SUBSET Int /\ IsFiniteSet(Begins(rest))
            BY TypedIs
        <3>2. /\ Cardinality(Begins(rest)) \in Nat
              /\ \A m, k \in 1 .. Cardinality(Begins(rest)) :
                    m < k <=> Ascending(Begins(rest))[m] < Ascending(Begins(rest))[k]
              /\ \A m \in 1 .. Cardinality(Begins(rest)) : Ascending(Begins(rest))[m] \in Int
            BY <3>1, AscendingIs
        <3>. QED BY <3>2
    <2>. QED BY <1>1, <2>2, <2>3, <2>4, <2>5
<1>7. {i \in Typed(rest) : Word(rest, i) = n} = b .. LastOf(rest, b)
    BY <1>5, <1>6
<1>. QED BY <1>1, <1>2, <1>7

-----------------------------------------------------------------------------
(* The tokens of a query                                                    *)

\* The small letter of a capital one.
Lower(b) == IF b \in 65 .. 90 THEN b + 32 ELSE b

\* Folding goes byte by byte.
LEMMA FoldedIs ==
    ASSUME NEW bytes \in Seq(Byte)
    PROVE  /\ Folded(bytes) \in Seq(Byte) /\ Len(Folded(bytes)) = Len(bytes)
           /\ DOMAIN Folded(bytes) = 1 .. Len(bytes)
           /\ \A i \in 1 .. Len(bytes) : Folded(bytes)[i] = Lower(bytes[i])
<1>1. DOMAIN bytes = 1 .. Len(bytes) /\ Len(bytes) \in Nat /\ \A i \in 1 .. Len(bytes) : bytes[i] \in Byte
    OBVIOUS
<1>2. \A b \in Byte : Lower(b) \in Byte
    BY DEF Byte, Lower
<1>3. Folded(bytes) = [i \in 1 .. Len(bytes) |-> Lower(bytes[i])]
    BY <1>1, Zenon DEF Folded, Lower
<1>. QED BY <1>1, <1>2, <1>3

\* The n-th token stands from the n-th beginning on.
LEMMA TokensAre ==
    ASSUME NEW rest \in Seq(Byte)
    PROVE  /\ Cardinality(Begins(rest)) \in Nat
           /\ TokensOf(rest) = [n \in 1 .. Cardinality(Begins(rest)) |->
                  Folded(SubSeq(rest, Ascending(Begins(rest))[n], LastOf(rest, Ascending(Begins(rest))[n])))]
<1>. DEFINE first == {i \in DOMAIN rest : ~IsSpace(rest[i]) /\ (i > 1 => IsSpace(rest[i - 1]))}
            starts == Ascending(first)
<1>0. DOMAIN rest = 1 .. Len(rest) /\ Len(rest) \in Nat
    OBVIOUS
<1>1. first = Begins(rest)
    <2>1. ASSUME NEW i \in 1 .. Len(rest), ~IsSpace(rest[i])
          PROVE  (i > 1 => IsSpace(rest[i - 1])) <=> i - 1 \notin Typed(rest)
        <3>1. i > 1 <=> i - 1 \in 1 .. Len(rest)
            BY <1>0
        <3>2. i - 1 \in Typed(rest) <=> i - 1 \in 1 .. Len(rest) /\ ~IsSpace(rest[i - 1])
            BY TypedIs
        <3>. QED BY <3>1, <3>2, Zenon
    <2>2. \A i : i \in first <=> i \in Begins(rest)
        BY <1>0, <2>1, TypedIs, Zenon DEF Begins
    <2>. HIDE DEF first
    <2>. QED BY <2>2
<1>2. Begins(rest) \in SUBSET Int /\ IsFiniteSet(Begins(rest))
    BY TypedIs
<1>3. /\ Cardinality(Begins(rest)) \in Nat
      /\ DOMAIN Ascending(Begins(rest)) = 1 .. Cardinality(Begins(rest))
    BY <1>2, AscendingIs
<1>4. TokensOf(rest) = [n \in DOMAIN starts |-> Folded(SubSeq(rest, starts[n], LastOf(rest, starts[n])))]
    BY Zenon DEF TokensOf, LastOf, first
<1>. HIDE DEF first
<1>5. TokensOf(rest) = [n \in 1 .. Cardinality(Begins(rest)) |->
          Folded(SubSeq(rest, Ascending(Begins(rest))[n], LastOf(rest, Ascending(Begins(rest))[n])))]
    BY <1>1, <1>3, <1>4, Zenon
<1>. QED BY <1>3, <1>5

\* The tokens are the words typed.
LEMMA TokensAreWords ==
    ASSUME NEW rest \in Seq(Byte)
    PROVE  /\ TokensOf(rest) \in Seq(Seq(Byte) \ {<<>>}) /\ Len(TokensOf(rest)) = Cardinality(Begins(rest))
           /\ \A n \in DOMAIN TokensOf(rest) :
                 Len(TokensOf(rest)[n]) = Cardinality({i \in Typed(rest) : Word(rest, i) = n})
           /\ \A i \in Typed(rest) : TokensOf(rest)[Word(rest, i)][Place(rest, i)] = Folded(rest)[i]
<1>. DEFINE c == Cardinality(Begins(rest))
            start(n) == Ascending(Begins(rest))[n]
            end(n) == LastOf(rest, start(n))
            tokens == TokensOf(rest)
<1>0. c \in Nat /\ tokens = [n \in 1 .. c |-> Folded(SubSeq(rest, start(n), end(n)))]
    BY TokensAre
<1>1. /\ c \in Nat /\ DOMAIN tokens = 1 .. c
      /\ \A n \in 1 .. c : tokens[n] = Folded(SubSeq(rest, start(n), end(n)))
    <2>. HIDE DEF c, tokens, start, end
    <2>. QED BY <1>0
<1>2. ASSUME NEW n \in 1 .. c
      PROVE  /\ start(n) \in 1 .. Len(rest) /\ end(n) \in start(n) .. Len(rest)
             /\ {i \in Typed(rest) : Word(rest, i) = n} = start(n) .. end(n)
             /\ Cardinality(start(n) .. end(n)) = end(n) - start(n) + 1
             /\ tokens[n] \in Seq(Byte) \ {<<>>} /\ Len(tokens[n]) = end(n) - start(n) + 1
             /\ \A i \in start(n) .. end(n) : tokens[n][i - start(n) + 1] = Folded(rest)[i]
    <2>1. PICK a, b : a = start(n) /\ b = end(n)
        OBVIOUS
    <2>2. a \in Begins(rest) /\ b = LastOf(rest, a) /\ {i \in Typed(rest) : Word(rest, i) = n} = a .. b
        BY <2>1, PlacesOfWord
    <2>3. Len(rest) \in Nat /\ a \in 1 .. Len(rest) /\ b \in a .. Len(rest)
        BY <2>2, WordEnds
    <2>4. Cardinality(a .. b) = b - a + 1
        BY <2>3, FS_Interval
    <2>5. /\ SubSeq(rest, a, b) \in Seq(Byte) /\ Len(SubSeq(rest, a, b)) = b - a + 1
          /\ \A i \in 1 .. b - a + 1 : SubSeq(rest, a, b)[i] = rest[a + i - 1]
        <3>1. a \in 1 .. Len(rest) + 1 /\ b \in a - 1 .. Len(rest)
            BY <2>3
        <3>. QED BY <3>1, Cut
    <2>6. tokens[n] = Folded(SubSeq(rest, a, b))
        BY <1>1, <2>1
    <2>7. /\ tokens[n] \in Seq(Byte) /\ Len(tokens[n]) = b - a + 1
          /\ \A i \in 1 .. b - a + 1 : tokens[n][i] = Lower(rest[a + i - 1])
        <3>1. PICK w \in Seq(Byte) : w = SubSeq(rest, a, b)
            BY <2>5
        <3>2. /\ Folded(w) \in Seq(Byte) /\ Len(Folded(w)) = Len(w)
              /\ \A i \in 1 .. Len(w) : Folded(w)[i] = Lower(w[i])
            BY FoldedIs
        <3>. QED BY <2>5, <2>6, <3>1, <3>2
    <2>8. tokens[n] # <<>>
        <3>1. b - a + 1 # 0
            BY <2>3
        <3>. QED BY <2>7, <3>1
    <2>9. \A i \in a .. b : tokens[n][i - a + 1] = Folded(rest)[i]
        <3>1. SUFFICES ASSUME NEW i \in a .. b PROVE tokens[n][i - a + 1] = Folded(rest)[i]
            OBVIOUS
        <3>2. i - a + 1 \in 1 .. b - a + 1 /\ a + (i - a + 1) - 1 = i /\ i \in 1 .. Len(rest)
            BY <2>3
        <3>3. tokens[n][i - a + 1] = Lower(rest[i])
            BY <2>7, <3>2
        <3>. QED BY <3>2, <3>3, FoldedIs
    <2>. HIDE DEF start, end, tokens
    <2>. QED BY <2>1, <2>2, <2>3, <2>4, <2>7, <2>8, <2>9
<1>. HIDE DEF tokens, start, end
<1>3. tokens \in Seq(Seq(Byte) \ {<<>>}) /\ Len(tokens) = c
    <2>1. \A n \in 1 .. c : tokens[n] \in Seq(Byte) \ {<<>>}
        BY <1>2
    <2>2. tokens = [n \in 1 .. c |-> tokens[n]]
        BY <1>0
    <2>. HIDE DEF c
    <2>. QED BY <1>1, <2>1, <2>2
<1>4. \A n \in DOMAIN tokens : Len(tokens[n]) = Cardinality({i \in Typed(rest) : Word(rest, i) = n})
    BY <1>1, <1>2
<1>5. ASSUME NEW i \in Typed(rest) PROVE tokens[Word(rest, i)][Place(rest, i)] = Folded(rest)[i]
    <2>1. PICK b \in Begins(rest) : b \in 1 .. i /\ \A k \in b .. i : k \in Typed(rest)
        BY WordBegins
    <2>2. i \in Int /\ b \in Int /\ b <= i
        BY <2>1, TypedIs
    <2>3. Word(rest, i) \in 1 .. c /\ start(Word(rest, i)) = b
        BY <2>1, <2>2, WordIs DEF start
    <2>4. PICK n \in 1 .. c : n = Word(rest, i)
        BY <2>3
    <2>5. {j \in Typed(rest) : Word(rest, j) = n} = b .. end(n) /\ end(n) \in b .. Len(rest)
        BY <1>2, <2>3, <2>4
    <2>6. i \in b .. end(n) /\ end(n) \in Int
        BY <2>2, <2>4, <2>5
    <2>7. {j \in Typed(rest) : j <= i /\ Word(rest, j) = Word(rest, i)} = b .. i
        <3>1. \A j : j \in Typed(rest) /\ Word(rest, j) = n <=> j \in b .. end(n)
            BY <2>5
        <3>2. \A j : j \in b .. end(n) /\ j <= i <=> j \in b .. i
            BY <2>2, <2>6
        <3>. QED BY <2>4, <3>1, <3>2
    <2>8. Place(rest, i) = i - b + 1
        <3>1. Cardinality(b .. i) = i - b + 1
            BY <2>2, FS_Interval
        <3>. QED BY <2>7, <3>1 DEF Place
    <2>9. tokens[n][i - b + 1] = Folded(rest)[i]
        BY <1>2, <2>3, <2>4, <2>6
    <2>. QED BY <2>4, <2>8, <2>9
<1>. QED BY <1>3, <1>4, <1>5 DEF tokens

-----------------------------------------------------------------------------
(* The kinds of queries                                                     *)

\* Nothing was typed, or "new" alone.
LEMMA NothingTyped ==
    ASSUME NEW rest \in Seq(Byte)
    PROVE  TokensOf(rest) = <<>> <=> Typed(rest) = {}
<1>1. /\ TokensOf(rest) \in Seq(Seq(Byte) \ {<<>>}) /\ Len(TokensOf(rest)) = Cardinality(Begins(rest))
    BY TokensAreWords
<1>2. TokensOf(rest) = <<>> <=> Cardinality(Begins(rest)) = 0
    BY <1>1, EmptySeq
<1>3. Cardinality(Begins(rest)) = 0 <=> Begins(rest) = {}
    BY TypedIs, FS_EmptySet
<1>4. Begins(rest) = {} <=> Typed(rest) = {}
    BY TypedIs, WordBegins
<1>. QED BY <1>2, <1>3, <1>4

\* The only token is "new" exactly if that is all that was typed.
LEMMA NewTyped ==
    ASSUME NEW rest \in Seq(Byte)
    PROVE  TokensOf(rest) = <<New>> <=>
               \E i \in Typed(rest) : Typed(rest) = i .. i + 2 /\ Folded(SubSeq(rest, i, i + 2)) = New
<1>. DEFINE c == Cardinality(Begins(rest))
            b == Ascending(Begins(rest))[1]
            e == LastOf(rest, b)
            tokens == TokensOf(rest)
<1>1. c \in Nat /\ DOMAIN tokens = 1 .. c /\ tokens = [n \in 1 .. c |-> tokens[n]]
      /\ (1 \in 1 .. c => tokens[1] = Folded(SubSeq(rest, b, e)))
    <2>1. /\ c \in Nat
          /\ tokens = [n \in 1 .. c |->
                 Folded(SubSeq(rest, Ascending(Begins(rest))[n], LastOf(rest, Ascending(Begins(rest))[n])))]
        BY TokensAre
    <2>. HIDE DEF c, tokens
    <2>. QED BY <2>1
<1>2. Begins(rest) \in SUBSET Int /\ IsFiniteSet(Begins(rest)) /\ Typed(rest) \in SUBSET Int
    BY TypedIs
<1>3. ASSUME c = 1
      PROVE  /\ b \in 1 .. Len(rest) /\ e \in b .. Len(rest) /\ Typed(rest) = b .. e
             /\ tokens = <<Folded(SubSeq(rest, b, e))>>
    <2>1. 1 \in 1 .. c
        BY <1>3
    <2>2. b \in Begins(rest) /\ {i \in Typed(rest) : Word(rest, i) = 1} = b .. e
        BY <2>1, PlacesOfWord
    <2>3. \A i \in Typed(rest) : Word(rest, i) = 1
        <3>1. SUFFICES ASSUME NEW i \in Typed(rest) PROVE Word(rest, i) = 1
            OBVIOUS
        <3>2. PICK d \in Begins(rest) : d \in 1 .. i /\ \A k \in d .. i : k \in Typed(rest)
            BY WordBegins
        <3>3. i \in Int /\ d <= i
            BY <1>2, <3>2
        <3>4. Word(rest, i) \in 1 .. c
            BY <3>2, <3>3, WordIs
        <3>. QED BY <1>3, <3>4
    <2>4. b \in 1 .. Len(rest) /\ e \in b .. Len(rest)
        BY <2>2, WordEnds
    <2>5. tokens = <<Folded(SubSeq(rest, b, e))>>
        <3>1. tokens = [n \in 1 .. 1 |-> tokens[n]] /\ tokens[1] = Folded(SubSeq(rest, b, e))
            BY <1>1, <1>3, <2>1
        <3>. HIDE DEF tokens, b, e
        <3>2. tokens = [n \in 1 .. 1 |-> Folded(SubSeq(rest, b, e))]
            BY <3>1
        <3>. QED BY <3>2
    <2>. QED BY <2>2, <2>3, <2>4, <2>5
<1>4. \A i \in 1 .. Len(rest) : \A j \in i .. Len(rest) :
          /\ Len(Folded(SubSeq(rest, i, j))) = j - i + 1
    <2>1. SUFFICES ASSUME NEW i \in 1 .. Len(rest), NEW j \in i .. Len(rest)
                   PROVE  Len(Folded(SubSeq(rest, i, j))) = j - i + 1
        OBVIOUS
    <2>2. i \in 1 .. Len(rest) + 1 /\ j \in i - 1 .. Len(rest)
        OBVIOUS
    <2>3. SubSeq(rest, i, j) \in Seq(Byte) /\ Len(SubSeq(rest, i, j)) = j - i + 1
        BY <2>2, Cut
    <2>. QED BY <2>3, FoldedIs
<1>5. Len(New) = 3
    BY DEF New
<1>6. ASSUME tokens = <<New>>
      PROVE  \E i \in Typed(rest) : Typed(rest) = i .. i + 2 /\ Folded(SubSeq(rest, i, i + 2)) = New
    <2>1. c = 1
        <3>1. Len(tokens) = c
            BY TokensAreWords
        <3>. QED BY <1>6, <3>1
    <2>2. /\ b \in 1 .. Len(rest) /\ e \in b .. Len(rest) /\ Typed(rest) = b .. e
          /\ tokens = <<Folded(SubSeq(rest, b, e))>>
        BY <1>3, <2>1
    <2>3. Folded(SubSeq(rest, b, e)) = New
        <3>. HIDE DEF tokens, b, e
        <3>. QED BY <1>6, <2>2
    <2>. HIDE DEF b, e, tokens
    <2>4. e = b + 2 /\ b \in b .. e
        <3>1. Len(Folded(SubSeq(rest, b, e))) = e - b + 1
            BY <1>4, <2>2
        <3>2. e - b + 1 = 3
            BY <1>5, <2>3, <3>1
        <3>3. b \in Int /\ e \in Int /\ b <= e
            BY <2>2
        <3>. QED BY <3>2, <3>3
    <2>. QED BY <2>2, <2>3, <2>4
<1>7. ASSUME NEW i \in Typed(rest), Typed(rest) = i .. i + 2, Folded(SubSeq(rest, i, i + 2)) = New
      PROVE  tokens = <<New>>
    <2>1. i \in Int
        BY <1>2
    <2>2. Begins(rest) = {i}
        BY <1>7, <2>1 DEF Begins
    <2>3. c = 1
        BY <2>2, FS_Singleton
    <2>4. /\ b \in 1 .. Len(rest) /\ e \in b .. Len(rest) /\ Typed(rest) = b .. e
          /\ tokens = <<Folded(SubSeq(rest, b, e))>>
        BY <1>3, <2>3
    <2>. HIDE DEF b, e, tokens
    <2>5. b = i /\ e = i + 2
        <3>1. b \in Int /\ e \in Int /\ b <= e
            BY <2>4
        <3>2. b \in i .. i + 2 /\ e \in i .. i + 2 /\ i \in b .. e /\ i + 2 \in b .. e
            BY <1>7, <2>1, <2>4, <3>1
        <3>. QED BY <2>1, <3>1, <3>2
    <2>. QED BY <1>7, <2>4, <2>5
<1>. QED BY <1>6, <1>7 DEF tokens

\* The query begins with a "rem" of any case.
LEMMA Triggered ==
    ASSUME NEW bytes \in Seq(Byte), Len(bytes) > 3
    PROVE  Folded(SubSeq(bytes, 1, 3)) = Rem <=>
               bytes[1] \in {82, 114} /\ bytes[2] \in {69, 101} /\ bytes[3] \in {77, 109}
<1>1. 1 \in 1 .. Len(bytes) + 1 /\ 3 \in 1 - 1 .. Len(bytes)
    OBVIOUS
<1>2. /\ SubSeq(bytes, 1, 3) \in Seq(Byte) /\ Len(SubSeq(bytes, 1, 3)) = 3
      /\ \A i \in 1 .. 3 : SubSeq(bytes, 1, 3)[i] = bytes[i]
    <2>1. /\ SubSeq(bytes, 1, 3) \in Seq(Byte) /\ Len(SubSeq(bytes, 1, 3)) = 3 - 1 + 1
          /\ \A i \in 1 .. 3 - 1 + 1 : SubSeq(bytes, 1, 3)[i] = bytes[1 + i - 1]
        BY <1>1, Cut
    <2>. QED BY <2>1
<1>3. PICK f : f = Folded(SubSeq(bytes, 1, 3))
    OBVIOUS
<1>4. f \in Seq(Byte) /\ Len(f) = 3 /\ \A i \in 1 .. 3 : f[i] = Lower(bytes[i])
    <2>1. PICK w \in Seq(Byte) : w = SubSeq(bytes, 1, 3)
        BY <1>2
    <2>2. /\ Folded(w) \in Seq(Byte) /\ Len(Folded(w)) = Len(w)
          /\ \A i \in 1 .. Len(w) : Folded(w)[i] = Lower(w[i])
        BY FoldedIs
    <2>. QED BY <1>2, <1>3, <2>1, <2>2
<1>5. f = Rem <=> f[1] = 114 /\ f[2] = 101 /\ f[3] = 109
    BY <1>4 DEF Rem
<1>6. \A i \in 1 .. 3 : bytes[i] \in Byte
    OBVIOUS
<1>7. \A b \in Byte : /\ Lower(b) = 114 <=> b \in {82, 114}
                      /\ Lower(b) = 101 <=> b \in {69, 101}
                      /\ Lower(b) = 109 <=> b \in {77, 109}
    BY DEF Lower, Byte
<1>. QED BY <1>3, <1>4, <1>5, <1>6, <1>7

\* A query is read as what was typed.
LEMMA QueryIsReadExactly ==
    ASSUME query \in Seq(Byte)
    PROVE  QueryIsRead
<1>. DEFINE rest == SubSeq(query, 4, Len(query))
<1>2. rest \in Seq(Byte)
    BY CutIsBytes
<1>. DEFINE tokens == TokensOf(rest)
            parsed == ParsedQuery(query)
            rem == query[1] \in {82, 114} /\ query[2] \in {69, 101} /\ query[3] \in {77, 109}
            triggered == /\ Len(query) > 3 /\ IsSpace(query[4]) /\ Typed(rest) # {}
                         /\ query[1] \in {82, 114} /\ query[2] \in {69, 101} /\ query[3] \in {77, 109}
            creates == \E i \in Typed(rest) : Typed(rest) = i .. i + 2 /\ Folded(SubSeq(rest, i, i + 2)) = New
<1>3. parsed = IF Len(query) <= 3 \/ Folded(SubSeq(query, 1, 3)) # Rem \/ ~IsSpace(query[4]) \/ tokens = <<>>
               THEN [kind |-> "ignore", tokens |-> <<>>]
               ELSE IF tokens = <<New>> THEN [kind |-> "create", tokens |-> <<>>]
               ELSE [kind |-> "lookup", tokens |-> tokens]
    BY Zenon DEF ParsedQuery
<1>. HIDE DEF rest
<1>4. Len(query) <= 3 <=> ~(Len(query) > 3)
    OBVIOUS
<1>5. tokens = <<>> <=> Typed(rest) = {}
    BY <1>2, NothingTyped
<1>6. tokens = <<New>> <=> creates
    BY <1>2, NewTyped
<1>7. Len(query) > 3 => (Folded(SubSeq(query, 1, 3)) = Rem <=> rem)
    BY Triggered
<1>8. /\ Len(tokens) = Cardinality(Begins(rest))
      /\ \A n \in DOMAIN tokens : Len(tokens[n]) = Cardinality({i \in Typed(rest) : Word(rest, i) = n})
      /\ \A i \in Typed(rest) : tokens[Word(rest, i)][Place(rest, i)] = Folded(rest)[i]
    BY <1>2, TokensAreWords
<1>. HIDE DEF tokens, creates, parsed
<1>9. parsed = IF ~triggered THEN [kind |-> "ignore", tokens |-> <<>>]
               ELSE IF creates THEN [kind |-> "create", tokens |-> <<>>]
               ELSE [kind |-> "lookup", tokens |-> tokens]
    BY <1>3, <1>4, <1>5, <1>6, <1>7, Zenon
<1>. HIDE DEF triggered
<1>10. /\ parsed.kind = "ignore" <=> ~triggered
       /\ triggered => (parsed.kind = "create" <=> creates)
       /\ parsed.kind = "lookup" => parsed.tokens = tokens
    BY <1>9
<1>11. /\ parsed.kind = "ignore" <=> ~triggered
       /\ triggered => (parsed.kind = "create" <=> creates)
       /\ parsed.kind = "lookup" =>
            /\ Len(parsed.tokens) = Cardinality(Begins(rest))
            /\ \A n \in DOMAIN parsed.tokens :
                   Len(parsed.tokens[n]) = Cardinality({i \in Typed(rest) : Word(rest, i) = n})
            /\ \A i \in Typed(rest) : parsed.tokens[Word(rest, i)][Place(rest, i)] = Folded(rest)[i]
    BY <1>8, <1>10, Zenon
<1>. QED BY <1>11, Zenon DEF QueryIsRead, parsed, triggered, creates, rest, Typed, Begins, Word, Place

-----------------------------------------------------------------------------
(* What a profile is worth                                                  *)

\* What stands somewhere in a field is a part of it.
LEMMA HoldsIsPart ==
    ASSUME NEW field \in Seq(Byte), NEW token \in Seq(Byte), token # <<>>
    PROVE  /\ Holds(field, token) <=> token \in Parts(field)
           /\ IsPrefix(token, field) => token \in Parts(field)
<1>. DEFINE m == Len(token)
            n == Len(field)
<1>0. m \in Nat \ {0} /\ n \in Nat
    BY EmptySeq
<1>1. ASSUME NEW i \in 0 .. n - m, SubSeq(field, i + 1, i + m) = token PROVE token \in Parts(field)
    <2>1. i + 1 \in 1 .. n + 1 /\ i + m \in 0 .. n
        BY <1>0
    <2>2. \E from \in 1 .. n + 1, to \in 0 .. n : token = SubSeq(field, from, to)
        <3>1. SubSeq(field, i + 1, i + m) = token
            BY <1>1
        <3>. HIDE DEF m, n
        <3>. QED BY <2>1, <3>1
    <2>3. Parts(field) = {SubSeq(field, from, to) : from \in 1 .. n + 1, to \in 0 .. n}
        BY DEF Parts
    <2>. HIDE DEF m, n
    <2>. QED BY <2>2, <2>3
<1>2. ASSUME token \in Parts(field) PROVE Holds(field, token)
    <2>1. PICK from \in 1 .. n + 1, to \in 0 .. n : token = SubSeq(field, from, to)
        BY <1>2 DEF Parts
    <2>2. to >= from
        <3>1. SUFFICES ASSUME to < from PROVE FALSE
            BY <1>0
        <3>2. Len(SubSeq(field, from, to)) = 0
            <4>1. from \in Int /\ to \in Int /\ \A i \in from .. to : field[i] \in Byte
                BY <1>0, <3>1
            <4>2. Len(SubSeq(field, from, to)) = IF from <= to THEN to - from + 1 ELSE 0
                BY <4>1, SubSeqProperties
            <4>. QED BY <3>1, <4>1, <4>2
        <3>. QED BY <1>0, <2>1, <3>2
    <2>3. m = to - from + 1
        <3>1. to \in from - 1 .. n
            BY <1>0, <2>2
        <3>. QED BY <2>1, <3>1, Cut
    <2>4. from - 1 \in 0 .. n - m /\ (from - 1) + 1 = from /\ (from - 1) + m = to
        BY <1>0, <2>2, <2>3
    <2>. QED BY <2>1, <2>4 DEF Holds
<1>3. Holds(field, token) => token \in Parts(field)
    BY <1>1 DEF Holds
<1>4. ASSUME IsPrefix(token, field) PROVE token \in Parts(field)
    <2>1. m <= n /\ SubSeq(token, 1, m) = SubSeq(field, 1, m)
        BY <1>4 DEF IsPrefix
    <2>2. SubSeq(token, 1, m) = token
        BY <1>0
    <2>3. 0 \in 0 .. n - m /\ 0 + 1 = 1 /\ 0 + m = m
        BY <1>0, <2>1
    <2>. QED BY <1>1, <2>1, <2>2, <2>3
<1>. QED BY <1>2, <1>3, <1>4

\* What a field is worth to a token.
LEMMA ScoreIs ==
    ASSUME NEW field \in Seq(Byte), NEW token \in Seq(Byte), token # <<>>
    PROVE  /\ RelationshipScore(field, token) \in {0, 75, 90, 100}
           /\ RelationshipScore(field, token) = 100 <=> field = token
           /\ RelationshipScore(field, token) >= 90 <=> IsPrefix(token, field)
           /\ RelationshipScore(field, token) > 0 <=> token \in Parts(field)
<1>1. /\ Holds(field, token) <=> token \in Parts(field)
      /\ IsPrefix(token, field) => token \in Parts(field)
    BY HoldsIsPart
<1>2. field = token => IsPrefix(token, field)
    BY DEF IsPrefix
<1>3. CASE field = token
    <2>1. RelationshipScore(field, token) = 100
        BY <1>2, <1>3, Zenon DEF RelationshipScore
    <2>. QED BY <1>1, <1>2, <1>3, <2>1
<1>4. CASE field # token /\ IsPrefix(token, field)
    <2>1. RelationshipScore(field, token) = 90
        BY <1>4, Zenon DEF RelationshipScore
    <2>. QED BY <1>1, <1>4, <2>1
<1>5. CASE ~IsPrefix(token, field) /\ Holds(field, token)
    <2>1. RelationshipScore(field, token) = 75
        BY <1>2, <1>5, Zenon DEF RelationshipScore
    <2>. QED BY <1>1, <1>2, <1>5, <2>1
<1>6. CASE ~IsPrefix(token, field) /\ ~Holds(field, token)
    <2>1. RelationshipScore(field, token) = 0
        BY <1>2, <1>6, Zenon DEF RelationshipScore
    <2>. QED BY <1>1, <1>2, <1>6, <2>1
<1>. QED BY <1>3, <1>4, <1>5, <1>6

\* What can be scored.
Scores == {0, 75, 90, 100}

\* What the best of the fields is worth.
Best(profile, token) == Max({RelationshipScore(f, token) : f \in FoldedSearchableFields(profile)})

\* A profile has fields, of bytes.
LEMMA FieldsAreBytes ==
    ASSUME NEW profile \in Record
    PROVE  /\ FoldedSearchableFields(profile) # {}
           /\ \A f \in FoldedSearchableFields(profile) : f \in Seq(Byte)
<1>1. /\ profile.name \in Seq(Byte) /\ profile.server \in Seq(Byte)
      /\ profile.labels \in Seq(Seq(Byte))
    BY DEF Record
<1>2. \A i \in DOMAIN profile.labels : profile.labels[i] \in Seq(Byte)
    <2>1. PICK labels \in Seq(Seq(Byte)) : labels = profile.labels
        BY <1>1
    <2>2. \A i \in DOMAIN labels : labels[i] \in Seq(Byte)
        OBVIOUS
    <2>. QED BY <2>1, <2>2
<1>3. \A s \in Seq(Byte) : Folded(s) \in Seq(Byte)
    BY FoldedIs
<1>4. FoldedSearchableFields(profile) =
          {Folded(profile.name), Folded(profile.server)}
          \cup {Folded(profile.labels[i]) : i \in DOMAIN profile.labels}
    BY DEF FoldedSearchableFields
<1>5. \A f \in {Folded(profile.labels[i]) : i \in DOMAIN profile.labels} : f \in Seq(Byte)
    BY <1>2, <1>3
<1>. QED BY <1>1, <1>3, <1>4, <1>5, Zenon

\* Some field is worth that much, and none is worth more.
LEMMA BestIs ==
    ASSUME NEW profile \in Record, NEW token \in Seq(Byte), token # <<>>
    PROVE  /\ Best(profile, token) \in Scores
           /\ Best(profile, token) = 100 <=> token \in FoldedSearchableFields(profile)
           /\ Best(profile, token) >= 90 <=> \E f \in FoldedSearchableFields(profile) : IsPrefix(token, f)
           /\ Best(profile, token) > 0 <=> \E f \in FoldedSearchableFields(profile) : token \in Parts(f)
<1>1. PICK F : F = FoldedSearchableFields(profile)
    OBVIOUS
<1>2. F # {} /\ \A f \in F : f \in Seq(Byte)
    BY <1>1, FieldsAreBytes
<1>3. ASSUME NEW f \in F
      PROVE  /\ RelationshipScore(f, token) \in Scores
             /\ RelationshipScore(f, token) = 100 <=> f = token
             /\ RelationshipScore(f, token) >= 90 <=> IsPrefix(token, f)
             /\ RelationshipScore(f, token) > 0 <=> token \in Parts(f)
    <2>1. f \in Seq(Byte)
        BY <1>2
    <2>. QED BY <2>1, ScoreIs DEF Scores
<1>. DEFINE S == {RelationshipScore(f, token) : f \in F}
<1>4. S # {} /\ 100 \in Int /\ \A c \in S : c \in Int /\ c <= 100
    BY <1>2, <1>3 DEF Scores
<1>5. Max(S) \in S /\ \A c \in S : c <= Max(S)
    <2>. HIDE DEF S
    <2>. QED BY <1>4, LargestNumber
<1>6. PICK best \in F : Max(S) = RelationshipScore(best, token)
    BY <1>5
<1>7. \A f \in F : RelationshipScore(f, token) <= Max(S)
    BY <1>5
<1>8. Best(profile, token) = Max(S)
    BY <1>1 DEF Best
<1>. HIDE DEF S
<1>9. Max(S) \in Scores
    BY <1>3, <1>6
<1>10. Max(S) = 100 <=> token \in F
    <2>1. ASSUME token \in F PROVE Max(S) = 100
        <3>1. RelationshipScore(token, token) = 100 /\ RelationshipScore(token, token) <= Max(S)
            BY <1>3, <1>7, <2>1
        <3>. QED BY <1>9, <3>1 DEF Scores
    <2>2. ASSUME Max(S) = 100 PROVE token \in F
        BY <1>3, <1>6, <2>2
    <2>. QED BY <2>1, <2>2
<1>11. Max(S) >= 90 <=> \E f \in F : IsPrefix(token, f)
    <2>1. ASSUME NEW f \in F, IsPrefix(token, f) PROVE Max(S) >= 90
        <3>1. RelationshipScore(f, token) \in Scores /\ RelationshipScore(f, token) >= 90
              /\ RelationshipScore(f, token) <= Max(S)
            BY <1>3, <1>7, <2>1
        <3>. QED BY <1>9, <3>1 DEF Scores
    <2>2. ASSUME Max(S) >= 90 PROVE IsPrefix(token, best)
        BY <1>3, <1>6, <2>2
    <2>. QED BY <2>1, <2>2
<1>12. Max(S) > 0 <=> \E f \in F : token \in Parts(f)
    <2>1. ASSUME NEW f \in F, token \in Parts(f) PROVE Max(S) > 0
        <3>1. RelationshipScore(f, token) \in Scores /\ RelationshipScore(f, token) > 0
              /\ RelationshipScore(f, token) <= Max(S)
            BY <1>3, <1>7, <2>1
        <3>. QED BY <1>9, <3>1 DEF Scores
    <2>2. ASSUME Max(S) > 0 PROVE token \in Parts(best)
        BY <1>3, <1>6, <2>2
    <2>. QED BY <2>1, <2>2
<1>. QED BY <1>1, <1>8, <1>9, <1>10, <1>11, <1>12

\* A profile is worth what the worst of the tokens finds.
LEMMA RelevanceIs ==
    ASSUME NEW profile \in Record, NEW tokens \in Seq(Seq(Byte) \ {<<>>}), tokens # <<>>
    PROVE  /\ Relevance(profile, tokens) \in Scores
           /\ Relevance(profile, tokens) = 100 <=>
                 \A t \in ToSet(tokens) : t \in FoldedSearchableFields(profile)
           /\ Relevance(profile, tokens) >= 90 <=>
                 \A t \in ToSet(tokens) : \E f \in FoldedSearchableFields(profile) : IsPrefix(t, f)
           /\ Relevance(profile, tokens) > 0 <=>
                 \A t \in ToSet(tokens) : \E f \in FoldedSearchableFields(profile) : t \in Parts(f)
<1>. DEFINE S == {Best(profile, tokens[n]) : n \in DOMAIN tokens}
<1>. DEFINE T == Seq(Byte) \ {<<>>}
<1>1. DOMAIN tokens # {} /\ \A n \in DOMAIN tokens : tokens[n] \in Seq(Byte) /\ tokens[n] # <<>>
    <2>1. tokens \in Seq(T) /\ \A t \in T : t \in Seq(Byte) /\ t # <<>>
        OBVIOUS
    <2>. HIDE DEF T
    <2>2. DOMAIN tokens = 1 .. Len(tokens) /\ Len(tokens) \in Nat /\ \A n \in 1 .. Len(tokens) : tokens[n] \in T
        BY <2>1
    <2>3. Len(tokens) # 0
        BY <2>1, EmptySeq
    <2>4. 1 \in 1 .. Len(tokens)
        BY <2>2, <2>3
    <2>. QED BY <2>1, <2>2, <2>4
<1>. HIDE DEF T
<1>2. ASSUME NEW n \in DOMAIN tokens
      PROVE  /\ Best(profile, tokens[n]) \in Scores
             /\ Best(profile, tokens[n]) = 100 <=> tokens[n] \in FoldedSearchableFields(profile)
             /\ Best(profile, tokens[n]) >= 90 <=>
                   \E f \in FoldedSearchableFields(profile) : IsPrefix(tokens[n], f)
             /\ Best(profile, tokens[n]) > 0 <=>
                   \E f \in FoldedSearchableFields(profile) : tokens[n] \in Parts(f)
    BY <1>1, BestIs
<1>3. S \in SUBSET Nat /\ S # {}
    BY <1>1, <1>2 DEF Scores
<1>4. Min(S) \in S /\ \A c \in S : Min(S) <= c
    <2>. HIDE DEF S
    <2>. QED BY <1>3, SmallestNumber
<1>5. PICK w \in DOMAIN tokens : Min(S) = Best(profile, tokens[w])
    BY <1>4
<1>6. \A n \in DOMAIN tokens : Min(S) <= Best(profile, tokens[n])
    BY <1>4
<1>7. Relevance(profile, tokens) = Min(S)
    BY DEF Relevance, Best
<1>8. ToSet(tokens) = {tokens[n] : n \in DOMAIN tokens}
    BY DEF ToSet
<1>. HIDE DEF S
<1>9. Min(S) \in Scores
    BY <1>2, <1>5
<1>10. ASSUME NEW n \in DOMAIN tokens
       PROVE  Best(profile, tokens[n]) \in Scores /\ Min(S) <= Best(profile, tokens[n])
    BY <1>2, <1>6
<1>11. Min(S) = 100 <=> \A n \in DOMAIN tokens : Best(profile, tokens[n]) = 100
    <2>1. ASSUME Min(S) = 100, NEW n \in DOMAIN tokens PROVE Best(profile, tokens[n]) = 100
        <3>1. Best(profile, tokens[n]) \in Scores /\ Min(S) <= Best(profile, tokens[n])
            BY <1>10
        <3>. QED BY <1>9, <2>1, <3>1 DEF Scores
    <2>2. (\A n \in DOMAIN tokens : Best(profile, tokens[n]) = 100) => Min(S) = 100
        BY <1>5
    <2>. QED BY <2>1, <2>2
<1>12. Min(S) >= 90 <=> \A n \in DOMAIN tokens : Best(profile, tokens[n]) >= 90
    <2>1. ASSUME Min(S) >= 90, NEW n \in DOMAIN tokens PROVE Best(profile, tokens[n]) >= 90
        <3>1. Best(profile, tokens[n]) \in Scores /\ Min(S) <= Best(profile, tokens[n])
            BY <1>10
        <3>. QED BY <1>9, <2>1, <3>1 DEF Scores
    <2>2. (\A n \in DOMAIN tokens : Best(profile, tokens[n]) >= 90) => Min(S) >= 90
        BY <1>5
    <2>. QED BY <2>1, <2>2
<1>13. Min(S) > 0 <=> \A n \in DOMAIN tokens : Best(profile, tokens[n]) > 0
    <2>1. ASSUME Min(S) > 0, NEW n \in DOMAIN tokens PROVE Best(profile, tokens[n]) > 0
        <3>1. Best(profile, tokens[n]) \in Scores /\ Min(S) <= Best(profile, tokens[n])
            BY <1>10
        <3>. QED BY <1>9, <2>1, <3>1 DEF Scores
    <2>2. (\A n \in DOMAIN tokens : Best(profile, tokens[n]) > 0) => Min(S) > 0
        BY <1>5
    <2>. QED BY <2>1, <2>2
<1>14. Min(S) = 100 <=> \A n \in DOMAIN tokens : tokens[n] \in FoldedSearchableFields(profile)
    BY <1>2, <1>11, Zenon
<1>15. Min(S) >= 90 <=>
           \A n \in DOMAIN tokens : \E f \in FoldedSearchableFields(profile) : IsPrefix(tokens[n], f)
    <2>. DEFINE P(n) == \E f \in FoldedSearchableFields(profile) : IsPrefix(tokens[n], f)
    <2>1. \A n \in DOMAIN tokens : Best(profile, tokens[n]) >= 90 <=> P(n)
        BY <1>2
    <2>. HIDE DEF P
    <2>2. Min(S) >= 90 <=> \A n \in DOMAIN tokens : P(n)
        BY <1>12, <2>1, Zenon
    <2>. QED BY <2>2 DEF P
<1>16. Min(S) > 0 <=>
           \A n \in DOMAIN tokens : \E f \in FoldedSearchableFields(profile) : tokens[n] \in Parts(f)
    <2>. DEFINE P(n) == \E f \in FoldedSearchableFields(profile) : tokens[n] \in Parts(f)
    <2>1. \A n \in DOMAIN tokens : Best(profile, tokens[n]) > 0 <=> P(n)
        BY <1>2
    <2>. HIDE DEF P
    <2>2. Min(S) > 0 <=> \A n \in DOMAIN tokens : P(n)
        BY <1>13, <2>1, Zenon
    <2>. QED BY <2>2 DEF P
<1>17. /\ \A t \in ToSet(tokens) : \E n \in DOMAIN tokens : t = tokens[n]
       /\ \A n \in DOMAIN tokens : tokens[n] \in ToSet(tokens)
    BY <1>8
<1>18. Min(S) = 100 <=> \A t \in ToSet(tokens) : t \in FoldedSearchableFields(profile)
    BY <1>14, <1>17
<1>19. Min(S) >= 90 <=> \A t \in ToSet(tokens) : \E f \in FoldedSearchableFields(profile) : IsPrefix(t, f)
    BY <1>15, <1>17, Zenon
<1>20. Min(S) > 0 <=> \A t \in ToSet(tokens) : \E f \in FoldedSearchableFields(profile) : t \in Parts(f)
    BY <1>16, <1>17, Zenon
<1>. QED BY <1>7, <1>9, <1>18, <1>19, <1>20

-----------------------------------------------------------------------------
(* The order of strings                                                     *)

\* What stands at a place of a string, which is less than any byte behind its end.
At(s, i) == IF i \in 1 .. Len(s) THEN s[i] ELSE -1

\* The first place that differs decides.
Decides(s, t, m) == At(s, m) < At(t, m) /\ \A i \in 1 .. m - 1 : At(s, i) = At(t, i)

\* A string by its places.
LEMMA AtIs ==
    ASSUME NEW s \in Seq(Byte)
    PROVE  /\ Len(s) \in Nat /\ DOMAIN s = 1 .. Len(s)
           /\ \A i \in 1 .. Len(s) : At(s, i) = s[i] /\ s[i] \in Byte
           /\ \A i \in Nat : i > Len(s) => At(s, i) = -1
           /\ \A i \in Nat : At(s, i) \in Int /\ At(s, i) >= -1
<1>1. Len(s) \in Nat /\ DOMAIN s = 1 .. Len(s) /\ \A i \in 1 .. Len(s) : s[i] \in Byte
    OBVIOUS
<1>2. \A b \in Byte : b \in Int /\ b >= 0
    BY DEF Byte
<1>3. \A i \in 1 .. Len(s) : At(s, i) = s[i]
    BY DEF At
<1>4. \A i : i \notin 1 .. Len(s) => At(s, i) = -1
    BY DEF At
<1>5. \A i \in Nat : At(s, i) \in Int /\ At(s, i) >= -1
    <2>1. SUFFICES ASSUME NEW i \in Nat PROVE At(s, i) \in Int /\ At(s, i) >= -1
        OBVIOUS
    <2>2. CASE i \in 1 .. Len(s)
        BY <1>1, <1>2, <1>3, <2>2
    <2>3. CASE i \notin 1 .. Len(s)
        BY <1>4, <2>3
    <2>. QED BY <2>2, <2>3
<1>. QED BY <1>1, <1>3, <1>4, <1>5

\* Strings are compared at the first place that differs, which may be the end of one.
LEMMA PrecedesIs ==
    ASSUME NEW s \in Seq(Byte), NEW t \in Seq(Byte)
    PROVE  Precedes(s, t) <=> \E m \in Nat \ {0} : Decides(s, t, m)
<1>. DEFINE D == {i \in DOMAIN s \cap DOMAIN t : s[i] # t[i]}
<1>1. /\ Len(s) \in Nat /\ DOMAIN s = 1 .. Len(s)
      /\ \A i \in 1 .. Len(s) : At(s, i) = s[i] /\ s[i] \in Byte
      /\ \A i \in Nat : i > Len(s) => At(s, i) = -1
      /\ \A i \in Nat : At(s, i) \in Int /\ At(s, i) >= -1
    BY AtIs
<1>2. /\ Len(t) \in Nat /\ DOMAIN t = 1 .. Len(t)
      /\ \A i \in 1 .. Len(t) : At(t, i) = t[i] /\ t[i] \in Byte
      /\ \A i \in Nat : i > Len(t) => At(t, i) = -1
      /\ \A i \in Nat : At(t, i) \in Int /\ At(t, i) >= -1
    BY AtIs
<1>3. Precedes(s, t) <=> IF D = {} THEN Len(s) < Len(t) ELSE s[Min(D)] < t[Min(D)]
    BY Zenon DEF Precedes
<1>4. \A i : i \in D <=> i \in 1 .. Len(s) /\ i \in 1 .. Len(t) /\ At(s, i) # At(t, i)
    BY <1>1, <1>2
<1>. HIDE DEF D
<1>5. \A b \in Byte : b \in Int /\ b > -1
    BY DEF Byte
<1>6. CASE D = {}
    <2>1. ASSUME Len(s) < Len(t) PROVE Decides(s, t, Len(s) + 1)
        <3>1. At(s, Len(s) + 1) = -1
            BY <1>1
        <3>2. At(t, Len(s) + 1) \in Byte
            <4>1. Len(s) + 1 \in 1 .. Len(t)
                <5>1. Len(s) \in Nat /\ Len(t) \in Nat
                    BY <1>1, <1>2
                <5>. QED BY <2>1, <5>1
            <4>. QED BY <1>2, <4>1, Zenon
        <3>3. \A i \in 1 .. (Len(s) + 1) - 1 : At(s, i) = At(t, i)
            <4>1. \A i \in 1 .. (Len(s) + 1) - 1 : i \in 1 .. Len(s) /\ i \in 1 .. Len(t)
                <5>1. Len(s) \in Nat /\ Len(t) \in Nat
                    BY <1>1, <1>2
                <5>. QED BY <2>1, <5>1
            <4>. QED BY <1>4, <1>6, <4>1
        <3>. QED BY <1>5, <3>1, <3>2, <3>3 DEF Decides
    <2>2. ASSUME NEW m \in Nat \ {0}, Decides(s, t, m) PROVE Len(s) < Len(t)
        <3>1. SUFFICES ASSUME Len(t) <= Len(s) PROVE FALSE
            BY <1>1, <1>2
        <3>2. m \in Nat /\ At(s, m) < At(t, m) /\ At(s, m) \in Int /\ At(s, m) >= -1
            BY <1>1, <2>2 DEF Decides
        <3>3. m \in 1 .. Len(t)
            <4>1. Len(t) \in Nat /\ m \in Nat
                BY <1>2
            <4>2. SUFFICES ASSUME m > Len(t) PROVE FALSE
                BY <2>2, <4>1
            <4>3. At(t, m) = -1
                BY <1>2, <4>1, <4>2, Zenon
            <4>. QED BY <3>2, <4>3
        <3>4. m \in 1 .. Len(s)
            BY <1>1, <1>2, <3>1, <3>3
        <3>5. At(s, m) = At(t, m)
            BY <1>4, <1>6, <3>3, <3>4
        <3>. QED BY <3>2, <3>5
    <2>3. Len(s) + 1 \in Nat \ {0}
        BY <1>1
    <2>. QED BY <1>3, <1>6, <2>1, <2>2, <2>3
<1>7. CASE D # {}
    <2>1. D \in SUBSET Nat
        BY <1>1, <1>4
    <2>2. PICK d \in D : d = Min(D) /\ \A c \in D : d <= c
        BY <1>7, <2>1, SmallestNumber
    <2>3. d \in Nat \ {0} /\ d \in 1 .. Len(s) /\ d \in 1 .. Len(t) /\ At(s, d) # At(t, d)
          /\ At(s, d) = s[d] /\ At(t, d) = t[d]
        BY <1>1, <1>2, <1>4
    <2>4. ASSUME NEW i \in 1 .. d - 1 PROVE At(s, i) = At(t, i)
        <3>1. i \in 1 .. Len(s) /\ i \in 1 .. Len(t) /\ ~(d <= i)
            BY <1>1, <1>2, <2>3
        <3>. QED BY <1>4, <2>2, <3>1
    <2>5. s[d] < t[d] => Decides(s, t, d)
        BY <2>3, <2>4 DEF Decides
    <2>6. ASSUME NEW m \in Nat \ {0}, Decides(s, t, m) PROVE s[d] < t[d]
        <3>1. At(s, m) < At(t, m) /\ At(s, m) \in Int /\ \A i \in 1 .. m - 1 : At(s, i) = At(t, i)
            BY <1>1, <2>6 DEF Decides
        <3>2. m >= d
            <4>1. SUFFICES ASSUME m < d PROVE FALSE
                BY <2>3
            <4>2. m \in 1 .. d - 1
                BY <2>3, <4>1
            <4>3. At(s, m) = At(t, m)
                BY <2>4, <4>2
            <4>. QED BY <3>1, <4>3
        <3>3. m <= d
            <4>1. SUFFICES ASSUME m > d PROVE FALSE
                BY <2>3
            <4>2. d \in 1 .. m - 1
                BY <2>3, <4>1
            <4>. QED BY <2>3, <3>1, <4>2
        <3>4. m = d
            BY <2>3, <3>2, <3>3
        <3>. QED BY <2>3, <3>1, <3>4
    <2>. QED BY <1>3, <1>7, <2>2, <2>3, <2>5, <2>6
<1>. QED BY <1>6, <1>7

\* No string precedes itself.
LEMMA PrecedesItself ==
    ASSUME NEW s \in Seq(Byte)
    PROVE  ~Precedes(s, s)
<1>1. \A i \in Nat : At(s, i) \in Int
    BY AtIs
<1>2. \A m \in Nat \ {0} : ~Decides(s, s, m)
    BY <1>1 DEF Decides
<1>. QED BY <1>2, PrecedesIs

\* What precedes what precedes a string, precedes it.
LEMMA PrecedesFurther ==
    ASSUME NEW r \in Seq(Byte), NEW s \in Seq(Byte), NEW t \in Seq(Byte), Precedes(r, s), Precedes(s, t)
    PROVE  Precedes(r, t)
<1>1. PICK k \in Nat \ {0} : Decides(r, s, k)
    BY PrecedesIs
<1>2. PICK m \in Nat \ {0} : Decides(s, t, m)
    BY PrecedesIs
<1>3. \A i \in Nat : At(r, i) \in Int /\ At(s, i) \in Int /\ At(t, i) \in Int
    BY AtIs
<1>4. At(r, k) < At(s, k) /\ \A i \in 1 .. k - 1 : At(r, i) = At(s, i)
    BY <1>1 DEF Decides
<1>5. At(s, m) < At(t, m) /\ \A i \in 1 .. m - 1 : At(s, i) = At(t, i)
    BY <1>2 DEF Decides
<1>. DEFINE n == IF k <= m THEN k ELSE m
<1>6. n \in Nat \ {0} /\ n <= k /\ n <= m
    OBVIOUS
<1>7. \A i \in 1 .. n - 1 : At(r, i) = At(t, i)
    <2>1. \A i \in 1 .. n - 1 : i \in 1 .. k - 1 /\ i \in 1 .. m - 1
        BY <1>6
    <2>. QED BY <1>4, <1>5, <2>1
<1>8. At(r, n) < At(t, n)
    <2>1. CASE k < m
        <3>1. k \in 1 .. m - 1 /\ n = k
            BY <2>1
        <3>. QED BY <1>3, <1>4, <1>5, <3>1
    <2>2. CASE k = m
        <3>1. n = k
            BY <2>2
        <3>. QED BY <1>3, <1>4, <1>5, <2>2, <3>1
    <2>3. CASE m < k
        <3>1. m \in 1 .. k - 1 /\ n = m
            BY <2>3
        <3>. QED BY <1>3, <1>4, <1>5, <3>1
    <2>. QED BY <2>1, <2>2, <2>3
<1>. HIDE DEF n
<1>9. Decides(r, t, n)
    BY <1>7, <1>8 DEF Decides
<1>. QED BY <1>6, <1>9, PrecedesIs

\* Of two strings that differ, one precedes the other.
LEMMA PrecedesOrNot ==
    ASSUME NEW s \in Seq(Byte), NEW t \in Seq(Byte), s # t
    PROVE  Precedes(s, t) \/ Precedes(t, s)
<1>. DEFINE D == {i \in Nat \ {0} : At(s, i) # At(t, i)}
<1>1. /\ Len(s) \in Nat /\ DOMAIN s = 1 .. Len(s)
      /\ \A i \in 1 .. Len(s) : At(s, i) = s[i] /\ s[i] \in Byte
      /\ \A i \in Nat : i > Len(s) => At(s, i) = -1
      /\ \A i \in Nat : At(s, i) \in Int /\ At(s, i) >= -1
    BY AtIs
<1>2. /\ Len(t) \in Nat /\ DOMAIN t = 1 .. Len(t)
      /\ \A i \in 1 .. Len(t) : At(t, i) = t[i] /\ t[i] \in Byte
      /\ \A i \in Nat : i > Len(t) => At(t, i) = -1
      /\ \A i \in Nat : At(t, i) \in Int /\ At(t, i) >= -1
    BY AtIs
<1>3. \A b \in Byte : b # -1
    BY DEF Byte
<1>4. D # {}
    <2>1. SUFFICES ASSUME \A i \in Nat \ {0} : At(s, i) = At(t, i) PROVE FALSE
        OBVIOUS
    <2>2. ~(Len(s) < Len(t))
        <3>1. SUFFICES ASSUME Len(s) < Len(t) PROVE FALSE
            OBVIOUS
        <3>2. Len(t) \in Nat \ {0} /\ Len(t) \in 1 .. Len(t) /\ Len(t) > Len(s)
            BY <1>1, <1>2, <3>1
        <3>. QED BY <1>1, <1>2, <1>3, <2>1, <3>2
    <2>3. ~(Len(t) < Len(s))
        <3>1. SUFFICES ASSUME Len(t) < Len(s) PROVE FALSE
            OBVIOUS
        <3>2. Len(s) \in Nat \ {0} /\ Len(s) \in 1 .. Len(s) /\ Len(s) > Len(t)
            BY <1>1, <1>2, <3>1
        <3>. QED BY <1>1, <1>2, <1>3, <2>1, <3>2
    <2>4. Len(s) = Len(t)
        <3>1. Len(s) \in Nat /\ Len(t) \in Nat
            BY <1>1, <1>2
        <3>. QED BY <2>2, <2>3, <3>1
    <2>5. \A i \in 1 .. Len(s) : s[i] = t[i]
        <3>1. \A i \in 1 .. Len(s) : i \in Nat \ {0}
            BY <1>1
        <3>. QED BY <1>1, <1>2, <2>1, <2>4, <3>1
    <2>. QED BY <2>4, <2>5, SeqEqual
<1>5. PICK d \in D : \A c \in D : ~(c < d)
    <2>1. D \in SUBSET Nat
        OBVIOUS
    <2>. HIDE DEF D
    <2>. QED BY <1>4, <2>1, LeastNumber
<1>6. d \in Nat \ {0} /\ At(s, d) # At(t, d)
    OBVIOUS
<1>7. \A i \in 1 .. d - 1 : At(s, i) = At(t, i)
    <2>1. SUFFICES ASSUME NEW i \in 1 .. d - 1 PROVE At(s, i) = At(t, i)
        OBVIOUS
    <2>2. i \in Nat \ {0} /\ i < d
        BY <1>6
    <2>. QED BY <1>5, <2>2
<1>8. CASE At(s, d) < At(t, d)
    <2>1. Decides(s, t, d)
        BY <1>7, <1>8 DEF Decides
    <2>. QED BY <1>6, <2>1, PrecedesIs
<1>9. CASE At(t, d) < At(s, d)
    <2>1. Decides(t, s, d)
        BY <1>7, <1>9 DEF Decides
    <2>. QED BY <1>6, <2>1, PrecedesIs
<1>10. At(s, d) < At(t, d) \/ At(t, d) < At(s, d)
    BY <1>1, <1>2, <1>6
<1>. QED BY <1>8, <1>9, <1>10

-----------------------------------------------------------------------------
(* The order of matches                                                     *)

\* What the matcher puts in order.
Match == [record : Record, relevance : Scores]

\* What of their profiles is compared, without case.
NameOf(match) == Folded(match.record.name)
ServerOf(match) == Folded(match.record.server)

\* Which of two matches is first.
Ahead(M) == {p \in M \X M : Before(p[1], p[2])}

\* What of a match is compared.
LEMMA MatchIs ==
    ASSUME NEW match \in Match
    PROVE  /\ NameOf(match) \in Seq(Byte) /\ ServerOf(match) \in Seq(Byte)
           /\ match.record \in Record /\ match.record.path \in Nat
           /\ match.relevance \in Scores /\ match.relevance \in Int
<1>1. match.record \in Record /\ match.relevance \in Scores
    BY DEF Match
<1>2. \A r \in Record : r.name \in Seq(Byte) /\ r.server \in Seq(Byte) /\ r.path \in Nat
    BY DEF Record
<1>3. match.record.name \in Seq(Byte) /\ match.record.server \in Seq(Byte) /\ match.record.path \in Nat
    BY <1>1, <1>2
<1>4. \A s \in Seq(Byte) : Folded(s) \in Seq(Byte)
    BY FoldedIs
<1>5. match.relevance \in Int
    BY <1>1 DEF Scores
<1>. QED BY <1>1, <1>3, <1>4, <1>5 DEF NameOf, ServerOf

\* The order of matches with its four alternatives side by side.
LEMMA BeforeIs ==
    ASSUME NEW d, NEW e
    PROVE  Before(d, e) <=>
              \/ d.relevance > e.relevance
              \/ d.relevance = e.relevance /\ Precedes(NameOf(d), NameOf(e))
              \/ d.relevance = e.relevance /\ NameOf(d) = NameOf(e) /\ Precedes(ServerOf(d), ServerOf(e))
              \/ /\ d.relevance = e.relevance /\ NameOf(d) = NameOf(e) /\ ServerOf(d) = ServerOf(e)
                 /\ d.record.path < e.record.path
BY DEF Before, NameOf, ServerOf

\* No match is before itself.
LEMMA BeforeItself ==
    ASSUME NEW d \in Match
    PROVE  ~Before(d, d)
<1>1. /\ NameOf(d) \in Seq(Byte) /\ ServerOf(d) \in Seq(Byte)
      /\ d.record.path \in Nat /\ d.relevance \in Int
    BY MatchIs
<1>2. ~Precedes(NameOf(d), NameOf(d)) /\ ~Precedes(ServerOf(d), ServerOf(d))
    BY <1>1, PrecedesItself
<1>3. ~(d.relevance > d.relevance) /\ ~(d.record.path < d.record.path)
    BY <1>1
<1>. QED BY <1>2, <1>3, BeforeIs

\* What is before what is before a match, is before it.
LEMMA BeforeFurther ==
    ASSUME NEW c \in Match, NEW d \in Match, NEW e \in Match, Before(c, d), Before(d, e)
    PROVE  Before(c, e)
<1>1. \A m \in {c, d, e} : /\ NameOf(m) \in Seq(Byte) /\ ServerOf(m) \in Seq(Byte)
                           /\ m.record.path \in Nat /\ m.relevance \in Int
    BY MatchIs
<1>2. Precedes(NameOf(c), NameOf(d)) /\ Precedes(NameOf(d), NameOf(e)) => Precedes(NameOf(c), NameOf(e))
    BY <1>1, PrecedesFurther
<1>3. Precedes(ServerOf(c), ServerOf(d)) /\ Precedes(ServerOf(d), ServerOf(e)) => Precedes(ServerOf(c), ServerOf(e))
    BY <1>1, PrecedesFurther
<1>4. /\ c.relevance \in Int /\ d.relevance \in Int /\ e.relevance \in Int
      /\ c.record.path \in Nat /\ d.record.path \in Nat /\ e.record.path \in Nat
    BY <1>1
<1>5. c.relevance >= d.relevance /\ d.relevance >= e.relevance
    BY <1>4, BeforeIs
<1>6. CASE c.relevance > d.relevance \/ d.relevance > e.relevance
    <2>1. c.relevance > e.relevance
        BY <1>4, <1>5, <1>6
    <2>. QED BY <2>1, BeforeIs
<1>7. CASE c.relevance = d.relevance /\ d.relevance = e.relevance
    <2>1. \/ Precedes(NameOf(c), NameOf(d))
          \/ NameOf(c) = NameOf(d) /\ Precedes(ServerOf(c), ServerOf(d))
          \/ NameOf(c) = NameOf(d) /\ ServerOf(c) = ServerOf(d) /\ c.record.path < d.record.path
        BY <1>4, <1>7, BeforeIs
    <2>2. \/ Precedes(NameOf(d), NameOf(e))
          \/ NameOf(d) = NameOf(e) /\ Precedes(ServerOf(d), ServerOf(e))
          \/ NameOf(d) = NameOf(e) /\ ServerOf(d) = ServerOf(e) /\ d.record.path < e.record.path
        BY <1>4, <1>7, BeforeIs
    <2>3. CASE Precedes(NameOf(c), NameOf(d)) \/ Precedes(NameOf(d), NameOf(e))
        <3>1. Precedes(NameOf(c), NameOf(e))
            BY <1>2, <2>1, <2>2, <2>3
        <3>. QED BY <1>7, <3>1, BeforeIs
    <2>4. CASE NameOf(c) = NameOf(d) /\ NameOf(d) = NameOf(e)
               /\ (Precedes(ServerOf(c), ServerOf(d)) \/ Precedes(ServerOf(d), ServerOf(e)))
        <3>1. ~Precedes(NameOf(c), NameOf(d)) /\ ~Precedes(NameOf(d), NameOf(e))
            BY <1>1, <2>4, PrecedesItself
        <3>2. Precedes(ServerOf(c), ServerOf(e))
            BY <1>3, <2>1, <2>2, <2>4, <3>1
        <3>. QED BY <1>7, <2>4, <3>2, BeforeIs
    <2>5. CASE /\ NameOf(c) = NameOf(d) /\ ServerOf(c) = ServerOf(d) /\ c.record.path < d.record.path
               /\ NameOf(d) = NameOf(e) /\ ServerOf(d) = ServerOf(e) /\ d.record.path < e.record.path
        <3>1. c.record.path < e.record.path
            BY <1>4, <2>5
        <3>. QED BY <1>7, <2>5, <3>1, BeforeIs
    <2>. QED BY <2>1, <2>2, <2>3, <2>4, <2>5, Zenon
<1>. QED BY <1>4, <1>5, <1>6, <1>7

\* Of two matches of different files, one is before the other.
LEMMA BeforeOrNot ==
    ASSUME NEW d \in Match, NEW e \in Match, d.record.path # e.record.path
    PROVE  Before(d, e) \/ Before(e, d)
<1>1. \A m \in {d, e} : /\ NameOf(m) \in Seq(Byte) /\ ServerOf(m) \in Seq(Byte)
                        /\ m.record.path \in Nat /\ m.relevance \in Int
    BY MatchIs
<1>2. NameOf(d) = NameOf(e) \/ Precedes(NameOf(d), NameOf(e)) \/ Precedes(NameOf(e), NameOf(d))
    BY <1>1, PrecedesOrNot
<1>3. ServerOf(d) = ServerOf(e) \/ Precedes(ServerOf(d), ServerOf(e)) \/ Precedes(ServerOf(e), ServerOf(d))
    BY <1>1, PrecedesOrNot
<1>4. d.record.path < e.record.path \/ e.record.path < d.record.path
    BY <1>1
<1>5. d.relevance > e.relevance \/ e.relevance > d.relevance \/ d.relevance = e.relevance
    BY <1>1
<1>. QED BY <1>2, <1>3, <1>4, <1>5, BeforeIs

\* Matches of different profiles are in a strict order.
LEMMA MatchesAreOrdered ==
    ASSUME NEW M \in SUBSET Match, \A d, e \in M : d # e => d.record.path # e.record.path
    PROVE  Orders(Ahead(M), M)
<1>1. \A d, e \in M : <<d, e>> \in Ahead(M) <=> Before(d, e)
    BY DEF Ahead
<1>2. \A d \in M : ~Before(d, d)
    BY BeforeItself
<1>3. \A c, d, e \in M : Before(c, d) /\ Before(d, e) => Before(c, e)
    BY BeforeFurther
<1>4. \A d, e \in M : d # e => Before(d, e) \/ Before(e, d)
    BY BeforeOrNot
<1>. QED BY <1>1, <1>2, <1>3, <1>4 DEF Orders

-----------------------------------------------------------------------------
(* The answer is the matches in order                                       *)

\* What is in the same order is at the same places.
LEMMA OrderedTheSame ==
    ASSUME NEW S, IsFiniteSet(S), NEW T, IsFiniteSet(T), NEW R, NEW Q, Orders(Q, T),
           NEW f \in Bijection(S, T), \A d, e \in S : <<d, e>> \in R <=> <<f[d], f[e]>> \in Q
    PROVE  /\ DOMAIN InOrder(S, R) = DOMAIN InOrder(T, Q)
           /\ \A n \in DOMAIN InOrder(S, R) : /\ InOrder(S, R)[n] \in S
                                              /\ f[InOrder(S, R)[n]] = InOrder(T, Q)[n]
<1>1. /\ f \in [S -> T] /\ \A d, e \in S : f[d] = f[e] => d = e
      /\ \A x \in T : \E d \in S : f[d] = x
    BY DEF Bijection, Injection, IsInjective, Surjection
<1>2. Orders(R, S)
    <2>1. \A d \in S : f[d] \in T
        BY <1>1
    <2>2. \A d \in S : <<d, d>> \notin R
        BY <2>1 DEF Orders
    <2>3. \A c, d, e \in S : <<c, d>> \in R /\ <<d, e>> \in R => <<c, e>> \in R
        <3>1. SUFFICES ASSUME NEW c \in S, NEW d \in S, NEW e \in S, <<c, d>> \in R, <<d, e>> \in R
                       PROVE  <<c, e>> \in R
            OBVIOUS
        <3>2. <<f[c], f[d]>> \in Q /\ <<f[d], f[e]>> \in Q
            BY <3>1
        <3>3. <<f[c], f[e]>> \in Q
            BY <2>1, <3>2, Zenon DEF Orders
        <3>. QED BY <3>3
    <2>4. \A d, e \in S : d # e => <<d, e>> \in R \/ <<e, d>> \in R
        <3>1. SUFFICES ASSUME NEW d \in S, NEW e \in S, d # e PROVE <<d, e>> \in R \/ <<e, d>> \in R
            OBVIOUS
        <3>2. f[d] # f[e]
            BY <1>1, <3>1
        <3>3. <<f[d], f[e]>> \in Q \/ <<f[e], f[d]>> \in Q
            BY <2>1, <3>2, Zenon DEF Orders
        <3>. QED BY <3>3
    <2>. QED BY <2>2, <2>3, <2>4 DEF Orders
<1>3. Cardinality(S) = Cardinality(T)
    BY FS_Bijection DEF ExistsBijection
<1>4. ASSUME NEW e \in S PROVE Rank(T, Q, f[e]) = Rank(S, R, e)
    <2>. DEFINE A == {d \in S : <<d, e>> \in R}
                B == {x \in T : <<x, f[e]>> \in Q}
                g == [d \in A |-> f[d]]
    <2>1. IsFiniteSet(A)
        <3>1. A \in SUBSET S
            OBVIOUS
        <3>. HIDE DEF A
        <3>. QED BY <3>1, FS_Subset
    <2>2. \A d \in S : d \in A <=> f[d] \in B
        BY <1>1
    <2>3. \A x \in B : \E d \in A : f[d] = x
        BY <1>1
    <2>4. A \in SUBSET S /\ Rank(T, Q, f[e]) = Cardinality(B) /\ Rank(S, R, e) = Cardinality(A)
        BY DEF Rank
    <2>. HIDE DEF A, B
    <2>5. g \in [A -> B]
        BY <2>2, <2>4
    <2>6. \A c, d \in A : g[c] = g[d] => c = d
        BY <1>1, <2>4
    <2>7. \A x \in B : \E d \in A : g[d] = x
        BY <2>3
    <2>. HIDE DEF g
    <2>8. g \in Bijection(A, B)
        BY <2>5, <2>6, <2>7 DEF Bijection, Injection, IsInjective, Surjection
    <2>9. Cardinality(A) = Cardinality(B)
        BY <2>1, <2>8, FS_Bijection DEF ExistsBijection
    <2>. QED BY <2>4, <2>9
<1>5. /\ DOMAIN InOrder(S, R) = 1 .. Cardinality(S)
      /\ \A n \in 1 .. Cardinality(S) :
             InOrder(S, R)[n] \in S /\ Rank(S, R, InOrder(S, R)[n]) = n - 1
    BY <1>2, InOrderIs
<1>6. /\ DOMAIN InOrder(T, Q) = 1 .. Cardinality(T)
      /\ \A x \in T : InOrder(T, Q)[Rank(T, Q, x) + 1] = x
    BY InOrderIs
<1>7. ASSUME NEW n \in 1 .. Cardinality(S) PROVE f[InOrder(S, R)[n]] = InOrder(T, Q)[n]
    <2>. DEFINE e == InOrder(S, R)[n]
    <2>1. e \in S /\ Rank(S, R, e) = n - 1
        BY <1>5
    <2>. HIDE DEF e
    <2>2. f[e] \in T /\ Rank(T, Q, f[e]) = n - 1
        BY <1>1, <1>4, <2>1
    <2>3. Rank(T, Q, f[e]) + 1 = n
        BY <2>2
    <2>4. InOrder(T, Q)[n] = f[e]
        BY <1>6, <2>2, <2>3, Zenon
    <2>. QED BY <2>4 DEF e
<1>. QED BY <1>3, <1>5, <1>6, <1>7

\* The profiles to which all tokens are related, with what they are worth.
Matches(P, tokens) ==
    {[record |-> p, relevance |-> Relevance(p, tokens)] : p \in {q \in ToSet(P) : Relevance(q, tokens) > 0}}

\* No two profiles are of the same file.
Distinct(P) == \A i, j \in DOMAIN P : i # j => P[i].path # P[j].path

\* The answer holds the matches in their order, whatever the order of the list.
LEMMA MatchesAre ==
    ASSUME NEW P \in Seq(Record), Distinct(P),
           NEW tokens \in Seq(Seq(Byte) \ {<<>>}), tokens # <<>>
    PROVE  /\ Matches(P, tokens) \in SUBSET Match
           /\ Orders(Ahead(Matches(P, tokens)), Matches(P, tokens))
           /\ IsFiniteSet(Matches(P, tokens))
           /\ MatchProfiles(P, tokens) = InOrder(Matches(P, tokens), Ahead(Matches(P, tokens)))
<1>. DEFINE M == Matches(P, tokens)
            scored == [i \in DOMAIN P |-> [record |-> P[i], relevance |-> Relevance(P[i], tokens)]]
            found == {i \in DOMAIN P : scored[i].relevance > 0}
            earlier == {p \in found \X found :
                LET left == scored[p[1]]
                    right == scored[p[2]]
                IN Before(left, right) \/ (~Before(right, left) /\ p[1] < p[2])}
            order == InOrder(found, earlier)
            f == [i \in found |-> scored[i]]
<1>1. /\ Len(P) \in Nat /\ DOMAIN P = 1 .. Len(P) /\ \A i \in DOMAIN P : P[i] \in Record
      /\ ToSet(P) = {P[i] : i \in DOMAIN P}
    BY DEF ToSet
<1>2. \A p \in Record : Relevance(p, tokens) \in Scores
    BY RelevanceIs
<1>3. \A i \in DOMAIN P : scored[i] \in Match /\ scored[i].record = P[i] /\ scored[i].relevance = Relevance(P[i], tokens)
    BY <1>1, <1>2 DEF Match
<1>4. MatchProfiles(P, tokens) = [n \in DOMAIN order |-> scored[order[n]]]
    BY Zenon DEF MatchProfiles
<1>5. \A i \in found : i \in DOMAIN P /\ scored[i] \in M
    <2>1. SUFFICES ASSUME NEW i \in found PROVE i \in DOMAIN P /\ scored[i] \in M
        OBVIOUS
    <2>2. i \in DOMAIN P /\ Relevance(P[i], tokens) > 0 /\ P[i] \in ToSet(P)
        BY <1>1
    <2>. QED BY <2>2 DEF Matches
<1>6. \A m \in M : \E i \in found : scored[i] = m
    <2>1. SUFFICES ASSUME NEW m \in M PROVE \E i \in found : scored[i] = m
        OBVIOUS
    <2>2. PICK p \in ToSet(P) : Relevance(p, tokens) > 0 /\ m = [record |-> p, relevance |-> Relevance(p, tokens)]
        BY DEF Matches
    <2>3. PICK i \in DOMAIN P : p = P[i]
        BY <1>1
    <2>. QED BY <2>2, <2>3
<1>7. found \in SUBSET DOMAIN P
    OBVIOUS
<1>8. \A d, e \in found : <<d, e>> \in earlier <=>
          Before(scored[d], scored[e]) \/ (~Before(scored[e], scored[d]) /\ d < e)
    OBVIOUS
<1>. HIDE DEF M, earlier, found, scored
<1>9. f \in Bijection(found, M)
    <2>1. f \in [found -> M]
        BY <1>5
    <2>2. \A d, e \in found : f[d] = f[e] => d = e
        <3>1. SUFFICES ASSUME NEW d \in found, NEW e \in found, d # e PROVE scored[d] # scored[e]
            OBVIOUS
        <3>2. scored[d].record.path # scored[e].record.path
            BY <1>3, <1>5, <3>1 DEF Distinct
        <3>. QED BY <3>2
    <2>3. \A m \in M : \E i \in found : f[i] = m
        BY <1>6
    <2>. HIDE DEF f
    <2>. QED BY <2>1, <2>2, <2>3 DEF Bijection, Injection, IsInjective, Surjection
<1>10. IsFiniteSet(found)
    <2>1. IsFiniteSet(DOMAIN P)
        <3>1. 1 \in Int /\ Len(P) \in Int
            BY <1>1
        <3>. QED BY <1>1, <3>1, FS_Interval
    <2>. QED BY <1>7, <2>1, FS_Subset
<1>11. IsFiniteSet(M)
    <2>. HIDE DEF f
    <2>. QED BY <1>9, <1>10, FS_Bijection DEF ExistsBijection
<1>12. M \in SUBSET Match
    BY <1>3, <1>5, <1>6
<1>13. \A d, e \in M : d # e => d.record.path # e.record.path
    <2>1. SUFFICES ASSUME NEW d \in M, NEW e \in M, d # e PROVE d.record.path # e.record.path
        OBVIOUS
    <2>2. PICK i \in found : scored[i] = d
        BY <1>6
    <2>3. PICK j \in found : scored[j] = e
        BY <1>6
    <2>4. i # j /\ i \in DOMAIN P /\ j \in DOMAIN P
        BY <1>5, <2>1, <2>2, <2>3
    <2>. QED BY <1>3, <2>2, <2>3, <2>4 DEF Distinct
<1>14. Orders(Ahead(M), M)
    BY <1>12, <1>13, MatchesAreOrdered
<1>15. \A d, e \in found : <<d, e>> \in earlier <=> <<f[d], f[e]>> \in Ahead(M)
    <2>1. SUFFICES ASSUME NEW d \in found, NEW e \in found
                   PROVE  <<d, e>> \in earlier <=> <<scored[d], scored[e]>> \in Ahead(M)
        OBVIOUS
    <2>2. scored[d] \in M /\ scored[e] \in M /\ scored[d] \in Match /\ scored[e] \in Match
          /\ d \in DOMAIN P /\ e \in DOMAIN P
        BY <1>3, <1>5
    <2>3. <<scored[d], scored[e]>> \in Ahead(M) <=> Before(scored[d], scored[e])
        BY <2>2 DEF Ahead
    <2>4. CASE d = e
        <3>1. ~Before(scored[d], scored[e]) /\ ~(d < e)
            BY <1>1, <2>2, <2>4, BeforeItself
        <3>. QED BY <1>8, <2>3, <3>1
    <2>5. CASE d # e
        <3>1. scored[d].record.path # scored[e].record.path
            BY <1>3, <2>2, <2>5 DEF Distinct
        <3>2. Before(scored[d], scored[e]) \/ Before(scored[e], scored[d])
            BY <2>2, <3>1, BeforeOrNot
        <3>. QED BY <1>8, <2>3, <3>2
    <2>. QED BY <2>4, <2>5
<1>16. /\ DOMAIN order = DOMAIN InOrder(M, Ahead(M))
       /\ \A n \in DOMAIN order : order[n] \in found /\ f[order[n]] = InOrder(M, Ahead(M))[n]
    <2>. HIDE DEF f
    <2>. QED BY <1>9, <1>10, <1>11, <1>14, <1>15, OrderedTheSame
<1>17. \A n \in DOMAIN order : scored[order[n]] = InOrder(M, Ahead(M))[n]
    BY <1>16
<1>18. InOrder(M, Ahead(M)) = [n \in DOMAIN InOrder(M, Ahead(M)) |-> InOrder(M, Ahead(M))[n]]
    <2>1. InOrder(M, Ahead(M)) \in Seq(M)
        BY <1>11, <1>14, InOrderIs
    <2>. QED BY <2>1
<1>. HIDE DEF order
<1>19. [n \in DOMAIN order |-> scored[order[n]]] = [n \in DOMAIN order |-> InOrder(M, Ahead(M))[n]]
    BY <1>17
<1>20. MatchProfiles(P, tokens) = InOrder(M, Ahead(M))
    BY <1>4, <1>16, <1>18, <1>19, Zenon
<1>. QED BY <1>11, <1>12, <1>14, <1>20 DEF M

-----------------------------------------------------------------------------
(* What is said of the answer                                               *)

\* The same profiles the other way round.
LEMMA ReverseIs ==
    ASSUME NEW P \in Seq(Record), Distinct(P)
    PROVE  Reverse(P) \in Seq(Record) /\ Distinct(Reverse(P)) /\ ToSet(Reverse(P)) = ToSet(P)
<1>. DEFINE n == Len(P)
            R == Reverse(P)
<1>1. n \in Nat /\ DOMAIN P = 1 .. n /\ \A i \in 1 .. n : P[i] \in Record
    OBVIOUS
<1>2. R = [i \in 1 .. n |-> P[(n - i) + 1]]
    BY DEF Reverse
<1>. HIDE DEF n, R
<1>3. \A i \in 1 .. n : (n - i) + 1 \in 1 .. n /\ (n - ((n - i) + 1)) + 1 = i
    BY <1>1
<1>4. R \in Seq(Record) /\ DOMAIN R = 1 .. n
    <2>1. R \in [1 .. n -> Record]
        BY <1>1, <1>2, <1>3
    <2>. QED BY <1>1, <2>1
<1>5. \A i \in 1 .. n : R[i] = P[(n - i) + 1]
    BY <1>2
<1>6. Distinct(R)
    <2>1. SUFFICES ASSUME NEW i \in 1 .. n, NEW j \in 1 .. n, i # j PROVE R[i].path # R[j].path
        BY <1>4 DEF Distinct
    <2>2. (n - i) + 1 \in 1 .. n /\ (n - j) + 1 \in 1 .. n /\ (n - i) + 1 # (n - j) + 1
        BY <1>1, <2>1
    <2>3. P[(n - i) + 1].path # P[(n - j) + 1].path
        BY <1>1, <2>2, Zenon DEF Distinct
    <2>. QED BY <1>5, <2>3
<1>7. ToSet(R) = ToSet(P)
    <2>1. \A i \in 1 .. n : \E j \in 1 .. n : R[i] = P[j]
        BY <1>3, <1>5
    <2>2. \A j \in 1 .. n : \E i \in 1 .. n : P[j] = R[i]
        <3>1. SUFFICES ASSUME NEW j \in 1 .. n PROVE \E i \in 1 .. n : P[j] = R[i]
            OBVIOUS
        <3>2. (n - j) + 1 \in 1 .. n /\ R[(n - j) + 1] = P[j]
            BY <1>3, <1>5
        <3>. QED BY <3>2
    <2>3. ToSet(R) = {R[i] : i \in 1 .. n} /\ ToSet(P) = {P[i] : i \in 1 .. n}
        BY <1>1, <1>4 DEF ToSet
    <2>. QED BY <2>1, <2>2, <2>3
<1>. QED BY <1>4, <1>6, <1>7 DEF R

\* The tokens of a lookup are not none.
LEMMA LookupHasTokens ==
    ASSUME NEW text \in Seq(Byte), ParsedQuery(text).kind = "lookup"
    PROVE  ParsedQuery(text).tokens \in Seq(Seq(Byte) \ {<<>>}) /\ ParsedQuery(text).tokens # <<>>
<1>. DEFINE rest == SubSeq(text, 4, Len(text))
            tokens == TokensOf(rest)
            ignored == Len(text) <= 3 \/ Folded(SubSeq(text, 1, 3)) # Rem \/ ~IsSpace(text[4]) \/ tokens = <<>>
<1>1. ParsedQuery(text) = IF ignored THEN [kind |-> "ignore", tokens |-> <<>>]
                          ELSE IF tokens = <<New>> THEN [kind |-> "create", tokens |-> <<>>]
                          ELSE [kind |-> "lookup", tokens |-> tokens]
    BY Zenon DEF ParsedQuery
<1>2. tokens # <<>> /\ ParsedQuery(text).tokens = tokens
    <2>1. ignored => tokens = <<>> \/ ignored
        OBVIOUS
    <2>2. tokens = <<>> => ignored
        OBVIOUS
    <2>. HIDE DEF ignored, tokens
    <2>3. CASE ignored
        BY <1>1, <2>3
    <2>4. CASE ~ignored /\ tokens = <<New>>
        BY <1>1, <2>4
    <2>5. CASE ~ignored /\ tokens # <<New>>
        BY <1>1, <2>2, <2>5
    <2>. QED BY <2>3, <2>4, <2>5
<1>3. rest \in Seq(Byte)
    BY CutIsBytes
<1>. HIDE DEF rest
<1>4. tokens \in Seq(Seq(Byte) \ {<<>>})
    BY <1>3, TokensAreWords
<1>. QED BY <1>2, <1>4

\* The answer says what it should of every profile.
LEMMA ProfilesAreMatchedExactly ==
    ASSUME profiles \in Seq(Record), Distinct(profiles), query \in Seq(Byte), ParsedQuery(query).kind = "lookup"
    PROVE  ProfilesAreMatched
<1>1. PICK tokens : tokens = ParsedQuery(query).tokens
    OBVIOUS
<1>2. tokens \in Seq(Seq(Byte) \ {<<>>}) /\ tokens # <<>>
    BY <1>1, LookupHasTokens
<1>. DEFINE M == Matches(profiles, tokens)
            A == Ahead(M)
            answer == MatchProfiles(profiles, tokens)
            named(p) == \A t \in ToSet(tokens) : t \in FoldedSearchableFields(p)
            begun(p) == \A t \in ToSet(tokens) : \E f \in FoldedSearchableFields(p) : IsPrefix(t, f)
            related(p) == \A t \in ToSet(tokens) : \E f \in FoldedSearchableFields(p) : t \in Parts(f)
<1>3. M \in SUBSET Match /\ Orders(A, M) /\ IsFiniteSet(M) /\ answer = InOrder(M, A)
    BY <1>2, MatchesAre
<1>4. ASSUME NEW p \in Record
      PROVE  /\ Relevance(p, tokens) \in Scores
             /\ Relevance(p, tokens) = 100 <=> named(p)
             /\ Relevance(p, tokens) >= 90 <=> begun(p)
             /\ Relevance(p, tokens) > 0 <=> related(p)
    BY <1>2, RelevanceIs
<1>5. \A d, e \in M : <<d, e>> \in A <=> Before(d, e)
    BY DEF Ahead
<1>6. \A m \in M : /\ m.record \in ToSet(profiles) /\ Relevance(m.record, tokens) > 0
                   /\ m.relevance = Relevance(m.record, tokens)
    BY DEF Matches
<1>7. \A p \in ToSet(profiles) : Relevance(p, tokens) > 0 => \E m \in M : m.record = p
    <2>1. SUFFICES ASSUME NEW p \in ToSet(profiles), Relevance(p, tokens) > 0 PROVE \E m \in M : m.record = p
        OBVIOUS
    <2>2. [record |-> p, relevance |-> Relevance(p, tokens)] \in M
        BY <2>1 DEF Matches
    <2>. QED BY <2>2
<1>8. \A p \in ToSet(profiles) : p \in Record
    BY DEF ToSet
<1>9. MatchProfiles(Reverse(profiles), tokens) = InOrder(M, A)
    <2>1. /\ Reverse(profiles) \in Seq(Record) /\ Distinct(Reverse(profiles))
          /\ ToSet(Reverse(profiles)) = ToSet(profiles)
        BY ReverseIs
    <2>2. Matches(Reverse(profiles), tokens) = M
        BY <2>1 DEF Matches
    <2>. HIDE DEF M, A
    <2>3. MatchProfiles(Reverse(profiles), tokens)
              = InOrder(Matches(Reverse(profiles), tokens), Ahead(Matches(Reverse(profiles), tokens)))
        BY <1>2, <2>1, MatchesAre
    <2>. QED BY <2>2, <2>3 DEF A
<1>. HIDE DEF M, A, named, begun, related
<1>10. /\ Cardinality(M) \in Nat /\ DOMAIN answer = 1 .. Cardinality(M)
       /\ \A n \in 1 .. Cardinality(M) : answer[n] \in M
       /\ \A e \in M : Rank(M, A, e) + 1 \in 1 .. Cardinality(M) /\ answer[Rank(M, A, e) + 1] = e
       /\ \A i, j \in 1 .. Cardinality(M) : i < j <=> <<answer[i], answer[j]>> \in A
    BY <1>3, InOrderIs
<1>. HIDE DEF answer
<1>11. ToSet(answer) = M
    <2>1. ToSet(answer) = {answer[i] : i \in DOMAIN answer}
        BY DEF ToSet
    <2>. QED BY <1>10, <2>1
<1>12. {m.record : m \in ToSet(answer)} = {p \in ToSet(profiles) : related(p)}
    <2>1. \A m \in M : m.record \in ToSet(profiles) /\ related(m.record)
        BY <1>4, <1>6, <1>8
    <2>2. \A p \in ToSet(profiles) : related(p) => \E m \in M : m.record = p
        BY <1>4, <1>7, <1>8
    <2>. QED BY <1>11, <2>1, <2>2
<1>13. IsInjective(answer)
    <2>1. SUFFICES ASSUME NEW i \in DOMAIN answer, NEW j \in DOMAIN answer, answer[i] = answer[j] PROVE i = j
        BY DEF IsInjective
    <2>2. <<answer[i], answer[j]>> \notin A /\ <<answer[j], answer[i]>> \notin A
        BY <1>3, <1>10, <2>1 DEF Orders
    <2>3. i \in Int /\ j \in Int /\ ~(i < j) /\ ~(j < i)
        BY <1>10, <2>2
    <2>. QED BY <2>3
<1>14. \A m \in ToSet(answer) : /\ m.relevance = 100 <=> named(m.record)
                                /\ m.relevance >= 90 <=> begun(m.record)
    BY <1>4, <1>6, <1>8, <1>11
<1>15. \A i, j \in DOMAIN answer : i < j => answer[i].relevance >= answer[j].relevance
    <2>1. SUFFICES ASSUME NEW i \in DOMAIN answer, NEW j \in DOMAIN answer, i < j
                   PROVE  answer[i].relevance >= answer[j].relevance
        OBVIOUS
    <2>2. answer[i] \in M /\ answer[j] \in M /\ <<answer[i], answer[j]>> \in A
        BY <1>10, <2>1
    <2>3. Before(answer[i], answer[j]) /\ answer[i] \in Match /\ answer[j] \in Match
        BY <1>3, <1>5, <2>2
    <2>4. answer[i].relevance \in Int /\ answer[j].relevance \in Int
        BY <2>3, MatchIs
    <2>5. answer[i].relevance > answer[j].relevance \/ answer[i].relevance = answer[j].relevance
        BY <2>3, BeforeIs, Zenon
    <2>. QED BY <2>4, <2>5
<1>16. answer = MatchProfiles(Reverse(profiles), tokens)
    BY <1>3, <1>9 DEF answer
<1>. QED BY <1>1, <1>12, <1>13, <1>14, <1>15, <1>16, Zenon DEF ProfilesAreMatched, answer, named, begun, related

\* Every query gets the exact answer: what was typed is read as the words it has, and the profiles
\* answered are those that every word is related to, best first, in an order that the list does not
\* show in (matcher.cpp:42, 100, 117).
THEOREM LookupAnswersExactly == Spec => []AnswerIsExact
<1>1. LookupInvariant => AnswerIsExact
    <2>1. SUFFICES ASSUME LookupInvariant, query # Absent
                   PROVE  QueryIsRead /\ (ParsedQuery(query).kind = "lookup" => ProfilesAreMatched)
        BY DEF AnswerIsExact
    <2>2. query \in Seq(Byte) /\ profiles \in Seq(Record)
        BY <2>1 DEF LookupInvariant, Listed
    <2>3. QueryIsRead
        BY <2>2, QueryIsReadExactly
    <2>4. Distinct(profiles)
        <3>1. \A i, j \in DOMAIN profiles : i < j => profiles[i].path < profiles[j].path
            BY <2>1 DEF LookupInvariant, Listed
        <3>2. \A i \in DOMAIN profiles : i \in Int /\ profiles[i].path \in Nat
            <4>1. \A i \in DOMAIN profiles : i \in Int /\ profiles[i] \in Record
                BY <2>2
            <4>2. \A r \in Record : r.path \in Nat
                BY DEF Record
            <4>. QED BY <4>1, <4>2
        <3>3. SUFFICES ASSUME NEW i \in DOMAIN profiles, NEW j \in DOMAIN profiles, i # j
                       PROVE  profiles[i].path # profiles[j].path
            BY DEF Distinct
        <3>4. i < j \/ j < i
            BY <3>2, <3>3
        <3>5. profiles[i].path < profiles[j].path \/ profiles[j].path < profiles[i].path
            BY <3>1, <3>4
        <3>6. profiles[i].path \in Nat /\ profiles[j].path \in Nat
            BY <3>2
        <3>. QED BY <3>5, <3>6
    <2>5. ParsedQuery(query).kind = "lookup" => ProfilesAreMatched
        BY <2>2, <2>4, ProfilesAreMatchedExactly
    <2>. QED BY <2>3, <2>5
<1>. QED BY <1>1, LookupKeepsInvariant, PTL
=============================================================================
