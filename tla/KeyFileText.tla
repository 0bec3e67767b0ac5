----------------------------- MODULE KeyFileText -----------------------------
(***************************************************************************)
(* The bytes of a key file (core/key_file_reader.cpp) and of a query       *)
(* (core/matcher.cpp): UTF-8, escapes, the kinds of a line, and the split  *)
(* of a value or a query into parts. Each algorithm that walks over bytes  *)
(* is followed by what it should compute, said without walking.            *)
(***************************************************************************)
EXTENDS Integers, Sequences, FiniteSets, SequencesExt, FiniteSetsExt

CONSTANTS
    Undecodable,      \* what a value with an escape that is none decodes to
    MaximumLineBytes

Tab == 9
LineFeed == 10
FormFeed == 12
Return == 13
Space == 32
Hash == 35
Comma == 44
Equals == 61
Opening == 91
Backslash == 92
Closing == 93

-----------------------------------------------------------------------------
(* isValidUtf8                                                             *)

Continued(bytes, first, count) ==
    /\ first + count - 1 <= Len(bytes)
    /\ \A i \in first .. first + count - 1 : bytes[i] \in 128 .. 191

\* Mutant of CharacterLength: the second byte of a character is not looked at closely.
CharacterLengthLoose(bytes, i) ==
    LET lead == bytes[i] IN
    CASE lead \in 1 .. 127 -> 1
      [] lead \in 194 .. 223 /\ Continued(bytes, i + 1, 1) -> 2
      [] lead \in 224 .. 239 /\ Continued(bytes, i + 1, 2) -> 3
      [] lead \in 240 .. 244 /\ Continued(bytes, i + 1, 3) -> 4
      [] OTHER -> 0

\* The bytes of the character at i; 0 if there is none.
CharacterLength(bytes, i) ==
    LET lead == bytes[i] IN
    CASE lead \in 1 .. 127 -> 1
      [] lead \in 194 .. 223 /\ Continued(bytes, i + 1, 1) -> 2
      [] /\ lead \in 224 .. 239 /\ Continued(bytes, i + 1, 2)
         /\ lead = 224 => bytes[i + 1] >= 160
         /\ lead = 237 => bytes[i + 1] <= 159 -> 3
      [] /\ lead \in 240 .. 244 /\ Continued(bytes, i + 1, 3)
         /\ lead = 240 => bytes[i + 1] >= 144
         /\ lead = 244 => bytes[i + 1] <= 143 -> 4
      [] OTHER -> 0

IsValidUtf8(bytes) ==
    LET valid[i \in 1 .. Len(bytes) + 1] ==
            \/ i > Len(bytes)
            \/ CharacterLength(bytes, i) # 0 /\ valid[i + CharacterLength(bytes, i)]
    IN valid[1]

\* The bytes of a code point, by definition of UTF-8.
Encoding(c) ==
    LET trailing(weight) == 128 + ((c \div weight) % 64) IN
    CASE c < 128 -> <<c>>
      [] c >= 128 /\ c < 2048 -> <<192 + (c \div 64), trailing(1)>>
      [] c >= 2048 /\ c < 65536 -> <<224 + (c \div 4096), trailing(64), trailing(1)>>
      [] OTHER -> <<240 + (c \div 262144), trailing(4096), trailing(64), trailing(1)>>

\* The number that one to four bytes spell if they are an encoding at all.
Spelt(bytes) ==
    CASE Len(bytes) = 1 -> bytes[1]
      [] Len(bytes) = 2 -> (bytes[1] - 192) * 64 + bytes[2] - 128
      [] Len(bytes) = 3 -> (bytes[1] - 224) * 4096 + (bytes[2] - 128) * 64 + bytes[3] - 128
      [] Len(bytes) = 4 -> (bytes[1] - 240) * 262144 + (bytes[2] - 128) * 4096
                           + (bytes[3] - 128) * 64 + bytes[4] - 128

IsCharacter(bytes) ==
    LET c == Spelt(bytes) IN
    c > 0 /\ c <= 1114111 /\ ~(55296 <= c /\ c <= 57343) /\ Encoding(c) = bytes

\* The bytes fall into characters: cutting them at some of their places does it.
IsUtf8(bytes) ==
    \E cuts \in SUBSET (1 .. Len(bytes)) :
        /\ bytes # <<>> => Len(bytes) \in cuts
        /\ \A to \in cuts :
               LET from == Max({c \in cuts \cup {0} : c < to}) IN
               to - from <= 4 /\ IsCharacter(SubSeq(bytes, from + 1, to))

-----------------------------------------------------------------------------
(* decodeValue                                                             *)

\* What the byte behind a backslash stands for.
Unescaped == [b \in {115, 110, 116, 114, Backslash} |->
    CASE b = 115 -> Space
      [] b = 110 -> LineFeed
      [] b = 116 -> Tab
      [] b = 114 -> Return
      [] b = Backslash -> Backslash]

\* Mutant of DecodeValue: what follows a backslash is kept if it is no escape.
DecodeValueLenient(bytes) ==
    LET decoded[i \in 1 .. Len(bytes) + 2] ==
            IF i > Len(bytes) THEN <<>>
            ELSE IF bytes[i] # Backslash THEN <<bytes[i]>> \o decoded[i + 1]
            ELSE IF i < Len(bytes) /\ bytes[i + 1] \in DOMAIN Unescaped
                 THEN <<Unescaped[bytes[i + 1]]>> \o decoded[i + 2]
            ELSE decoded[i + 1]
    IN decoded[1]

DecodeValue(bytes) ==
    LET decoded[i \in 1 .. Len(bytes) + 2] ==
            IF i > Len(bytes) THEN <<>>
            ELSE IF bytes[i] # Backslash
                 THEN IF decoded[i + 1] = Undecodable THEN Undecodable
                      ELSE <<bytes[i]>> \o decoded[i + 1]
            ELSE IF i = Len(bytes) \/ bytes[i + 1] \notin DOMAIN Unescaped \/ decoded[i + 2] = Undecodable
                 THEN Undecodable
            ELSE <<Unescaped[bytes[i + 1]]>> \o decoded[i + 2]
    IN decoded[1]

\* The backslashes that begin an escape: those with an even number right before them.
EscapesIn(bytes) ==
    {i \in DOMAIN bytes :
        /\ bytes[i] = Backslash
        /\ (i - Max({j \in 0 .. i - 1 : j = 0 \/ bytes[j] # Backslash}) - 1) % 2 = 0}

\* The decoded value has a byte for every byte that does not begin an escape.
IsDecodingOf(value, bytes) ==
    LET escapes == EscapesIn(bytes)
        kept == DOMAIN bytes \ escapes
        place(i) == Cardinality({j \in kept : j <= i})
    IN IF \E i \in escapes : i = Len(bytes) \/ bytes[i + 1] \notin DOMAIN Unescaped
       THEN value = Undecodable
       ELSE /\ value # Undecodable /\ Len(value) = Cardinality(kept)
            /\ \A i \in kept : value[place(i)] = IF i - 1 \in escapes THEN Unescaped[bytes[i]] ELSE bytes[i]

-----------------------------------------------------------------------------
(* Lines                                                                   *)

Syntactic == {Space, Tab, FormFeed}

\* The places of a sequence that are left when blanks at its ends are dropped.
Trimmed(bytes, before, after) ==
    LET solid == {i \in DOMAIN bytes : bytes[i] \notin before}
        first == IF solid = {} THEN Len(bytes) + 1 ELSE Min(solid)
        ending == {i \in first .. Len(bytes) : bytes[i] \notin after}
    IN SubSeq(bytes, first, IF ending = {} THEN first - 1 ELSE Max(ending))

LocaleByte(b) == b \in (48 .. 57) \cup (65 .. 90) \cup (97 .. 122) \cup {45, 46, 64, 95} \cup (128 .. 255)

\* Mutant of IsValidKeyName: brackets may be anywhere.
IsValidKeyNameLoose(key) == key # <<>>

\* isValidKeyName: a name, or a name and a locale in brackets at its end.
IsValidKeyName(key) ==
    LET openings == {i \in DOMAIN key : key[i] = Opening}
        closings == {i \in DOMAIN key : key[i] = Closing}
    IN /\ key # <<>>
       /\ IF openings = {} THEN closings = {}
          ELSE /\ Min(openings) # 1 /\ Cardinality(openings) = 1
               /\ closings # {} /\ Min(closings) = Len(key)
               /\ Min(openings) + 1 < Len(key)
               /\ \A i \in Min(openings) + 1 .. Len(key) - 1 : LocaleByte(key[i])

IsValidGroupName(group) ==
    group # <<>> /\ \A i \in DOMAIN group : group[i] \notin {Opening, Closing, 127} \cup (0 .. 31)

\* A line as KeyFileReader takes it.
LineOf(kind, name, value, bytes) ==
    [kind |-> kind, name |-> name, value |-> value, size |-> Len(bytes)]
Junk(bytes) == LineOf("junk", <<>>, <<>>, bytes)

HeaderLine(content, bytes) ==
    LET header == Trimmed(content, {}, {Space, Tab})
        group == SubSeq(header, 2, Len(header) - 1)
    IN IF Len(header) >= 3 /\ Last(header) = Closing /\ IsValidGroupName(group)
       THEN LineOf("header", group, <<>>, bytes)
       ELSE Junk(bytes)

EntryLine(content, bytes) ==
    LET equals == {i \in DOMAIN content : content[i] = Equals}
        key == Trimmed(SubSeq(content, 1, Min(equals) - 1), Syntactic, Syntactic)
        encoded == Trimmed(SubSeq(content, Min(equals) + 1, Len(content)), Syntactic, {})
    IN IF equals # {} /\ IsValidKeyName(key)
       THEN LineOf("entry", key, DecodeValue(encoded), bytes)
       ELSE Junk(bytes)

\* The line without its ending; a file may end without one.
WithoutEnding(bytes) ==
    IF IsSuffix(<<Return, LineFeed>>, bytes) THEN Front(Front(bytes))
    ELSE IF IsSuffix(<<LineFeed>>, bytes) THEN Front(bytes) ELSE bytes

\* What one line of the file is to the reader. A line longer than the limit is read only
\* in part, and is refused for what was read of it.
Parsed(bytes) ==
    LET content == Trimmed(WithoutEnding(bytes), Syntactic, {})
    IN IF Len(bytes) > MaximumLineBytes \/ ~IsValidUtf8(bytes) THEN Junk(bytes)
       ELSE IF content = <<>> \/ content[1] = Hash THEN LineOf("blank", <<>>, <<>>, bytes)
       ELSE IF content[1] = Opening THEN HeaderLine(content, bytes)
       ELSE EntryLine(content, bytes)

-----------------------------------------------------------------------------
(* What a line is, as a grammar: a cut of the line into parts, each of     *)
(* which is of its kind.                                                   *)

Made(bytes, from) == \A i \in DOMAIN bytes : bytes[i] \in from

\* A key is a name without brackets or equals sign, and perhaps a locale.
IsKey(key) ==
    /\ key # <<>> /\ key[1] \notin Syntactic /\ Last(key) \notin Syntactic
    /\ \E n \in 1 .. Len(key) :
          /\ \A i \in 1 .. n : key[i] \notin {Opening, Closing, Equals}
          /\ \/ n = Len(key)
             \/ /\ n + 3 <= Len(key) /\ key[n + 1] = Opening /\ Last(key) = Closing
                /\ \A i \in n + 2 .. Len(key) - 1 : LocaleByte(key[i])

\* blanks key blanks "=" blanks value
IsEntry(line, key, encoded) ==
    /\ IsKey(key) /\ key[1] \notin {Hash, Opening}
    /\ encoded # <<>> => encoded[1] \notin Syntactic
    /\ \E a, b, c \in 0 .. Len(line) :
          /\ a + Len(key) + b + 1 + c + Len(encoded) = Len(line)
          /\ Made(SubSeq(line, 1, a), Syntactic)
          /\ SubSeq(line, a + 1, a + Len(key)) = key
          /\ Made(SubSeq(line, a + Len(key) + 1, a + Len(key) + b), Syntactic)
          /\ line[a + Len(key) + b + 1] = Equals
          /\ Made(SubSeq(line, a + Len(key) + b + 2, a + Len(key) + b + 1 + c), Syntactic)
          /\ SubSeq(line, Len(line) - Len(encoded) + 1, Len(line)) = encoded

\* blanks "[" group "]" blanks, where a form feed is no blank at the end
IsHeader(line, group) ==
    /\ IsValidGroupName(group)
    /\ \E a, b \in 0 .. Len(line) :
          /\ a + Len(group) + 2 + b = Len(line)
          /\ Made(SubSeq(line, 1, a), Syntactic)
          /\ SubSeq(line, a + 1, a + Len(group) + 2) = <<Opening>> \o group \o <<Closing>>
          /\ Made(SubSeq(line, a + Len(group) + 3, Len(line)), {Space, Tab})

\* blanks, and perhaps a comment
IsBlank(line) ==
    \E a \in 0 .. Len(line) :
        Made(SubSeq(line, 1, a), Syntactic) /\ (a < Len(line) => line[a + 1] = Hash)

\* What stands somewhere in the line.
Parts(line) == {SubSeq(line, from, to) : from \in 1 .. Len(line) + 1, to \in 0 .. Len(line)}
=============================================================================
