---------------------------- MODULE ProfileLookup ----------------------------
(***************************************************************************)
(* From the bytes of profiles to the answer to a query: the key-file       *)
(* reader (core/key_file_reader.cpp) run on the lines that KeyFileText     *)
(* makes out of the bytes, the profile parser (core/profile_parser.cpp)    *)
(* on the values, the matcher (core/matcher.cpp) on the profiles.          *)
(***************************************************************************)
EXTENDS KeyFileReader, Matcher

CONSTANTS
    Name, Server, Labels,  \* the allowed keys
    Alphabets,             \* sets of pieces that files are put together from
    QueryAlphabet,         \* pieces that queries are put together from
    MaxPieces, MaxQueryPieces, MaxProfiles

\* Files are made of bytes, and what stands for no value is no string of bytes.
ASSUME LookupAssumption ==
    /\ \A a \in Alphabets \cup {QueryAlphabet} : \A piece \in a : piece \in Seq(0 .. 255)
    /\ {Name, Server, Labels} \subseteq AllowedKeys
    /\ \A mark \in {Undecodable, Absent} : mark \notin Seq(0 .. 255)
    /\ MaximumLineBytes \in Nat

VARIABLES
    alphabet,  \* the pieces the files are made of
    line,      \* the line that readLine has so far
    pieces,    \* how many pieces the file, or the query, has
    profiles,  \* the list of profiles; the one of the i-th file has path i
    paths,     \* how many files were read
    query      \* what was typed; Absent as long as files are read

lookupVars == <<alphabet, line, pieces, profiles, paths, query>>

vars == <<lookupVars, readerVars>>

Init ==
    /\ ReaderInit
    /\ alphabet \in Alphabets /\ line = <<>> /\ pieces = 0
    /\ profiles = <<>> /\ paths = 0 /\ query = Absent

\* Some more of the file, up to the end of a line or of the file.
Read(piece) ==
    /\ query = Absent /\ outcome = "reading" /\ pieces < MaxPieces
    /\ ~IsSuffix(<<LineFeed>>, line)
    /\ line' = line \o piece /\ pieces' = pieces + 1
    /\ UNCHANGED <<readerVars, alphabet, profiles, paths, query>>

\* A line is complete.
EndLine ==
    /\ IsSuffix(<<LineFeed>>, line)
    /\ ReadLine(Parsed(line)) /\ line' = <<>>
    /\ UNCHANGED <<alphabet, pieces, profiles, paths, query>>

\* The last line of the file has no line feed.
EndLastLine ==
    /\ line # <<>> /\ ~IsSuffix(<<LineFeed>>, line)
    /\ ReadLine(Parsed(line)) /\ line' = <<>> /\ pieces' = MaxPieces
    /\ UNCHANGED <<alphabet, profiles, paths, query>>

EndFile ==
    /\ query = Absent /\ paths < MaxProfiles /\ line = <<>> /\ EndOfFile
    /\ UNCHANGED lookupVars

\* It cannot be opened, or not be read to its end.
FailFile ==
    /\ query = Absent /\ pieces < MaxPieces /\ paths < MaxProfiles /\ ReadFails
    /\ line' = <<>> /\ pieces' = MaxPieces
    /\ UNCHANGED <<alphabet, profiles, paths, query>>

Stripped(value) ==
    LET text == IF value = Absent THEN <<>> ELSE value
        spaces == (9 .. 13) \cup {32}
    IN Trimmed(text, spaces, spaces)

\* The labels between the commas that are not empty.
LabelsOf(display) ==
    LET cuts == Ascending({i \in 1 .. Len(display) : display[i] = Comma} \cup {0, Len(display) + 1})
        part(n) == Stripped(SubSeq(display, cuts[n] + 1, cuts[n + 1] - 1))
        labels == Ascending({n \in 1 .. Len(cuts) - 1 : part(n) # <<>>})
    IN [n \in DOMAIN labels |-> part(labels[n])]

\* parseRemminaProfile: what was read is a profile if it has a name. The reader is reset.
ParseProfile ==
    LET name == Stripped(values[Name])
        labels == LabelsOf(Stripped(values[Labels]))
    IN /\ query = Absent /\ outcome # "reading" /\ paths < MaxProfiles
       /\ profiles' = IF outcome = "values" /\ name # <<>>
                      THEN Append(profiles, [name |-> name, server |-> Stripped(values[Server]),
                                             labels |-> labels, path |-> paths + 1])
                      ELSE profiles
       /\ paths' = paths + 1
       /\ values' = [k \in AllowedKeys |-> Absent] /\ invalidValues' = {}
       /\ hasSection' = FALSE /\ inRequestedSection' = FALSE /\ hasRequestedSection' = FALSE
       /\ totalBytes' = 0 /\ lineCount' = 0 /\ outcome' = "reading" /\ file' = <<>>
       /\ line' = <<>> /\ pieces' = 0
       /\ UNCHANGED <<alphabet, query>>

\* A user types a query.
Type(piece) ==
    /\ paths = MaxProfiles /\ file = <<>> /\ line = <<>> /\ outcome = "reading"
    /\ pieces < MaxQueryPieces /\ pieces' = pieces + 1
    /\ query' = (IF query = Absent THEN <<>> ELSE query) \o piece
    /\ UNCHANGED <<readerVars, alphabet, line, profiles, paths>>

Next ==
    \/ \E p \in alphabet : paths < MaxProfiles /\ Read(p)
    \/ EndLine \/ EndLastLine \/ EndFile \/ FailFile \/ ParseProfile
    \/ \E p \in QueryAlphabet : Type(p)

Spec == Init /\ [][Next]_vars

-----------------------------------------------------------------------------
(* Properties                                                              *)

\* Bytes are taken for UTF-8 exactly if they can be cut into encodings of code points that
\* are neither surrogates nor beyond the last one (key_file_reader.cpp:44): no overlong form
\* and no half of a character passes, whatever it is next to.
Utf8IsExact == IsValidUtf8(line) <=> IsUtf8(line)

\* A value is decoded to what it stands for, and a backslash that begins no escape is not let
\* through (key_file_reader.cpp:168), also after an escaped backslash and at the end.
DecodeIsExact == IsDecodingOf(DecodeValue(line), line)

\* A line is taken for what the grammar says, with the right name and value
\* (key_file_reader.cpp:278-335): blanks around the key and before the value, a carriage
\* return, brackets in keys and form feeds behind a header are what tells lines apart.
LineIsExact ==
    LET l == Parsed(line)
        body == WithoutEnding(line)
        keys == {k \in Parts(body) : IsKey(k)}
        encodings == Suffixes(body)
    IN IsUtf8(line) /\ Len(line) <= MaximumLineBytes =>
        /\ l.kind = "blank" <=> IsBlank(body)
        /\ l.kind = "header" <=> \E g \in Parts(body) : IsHeader(body, g)
        /\ l.kind = "entry" <=> \E k \in keys, e \in encodings : IsEntry(body, k, e)
        /\ l.kind = "header" => IsHeader(body, l.name)
        /\ l.kind = "entry" => \E e \in encodings : IsEntry(body, l.name, e) /\ IsDecodingOf(l.value, e)

\* What was typed is a lookup exactly if a "rem" of any case, then a space, then something
\* other than "new" alone was typed (matcher.cpp:42), and its tokens are the words typed: each
\* byte that is no space is at its place in the token of its word, and the tokens have no other.
QueryIsRead ==
    LET parsed == ParsedQuery(query)
        rest == SubSeq(query, 4, Len(query))
        typed == {i \in DOMAIN rest : ~IsSpace(rest[i])}
        begins == {i \in typed : i - 1 \notin typed}
        word(i) == Cardinality({j \in begins : j <= i})
        place(i) == Cardinality({j \in typed : j <= i /\ word(j) = word(i)})
        triggered == /\ Len(query) > 3 /\ IsSpace(query[4]) /\ typed # {}
                     /\ query[1] \in {82, 114} /\ query[2] \in {69, 101} /\ query[3] \in {77, 109}
        creates == \E i \in typed : typed = i .. i + 2 /\ Folded(SubSeq(rest, i, i + 2)) = New
    IN /\ parsed.kind = "ignore" <=> ~triggered
       /\ triggered => (parsed.kind = "create" <=> creates)
       /\ parsed.kind = "lookup" =>
            /\ Len(parsed.tokens) = Cardinality(begins)
            /\ \A n \in DOMAIN parsed.tokens :
                   Len(parsed.tokens[n]) = Cardinality({i \in typed : word(i) = n})
            /\ \A i \in typed : parsed.tokens[word(i)][place(i)] = Folded(rest)[i]

\* A profile is answered exactly if every token stands in one of its fields, it is a full
\* match only if every token is a field and a prefix match only if every token begins one
\* (matcher.cpp:100), better matches come first, and the order in which the files were listed
\* does not show (matcher.cpp:117).
ProfilesAreMatched ==
    LET tokens == ParsedQuery(query).tokens
        answer == MatchProfiles(profiles, tokens)
        named(p) == \A t \in ToSet(tokens) : t \in FoldedSearchableFields(p)
        begun(p) == \A t \in ToSet(tokens) : \E f \in FoldedSearchableFields(p) : IsPrefix(t, f)
        related(p) == \A t \in ToSet(tokens) : \E f \in FoldedSearchableFields(p) : t \in Parts(f)
    IN /\ {m.record : m \in ToSet(answer)} = {p \in ToSet(profiles) : related(p)}
       /\ IsInjective(answer)
       /\ \A m \in ToSet(answer) :
            /\ m.relevance = 100 <=> named(m.record)
            /\ m.relevance >= 90 <=> begun(m.record)
       /\ \A i, j \in DOMAIN answer : i < j => answer[i].relevance >= answer[j].relevance
       /\ answer = MatchProfiles(Reverse(profiles), tokens)

AnswerIsExact ==
    query # Absent => QueryIsRead /\ (ParsedQuery(query).kind = "lookup" => ProfilesAreMatched)
=============================================================================
