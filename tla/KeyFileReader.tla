---------------------------- MODULE KeyFileReader ----------------------------
(***************************************************************************)
(* readAllowedKeyFileValuesWithError (core/key_file_reader.cpp): the loop  *)
(* that reads a key file line by line and keeps the last value of each     *)
(* allowed key of one section. What a line is, is the business of          *)
(* KeyFileText; here it is a blank, a header, an entry or junk.            *)
(***************************************************************************)
EXTENDS KeyFileText

CONSTANTS
    Section,          \* the requested section
    AllowedKeys,      \* the keys whose values are wanted
    Names, Values,    \* what names sections and keys, and what decodes to a value
    Absent,
    MaximumLineCount, MaximumTotalBytes

ASSUME ReaderAssumption ==
    /\ Section \in Names /\ AllowedKeys \subseteq Names
    /\ Undecodable \notin Values /\ Absent \notin Values \cup {Undecodable}
    /\ MaximumLineCount \in Nat /\ MaximumTotalBytes \in Nat

VARIABLES
    values, invalidValues,
    hasSection, inRequestedSection, hasRequestedSection,
    totalBytes, lineCount,
    outcome,  \* "reading", or what was returned: "malformed", "unreadable", "values"
    file      \* history: the lines read so far, with the place in the file where each ends

readerVars == <<values, invalidValues, hasSection, inRequestedSection, hasRequestedSection,
                totalBytes, lineCount, outcome, file>>

Line == [kind : {"blank", "header", "entry", "junk"}, name : Names,
         value : Values \cup {Undecodable}, size : Nat]

ReaderInit ==
    /\ values = [k \in AllowedKeys |-> Absent] /\ invalidValues = {}
    /\ hasSection = FALSE /\ inRequestedSection = FALSE /\ hasRequestedSection = FALSE
    /\ totalBytes = 0 /\ lineCount = 0
    /\ outcome = "reading" /\ file = <<>>

\* The line becomes part of the file that was read.
Passed(l) == file' = Append(file, [line |-> l, end |-> totalBytes + l.size])

Malformed(l) ==
    /\ outcome' = "malformed" /\ Passed(l)
    /\ UNCHANGED <<values, invalidValues, hasSection, inRequestedSection, hasRequestedSection,
                   totalBytes, lineCount>>

\* Mutant of TooMuch: the line that reaches the limit is counted, but not the last one.
TooMuchLate(l) == lineCount > MaximumLineCount \/ totalBytes > MaximumTotalBytes - l.size

\* The line is one too many, or its bytes are.
TooMuch(l) == lineCount + 1 > MaximumLineCount \/ totalBytes > MaximumTotalBytes - l.size

Refused(l) == TooMuch(l) \/ l.kind = "junk" \/ (l.kind = "entry" /\ ~hasSection)

Counted(l) ==
    /\ totalBytes' = totalBytes + l.size /\ lineCount' = lineCount + 1
    /\ Passed(l) /\ UNCHANGED outcome

RefuseLine(l) ==
    /\ outcome = "reading" /\ Refused(l) /\ Malformed(l)

SkipBlank(l) ==
    /\ outcome = "reading" /\ ~Refused(l) /\ l.kind = "blank" /\ Counted(l)
    /\ UNCHANGED <<values, invalidValues, hasSection, inRequestedSection, hasRequestedSection>>

EnterSection(l) ==
    /\ outcome = "reading" /\ ~Refused(l) /\ l.kind = "header" /\ Counted(l)
    /\ hasSection' = TRUE
    /\ inRequestedSection' = (l.name = Section)
    /\ hasRequestedSection' = (hasRequestedSection \/ l.name = Section)
    /\ UNCHANGED <<values, invalidValues>>

Wanted(l) == inRequestedSection /\ l.name \in AllowedKeys

SkipEntry(l) ==
    /\ outcome = "reading" /\ ~Refused(l) /\ l.kind = "entry" /\ ~Wanted(l) /\ Counted(l)
    /\ UNCHANGED <<values, invalidValues, hasSection, inRequestedSection, hasRequestedSection>>

\* Mutant of Invalid: a key once invalid stays so.
InvalidForGood(l) == IF l.value = Undecodable THEN invalidValues \cup {l.name} ELSE invalidValues

\* The keys whose last value could not be decoded.
Invalid(l) == IF l.value = Undecodable THEN invalidValues \cup {l.name}
              ELSE invalidValues \ {l.name}

TakeEntry(l) ==
    /\ outcome = "reading" /\ ~Refused(l) /\ l.kind = "entry" /\ Wanted(l) /\ Counted(l)
    /\ values' = [values EXCEPT ![l.name] = IF l.value = Undecodable THEN Absent ELSE l.value]
    /\ invalidValues' = Invalid(l)
    /\ UNCHANGED <<hasSection, inRequestedSection, hasRequestedSection>>

ReadLine(l) ==
    \/ RefuseLine(l) \/ SkipBlank(l) \/ EnterSection(l) \/ SkipEntry(l) \/ TakeEntry(l)

EndOfFile ==
    /\ outcome = "reading"
    /\ outcome' = IF hasRequestedSection /\ invalidValues = {} THEN "values" ELSE "malformed"
    /\ UNCHANGED <<values, invalidValues, hasSection, inRequestedSection, hasRequestedSection,
                   totalBytes, lineCount, file>>

\* The file cannot be opened or read on.
ReadFails ==
    /\ outcome = "reading" /\ outcome' = "unreadable"
    /\ UNCHANGED <<values, invalidValues, hasSection, inRequestedSection, hasRequestedSection,
                   totalBytes, lineCount, file>>

ReaderNext == (\E l \in Line : ReadLine(l)) \/ EndOfFile \/ ReadFails

ReaderSpec == ReaderInit /\ [][ReaderNext]_readerVars

-----------------------------------------------------------------------------
(* Properties                                                              *)

ReaderTypeOK ==
    /\ values \in [AllowedKeys -> Values \cup {Absent}] /\ invalidValues \subseteq AllowedKeys
    /\ hasSection \in BOOLEAN /\ inRequestedSection \in BOOLEAN /\ hasRequestedSection \in BOOLEAN
    /\ totalBytes \in 0 .. MaximumTotalBytes /\ lineCount \in 0 .. MaximumLineCount
    /\ outcome \in {"reading", "malformed", "unreadable", "values"}
    /\ file \in Seq([line : Line, end : Nat])

\* Line j is the header that line i stands under.
HeaderOf(j, i) ==
    /\ j < i /\ file[j].line.kind = "header"
    /\ \A h \in j + 1 .. i - 1 : file[h].line.kind # "header"

\* Line i sets key k of the requested section, and no later line does.
Sets(i, k) ==
    /\ file[i].line.kind = "entry" /\ file[i].line.name = k
    /\ \E j \in 1 .. i - 1 : HeaderOf(j, i) /\ file[j].line.name = Section
SetsLast(i, k) == Sets(i, k) /\ \A h \in i + 1 .. Len(file) : ~Sets(h, k)

\* The file is one the reader takes: within the limits, without junk, no entry before the
\* first header, the section there, and the last value of each wanted key decodable.
WithinLimits == Len(file) <= MaximumLineCount
                /\ \A i \in DOMAIN file : file[i].end <= MaximumTotalBytes
WellFormed == \A i \in DOMAIN file :
    /\ file[i].line.kind # "junk"
    /\ file[i].line.kind = "entry" => \E j \in 1 .. i - 1 : file[j].line.kind = "header"
SectionThere == \E i \in DOMAIN file : file[i].line.kind = "header" /\ file[i].line.name = Section
AllDecodable == \A k \in AllowedKeys, i \in DOMAIN file :
    SetsLast(i, k) => file[i].line.value # Undecodable
Acceptable == WithinLimits /\ WellFormed /\ SectionThere /\ AllDecodable

\* The reader returns values exactly for a file it should take, and then for each key the
\* one its last line of the section gives (key_file_reader.cpp:335): an invalid value that is
\* overridden does no harm, one that overrides does.
ReaderIsExact ==
    /\ outcome = "values" =>
        /\ Acceptable
        /\ \A k \in AllowedKeys : values[k] = Absent <=> ~\E i \in DOMAIN file : Sets(i, k)
        /\ \A k \in AllowedKeys, i \in DOMAIN file : SetsLast(i, k) => values[k] = file[i].line.value
    /\ outcome = "malformed" => ~Acceptable
=============================================================================
