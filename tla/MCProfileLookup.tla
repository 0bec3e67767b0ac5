--------------------------- MODULE MCProfileLookup ---------------------------
(***************************************************************************)
(* Three kinds of files: of bytes that matter to UTF-8, of bytes that      *)
(* matter to the syntax of a line, and of whole lines. The section is      *)
(* called "r" and the keys "n", "s" and "l".                               *)
(***************************************************************************)
EXTENDS ProfileLookup

MCSection == <<114>>
MCName == <<110>>
MCServer == <<115>>
MCLabels == <<108>>
MCAllowedKeys == {MCName, MCServer, MCLabels}
MCNames == MCAllowedKeys \cup {MCSection}

Single(bytes) == {<<b>> : b \in bytes}

\* The first and last byte of each range that the code tells apart.
Utf8Pieces ==
    Single({0, 127, 128, 143, 144, 159, 160, 191, 193, 194, 224, 237, 239, 240, 244, 245})

\* Blanks, the ends of a line, what a line is made of, a letter that is an escape's too,
\* and "[n]", a header or the locale of a key.
SyntaxPieces ==
    Single({Space, FormFeed, Return, LineFeed, Hash, Equals, Opening, Closing, Backslash, 110})
    \cup {<<Opening, 110, Closing>>}

Entry(key, value) == key \o <<Equals>> \o value \o <<LineFeed>>

\* Headers and entries, one of which is undecodable, junk, and a line that is too long.
LinePieces == {
    <<Opening, 114, Closing, LineFeed>>,
    <<Opening, 120, Closing, LineFeed>>,
    Entry(MCName, <<97>>), Entry(MCName, <<66, 97>>), Entry(MCName, <<Backslash, 97>>),
    Entry(MCServer, <<98>>), Entry(MCLabels, <<97, 98, Comma, Space, Comma, 65>>),
    <<120, LineFeed>>, <<Hash, 120, 120, 120, 120, 120, 120, 120, 120, LineFeed>>}

MCAlphabets == {Utf8Pieces, SyntaxPieces, LinePieces}

\* "rem", "Rem ", " ", "a", "B", "new"
MCQueryAlphabet == {<<114, 101, 109>>, <<82, 101, 109, 32>>, <<32>>, <<97>>, <<66>>, <<110, 101, 119>>}
=============================================================================
