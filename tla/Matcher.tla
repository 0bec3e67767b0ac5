------------------------------- MODULE Matcher -------------------------------
(***************************************************************************)
(* The query and the match of profiles against it (core/matcher.cpp). A    *)
(* string is a sequence of bytes of which only the ASCII letters have two  *)
(* cases; a profile is a record with name, server, labels and path.        *)
(***************************************************************************)
EXTENDS Integers, Sequences, FiniteSets, SequencesExt, FiniteSetsExt

Rem == <<114, 101, 109>>
New == <<110, 101, 119>>

IsSpace(b) == b \in (9 .. 13) \cup {32}

Folded(bytes) == [i \in DOMAIN bytes |-> IF bytes[i] \in 65 .. 90 THEN bytes[i] + 32 ELSE bytes[i]]

\* The members of a finite set in a strict order: n - 1 of them are before the n-th.
InOrder(S, R) == [n \in 1 .. Cardinality(S) |->
    CHOOSE e \in S : Cardinality({d \in S : <<d, e>> \in R}) = n - 1]

Ascending(S) == InOrder(S, {p \in S \X S : p[1] < p[2]})

-----------------------------------------------------------------------------
(* parseRunnerQuery                                                        *)

\* Tokens stand between spaces.
TokensOf(query) ==
    LET first == {i \in DOMAIN query : ~IsSpace(query[i]) /\ (i > 1 => IsSpace(query[i - 1]))}
        last(i) == Max({j \in i .. Len(query) : \A k \in i .. j : ~IsSpace(query[k])})
        starts == Ascending(first)
    IN [n \in DOMAIN starts |-> Folded(SubSeq(query, starts[n], last(starts[n])))]

\* Mutant of ParsedQuery: the trigger needs no space behind it.
ParsedQueryGlued(query) ==
    LET tokens == TokensOf(SubSeq(query, 4, Len(query)))
    IN IF Len(query) <= 3 \/ Folded(SubSeq(query, 1, 3)) # Rem \/ tokens = <<>>
       THEN [kind |-> "ignore", tokens |-> <<>>]
       ELSE IF tokens = <<New>> THEN [kind |-> "create", tokens |-> <<>>]
       ELSE [kind |-> "lookup", tokens |-> tokens]

ParsedQuery(query) ==
    LET tokens == TokensOf(SubSeq(query, 4, Len(query)))
    IN IF Len(query) <= 3 \/ Folded(SubSeq(query, 1, 3)) # Rem \/ ~IsSpace(query[4]) \/ tokens = <<>>
       THEN [kind |-> "ignore", tokens |-> <<>>]
       ELSE IF tokens = <<New>> THEN [kind |-> "create", tokens |-> <<>>]
       ELSE [kind |-> "lookup", tokens |-> tokens]

-----------------------------------------------------------------------------
(* matchProfiles                                                           *)

Holds(field, token) ==
    \E i \in 0 .. Len(field) - Len(token) : SubSeq(field, i + 1, i + Len(token)) = token

\* In hundredths.
RelationshipScore(field, token) ==
    CASE field = token -> 100
      [] field # token /\ IsPrefix(token, field) -> 90
      [] ~IsPrefix(token, field) /\ Holds(field, token) -> 75
      [] OTHER -> 0

FoldedSearchableFields(profile) ==
    {Folded(profile.name), Folded(profile.server)}
    \cup {Folded(profile.labels[i]) : i \in DOMAIN profile.labels}

\* Mutant of Relevance: the best token counts, and one that matches nothing does not.
RelevanceOfBest(profile, tokens) ==
    Max({RelationshipScore(f, tokens[t]) : f \in FoldedSearchableFields(profile), t \in DOMAIN tokens})

\* What the worst token's best field is worth; 0 if one has none.
Relevance(profile, tokens) ==
    Min({Max({RelationshipScore(f, tokens[t]) : f \in FoldedSearchableFields(profile)}) : t \in DOMAIN tokens})

\* QString::compare
Precedes(s, t) ==
    LET differing == {i \in DOMAIN s \cap DOMAIN t : s[i] # t[i]}
    IN IF differing = {} THEN Len(s) < Len(t) ELSE s[Min(differing)] < t[Min(differing)]

\* Mutant of Before: names decide as soon as relevance does not.
BeforeByName(left, right) ==
    \/ left.relevance > right.relevance
    \/ left.relevance = right.relevance /\ Precedes(Folded(left.record.name), Folded(right.record.name))

\* The order of the answer: relevance, name, server, path.
Before(left, right) ==
    LET l == left.record
        r == right.record
        name == <<Folded(l.name), Folded(r.name)>>
        server == <<Folded(l.server), Folded(r.server)>>
    IN \/ left.relevance > right.relevance
       \/ /\ left.relevance = right.relevance
          /\ \/ Precedes(name[1], name[2])
             \/ name[1] = name[2] /\ Precedes(server[1], server[2])
             \/ name[1] = name[2] /\ server[1] = server[2] /\ l.path < r.path

\* matchProfiles: a stable sort of the profiles to which every token is related.
MatchProfiles(profiles, tokens) ==
    LET scored == [i \in DOMAIN profiles |->
                      [record |-> profiles[i], relevance |-> Relevance(profiles[i], tokens)]]
        found == {i \in DOMAIN profiles : scored[i].relevance > 0}
        earlier == {p \in found \X found :
            LET left == scored[p[1]]
                right == scored[p[2]]
            IN Before(left, right) \/ (~Before(right, left) /\ p[1] < p[2])}
        order == InOrder(found, earlier)
    IN [n \in DOMAIN order |-> scored[order[n]]]
=============================================================================
