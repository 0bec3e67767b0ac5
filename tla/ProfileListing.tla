--------------------------- MODULE ProfileListing ---------------------------
(***************************************************************************)
(* What a load of the profile repository promises: it ends with profiles   *)
(* each of which is what its file held at some moment between the call and *)
(* the answer, at most one for a file. An older text never comes back out  *)
(* of the cache, and a text never comes from another file.                 *)
(***************************************************************************)
CONSTANTS File, Text

VARIABLES
    text,     \* what each file holds
    loading,  \* a load is running
    held,     \* what each file has held since the load was called
    answer    \* the texts of the last load, by file

vars == <<text, loading, held, answer>>

Answers == UNION {[S -> Text] : S \in SUBSET File}

Init ==
    /\ text \in [File -> Text] /\ loading = FALSE
    /\ held = [f \in File |-> {}] /\ answer = [f \in {} |-> {}]

\* Another program writes a file.
Write ==
    \E f \in File, t \in Text :
        /\ text' = [text EXCEPT ![f] = t]
        /\ held' = IF loading THEN [held EXCEPT ![f] = @ \cup {t}] ELSE held
        /\ UNCHANGED <<loading, answer>>

Call ==
    /\ ~loading /\ loading' = TRUE
    /\ held' = [f \in File |-> {text[f]}]
    /\ UNCHANGED <<text, answer>>

\* A load that fails answers nothing.
Answer ==
    /\ loading /\ loading' = FALSE
    /\ answer' \in Answers
    /\ \A f \in DOMAIN answer' : answer'[f] \in held[f]
    /\ held' = [f \in File |-> {}]
    /\ UNCHANGED text

Next == Write \/ Call \/ Answer

Spec == Init /\ [][Next]_vars
=============================================================================
