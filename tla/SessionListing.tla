--------------------------- MODULE SessionListing ---------------------------
(***************************************************************************)
(* What the catalog promises its client: within a session, every listing   *)
(* it answers consists of profiles that were current at some moment of     *)
(* that session. It does not promise that one listing was current as a     *)
(* whole at one moment (files are read one after another), nor that the    *)
(* last change is in it.                                                   *)
(***************************************************************************)
CONSTANT Record

VARIABLES
    open,    \* the client has a session
    seen,    \* the profiles that were current at some moment of the session
    answer   \* the last listing

vars == <<open, seen, answer>>

Init == open = FALSE /\ seen = {} /\ answer = {}

\* The profiles change: some more have been current.
Change ==
    /\ open /\ seen' \in SUBSET Record /\ seen \subseteq seen'
    /\ UNCHANGED <<open, answer>>

\* A first lookup, or one for another instance, opens a session: nothing that
\* was seen or answered before counts any more.
Open ==
    /\ open' = TRUE /\ seen' \in SUBSET Record /\ answer' = {}

\* A lookup is answered; an error answers nothing.
Answer ==
    /\ open /\ answer' \in SUBSET seen
    /\ UNCHANGED <<open, seen>>

Close ==
    /\ open' = FALSE /\ seen' = {} /\ answer' = {}

Next == Change \/ Open \/ Answer \/ Close

Spec == Init /\ [][Next]_vars
=============================================================================
