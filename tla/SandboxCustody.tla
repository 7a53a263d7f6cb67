--------------------------- MODULE SandboxCustody ---------------------------
(***************************************************************************)
(* What a pool of sandboxes promises about who has a sandbox, without       *)
(* locks, threads, ticks or a store.  A sandbox is warmed up, becomes idle, *)
(* is taken by one caller and is lent to that caller; or a caller has one   *)
(* made for it.  At every point it may be condemned or be gone.  It never   *)
(* goes back: not from a caller to the buffer, not from one caller to       *)
(* another, not from the condemned to anybody.                              *)
(***************************************************************************)
CONSTANTS Sandbox, Caller

VARIABLES
    warm,    \* made, and not yet in the buffer
    idle,    \* in the buffer
    taken,   \* what each caller's request holds
    lent,    \* what each caller was given
    doomed   \* to be killed

vars == <<warm, idle, taken, lent, doomed>>

Free == Sandbox \ (warm \cup idle \cup doomed
                        \cup (UNION {taken[c] : c \in Caller})
                        \cup (UNION {lent[c] : c \in Caller}))

\* A sandbox is in one place, and with one caller.
Exclusive ==
    /\ \A c \in Caller : (taken[c] \cup lent[c]) \cap (warm \cup idle \cup doomed) = {}
    /\ \A c \in Caller : taken[c] \cap lent[c] = {}
    /\ \A c, d \in Caller : c # d => (taken[c] \cup lent[c]) \cap (taken[d] \cup lent[d]) = {}
    /\ warm \cap idle = {} /\ warm \cap doomed = {} /\ idle \cap doomed = {}

Init ==
    /\ warm = {} /\ idle = {} /\ doomed = {}
    /\ taken = [c \in Caller |-> {}]
    /\ lent = [c \in Caller |-> {}]

\* Where a sandbox that is new in a place may come from.  Several sandboxes may
\* move in one step, and any of them may disappear.
Next ==
    /\ Exclusive'
    /\ warm' \ warm \subseteq Free
    /\ idle' \ idle \subseteq warm
    /\ \A c \in Caller : taken'[c] \ taken[c] \subseteq idle \cup Free
    /\ \A c \in Caller : lent'[c] \ lent[c] \subseteq taken[c]
    /\ doomed' \ doomed \subseteq idle \cup UNION {taken[c] : c \in Caller}

Spec == Init /\ [][Next]_vars
=============================================================================
