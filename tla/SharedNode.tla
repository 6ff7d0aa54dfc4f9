----------------------------- MODULE SharedNode -----------------------------
(***************************************************************************)
(* What the reference count of a rep node promises those who hold          *)
(* references to it (src/src/rep.rs: OwnedRep, RepRef, UniqueRep): as long *)
(* as there is a reference the node lives, exclusive access is granted to  *)
(* the sole holder of the sole reference and everybody else waits until it *)
(* ends, and the node is freed once, when no reference is left.  There is  *)
(* no count here, no atomic and no memory order: how the promise is kept   *)
(* is CordRefcount's matter.                                               *)
(***************************************************************************)
CONSTANTS
    Threads,    \* the threads that may hold references
    Refs,       \* identities for the references
    NoThread    \* nobody

VARIABLES
    holders,    \* the threads that each reference is within reach of
    exclusive,  \* the thread that may write to the node, if there is one
    freed       \* the node is gone

vars == <<holders, exclusive, freed>>

(* Nobody has reference r. *)
Gone(r) == holders[r] = {}

(* r is the only reference there is, and only t can reach it. *)
Sole(t, r) == holders = [q \in Refs |-> IF q = r THEN {t} ELSE {}]

(* The node is there and nobody writes to it. *)
Shared == ~freed /\ exclusive = NoThread

Init ==
    /\ \E t \in Threads, r \in Refs : Sole(t, r)
    /\ exclusive = NoThread /\ freed = FALSE

-----------------------------------------------------------------------------
(* A new reference comes from one within reach. *)
Clone(t, r, n) ==
    /\ Shared
    /\ t \in holders[r] /\ Gone(n)
    /\ holders' = [holders EXCEPT ![n] = {t}]
    /\ UNCHANGED <<exclusive, freed>>

(* Its sole holder gives up a reference, and with it the exclusive access  *)
(* it may have had.                                                        *)
Release(t, r) ==
    /\ ~freed /\ exclusive \in {NoThread, t}
    /\ holders[r] = {t}
    /\ holders' = [holders EXCEPT ![r] = {}]
    /\ exclusive' = NoThread
    /\ UNCHANGED freed

(* A reference moves to another thread. *)
Move(t, r, u) ==
    /\ Shared
    /\ holders[r] = {t} /\ t # u
    /\ holders' = [holders EXCEPT ![r] = {u}]
    /\ UNCHANGED <<exclusive, freed>>

(* It is lent to another thread, and given back. *)
Borrow(t, r, u) ==
    /\ Shared
    /\ t \in holders[r] /\ u \notin holders[r]
    /\ holders' = [holders EXCEPT ![r] = @ \cup {u}]
    /\ UNCHANGED <<exclusive, freed>>

GiveBack(t, r, u) ==
    /\ Shared
    /\ {t, u} \subseteq holders[r] /\ t # u
    /\ holders' = [holders EXCEPT ![r] = @ \ {u}]
    /\ UNCHANGED <<exclusive, freed>>

(* Exclusive access begins, and ends. *)
BeginExclusive(t, r) ==
    /\ Shared
    /\ Sole(t, r)
    /\ exclusive' = t
    /\ UNCHANGED <<holders, freed>>

EndExclusive ==
    /\ ~freed /\ exclusive # NoThread
    /\ exclusive' = NoThread
    /\ UNCHANGED <<holders, freed>>

(* Nobody has a reference: the node goes. *)
Free ==
    /\ Shared
    /\ \A r \in Refs : Gone(r)
    /\ freed' = TRUE
    /\ UNCHANGED <<holders, exclusive>>

Next ==
    \/ EndExclusive
    \/ Free
    \/ \E t \in Threads, r \in Refs : Release(t, r) \/ BeginExclusive(t, r)
    \/ \E t \in Threads, r, n \in Refs : Clone(t, r, n)
    \/ \E t, u \in Threads, r \in Refs : Move(t, r, u) \/ Borrow(t, r, u) \/ GiveBack(t, r, u)

Spec == Init /\ [][Next]_vars
=============================================================================
