------------------------------ MODULE MCBytes ------------------------------
(***************************************************************************)
(* How bytes are stored and compared: a behaviour edits two inline values, *)
(* allocates and frees one flat, or runs one search, over all small byte   *)
(* strings, needles and ways to cut them.                                  *)
(***************************************************************************)
EXTENDS CordSearch, MCFlatSizing

CONSTANTS MaxHaystack, MaxShort   \* bounds on lengths

VARIABLE part   \* what this behaviour is about

Strings(k) == [1..k -> {0, 1}]

Trees(n) ==
    UNION {[bytes : Strings(k), cuts : SUBSET (1..(k - 1)), rep : {"tree"}] : k \in 1..n}

Uncut(n, rep) == UNION {[bytes : Strings(k), cuts : {{}}, rep : {rep}] : k \in 0..n}

ShortCords == Trees(MaxShort) \cup Uncut(MaxShort, "inline")

(* The argument of hash, and of the search that stands still in a          *)
(* behaviour about something else                                          *)
Idle == [bytes |-> <<>>, cuts |-> {}, rep |-> "inline"]

(***************************************************************************)
(* Every method on short operands of every kind, and find in longer cords  *)
(* of needles that begin with a 1: find only compares bytes for equality,  *)
(* so that 0 and 1 may be exchanged.                                       *)
(***************************************************************************)
SomeSearches ==
    [lhs : ShortCords, rhs : ShortCords \cup Uncut(MaxShort, "slice"),
     call : {"find", "compare", "equals", "starts_with", "ends_with"}]
    \cup
    [lhs : {c \in Trees(MaxHaystack) : Len(c.bytes) > MaxShort},
     rhs : {c \in Trees(MaxShort) : c.bytes[1] = 1},
     call : {"find"}]
    \cup
    [lhs : Trees(MaxShort + 1), rhs : {Idle}, call : {"hash"}]

SomeInputs == {<<>>, <<0>>, <<1>>, <<2, 0>>, <<1, 2, 0>>}

(* small_memmove at its real width copies all its bytes and, if asked to,  *)
(* clears the rest of a tail that was in use.                              *)
ASSUME MemmoveExact ==
    \A n \in 0..15, nullify \in BOOLEAN :
       SmallMemmove(8, [i \in 1..15 |-> 99], 0, [i \in 1..n |-> i], nullify) =
          [i \in 1..15 |-> IF i <= n THEN i ELSE IF nullify THEN 0 ELSE 99]

MCInit ==
    /\ InlineInit /\ SizingInit /\ SearchInit
    /\ \/ part = "search"
       \/ part \in {"inline", "flat"} /\ lhs = Idle /\ rhs = Idle /\ call = "find"

EditInline == part = "inline" /\ InlineNext /\ UNCHANGED <<sizingVars, searchVars, part>>

UseFlat == part = "flat" /\ SizingNext /\ UNCHANGED <<inlineVars, searchVars, part>>

RunSearch == part = "search" /\ SearchNext /\ UNCHANGED <<inlineVars, sizingVars, part>>

MCNext == EditInline \/ UseFlat \/ RunSearch

mcVars == <<inlineVars, sizingVars, searchVars, part>>

MCSpec == MCInit /\ [][MCNext]_mcVars /\ WF_mcVars(RunSearch)

(* A search that was begun ends. *)
EverySearchEnds == part = "search" => SearchEnds
=============================================================================
