---------------------------- MODULE MCUserCode -----------------------------
(***************************************************************************)
(* Code of the program that runs inside the library's: a behaviour is      *)
(* about owners of external bytes, about a cord that is written to byte by *)
(* byte, or about one that is deserialized from a sequence.                *)
(***************************************************************************)
EXTENDS ExternalOwner, ByteSinks, SeqVisitor, TLC

VARIABLE about   \* "owners", "sinks" or "sequence"

mcVars == <<ownerVars, sinkVars, visitVars, about>>

MCInit ==
    /\ OwnerInit /\ SinkInit /\ VisitInit
    /\ \/ about \in {"owners", "sinks"} /\ hint = NoHint
       \/ about = "sequence"

MCNext ==
    /\ UNCHANGED about
    /\ \/ about = "owners" /\ OwnerNext /\ UNCHANGED <<sinkVars, visitVars>>
       \/ about = "sinks" /\ SinkNext /\ UNCHANGED <<ownerVars, visitVars>>
       \/ about = "sequence" /\ VisitNext /\ UNCHANGED <<ownerVars, sinkVars>>

MCSpec == MCInit /\ [][MCNext]_mcVars

TwoBytes == <<1, 2>>

(* Owners of one kind, leaves and variables are interchangeable. *)
Symmetry ==
    Permutations(UserOwners) \cup Permutations(Leaves) \cup Permutations(Vars)
=============================================================================
