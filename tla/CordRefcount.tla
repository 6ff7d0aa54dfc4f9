---------------------------- MODULE CordRefcount ----------------------------
(***************************************************************************)
(* The reference count of ONE rep node (src/src/rep.rs: Refcount, RepPtr,  *)
(* ref_rep, unref, OwnedRep, RepRef, UniqueRep) shared by several threads. *)
(*                                                                         *)
(* References are individuals, so that the stored count can be compared    *)
(* with the references that exist, and a reference is owned by a thread    *)
(* (an OwnedRep, or a Cord whose root the node is) and may be lent to      *)
(* other threads (&Cord, RepRef).  Memory ordering is explicit:            *)
(*                                                                         *)
(*  - unseen[t] holds the accesses to the node's plain fields that do not  *)
(*    happen before t's next step;                                         *)
(*  - unseenMsg holds the accesses that the latest value of the atomic     *)
(*    does not carry, i.e. that an acquire read of it would not order;     *)
(*  - stale[t] holds the outdated counts a LOAD of t may still return      *)
(*    (a read-modify-write always sees the latest one).                    *)
(*                                                                         *)
(* An acquire read of the latest value intersects unseen[t] with           *)
(* unseenMsg, a release write intersects unseenMsg with unseen[t], and a   *)
(* relaxed read-modify-write leaves both alone (it only continues the      *)
(* release sequence).  A load that returns an outdated count is taken not  *)
(* to synchronise at all, the weakest thing it may do.                     *)
(***************************************************************************)
EXTENDS Integers, FiniteSets

CONSTANTS
    Threads,   \* the threads that hold or borrow references
    Refs,      \* identities for the references (a bound on how many exist)
    NoThread,  \* the owner of a reference that does not exist
    NoRef,     \* the reference of a thread that is inside no operation
    Limit,     \* the count from which increment aborts: (i32::MAX / 3)
    Wrap       \* the first count the i32 cannot store: 2^30

ASSUME ThreadsAssumption == IsFiniteSet(Threads) /\ NoThread \notin Threads
ASSUME RefsAssumption == IsFiniteSet(Refs) /\ NoRef \notin Refs

(***************************************************************************)
(* The real values are Limit = 715827882 and Wrap = 1073741824: the room   *)
(* between them exceeds the number of threads any machine runs.            *)
(***************************************************************************)
ASSUME WidthAssumption ==
    /\ Limit \in Nat \ {0}
    /\ Wrap \in Nat
    /\ Limit + Cardinality(Threads) < Wrap

VARIABLES
    owner,      \* the thread that owns each reference
    lent,       \* the threads each reference is lent to
    rc,         \* the count stored in the node
    alive,      \* the node's memory is allocated
    aborted,    \* the process has aborted
    pc,         \* where each thread is in the code
    arg,        \* the reference the thread's operation is about
    unseen,
    unseenMsg,
    stale

vars == <<owner, lent, rc, alive, aborted, pc, arg, unseen, unseenMsg, stale>>

-----------------------------------------------------------------------------
Access == Threads \X {"read", "write"}

Counts == (-Wrap)..(Wrap - 1)

PCs == {"idle", "sub", "destroy", "unique", "overflow"}

Live == {r \in Refs : owner[r] # NoThread}

(* The threads through which reference r is reachable. *)
Group(r) == {owner[r]} \cup lent[r]

Owns(t, r) == owner[r] = t /\ lent[r] = {}

TypeOK ==
    /\ owner \in [Refs -> Threads \cup {NoThread}]
    /\ lent \in [Refs -> SUBSET Threads]
    /\ rc \in Counts
    /\ alive \in BOOLEAN
    /\ aborted \in BOOLEAN
    /\ pc \in [Threads -> PCs]
    /\ arg \in [Threads -> Refs \cup {NoRef}]
    /\ unseen \in [Threads -> SUBSET Access]
    /\ unseenMsg \in SUBSET Access
    /\ stale \in [Threads -> SUBSET Counts]

(***************************************************************************)
(* CordRep::new: thread t0 has written the node and holds the only         *)
(* reference.                                                              *)
(***************************************************************************)
Init ==
    \E t0 \in Threads, r0 \in Refs :
        /\ owner = [r \in Refs |-> IF r = r0 THEN t0 ELSE NoThread]
        /\ lent = [r \in Refs |-> {}]
        /\ rc = 1
        /\ alive = TRUE
        /\ aborted = FALSE
        /\ pc = [t \in Threads |-> "idle"]
        /\ arg = [t \in Threads |-> NoRef]
        /\ unseen = [t \in Threads |-> IF t = t0 THEN {} ELSE {<<t0, "write">>}]
        /\ unseenMsg = {<<t0, "write">>}
        /\ stale = [t \in Threads |-> {}]

-----------------------------------------------------------------------------
Idle(t) == ~aborted /\ pc[t] = "idle"

(* A plain access of kind k by t: nobody else has it in view yet. *)
Touch(t, k) ==
    /\ unseen' = [u \in Threads |->
                    IF u = t THEN unseen[u] ELSE unseen[u] \cup {<<t, k>>}]
    /\ unseenMsg' = unseenMsg \cup {<<t, k>>}

(* Mutant: the load is relaxed. *)
LoadRelaxed(t, v) ==
    /\ v = rc \/ v \in stale[t]
    /\ UNCHANGED <<unseen, stale>>

(* load(Acquire): t reads v. *)
LoadAcquire(t, v) ==
    \/ /\ v = rc
       /\ unseen' = [unseen EXCEPT ![t] = @ \cap unseenMsg]
       /\ stale' = [stale EXCEPT ![t] = {}]
    \/ /\ v \in stale[t]
       /\ UNCHANGED <<unseen, stale>>

(* The old count becomes one the other threads' loads may still return. *)
Overwrite(t) ==
    stale' = [u \in Threads |-> IF u = t THEN {} ELSE stale[u] \cup {rc}]

(* The i32's arithmetic. *)
WrapAround(n) == IF n = Wrap THEN -Wrap ELSE n

(* Mutant: a load and a store instead of one atomic step. *)
FetchSubTorn(t, r) ==
    /\ \E v \in stale[t] \cup {rc} : rc' = v - 1
    /\ Overwrite(t)
    /\ unseen' = [unseen EXCEPT ![t] = @ \cap unseenMsg]
    /\ unseenMsg' = unseenMsg \cap unseen[t]
    /\ owner' = [owner EXCEPT ![r] = NoThread]
    /\ pc' = [pc EXCEPT ![t] = IF rc' = 0 THEN "destroy" ELSE "idle"]
    /\ arg' = [arg EXCEPT ![t] = NoRef]
    /\ UNCHANGED <<lent, alive, aborted>>

(* Mutant: the ordering is Release, without the acquire. *)
FetchSubRelease(t, r) ==
    /\ rc' = rc - 1
    /\ Overwrite(t)
    /\ unseenMsg' = unseenMsg \cap unseen[t]
    /\ owner' = [owner EXCEPT ![r] = NoThread]
    /\ pc' = [pc EXCEPT ![t] = IF rc = 1 THEN "destroy" ELSE "idle"]
    /\ arg' = [arg EXCEPT ![t] = NoRef]
    /\ UNCHANGED <<lent, alive, aborted, unseen>>

(* Mutant: the value returned, the old one, is compared with zero. *)
FetchSubOldValue(t, r) ==
    /\ rc' = rc - 1
    /\ Overwrite(t)
    /\ unseen' = [unseen EXCEPT ![t] = @ \cap unseenMsg]
    /\ unseenMsg' = unseenMsg \cap unseen[t]
    /\ owner' = [owner EXCEPT ![r] = NoThread]
    /\ pc' = [pc EXCEPT ![t] = IF rc = 0 THEN "destroy" ELSE "idle"]
    /\ arg' = [arg EXCEPT ![t] = NoRef]
    /\ UNCHANGED <<lent, alive, aborted>>

(* fetch_sub(REF_INCREMENT, AcqRel), and the test of the value it returns. *)
FetchSub(t, r) ==
    /\ rc' = rc - 1
    /\ Overwrite(t)
    /\ unseen' = [unseen EXCEPT ![t] = @ \cap unseenMsg]
    /\ unseenMsg' = unseenMsg \cap unseen[t]
    /\ owner' = [owner EXCEPT ![r] = NoThread]
    /\ pc' = [pc EXCEPT ![t] = IF rc = 1 THEN "destroy" ELSE "idle"]
    /\ arg' = [arg EXCEPT ![t] = NoRef]
    /\ UNCHANGED <<lent, alive, aborted>>

(* Mutant: the count is not compared with the limit. *)
IncrementUnlimited(t, r, n) ==
    /\ Idle(t)
    /\ r \in Live /\ t \in Group(r)
    /\ n \notin Live
    /\ rc' = WrapAround(rc + 1)
    /\ Overwrite(t)
    /\ owner' = [owner EXCEPT ![n] = t]
    /\ UNCHANGED <<lent, alive, aborted, pc, arg, unseen, unseenMsg>>

(***************************************************************************)
(* ref_rep, OwnedRep::clone, RepRef::to_owned: t clones a reference it can *)
(* reach into the fresh reference n.  fetch_add is relaxed; the abort is a *)
(* separate step, which other threads' increments may precede.             *)
(***************************************************************************)
Increment(t, r, n) ==
    /\ Idle(t)
    /\ r \in Live /\ t \in Group(r)
    /\ n \notin Live
    /\ rc' = WrapAround(rc + 1)
    /\ Overwrite(t)
    /\ owner' = [owner EXCEPT ![n] = t]
    /\ pc' = [pc EXCEPT ![t] = IF rc >= Limit THEN "overflow" ELSE "idle"]
    /\ UNCHANGED <<lent, alive, aborted, arg, unseen, unseenMsg>>

(* increment_overflow, abort *)
Abort(t) ==
    /\ ~aborted
    /\ pc[t] = "overflow"
    /\ aborted' = TRUE
    /\ UNCHANGED <<owner, lent, rc, alive, pc, arg, unseen, unseenMsg, stale>>

(* Mutant: the shortcut is taken at two references. *)
DecrementLoadEarly(t, r) ==
    /\ Idle(t)
    /\ Owns(t, r)
    /\ \E v \in Counts :
         /\ LoadAcquire(t, v)
         /\ IF v <= 2
            THEN /\ pc' = [pc EXCEPT ![t] = "destroy"]
                 /\ owner' = [owner EXCEPT ![r] = NoThread]
                 /\ arg' = arg
            ELSE /\ pc' = [pc EXCEPT ![t] = "sub"]
                 /\ arg' = [arg EXCEPT ![t] = r]
                 /\ owner' = owner
    /\ UNCHANGED <<lent, rc, alive, aborted, unseenMsg>>

(***************************************************************************)
(* Refcount::decrement, first step: a load, which at one skips the RMW and *)
(* destroys.                                                               *)
(***************************************************************************)
DecrementLoad(t, r) ==
    /\ Idle(t)
    /\ Owns(t, r)
    /\ \E v \in Counts :
         /\ LoadAcquire(t, v)
         /\ IF v = 1
            THEN /\ pc' = [pc EXCEPT ![t] = "destroy"]
                 /\ owner' = [owner EXCEPT ![r] = NoThread]
                 /\ arg' = arg
            ELSE /\ pc' = [pc EXCEPT ![t] = "sub"]
                 /\ arg' = [arg EXCEPT ![t] = r]
                 /\ owner' = owner
    /\ UNCHANGED <<lent, rc, alive, aborted, unseenMsg>>

(* Refcount::decrement, second step. *)
DecrementSub(t) ==
    /\ ~aborted
    /\ pc[t] = "sub"
    /\ FetchSub(t, arg[t])

(* unref: Refcount::decrement_expect_high_refcount *)
DecrementExpectHigh(t, r) ==
    /\ Idle(t)
    /\ Owns(t, r)
    /\ FetchSub(t, r)

(* destroy: the node's memory goes back to the allocator. *)
Destroy(t) ==
    /\ ~aborted
    /\ pc[t] = "destroy"
    /\ alive' = FALSE
    /\ pc' = [pc EXCEPT ![t] = "idle"]
    /\ UNCHANGED <<owner, lent, rc, aborted, arg, unseen, unseenMsg, stale>>

(* is_one, OwnedRep::try_unique *)
IsOne(t, r) ==
    /\ Idle(t)
    /\ Owns(t, r)
    /\ \E v \in Counts :
         /\ LoadAcquire(t, v)
         /\ IF v = 1
            THEN /\ pc' = [pc EXCEPT ![t] = "unique"]
                 /\ arg' = [arg EXCEPT ![t] = r]
            ELSE UNCHANGED <<pc, arg>>
    /\ UNCHANGED <<owner, lent, rc, alive, aborted, unseenMsg>>

(* UniqueRep::set_len, flat_spare_capacity_mut, ...: a write to the node. *)
Mutate(t) ==
    /\ ~aborted
    /\ pc[t] = "unique"
    /\ Touch(t, "write")
    /\ UNCHANGED <<owner, lent, rc, alive, aborted, pc, arg, stale>>

(* The exclusive borrow ends and the reference goes on living. *)
EndUnique(t) ==
    /\ ~aborted
    /\ pc[t] = "unique"
    /\ pc' = [pc EXCEPT ![t] = "idle"]
    /\ arg' = [arg EXCEPT ![t] = NoRef]
    /\ UNCHANGED <<owner, lent, rc, alive, aborted, unseen, unseenMsg, stale>>

(***************************************************************************)
(* The exclusive owner takes the node apart and frees it without touching  *)
(* its count, as CordRepBtree::merge, consume_begin_to and extract_front   *)
(* do.                                                                     *)
(***************************************************************************)
Consume(t) ==
    /\ ~aborted
    /\ pc[t] = "unique"
    /\ owner' = [owner EXCEPT ![arg[t]] = NoThread]
    /\ pc' = [pc EXCEPT ![t] = "destroy"]
    /\ arg' = [arg EXCEPT ![t] = NoRef]
    /\ UNCHANGED <<lent, rc, alive, aborted, unseen, unseenMsg, stale>>

(* RepRef::len, data, view: a read through a reference t can reach. *)
Read(t, r) ==
    /\ Idle(t)
    /\ r \in Live /\ t \in Group(r)
    /\ Touch(t, "read")
    /\ UNCHANGED <<owner, lent, rc, alive, aborted, pc, arg, stale>>

(* unsafe impl Send: the reference moves to another thread. *)
Send(t, r, u) ==
    /\ Idle(t) /\ Idle(u) /\ t # u
    /\ Owns(t, r)
    /\ owner' = [owner EXCEPT ![r] = u]
    /\ unseen' = [unseen EXCEPT ![u] = @ \cap unseen[t]]
    /\ stale' = [stale EXCEPT ![u] = @ \cap stale[t]]
    /\ UNCHANGED <<lent, rc, alive, aborted, pc, arg, unseenMsg>>

(* unsafe impl Sync: the owner shares &Cord with another thread. *)
Lend(t, r, u) ==
    /\ Idle(t) /\ Idle(u) /\ t # u
    /\ owner[r] = t /\ u \notin lent[r]
    /\ lent' = [lent EXCEPT ![r] = @ \cup {u}]
    /\ unseen' = [unseen EXCEPT ![u] = @ \cap unseen[t]]
    /\ stale' = [stale EXCEPT ![u] = @ \cap stale[t]]
    /\ UNCHANGED <<owner, rc, alive, aborted, pc, arg, unseenMsg>>

(* The borrow ends: what the borrower did happens before the owner's next step. *)
EndLend(t, r, u) ==
    /\ Idle(t) /\ Idle(u)
    /\ owner[r] = t /\ u \in lent[r]
    /\ lent' = [lent EXCEPT ![r] = @ \ {u}]
    /\ unseen' = [unseen EXCEPT ![t] = @ \cap unseen[u]]
    /\ stale' = [stale EXCEPT ![t] = @ \cap stale[u]]
    /\ UNCHANGED <<owner, rc, alive, aborted, pc, arg, unseenMsg>>

Next ==
    \/ \E t \in Threads :
         Abort(t) \/ DecrementSub(t) \/ Destroy(t) \/ Mutate(t) \/ EndUnique(t) \/ Consume(t)
    \/ \E t \in Threads, r \in Refs :
         DecrementLoad(t, r) \/ DecrementExpectHigh(t, r) \/ IsOne(t, r) \/ Read(t, r)
    \/ \E t \in Threads, r, n \in Refs : Increment(t, r, n)
    \/ \E t, u \in Threads, r \in Refs :
         Send(t, r, u) \/ Lend(t, r, u) \/ EndLend(t, r, u)

Spec == Init /\ [][Next]_vars

(***************************************************************************)
(* Nothing in a drop waits for another thread, so a thread that has begun  *)
(* one finishes it.  Starting one is the program's choice.                 *)
(***************************************************************************)
FairSpec ==
    /\ Spec
    /\ \A t \in Threads : WF_vars(DecrementSub(t)) /\ WF_vars(Destroy(t))

-----------------------------------------------------------------------------
(* As long as a reference exists the stored count is the number of         *)
(* references, no matter how clones and drops of several threads           *)
(* interleave with the two-step decrement and the late overflow abort.     *)
RefcountExact == Live # {} => rc = Cardinality(Live)

(* No reference outlives the node: while one exists the memory is          *)
(* allocated and no thread has decided to free it (rep.rs: unref, destroy).*)
NoUseAfterFree ==
    Live # {} => alive /\ \A t \in Threads : pc[t] # "destroy"

(* Between is_one returning true and the end of the exclusive borrow no    *)
(* other reference or borrow of the node appears, and every earlier access *)
(* of every thread happens before the mutation (the acquire in is_one).    *)
UniqueIsExclusive ==
    \A t \in Threads : pc[t] = "unique" =>
        /\ Live = {arg[t]} /\ Group(arg[t]) = {t}
        /\ unseen[t] = {}

(* The thread that frees the node is the only one to do so, and every      *)
(* access of every thread happens before the free (the AcqRel in           *)
(* decrement).                                                             *)
DestroyIsExclusive ==
    \A t \in Threads : pc[t] = "destroy" =>
        /\ alive /\ Live = {}
        /\ \A u \in Threads \ {t} : pc[u] = "idle"
        /\ unseen[t] = {}

(* The count never reaches the width of the i32, although the abort comes  *)
(* only after the increment and every thread may be late with it.          *)
NeverWraps == Live # {} => rc >= 1 /\ rc < Wrap

(* A node without references is freed, once its last dropper runs on.      *)
NoLeak == (Live = {}) ~> (~alive \/ aborted)

-----------------------------------------------------------------------------
(* Who can reach each reference, and who writes to the node. *)
Holders == [r \in Refs |-> IF r \in Live THEN Group(r) ELSE {}]

Writers == {t \in Threads : pc[t] = "unique"}

Writer == IF Writers = {} THEN NoThread ELSE CHOOSE t \in Writers : TRUE

Node == INSTANCE SharedNode
            WITH holders <- Holders, exclusive <- Writer, freed <- ~alive

(***************************************************************************)
(* The count, its two-step decrement and its orderings keep the promise of *)
(* SharedNode: a step of a thread is one of its steps or invisible there.  *)
(* In particular no reference is cloned, moved or lent while another       *)
(* thread writes, and the node is freed once and after the last reference. *)
(***************************************************************************)
SharedNodeKept == Node!Spec

(* Nothing happens to a freed node: no count is read or written and no     *)
(* field is touched after destroy, by any thread.                          *)
QuietAfterFree == [][alive]_vars

-----------------------------------------------------------------------------
(***************************************************************************)
(* The inductive invariant.                                                *)
(***************************************************************************)

(* A thread that can reach the node has every write to it in view.  The    *)
(* hand-over of safe Rust (Send, Lend) brings that about, not an ordering  *)
(* of this crate: a writer is the only holder, so any other holder has its *)
(* reference from it.                                                      *)
ReadsAreOrdered ==
    \A r \in Live : \A t \in Group(r), w \in Threads : <<w, "write">> \notin unseen[t]

(* An unreferenced node is lent to nobody, and the owner does not borrow. *)
LendingInv ==
    /\ \A r \in Refs : owner[r] = NoThread => lent[r] = {}
    /\ \A r \in Refs : owner[r] \notin lent[r]

(* A thread inside an operation owns the reference it is about. *)
OperationInv ==
    /\ \A t \in Threads : pc[t] \in {"sub", "unique"} =>
           arg[t] \in Refs /\ Owns(t, arg[t])
    /\ \A t \in Threads : pc[t] = "overflow" => \E r \in Refs : owner[r] = t
    /\ (Live = {} /\ alive) => \E t \in Threads : pc[t] = "destroy"

(* No reference's holders could still take an outdated count for one. *)
StaleInv ==
    \A r \in Live : \E t \in Group(r) : 1 \notin stale[t]

(* A thread has its own accesses in view. *)
SelfInv == \A t \in Threads, k \in {"read", "write"} : <<t, k>> \notin unseen[t]

(* Every access is in view of the latest count or of a holder. *)
ViewInv ==
    Live # {} => \A a \in Access :
        \/ a \notin unseenMsg
        \/ \E r \in Live : \E t \in Group(r) : a \notin unseen[t]

Aborting == {t \in Threads : pc[t] = "overflow"}

(* Each count beyond the limit is due to a thread about to abort. *)
WidthInv == Live # {} => rc <= Limit + Cardinality(Aborting)

IInv ==
    /\ TypeOK
    /\ RefcountExact
    /\ NoUseAfterFree
    /\ UniqueIsExclusive
    /\ DestroyIsExclusive
    /\ ReadsAreOrdered
    /\ LendingInv
    /\ OperationInv
    /\ StaleInv
    /\ SelfInv
    /\ ViewInv
    /\ WidthInv
=============================================================================
