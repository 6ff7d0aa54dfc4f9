------------------------- MODULE CordRefcountProofs -------------------------
(***************************************************************************)
(* Proofs about CordRefcount for any number of threads and references.     *)
(* IInv is inductive; the safety properties of CordRefcount follow.        *)
(***************************************************************************)
EXTENDS CordRefcount, FiniteSetTheorems, TLAPS

(* The references that exist are finitely many.                            *)
LEMMA LiveFinite == IsFiniteSet(Live) /\ Cardinality(Live) \in Nat
<1>1. Live \subseteq Refs
  BY DEF Live
<1>2. QED
  BY <1>1, RefsAssumption, FS_Subset, FS_CardinalityType

(* So are the threads about to abort, of which the width has room for all. *)
LEMMA AbortingFinite ==
  /\ IsFiniteSet(Aborting)
  /\ Cardinality(Aborting) \in Nat
  /\ Cardinality(Threads) \in Nat
  /\ Cardinality(Aborting) <= Cardinality(Threads)
<1>1. Aborting \subseteq Threads
  BY DEF Aborting
<1>2. QED
  BY <1>1, ThreadsAssumption, FS_Subset, FS_CardinalityType

(* A count of one leaves no room for a second reference.                   *)
LEMMA SoleReference ==
  ASSUME RefcountExact, rc = 1, NEW r \in Live
  PROVE  Live = {r}
<1>1. Cardinality(Live) = 1
  BY DEF RefcountExact
<1>2. IsFiniteSet(Live \ {r}) /\ Cardinality(Live \ {r}) = 0
  BY <1>1, LiveFinite, FS_RemoveElement
<1>3. Live \ {r} = {}
  BY <1>2, FS_EmptySet
<1>4. QED
  BY <1>3

(* The sole holder that has acquired the latest count has every access in  *)
(* view.                                                                   *)
LEMMA AcquireSeesAll ==
  ASSUME IInv, NEW t \in Threads, NEW r \in Refs, Live = {r}, Group(r) = {t}
  PROVE  unseen[t] \cap unseenMsg = {}
<1>1. unseen[t] \subseteq Access
  BY DEF IInv, TypeOK
<1>2. \A a \in Access : a \notin unseenMsg \/ a \notin unseen[t]
  BY DEF IInv, ViewInv
<1>3. QED
  BY <1>1, <1>2

(* A reference that is lent to nobody has its owner as its only holder,    *)
(* and no load of the owner can return an outdated one.                    *)
LEMMA OwnerLoads ==
  ASSUME IInv, NEW t \in Threads, NEW r \in Refs, Owns(t, r)
  PROVE  r \in Live /\ Group(r) = {t} /\ 1 \notin stale[t]
<1>1. r \in Live /\ Group(r) = {t}
  BY ThreadsAssumption DEF Owns, Live, Group
<1>2. QED
  BY <1>1 DEF IInv, StaleInv

(* IInv holds when a node is created.                                      *)
LEMMA InitIInv == Init => IInv
<1> SUFFICES ASSUME Init PROVE IInv
  OBVIOUS
<1>1. PICK t0 \in Threads, r0 \in Refs :
        /\ owner = [r \in Refs |-> IF r = r0 THEN t0 ELSE NoThread]
        /\ unseen = [t \in Threads |-> IF t = t0 THEN {} ELSE {<<t0, "write">>}]
        /\ unseenMsg = {<<t0, "write">>}
  BY DEF Init
<1>2. /\ lent = [r \in Refs |-> {}]
      /\ rc = 1
      /\ alive = TRUE
      /\ aborted = FALSE
      /\ pc = [t \in Threads |-> "idle"]
      /\ arg = [t \in Threads |-> NoRef]
      /\ stale = [t \in Threads |-> {}]
  BY DEF Init
<1>3. Live = {r0} /\ Group(r0) = {t0}
  BY <1>1, <1>2, ThreadsAssumption DEF Live, Group
<1>4. Cardinality(Live) = 1
  BY <1>3, FS_Singleton
<1>5. Cardinality(Threads) \in Nat /\ Cardinality(Aborting) \in Nat
  BY AbortingFinite
<1>6. TypeOK
  <2>1. rc \in Counts
    BY <1>2, <1>5, WidthAssumption DEF Counts
  <2>2. <<t0, "write">> \in Access
    BY DEF Access
  <2>3. QED
    BY <1>1, <1>2, <2>1, <2>2 DEF TypeOK, PCs
<1>7. RefcountExact
  BY <1>2, <1>4 DEF RefcountExact
<1>8. NoUseAfterFree /\ UniqueIsExclusive /\ DestroyIsExclusive
  BY <1>2 DEF NoUseAfterFree, UniqueIsExclusive, DestroyIsExclusive
<1>9. ReadsAreOrdered
  BY <1>1, <1>3 DEF ReadsAreOrdered
<1>10. LendingInv /\ OperationInv
  BY <1>2, <1>3 DEF LendingInv, OperationInv
<1>11. StaleInv
  BY <1>2, <1>3 DEF StaleInv
<1>12. ViewInv
  BY <1>1, <1>3 DEF ViewInv
<1>13. WidthInv
  BY <1>2, <1>5, WidthAssumption DEF WidthInv
<1>14. SelfInv
  BY <1>1 DEF SelfInv
<1>15. QED
  BY <1>6, <1>7, <1>8, <1>9, <1>10, <1>11, <1>12, <1>13, <1>14 DEF IInv

(* While a reference exists the count is at least one and fits the i32.    *)
LEMMA CountInRange ==
  ASSUME IInv, Live # {}
  PROVE  rc >= 1 /\ rc < Wrap
<1>1. rc = Cardinality(Live)
  BY DEF IInv, RefcountExact
<1>2. rc # 0
  BY <1>1, LiveFinite, FS_EmptySet
<1>3. rc <= Limit + Cardinality(Aborting)
  BY DEF IInv, WidthInv
<1>4. QED
  BY <1>1, <1>2, <1>3, LiveFinite, AbortingFinite, WidthAssumption

(* The abort stops the process and changes nothing else.                   *)
LEMMA AbortPreserves ==
  ASSUME IInv, NEW t \in Threads, Abort(t)
  PROVE  IInv'
<1>1. UNCHANGED <<owner, lent, rc, alive, pc, arg, unseen, unseenMsg, stale>> /\ aborted' \in BOOLEAN
  BY DEF Abort
<1>2. QED
  BY <1>1 DEF IInv, TypeOK, RefcountExact, NoUseAfterFree, UniqueIsExclusive,
     DestroyIsExclusive, ReadsAreOrdered, LendingInv, OperationInv, StaleInv,
     SelfInv, ViewInv, WidthInv, Live, Group, Owns, Aborting

(* A read by a holder is in view of that holder, and cannot happen while   *)
(* another thread is the exclusive owner.                                  *)
LEMMA ReadPreserves ==
  ASSUME IInv, NEW t \in Threads, NEW r \in Refs, Read(t, r)
  PROVE  IInv'
<1>1. /\ UNCHANGED <<owner, lent, rc, alive, aborted, pc, arg, stale>>
      /\ r \in Live /\ t \in Group(r) /\ pc[t] = "idle"
      /\ unseen' = [u \in Threads |-> IF u = t THEN unseen[u] ELSE unseen[u] \cup {<<t, "read">>}]
      /\ unseenMsg' = unseenMsg \cup {<<t, "read">>}
  BY DEF Read, Touch, Idle
<1>2. /\ Live' = Live
      /\ \A q \in Refs : Group(q)' = Group(q)
      /\ Aborting' = Aborting
  BY <1>1 DEF Live, Group, Aborting
<1>3. TypeOK'
  BY <1>1 DEF IInv, TypeOK, Access
<1>4. /\ RefcountExact' /\ NoUseAfterFree' /\ LendingInv' /\ OperationInv' /\ StaleInv'
      /\ WidthInv' /\ SelfInv'
  BY <1>1, <1>2 DEF IInv, RefcountExact, NoUseAfterFree, LendingInv, OperationInv,
     StaleInv, WidthInv, SelfInv, Owns, Live
<1>5. UniqueIsExclusive'
  <2> SUFFICES ASSUME NEW u \in Threads, pc[u] = "unique" PROVE FALSE
    BY <1>1 DEF UniqueIsExclusive
  <2>1. Live = {arg[u]} /\ Group(arg[u]) = {u}
    BY DEF IInv, UniqueIsExclusive
  <2>2. QED
    BY <1>1, <2>1
<1>6. DestroyIsExclusive'
  BY <1>1, <1>2 DEF IInv, DestroyIsExclusive, NoUseAfterFree
<1>7. ReadsAreOrdered'
  <2> SUFFICES ASSUME NEW q \in Live, NEW u \in Group(q), NEW w \in Threads
               PROVE  <<w, "write">> \notin unseen'[u]
    BY <1>2 DEF ReadsAreOrdered, Live
  <2>1. <<w, "write">> \notin unseen[u] /\ u \in Threads
    BY DEF IInv, ReadsAreOrdered, Live, Group, TypeOK
  <2>2. QED
    BY <1>1, <2>1
<1>8. ViewInv'
  <2> SUFFICES ASSUME NEW a \in Access
               PROVE  a \notin unseenMsg' \/ \E q \in Live : \E u \in Group(q) : a \notin unseen'[u]
    BY <1>2 DEF ViewInv, Live
  <2>1. CASE a = <<t, "read">>
    BY <1>1, <2>1 DEF IInv, SelfInv
  <2>2. CASE a # <<t, "read">>
    <3>1. a \notin unseenMsg \/ \E q \in Live : \E u \in Group(q) : a \notin unseen[u] /\ u \in Threads
      BY <1>1 DEF IInv, ViewInv, Live, Group, TypeOK
    <3>2. QED
      BY <1>1, <2>2, <3>1
  <2>3. QED
    BY <2>1, <2>2
<1>9. QED
  BY <1>3, <1>4, <1>5, <1>6, <1>7, <1>8 DEF IInv

(* A write by the exclusive owner is out of view of threads that hold no   *)
(* reference only.                                                         *)
LEMMA MutatePreserves ==
  ASSUME IInv, NEW t \in Threads, Mutate(t)
  PROVE  IInv'
<1>1. /\ UNCHANGED <<owner, lent, rc, alive, aborted, pc, arg, stale>>
      /\ pc[t] = "unique"
      /\ unseen' = [u \in Threads |-> IF u = t THEN unseen[u] ELSE unseen[u] \cup {<<t, "write">>}]
      /\ unseenMsg' = unseenMsg \cup {<<t, "write">>}
  BY DEF Mutate, Touch
<1>2. /\ Live' = Live
      /\ \A q \in Refs : Group(q)' = Group(q)
      /\ Aborting' = Aborting
  BY <1>1 DEF Live, Group, Aborting
<1>3. Live = {arg[t]} /\ Group(arg[t]) = {t} /\ arg[t] \in Refs /\ unseen[t] = {}
  BY <1>1 DEF IInv, UniqueIsExclusive, OperationInv
<1>4. unseen'[t] = {}
  BY <1>1, <1>3
<1>5. TypeOK'
  BY <1>1 DEF IInv, TypeOK, Access
<1>6. /\ RefcountExact' /\ NoUseAfterFree' /\ LendingInv' /\ OperationInv' /\ StaleInv'
      /\ WidthInv' /\ SelfInv'
  BY <1>1, <1>2 DEF IInv, RefcountExact, NoUseAfterFree, LendingInv, OperationInv,
     StaleInv, WidthInv, SelfInv, Owns, Live
<1>7. UniqueIsExclusive'
  <2> SUFFICES ASSUME NEW u \in Threads, pc[u] = "unique" PROVE u = t
    BY <1>1, <1>2, <1>3, <1>4 DEF UniqueIsExclusive
  <2>1. QED
    BY <1>3 DEF IInv, UniqueIsExclusive
<1>8. DestroyIsExclusive'
  BY <1>1, <1>2, <1>3 DEF IInv, DestroyIsExclusive
<1>9. ReadsAreOrdered' /\ ViewInv'
  BY <1>2, <1>3, <1>4 DEF ReadsAreOrdered, ViewInv
<1>10. QED
  BY <1>5, <1>6, <1>7, <1>8, <1>9 DEF IInv

(* Ending the exclusive borrow.                                            *)
LEMMA EndUniquePreserves ==
  ASSUME IInv, NEW t \in Threads, EndUnique(t)
  PROVE  IInv'
<1>1. /\ UNCHANGED <<owner, lent, rc, alive, aborted, unseen, unseenMsg, stale>>
      /\ pc[t] = "unique"
      /\ pc' = [pc EXCEPT ![t] = "idle"]
      /\ arg' = [arg EXCEPT ![t] = NoRef]
  BY DEF EndUnique
<1>2. /\ Live' = Live
      /\ \A q \in Refs : Group(q)' = Group(q)
      /\ Aborting' = Aborting
  BY <1>1 DEF IInv, TypeOK, Live, Group, Aborting
<1>3. Live = {arg[t]} /\ Group(arg[t]) = {t}
  BY <1>1 DEF IInv, UniqueIsExclusive
<1>4. TypeOK'
  BY <1>1 DEF IInv, TypeOK, PCs
<1>5. /\ RefcountExact' /\ NoUseAfterFree' /\ LendingInv' /\ OperationInv' /\ StaleInv'
      /\ WidthInv' /\ SelfInv'
  BY <1>1, <1>2, <1>3 DEF IInv, TypeOK, RefcountExact, NoUseAfterFree, LendingInv, OperationInv,
     StaleInv, WidthInv, SelfInv, Owns, Live
<1>6. UniqueIsExclusive'
  <2> SUFFICES ASSUME NEW u \in Threads, pc'[u] = "unique" PROVE u = t
    BY <1>1 DEF IInv, TypeOK, UniqueIsExclusive
  <2>1. pc[u] = "unique"
    BY <1>1 DEF IInv, TypeOK
  <2>2. QED
    BY <1>3, <2>1 DEF IInv, UniqueIsExclusive
<1>7. DestroyIsExclusive'
  BY <1>1, <1>2, <1>3 DEF IInv, TypeOK, DestroyIsExclusive
<1>8. ReadsAreOrdered' /\ ViewInv'
  BY <1>1, <1>2 DEF IInv, ReadsAreOrdered, ViewInv, Live
<1>9. QED
  BY <1>4, <1>5, <1>6, <1>7, <1>8 DEF IInv

(* While t owns the only reference no other thread is inside an operation. *)
LEMMA OthersAreIdle ==
  ASSUME IInv, NEW t \in Threads, NEW r \in Refs, Live = {r}, Owns(t, r)
  PROVE  \A u \in Threads \ {t} : pc[u] = "idle"
<1> SUFFICES ASSUME NEW u \in Threads \ {t} PROVE pc[u] = "idle"
  OBVIOUS
<1>1. \A q \in Refs : owner[q] = u => FALSE
  BY ThreadsAssumption DEF Live, Owns
<1>2. pc[u] \in PCs /\ pc[u] # "destroy"
  BY DEF IInv, TypeOK, NoUseAfterFree
<1>3. pc[u] \notin {"sub", "unique", "overflow"}
  BY <1>1 DEF IInv, OperationInv, Owns
<1>4. QED
  BY <1>2, <1>3 DEF PCs

(* The owner of the last reference gives it up and becomes the destroyer.  *)
LEMMA BecomesDestroyer ==
  ASSUME IInv, NEW t \in Threads, NEW r \in Refs, Live = {r}, Owns(t, r),
         owner' = [owner EXCEPT ![r] = NoThread],
         pc' = [pc EXCEPT ![t] = "destroy"],
         UNCHANGED <<lent, alive>>,
         unseen'[t] = {}, TypeOK', SelfInv'
  PROVE  IInv'
<1>1. Live' = {}
  BY DEF IInv, TypeOK, Live
<1>2. \A u \in Threads \ {t} : pc'[u] = "idle"
  BY OthersAreIdle DEF IInv, TypeOK
<1>3. pc'[t] = "destroy" /\ alive' /\ t \in Threads
  BY DEF IInv, TypeOK, NoUseAfterFree
<1>4. LendingInv'
  <2>1. NoThread \notin lent[r]
    BY ThreadsAssumption DEF IInv, TypeOK
  <2>2. QED
    BY <2>1 DEF IInv, TypeOK, LendingInv, Owns
<1>5. OperationInv' /\ UniqueIsExclusive' /\ DestroyIsExclusive'
  BY <1>1, <1>2, <1>3 DEF OperationInv, UniqueIsExclusive, DestroyIsExclusive
<1>6. RefcountExact' /\ NoUseAfterFree' /\ ReadsAreOrdered' /\ StaleInv' /\ ViewInv' /\ WidthInv'
  BY <1>1 DEF RefcountExact, NoUseAfterFree, ReadsAreOrdered, StaleInv, ViewInv, WidthInv
<1>7. QED
  BY <1>4, <1>5, <1>6 DEF IInv

(* Taking an exclusively owned node apart.                                 *)
LEMMA ConsumePreserves ==
  ASSUME IInv, NEW t \in Threads, Consume(t)
  PROVE  IInv'
<1>1. Live = {arg[t]} /\ arg[t] \in Refs /\ Owns(t, arg[t]) /\ unseen[t] = {}
  BY DEF Consume, IInv, UniqueIsExclusive, OperationInv
<1>2. TypeOK' /\ SelfInv'
  BY <1>1 DEF Consume, IInv, TypeOK, SelfInv, PCs
<1>3. QED
  BY <1>1, <1>2, BecomesDestroyer DEF Consume

(* Freeing the memory.                                                     *)
LEMMA DestroyPreserves ==
  ASSUME IInv, NEW t \in Threads, Destroy(t)
  PROVE  IInv'
<1>1. /\ UNCHANGED <<owner, lent, rc, aborted, arg, unseen, unseenMsg, stale>>
      /\ pc[t] = "destroy"
      /\ pc' = [pc EXCEPT ![t] = "idle"]
      /\ alive' = FALSE
  BY DEF Destroy
<1>2. Live = {} /\ Live' = {}
  BY <1>1 DEF IInv, DestroyIsExclusive, Live
<1>3. \A u \in Threads : pc'[u] = "idle"
  BY <1>1 DEF IInv, TypeOK, DestroyIsExclusive
<1>4. TypeOK'
  BY <1>1 DEF IInv, TypeOK, PCs
<1>5. UniqueIsExclusive' /\ DestroyIsExclusive' /\ OperationInv'
  BY <1>1, <1>3 DEF UniqueIsExclusive, DestroyIsExclusive, OperationInv
<1>6. /\ RefcountExact' /\ NoUseAfterFree' /\ ReadsAreOrdered' /\ StaleInv'
      /\ ViewInv' /\ WidthInv'
  BY <1>2 DEF RefcountExact, NoUseAfterFree, ReadsAreOrdered, StaleInv, ViewInv, WidthInv
<1>7. LendingInv' /\ SelfInv'
  BY <1>1 DEF IInv, LendingInv, SelfInv
<1>8. QED
  BY <1>4, <1>5, <1>6, <1>7 DEF IInv

(* The atomic subtraction: the owner's view passes to the count, and from  *)
(* the count to the thread that takes it to zero.                          *)
LEMMA FetchSubPreserves ==
  ASSUME IInv, NEW t \in Threads, NEW r \in Refs, Owns(t, r), FetchSub(t, r),
         pc[t] \in {"idle", "sub"}
  PROVE  IInv'
<1>1. r \in Live /\ Group(r) = {t}
  BY OwnerLoads
<1>2. rc >= 1 /\ rc < Wrap /\ rc \in Int
  BY <1>1, CountInRange DEF IInv, TypeOK, Counts
<1>3. TypeOK'
  <2>1. rc - 1 \in Counts /\ rc \in Counts
    BY <1>2, WidthAssumption DEF Counts
  <2>2. pc' \in [Threads -> PCs]
    BY DEF FetchSub, IInv, TypeOK, PCs
  <2>3. QED
    BY <2>1, <2>2 DEF FetchSub, Overwrite, IInv, TypeOK
<1>4. SelfInv'
  BY DEF FetchSub, IInv, TypeOK, SelfInv
<1>5. CASE rc = 1
  <2>1. Live = {r}
    BY <1>1, <1>5, SoleReference DEF IInv
  <2>2. unseen'[t] = {}
    BY <1>1, <2>1, AcquireSeesAll DEF FetchSub, IInv, TypeOK
  <2>3. pc' = [pc EXCEPT ![t] = "destroy"]
    BY <1>5 DEF FetchSub
  <2>4. QED
    BY <1>3, <1>4, <2>1, <2>2, <2>3, BecomesDestroyer DEF FetchSub
<1>6. CASE rc # 1
  <2>1. /\ pc' = [pc EXCEPT ![t] = "idle"]
        /\ owner' = [owner EXCEPT ![r] = NoThread]
        /\ lent' = lent /\ alive' = alive
        /\ arg' = [arg EXCEPT ![t] = NoRef]
        /\ rc' = rc - 1
        /\ stale' = [u \in Threads |-> IF u = t THEN {} ELSE stale[u] \cup {rc}]
        /\ unseen' = [unseen EXCEPT ![t] = @ \cap unseenMsg]
        /\ unseenMsg' = unseenMsg \cap unseen[t]
    BY <1>6 DEF FetchSub, Overwrite
  <2>2. Live' = Live \ {r} /\ \A q \in Live' : q \in Live /\ Group(q)' = Group(q)
    BY <2>1, ThreadsAssumption DEF IInv, TypeOK, Live, Group
  <2>3. \A q \in Live : Group(q) \subseteq Threads
    BY DEF IInv, TypeOK, Live, Group
  <2>4. \A u \in Threads : pc[u] # "unique" /\ pc[u] # "destroy"
    <3>1. Live # {r}
      <4> SUFFICES ASSUME Live = {r} PROVE FALSE
        OBVIOUS
      <4>1. Cardinality(Live) = 1
        BY FS_Singleton
      <4>2. QED
        BY <1>1, <1>6, <4>1 DEF IInv, RefcountExact
    <3>2. QED
      BY <1>1, <3>1 DEF IInv, UniqueIsExclusive, DestroyIsExclusive
  <2>5. \A u \in Threads : pc'[u] # "unique" /\ pc'[u] # "destroy"
    BY <2>1, <2>4 DEF IInv, TypeOK
  <2>6. RefcountExact'
    <3>1. rc = Cardinality(Live)
      BY <1>1 DEF IInv, RefcountExact
    <3>2. Cardinality(Live \ {r}) = Cardinality(Live) - 1
      BY <1>1, LiveFinite, FS_RemoveElement
    <3>3. QED
      BY <2>1, <2>2, <3>1, <3>2 DEF RefcountExact
  <2>7. alive /\ Live' # {}
    <3>1. alive
      BY <1>1 DEF IInv, NoUseAfterFree
    <3>2. Live # {r}
      <4> SUFFICES ASSUME Live = {r} PROVE FALSE
        OBVIOUS
      <4>1. Cardinality(Live) = 1
        BY FS_Singleton
      <4>2. QED
        BY <1>1, <1>6, <4>1 DEF IInv, RefcountExact
    <3>3. QED
      BY <1>1, <2>2, <3>1, <3>2
  <2>8. NoUseAfterFree' /\ UniqueIsExclusive' /\ DestroyIsExclusive'
    BY <2>1, <2>5, <2>7 DEF NoUseAfterFree, UniqueIsExclusive, DestroyIsExclusive
  <2>9. ReadsAreOrdered'
    BY <2>1, <2>2, <2>3 DEF IInv, TypeOK, ReadsAreOrdered
  <2>10. LendingInv'
    <3>1. NoThread \notin lent[r] /\ lent[r] = {}
      BY ThreadsAssumption DEF IInv, TypeOK, Owns
    <3>2. QED
      BY <2>1, <3>1 DEF IInv, TypeOK, LendingInv
  <2>11. OperationInv'
    <3>1. ASSUME NEW u \in Threads, pc'[u] \in {"sub", "unique"}
          PROVE  arg'[u] \in Refs /\ Owns(u, arg[u])'
      <4>1. u # t /\ pc[u] \in {"sub", "unique"}
        BY <2>1, <3>1 DEF IInv, TypeOK
      <4>2. arg'[u] = arg[u] /\ arg[u] \in Refs /\ Owns(u, arg[u])
        BY <2>1, <4>1 DEF IInv, TypeOK, OperationInv
      <4>3. arg[u] # r
        BY <4>1, <4>2 DEF Owns
      <4>4. QED
        BY <2>1, <4>2, <4>3 DEF IInv, TypeOK, Owns
    <3>2. ASSUME NEW u \in Threads, pc'[u] = "overflow"
          PROVE  \E q \in Refs : owner'[q] = u
      <4>1. u # t /\ pc[u] = "overflow"
        BY <2>1, <3>2 DEF IInv, TypeOK
      <4>2. PICK q \in Refs : owner[q] = u
        BY <4>1 DEF IInv, OperationInv
      <4>3. q # r
        BY <4>1, <4>2 DEF Owns
      <4>4. QED
        BY <2>1, <4>2, <4>3 DEF IInv, TypeOK
    <3>3. QED
      BY <2>7, <3>1, <3>2 DEF OperationInv
  <2>12. StaleInv'
    <3> SUFFICES ASSUME NEW q \in Live' PROVE \E u \in Group(q) : 1 \notin stale'[u]
      BY <2>2 DEF StaleInv
    <3>1. PICK u \in Group(q) : 1 \notin stale[u]
      BY <2>2 DEF IInv, StaleInv
    <3>2. QED
      BY <1>6, <2>1, <2>2, <2>3, <3>1
  <2>13. ViewInv'
    <3> SUFFICES ASSUME NEW a \in Access, a \in unseenMsg'
                 PROVE  \E q \in Live' : \E u \in Group(q)' : a \notin unseen'[u]
      BY DEF ViewInv
    <3>1. a \in unseenMsg /\ a \in unseen[t]
      BY <2>1
    <3>2. PICK q \in Live : \E u \in Group(q) : a \notin unseen[u]
      BY <1>1, <3>1 DEF IInv, ViewInv
    <3>3. q # r
      BY <1>1, <3>1, <3>2
    <3>4. QED
      BY <2>1, <2>2, <2>3, <3>2, <3>3 DEF IInv, TypeOK
  <2>14. WidthInv'
    <3>1. Aborting' = Aborting
      BY <2>1 DEF IInv, TypeOK, Aborting
    <3>2. QED
      BY <1>1, <1>2, <2>1, <3>1, AbortingFinite, WidthAssumption DEF IInv, WidthInv
  <2>15. QED
    BY <1>3, <1>4, <2>6, <2>8, <2>9, <2>10, <2>11, <2>12, <2>13, <2>14 DEF IInv
<1>7. QED
  BY <1>5, <1>6

(* The two ways the code gives a reference up with a subtraction.          *)
LEMMA DecrementSubPreserves ==
  ASSUME IInv, NEW t \in Threads, DecrementSub(t)
  PROVE  IInv'
<1>1. pc[t] = "sub" /\ arg[t] \in Refs /\ Owns(t, arg[t]) /\ FetchSub(t, arg[t])
  BY DEF DecrementSub, IInv, OperationInv
<1>2. QED
  BY <1>1, FetchSubPreserves

(* decrement_expect_high_refcount subtracts without the load.              *)
LEMMA DecrementExpectHighPreserves ==
  ASSUME IInv, NEW t \in Threads, NEW r \in Refs, DecrementExpectHigh(t, r)
  PROVE  IInv'
BY FetchSubPreserves DEF DecrementExpectHigh, Idle

(* An acquire load only widens the loading thread's view.                  *)
LEMMA LoadPreserves ==
  ASSUME IInv, NEW t \in Threads, NEW v, LoadAcquire(t, v),
         UNCHANGED <<owner, lent, rc, alive, aborted, pc, arg, unseenMsg>>
  PROVE  IInv'
<1>1. /\ unseen' \in [Threads -> SUBSET Access]
      /\ stale' \in [Threads -> SUBSET Counts]
      /\ \A u \in Threads : unseen'[u] \subseteq unseen[u] /\ stale'[u] \subseteq stale[u]
  BY DEF LoadAcquire, IInv, TypeOK
<1>2. /\ Live' = Live
      /\ \A q \in Refs : Group(q)' = Group(q)
      /\ Aborting' = Aborting
      /\ \A q \in Live : Group(q) \subseteq Threads
  BY DEF IInv, TypeOK, Live, Group, Aborting
<1>3. TypeOK'
  BY <1>1 DEF IInv, TypeOK
<1>4. /\ RefcountExact' /\ NoUseAfterFree' /\ LendingInv' /\ OperationInv' /\ WidthInv'
  BY <1>2 DEF IInv, RefcountExact, NoUseAfterFree, LendingInv, OperationInv, WidthInv, Owns
<1>5. UniqueIsExclusive' /\ DestroyIsExclusive'
  BY <1>1, <1>2 DEF IInv, UniqueIsExclusive, DestroyIsExclusive, OperationInv
<1>6. ReadsAreOrdered' /\ SelfInv'
  BY <1>1, <1>2 DEF IInv, ReadsAreOrdered, SelfInv, Live
<1>7. StaleInv'
  <2> SUFFICES ASSUME NEW q \in Live PROVE \E u \in Group(q) : 1 \notin stale'[u]
    BY <1>2 DEF StaleInv, Live
  <2>1. QED
    BY <1>1, <1>2 DEF IInv, StaleInv
<1>8. ViewInv'
  <2> SUFFICES ASSUME NEW a \in Access, Live # {}, a \in unseenMsg
               PROVE  \E q \in Live : \E u \in Group(q) : a \notin unseen'[u]
    BY <1>2 DEF ViewInv, Live
  <2>1. QED
    BY <1>1, <1>2 DEF IInv, ViewInv
<1>9. QED
  BY <1>3, <1>4, <1>5, <1>6, <1>7, <1>8 DEF IInv

(* What an owner's load tells: one means alone, with everything in view.   *)
LEMMA LoadOfOne ==
  ASSUME IInv, NEW t \in Threads, NEW r \in Refs, Owns(t, r), LoadAcquire(t, 1)
  PROVE  Live = {r} /\ unseen'[t] = {}
<1>1. r \in Live /\ Group(r) = {t} /\ 1 \notin stale[t]
  BY OwnerLoads
<1>2. rc = 1 /\ unseen' = [unseen EXCEPT ![t] = @ \cap unseenMsg]
  BY <1>1 DEF LoadAcquire
<1>3. Live = {r}
  BY <1>1, <1>2, SoleReference DEF IInv
<1>4. QED
  BY <1>1, <1>2, <1>3, AcquireSeesAll DEF IInv, TypeOK

(* The load of decrement: on one the thread becomes the destroyer, else it *)
(* goes on to the subtraction and nothing it relies on has changed.        *)
LEMMA DecrementLoadPreserves ==
  ASSUME IInv, NEW t \in Threads, NEW r \in Refs, DecrementLoad(t, r)
  PROVE  IInv'
<1>1. PICK v \in Counts :
         /\ LoadAcquire(t, v)
         /\ IF v = 1
            THEN /\ pc' = [pc EXCEPT ![t] = "destroy"]
                 /\ owner' = [owner EXCEPT ![r] = NoThread]
                 /\ arg' = arg
            ELSE /\ pc' = [pc EXCEPT ![t] = "sub"]
                 /\ arg' = [arg EXCEPT ![t] = r]
                 /\ owner' = owner
  BY DEF DecrementLoad
<1>2. Owns(t, r) /\ pc[t] = "idle" /\ UNCHANGED <<lent, rc, alive, aborted, unseenMsg>>
  BY DEF DecrementLoad, Idle
<1>3. /\ unseen' \in [Threads -> SUBSET Access]
      /\ stale' \in [Threads -> SUBSET Counts]
      /\ \A u \in Threads : unseen'[u] \subseteq unseen[u] /\ stale'[u] \subseteq stale[u]
  BY <1>1 DEF LoadAcquire, IInv, TypeOK
<1>4. SelfInv'
  BY <1>3 DEF IInv, SelfInv
<1>5. CASE v = 1
  <2>1. Live = {r} /\ unseen'[t] = {}
    BY <1>1, <1>2, <1>5, LoadOfOne
  <2>2. TypeOK'
    BY <1>1, <1>2, <1>3, <1>5 DEF IInv, TypeOK, PCs
  <2>3. QED
    BY <1>1, <1>2, <1>4, <1>5, <2>1, <2>2, BecomesDestroyer
<1>6. CASE v # 1
  <2>1. /\ pc' = [pc EXCEPT ![t] = "sub"]
        /\ arg' = [arg EXCEPT ![t] = r]
        /\ owner' = owner
    BY <1>1, <1>6
  <2>2. /\ Live' = Live
        /\ \A q \in Refs : Group(q)' = Group(q)
        /\ Aborting' = Aborting
        /\ \A q \in Live : Group(q) \subseteq Threads
        /\ r \in Live /\ Group(r) = {t}
    BY <1>2, <2>1, OwnerLoads DEF IInv, TypeOK, Live, Group, Aborting
  <2>3. TypeOK'
    BY <1>2, <1>3, <2>1 DEF IInv, TypeOK, PCs
  <2>4. RefcountExact' /\ LendingInv' /\ WidthInv'
    BY <1>2, <2>1, <2>2 DEF IInv, RefcountExact, LendingInv, WidthInv
  <2>5. NoUseAfterFree'
    BY <1>2, <2>1, <2>2 DEF IInv, TypeOK, NoUseAfterFree
  <2>6. OperationInv'
    BY <1>2, <2>1, <2>2 DEF IInv, TypeOK, OperationInv, Owns
  <2>7. \A u \in Threads : pc'[u] # "unique" /\ pc'[u] # "destroy"
    <3>1. ASSUME NEW u \in Threads, pc'[u] = "unique" PROVE FALSE
      <4>1. u # t /\ pc[u] = "unique"
        BY <2>1, <3>1 DEF IInv, TypeOK
      <4>2. QED
        BY <2>2, <4>1 DEF IInv, UniqueIsExclusive
    <3>2. ASSUME NEW u \in Threads, pc'[u] = "destroy" PROVE FALSE
      BY <2>1, <2>2, <3>2 DEF IInv, TypeOK, NoUseAfterFree
    <3>3. QED
      BY <3>1, <3>2
  <2>8. UniqueIsExclusive' /\ DestroyIsExclusive'
    BY <2>7 DEF UniqueIsExclusive, DestroyIsExclusive
  <2>9. ReadsAreOrdered'
    BY <1>3, <2>2 DEF IInv, ReadsAreOrdered, Live
  <2>10. StaleInv'
    <3> SUFFICES ASSUME NEW q \in Live PROVE \E u \in Group(q) : 1 \notin stale'[u]
      BY <2>2 DEF StaleInv, Live
    <3>1. QED
      BY <1>3, <2>2 DEF IInv, StaleInv
  <2>11. ViewInv'
    <3> SUFFICES ASSUME NEW a \in Access, a \in unseenMsg
                 PROVE  \E q \in Live : \E u \in Group(q) : a \notin unseen'[u]
      BY <1>2, <2>2 DEF ViewInv, Live
    <3>1. QED
      BY <1>3, <2>2 DEF IInv, ViewInv
  <2>12. QED
    BY <1>4, <2>3, <2>4, <2>5, <2>6, <2>8, <2>9, <2>10, <2>11 DEF IInv
<1>7. QED
  BY <1>5, <1>6

(* is_one: an answer of one starts the exclusive borrow.                   *)
LEMMA IsOnePreserves ==
  ASSUME IInv, NEW t \in Threads, NEW r \in Refs, IsOne(t, r)
  PROVE  IInv'
<1>1. PICK v \in Counts :
         /\ LoadAcquire(t, v)
         /\ IF v = 1
            THEN /\ pc' = [pc EXCEPT ![t] = "unique"]
                 /\ arg' = [arg EXCEPT ![t] = r]
            ELSE UNCHANGED <<pc, arg>>
  BY DEF IsOne
<1>2. /\ Owns(t, r) /\ pc[t] = "idle"
      /\ UNCHANGED <<owner, lent, rc, alive, aborted, unseenMsg>>
  BY DEF IsOne, Idle
<1>3. CASE v # 1
  BY <1>1, <1>2, <1>3, LoadPreserves
<1>4. CASE v = 1
  <2>1. Live = {r} /\ unseen'[t] = {}
    BY <1>1, <1>2, <1>4, LoadOfOne
  <2>2. pc' = [pc EXCEPT ![t] = "unique"] /\ arg' = [arg EXCEPT ![t] = r]
    BY <1>1, <1>4
  <2>3. /\ unseen' \in [Threads -> SUBSET Access]
        /\ stale' \in [Threads -> SUBSET Counts]
        /\ \A u \in Threads : unseen'[u] \subseteq unseen[u] /\ stale'[u] \subseteq stale[u]
    BY <1>1 DEF LoadAcquire, IInv, TypeOK
  <2>4. /\ Live' = {r} /\ Group(r)' = {t} /\ Group(r) = {t}
        /\ Aborting' = Aborting
    BY <1>2, <2>1, <2>2 DEF IInv, TypeOK, Live, Group, Owns, Aborting
  <2>5. \A u \in Threads \ {t} : pc'[u] = "idle"
    BY <1>2, <2>1, <2>2, OthersAreIdle DEF IInv, TypeOK
  <2>6. pc'[t] = "unique" /\ arg'[t] = r /\ alive
    BY <2>1, <2>2 DEF IInv, TypeOK, NoUseAfterFree
  <2>7. TypeOK'
    BY <1>2, <2>2, <2>3 DEF IInv, TypeOK, PCs
  <2>8. RefcountExact' /\ LendingInv' /\ WidthInv' /\ SelfInv'
    BY <1>2, <2>1, <2>3, <2>4 DEF IInv, RefcountExact, LendingInv, WidthInv, SelfInv
  <2>9. NoUseAfterFree' /\ UniqueIsExclusive' /\ DestroyIsExclusive'
    BY <1>2, <2>1, <2>4, <2>5, <2>6 DEF NoUseAfterFree, UniqueIsExclusive, DestroyIsExclusive
  <2>10. OperationInv'
    BY <1>2, <2>4, <2>5, <2>6 DEF OperationInv, Owns
  <2>11. ReadsAreOrdered' /\ ViewInv'
    BY <2>1, <2>4 DEF ReadsAreOrdered, ViewInv
  <2>12. StaleInv'
    BY <1>2, <2>3, <2>4, OwnerLoads DEF StaleInv
  <2>13. QED
    BY <2>7, <2>8, <2>9, <2>10, <2>11, <2>12 DEF IInv
<1>5. QED
  BY <1>3, <1>4

(* Cloning.  The new reference's owner has the latest count and, being a   *)
(* holder, every write in view; past the limit it is about to abort.       *)
LEMMA IncrementPreserves ==
  ASSUME IInv, NEW t \in Threads, NEW r \in Refs, NEW n \in Refs, Increment(t, r, n)
  PROVE  IInv'
<1>1. /\ r \in Live /\ t \in Group(r) /\ n \notin Live /\ pc[t] = "idle"
      /\ owner' = [owner EXCEPT ![n] = t]
      /\ stale' = [u \in Threads |-> IF u = t THEN {} ELSE stale[u] \cup {rc}]
      /\ pc' = [pc EXCEPT ![t] = IF rc >= Limit THEN "overflow" ELSE "idle"]
      /\ UNCHANGED <<lent, alive, aborted, arg, unseen, unseenMsg>>
  BY DEF Increment, Overwrite, Idle
<1>2. /\ Live' = Live \cup {n}
      /\ \A q \in Live : Group(q)' = Group(q) /\ Group(q) \subseteq Threads
      /\ Group(n)' = {t}
  BY <1>1, ThreadsAssumption DEF IInv, TypeOK, LendingInv, Live, Group
<1>3. rc = Cardinality(Live) /\ rc >= 1 /\ rc < Wrap /\ rc \in Int /\ rc \in Counts
  BY <1>1, CountInRange DEF IInv, TypeOK, RefcountExact, Counts
<1>4. Aborting' = IF rc >= Limit THEN Aborting \cup {t} ELSE Aborting
  BY <1>1 DEF IInv, TypeOK, Aborting
<1>5. t \notin Aborting
  BY <1>1 DEF Aborting
<1>6. Cardinality(Aborting') = IF rc >= Limit THEN Cardinality(Aborting) + 1 ELSE Cardinality(Aborting)
  BY <1>4, <1>5, AbortingFinite, FS_AddElement
<1>7. Cardinality(Aborting') <= Cardinality(Threads) /\ Cardinality(Aborting') \in Nat
  <2>1. Aborting' \subseteq Threads
    BY DEF Aborting
  <2>2. QED
    BY <2>1, ThreadsAssumption, FS_Subset, FS_CardinalityType
<1>8. rc + 1 <= Limit + Cardinality(Aborting')
  BY <1>1, <1>3, <1>6, AbortingFinite, WidthAssumption DEF IInv, WidthInv
<1>9. rc' = rc + 1 /\ rc + 1 < Wrap
  <2>1. rc + 1 < Wrap
    BY <1>3, <1>7, <1>8, AbortingFinite, WidthAssumption
  <2>2. QED
    BY <1>3, <2>1, WidthAssumption DEF Increment, WrapAround
<1>10. TypeOK'
  <2>1. rc' \in Counts
    BY <1>3, <1>9, WidthAssumption DEF Counts
  <2>2. pc' \in [Threads -> PCs]
    BY <1>1 DEF IInv, TypeOK, PCs
  <2>3. QED
    BY <1>1, <1>3, <2>1, <2>2 DEF IInv, TypeOK
<1>11. RefcountExact' /\ WidthInv'
  <2>1. Cardinality(Live \cup {n}) = Cardinality(Live) + 1
    BY <1>1, LiveFinite, FS_AddElement
  <2>2. QED
    BY <1>2, <1>3, <1>8, <1>9, <2>1 DEF RefcountExact, WidthInv
<1>12. \A u \in Threads : pc[u] # "unique" /\ pc[u] # "destroy"
  BY <1>1 DEF IInv, UniqueIsExclusive, NoUseAfterFree
<1>13. \A u \in Threads : pc'[u] # "unique" /\ pc'[u] # "destroy"
  BY <1>1, <1>12 DEF IInv, TypeOK
<1>14. NoUseAfterFree' /\ UniqueIsExclusive' /\ DestroyIsExclusive'
  BY <1>1, <1>13 DEF IInv, NoUseAfterFree, UniqueIsExclusive, DestroyIsExclusive
<1>15. ReadsAreOrdered' /\ SelfInv'
  BY <1>1, <1>2 DEF IInv, ReadsAreOrdered, SelfInv
<1>16. lent[n] = {} /\ owner[n] = NoThread
  BY <1>1 DEF IInv, LendingInv, Live
<1>17. LendingInv'
  BY <1>1, <1>16, ThreadsAssumption DEF IInv, TypeOK, LendingInv
<1>18. OperationInv'
  <2>1. ASSUME NEW u \in Threads, pc'[u] \in {"sub", "unique"}
        PROVE  arg'[u] \in Refs /\ Owns(u, arg[u])'
    <3>1. u # t /\ pc[u] \in {"sub", "unique"}
      BY <1>1, <2>1 DEF IInv, TypeOK
    <3>2. arg[u] \in Refs /\ Owns(u, arg[u]) /\ arg[u] # n
      BY <1>16, <3>1, ThreadsAssumption DEF IInv, OperationInv, Owns
    <3>3. QED
      BY <1>1, <3>2 DEF IInv, TypeOK, Owns
  <2>2. ASSUME NEW u \in Threads, pc'[u] = "overflow"
        PROVE  \E q \in Refs : owner'[q] = u
    <3>1. CASE u = t
      BY <1>1, <3>1 DEF IInv, TypeOK
    <3>2. CASE u # t
      <4>1. PICK q \in Refs : owner[q] = u
        BY <1>1, <2>2, <3>2 DEF IInv, TypeOK, OperationInv
      <4>2. q # n
        BY <1>16, <4>1, ThreadsAssumption
      <4>3. QED
        BY <1>1, <4>1, <4>2 DEF IInv, TypeOK
    <3>3. QED
      BY <3>1, <3>2
  <2>3. QED
    BY <1>2, <2>1, <2>2 DEF OperationInv
<1>19. StaleInv'
  <2> SUFFICES ASSUME NEW q \in Live' PROVE \E u \in Group(q)' : 1 \notin stale'[u]
    BY DEF StaleInv
  <2>1. CASE t \in Group(q)'
    BY <1>1, <2>1
  <2>2. CASE t \notin Group(q)'
    <3>1. q \in Live /\ q # r
      BY <1>1, <1>2, <2>2
    <3>2. rc # 1
      BY <1>1, <3>1, SoleReference DEF IInv
    <3>3. PICK u \in Group(q) : 1 \notin stale[u]
      BY <3>1 DEF IInv, StaleInv
    <3>4. QED
      BY <1>1, <1>2, <3>1, <3>2, <3>3
  <2>3. QED
    BY <2>1, <2>2
<1>20. ViewInv'
  BY <1>1, <1>2 DEF IInv, ViewInv
<1>21. QED
  BY <1>10, <1>11, <1>14, <1>15, <1>17, <1>18, <1>19, <1>20 DEF IInv

(* Moving a reference to another thread, which takes over the sender's     *)
(* view.                                                                   *)
LEMMA SendPreserves ==
  ASSUME IInv, NEW t \in Threads, NEW r \in Refs, NEW w \in Threads, Send(t, r, w)
  PROVE  IInv'
<1>1. /\ Owns(t, r) /\ pc[t] = "idle" /\ pc[w] = "idle"
      /\ owner' = [owner EXCEPT ![r] = w]
      /\ unseen' = [unseen EXCEPT ![w] = @ \cap unseen[t]]
      /\ stale' = [stale EXCEPT ![w] = @ \cap stale[t]]
      /\ UNCHANGED <<lent, rc, alive, aborted, pc, arg, unseenMsg>>
  BY DEF Send, Idle
<1>2. /\ r \in Live /\ Group(r) = {t} /\ 1 \notin stale[t]
      /\ Live' = Live /\ Group(r)' = {w}
      /\ \A q \in Live \ {r} : Group(q)' = Group(q)
      /\ \A q \in Live : Group(q) \subseteq Threads
      /\ Aborting' = Aborting
  BY <1>1, OwnerLoads, ThreadsAssumption DEF IInv, TypeOK, Live, Group, Owns, Aborting
<1>3. TypeOK'
  BY <1>1 DEF IInv, TypeOK
<1>4. \A u \in Threads : /\ unseen'[u] \subseteq unseen[u] /\ stale'[u] \subseteq stale[u]
                         /\ unseen'[w] \subseteq unseen[t] /\ stale'[w] \subseteq stale[t]
  BY <1>1 DEF IInv, TypeOK
<1>5. RefcountExact' /\ WidthInv' /\ NoUseAfterFree' /\ SelfInv'
  BY <1>1, <1>2, <1>4 DEF IInv, RefcountExact, WidthInv, NoUseAfterFree, SelfInv
<1>6. \A u \in Threads : pc[u] # "unique" /\ pc[u] # "destroy"
  BY <1>1, <1>2 DEF IInv, UniqueIsExclusive, NoUseAfterFree
<1>7. UniqueIsExclusive' /\ DestroyIsExclusive'
  BY <1>1, <1>6 DEF UniqueIsExclusive, DestroyIsExclusive
<1>8. LendingInv'
  BY <1>1, ThreadsAssumption DEF IInv, TypeOK, LendingInv, Owns
<1>9. OperationInv'
  <2>1. ASSUME NEW u \in Threads, pc[u] \in {"sub", "unique"}
        PROVE  arg[u] \in Refs /\ Owns(u, arg[u])'
    <3>1. u # t /\ arg[u] \in Refs /\ Owns(u, arg[u]) /\ arg[u] # r
      BY <1>1, <2>1 DEF IInv, OperationInv, Owns
    <3>2. QED
      BY <1>1, <3>1 DEF IInv, TypeOK, Owns
  <2>2. ASSUME NEW u \in Threads, pc[u] = "overflow"
        PROVE  \E q \in Refs : owner'[q] = u
    <3>1. PICK q \in Refs : owner[q] = u
      BY <2>2 DEF IInv, OperationInv
    <3>2. q # r
      BY <1>1, <2>2, <3>1 DEF Owns
    <3>3. QED
      BY <1>1, <3>1, <3>2 DEF IInv, TypeOK
  <2>3. QED
    BY <1>1, <1>2, <2>1, <2>2 DEF OperationInv, Owns
<1>10. ReadsAreOrdered'
  <2> SUFFICES ASSUME NEW q \in Live, NEW u \in Group(q)', NEW x \in Threads
               PROVE  <<x, "write">> \notin unseen'[u]
    BY <1>2 DEF ReadsAreOrdered
  <2>1. CASE q = r
    BY <1>2, <1>4, <2>1 DEF IInv, ReadsAreOrdered
  <2>2. CASE q # r
    BY <1>2, <1>4, <2>2 DEF IInv, ReadsAreOrdered
  <2>3. QED
    BY <2>1, <2>2
<1>11. StaleInv'
  <2> SUFFICES ASSUME NEW q \in Live PROVE \E u \in Group(q)' : 1 \notin stale'[u]
    BY <1>2 DEF StaleInv
  <2>1. CASE q = r
    BY <1>2, <1>4, <2>1
  <2>2. CASE q # r
    BY <1>2, <1>4, <2>2 DEF IInv, StaleInv
  <2>3. QED
    BY <2>1, <2>2
<1>12. ViewInv'
  <2> SUFFICES ASSUME NEW a \in Access, a \in unseenMsg
               PROVE  \E q \in Live : \E u \in Group(q)' : a \notin unseen'[u]
    BY <1>1, <1>2 DEF ViewInv
  <2>1. PICK q \in Live : \E u \in Group(q) : a \notin unseen[u]
    BY <1>2 DEF IInv, ViewInv
  <2>2. CASE q = r
    BY <1>2, <1>4, <2>1, <2>2
  <2>3. CASE q # r
    BY <1>2, <1>4, <2>1, <2>3
  <2>4. QED
    BY <2>2, <2>3
<1>13. QED
  BY <1>3, <1>5, <1>7, <1>8, <1>9, <1>10, <1>11, <1>12 DEF IInv

(* A borrower joins the holders of r, with the owner's view.               *)
LEMMA LendPreserves ==
  ASSUME IInv, NEW t \in Threads, NEW r \in Refs, NEW w \in Threads, Lend(t, r, w)
  PROVE  IInv'
<1>1. /\ owner[r] = t /\ w # t /\ pc[t] = "idle" /\ pc[w] = "idle"
      /\ lent' = [lent EXCEPT ![r] = @ \cup {w}]
      /\ unseen' = [unseen EXCEPT ![w] = @ \cap unseen[t]]
      /\ stale' = [stale EXCEPT ![w] = @ \cap stale[t]]
      /\ UNCHANGED <<owner, rc, alive, aborted, pc, arg, unseenMsg>>
  BY DEF Lend, Idle
<1>2. /\ r \in Live /\ t \in Group(r)
      /\ Live' = Live /\ Group(r)' = Group(r) \cup {w}
      /\ \A q \in Live \ {r} : Group(q)' = Group(q)
      /\ \A q \in Live : Group(q) \subseteq Threads
      /\ Aborting' = Aborting
  BY <1>1, ThreadsAssumption DEF IInv, TypeOK, Live, Group, Aborting
<1>3. TypeOK'
  BY <1>1 DEF IInv, TypeOK
<1>4. \A u \in Threads : /\ unseen'[u] \subseteq unseen[u] /\ stale'[u] \subseteq stale[u]
                         /\ unseen'[w] \subseteq unseen[t]
  BY <1>1 DEF IInv, TypeOK
<1>5. RefcountExact' /\ WidthInv' /\ NoUseAfterFree' /\ SelfInv'
  BY <1>1, <1>2, <1>4 DEF IInv, RefcountExact, WidthInv, NoUseAfterFree, SelfInv
<1>6. \A u \in Threads : pc[u] # "unique" /\ pc[u] # "destroy"
  BY <1>1, <1>2 DEF IInv, UniqueIsExclusive, NoUseAfterFree
<1>7. UniqueIsExclusive' /\ DestroyIsExclusive'
  BY <1>1, <1>6 DEF UniqueIsExclusive, DestroyIsExclusive
<1>8. LendingInv'
  BY <1>1, ThreadsAssumption DEF IInv, TypeOK, LendingInv
<1>9. OperationInv'
  BY <1>1, <1>2 DEF IInv, TypeOK, OperationInv, Owns
<1>10. ReadsAreOrdered'
  <2> SUFFICES ASSUME NEW q \in Live, NEW u \in Group(q)', NEW x \in Threads
               PROVE  <<x, "write">> \notin unseen'[u]
    BY <1>2 DEF ReadsAreOrdered
  <2>1. CASE u \in Group(q)
    BY <1>2, <1>4, <2>1 DEF IInv, ReadsAreOrdered
  <2>2. CASE u \notin Group(q)
    BY <1>2, <1>4, <2>2 DEF IInv, ReadsAreOrdered
  <2>3. QED
    BY <2>1, <2>2
<1>11. \A q \in Live : Group(q) \subseteq Group(q)'
  BY <1>2
<1>12. StaleInv'
  <2> SUFFICES ASSUME NEW q \in Live PROVE \E u \in Group(q)' : 1 \notin stale'[u]
    BY <1>2 DEF StaleInv
  <2>1. QED
    BY <1>2, <1>4, <1>11 DEF IInv, StaleInv
<1>13. ViewInv'
  <2> SUFFICES ASSUME NEW a \in Access, a \in unseenMsg
               PROVE  \E q \in Live : \E u \in Group(q)' : a \notin unseen'[u]
    BY <1>1, <1>2 DEF ViewInv
  <2>1. PICK q \in Live : \E u \in Group(q) : a \notin unseen[u]
    BY <1>2 DEF IInv, ViewInv
  <2>2. QED
    BY <1>2, <1>4, <1>11, <2>1
<1>14. QED
  BY <1>3, <1>5, <1>7, <1>8, <1>9, <1>10, <1>12, <1>13 DEF IInv

(* The borrower's view passes back to the owner.                           *)
LEMMA EndLendPreserves ==
  ASSUME IInv, NEW t \in Threads, NEW r \in Refs, NEW w \in Threads, EndLend(t, r, w)
  PROVE  IInv'
<1>1. /\ owner[r] = t /\ w \in lent[r] /\ pc[t] = "idle" /\ pc[w] = "idle"
      /\ lent' = [lent EXCEPT ![r] = @ \ {w}]
      /\ unseen' = [unseen EXCEPT ![t] = @ \cap unseen[w]]
      /\ stale' = [stale EXCEPT ![t] = @ \cap stale[w]]
      /\ UNCHANGED <<owner, rc, alive, aborted, pc, arg, unseenMsg>>
  BY DEF EndLend, Idle
<1>2. /\ r \in Live /\ t \in Group(r)' /\ w # t
      /\ Live' = Live /\ Group(r)' = Group(r) \ {w}
      /\ \A q \in Live \ {r} : Group(q)' = Group(q)
      /\ \A q \in Live : Group(q) \subseteq Threads
      /\ Aborting' = Aborting
  BY <1>1, ThreadsAssumption DEF IInv, TypeOK, LendingInv, Live, Group, Aborting
<1>3. TypeOK'
  BY <1>1 DEF IInv, TypeOK
<1>4. \A u \in Threads : /\ unseen'[u] \subseteq unseen[u] /\ stale'[u] \subseteq stale[u]
                         /\ unseen'[t] \subseteq unseen[w] /\ stale'[t] \subseteq stale[w]
  BY <1>1 DEF IInv, TypeOK
<1>5. RefcountExact' /\ WidthInv' /\ NoUseAfterFree' /\ SelfInv'
  BY <1>1, <1>2, <1>4 DEF IInv, RefcountExact, WidthInv, NoUseAfterFree, SelfInv
<1>6. \A u \in Threads : pc[u] # "unique" /\ pc[u] # "destroy"
  BY <1>1, <1>2 DEF IInv, UniqueIsExclusive, NoUseAfterFree
<1>7. UniqueIsExclusive' /\ DestroyIsExclusive'
  BY <1>1, <1>6 DEF UniqueIsExclusive, DestroyIsExclusive
<1>8. LendingInv'
  BY <1>1, ThreadsAssumption DEF IInv, TypeOK, LendingInv
<1>9. OperationInv'
  BY <1>1, <1>2 DEF IInv, TypeOK, OperationInv, Owns
<1>10. ReadsAreOrdered'
  <2> SUFFICES ASSUME NEW q \in Live, NEW u \in Group(q)', NEW x \in Threads
               PROVE  <<x, "write">> \notin unseen'[u]
    BY <1>2 DEF ReadsAreOrdered
  <2>1. u \in Group(q)
    BY <1>2
  <2>2. QED
    BY <1>2, <1>4, <2>1 DEF IInv, ReadsAreOrdered
<1>11. StaleInv'
  <2> SUFFICES ASSUME NEW q \in Live PROVE \E u \in Group(q)' : 1 \notin stale'[u]
    BY <1>2 DEF StaleInv
  <2>1. PICK u \in Group(q) : 1 \notin stale[u]
    BY DEF IInv, StaleInv
  <2>2. CASE u \in Group(q)'
    BY <1>2, <1>4, <2>1, <2>2
  <2>3. CASE u \notin Group(q)'
    BY <1>2, <1>4, <2>1, <2>3
  <2>4. QED
    BY <2>2, <2>3
<1>12. ViewInv'
  <2> SUFFICES ASSUME NEW a \in Access, a \in unseenMsg
               PROVE  \E q \in Live : \E u \in Group(q)' : a \notin unseen'[u]
    BY <1>1, <1>2 DEF ViewInv
  <2>1. PICK q \in Live : \E u \in Group(q) : a \notin unseen[u]
    BY <1>2 DEF IInv, ViewInv
  <2>2. PICK u \in Group(q) : a \notin unseen[u]
    BY <2>1
  <2>3. CASE u \in Group(q)'
    BY <1>2, <1>4, <2>2, <2>3
  <2>4. CASE u \notin Group(q)'
    BY <1>2, <1>4, <2>2, <2>4
  <2>5. QED
    BY <2>3, <2>4
<1>13. QED
  BY <1>3, <1>5, <1>7, <1>8, <1>9, <1>10, <1>11, <1>12 DEF IInv

(* Every step of the specification preserves IInv.                         *)
LEMMA NextPreserves ==
  ASSUME IInv, [Next]_vars
  PROVE  IInv'
<1>1. CASE UNCHANGED vars
  BY <1>1 DEF vars, IInv, TypeOK, RefcountExact, NoUseAfterFree, UniqueIsExclusive,
     DestroyIsExclusive, ReadsAreOrdered, LendingInv, OperationInv, StaleInv,
     SelfInv, ViewInv, WidthInv, Live, Group, Owns, Aborting
<1>2. ASSUME NEW t \in Threads,
             \/ Abort(t) \/ DecrementSub(t) \/ Destroy(t)
             \/ Mutate(t) \/ EndUnique(t) \/ Consume(t)
      PROVE  IInv'
  BY <1>2, AbortPreserves, DecrementSubPreserves, DestroyPreserves, MutatePreserves,
     EndUniquePreserves, ConsumePreserves
<1>3. ASSUME NEW t \in Threads, NEW r \in Refs,
             DecrementLoad(t, r) \/ DecrementExpectHigh(t, r) \/ IsOne(t, r) \/ Read(t, r)
      PROVE  IInv'
  BY <1>3, DecrementLoadPreserves, DecrementExpectHighPreserves, IsOnePreserves, ReadPreserves
<1>4. ASSUME NEW t \in Threads, NEW r \in Refs, NEW n \in Refs, Increment(t, r, n)
      PROVE  IInv'
  BY <1>4, IncrementPreserves
<1>5. ASSUME NEW t \in Threads, NEW u \in Threads, NEW r \in Refs,
             Send(t, r, u) \/ Lend(t, r, u) \/ EndLend(t, r, u)
      PROVE  IInv'
  BY <1>5, SendPreserves, LendPreserves, EndLendPreserves
<1>6. QED
  BY <1>1, <1>2, <1>3, <1>4, <1>5 DEF Next

(***************************************************************************)
(* THEOREMS, for any finite sets of threads and references.                *)
(***************************************************************************)

(* The inductive invariant holds in every reachable state.                 *)
THEOREM Invariance == Spec => []IInv
<1>1. Init => IInv
  BY InitIInv
<1>2. IInv /\ [Next]_vars => IInv'
  BY NextPreserves
<1>3. QED
  BY <1>1, <1>2, PTL DEF Spec

(* The variables keep their types.                                         *)
THEOREM TypeCorrect == Spec => []TypeOK
<1>1. IInv => TypeOK
  BY DEF IInv
<1>2. QED
  BY <1>1, Invariance, PTL

(* The stored count is the number of references (rep.rs: Refcount).        *)
THEOREM CountIsExact == Spec => []RefcountExact
<1>1. IInv => RefcountExact
  BY DEF IInv
<1>2. QED
  BY <1>1, Invariance, PTL

(* No reference outlives the node (rep.rs: unref, destroy).                *)
THEOREM NoReferenceDangles == Spec => []NoUseAfterFree
<1>1. IInv => NoUseAfterFree
  BY DEF IInv
<1>2. QED
  BY <1>1, Invariance, PTL

(* is_one grants exclusive, race-free access until the borrow ends.        *)
THEOREM UniquenessIsStable == Spec => []UniqueIsExclusive
<1>1. IInv => UniqueIsExclusive
  BY DEF IInv
<1>2. QED
  BY <1>1, Invariance, PTL

(* One thread destroys the node, after every access to it.                 *)
THEOREM DestructionIsOrdered == Spec => []DestroyIsExclusive
<1>1. IInv => DestroyIsExclusive
  BY DEF IInv
<1>2. QED
  BY <1>1, Invariance, PTL

(* No holder's read races with a write of the node, given that a hand-over *)
(* between threads orders what came before it (unsafe impl Send and Sync). *)
THEOREM ReadsDoNotRace == Spec => []ReadsAreOrdered
<1>1. IInv => ReadsAreOrdered
  BY DEF IInv
<1>2. QED
  BY <1>1, Invariance, PTL

(* The overflow guard of increment keeps the count within the i32.         *)
THEOREM CountFitsWidth == Spec => []NeverWraps
<1>1. IInv => NeverWraps
  BY CountInRange DEF NeverWraps
<1>2. QED
  BY <1>1, Invariance, PTL

(***************************************************************************)
(* CordRefcount implements SharedNode.  The steps of a thread that change  *)
(* who can reach a reference, who writes or whether the node is there are  *)
(* steps of SharedNode, guards included; the others leave all of it alone. *)
(***************************************************************************)

(* Who can reach a reference depends on its owner and its borrowers only.  *)
LEMMA HoldersExcept ==
  ASSUME NEW r \in Refs, NEW S,
         \A q \in Refs \ {r} : owner'[q] = owner[q] /\ lent'[q] = lent[q],
         Holders'[r] = S
  PROVE  Holders' = [Holders EXCEPT ![r] = S]
<1>1. \A q \in Refs \ {r} : Holders'[q] = Holders[q]
  BY DEF Holders, Live, Group
<1>2. Holders' = [q \in Refs |-> Holders'[q]] /\ Holders = [q \in Refs |-> Holders[q]]
  BY DEF Holders
<1>3. QED
  BY <1>1, <1>2

LEMMA HoldersSame ==
  ASSUME UNCHANGED <<owner, lent>>
  PROVE  Holders' = Holders
  BY DEF Holders, Live, Group

(* While a thread outside an exclusive borrow can reach the node, nobody   *)
(* writes to it.                                                           *)
LEMMA NobodyWrites ==
  ASSUME IInv, NEW t \in Threads, NEW r \in Live, t \in Group(r), pc[t] # "unique"
  PROVE  Writers = {} /\ Node!Shared
<1>1. Writers = {}
  <2> SUFFICES ASSUME NEW u \in Threads, pc[u] = "unique"
               PROVE  FALSE
    BY DEF Writers
  <2>1. Live = {arg[u]} /\ Group(arg[u]) = {u}
    BY DEF IInv, UniqueIsExclusive
  <2>2. QED
    BY <2>1
<1>2. alive
  BY DEF IInv, NoUseAfterFree
<1>3. QED
  BY <1>1, <1>2 DEF Node!Shared, Writer

(* A thread that writes is the only one.                                   *)
LEMMA OneWriter ==
  ASSUME IInv, NEW t \in Threads, pc[t] = "unique"
  PROVE  Writers = {t} /\ Writer = t
<1>1. \A u \in Threads : pc[u] = "unique" => u = t
  <2> SUFFICES ASSUME NEW u \in Threads, pc[u] = "unique"
               PROVE  u = t
    OBVIOUS
  <2>1. Live = {arg[u]} /\ Group(arg[u]) = {u} /\ Live = {arg[t]} /\ Group(arg[t]) = {t}
    BY DEF IInv, UniqueIsExclusive
  <2>2. QED
    BY <2>1
<1>2. Writers = {t}
  BY <1>1 DEF Writers
<1>3. QED
  BY <1>2 DEF Writer

(* A step after which nobody is inside an exclusive borrow that was not    *)
(* before leaves the writer alone.                                         *)
LEMMA WriterSame ==
  ASSUME Writers' = Writers
  PROVE  Writer' = Writer
  BY DEF Writer

(* The thread's step is not into or out of an exclusive borrow.            *)
LEMMA WritersSame ==
  ASSUME TypeOK, NEW t \in Threads, NEW p \in PCs,
         pc' = [pc EXCEPT ![t] = p], pc[t] # "unique", p # "unique"
  PROVE  Writers' = Writers
<1>1. pc \in [Threads -> PCs]
  BY DEF TypeOK
<1>2. \A u \in Threads : pc'[u] = "unique" <=> pc[u] = "unique"
  BY <1>1
<1>3. QED
  BY <1>2 DEF Writers

(* The initial states are SharedNode's.                                    *)
LEMMA InitMapped == Init => Node!Init
<1> SUFFICES ASSUME Init PROVE Node!Init
  OBVIOUS
<1>1. PICK t \in Threads, r \in Refs :
         /\ owner = [q \in Refs |-> IF q = r THEN t ELSE NoThread]
         /\ lent = [q \in Refs |-> {}]
         /\ alive = TRUE
         /\ pc = [u \in Threads |-> "idle"]
  BY DEF Init
<1>2. \A q \in Refs : Holders[q] = IF q = r THEN {t} ELSE {}
  BY <1>1, ThreadsAssumption DEF Holders, Live, Group
<1>3. Node!Sole(t, r)
  BY <1>2 DEF Node!Sole, Holders
<1>4. Writer = NoThread
  BY <1>1 DEF Writer, Writers
<1>5. QED
  BY <1>1, <1>3, <1>4 DEF Node!Init

(* Giving up a reference: the last part of decrement, or Consume.          *)
LEMMA ReleaseMapped ==
  ASSUME IInv, NEW t \in Threads, NEW r \in Refs, Owns(t, r),
         owner' = [owner EXCEPT ![r] = NoThread], UNCHANGED <<lent, alive>>,
         Writer \in {NoThread, t}, Writer' = NoThread
  PROVE  Node!Next
<1>1. r \in Live /\ Group(r) = {t}
  BY OwnerLoads
<1>2. alive
  BY <1>1 DEF IInv, NoUseAfterFree
<1>3. owner \in [Refs -> Threads \cup {NoThread}] /\ lent \in [Refs -> SUBSET Threads]
  BY DEF IInv, TypeOK
<1>4. owner'[r] = NoThread /\ \A q \in Refs \ {r} : owner'[q] = owner[q] /\ lent'[q] = lent[q]
  BY <1>3
<1>5. Holders[r] = {t} /\ Holders'[r] = {}
  BY <1>1, <1>4 DEF Holders, Live
<1>6. Holders' = [Holders EXCEPT ![r] = {}]
  BY <1>4, <1>5, HoldersExcept
<1>7. Node!Release(t, r)
  BY <1>2, <1>5, <1>6 DEF Node!Release
<1>8. QED
  BY <1>7 DEF Node!Next

LEMMA FetchSubMapped ==
  ASSUME IInv, NEW t \in Threads, NEW r \in Refs, Owns(t, r), pc[t] # "unique", FetchSub(t, r)
  PROVE  Node!Next
<1>1. Writers = {} /\ Node!Shared
  BY OwnerLoads, NobodyWrites
<1>2. Writers' = Writers
  BY WritersSame DEF IInv, FetchSub, PCs
<1>3. Writer = NoThread /\ Writer' = NoThread
  BY <1>1, <1>2 DEF Writer
<1>4. QED
  BY <1>3, ReleaseMapped DEF FetchSub

LEMMA DecrementLoadMapped ==
  ASSUME IInv, NEW t \in Threads, NEW r \in Refs, DecrementLoad(t, r)
  PROVE  Node!Next \/ UNCHANGED Node!vars
<1>1. Owns(t, r) /\ pc[t] = "idle" /\ UNCHANGED <<lent, alive>>
  BY DEF DecrementLoad, Idle
<1>2. Writers = {} /\ Node!Shared
  BY <1>1, OwnerLoads, NobodyWrites
<1>3. \/ pc' = [pc EXCEPT ![t] = "destroy"] /\ owner' = [owner EXCEPT ![r] = NoThread]
      \/ pc' = [pc EXCEPT ![t] = "sub"] /\ owner' = owner
  BY DEF DecrementLoad
<1>4. Writers' = Writers
  BY <1>1, <1>3, WritersSame DEF IInv, PCs
<1>5. Writer = NoThread /\ Writer' = NoThread
  BY <1>2, <1>4 DEF Writer
<1>6. CASE owner' = [owner EXCEPT ![r] = NoThread]
  BY <1>1, <1>5, <1>6, ReleaseMapped
<1>7. CASE owner' = owner
  BY <1>1, <1>5, <1>7, HoldersSame DEF Node!vars
<1>8. QED
  BY <1>3, <1>6, <1>7

LEMMA ConsumeMapped ==
  ASSUME IInv, IInv', NEW t \in Threads, Consume(t)
  PROVE  Node!Next
<1>1. pc[t] = "unique" /\ arg[t] \in Refs /\ Owns(t, arg[t])
  BY DEF Consume, IInv, OperationInv
<1>2. Writers = {t} /\ Writer = t
  BY <1>1, OneWriter
<1>3. pc \in [Threads -> PCs] /\ pc' = [pc EXCEPT ![t] = "destroy"]
  BY DEF Consume, IInv, TypeOK
<1>4. Writers' = {}
  BY <1>2, <1>3 DEF Writers
<1>5. Writer' = NoThread
  BY <1>4 DEF Writer
<1>6. QED
  BY <1>1, <1>2, <1>5, ReleaseMapped DEF Consume

LEMMA DestroyMapped ==
  ASSUME IInv, NEW t \in Threads, Destroy(t)
  PROVE  Node!Next
<1>1. alive /\ Live = {} /\ \A u \in Threads : pc[u] # "unique"
  BY DEF Destroy, IInv, DestroyIsExclusive
<1>2. Writers = {} /\ Writers' = Writers
  BY <1>1, WritersSame DEF Writers, Destroy, IInv, PCs
<1>3. Writer = NoThread /\ Writer' = Writer
  BY <1>2 DEF Writer
<1>4. \A r \in Refs : Node!Gone(r)
  BY <1>1 DEF Node!Gone, Holders
<1>5. Holders' = Holders
  BY HoldersSame DEF Destroy
<1>6. Node!Free
  BY <1>1, <1>3, <1>4, <1>5 DEF Node!Free, Node!Shared, Destroy
<1>7. QED
  BY <1>6 DEF Node!Next

LEMMA EndUniqueMapped ==
  ASSUME IInv, NEW t \in Threads, EndUnique(t)
  PROVE  Node!Next
<1>1. pc[t] = "unique" /\ arg[t] \in Refs /\ Owns(t, arg[t])
  BY DEF EndUnique, IInv, OperationInv
<1>2. Writers = {t} /\ Writer = t
  BY <1>1, OneWriter
<1>3. pc \in [Threads -> PCs] /\ pc' = [pc EXCEPT ![t] = "idle"]
  BY DEF EndUnique, IInv, TypeOK
<1>4. Writers' = {}
  BY <1>2, <1>3 DEF Writers
<1>5. alive /\ t # NoThread
  BY <1>1, OwnerLoads, ThreadsAssumption DEF IInv, NoUseAfterFree
<1>6. Holders' = Holders
  BY HoldersSame DEF EndUnique
<1>7. Node!EndExclusive
  BY <1>2, <1>4, <1>5, <1>6 DEF Node!EndExclusive, EndUnique, Writer
<1>8. QED
  BY <1>7 DEF Node!Next

LEMMA IsOneMapped ==
  ASSUME IInv, IInv', NEW t \in Threads, NEW r \in Refs, IsOne(t, r)
  PROVE  Node!Next \/ UNCHANGED Node!vars
<1>1. Owns(t, r) /\ pc[t] = "idle" /\ UNCHANGED <<owner, lent, alive>>
  BY DEF IsOne, Idle
<1>2. Writers = {} /\ Node!Shared
  BY <1>1, OwnerLoads, NobodyWrites
<1>3. Holders' = Holders
  BY <1>1, HoldersSame
<1>4. \/ pc' = [pc EXCEPT ![t] = "unique"] /\ arg' = [arg EXCEPT ![t] = r]
      \/ pc' = pc
  BY DEF IsOne
<1>5. CASE pc' = pc
  <2>1. Writer' = Writer
    BY <1>5 DEF Writer, Writers
  <2>2. QED
    BY <1>1, <1>3, <2>1 DEF Node!vars
<1>6. CASE pc' = [pc EXCEPT ![t] = "unique"] /\ arg' = [arg EXCEPT ![t] = r]
  <2>1. pc'[t] = "unique" /\ arg'[t] = r
    BY <1>6 DEF IInv, TypeOK
  <2>2. Writers' = {t}
    BY <1>2, <1>6 DEF Writers, IInv, TypeOK
  <2>3. Writer' = t
    BY <2>2 DEF Writer
  <2>4. Live' = {r} /\ Group(r)' = {t}
    BY <2>1 DEF IInv, UniqueIsExclusive, Group
  <2>5. Live = {r} /\ Group(r) = {t}
    BY <1>1, <2>4 DEF Live, Group
  <2>6. Node!Sole(t, r)
    BY <2>5 DEF Node!Sole, Holders
  <2>7. Node!BeginExclusive(t, r)
    BY <1>1, <1>2, <1>3, <2>3, <2>6 DEF Node!BeginExclusive
  <2>8. QED
    BY <2>7 DEF Node!Next
<1>7. QED
  BY <1>4, <1>5, <1>6

LEMMA IncrementMapped ==
  ASSUME IInv, NEW t \in Threads, NEW r \in Refs, NEW n \in Refs, Increment(t, r, n)
  PROVE  Node!Next
<1>1. pc[t] = "idle" /\ r \in Live /\ t \in Group(r) /\ n \notin Live /\ UNCHANGED <<lent, alive>>
  BY DEF Increment, Idle
<1>2. Writers = {} /\ Node!Shared
  BY <1>1, NobodyWrites
<1>3. Writers' = Writers
  BY <1>1, WritersSame DEF Increment, IInv, PCs
<1>4. Writer' = Writer
  BY <1>3, WriterSame
<1>5. /\ owner \in [Refs -> Threads \cup {NoThread}]
      /\ owner' = [owner EXCEPT ![n] = t]
  BY DEF Increment, IInv, TypeOK
<1>6. owner'[n] = t /\ \A q \in Refs \ {n} : owner'[q] = owner[q] /\ lent'[q] = lent[q]
  BY <1>1, <1>5
<1>7. lent'[n] = {}
  BY <1>1 DEF IInv, LendingInv, Live
<1>8. Holders'[n] = {t}
  BY <1>6, <1>7, ThreadsAssumption DEF Holders, Live, Group
<1>9. Holders' = [Holders EXCEPT ![n] = {t}]
  BY <1>6, <1>8, HoldersExcept
<1>10. t \in Holders[r] /\ Node!Gone(n)
  BY <1>1 DEF Holders, Node!Gone
<1>11. Node!Clone(t, r, n)
  BY <1>1, <1>2, <1>4, <1>9, <1>10 DEF Node!Clone
<1>12. QED
  BY <1>11 DEF Node!Next

LEMMA SendMapped ==
  ASSUME IInv, NEW t \in Threads, NEW u \in Threads, NEW r \in Refs, Send(t, r, u)
  PROVE  Node!Next
<1>1. pc[t] = "idle" /\ t # u /\ Owns(t, r) /\ UNCHANGED <<lent, alive, pc>>
  BY DEF Send, Idle
<1>2. r \in Live /\ Group(r) = {t}
  BY <1>1, OwnerLoads
<1>3. Node!Shared /\ Writer' = Writer
  BY <1>1, <1>2, NobodyWrites DEF Writer, Writers
<1>4. /\ owner \in [Refs -> Threads \cup {NoThread}]
      /\ owner' = [owner EXCEPT ![r] = u]
  BY DEF Send, IInv, TypeOK
<1>5. owner'[r] = u /\ \A q \in Refs \ {r} : owner'[q] = owner[q] /\ lent'[q] = lent[q]
  BY <1>1, <1>4
<1>6. Holders[r] = {t} /\ Holders'[r] = {u}
  BY <1>1, <1>2, <1>5, ThreadsAssumption DEF Holders, Live, Group, Owns
<1>7. Holders' = [Holders EXCEPT ![r] = {u}]
  BY <1>5, <1>6, HoldersExcept
<1>8. Node!Move(t, r, u)
  BY <1>1, <1>3, <1>6, <1>7 DEF Node!Move
<1>9. QED
  BY <1>8 DEF Node!Next

LEMMA LendMapped ==
  ASSUME IInv, NEW t \in Threads, NEW u \in Threads, NEW r \in Refs,
         Lend(t, r, u) \/ EndLend(t, r, u)
  PROVE  Node!Next
<1>1. pc[t] = "idle" /\ owner[r] = t /\ UNCHANGED <<owner, alive, pc>>
  BY DEF Lend, EndLend, Idle
<1>2. r \in Live /\ r \in Live' /\ t \in Group(r)
  BY <1>1, ThreadsAssumption DEF Live, Group
<1>3. Node!Shared /\ Writer' = Writer
  BY <1>1, <1>2, NobodyWrites DEF Writer, Writers
<1>4. lent \in [Refs -> SUBSET Threads] /\ t \notin lent[r]
  BY <1>1 DEF IInv, TypeOK, LendingInv
<1>5. Holders[r] = {t} \cup lent[r] /\ Holders'[r] = {t} \cup lent'[r]
  BY <1>1, <1>2 DEF Holders, Group
<1>6. CASE Lend(t, r, u)
  <2>1. u # t /\ u \notin lent[r] /\ lent' = [lent EXCEPT ![r] = @ \cup {u}]
    BY <1>6 DEF Lend
  <2>2. lent'[r] = lent[r] \cup {u} /\ \A q \in Refs \ {r} : lent'[q] = lent[q]
    BY <1>4, <2>1
  <2>3. Holders'[r] = Holders[r] \cup {u}
    BY <1>5, <2>2
  <2>4. Holders' = [Holders EXCEPT ![r] = Holders[r] \cup {u}]
    BY <1>1, <2>2, <2>3, HoldersExcept
  <2>5. Node!Borrow(t, r, u)
    BY <1>1, <1>3, <1>5, <2>1, <2>4 DEF Node!Borrow
  <2>6. QED
    BY <2>5 DEF Node!Next
<1>7. CASE EndLend(t, r, u)
  <2>1. u \in lent[r] /\ lent' = [lent EXCEPT ![r] = @ \ {u}]
    BY <1>7 DEF EndLend
  <2>2. lent'[r] = lent[r] \ {u} /\ \A q \in Refs \ {r} : lent'[q] = lent[q]
    BY <1>4, <2>1
  <2>3. u # t /\ Holders'[r] = Holders[r] \ {u}
    BY <1>4, <1>5, <2>1, <2>2
  <2>4. Holders' = [Holders EXCEPT ![r] = Holders[r] \ {u}]
    BY <1>1, <2>2, <2>3, HoldersExcept
  <2>5. Node!GiveBack(t, r, u)
    BY <1>1, <1>3, <1>5, <2>1, <2>3, <2>4 DEF Node!GiveBack
  <2>6. QED
    BY <2>5 DEF Node!Next
<1>8. QED
  BY <1>6, <1>7

(* The steps SharedNode does not see: reads, writes by the exclusive       *)
(* holder, and the abort.                                                  *)
LEMMA AccessMapped ==
  ASSUME UNCHANGED <<owner, lent, alive, pc>>
  PROVE  UNCHANGED Node!vars
<1>1. Holders' = Holders /\ Writer' = Writer
  BY HoldersSame DEF Writer, Writers
<1>2. QED
  BY <1>1 DEF Node!vars

(* Every step is a step of SharedNode or invisible there.                  *)
LEMMA NextMapped ==
  ASSUME IInv, IInv', [Next]_vars
  PROVE  [Node!Next]_Node!vars
<1>1. CASE UNCHANGED vars
  BY <1>1, AccessMapped DEF vars
<1>2. ASSUME NEW t \in Threads, Abort(t) \/ Mutate(t)
      PROVE  UNCHANGED Node!vars
  BY <1>2, AccessMapped DEF Abort, Mutate
<1>3. ASSUME NEW t \in Threads, DecrementSub(t)
      PROVE  Node!Next
  <2>1. pc[t] = "sub" /\ arg[t] \in Refs /\ Owns(t, arg[t]) /\ FetchSub(t, arg[t])
    BY <1>3 DEF DecrementSub, IInv, OperationInv
  <2>2. QED
    BY <2>1, FetchSubMapped
<1>4. ASSUME NEW t \in Threads, Destroy(t) \/ EndUnique(t) \/ Consume(t)
      PROVE  Node!Next
  BY <1>4, DestroyMapped, EndUniqueMapped, ConsumeMapped
<1>5. ASSUME NEW t \in Threads, NEW r \in Refs, DecrementLoad(t, r) \/ IsOne(t, r)
      PROVE  Node!Next \/ UNCHANGED Node!vars
  BY <1>5, DecrementLoadMapped, IsOneMapped
<1>6. ASSUME NEW t \in Threads, NEW r \in Refs, DecrementExpectHigh(t, r)
      PROVE  Node!Next
  BY <1>6, FetchSubMapped DEF DecrementExpectHigh, Idle
<1>7. ASSUME NEW t \in Threads, NEW r \in Refs, Read(t, r)
      PROVE  UNCHANGED Node!vars
  BY <1>7, AccessMapped DEF Read
<1>8. ASSUME NEW t \in Threads, NEW r \in Refs, NEW n \in Refs, Increment(t, r, n)
      PROVE  Node!Next
  BY <1>8, IncrementMapped
<1>9. ASSUME NEW t \in Threads, NEW u \in Threads, NEW r \in Refs,
             Send(t, r, u) \/ Lend(t, r, u) \/ EndLend(t, r, u)
      PROVE  Node!Next
  BY <1>9, SendMapped, LendMapped
<1>10. QED
  BY <1>1, <1>2, <1>3, <1>4, <1>5, <1>6, <1>7, <1>8, <1>9 DEF Next

(* The reference count implements shared ownership: whatever the threads   *)
(* do, in whatever order, clones, drops, exclusive borrows and the free    *)
(* happen as SharedNode allows (rep.rs: Refcount, unref, UniqueRep).       *)
THEOREM CountImplementsSharing == Spec => SharedNodeKept
<1>1. Init => Node!Init
  BY InitMapped
<1>2. IInv /\ IInv' /\ [Next]_vars => [Node!Next]_Node!vars
  BY NextMapped
<1>3. QED
  BY <1>1, <1>2, Invariance, PTL DEF Spec, SharedNodeKept, Node!Spec

(* A step needs the node: without it there is no reference to reach it by  *)
(* and no operation under way.                                             *)
LEMMA StepsNeedNode ==
  ASSUME IInv, Next
  PROVE  alive
<1> SUFFICES ASSUME ~alive PROVE FALSE
  OBVIOUS
<1>1. Live = {} /\ \A r \in Refs : owner[r] = NoThread
  BY DEF IInv, NoUseAfterFree, Live
<1>2. \A t \in Threads : pc[t] = "idle"
  <2> SUFFICES ASSUME NEW t \in Threads, pc[t] # "idle" PROVE FALSE
    OBVIOUS
  <2>1. pc[t] \in PCs
    BY DEF IInv, TypeOK
  <2>2. pc[t] # "destroy"
    BY DEF IInv, DestroyIsExclusive
  <2>3. pc[t] # "overflow"
    BY <1>1, ThreadsAssumption DEF IInv, OperationInv
  <2>4. pc[t] \notin {"sub", "unique"}
    BY <1>1, ThreadsAssumption DEF IInv, OperationInv, Owns
  <2>5. QED
    BY <2>1, <2>2, <2>3, <2>4 DEF PCs
<1>3. ~ \E t \in Threads :
         Abort(t) \/ DecrementSub(t) \/ Destroy(t) \/ Mutate(t) \/ EndUnique(t) \/ Consume(t)
  BY <1>2 DEF Abort, DecrementSub, Destroy, Mutate, EndUnique, Consume
<1>4. ~ \E t \in Threads, r \in Refs :
         DecrementLoad(t, r) \/ DecrementExpectHigh(t, r) \/ IsOne(t, r) \/ Read(t, r)
  BY <1>1, ThreadsAssumption DEF DecrementLoad, DecrementExpectHigh, IsOne, Read, Owns
<1>5. ~ \E t \in Threads, r, n \in Refs : Increment(t, r, n)
  BY <1>1 DEF Increment
<1>6. ~ \E t, u \in Threads, r \in Refs : Send(t, r, u) \/ Lend(t, r, u) \/ EndLend(t, r, u)
  BY <1>1, ThreadsAssumption DEF Send, Lend, EndLend, Owns
<1>7. QED
  BY <1>3, <1>4, <1>5, <1>6 DEF Next

(* No thread takes any step on a node that has been freed: the invariant   *)
(* leaves no reference to reach it by and no operation under way (rep.rs:  *)
(* destroy).                                                               *)
THEOREM FreedIsFinal == Spec => QuietAfterFree
<1>1. IInv /\ [Next]_vars => [alive]_vars
  BY StepsNeedNode
<1>2. QED
  BY <1>1, Invariance, PTL DEF Spec, QuietAfterFree
=============================================================================
