--------------------------- MODULE ExternalOwner ---------------------------
(***************************************************************************)
(* The owners of external bytes (src/src/rep/external.rs), whose code runs *)
(* inside the library: as_ref while a node is built, which may panic, and  *)
(* the destructor while a tree is torn down, which may panic too and may   *)
(* drop further cords that the owner holds.                                *)
(*                                                                         *)
(* An owner has at most one node, and the node goes by its name; a leaf is *)
(* a btree node whose edges are external nodes.  The program runs in one   *)
(* thread: CordRefcount is about the races on a count.                     *)
(***************************************************************************)
EXTENDS Integers, Sequences, FiniteSets

CONSTANTS
    UserOwners,    \* values passed to from_owner
    GlobalOwners,  \* Vec<u8>, String, Box<[u8]>: long ones are adopted
    Leaves,        \* the btree nodes that may be allocated
    Vars,          \* the Cord variables of the program
    NoNode,        \* the cord that has no tree
    MaxEdges       \* bound on the edges of a leaf

Owners == UserOwners \cup GlobalOwners

Nodes == Owners \cup Leaves

ASSUME OwnerAssumption ==
    /\ UserOwners \cap GlobalOwners = {} /\ Owners \cap Leaves = {}
    /\ NoNode \notin Nodes
    /\ IsFiniteSet(Owners) /\ IsFiniteSet(Leaves) /\ IsFiniteSet(Vars)

VARIABLES
    place,    \* where an owner is: with the program, guarded, in its node, dropped
    count,    \* the reference count of each node, 0 if it is not allocated
    edges,    \* the edges of each leaf
    inner,    \* the cord that an owner holds
    roots,    \* the Cord variables
    guard,    \* the owner whose as_ref runs, and the variable its cord is for
    loops,    \* the destroy loops under way, the innermost last
    panicked, \* "no", "unwinding", "caught" (at least once), "aborted"
    lost      \* the references given up by a loop that a panic cut short

ownerVars == <<place, count, edges, inner, roots, guard, loops, panicked, lost>>

NoGuard == [owner |-> NoNode, into |-> NoNode]

OwnerInit ==
    /\ place = [o \in Owners |-> "program"]
    /\ count = [n \in Nodes |-> 0]
    /\ edges = [l \in Leaves |-> <<>>]
    /\ inner = [o \in Owners |-> NoNode]
    /\ roots = [x \in Vars |-> NoNode]
    /\ guard = NoGuard
    /\ loops = <<>>
    /\ panicked = "no"
    /\ lost = [n \in Nodes |-> 0]

(* The program runs, or the part of it that is called from as_ref. *)
Running == loops = <<>> /\ panicked \in {"no", "caught"}

IsFree(x) == roots[x] = NoNode /\ guard.into # x

(* A loop that gives up the references es and then frees the leaf, if any. *)
Loop(leaf, es) == [leaf |-> leaf, edges |-> es]

Occurrences(n, es) == Cardinality({i \in 1..Len(es) : es[i] = n})

(* The same, of all the sequences f[k]. *)
OccurrencesIn(n, f, keys) ==
    Cardinality(UNION {{k} \X {i \in 1..Len(f[k]) : f[k][i] = n} : k \in keys})

(* The references on n that some loops still have to give up. *)
InLoops(n, ls) == OccurrencesIn(n, [i \in 1..Len(ls) |-> ls[i].edges], 1..Len(ls))

-----------------------------------------------------------------------------
(* from_owner, create_owner up to as_ref; the owner may hold the cord y. *)
CreateOwner(o, x, y) ==
    /\ Running /\ guard = NoGuard
    /\ o \in UserOwners /\ place[o] = "program"
    /\ x # y /\ IsFree(x)
    /\ place' = [place EXCEPT ![o] = "guarded"]
    /\ count' = [count EXCEPT ![o] = 1]
    /\ inner' = [inner EXCEPT ![o] = roots[y]]
    /\ roots' = [roots EXCEPT ![y] = NoNode]
    /\ guard' = [owner |-> o, into |-> x]
    /\ UNCHANGED <<edges, loops, panicked, lost>>

(* as_ref returned bytes: the guard is forgotten. *)
AsRefReturns ==
    /\ Running /\ guard # NoGuard
    /\ place' = [place EXCEPT ![guard.owner] = "node"]
    /\ roots' = [roots EXCEPT ![guard.into] = guard.owner]
    /\ guard' = NoGuard
    /\ UNCHANGED <<count, edges, inner, loops, panicked, lost>>

(***************************************************************************)
(* The destructor of an owner, whose box is freed whether it panics or not. *)
(* What it holds is dropped after it, or on unwinding; the loops around it *)
(* do not go on after a panic, and their leaves are never freed.  A second *)
(* panic on unwinding aborts.                                              *)
(***************************************************************************)
Destructor(o, around, unwinding, panics) ==
    LET cut == panics /\ ~unwinding
    IN  /\ place' = [place EXCEPT ![o] = "dropped"]
        /\ inner' = [inner EXCEPT ![o] = NoNode]
        /\ LET held == Loop(NoNode, IF inner[o] = NoNode THEN <<>> ELSE <<inner[o]>>)
           IN  loops' = IF cut THEN <<held>> ELSE Append(around, held)
        /\ panicked' = IF panics /\ unwinding THEN "aborted"
                       ELSE IF panics \/ unwinding THEN "unwinding" ELSE panicked
        /\ lost' = IF cut THEN [n \in Nodes |-> lost[n] + InLoops(n, around)] ELSE lost

(* Mutant: no guard around as_ref. *)
AsRefFailsUnguarded(panics, dropPanics) ==
    /\ Running /\ guard # NoGuard
    /\ guard' = NoGuard
    /\ dropPanics = FALSE
    /\ panicked' = IF panics THEN "caught" ELSE panicked
    /\ UNCHANGED <<place, count, inner, loops, lost, edges, roots>>

(* as_ref panicked or returned nothing: the guard frees the node. *)
AsRefFails(panics, dropPanics) ==
    /\ Running /\ guard # NoGuard
    /\ guard' = NoGuard
    /\ count' = [count EXCEPT ![guard.owner] = 0]
    /\ Destructor(guard.owner, <<>>, panics, dropPanics)
    /\ UNCHANGED <<edges, roots>>

(* From<Vec<u8>> and the like: a short or wasteful buffer is copied.  The  *)
(* copy is not followed further.                                           *)
FromGlobal(o, x, adopt) ==
    /\ Running /\ o \in GlobalOwners /\ place[o] = "program" /\ IsFree(x)
    /\ IF adopt THEN /\ place' = [place EXCEPT ![o] = "node"]
                     /\ count' = [count EXCEPT ![o] = 1]
                     /\ roots' = [roots EXCEPT ![x] = o]
                ELSE /\ place' = [place EXCEPT ![o] = "dropped"]
                     /\ UNCHANGED <<count, roots>>
    /\ UNCHANGED <<edges, inner, guard, loops, panicked, lost>>

CloneCord(x, y) ==
    /\ Running /\ IsFree(y) /\ roots[x] # NoNode
    /\ count' = [count EXCEPT ![roots[x]] = @ + 1]
    /\ roots' = [roots EXCEPT ![y] = roots[x]]
    /\ UNCHANGED <<place, edges, inner, guard, loops, panicked, lost>>

(***************************************************************************)
(* append_cord of a cord y that is one external node: x becomes that node, *)
(* or a leaf with it as the last edge, changed in place or copied.         *)
(***************************************************************************)
AppendCord(x, y) ==
    LET r == roots[x]
        o == roots[y]
        IsSpare(l) == count[l] = 0 /\ edges[l] = <<>>
    IN  /\ Running /\ x # y /\ guard.into # x
        /\ o \in Owners
        /\ \/ /\ r = NoNode
              /\ roots' = [roots EXCEPT ![x] = o]
              /\ count' = [count EXCEPT ![o] = @ + 1]
              /\ UNCHANGED edges
           \/ \E l \in Leaves :
              /\ r \in Owners /\ IsSpare(l)
              /\ roots' = [roots EXCEPT ![x] = l]
              /\ edges' = [edges EXCEPT ![l] = <<r, o>>]
              /\ count' = [count EXCEPT ![l] = 1, ![o] = @ + 1]
           \/ /\ r \in Leaves /\ count[r] = 1 /\ Len(edges[r]) < MaxEdges
              /\ edges' = [edges EXCEPT ![r] = Append(@, o)]
              /\ count' = [count EXCEPT ![o] = @ + 1]
              /\ UNCHANGED roots
           \/ \E l \in Leaves :
              /\ r \in Leaves /\ count[r] > 1 /\ Len(edges[r]) < MaxEdges /\ IsSpare(l)
              /\ roots' = [roots EXCEPT ![x] = l]
              /\ edges' = [edges EXCEPT ![l] = Append(edges[r], o)]
              /\ count' = [n \in Nodes |->
                             IF n = l THEN 1 ELSE IF n = r THEN count[r] - 1
                             ELSE count[n] + Occurrences(n, Append(edges[r], o))]
        /\ UNCHANGED <<place, inner, guard, loops, panicked, lost>>

(* Drop for Cord *)
DropCord(x) ==
    /\ Running /\ roots[x] # NoNode
    /\ roots' = [roots EXCEPT ![x] = NoNode]
    /\ loops' = <<Loop(NoNode, <<roots[x]>>)>>
    /\ UNCHANGED <<place, count, edges, inner, guard, panicked, lost>>

(* From<Cord> for Vec<u8>: into_global_vec if the allocation is unshared;  *)
(* otherwise the bytes are copied and the cord is dropped, as DropCord.    *)
IntoVec(x) ==
    /\ Running
    /\ roots[x] \in GlobalOwners /\ count[roots[x]] = 1
    /\ place' = [place EXCEPT ![roots[x]] = "program"]
    /\ count' = [count EXCEPT ![roots[x]] = 0]
    /\ roots' = [roots EXCEPT ![x] = NoNode]
    /\ UNCHANGED <<edges, inner, guard, loops, panicked, lost>>

-----------------------------------------------------------------------------
Innermost == loops[Len(loops)]

Around == SubSeq(loops, 1, Len(loops) - 1)

(* The loops once the innermost one has given up its first reference. *)
Stepped == Append(Around, [Innermost EXCEPT !.edges = Tail(@)])

InLoop == loops # <<>> /\ panicked # "aborted"

(* A round of unref_edges or destroy on a reference that is not the last, *)
(* or that is the last one on a leaf.                                      *)
GiveUp ==
    /\ InLoop /\ Innermost.edges # <<>>
    /\ LET n == Head(Innermost.edges)
       IN  /\ count' = [count EXCEPT ![n] = @ - 1]
           /\ \/ count[n] > 1 /\ loops' = Stepped
              \/ count[n] = 1 /\ n \in Leaves /\ loops' = Append(Stepped, Loop(n, edges[n]))
    /\ UNCHANGED <<place, edges, inner, roots, guard, panicked, lost>>

(* delete, release, release_global on the last reference on an external   *)
(* node: the allocator's own buffers have no destructor.                   *)
Delete(panics) ==
    /\ InLoop /\ Innermost.edges # <<>>
    /\ LET o == Head(Innermost.edges)
       IN  /\ o \in Owners /\ count[o] = 1
           /\ o \in GlobalOwners => ~panics
           /\ count' = [count EXCEPT ![o] = 0]
           /\ Destructor(o, Stepped, panicked = "unwinding", panics)
    /\ UNCHANGED <<edges, roots, guard>>

(* The end of a loop: its leaf is freed.  The panic is caught once it has *)
(* unwound all of them.                                                    *)
EndLoop ==
    /\ InLoop /\ Innermost.edges = <<>>
    /\ loops' = Around
    /\ edges' = [l \in Leaves |-> IF l = Innermost.leaf THEN <<>> ELSE edges[l]]
    /\ panicked' = IF panicked = "unwinding" /\ Around = <<>> THEN "caught" ELSE panicked
    /\ UNCHANGED <<place, count, inner, roots, guard, lost>>

OwnerNext ==
    \/ \E o \in Owners, x, y \in Vars : CreateOwner(o, x, y)
    \/ AsRefReturns
    \/ \E panics, dropPanics \in BOOLEAN : AsRefFails(panics, dropPanics)
    \/ \E o \in Owners, x \in Vars, adopt \in BOOLEAN : FromGlobal(o, x, adopt)
    \/ \E x, y \in Vars : CloneCord(x, y) \/ AppendCord(x, y)
    \/ \E x \in Vars : DropCord(x) \/ IntoVec(x)
    \/ GiveUp
    \/ \E panics \in BOOLEAN : Delete(panics)
    \/ EndLoop

OwnerSpec == OwnerInit /\ [][OwnerNext]_ownerVars

-----------------------------------------------------------------------------
(* The references on n that the program, owners, leaves and loops hold. *)
References(n) ==
    Cardinality({x \in Vars : roots[x] = n})
    + Cardinality({o \in Owners : inner[o] = n})
    + OccurrencesIn(n, edges, {l \in Leaves : count[l] > 0})
    + InLoops(n, loops)

(***************************************************************************)
(* "The owner is moved into the cord and retained while any cord references *)
(* its storage.  It is dropped after the final such reference is released": *)
(* an owner in its node is dropped or given back exactly when the last of  *)
(* its references goes, an owner that made no cord is dropped, and none is *)
(* forgotten, whatever as_ref and the destructors do.  Only the owners     *)
(* behind a destructor that panicked may be kept for ever.                 *)
(***************************************************************************)
OwnersKept ==
    panicked # "aborted" =>
       /\ \A o \in Owners :
            \/ place[o] = "node" /\ count[o] > 0 /\ count[o] = References(o) + lost[o]
            \/ place[o] = "guarded" /\ guard.owner = o /\ count[o] = 1 /\ References(o) = 0
            \/ /\ place[o] \in {"program", "dropped"}
               /\ count[o] = 0 /\ References(o) = 0 /\ lost[o] = 0
       /\ \A l \in Leaves : count[l] = References(l) + lost[l]
       /\ panicked = "no" => \A n \in Nodes : lost[n] = 0
=============================================================================
