----------------------------- MODULE ByteSinks -----------------------------
(***************************************************************************)
(* The ways to build a cord byte by byte, which keep bytes in a buffer     *)
(* while the program's own code runs: Extend<u8> for Cord (src/src/cord.rs) *)
(* and for CordBuffer (src/src/buffer.rs) between two calls of the         *)
(* iterator's next, and CordWriter (src/src/bytes_impl.rs) between any two *)
(* calls.  That code may panic.                                            *)
(*                                                                         *)
(* A cord is its bytes here; take_append_buffer, which Cord models, moves  *)
(* some of the last bytes of the cord to the buffer.                       *)
(***************************************************************************)
EXTENDS Integers, Sequences

CONSTANTS
    ChunkSize,    \* the size of Extend's buffer, 256 in the code
    Rooms,        \* the spare capacities that take_append_buffer may offer
    Given,        \* the bytes of the cord at the start
    SinkBound     \* bound on the bytes written

ASSUME SinkAssumption ==
    /\ ChunkSize \in Nat \ {0}
    /\ Rooms \subseteq Nat \ {0}
    /\ Given \in Seq(Nat)
    /\ SinkBound \in Nat

VARIABLES
    sink,      \* "none", or what has bytes of the cord: "extend", "writer",
               \* "buffer", or "filling" while that buffer is extended
    bytes,     \* the cord
    filled,    \* what is in the buffer
    room,      \* its spare capacity, or NoBuffer
    spare,     \* what CordBuffer::extend wrote behind it so far, past the length
    written    \* all the bytes that were handed over so far, unless refused; to
               \* CordBuffer::extend, which sets the length last, at its end

sinkVars == <<sink, bytes, filled, room, spare, written>>

NoBuffer == -1

SinkInit ==
    /\ sink = "none"
    /\ bytes = Given
    /\ filled = <<>>
    /\ room = NoBuffer
    /\ spare = <<>>
    /\ written = <<>>

MayWrite(n) == Len(written) + Len(spare) + n <= SinkBound

(* The n bytes handed over next: each byte is told from the others. *)
Fresh(n) == [i \in 1..n |-> Len(Given) + Len(written) + Len(spare) + i]

-----------------------------------------------------------------------------
BeginExtend ==
    /\ sink = "none"
    /\ sink' = "extend" /\ filled' = <<>> /\ room' = ChunkSize
    /\ UNCHANGED <<bytes, spare, written>>

(* The iterator returns a byte: a full buffer is appended. *)
NextByte ==
    /\ sink = "extend" /\ MayWrite(1)
    /\ written' = written \o Fresh(1)
    /\ LET all == filled \o Fresh(1)
       IN  IF Len(all) = ChunkSize
           THEN bytes' = bytes \o all /\ filled' = <<>> /\ room' = ChunkSize
           ELSE filled' = all /\ room' = room - 1 /\ UNCHANGED bytes
    /\ UNCHANGED <<sink, spare>>

(* Drop for Guard, on a cord cs and a buffer that holds fs *)
DropGuard(cs, fs) ==
    /\ bytes' = IF fs = <<>> THEN cs ELSE cs \o fs
    /\ sink' = "none" /\ filled' = <<>> /\ room' = NoBuffer
    /\ UNCHANGED <<spare, written>>

(* The iterator is at its end: the guard is dropped once it is emptied. *)
EndExtend == sink = "extend" /\ DropGuard(bytes \o filled, <<>>)

(* next panics. *)
NextPanics == sink = "extend" /\ DropGuard(bytes, filled)

-----------------------------------------------------------------------------
NewWriter ==
    /\ sink = "none"
    /\ sink' = "writer"
    /\ UNCHANGED <<bytes, filled, room, spare, written>>

(* The writer's state w after flush. *)
Flushed(w) == [bytes |-> w.bytes \o w.filled, filled |-> <<>>, room |-> NoBuffer]

Writer == [bytes |-> bytes, filled |-> filled, room |-> room]

(* take_append_buffer on the cord of w: the last k bytes move. *)
TakeAppendBuffer(w, k, r) ==
    [bytes  |-> SubSeq(w.bytes, 1, Len(w.bytes) - k),
     filled |-> SubSeq(w.bytes, Len(w.bytes) - k + 1, Len(w.bytes)),
     room   |-> r]

(* Mutant: the old buffer is replaced before it is flushed. *)
BufferMutDrops(k, r) ==
    IF room \in {NoBuffer, 0} THEN TakeAppendBuffer([Writer EXCEPT !.filled = <<>>], k, r)
                              ELSE Writer

BufferMut(k, r) ==
    IF room \in {NoBuffer, 0} THEN TakeAppendBuffer(Flushed(Writer), k, r) ELSE Writer

(* n bytes are written to the spare capacity. *)
Filled(w, n) == [bytes |-> w.bytes, filled |-> w.filled \o Fresh(n), room |-> w.room - n]

(* n bytes are appended to the cord, behind those of the buffer. *)
Appended(w, n) == [bytes |-> (w.bytes \o w.filled) \o Fresh(n), filled |-> <<>>, room |-> NoBuffer]

Become(w) == bytes' = w.bytes /\ filled' = w.filled /\ room' = w.room

Tails == 0..(Len(bytes) + Len(filled))

ChunkMut ==
    /\ sink = "writer"
    /\ \E k \in Tails, r \in Rooms : Become(BufferMut(k, r))
    /\ UNCHANGED <<sink, spare, written>>

(* put_slice, and Write::write: a slice that does not fit is appended. *)
PutSlice(n) ==
    /\ sink = "writer" /\ MayWrite(n)
    /\ written' = written \o Fresh(n)
    /\ \E k \in Tails, r \in Rooms :
          LET w == BufferMut(k, r)
          IN  IF n <= w.room
              THEN Become(Filled(w, n))
              ELSE Become(Appended(w, n))
    /\ UNCHANGED <<sink, spare>>

(* advance_mut(n), after n bytes of the chunk were written *)
AdvanceMut(n) ==
    /\ sink = "writer" /\ room # NoBuffer /\ n <= room /\ MayWrite(n)
    /\ written' = written \o Fresh(n)
    /\ LET w == Filled(Writer, n)
       IN  Become(IF w.room = 0 THEN Flushed(w) ELSE w)
    /\ UNCHANGED <<sink, spare>>

Flush ==
    /\ sink = "writer"
    /\ Become(Flushed(Writer))
    /\ UNCHANGED <<sink, spare, written>>

(* into_inner; Drop, at the end of the writer's life, or on a panic of the *)
(* program or of advance_mut, whose assertions change nothing.             *)
EndWriter ==
    /\ sink = "writer"
    /\ Become(Flushed(Writer))
    /\ sink' = "none"
    /\ UNCHANGED <<spare, written>>

-----------------------------------------------------------------------------
(* take_append_buffer, called by the program *)
TakeBuffer ==
    /\ sink = "none"
    /\ \E k \in Tails, r \in Rooms : Become(TakeAppendBuffer(Writer, k, r))
    /\ sink' = "buffer"
    /\ UNCHANGED <<spare, written>>

(* Extend<u8> for CordBuffer: the bytes go to the spare capacity. *)
BeginBufferExtend ==
    /\ sink = "buffer"
    /\ sink' = "filling" /\ spare' = <<>>
    /\ UNCHANGED <<bytes, filled, room, written>>

(* The iterator returns a byte for the next slot. *)
NextSlot ==
    /\ sink = "filling" /\ Len(spare) < room /\ MayWrite(1)
    /\ spare' = spare \o Fresh(1)
    /\ UNCHANGED <<sink, bytes, filled, room, written>>

(* The iterator ends or, with every slot written, has a byte too many,     *)
(* which is refused with a panic: set_len comes first in either case.      *)
EndBufferExtend ==
    /\ sink = "filling"
    /\ filled' = filled \o spare /\ room' = room - Len(spare)
    /\ written' = written \o spare
    /\ sink' = "buffer" /\ spare' = <<>>
    /\ UNCHANGED bytes

(* next panics: the length is not set and the buffer is as it was. *)
BufferNextPanics ==
    /\ sink = "filling"
    /\ sink' = "buffer" /\ spare' = <<>>
    /\ UNCHANGED <<bytes, filled, room, written>>

(* append(buffer) *)
AppendBuffer ==
    /\ sink = "buffer"
    /\ Become(Flushed(Writer))
    /\ sink' = "none"
    /\ UNCHANGED <<spare, written>>

SinkNext ==
    \/ BeginExtend \/ NextByte \/ EndExtend \/ NextPanics
    \/ NewWriter \/ ChunkMut \/ Flush \/ EndWriter
    \/ TakeBuffer \/ AppendBuffer
    \/ BeginBufferExtend \/ NextSlot \/ EndBufferExtend \/ BufferNextPanics
    \/ \E n \in 0..SinkBound : PutSlice(n) \/ AdvanceMut(n)

SinkSpec == SinkInit /\ [][SinkNext]_sinkVars

-----------------------------------------------------------------------------
(***************************************************************************)
(* Between the cord and the buffer no byte that was handed over is lost,   *)
(* repeated or out of order, the bytes that the buffer took from the cord  *)
(* included, and once nothing else has them all of them are in the cord.   *)
(* A panic of the iterator costs Extend for Cord none of the bytes it has  *)
(* consumed ("must not lose the up-to-255 already-consumed bytes",         *)
(* cord.rs), and one behind a writer none that it buffers ("Buffered data  *)
(* is appended to the cord when the writer is dropped", bytes_impl.rs).    *)
(* Extend for CordBuffer takes all bytes of a call or, when the iterator   *)
(* panics, none: those of that call are lost, those before it are not.     *)
(***************************************************************************)
BytesKept ==
    /\ bytes \o filled = Given \o written
    /\ sink = "none" => bytes = Given \o written
=============================================================================
