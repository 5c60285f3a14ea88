----------------------------- MODULE QuicCrypto -----------------------------
(***************************************************************************)
(* How the handshake of QUIC is put together from the CRYPTO frames of one *)
(* or several decrypted Initial packets (QUICDefragCrypto of protocol.c),  *)
(* and what is read off the result.                                        *)
(*                                                                         *)
(* A frame is [type, off, len]: "pad" stands for padding and pings,        *)
(* "crypto" carries len units of the handshake from off on, and any other  *)
(* type is one the engine cannot read.                                     *)
(***************************************************************************)
EXTENDS Integers, SequencesExt

CONSTANTS MaxPieces,   \* MAX_DEFRAG_PIECES
          DefragRoom   \* units the buffer holds

Crypto(off, len) == [type |-> "crypto", off |-> off, len |-> len]
Pad == [type |-> "pad", off |-> 0, len |-> 0]
Ack == [type |-> "ack", off |-> 0, len |-> 0]
PieceOf(f) == [off |-> f.off, len |-> f.len]
End(r) == r.off + r.len
Larger(a, b) == IF a > b THEN a ELSE b

\* One frame: the pieces so far, the end of what was written or zeroed, and
\* each unit of the buffer: "data", "zero", or "junk" of the stack.
NoPieces == [ok |-> TRUE, ranges |-> <<>>, zeroed |-> 0,
             buf |-> [i \in 0..(DefragRoom - 1) |-> "junk"]]
Written(buf, zeroed, f) ==
  [i \in DOMAIN buf |-> IF i >= f.off /\ i < End(f) THEN "data"
                        ELSE IF i >= zeroed /\ i < f.off THEN "zero" ELSE buf[i]]
\* Mutant: the gap before a piece is left as it is.
WithPieceUnzeroed(d, f) ==
  [d EXCEPT !.ranges = Append(@, PieceOf(f)), !.zeroed = Larger(@, End(f)),
            !.buf = Written(@, f.off, f)]
WithPiece(d, f) ==
  [d EXCEPT !.ranges = Append(@, PieceOf(f)), !.zeroed = Larger(@, End(f)),
            !.buf = Written(@, d.zeroed, f)]
Unreadable(d, f) ==
  \/ f.type \notin {"pad", "crypto"}
  \/ f.type = "crypto" /\ (Len(d.ranges) >= MaxPieces \/ End(f) > DefragRoom)
Repeats(d, f) == \E i \in DOMAIN d.ranges : d.ranges[i] = PieceOf(f)
AddFrame(d, f) ==
  IF ~d.ok \/ Unreadable(d, f) THEN [d EXCEPT !.ok = FALSE]
  ELSE IF f.type = "pad" \/ Repeats(d, f) THEN d
  ELSE WithPiece(d, f)

\* The pieces in the order of their offsets, joined where they touch.
ByOffset(ranges) == SortSeq(ranges, LAMBDA r, s : r.off < s.off)
Merged(r, s) == [r EXCEPT !.len = Larger(End(r), End(s)) - r.off]
\* Mutant: pieces must overlap to be joined.
JoinOverlapping(joined, r) ==
  IF joined # <<>> /\ r.off < End(Last(joined))
  THEN Append(Front(joined), Merged(Last(joined), r))
  ELSE Append(joined, r)
Join(joined, r) ==
  IF joined # <<>> /\ r.off <= End(Last(joined))
  THEN Append(Front(joined), Merged(Last(joined), r))
  ELSE Append(joined, r)
Joined(ranges) == FoldLeft(Join, <<>>, ByOffset(ranges))

\* QUICDefragCrypto: the units of the handshake up to the last piece, and
\* whether the pieces cover all of them from the first.
DefragOf(d, joined) ==
  [found |-> d.ok /\ d.ranges # <<>>,
   full |-> Len(joined) = 1 /\ joined[1].off = 0,
   len |-> FoldLeft(LAMBDA m, r : Larger(m, End(r)), 0, d.ranges),
   buf |-> d.buf]
DefragFrames(d) == DefragOf(d, Joined(d.ranges))
PiecesAfter(frames) ==
  LET after[i \in 0..Len(frames)] ==
        IF i = 0 THEN NoPieces
        ELSE CHOOSE next \in {AddFrame(d, frames[i]) : d \in {after[i - 1]}} : TRUE
  IN after[Len(frames)]
Defrag(frames) == CHOOSE r \in {DefragFrames(d) : d \in {PiecesAfter(frames)}} : TRUE

-----------------------------------------------------------------------------
\* What the pieces together cover, without any order.
Covered(frames) ==
  UNION {{u \in 0..(DefragRoom - 1) : u >= f.off /\ u < End(f)} : f \in {g \in ToSet(frames) : g.type = "crypto"}}
Pieces(frames) == {f \in ToSet(frames) : f.type = "crypto"}
Readable(frames) ==
  /\ \A f \in ToSet(frames) : f.type \in {"pad", "crypto"} /\ End(f) <= DefragRoom
  /\ Pieces(frames) # {} /\ Cardinality(Pieces(frames)) <= MaxPieces
Top(frames) == CHOOSE n \in 0..DefragRoom :
                 /\ \A f \in Pieces(frames) : End(f) <= n
                 /\ \E f \in Pieces(frames) : End(f) = n

\* Whatever the order, overlap and repetition of the frames, the handshake is
\* taken for complete exactly when its first units are all there, the part
\* handed on is as long as what arrived, what arrived is in its place and
\* no unit of the buffer that is handed on is left over from before.
AssemblesRight(frames) ==
  LET d == Defrag(frames)
  IN /\ Readable(frames) => d.found
     /\ d.found =>
          /\ d.len = Top(frames)
          /\ d.full <=> /\ Covered(frames) = 0..(d.len - 1)
                        /\ \E f \in Pieces(frames) : f.off = 0
          /\ \A u \in 0..(d.len - 1) : d.buf[u] = IF u \in Covered(frames) THEN "data" ELSE "zero"
=============================================================================
