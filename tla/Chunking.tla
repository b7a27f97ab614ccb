------------------------------- MODULE Chunking -------------------------------
(***************************************************************************)
(* chunk_document: how a document is cut into overlapping chunks for the   *)
(* vector index.  A text is its length and the positions where a paragraph *)
(* break and a full stop with a space begin (two characters each); a chunk *)
(* is the interval it is cut from, before white space around it is taken   *)
(* off.                                                                    *)
(***************************************************************************)
EXTENDS Integers, FiniteSetsExt

CONSTANTS
  Size,     \* rag_chunk_size, at least 200 in the code
  Overlap   \* rag_chunk_overlap

ASSUME ChunkAssumption == Size \in Nat /\ Overlap \in Nat /\ Overlap < Size

Texts(lengths) ==
  UNION {[length : {n}, breaks : SUBSET (0..n-2), stops : SUBSET (0..n-2)] : n \in lengths}
IsText(text) ==
  /\ text.length \in Nat
  /\ text.breaks \subseteq 0..text.length-2 /\ text.stops \subseteq 0..text.length-2

Least(a, b)    == IF a <= b THEN a ELSE b
Greatest(a, b) == IF a >= b THEN a ELSE b

\* The window that starts here, and the separators that lie wholly in it.
WindowEnd(text, start) == Least(start + Size, text.length)
Separators(text, start) ==
  {p \in text.breaks \cup text.stops : start <= p /\ p + 2 <= WindowEnd(text, start)}

\* The last separator is where to cut if it is beyond the middle of the window; a
\* full stop stays with the sentence it ends.
IsCut(text, start, p) ==
  /\ WindowEnd(text, start) < text.length
  /\ p \in Separators(text, start)
  /\ \A q \in Separators(text, start) : q <= p
  /\ p > start + Size \div 2

End(text, start) ==
  IF \E p \in Separators(text, start) : IsCut(text, start, p)
  THEN LET p == CHOOSE p \in Separators(text, start) : IsCut(text, start, p)
       IN  IF p \in text.stops THEN p + 2 ELSE p
  ELSE WindowEnd(text, start)

NextStart(text, start) == Greatest(End(text, start) - Overlap, start + 1)

\* The starts of the chunks, and what they are cut from.
Starts(text) ==
  LET from[s \in 0..text.length] ==
        {s} \cup IF End(text, s) >= text.length THEN {} ELSE from[NextStart(text, s)]
  IN  from[0]

Chunks(text) == {s..End(text, s)-1 : s \in Starts(text)}

\* Reference: every character is in a chunk, no chunk is longer than asked for, and
\* two chunks in a row share at most the overlap.  For texts that TLC can enumerate.
ChunksAreSound(text) ==
  /\ UNION Chunks(text) = 0..text.length-1
  /\ \A c \in Chunks(text) : Cardinality(c) \in 1..Size
  /\ \A s, t \in Starts(text) : t > s => t + Overlap >= End(text, s)
=============================================================================
