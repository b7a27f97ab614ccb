---------------------------- MODULE ChunkingProofs ----------------------------
(***************************************************************************)
(* One step of the loop of chunk_document, for every text, chunk size and  *)
(* overlap: what TLC evaluates for short texts in MCKnowledgeIndex rests   *)
(* on these facts.                                                         *)
(***************************************************************************)
EXTENDS Chunking, TLAPS

\* A position to cut at is beyond the middle of the window, with its separator inside.
LEMMA CutIsInWindow ==
  ASSUME NEW text, IsText(text), NEW start \in 0..text.length-1,
         NEW p \in Separators(text, start), IsCut(text, start, p)
  PROVE  /\ p \in Nat
         /\ start < p /\ p + 2 <= start + Size /\ p + 2 <= text.length
         /\ p > start + Size \div 2
<1>1. p \in 0..text.length-2 /\ text.length \in Nat
  BY DEF Separators, IsText
<1>2. p + 2 <= WindowEnd(text, start) /\ p > start + Size \div 2
  BY DEF Separators, IsCut
<1>3. WindowEnd(text, start) <= start + Size /\ WindowEnd(text, start) <= text.length
  BY <1>1, ChunkAssumption DEF WindowEnd, Least
<1>4. Size \div 2 >= 0
  BY ChunkAssumption
<1>5. WindowEnd(text, start) \in Int
  BY <1>1, ChunkAssumption DEF WindowEnd, Least
<1> QED BY <1>1, <1>2, <1>3, <1>4, <1>5, ChunkAssumption

\* The loop of chunk_document always cuts something off, never more than the
\* chunk size and never beyond the text.
THEOREM ChunkIsBounded ==
  ASSUME NEW text, IsText(text), NEW start \in 0..text.length-1
  PROVE  /\ End(text, start) \in Nat
         /\ start < End(text, start)
         /\ End(text, start) <= start + Size
         /\ End(text, start) <= text.length
<1>1. CASE \E p \in Separators(text, start) : IsCut(text, start, p)
  <2> DEFINE cut == CHOOSE p \in Separators(text, start) : IsCut(text, start, p)
  <2>1. cut \in Separators(text, start) /\ IsCut(text, start, cut)
    BY <1>1
  <2>2. End(text, start) = IF cut \in text.stops THEN cut + 2 ELSE cut
    BY <1>1 DEF End
  <2>3. /\ cut \in Nat /\ start < cut
        /\ cut + 2 <= start + Size /\ cut + 2 <= text.length
    BY <2>1, CutIsInWindow
  <2> HIDE DEF cut
  <2> QED BY <2>2, <2>3, ChunkAssumption DEF IsText
<1>2. CASE ~\E p \in Separators(text, start) : IsCut(text, start, p)
  <2>1. End(text, start) = WindowEnd(text, start)
    BY <1>2 DEF End
  <2> QED BY <2>1, ChunkAssumption DEF WindowEnd, Least, IsText
<1> QED BY <1>1, <1>2

\* The next chunk starts further on, at a position of the text unless this chunk
\* was the last, without a gap, and repeats at most the overlap: the loop ends, and
\* every character is in a chunk, also when a separator makes a chunk shorter than
\* the overlap.
THEOREM NextChunkFollows ==
  ASSUME NEW text, IsText(text), NEW start \in 0..text.length-1
  PROVE  /\ start < NextStart(text, start)
         /\ NextStart(text, start) <= End(text, start)
         /\ End(text, start) <= NextStart(text, start) + Overlap
         /\ End(text, start) < text.length => NextStart(text, start) \in 0..text.length-1
<1>1. /\ End(text, start) \in Nat
      /\ start < End(text, start)
      /\ End(text, start) <= text.length
  BY ChunkIsBounded
<1>2. text.length \in Nat
  BY DEF IsText
<1> QED BY <1>1, <1>2, ChunkAssumption DEF NextStart, Greatest

\* With an overlap of at most half the chunk size, as configured, the next chunk
\* starts at least the difference further on: there is no stretch of the text that
\* is repeated character by character.
THEOREM ChunksMakeProgress ==
  ASSUME NEW text, IsText(text), NEW start \in 0..text.length-1,
         2 * Overlap <= Size, End(text, start) < text.length
  PROVE  NextStart(text, start) >= start + (Size \div 2 - Overlap)
<1> DEFINE half == Size \div 2
<1>1. half \in Nat /\ half <= Size /\ Overlap <= half
  BY ChunkAssumption
<1>2. End(text, start) \in Nat /\ End(text, start) >= start + half
  <2>1. CASE \E p \in Separators(text, start) : IsCut(text, start, p)
    <3> DEFINE cut == CHOOSE p \in Separators(text, start) : IsCut(text, start, p)
    <3>1. cut \in Separators(text, start) /\ IsCut(text, start, cut)
      BY <2>1
    <3>2. End(text, start) = IF cut \in text.stops THEN cut + 2 ELSE cut
      BY <2>1 DEF End
    <3>3. cut \in Nat /\ cut > start + half
      BY <3>1, CutIsInWindow
    <3> HIDE DEF cut, half
    <3> QED BY <1>1, <3>2, <3>3
  <2>2. CASE ~\E p \in Separators(text, start) : IsCut(text, start, p)
    <3>1. End(text, start) = WindowEnd(text, start)
      BY <2>2 DEF End
    <3>2. WindowEnd(text, start) = start + Size
      BY <3>1, ChunkAssumption DEF WindowEnd, Least, IsText
    <3> QED BY <1>1, <3>1, <3>2, ChunkAssumption
  <2> QED BY <2>1, <2>2
<1> HIDE DEF half
<1>3. NextStart(text, start) >= start + (half - Overlap)
  BY <1>1, <1>2, ChunkAssumption DEF NextStart, Greatest
<1> QED BY <1>3 DEF half
=============================================================================
