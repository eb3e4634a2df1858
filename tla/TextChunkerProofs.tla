------------------------- MODULE TextChunkerProofs -------------------------
(***************************************************************************)
(* Theorems about TextChunker, for every text, document and setting: IInv  *)
(* is an inductive invariant, it contains what is claimed about the        *)
(* chunks, and every round brings the end nearer.                          *)
(***************************************************************************)
EXTENDS TextChunker, TLAPS

\* The setting of a splitting: what the constructor lets through.
LEMMA SettingRange ==
    ASSUME TypeOK
    PROVE  /\ size \in Nat /\ overlap \in Nat
           /\ size >= 1 /\ overlap < size
  BY SettingsAssumption DEF TypeOK, size, overlap

\* The section being split is a text, neither empty nor anything but characters.
LEMMA SectionIsText ==
    ASSUME TypeOK, section <= Len(document)
    PROVE  /\ section \in DOMAIN document
           /\ document[section] \in Texts
           /\ Length \in Nat /\ Length >= 1
<1>1. document \in Seq(Texts)
  BY DocumentsAssumption DEF TypeOK
<1>2. section \in 1 .. Len(document)
  BY <1>1 DEF TypeOK
<1>3. document[section] \in Texts
  BY <1>1, <1>2
<1>4. document[section] \in Seq(Characters) /\ document[section] # <<>>
  BY <1>3, TextsAssumption
<1> QED BY <1>1, <1>2, <1>3, <1>4 DEF Length

\* The same, one step later.
LEMMA SectionIsTextPrimed ==
    ASSUME TypeOK', section' <= Len(document')
    PROVE  Length' \in Nat /\ Length' >= 1
<1>1. document' \in Seq(Texts)
  BY DocumentsAssumption DEF TypeOK
<1>2. section' \in 1 .. Len(document')
  BY <1>1 DEF TypeOK
<1>3. document'[section'] \in Seq(Characters) /\ document'[section'] # <<>>
  BY <1>1, <1>2, TextsAssumption
<1> QED BY <1>3 DEF Length

\* A cut moves on, stays within the window, and ends later than any chunk that reaches
\* at most half a window beyond the start.
LEMMA CutRange ==
    ASSUME TypeOK, section <= Len(document), start < Length,
           NEW end \in start + 1 .. Limit, IsCut(end)
    PROVE  /\ end \in Nat /\ start < end /\ end <= start + size /\ end <= Length
           /\ end >= start + (size \div 2) \/ end = Length
<1>1. /\ size \in Nat /\ overlap \in Nat /\ size >= 1
      /\ Length \in Nat /\ start \in Nat
  BY SettingRange, SectionIsText DEF TypeOK
<1>2. size \div 2 \in Nat /\ size \div 2 <= size
  BY <1>1
<1>3. Limit \in Nat /\ Limit <= start + size /\ Limit <= Length
      /\ (Limit = start + size \/ Limit = Length)
  BY <1>1 DEF Limit
<1>4. end \in Nat /\ start < end /\ end <= Limit
  BY <1>1, <1>3
<1>5. CASE end \in SearchedTail
  <2>1. end \in start + (size \div 2) .. Limit - 1
    BY <1>5 DEF SearchedTail
  <2> QED BY <2>1, <1>1, <1>2, <1>3, <1>4
<1>6. CASE end = Limit
  BY <1>6, <1>1, <1>2, <1>3, <1>4
<1> QED BY <1>5, <1>6 DEF IsCut

\* The next chunk starts later, but not behind the end of this one.
LEMMA NextStartRange ==
    ASSUME TypeOK, NEW end \in Nat, start < end
    PROVE  /\ NextStart(end) \in Nat
           /\ start < NextStart(end) /\ NextStart(end) <= end
           /\ end <= NextStart(end) + overlap
<1>1. overlap \in Nat /\ start \in Nat
  BY SettingRange DEF TypeOK
<1> QED BY <1>1 DEF NextStart

\* What one round of the loop does, without the search for the space.
LEMMA RoundOfLoop ==
    ASSUME TypeOK, LoopPosition, Cut
    PROVE  \E end \in Nat :
             /\ section \in DOMAIN document /\ Length \in Nat
             /\ start < end /\ end <= start + size /\ end <= Length
             /\ end >= start + (size \div 2) \/ end = Length
             /\ \/ /\ chunks' = chunks
                   /\ \A i \in start .. end - 1 : document[section][i + 1] # "letter"
                \/ chunks' = Append(chunks, [section |-> section, from |-> start, to |-> end])
             /\ \/ end = Length /\ section' = section + 1 /\ start' = 0
                \/ /\ end < Length /\ section' = section
                   /\ start' \in Nat /\ start < start' /\ start' <= end
                   /\ end <= start' + overlap
             /\ document' = document /\ setting' = setting
<1>1. /\ section <= Len(document) /\ start < Length
      /\ document' = document /\ setting' = setting
  BY DEF Cut, LoopPosition
<1>2. PICK end \in start + 1 .. Limit :
        /\ IsCut(end)
        /\ chunks' = IF IsBlank(start, end) THEN chunks
                     ELSE Append(chunks, [section |-> section, from |-> start, to |-> end])
        /\ IF end >= Length
           THEN section' = section + 1 /\ start' = 0
           ELSE start' = NextStart(end) /\ UNCHANGED section
  BY DEF Cut
<1>3. /\ end \in Nat /\ start < end /\ end <= start + size /\ end <= Length
      /\ end >= start + (size \div 2) \/ end = Length
  BY <1>1, <1>2, CutRange
<1>4. section \in DOMAIN document /\ Length \in Nat
  BY <1>1, SectionIsText
<1>5. \/ /\ chunks' = chunks
         /\ \A i \in start .. end - 1 : document[section][i + 1] # "letter"
      \/ chunks' = Append(chunks, [section |-> section, from |-> start, to |-> end])
  BY <1>2 DEF IsBlank, IsAt
<1>6. \/ end = Length /\ section' = section + 1 /\ start' = 0
      \/ /\ end < Length /\ section' = section
         /\ start' \in Nat /\ start < start' /\ start' <= end /\ end <= start' + overlap
  <2>1. CASE end >= Length
    BY <2>1, <1>2, <1>3, <1>4
  <2>2. CASE ~ (end >= Length)
    <3>1. end < Length /\ section' = section /\ start' = NextStart(end)
      BY <2>2, <1>2, <1>3, <1>4
    <3> QED BY <3>1, <1>3, NextStartRange
  <2> QED BY <2>1, <2>2
<1> HIDE DEF Length, size, overlap
<1> QED BY <1>1, <1>3, <1>4, <1>5, <1>6

\* The types, and the position of the loop relative to the chunks it has made.
LEMMA TypeStep == TypeOK /\ LoopPosition /\ Cut => TypeOK'
<1> SUFFICES ASSUME TypeOK, LoopPosition, Cut PROVE TypeOK'
  OBVIOUS
<1>1. PICK end \in Nat :
        /\ section \in DOMAIN document
        /\ chunks' = chunks
             \/ chunks' = Append(chunks, [section |-> section, from |-> start, to |-> end])
        /\ (section' = section + 1 /\ start' = 0) \/ (section' = section /\ start' \in Nat)
        /\ document' = document /\ setting' = setting
  BY RoundOfLoop
<1>2. document \in Seq(Texts) /\ Len(document) \in Nat /\ section \in 1 .. Len(document)
  BY <1>1, DocumentsAssumption DEF TypeOK
<1>3. chunks' \in Seq(Chunk)
  <2>1. [section |-> section, from |-> start, to |-> end] \in Chunk
    BY <1>2 DEF TypeOK, Chunk
  <2>2. chunks \in Seq(Chunk)
    BY DEF TypeOK
  <2>3. CASE chunks' = chunks
    BY <2>2, <2>3
  <2>4. CASE chunks' = Append(chunks, [section |-> section, from |-> start, to |-> end])
    BY <2>1, <2>2, <2>4
  <2> QED BY <1>1, <2>3, <2>4
<1>4. section' \in 1 .. Len(document) + 1 /\ start' \in Nat
  BY <1>1, <1>2
<1> QED BY <1>1, <1>3, <1>4 DEF TypeOK

\* A round of the loop keeps the chunks before the next start (chunking.py:57-89).
LEMMA PositionStep == TypeOK /\ LoopPosition /\ Cut => LoopPosition'
<1> SUFFICES ASSUME TypeOK, LoopPosition, Cut PROVE LoopPosition'
  OBVIOUS
<1>1. PICK end \in Nat :
        /\ section \in DOMAIN document /\ Length \in Nat
        /\ start < end /\ end <= start + size /\ end <= Length
        /\ end >= start + (size \div 2) \/ end = Length
        /\ \/ chunks' = chunks
           \/ chunks' = Append(chunks, [section |-> section, from |-> start, to |-> end])
        /\ \/ end = Length /\ section' = section + 1 /\ start' = 0
           \/ /\ end < Length /\ section' = section
              /\ start' \in Nat /\ start < start' /\ start' <= end /\ end <= start' + overlap
        /\ document' = document /\ setting' = setting
  BY RoundOfLoop
<1>2. /\ document \in Seq(Texts) /\ section \in 1 .. Len(document) /\ start \in Nat
      /\ overlap \in Nat /\ overlap' = overlap
      /\ chunks \in Seq(Chunk)
  BY <1>1, SettingRange, DocumentsAssumption DEF TypeOK, overlap
<1>3. section' <= Len(document') => start' < Length'
  <2>1. CASE end = Length /\ section' = section + 1 /\ start' = 0
    <3>1. TypeOK'
      BY TypeStep
    <3> QED BY <2>1, <3>1, SectionIsTextPrimed
  <2>2. CASE end < Length /\ section' = section /\ start' <= end /\ start' \in Nat
    BY <2>2, <1>1 DEF Length
  <2> QED BY <1>1, <2>1, <2>2
<1>4. \A n \in DOMAIN chunks' :
        /\ chunks'[n].section <= section'
        /\ chunks'[n].section = section' => chunks'[n].from < start'
  <2>1. TAKE n \in DOMAIN chunks'
  <2>2. CASE n \in DOMAIN chunks /\ chunks'[n] = chunks[n]
    <3>1. /\ chunks[n].section <= section
          /\ chunks[n].section = section => chunks[n].from < start
      BY <2>2 DEF LoopPosition
    <3>2. chunks[n] \in Chunk
      BY <2>2, <1>2
    <3>3. chunks[n].section \in Nat /\ chunks[n].from \in Nat
      BY <3>2 DEF Chunk
    <3>4. /\ section \in Nat /\ start \in Nat
          /\ \/ section' = section + 1
             \/ section' = section /\ start' \in Nat /\ start < start'
      BY <1>1, <1>2
    <3>5. chunks'[n] = chunks[n]
      BY <2>2
    <3> DEFINE place == chunks[n].section
               from == chunks[n].from
    <3>6. place \in Nat /\ from \in Nat /\ place <= section /\ (place = section => from < start)
      BY <3>1, <3>3
    <3> HIDE DEF place, from
    <3>7. place <= section' /\ (place = section' => from < start')
      BY <3>4, <3>6
    <3> QED BY <3>5, <3>7 DEF place, from
  <2>3. CASE chunks'[n] = [section |-> section, from |-> start, to |-> end]
    BY <2>3, <1>1, <1>2
  <2>4. CASE chunks' = chunks
    BY <2>1, <2>2, <2>4
  <2>5. CASE chunks' = Append(chunks, [section |-> section, from |-> start, to |-> end])
    <3>1. \/ n \in DOMAIN chunks /\ chunks'[n] = chunks[n]
          \/ chunks'[n] = [section |-> section, from |-> start, to |-> end]
      BY <2>1, <2>5, <1>2
    <3> QED BY <2>2, <2>3, <3>1
  <2> QED BY <1>1, <2>4, <2>5
<1>5. LET n == Len(chunks')
      IN  n > 0 /\ section' <= Len(document') /\ chunks'[n].section = section' =>
              chunks'[n].to < Length' /\ chunks'[n].to <= start' + overlap'
  <2> DEFINE n == Len(chunks')
  <2> SUFFICES ASSUME n > 0, section' <= Len(document'), chunks'[n].section = section'
               PROVE  chunks'[n].to < Length' /\ chunks'[n].to <= start' + overlap'
    OBVIOUS
  <2>1. section' = section
    <3>1. chunks'[n].section <= section
      <4>1. CASE chunks' = chunks
        BY <4>1, <1>2 DEF LoopPosition
      <4>2. CASE chunks' = Append(chunks, [section |-> section, from |-> start, to |-> end])
        BY <4>2, <1>2
      <4> QED BY <4>1, <4>2, <1>1
    <3> QED BY <3>1, <1>1, <1>2
  <2>2. /\ end < Length /\ start' \in Nat /\ start < start' /\ end <= start' + overlap
        /\ Length' = Length
    BY <2>1, <1>1, <1>2 DEF Length
  <2>3. CASE chunks' = chunks
    <3>1. chunks[n].to < Length /\ chunks[n].to <= start + overlap /\ n = Len(chunks)
      BY <2>3, <2>1, <1>1 DEF LoopPosition
    <3>2. chunks[n] \in Chunk
      BY <2>3, <1>2
    <3>3. chunks[n].to \in Nat
      BY <3>2 DEF Chunk
    <3> QED BY <3>1, <3>3, <2>2, <2>3, <1>2
  <2>4. CASE chunks' = Append(chunks, [section |-> section, from |-> start, to |-> end])
    <3>1. chunks'[n].to = end
      BY <2>4, <1>2
    <3> QED BY <3>1, <2>2, <1>2
  <2> QED BY <2>3, <2>4, <1>1
<1> QED BY <1>3, <1>4, <1>5 DEF LoopPosition

\* No letter is lost: the round either keeps its characters in a chunk, or there is no
\* letter among them.
LEMMA LetterStep == TypeOK /\ LoopPosition /\ NoTextIsLost /\ Cut => NoTextIsLost'
<1> SUFFICES ASSUME TypeOK, LoopPosition, NoTextIsLost, Cut,
                    NEW k \in 1 .. section', k <= Len(document'),
                    NEW i \in 0 .. Len(document'[k]) - 1,
                    k < section' \/ i < start', document'[k][i + 1] = "letter"
             PROVE  \E n \in DOMAIN chunks' :
                        /\ chunks'[n].section = k
                        /\ chunks'[n].from <= i /\ i < chunks'[n].to
  BY DEF NoTextIsLost
<1> DEFINE new(end) == [section |-> section, from |-> start, to |-> end]
<1>1. PICK end \in Nat :
        /\ section \in DOMAIN document /\ Length \in Nat
        /\ start < end /\ end <= Length
        /\ \/ /\ chunks' = chunks
              /\ \A j \in start .. end - 1 : document[section][j + 1] # "letter"
           \/ chunks' = Append(chunks, new(end))
        /\ \/ end = Length /\ section' = section + 1 /\ start' = 0
           \/ /\ end < Length /\ section' = section
              /\ start' \in Nat /\ start < start' /\ start' <= end
        /\ document' = document
  BY RoundOfLoop
<1>2. /\ document \in Seq(Texts) /\ section \in 1 .. Len(document) /\ start \in Nat
      /\ chunks \in Seq(Chunk)
  BY <1>1, DocumentsAssumption DEF TypeOK
<1>3. k \in Nat /\ k <= Len(document) /\ k \in DOMAIN document
  BY <1>1, <1>2
<1>4. Len(document[k]) \in Nat
  <2>1. document[k] \in Texts
    BY <1>2, <1>3
  <2> QED BY <2>1, TextsAssumption
<1>5. i \in Nat /\ i < Len(document[k])
  BY <1>1, <1>4
<1>6. CASE k < section \/ (k = section /\ i < start)
  <2>1. k \in 1 .. section /\ i \in 0 .. Len(document[k]) - 1
    BY <1>2, <1>3, <1>4, <1>5, <1>6
  <2>2. document[k][i + 1] = "letter"
    BY <1>1
  <2>3. PICK n \in DOMAIN chunks :
          chunks[n].section = k /\ chunks[n].from <= i /\ i < chunks[n].to
    BY <2>1, <2>2, <1>3, <1>6 DEF NoTextIsLost
  <2>4. n \in DOMAIN chunks' /\ chunks'[n] = chunks[n]
    <3>1. CASE chunks' = chunks
      BY <3>1
    <3>2. CASE chunks' = Append(chunks, new(end))
      BY <3>2, <1>2
    <3> QED BY <3>1, <3>2, <1>1
  <2> QED BY <2>3, <2>4
<1>7. CASE k = section /\ start <= i
  <2>1. i < end
    BY <1>1, <1>2, <1>5, <1>7 DEF Length
  <2>2. document[section][i + 1] = "letter"
    BY <1>1, <1>7
  <2>3. chunks' = Append(chunks, new(end))
    BY <2>1, <2>2, <1>1, <1>2, <1>5, <1>7
  <2>4. Len(chunks) + 1 \in DOMAIN chunks' /\ chunks'[Len(chunks) + 1] = new(end)
    BY <2>3, <1>2
  <2>5. new(end).section = k /\ new(end).from <= i /\ i < new(end).to
    BY <2>1, <1>7
  <2> QED BY <2>4, <2>5
<1>8. k < section \/ k = section
  <2>1. CASE end = Length /\ section' = section + 1 /\ start' = 0
    BY <2>1, <1>2, <1>3, <1>5
  <2>2. CASE section' = section
    BY <2>2, <1>2, <1>3
  <2> QED BY <2>1, <2>2, <1>1
<1> QED BY <1>2, <1>5, <1>6, <1>7, <1>8

\* A new chunk keeps to its window, and starts where no chunk of its section has.
LEMMA FitStep == TypeOK /\ LoopPosition /\ ChunksFit /\ Cut => ChunksFit'
<1> SUFFICES ASSUME TypeOK, LoopPosition, ChunksFit, Cut, NEW n \in DOMAIN chunks'
             PROVE  /\ chunks'[n].from < chunks'[n].to
                    /\ chunks'[n].to <= chunks'[n].from + size'
                    /\ chunks'[n].section \in DOMAIN document'
                    /\ chunks'[n].to <= Len(document'[chunks'[n].section])
                    /\ \A m \in 1 .. n - 1 :
                           chunks'[m].section = chunks'[n].section =>
                               chunks'[m].from < chunks'[n].from
  BY DEF ChunksFit
<1> DEFINE new(end) == [section |-> section, from |-> start, to |-> end]
<1>1. PICK end \in Nat :
        /\ section \in DOMAIN document /\ Length \in Nat
        /\ start < end /\ end <= start + size /\ end <= Length
        /\ chunks' = chunks \/ chunks' = Append(chunks, new(end))
        /\ document' = document /\ setting' = setting
  BY RoundOfLoop
<1>2. chunks \in Seq(Chunk) /\ size' = size
  BY <1>1 DEF TypeOK, size
<1>3. CASE n \in DOMAIN chunks
  <2>1. chunks'[n] = chunks[n] /\ \A m \in 1 .. n - 1 : chunks'[m] = chunks[m]
    <3>1. CASE chunks' = chunks
      BY <3>1
    <3>2. CASE chunks' = Append(chunks, new(end))
      BY <1>2, <1>3, <3>2
    <3> QED BY <1>1, <3>1, <3>2
  <2> QED BY <2>1, <1>1, <1>2, <1>3 DEF ChunksFit
<1>4. CASE n \notin DOMAIN chunks
  <2>1. /\ n = Len(chunks) + 1 /\ chunks'[n] = new(end)
        /\ \A m \in 1 .. n - 1 : m \in DOMAIN chunks /\ chunks'[m] = chunks[m]
    BY <1>1, <1>2, <1>4
  <2>2. \A m \in 1 .. n - 1 : chunks'[m].section = section => chunks'[m].from < start
    BY <2>1 DEF LoopPosition
  <2> QED BY <2>1, <2>2, <1>1, <1>2 DEF Length
<1> QED BY <1>3, <1>4

\* The chunk before ends at most an overlap after the start of the new one, and before
\* the end of the text; the new one ends in its second half, or with the text.
LEMMA RepeatStep == TypeOK /\ LoopPosition /\ NoChunkRepeats /\ Cut => NoChunkRepeats'
<1> SUFFICES ASSUME TypeOK, LoopPosition, NoChunkRepeats, Cut, overlap' < size' \div 2,
                    NEW n \in 2 .. Len(chunks'),
                    chunks'[n].section = chunks'[n - 1].section
             PROVE  chunks'[n - 1].to < chunks'[n].to
  BY DEF NoChunkRepeats
<1> DEFINE new(end) == [section |-> section, from |-> start, to |-> end]
<1>1. PICK end \in Nat :
        /\ section \in DOMAIN document /\ Length \in Nat /\ start < end
        /\ end >= start + (size \div 2) \/ end = Length
        /\ chunks' = chunks \/ chunks' = Append(chunks, new(end))
        /\ document' = document /\ setting' = setting
  BY RoundOfLoop
<1>2. /\ chunks \in Seq(Chunk) /\ start \in Nat
      /\ size \in Nat /\ overlap \in Nat /\ overlap < size \div 2
      /\ document \in Seq(Texts) /\ section <= Len(document)
  BY <1>1, SettingRange, DocumentsAssumption DEF TypeOK, size, overlap
<1>3. CASE n <= Len(chunks)
  <2>1. n \in 2 .. Len(chunks) /\ chunks'[n] = chunks[n] /\ chunks'[n - 1] = chunks[n - 1]
    <3>1. n \in 2 .. Len(chunks) /\ n - 1 \in 1 .. Len(chunks)
      BY <1>2, <1>3
    <3>2. CASE chunks' = chunks
      BY <3>1, <3>2
    <3>3. CASE chunks' = Append(chunks, new(end))
      BY <3>1, <3>3, <1>2
    <3> QED BY <3>2, <3>3, <1>1
  <2>2. chunks[n].section = chunks[n - 1].section
    BY <2>1
  <2>3. chunks[n - 1].to < chunks[n].to
    BY <2>1, <2>2, <1>2 DEF NoChunkRepeats
  <2> QED BY <2>1, <2>3
<1>4. CASE ~ (n <= Len(chunks))
  <2>1. /\ n = Len(chunks) + 1 /\ Len(chunks) > 0
        /\ chunks'[n] = new(end) /\ chunks'[n - 1] = chunks[Len(chunks)]
    <3>1. chunks' # chunks
      BY <1>2, <1>4
    <3>2. chunks' = Append(chunks, new(end))
      BY <1>1, <3>1
    <3>3. Len(chunks) \in Nat /\ Len(chunks') = Len(chunks) + 1
      BY <1>2, <3>2
    <3>4. n = Len(chunks) + 1 /\ Len(chunks) > 0
      BY <1>4, <3>3
    <3> QED BY <1>2, <3>2, <3>4
  <2>2. chunks[Len(chunks)].to < Length /\ chunks[Len(chunks)].to <= start + overlap
    BY <2>1, <1>2 DEF LoopPosition
  <2>3. chunks[Len(chunks)] \in Chunk
    BY <2>1, <1>2
  <2>4. chunks[Len(chunks)].to \in Nat
    BY <2>3 DEF Chunk
  <2>5. size \div 2 \in Nat
    BY <1>2
  <2> HIDE DEF Length, size, overlap
  <2>6. chunks[Len(chunks)].to < end
    BY <2>2, <2>4, <2>5, <1>1, <1>2
  <2> QED BY <2>1, <2>6
<1> QED BY <1>3, <1>4

-----------------------------------------------------------------------------
\* Nothing is cut yet, and the loop stands at the first section.
LEMMA InvInit == Init => IInv
<1> SUFFICES ASSUME Init PROVE IInv
  OBVIOUS
<1>1. document \in Seq(Texts) /\ section = 1 /\ start = 0 /\ chunks = <<>>
  BY DocumentsAssumption DEF Init
<1>2. TypeOK
  BY <1>1 DEF TypeOK, Init
<1>3. LoopPosition
  BY <1>1, <1>2, SectionIsText DEF LoopPosition
<1>4. NoTextIsLost
  <2> SUFFICES ASSUME NEW k \in 1 .. section, k <= Len(document),
                      NEW i \in 0 .. Len(document[k]) - 1, k < section \/ i < start
               PROVE  FALSE
    BY DEF NoTextIsLost
  <2>1. k = 1 /\ Len(document[k]) \in Nat
    BY <1>1, TextsAssumption
  <2> QED BY <2>1, <1>1
<1>5. ChunksFit /\ NoChunkRepeats
  BY <1>1 DEF ChunksFit, NoChunkRepeats
<1> QED BY <1>2, <1>3, <1>4, <1>5 DEF IInv

\* No round of the loop leaves the invariant.
LEMMA InvStep == IInv /\ [Next]_vars => IInv'
<1> SUFFICES ASSUME IInv, [Next]_vars PROVE IInv'
  OBVIOUS
<1>1. CASE Cut
  BY <1>1, TypeStep, PositionStep, LetterStep, FitStep, RepeatStep DEF IInv
<1>2. CASE UNCHANGED vars
  BY <1>2 DEF vars, IInv, TypeOK, LoopPosition, NoTextIsLost, ChunksFit, NoChunkRepeats,
              Length, size, overlap
<1> QED BY <1>1, <1>2 DEF Next

\* Every reachable state of the splitting is well typed, and stands where LoopPosition
\* says, with the three claims about the chunks (chunking.py:44-83).
THEOREM SplittingIsSound == Spec => []IInv
  BY InvInit, InvStep, PTL DEF Spec

\* No letter of a document is lost on its way to the index (chunking.py:44-83).
THEOREM EveryLetterIsIndexed == Spec => []NoTextIsLost
<1>1. IInv => NoTextIsLost
  BY DEF IInv
<1> QED BY <1>1, SplittingIsSound, PTL

\* Chunks keep to the limit and to their section, and start one after another
\* (chunking.py:49-81).
THEOREM EveryChunkFits == Spec => []ChunksFit
<1>1. IInv => ChunksFit
  BY DEF IInv
<1> QED BY <1>1, SplittingIsSound, PTL

\* With less overlap than half a chunk, every chunk of a section brings something new
\* (chunking.py:54-81).
THEOREM EveryChunkIsNew == Spec => []NoChunkRepeats
<1>1. IInv => NoChunkRepeats
  BY DEF IInv
<1> QED BY <1>1, SplittingIsSound, PTL

-----------------------------------------------------------------------------
(* Why the splitting ends *)

\* Every round of the loop brings the end of the document nearer (chunking.py:48-89):
\* the next chunk starts further on in the text of the same section, or the section is
\* done and the next one begins at its first character.  A section's text is finite, so
\* no document, setting or text can keep the loop turning, however large the overlap.
RoundsAdvance ==
    [][/\ UNCHANGED <<document, setting>>
       /\ \/ section' = section /\ start < start' /\ start' < Length
          \/ section' = section + 1 /\ start' = 0]_vars

\* No round of the splitting is wasted (chunking.py:48-89).
THEOREM EveryRoundAdvances == Spec => RoundsAdvance
<1>1. IInv /\ [Next]_vars
        => [/\ UNCHANGED <<document, setting>>
            /\ \/ section' = section /\ start < start' /\ start' < Length
               \/ section' = section + 1 /\ start' = 0]_vars
  <2> SUFFICES ASSUME IInv, Cut
               PROVE  /\ UNCHANGED <<document, setting>>
                      /\ \/ section' = section /\ start < start' /\ start' < Length
                         \/ section' = section + 1 /\ start' = 0
    BY DEF Next
  <2>1. PICK end \in Nat :
          /\ Length \in Nat
          /\ \/ end = Length /\ section' = section + 1 /\ start' = 0
             \/ /\ end < Length /\ section' = section
                /\ start' \in Nat /\ start < start' /\ start' <= end
          /\ document' = document /\ setting' = setting
    BY RoundOfLoop DEF IInv
  <2>2. CASE section' = section + 1 /\ start' = 0
    BY <2>1, <2>2
  <2>3. CASE /\ end < Length /\ section' = section
             /\ start' \in Nat /\ start < start' /\ start' <= end
    <3>1. start' < Length
      BY <2>1, <2>3
    <3> QED BY <2>1, <2>3, <3>1
  <2> QED BY <2>1, <2>2, <2>3
<1> QED BY <1>1, SplittingIsSound, PTL DEF Spec, RoundsAdvance

=============================================================================
