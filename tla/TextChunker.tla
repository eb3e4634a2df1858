---------------------------- MODULE TextChunker ----------------------------
(***************************************************************************)
(* rag/chunking.py: a document is split section by section into chunks of  *)
(* at most `size` characters, cut at a space where there is one in the     *)
(* second half, each starting `overlap` characters before the end of the   *)
(* one before.  One step is one round of the loop of _split_text.          *)
(*                                                                         *)
(* Positions count from 0, as in the code.  A character is a letter, a     *)
(* space, or a blank that is no space (a line break, a tab).               *)
(***************************************************************************)
EXTENDS Integers, Sequences

CONSTANTS
    Texts,      \* the texts a section may have
    Documents,  \* the documents: sequences of such texts
    Settings    \* the pairs <<chunk_size, overlap>>

Characters == {"letter", "space", "break"}

(***************************************************************************)
(* _normalize_text strips a section and load_document drops empty ones;    *)
(* the constructor refuses other settings.                                 *)
(***************************************************************************)
ASSUME TextsAssumption ==
    /\ Texts \subseteq Seq(Characters)
    /\ \A t \in Texts : t # <<>> /\ t[1] = "letter" /\ t[Len(t)] = "letter"

ASSUME DocumentsAssumption == Documents \subseteq Seq(Texts)

ASSUME SettingsAssumption ==
    \A s \in Settings : /\ s \in Int \X Int
                        /\ s[1] >= 1 /\ s[2] >= 0 /\ s[2] < s[1]

VARIABLES
    document,   \* the texts of its sections
    setting,    \* chunk_size and overlap
    section,    \* the section being split
    start,      \* where its next chunk starts
    chunks      \* the chunks so far, by the characters they were cut from

vars == <<document, setting, section, start, chunks>>

size == setting[1]
overlap == setting[2]

Chunk == [section : Nat, from : Nat, to : Nat]

TypeOK ==
    /\ document \in Documents
    /\ setting \in Settings
    /\ section \in 1 .. Len(document) + 1
    /\ start \in Nat
    /\ chunks \in Seq(Chunk)

Init ==
    /\ document \in Documents
    /\ setting \in Settings
    /\ section = 1 /\ start = 0 /\ chunks = <<>>

-----------------------------------------------------------------------------
Length == Len(document[section])

IsAt(character, i) == document[section][i + 1] = character

\* The end of the window: chunk_size characters on, or the end of the text.
Limit == IF start + size < Length THEN start + size ELSE Length

\* Mutant: a space is looked for from the beginning of the chunk.
SearchedAll == IF Limit < Length THEN {i \in start .. Limit - 1 : i > start} ELSE {}

\* The characters in which a space is looked for, when the text goes on.
SearchedTail ==
    IF Limit < Length
    THEN {i \in start + (size \div 2) .. Limit - 1 : i > start}
    ELSE {}

\* Mutant: a text without a space in the tail is not cut.
IsCutAtSpace(end) ==
    \/ /\ end \in SearchedTail /\ IsAt("space", end)
       /\ \A i \in SearchedTail : i > end => ~ IsAt("space", i)
    \/ end = Limit /\ Limit = Length

\* Where the chunk ends: at the last space of the tail, else at the limit.
IsCut(end) ==
    \/ /\ end \in SearchedTail /\ IsAt("space", end)
       /\ \A i \in SearchedTail : i > end => ~ IsAt("space", i)
    \/ /\ end = Limit
       /\ \A i \in SearchedTail : ~ IsAt("space", i)

IsBlank(from, to) == \A i \in from .. to - 1 : ~ IsAt("letter", i)

\* Mutant: the next chunk may start where this one did.
NextStartAgain(end) == IF end - overlap >= start THEN end - overlap ELSE end

NextStart(end) == IF end - overlap > start THEN end - overlap ELSE end

\* Mutant: a section's remainder that is shorter than half a chunk is dropped.
CutButShortRest ==
    /\ section <= Len(document)
    /\ \E end \in start + 1 .. Limit :
        /\ IsCut(end)
        /\ chunks' = IF IsBlank(start, end) THEN chunks
                     ELSE Append(chunks, [section |-> section, from |-> start, to |-> end])
        /\ IF end >= Length - (size \div 2)
           THEN section' = section + 1 /\ start' = 0
           ELSE start' = NextStart(end) /\ UNCHANGED section
    /\ UNCHANGED <<document, setting>>

Cut ==
    /\ section <= Len(document)
    /\ \E end \in start + 1 .. Limit :
        /\ IsCut(end)
        /\ chunks' = IF IsBlank(start, end) THEN chunks
                     ELSE Append(chunks, [section |-> section, from |-> start, to |-> end])
        /\ IF end >= Length
           THEN section' = section + 1 /\ start' = 0
           ELSE start' = NextStart(end) /\ UNCHANGED section
    /\ UNCHANGED <<document, setting>>

Next == Cut

Spec == Init /\ [][Next]_vars

FairSpec == Spec /\ WF_vars(Next)

-----------------------------------------------------------------------------
\* Every letter of the text reaches the index (chunking.py:44-83): those of the
\* sections that are done, and those before the next start, are in a chunk of their
\* section, whatever the setting, the spaces and the blank pieces that are dropped.
NoTextIsLost ==
    \A k \in 1 .. section :
        k <= Len(document) =>
            \A i \in 0 .. Len(document[k]) - 1 :
                (k < section \/ i < start) /\ document[k][i + 1] = "letter" =>
                    \E n \in DOMAIN chunks :
                        /\ chunks[n].section = k
                        /\ chunks[n].from <= i /\ i < chunks[n].to

\* A chunk keeps to the limit and to its section (chunking.py:49-74), and the next
\* chunk of the section starts later but leaves no gap (76-81).
ChunksFit ==
    \A n \in DOMAIN chunks :
        /\ chunks[n].from < chunks[n].to
        /\ chunks[n].to <= chunks[n].from + size
        /\ chunks[n].section \in DOMAIN document
        /\ chunks[n].to <= Len(document[chunks[n].section])
        /\ \A m \in 1 .. n - 1 :
               chunks[m].section = chunks[n].section => chunks[m].from < chunks[n].from

\* As long as the overlap is less than half a chunk, no chunk repeats the one before
\* it: it ends later (chunking.py:54-81).  With a larger overlap it need not: the last
\* space of its window may be the one the chunk before was cut at.
NoChunkRepeats ==
    overlap < size \div 2 =>
        \A n \in 2 .. Len(chunks) :
            chunks[n].section = chunks[n - 1].section => chunks[n - 1].to < chunks[n].to

\* Where the loop stands: what makes the three invariants inductive.
LoopPosition ==
    /\ section <= Len(document) => start < Length
    /\ \A n \in DOMAIN chunks :
           /\ chunks[n].section <= section
           /\ chunks[n].section = section => chunks[n].from < start
    /\ LET n == Len(chunks)
       IN  n > 0 /\ section <= Len(document) /\ chunks[n].section = section =>
               chunks[n].to < Length /\ chunks[n].to <= start + overlap

IInv == TypeOK /\ LoopPosition /\ NoTextIsLost /\ ChunksFit /\ NoChunkRepeats

\* The loop ends (chunking.py:48): every round moves the start.
SplittingEnds == <>(section > Len(document))

=============================================================================
