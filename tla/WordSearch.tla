----------------------------- MODULE WordSearch -----------------------------
(***************************************************************************)
(* A1/P3-DistributedFS/3.cpp: how a word is searched for in a file that is *)
(* cut into chunks.  Each chunk is searched with its two neighbours, by    *)
(* every worker that has it; the master takes all offsets together, so     *)
(* that the order of the chunks, and how often one is searched, are of no  *)
(* consequence.  What goes wrong with the nodes is in DistributedFS.       *)
(*                                                                         *)
(* Positions count from 0, as in the program: s[i + 1] is the letter at i. *)
(***************************************************************************)
EXTENDS Integers, Sequences

CONSTANTS
    ChunkSize,   \* CHUNK_SIZE
    Letter,      \* what a file is made of
    Space        \* the letter that separates words

ASSUME WordSearchAssumption == ChunkSize \in Nat \ {0}

VARIABLES
    text,         \* the file
    word,         \* what is searched for; the command may leave it out
    chunkNumber,  \* the chunk that is searched, from 0
    searchPos,    \* where in that chunk and its neighbours
    offsets       \* what was found

searchVars == <<text, word, chunkNumber, searchPos, offsets>>

Least(S) == CHOOSE i \in S : \A j \in S : i <= j
At(s, i) == s[i + 1]
HasWordAt(s, i) == SubSeq(s, i + 1, i + Len(word)) = word

(* partitionFile: the last chunk may be shorter.                             *)
NumChunks == (Len(text) + ChunkSize - 1) \div ChunkSize
Data(k) == IF k \in 0 .. NumChunks - 1
           THEN SubSeq(text, k * ChunkSize + 1, Least({(k + 1) * ChunkSize, Len(text)}))
           ELSE <<>>

SearchStart(t, w) ==
    /\ text = t /\ word = w
    /\ chunkNumber = 0 /\ searchPos = 0 /\ offsets = {}

PrevSize(k) == Len(Data(k - 1))

\* Mutant of Merged: the next chunk is left out.
MergedWithPrevious(k) == Data(k - 1) \o Data(k)
Merged(k) == Data(k - 1) \o Data(k) \o Data(k + 1)

(* string::find looks from searchPos to the end of what was merged.          *)
Found == {i \in searchPos .. Len(Merged(chunkNumber)) - Len(word) :
              HasWordAt(Merged(chunkNumber), i)}
LooksOn == searchPos < PrevSize(chunkNumber) + Len(Data(chunkNumber)) /\ Found # {}

IsCompleteWord(s, i) ==
    /\ i > 0 => At(s, i - 1) = Space
    /\ i + Len(word) < Len(s) => At(s, i + Len(word)) = Space

\* Mutant of Past: the search goes on where it found the word.
AtIt(i) == i
Past(i) == i + Len(word)

(* One round of the loop of searchWordInChunk.                               *)
FindNext ==
    /\ chunkNumber < NumChunks
    /\ LooksOn
    /\ LET i == Least(Found)
       IN /\ offsets' = IF IsCompleteWord(Merged(chunkNumber), i)
                        THEN offsets \cup {chunkNumber * ChunkSize - PrevSize(chunkNumber) + i}
                        ELSE offsets
          /\ searchPos' = Past(i)
    /\ UNCHANGED <<text, word, chunkNumber>>

NextChunkSearched ==
    /\ chunkNumber < NumChunks
    /\ ~LooksOn
    /\ chunkNumber' = chunkNumber + 1
    /\ searchPos' = PrevSize(chunkNumber + 1)
    /\ UNCHANGED <<text, word, offsets>>

SearchNext == FindNext \/ NextChunkSearched

SearchDone == chunkNumber = NumChunks

(* Any file, and any word that can be typed.                                 *)
SearchInit ==
    \E t \in Seq(Letter), w \in Seq(Letter \ {Space}) : SearchStart(t, w)

SearchSpec == SearchInit /\ [][SearchNext]_searchVars

(* A word that is empty or longer than a chunk is answered with -1, at the   *)
(* end.                                                                      *)
Valid == Len(word) \in 1 .. ChunkSize

-----------------------------------------------------------------------------
(* Properties *)

EndsAt(i) == i + Len(word) = Len(text) \/ At(text, i + Len(word)) = Space

WholeWords == {i \in 0 .. Len(text) - Len(word) :
                   /\ HasWordAt(text, i)
                   /\ i = 0 \/ At(text, i - 1) = Space
                   /\ EndsAt(i)}

(* Every whole word of the file is found, also where the file was cut        *)
(* (searchWordInChunk, handleSearchWorker).                                  *)
WordsAreFound == SearchDone /\ Valid => WholeWords \subseteq offsets

(* What is found and is no whole word is the beginning of one, up to where   *)
(* the file was cut: a match in the next chunk that reaches to its end is    *)
(* taken for complete (searchWordInChunk).                                   *)
FalseHitsAreCut ==
    SearchDone /\ Valid =>
        \A i \in offsets : /\ HasWordAt(text, i)
                           /\ i = 0 \/ At(text, i - 1) = Space
                           /\ EndsAt(i) \/ (i + Len(word)) % ChunkSize = 0

(* What a search answers is right but for the cuts: it misses no whole word, *)
(* and invents none other than at the end of a chunk (searchWordInChunk).    *)
OffsetsAreWords == WordsAreFound /\ FalseHitsAreCut

(* A search for a word ends.  One for the empty word, which the answer -1 is *)
(* meant for, does not: searchPos is where it was after every match.         *)
SearchEnds == word # <<>> ~> SearchDone
=============================================================================
