--------------------------- MODULE MCJokeLibrary ---------------------------
(* All joke files of up to MaxLines lines over the styles MCStyles, and all *)
(* type files of up to two lines over two words: gaps in the styles, scarce *)
(* styles, words that name no style, and empty files included.              *)
EXTENDS JokeLibrary, SequencesExt

CONSTANTS MCStyles, MaxLines

MCJokeFiles == SeqOf(MCStyles \cup {Skip}, MaxLines) \cup {Missing}
MCTypeFiles == SeqOf((Words \X {1, 2}) \cup {Skip}, 2) \cup {Missing}
MCDictionaries == {Grouped(f) : f \in MCJokeFiles \ {Missing}}
=============================================================================
