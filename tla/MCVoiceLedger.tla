--------------------------- MODULE MCVoiceLedger ---------------------------
(* Small instances of VoiceLedger: one transcription and one or two syntheses *)
(* of one document, or of a document and its successor.                      *)
EXTENDS VoiceLedger
CONSTANTS stt, tts, late, w1, w2

Pair == {stt, tts}
Transcribes == {stt}
Three == {stt, tts, late}
SameDocument == [o \in Pair |-> w1]
\* The third request belongs to the next document.
NextDocument == [o \in Three |-> IF o = late THEN w2 ELSE w1]
=============================================================================
