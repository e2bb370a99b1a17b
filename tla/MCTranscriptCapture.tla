------------------------ MODULE MCTranscriptCapture ------------------------
(* One session: small instances of TranscriptCapture. *)
EXTENDS TranscriptCapture
=============================================================================
