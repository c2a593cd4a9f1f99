------------------------ MODULE MCRecognitionSession ------------------------
(***************************************************************************)
(* Instances of RecognitionSession: three frames that do not fill packets  *)
(* evenly, three sentences, all protocols.                                 *)
(***************************************************************************)
EXTENDS RecognitionSession

AllProtocols == {"tencent", "duplex", "qwen", "openai"}

===============================================================================
