-------------------------- MODULE MCProviderClient --------------------------
(* An instance of ProviderClient for TLC.                                  *)
EXTENDS ProviderClient, TLC

OneFallback == <<"fallback">>
Answer(status, framing, reuse) == [status |-> status, framing |-> framing, reuse |-> reuse]
ServerAnswers ==
    "stream" :> {Answer("ok", "chunked", TRUE), Answer("bad", "bare", TRUE)}
    @@ "plain" :> {Answer("ok", "bare", FALSE), Answer("busy", "fixed", TRUE)}
=============================================================================
