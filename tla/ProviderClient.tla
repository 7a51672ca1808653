--------------------------- MODULE ProviderClient ---------------------------
(***************************************************************************)
(* llm/provider_client: calls of models over HttpClient. A plain call      *)
(* tries its candidate models in turn (with_failover), each several times  *)
(* (with_http_retry_async); a streaming call makes one request to its      *)
(* first candidate. What fails puts a model in the cooldown tracker that   *)
(* all calls share.                                                        *)
(*                                                                         *)
(* Nothing throws ProviderError, so the handler for it is left out, and a  *)
(* failure is recorded for an exception only. How long a cooldown or a     *)
(* retry delay lasts is left open, but for being positive. All models are  *)
(* at one host.                                                            *)
(***************************************************************************)
EXTENDS HttpClient

CONSTANTS
    Primary,      \* the model of the settings
    Fallbacks,    \* fallback_models, in order
    Resolved,     \* those of them with a resolved configuration
    Overrides,    \* values of model_override; Primary stands for none
    max_attempts,
    MaxCalls,     \* bound on the calls
    MaxFaults     \* bound on failures of the server and cancellations

ASSUME ProviderAssumption ==
    /\ Fallbacks \in Seq(STRING) /\ max_attempts \in Nat \ {0}
    /\ MaxCalls \in Nat /\ MaxFaults \in Nat

Model == {Primary} \cup ToSet(Fallbacks) \cup Overrides

VARIABLES
    call,    \* of each caller: where it is, its candidates, which of them and
             \* which attempt it is at, its result
    cooling, \* models in their cooldown
    failed,  \* the models that failed in the call
    calls,   \* calls that may still be made
    faults   \* failures and cancellations that may still happen

callVars == <<httpVars, call, cooling, failed, calls, faults>>

NoCall == [at |-> "none", candidates |-> <<>>, index |-> 1, attempt |-> 1, result |-> "none"]

CallsInit ==
    /\ HttpInit
    /\ call = [r \in Request |-> NoCall]
    /\ cooling = {}
    /\ failed = [r \in Request |-> {}]
    /\ calls = MaxCalls /\ faults = MaxFaults

-----------------------------------------------------------------------------

\* The override, the primary model, then the fallbacks that are not cooling;
\* the primary's own cooldown is not looked at. A fallback that was not
\* resolved is skipped.
build_candidates(override) ==
    LET first == IF override = Primary THEN <<Primary>> ELSE <<override, Primary>>
        keys[i \in 0..Len(Fallbacks)] ==
            IF i = 0 THEN first
            ELSE IF /\ Fallbacks[i] \notin cooling
                    /\ Fallbacks[i] \in Resolved \cup {override, Primary}
                 THEN Append(keys[i - 1], Fallbacks[i])
                 ELSE keys[i - 1]
    IN  keys[Len(Fallbacks)]

\* chat_async, chat_with_tools_async, chat_stream_async or
\* chat_stream_with_tools_async: the candidates are fixed now. A stream
\* starts its request without looking at the token.
chat(r, override) ==
    /\ call[r].at \in {"none", "ended"} /\ calls > 0
    /\ LET all == build_candidates(override)
           own == IF r \in Streaming THEN <<Head(all)>> ELSE all
       IN  call' = [call EXCEPT ![r] = [NoCall EXCEPT !.at = "try", !.candidates = own]]
    /\ calls' = calls - 1
    /\ failed' = [failed EXCEPT ![r] = {}]
    /\ cancelled' = cancelled \ {r}
    /\ UNCHANGED <<pool, incoming, server, http, cooling, faults>>

EndCall(r, result) ==
    call' = [call EXCEPT ![r] = [@ EXCEPT !.at = "ended", !.result = result]]

\* The next attempt: a plain call looks at its token first.
Attempt(r) ==
    /\ call[r].at = "try"
    /\ \/ /\ r \in Streaming \/ r \notin cancelled
          /\ request_once(r)
          /\ call' = [call EXCEPT ![r].at = "request"]
       \/ /\ r \in cancelled \ Streaming
          /\ EndCall(r, "cancelled")
          /\ UNCHANGED httpVars
    /\ UNCHANGED <<cooling, failed, calls, faults>>

Current(r) == call[r].candidates[call[r].index]

Returned(r) == call[r].at = "request" /\ http[r].at = "done"

HttpReset(r) ==
    /\ http' = [http EXCEPT ![r] = Idle]
    /\ UNCHANGED <<pool, incoming, server, cancelled, calls, faults>>

\* Whatever answer the client returns is a success for the tracker, an error
\* status too.
Answered(r) ==
    /\ Returned(r) /\ http[r].result \notin {"threw", "cancelled"}
    /\ \/ r \in Streaming \/ http[r].result # "busy" \/ call[r].attempt = max_attempts
    /\ cooling' = cooling \ {Current(r)}
    /\ EndCall(r, http[r].result)
    /\ HttpReset(r) /\ UNCHANGED failed

\* A status worth a retry, or an exception: sleep_for_retry.
Retry(r) ==
    /\ Returned(r) /\ r \notin Streaming
    /\ http[r].result \in {"busy", "threw"} /\ call[r].attempt < max_attempts
    /\ call' = [call EXCEPT ![r].at = "sleep"]
    /\ HttpReset(r) /\ UNCHANGED <<cooling, failed>>

\* sleep_for_retry looks at the token while and after it sleeps.
SleepEnds(r) ==
    /\ call[r].at = "sleep"
    /\ IF r \in cancelled THEN EndCall(r, "cancelled")
       ELSE call' = [call EXCEPT ![r] = [@ EXCEPT !.at = "try",
                                                  !.attempt = call[r].attempt + 1]]
    /\ UNCHANGED <<httpVars, cooling, failed, calls, faults>>

IsLast(r) == call[r].index = Len(call[r].candidates)

\* The exception of the last attempt: the next candidate, or the end.
Failover(r) ==
    /\ Returned(r) /\ r \notin Streaming
    /\ http[r].result = "threw" /\ call[r].attempt = max_attempts
    /\ cooling' = cooling \cup {Current(r)}
    /\ failed' = [failed EXCEPT ![r] = @ \cup {Current(r)}]
    /\ IF IsLast(r) THEN EndCall(r, "threw")
       ELSE call' = [call EXCEPT ![r] = [@ EXCEPT !.at = "try", !.attempt = 1,
                                                  !.index = call[r].index + 1]]
    /\ HttpReset(r)

\* A stream has no handler: nothing is recorded and nothing else is tried.
StreamThrows(r) ==
    /\ Returned(r) /\ r \in Streaming /\ http[r].result \in {"threw", "cancelled"}
    /\ EndCall(r, http[r].result)
    /\ HttpReset(r) /\ UNCHANGED <<cooling, failed>>

\* The caller's token; a request that is under way finds out in its handler.
cancel(r) ==
    /\ call[r].at \in {"try", "request", "sleep"} /\ r \notin cancelled
    /\ faults > 0 /\ faults' = faults - 1
    /\ cancelled' = cancelled \cup {r}
    /\ UNCHANGED <<pool, incoming, server, http, call, cooling, failed, calls>>

CooldownEnds(m) ==
    /\ m \in cooling
    /\ cooling' = cooling \ {m}
    /\ UNCHANGED <<httpVars, call, failed, calls, faults>>

Fault(c, how) ==
    /\ faults > 0 /\ faults' = faults - 1
    /\ ServerFails(c, how)
    /\ UNCHANGED <<call, cooling, failed, calls>>

-----------------------------------------------------------------------------

CallStep(r) ==
    \/ Attempt(r) \/ Answered(r) \/ Retry(r) \/ SleepEnds(r) \/ Failover(r) \/ StreamThrows(r)
    \/ HttpStep(r) /\ UNCHANGED <<call, cooling, failed, calls, faults>>

CallsNext ==
    \/ \E r \in Request :
        \/ \E m \in Overrides : chat(r, m)
        \/ CallStep(r) \/ cancel(r)
    \/ \E c \in Conn, how \in {"silent", "closed", "reset"} : Fault(c, how)
    \/ \E m \in cooling : CooldownEnds(m)

CallsSpec == CallsInit /\ [][CallsNext]_callVars

\* While calls can go on, some loop runs one of them or fires its time-out;
\* servers owe nothing.
CallsFairSpec == CallsSpec /\ WF_callVars(\E r \in Request : CallStep(r))

-----------------------------------------------------------------------------
(* Properties.                                                             *)

\* read_response: what a request reads is the answer to what it sent. The
\* connections in the pool have nothing left to read, and nobody else uses
\* them, however the calls before ended: stopped by their handler, drained,
\* cut off, timed out or cancelled.
AnswersOwn ==
    /\ \A r \in Request : http[r].own
    /\ \A i \in DOMAIN pool :
        /\ incoming[pool[i]] = <<>>
        /\ \A j \in DOMAIN pool : pool[j] = pool[i] => j = i
    /\ \A r \in Request : http[r].conn # NoConn =>
        /\ http[r].conn \notin ToSet(pool)
        /\ \A q \in Request : http[q].conn = http[r].conn => q = r

InOrder(tokens) == \A i \in DOMAIN tokens : tokens[i] = i

\* post_json_stream_async: a handler is given the pieces of the answer in
\* order, each once; only a request that failed while it may have been on a
\* pooled connection starts over, and only once.
TokensOnce ==
    \A r \in Streaming :
        LET tokens == http[r].tokens
        IN  \/ InOrder(tokens)
            \/ /\ http[r].fresh /\ http[r].reused
               /\ \E k \in DOMAIN tokens :
                    InOrder(SubSeq(tokens, 1, k)) /\ InOrder(SubSeq(tokens, k + 1, Len(tokens)))

\* with_failover: a plain call throws only when the primary model, the
\* override and every fallback that was available at its start have failed,
\* whatever other calls did to the cooldowns meanwhile, and is cancelled only
\* if it was asked to be.
FailoverExhausts ==
    \A r \in Request \ Streaming :
        /\ call[r].result = "threw" => failed[r] = {Primary} \cup ToSet(call[r].candidates)
        /\ call[r].result = "cancelled" => r \in cancelled

\* What the caller of a stream and of a plain call sees is true.
CallsHonest == TokensOnce /\ FailoverExhausts

Calling(r) == call[r].at \in {"try", "request", "sleep"}

\* All calls that were made end, with any server, also one that is silent in
\* the middle of an answer or of what is drained. There are two exceptions: a
\* server that is silent during the TLS handshake, for which no time-out is
\* armed, and a coroutine that the time-out did not wake (TimeoutMissed).
CallsEnd ==
    <>[](\A r \in Request :
            Calling(r) => \/ http[r].at = "handshake" /\ server[http[r].conn] = "silent"
                          \/ http[r].at = "lost")
=============================================================================
