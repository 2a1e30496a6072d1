---------------------------- MODULE ModelStream ----------------------------
(* One answer of a model, from the stream of the service to the pieces the    *)
(* engine accumulates: LlmClient._stream_request, the SSE frames and           *)
(* NativeStream.  The service speaks one of three protocols and gateways       *)
(* differ in what they repeat: a Responses stream may send an item as           *)
(* fragments, once more when the item is done and once more with the terminal   *)
(* frame.  The connection may end at any frame.  Reasoning is treated like the  *)
(* text.                                                                       *)
EXTENDS Naturals, SequencesExt, Lists

CONSTANTS MaxItems      \* bound: items of an answer; each has two fragments
ASSUME ItemsAssumption == MaxItems \in Nat

Fragments == 1..2
Items == 1..MaxItems

VARIABLES
  answer,     \* the items the service has to say: "text" or "call"
  style,      \* the protocol, and what the gateway sends besides the terminal frame
  spot,       \* the fragment of the item the service is at, and whether it has closed it
  parts,      \* the fragments of an item the client has heard (text_parts, inputs)
  items,      \* the items that are complete (items, closed_blocks)
  shown,      \* the fragments the engine was given, in that order
  finish,     \* the reason of the terminal frame, "none" before it
  stream      \* "open", then "ended" or "failed"

streamVars == <<answer, style, spot, parts, items, shown, finish, stream>>

Styles ==
  [protocol : {"chat", "messages"}, deltas : {TRUE}, dones : {TRUE}, output : {FALSE}]
    \cup {s \in [protocol : {"responses"}, deltas : BOOLEAN, dones : BOOLEAN, output : BOOLEAN] :
            s.dones \/ s.output}

StreamInit ==
  /\ answer \in UNION {[1..n -> {"text", "call"}] : n \in 1..MaxItems}
  /\ style \in Styles
  /\ spot = [item |-> 1, fragment |-> 0]
  /\ parts = [i \in Items |-> 0] /\ items = {}
  /\ shown = <<>> /\ finish = "none" /\ stream = "open"

Listening == stream = "open" /\ finish = "none"
Speaks(i) == Listening /\ spot.item = i /\ i <= Len(answer)
Whole(i) == [k \in Fragments |-> <<i, k>>]
Client(p, i, s) == parts' = p /\ items' = i /\ shown' = s

-----------------------------------------------------------------------------
(* Fragments.  Chat completions sends those of calls as well, the Messages      *)
(* protocol publishes a call when its block ends, Responses when its item is     *)
(* done.                                                                       *)

Published(i) == answer[i] = "text" \/ style.protocol = "chat"

Fragment(i) ==
  /\ Speaks(i) /\ spot.fragment < 2
  /\ LET k == spot.fragment + 1
         heard == style.deltas /\ (answer[i] = "text" \/ style.protocol # "responses")
     IN /\ spot' = [spot EXCEPT !.fragment = k]
        /\ Client(IF heard THEN [parts EXCEPT ![i] = k] ELSE parts, items,
                  IF heard /\ Published(i) THEN Append(shown, <<i, k>>) ELSE shown)
  /\ UNCHANGED <<answer, style, finish, stream>>

\* mutant: what has come in fragments is published again
Missing_Always(i, n) == SubSeq(Whole(i), 1, n)
\* _complete_response_item: a text nobody has heard of, and every call
Missing(i, n) == IF answer[i] = "text" /\ parts[i] > 0 THEN <<>> ELSE SubSeq(Whole(i), 1, n)

\* What completing the items adds: each at most once, as far as the service has got with it.
Length(i) == IF i < spot.item THEN 2 ELSE IF i = spot.item THEN spot.fragment ELSE 0
Completing(is) ==
  LET upTo[i \in 0..MaxItems] ==
        IF i = 0 THEN shown
        ELSE upTo[i - 1] \o (IF i \in is \ items THEN Missing(i, Length(i)) ELSE <<>>)
  IN upTo[MaxItems]

\* response.output_item.done, which a gateway may repeat; content_block_stop
ItemDone(i) ==
  /\ Speaks(i) /\ spot.fragment = 2
  /\ spot' = [item |-> i + 1, fragment |-> 0]
  /\ CASE style.protocol = "chat" -> Client(parts, items, shown)
       [] style.protocol = "messages" ->
            Client(parts, items \cup {i},
                   IF answer[i] = "call" THEN shown \o Whole(i) ELSE shown)
       [] style.protocol = "responses" ->
            IF style.dones THEN Client(parts, items \cup {i}, Completing({i}))
            ELSE Client(parts, items, shown)
  /\ UNCHANGED <<answer, style, finish, stream>>

RepeatDone(i) ==
  /\ Listening /\ style.protocol = "responses" /\ i \in items
  /\ Client(parts, items, Completing({i}))
  /\ UNCHANGED <<answer, style, spot, finish, stream>>

-----------------------------------------------------------------------------
(* The end of the answer. *)

SaidItems == {i \in DOMAIN answer : Length(i) > 0}
\* The items of the terminal frame, or those that were done.
Terminal == IF style.protocol = "responses" /\ style.output THEN SaidItems ELSE items

\* The generator returns at the terminal frame; with chat completions it waits for the usage.
AfterFinish == IF style.protocol = "chat" THEN "open" ELSE "ended"

FinishWith(reason) ==
  /\ Client(parts, items \cup Terminal, Completing(Terminal))
  /\ finish' = reason /\ stream' = AfterFinish
  /\ UNCHANGED <<answer, style, spot>>

FinishWhole == Listening /\ spot.item > Len(answer) /\ FinishWith("stop")

\* The output limit.  Messages closes the open block first: that of a text is cut short, that
\* of a call has arguments that are no JSON, which is an error, as is a block left open (Cut).
FinishShort ==
  /\ Listening /\ spot.item <= Len(answer)
  /\ IF style.protocol = "messages" /\ spot.fragment > 0 /\ answer[spot.item] = "call"
       THEN stream' = "failed" /\ UNCHANGED <<answer, style, spot, parts, items, shown, finish>>
       ELSE FinishWith("length")

\* mutant: an error after the terminal frame counts as one before it
AfterCut_Fails == "failed"
\* An error frame or one that is no JSON, the end of the connection, [DONE]
AfterCut == IF finish = "none" THEN "failed" ELSE "ended"

Cut ==
  /\ stream = "open" /\ stream' = AfterCut
  /\ UNCHANGED <<answer, style, spot, parts, items, shown, finish>>

StreamNext ==
  \/ \E i \in Items : Fragment(i) \/ ItemDone(i) \/ RepeatDone(i)
  \/ FinishWhole \/ FinishShort \/ Cut

StreamTypeOK ==
  /\ answer \in Seq({"text", "call"}) /\ style \in Styles
  /\ spot \in [item : 1..(MaxItems + 1), fragment : 0..2]
  /\ parts \in [Items -> 0..2] /\ items \subseteq Items
  /\ shown \in Seq(Items \X Fragments)
  /\ finish \in {"none", "stop", "length"} /\ stream \in {"open", "ended", "failed"}

-----------------------------------------------------------------------------
Text(s) == Picked(s, {k \in DOMAIN s : answer[s[k][1]] = "text"})
\* the fragments of the answer, one after the other
Full == [n \in 1..(2 * Len(answer)) |-> <<(n + 1) \div 2, 2 - (n % 2)>>]

\* What the engine is given is what the service said (NativeStream.decode, provider_adapters.py):
\* the text in its order and nothing twice, whatever the gateway repeats and wherever the
\* stream is cut; a stream that ends after a whole answer has given all of it, every call
\* included, and what comes after its terminal frame does not take it back
\* (llm_client.py:390-394).
StreamIsFaithful ==
  /\ IsPrefix(Text(shown), Text(Full)) /\ IsInjective(shown)
  /\ finish = "stop" => stream # "failed" /\ ToSet(shown) = ToSet(Full)
  /\ stream = "ended" => finish # "none"
=============================================================================
