----------------------------- MODULE ChatStream -----------------------------
(***************************************************************************)
(* A chat with an agent: the page in the browser (send and pump, in        *)
(* cli.js), the gateway's handleChat and streamChat (cli.js, llm.js) and   *)
(* the LLM provider. Each action is one callback of one of the three.      *)
(***************************************************************************)
EXTENDS Sieve

CONSTANTS
  Providers,  \* configurations of the gateway: "openai", "anthropic", "none"
  MaxChats,   \* bound on the messages the user sends
  MaxText,    \* bound on the characters a provider sends in one answer
  MaxChunk    \* bound on the characters of one data event

ASSUME ChatAssumption ==
  /\ Providers \subseteq {"openai", "anthropic", "none"}
  /\ MaxChats \in Nat /\ MaxText \in Nat /\ MaxChunk \in Nat

VARIABLES
  provider,   \* what resolveProvider finds in the configuration
  ui,         \* the page
  messages,   \* the conversation the page keeps and sends
  gone,       \* chats whose connection the browser has left
  gw,         \* the gateway's request, by chat
  sent        \* everything the provider has sent, by chat

vars == <<provider, ui, messages, gone, gw, sent>>

Chat == 1..MaxChats

\* What a provider sends is a text of payloads and line ends, each a pair of
\* a kind and its place in the text. "streamError" is an error event whose
\* message says so, "other" anything else, other error events included.
Kinds == {"token", "stop", "streamError", "other", "nl"}
Text == Seq(Kinds \X (1..MaxText))
Tokens(s) == Sift(s, {"token"} \X Nat)

Done == <<"done", 0>>
Error == <<"error", 0>>

NoChat == [st |-> "none", done |-> FALSE, up |-> "none", buf |-> <<>>,
           out |-> <<>>]
Idle == [streaming |-> FALSE, phase |-> "idle", chat |-> 0, read |-> 0,
         fullText |-> <<>>]

ChatTypeOK ==
  /\ provider \in Providers
  /\ ui \in [streaming : BOOLEAN, phase : {"idle", "fetching", "reading", "stuck"},
             chat : 0..MaxChats, read : 0..(MaxText \div 2 + 1), fullText : Text]
  /\ messages \in Seq([role : {"user", "assistant"}, chat : Chat, text : Text])
  /\ gone \subseteq Chat
  /\ gw \in [Chat -> [st : {"none", "asked", "refused", "open", "ended"},
                      done : BOOLEAN,
                      up : {"none", "asked", "refusing", "streaming", "over"},
                      buf : Text,
                      out : Seq((Kinds \X (1..MaxText)) \cup {Done, Error})]]
  /\ sent \in [Chat -> Text]

Init ==
  /\ provider \in Providers
  /\ ui = Idle
  /\ messages = <<>>
  /\ gone = {}
  /\ gw = [c \in Chat |-> NoChat]
  /\ sent = [c \in Chat |-> <<>>]
-----------------------------------------------------------------------------
(* Lines: both parsers and the page's pump take what they have up to the   *)
(* last line end, and stop at the first line that ends the answer.         *)

\* Mutants: the parser forgets the incomplete line it was left with, or keeps
\* the lines it has parsed.
LeftOverLost(text) == <<>>
LeftOverAll(text) == text
EndOfLines(text) == Max({0} \cup {k \in 1..Len(text) : text[k][1] = "nl"})
Lines(text) == SubSeq(text, 1, EndOfLines(text))
LeftOver(text) == SubSeq(text, EndOfLines(text) + 1, Len(text))

ReadLines(lines, ends) ==
  LET last == {k \in 1..Len(lines) : lines[k][1] \in ends}
  IN  IF last = {} THEN [tokens |-> Tokens(lines), end |-> "more"]
      ELSE [tokens |-> Tokens(SubSeq(lines, 1, Min(last) - 1)), end |-> lines[Min(last)][1]]

parseOpenAIStream(text) == ReadLines(Lines(text), {"stop"})

\* An error event is thrown, and caught again unless it is a "stream error".
parseAnthropicStream(text) == ReadLines(Lines(text), {"stop", "streamError"})

parseStream(text) == IF provider = "anthropic" THEN parseAnthropicStream(text)
                                               ELSE parseOpenAIStream(text)
-----------------------------------------------------------------------------
(* handleChat's callbacks, on the request g.                               *)

\* Mutant: a second callback answers again.
Again(g, event) == [g EXCEPT !.done = TRUE, !.out = Append(@, event), !.st = "ended"]
Answer(g, event) ==
  IF g.done THEN g
  ELSE [g EXCEPT !.done = TRUE, !.out = Append(@, event), !.st = "ended"]

onToken(g, tokens) == IF g.done THEN g ELSE [g EXCEPT !.out = @ \o tokens]
onDone(g) == Answer(g, Done)
onError(g) == Answer(g, Error)
-----------------------------------------------------------------------------
(* The gateway.                                                            *)

\* The request is not authorized: 401.
RefuseChat(c) ==
  /\ gw[c].st = "asked"
  /\ gw' = [gw EXCEPT ![c].st = "refused"]
  /\ UNCHANGED <<provider, ui, messages, gone, sent>>

\* The head of the answer is written and the provider is asked.
handleChat(c) ==
  /\ gw[c].st = "asked"
  /\ LET g == [gw[c] EXCEPT !.st = "open"]
     IN gw' = [gw EXCEPT ![c] = IF provider = "none" THEN onError(g)
                                ELSE [g EXCEPT !.up = "asked"]]
  /\ UNCHANGED <<provider, ui, messages, gone, sent>>

\* The provider answers with a status; from 400 on its body is an error.
Status(c) ==
  /\ gw[c].up = "asked"
  /\ \E up \in {"streaming", "refusing"} : gw' = [gw EXCEPT ![c].up = up]
  /\ UNCHANGED <<provider, ui, messages, gone, sent>>

RefusalEnd(c) ==
  /\ gw[c].up = "refusing"
  /\ gw' = [gw EXCEPT ![c] = onError([@ EXCEPT !.up = "over"])]
  /\ UNCHANGED <<provider, ui, messages, gone, sent>>

\* The connection to the provider fails, before the answer or within it.
StreamError(c) ==
  /\ gw[c].up \in {"asked", "streaming"}
  /\ gw' = [gw EXCEPT ![c] = onError([@ EXCEPT !.up = "over"])]
  /\ UNCHANGED <<provider, ui, messages, gone, sent>>

\* A chunk arrives, cut anywhere. Blank lines, which are skipped, are left out.
Data(c) ==
  /\ gw[c].up = "streaming"
  /\ \E n \in 1..MaxChunk : \E kinds \in [1..n -> Kinds] :
       LET chunk == [k \in 1..n |-> <<kinds[k], Len(sent[c]) + k>>]
           all == sent[c] \o chunk
           text == gw[c].buf \o chunk
           p == parseStream(text)
           g == onToken([gw[c] EXCEPT !.buf = LeftOver(text)], p.tokens)
       IN  /\ Len(all) <= MaxText
           /\ \A k \in 1..n : kinds[k] = "nl" <=> (Len(sent[c]) + k) % 2 = 0
           /\ sent' = [sent EXCEPT ![c] = all]
           /\ gw' = [gw EXCEPT ![c] = CASE p.end = "more" -> g
                                        [] p.end = "stop" -> onDone(g)
                                        [] OTHER -> onError(g)]
  /\ UNCHANGED <<provider, ui, messages, gone>>

\* Mutant: only an explicit marker completes the answer.
EndSilent(g) == g
\* The end of the provider's answer completes one without an explicit marker.
AtEnd(g) == onDone(g)
End(c) ==
  /\ gw[c].up = "streaming"
  /\ gw' = [gw EXCEPT ![c] = AtEnd([@ EXCEPT !.up = "over"])]
  /\ UNCHANGED <<provider, ui, messages, gone, sent>>

\* The response's close event, when the browser has left.
Close(c) ==
  /\ c \in gone /\ gw[c].st = "open" /\ ~gw[c].done
  /\ gw' = [gw EXCEPT ![c].done = TRUE]
  /\ UNCHANGED <<provider, ui, messages, gone, sent>>
-----------------------------------------------------------------------------
(* The page.                                                               *)

send ==
  /\ ~ui.streaming
  /\ ui.chat < MaxChats
  /\ ui' = [Idle EXCEPT !.streaming = TRUE, !.phase = "fetching",
                        !.chat = ui.chat + 1]
  /\ messages' = Append(messages, [role |-> "user", chat |-> ui.chat + 1,
                                   text |-> <<>>])
  /\ gw' = [gw EXCEPT ![ui.chat + 1].st = "asked"]
  /\ UNCHANGED <<provider, gone, sent>>

Ready == [Idle EXCEPT !.chat = ui.chat]

\* fetch resolves; an answer that is not ok is thrown and caught.
fetched ==
  /\ ui.phase = "fetching"
  /\ \/ /\ gw[ui.chat].st \in {"open", "ended"}
        /\ ui' = [ui EXCEPT !.phase = "reading"]
     \/ gw[ui.chat].st = "refused" /\ ui' = Ready
  /\ UNCHANGED <<provider, messages, gone, gw, sent>>

\* An answer with text joins the conversation.
finish(text) ==
  /\ messages' = IF text = <<>> THEN messages
                 ELSE Append(messages, [role |-> "assistant", chat |-> ui.chat,
                                        text |-> text])
  /\ ui' = Ready

\* Mutant: an answer cut short by an error joins the conversation as well.
FailKept(text) == finish(text)
\* An error replaces the text on the page; the conversation is left alone.
fail(text) == ui' = Ready /\ UNCHANGED messages

\* Some of the events written so far arrive, or the end of the response.
pump ==
  /\ ui.phase = "reading"
  /\ LET out == gw[ui.chat].out
     IN \E n \in ui.read..Len(out) :
          LET p == ReadLines(SubSeq(out, ui.read + 1, n), {"done", "error"})
              end == IF n = ui.read THEN "done" ELSE p.end
              text == ui.fullText \o p.tokens
          IN  /\ n = ui.read => n = Len(out) /\ gw[ui.chat].st = "ended"
              /\ \/ end = "done" /\ finish(text)
                 \/ end = "error" /\ fail(text)
                 \/ /\ end = "more"
                    /\ ui' = [ui EXCEPT !.read = n, !.fullText = text]
                    /\ UNCHANGED messages
  /\ UNCHANGED <<provider, gone, gw, sent>>

\* Stop is pressed, or the connection breaks. The rejected fetch is caught;
\* nothing catches the rejected read, and the page stays in stream mode.
Leave ==
  /\ ui.phase \in {"fetching", "reading"}
  /\ ui' = IF ui.phase = "fetching" THEN Ready ELSE [ui EXCEPT !.phase = "stuck"]
  /\ gone' = gone \cup {ui.chat}
  /\ UNCHANGED <<provider, messages, gw, sent>>
-----------------------------------------------------------------------------
Upstream(c) == RefusalEnd(c) \/ StreamError(c) \/ End(c)

Next ==
  \/ \E c \in Chat : \/ RefuseChat(c)
                     \/ handleChat(c)
                     \/ Status(c)
                     \/ Data(c)
                     \/ Upstream(c)
                     \/ Close(c)
  \/ send
  \/ fetched
  \/ pump
  \/ Leave

ChatSpec == Init /\ [][Next]_vars

\* The event loops of gateway and page run what is ready, and a provider's
\* answer ends at some time: the code itself has no timeout for it.
FairChatSpec ==
  /\ ChatSpec
  /\ \A c \in Chat : /\ WF_vars(RefuseChat(c) \/ handleChat(c))
                     /\ WF_vars(Upstream(c))
  /\ WF_vars(fetched)
  /\ WF_vars(pump)
-----------------------------------------------------------------------------
(* Properties.                                                             *)

\* However the callbacks of streamChat follow each other (a done marker and
\* the end of the stream, an error and more data), handleChat writes one
\* verdict, as the last thing before it ends the response.
OneVerdict ==
  \A c \in Chat : \A k \in 1..Len(gw[c].out) :
    gw[c].out[k] \in {Done, Error} <=> gw[c].st = "ended" /\ k = Len(gw[c].out)

\* The tokens of the lines that are complete, before one that says stop.
Said(text) ==
  LET complete(k) == k < Len(text) /\ text[k + 1][1] = "nl"
      stopped(k) == \E j \in 1..k : text[j][1] = "stop" /\ complete(j)
  IN  {text[k] : k \in {j \in 1..Len(text) :
                          text[j][1] = "token" /\ complete(j) /\ ~stopped(j)}}

\* A response that ends with done carries every token of the provider's
\* complete lines up to its stop marker, in order, wherever chunks were cut.
DoneIsComplete ==
  \A c \in Chat :
    Done \in Range(gw[c].out) =>
      /\ Range(Tokens(gw[c].out)) = Said(sent[c])
      /\ \A j, k \in 1..Len(gw[c].out) :
           j < k /\ gw[c].out[k] # Done => gw[c].out[j][2] < gw[c].out[k][2]

\* The conversation that is sent with the next message holds an answer only
\* right after its question, and only an answer that was completed, in full.
AnswersWhole ==
  \A k \in 1..Len(messages) :
    messages[k].role = "assistant" =>
      LET c == messages[k].chat
      IN  /\ k > 1
          /\ messages[k - 1].role = "user" /\ messages[k - 1].chat = c
          /\ gw[c].out = messages[k].text \o <<Done>>

\* Stream mode ends, or the page was left in it by a read that was rejected.
StreamModeEnds == ui.streaming ~> (~ui.streaming \/ ui.phase = "stuck")
=============================================================================
