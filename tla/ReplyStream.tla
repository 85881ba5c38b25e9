---------------------------- MODULE ReplyStream ----------------------------
(***************************************************************************)
(* A reply on its way from an engine's tokens to the client, in the two    *)
(* bundles that take it apart while it is generated:                       *)
(*   "vl"     qwen3_vl_8b_nvfp4: Qwen3VlEngine.stream_generate feeds one   *)
(*            token at a time to a StreamParser, which separates content   *)
(*            from tool calls and looks for stop strings;                  *)
(*   "agent"  qwen36_27b_nvfp4 (and qwen3_8b_nvfp4, the same files): the   *)
(*            service's SSE lines pass Qwen36ThinkingStreamSplitter, which *)
(*            separates reasoning from the answer, on a worker thread that *)
(*            bridge_sync_chunk_iterator joins to the event loop.          *)
(*                                                                         *)
(* A text is a sequence of symbols; a tag is a short sequence of them, so  *)
(* that a token or a line may end within a tag.                            *)
(***************************************************************************)
EXTENDS Naturals, Sequences, FiniteSets, SequencesExt, FiniteSetsExt

CONSTANTS
  Models,     \* which of "vl" and "agent" answers
  Tokens,     \* what one token of the engine may decode to
  Limits,     \* the max_tokens a request may ask for
  Words,      \* what one line of the service may carry as content
  MaxLines,   \* bound of this model: lines with content
  QueueCap    \* maxsize of out_q

ASSUME StreamAssumption ==
  /\ Models \subseteq {"vl", "agent"}
  /\ Limits \subseteq Nat /\ MaxLines \in Nat
  /\ QueueCap \in Nat \ {0}

(* What texts are made of: strings, among them the parts of tags.          *)
Symbols == STRING \cup {"o1", "o2", "c1", "c2", "s", "z", "t", "i", "o", "w", "j", "n",
                      "b", "k", "r", "e", "x"}
Texts   == Seq(Symbols)

Open  == <<"o1", "o2">>     \* <tool_call>
Close == <<"c1", "c2">>     \* </tool_call>
Stop  == <<"s", "s", "z">>  \* the request's stop string
Marks == {<<"t", "i">>, <<"t", "o">>}   \* </think> and </thought>, which begin alike
Space == {"w"}

(* <thinking> and </thinking>, which begins like a closing mark; the second *)
(* of each is the spelling with redacted_.                                  *)
OpenTags  == {<<"b", "k">>, <<"r", "k">>}
CloseTags == {<<"t", "e">>, <<"x", "e">>}

(* The tokenizer has </tool_call> as one token; feed holds back the beginning *)
(* of an opening tag or of a stop string, not of a closing tag (98-112).      *)
ASSUME TextAssumption ==
  /\ Words \subseteq Texts
  /\ \A t \in Tokens : t \in Texts /\ (t = Close \/ \A i \in DOMAIN t : t[i] \notin {"c1", "c2"})

VARIABLES
  model,   \* the backend
  req,     \* the request: tools, stop strings, enable_thinking
  left,    \* tokens, or lines, still allowed
  said,    \* all the text the engine has generated
  buf,     \* _buffer of the parser, or _buf of the splitter
  tool,    \* <<>>, or <<_tool_buffer>> while _in_tool
  calls,   \* _tool_calls_emitted
  split,   \* _done_reasoning
  todo,    \* chunks the generator of the worker thread has still to yield
  thread,  \* the worker thread
  queue,   \* out_q
  reader,  \* the generator of bridge_sync_chunk_iterator; its cancel event
  got      \* what the client has: content, reasoning, how the reply ended

parser   == <<buf, tool, calls>>
bridge   == <<todo, thread, queue, reader>>
vars     == <<model, req, left, said, parser, split, bridge, got>>

-----------------------------------------------------------------------------
(* Text *)

At(text, tag, i) == i + Len(tag) - 1 <= Len(text) /\ SubSeq(text, i, i + Len(tag) - 1) = tag
Occurrences(text, tag) == {i \in DOMAIN text : At(text, tag, i)}

(* str.find, from 1, with 0 for "not found". *)
Find(text, tag) ==
  IF Occurrences(text, tag) = {} THEN 0 ELSE Min(Occurrences(text, tag))

Before(text, i) == SubSeq(text, 1, i - 1)
After(text, i)  == SubSeq(text, i, Len(text))

(* What of a sequence is at some of its positions. *)
Picked(text, S) ==
  LET kept[n \in 0..Len(text)] ==
        IF n = 0 THEN <<>>
        ELSE IF n \in S THEN Append(kept[n - 1], text[n]) ELSE kept[n - 1]
  IN kept[Len(text)]

Squeezed(text) == Picked(text, {i \in DOMAIN text : text[i] \notin Space})

-----------------------------------------------------------------------------
(* The request *)

Flags == {"absent", "true", "false", "odd"}

(* The fields of a chat/completions body that matter here.  "other" is of *)
(* a type the field does not have, "odd" no boolean.                      *)
Bodies ==
  [tools : {"absent", "empty", "list", "other"}, stop : {"absent", "empty", "string", "list", "other"},
   enable_thinking : Flags, chat_template_kwargs : Flags]

EnableThinking(body) ==
  CASE body.enable_thinking \in {"true", "false"} -> body.enable_thinking = "true"
    [] body.enable_thinking \notin {"true", "false"} /\ body.chat_template_kwargs \in {"true", "false"} ->
         body.chat_template_kwargs = "true"
    [] OTHER -> TRUE

Parsed(body) ==
  [tools |-> body.tools = "list", stop |-> body.stop \in {"string", "list"},
   thinking |-> EnableThinking(body)]

-----------------------------------------------------------------------------
(* StreamParser *)

(* json.loads of a tool call's body: an object, something else that has no  *)
(* `get`, or no JSON.                                                       *)
Body(text) ==
  CASE Squeezed(text) = <<"j">> -> "call"
    [] Squeezed(text) = <<"n">> -> "raises"
    [] OTHER -> "none"

(* (mutant: only the open tag is held back, not a stop string) *)
HoldTag(r) == IF r.tools THEN Len(Open) - 1 ELSE 0

(* How much of the text's end may be the beginning of a tag. *)
Hold(r) ==
  Max({1} \cup (IF r.tools THEN {Len(Open)} ELSE {}) \cup (IF r.stop THEN {Len(Stop)} ELSE {})) - 1

(* One round of the loop in feed. *)
Round(r, hold, p) ==
  LET close == Find(p.buf, Close)
      open  == IF r.tools THEN Find(p.buf, Open) ELSE 0
      safe  == IF Len(p.buf) > hold THEN Len(p.buf) - hold ELSE 0
  IN CASE p.done -> p
       [] ~p.done /\ p.tool # <<>> /\ close = 0 ->
            [p EXCEPT !.tool = <<@[1] \o p.buf>>, !.buf = <<>>, !.done = TRUE]
       [] ~p.done /\ p.tool # <<>> /\ close # 0 ->
            LET body == p.tool[1] \o Before(p.buf, close)
            IN [p EXCEPT !.tool = <<>>,
                         !.buf = After(@, close + Len(Close)),
                         !.calls = IF Body(body) = "call" THEN Append(@, body) ELSE @,
                         !.raises = Body(body) = "raises",
                         !.done = Body(body) = "raises"]
       [] ~p.done /\ p.tool = <<>> /\ open = 0 ->
            [p EXCEPT !.text = @ \o SubSeq(p.buf, 1, safe),
                      !.buf = After(@, safe + 1), !.done = TRUE]
       [] ~p.done /\ p.tool = <<>> /\ open # 0 ->
            [p EXCEPT !.text = @ \o Before(p.buf, open),
                      !.buf = After(@, open + Len(Open)), !.tool = <<<<>>>>]

(* The first n rounds. *)
Rounds(r, hold, p, n) ==
  LET loop[i \in 0..n] == IF i = 0 THEN p ELSE Round(r, hold, loop[i - 1])
  IN loop[n]

Held(r, final, hit) == IF final \/ hit THEN 0 ELSE Hold(r)

(* feed: what the parser becomes, the content it lets go, whether a stop *)
(* string was hit and whether a tool call's body made it raise.          *)
Feed(fragment, final) ==
  LET all  == buf \o fragment
      stop == IF req.stop /\ tool = <<>> THEN Find(all, Stop) ELSE 0
      p0   == [buf |-> IF stop # 0 THEN Before(all, stop) ELSE all, tool |-> tool,
               calls |-> calls, text |-> <<>>, done |-> FALSE, raises |-> FALSE]
  IN [state |-> Rounds(req, Held(req, final, stop # 0), p0, Len(all) + 2), hit |-> stop # 0]

-----------------------------------------------------------------------------
(* Qwen3VlEngine.stream_generate *)

FastText == ~req.tools /\ ~req.stop

(* The events of an engine as the client's reply grows by them. *)
Received(text, all, end) ==
  got' = [got EXCEPT !.content = @ \o text, !.calls = all, !.end = end]

(* What a feed brings the client, and how the reply goes on. *)
Yield(f, end) ==
  LET p == f.state IN
  IF p.raises
  THEN Received(<<>>, got.calls, "error") /\ UNCHANGED parser
  ELSE Received(p.text, p.calls, end) /\ buf' = p.buf /\ tool' = p.tool /\ calls' = p.calls

Generating == model = "vl" /\ got.end = "no"

(* A token that is not an end of sequence.  After the last one the loop is *)
(* left by `break`, so that its `else` clause, which would feed the parser *)
(* a last time, is not reached.                                            *)
Token(t) ==
  /\ Generating
  /\ left > 0
  /\ left' = left - 1
  /\ said' = said \o t
  /\ IF FastText
     THEN Received(t, <<>>, IF left = 1 THEN "length" ELSE "no") /\ UNCHANGED parser
     ELSE LET f == Feed(t, FALSE)
          IN Yield(f, IF f.hit THEN "stop" ELSE IF left = 1 THEN "length" ELSE "no")
  /\ UNCHANGED <<model, req, split, bridge>>

(* (mutant: the end of the sequence does not flush the parser) *)
NotFlushed == [state |-> [buf |-> buf, tool |-> tool, calls |-> calls, text |-> <<>>,
                          done |-> TRUE, raises |-> FALSE], hit |-> FALSE]

Flushed == Feed(<<>>, TRUE)

EndOfSequence ==
  /\ Generating
  /\ left > 0
  /\ IF FastText
     THEN Received(<<>>, <<>>, "stop") /\ UNCHANGED parser
     ELSE Yield(Flushed, IF Flushed.state.calls # <<>> THEN "tool_calls" ELSE "stop")
  /\ UNCHANGED <<model, req, left, said, split, bridge>>

(* max_tokens is zero: the loop is not entered and its `else` clause is. *)
NoTokens ==
  /\ Generating
  /\ left = 0
  /\ Received(<<>>, <<>>, "length")
  /\ UNCHANGED <<model, req, left, said, parser, split, bridge>>

-----------------------------------------------------------------------------
(* Qwen36ThinkingStreamSplitter *)

Positions(text) == UNION {Occurrences(text, m) : m \in Marks}
FirstMark(text) == Min(Positions(text))
AfterMark(text) ==
  LET i == FirstMark(text)
      m == CHOOSE m \in Marks : At(text, m, i)
  IN After(text, i + Len(m))

Blank(text) == \A i \in DOMAIN text : text[i] \in Space
LStrip(text) ==
  IF Blank(text) THEN <<>> ELSE After(text, Min({i \in DOMAIN text : text[i] \notin Space}))
RStrip(text) ==
  IF Blank(text) THEN <<>> ELSE SubSeq(text, 1, Max({i \in DOMAIN text : text[i] \notin Space}))
Strip(text) == LStrip(RStrip(text))

TagsAt(text, tags) == UNION {Occurrences(text, t) : t \in tags}

(* _strip_open_thinking_tags: the tags taken out in one pass. *)
Untagged(text) ==
  LET tags == TagsAt(text, OpenTags \cup CloseTags)
  IN Picked(text, {n \in DOMAIN text : n \notin tags /\ n - 1 \notin tags})
StripTags(text) == Strip(Untagged(text))

(* The longest end of the text that a closing mark begins with. *)
HoldSuffix(text) ==
  Max({0} \cup {n \in DOMAIN text :
        \E m \in Marks : n <= Len(m) /\ SubSeq(m, 1, n) = After(text, Len(text) - n + 1)})

Chunk(field, text) == IF text = <<>> THEN <<>> ELSE <<[field |-> field, text |-> text]>>
Mark(field) == <<[field |-> field, text |-> <<>>]>>

(* feed: the chunks it yields, the text it keeps, whether reasoning is over. *)
Fed(text) ==
  LET all  == buf \o text
      hold == HoldSuffix(all)
  IN IF text = <<>> \/ ~req.thinking \/ split
     THEN [out |-> Chunk("content", text), buf |-> buf, split |-> split]
     ELSE IF Positions(all) # {}
     THEN [out |-> Chunk("reasoning", StripTags(Before(all, FirstMark(all))))
                    \o Chunk("content", LStrip(AfterMark(all))),
           buf |-> <<>>, split |-> TRUE]
     ELSE [out |-> Chunk("reasoning", SubSeq(all, 1, Len(all) - hold)),
           buf |-> After(all, Len(all) - hold + 1), split |-> FALSE]

(* flush *)
Rest(f) ==
  IF f.split THEN Chunk("content", f.buf) ELSE Chunk("reasoning", StripTags(f.buf))

(* A block: the first opening tag and the first closing one after it. *)
Closers(text, i) == {k \in TagsAt(text, CloseTags) : k >= i + 2}
Blocks(text) == {i \in TagsAt(text, OpenTags) : Closers(text, i) # {}}

(* split_qwen36_assistant_text, for a reply that is not streamed. *)
Whole(text, thinking) ==
  IF Blocks(text) # {}
  THEN LET i == Min(Blocks(text))
           k == Min(Closers(text, i))
       IN [reasoning |-> Strip(SubSeq(text, i + 2, k - 1)),
           content |-> Strip(Before(text, i) \o LStrip(After(text, k + 2)))]
  ELSE IF Positions(text) # {}
  THEN [reasoning |-> StripTags(Before(text, FirstMark(text))), content |-> Strip(AfterMark(text))]
  ELSE IF thinking THEN [reasoning |-> Strip(text), content |-> <<>>]
  ELSE [reasoning |-> <<>>, content |-> text]

-----------------------------------------------------------------------------
(* The worker thread of bridge_sync_chunk_iterator *)

Cancelled == reader # "get"

Asks == model = "agent" /\ thread = "run" /\ todo = <<>>

(* A line of the service with content, a finish reason or both, read by     *)
(* sse_lines_to_chat_chunks and taken apart by _iter_stream_chunks.         *)
Line(text, finish) ==
  /\ Asks
  /\ text # <<>> \/ finish
  /\ left > 0
  /\ said' = said \o text
  /\ LET f == Fed(text) IN
     /\ buf' = IF finish THEN <<>> ELSE f.buf
     /\ split' = f.split
     /\ todo' = f.out \o (IF finish THEN Rest(f) \o Mark("finish") ELSE <<>>)
  /\ left' = IF finish THEN 0 ELSE left - 1
  /\ UNCHANGED <<model, req, tool, calls, thread, queue, reader, got>>

(* [DONE], the end of the lines, or a line that says "error": the generator *)
(* is exhausted or raises, and is closed.                                   *)
LastLine ==
  /\ Asks
  /\ thread' = "closing"
  /\ \/ todo' = Mark("end")
     \/ todo' = IF Cancelled THEN Mark("end") ELSE Mark("raise") \o Mark("end")
  /\ UNCHANGED <<model, req, left, said, parser, split, queue, reader, got>>

Popped ==
  /\ todo' = Tail(todo)
  /\ thread' = IF Head(todo).field = "end" THEN "ended" ELSE thread

Put ==
  /\ todo # <<>>
  /\ Len(queue) < QueueCap
  /\ queue' = Append(queue, Head(todo))
  /\ Popped
  /\ UNCHANGED <<model, req, left, said, parser, split, reader, got>>

(* (mutant: a full queue is waited for without looking at the event) *)
NeverGivesUp == FALSE

GivesUp == Cancelled /\ Len(queue) = QueueCap

(* q.put(timeout=1.0) after the event is set: the item is dropped. *)
Drop ==
  /\ todo # <<>>
  /\ GivesUp
  /\ Popped
  /\ UNCHANGED <<model, req, left, said, parser, split, queue, reader, got>>

(* The loop finds the event set before a chunk: it closes the generator. *)
Break ==
  /\ todo # <<>>
  /\ thread = "run"
  /\ Cancelled
  /\ todo' = Mark("end")
  /\ thread' = "closing"
  /\ UNCHANGED <<model, req, left, said, parser, split, queue, reader, got>>

-----------------------------------------------------------------------------
(* The generator on the event loop *)

Delivered(chunk) ==
  CASE chunk.field = "content"   -> [got EXCEPT !.content = @ \o chunk.text]
    [] chunk.field = "reasoning" -> [got EXCEPT !.reasoning = @ \o chunk.text]
    [] chunk.field = "finish"    -> [got EXCEPT !.end = "stop"]
    [] chunk.field = "raise"     -> [got EXCEPT !.end = "error"]
    [] chunk.field = "end"       -> [got EXCEPT !.end = "closed"]

(* out_q.get: the HTTP handler returns after a finish chunk. *)
Get ==
  /\ reader = "get"
  /\ queue # <<>>
  /\ got' = Delivered(Head(queue))
  /\ queue' = Tail(queue)
  /\ reader' = IF got'.end = "no" THEN "get" ELSE "closing"
  /\ UNCHANGED <<model, req, left, said, parser, split, todo, thread>>

Disconnect ==
  /\ model = "agent"
  /\ reader = "get"
  /\ reader' = "closing"
  /\ got' = [got EXCEPT !.end = "gone"]
  /\ UNCHANGED <<model, req, left, said, parser, split, todo, thread, queue>>

(* The finally clause: the queue is drained, once, and the thread joined. *)
Drain ==
  /\ reader = "closing"
  /\ reader' = "joining"
  /\ queue' = <<>>
  /\ UNCHANGED <<model, req, left, said, parser, split, todo, thread, got>>

(* thread.join returns because the thread has ended or after its timeout. *)
Join ==
  /\ reader = "joining"
  /\ reader' = IF thread = "ended" THEN "done" ELSE "left"
  /\ UNCHANGED <<model, req, left, said, parser, split, todo, thread, queue, got>>

-----------------------------------------------------------------------------
Init ==
  /\ model \in Models
  /\ req \in {Parsed(body) : body \in Bodies}
  /\ IF model = "vl" THEN req.thinking ELSE ~req.tools /\ ~req.stop
  /\ left \in IF model = "vl" THEN Limits ELSE {MaxLines}
  /\ said = <<>> /\ buf = <<>> /\ tool = <<>> /\ calls = <<>>
  /\ split = ~req.thinking
  /\ todo = <<>> /\ queue = <<>>
  /\ thread = IF model = "vl" THEN "none" ELSE "run"
  /\ reader = IF model = "vl" THEN "none" ELSE "get"
  /\ got = [content |-> <<>>, reasoning |-> <<>>, calls |-> <<>>, end |-> "no"]

Worker ==
  \/ \E text \in Words \cup {<<>>}, finish \in BOOLEAN : Line(text, finish)
  \/ LastLine \/ Put \/ Drop \/ Break

Loop == Get \/ Disconnect \/ Drain \/ Join

Next ==
  \/ \E t \in Tokens : Token(t)
  \/ EndOfSequence \/ NoTokens
  \/ Worker \/ Loop

Spec == Init /\ [][Next]_vars

(* The worker thread runs, and the service's lines come to an end; the    *)
(* event loop drains the queue of a generator that is closed.             *)
FairSpec == Spec /\ WF_vars(Worker) /\ WF_vars(Drain)

-----------------------------------------------------------------------------
(* What the whole text means, without the parsers *)

(* The positions inside a tool call, its tags included. *)
InCall(text) ==
  {i \in DOMAIN text :
     \E j \in Occurrences(text, Open) :
        j <= i /\ ~\E k \in Occurrences(text, Close) :
                    k >= j + Len(Open) /\ k + Len(Close) - 1 < i}

Hidden(r, text) == IF r.tools THEN InCall(text) ELSE {}

(* Content ends where a stop string begins outside of every call. *)
Limit(r, text) ==
  IF r.stop THEN Min({Len(text) + 1} \cup (Occurrences(text, Stop) \ Hidden(r, text)))
  ELSE Len(text) + 1

Visible(r, text) == Picked(text, (1..Limit(r, text) - 1) \ Hidden(r, text))

(* Where a call begins, and where the one that begins at j is closed. *)
Opened(text) ==
  {j \in Occurrences(text, Open) :
     ~\E h \in Occurrences(text, Open) :
        h < j /\ ~\E k \in Occurrences(text, Close) : k >= h + Len(Open) /\ k < j}
Closing(text, j) ==
  Min({Len(text) + 1} \cup {k \in Occurrences(text, Close) : k >= j + Len(Open)})

(* The bodies of the calls that are closed, in order, if they are calls. *)
BodyAt(text, j) == SubSeq(text, j + Len(Open), Closing(text, j) - 1)
CallsAt(text) ==
  {j \in Opened(text) : Closing(text, j) <= Len(text) /\ Body(BodyAt(text, j)) = "call"}
Calls(r, text) ==
  IF r.tools THEN Picked([j \in DOMAIN text |-> BodyAt(text, j)], CallsAt(text)) ELSE <<>>

(* The answer follows the first closing mark, and the reasoning precedes it. *)
Streamed(text) ==
  IF ~req.thinking THEN [reasoning |-> <<>>, content |-> text]
  ELSE IF Positions(text) = {} THEN [reasoning |-> text, content |-> <<>>]
  ELSE [reasoning |-> Before(text, FirstMark(text)), content |-> AfterMark(text)]

Expected(text) ==
  IF model = "vl"
  THEN [reasoning |-> <<>>, content |-> Visible(req, text), calls |-> Calls(req, text)]
  ELSE [reasoning |-> Streamed(text).reasoning, content |-> Streamed(text).content, calls |-> <<>>]

(* Of a <thinking> tag in the reasoning the client may get a part, or all:  *)
(* feed strips them from what it has when the mark comes, and from nothing  *)
(* it has sent before.                                                      *)
Tagged ==
  /\ model = "agent" /\ Positions(said) # {}
  /\ TagsAt(Before(said, FirstMark(said)), OpenTags \cup CloseTags) # {}

(* However the text is cut into tokens or lines, what the client has is a  *)
(* beginning of what the whole text means: no piece of a tag, of a stop    *)
(* string or of a call is ever sent as content, and no reasoning as answer *)
(* (white space apart).                                                    *)
NothingLeaks ==
  LET e == Expected(said) IN
  /\ IsPrefix(Squeezed(got.content), Squeezed(e.content))
  /\ Tagged \/ IsPrefix(Squeezed(got.reasoning), Squeezed(e.reasoning))
  /\ IsPrefix(got.calls, e.calls)

(* Where the reply that is not streamed is taken apart as the streamed one: *)
(* it also knows <thinking> blocks, and marks in a reply whose reasoning    *)
(* was not asked for.                                                       *)
Alike ==
  /\ model = "agent" /\ ~Tagged /\ Blocks(said) = {}
  /\ req.thinking \/ Positions(said) = {}

(* A reply that ended by itself has arrived as a whole, calls included, and *)
(* is what the reply of the same text would be that is not streamed.        *)
FinishedIsWhole ==
  LET e == Expected(said)
      whole == Whole(said, req.thinking)
  IN got.end \in {"stop", "tool_calls"} =>
     /\ Squeezed(got.content) = Squeezed(e.content)
     /\ Tagged \/ Squeezed(got.reasoning) = Squeezed(e.reasoning)
     /\ got.calls = e.calls
     /\ Alike =>
           /\ Squeezed(got.content) = Squeezed(whole.content)
           /\ Squeezed(got.reasoning) = Squeezed(whole.reasoning)

(* "the sync generator is closed and we join the worker" (_serve_backend.py, *)
(* 69-71): once the client is gone or served the worker thread ends, with    *)
(* its queue full or empty.                                                  *)
WorkerEnds == model = "agent" /\ Cancelled ~> thread = "ended"
=============================================================================
