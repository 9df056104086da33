--------------------------- MODULE ProviderRequests ---------------------------
(***************************************************************************)
(* The requests a context becomes: toSDKMessages of the three model        *)
(* clients (talk/internal/llm) as operators over the messages of           *)
(* ContextBuilder, and what the providers ask of a request.                *)
(*                                                                         *)
(* `blank` are the turns whose final answer is an empty text. A user's     *)
(* text is never empty, nor is that of an answer that asks for tools: it   *)
(* is stored with a summary of its calls in place of no text.              *)
(***************************************************************************)
EXTENDS ContextBuilder

(* One message of a request: its content in order, each block a text, the  *)
(* use of a tool, or the result of one.                                    *)
Param(role, content) == [role |-> role, content |-> content]

Text(m) == [kind |-> "text", turn |-> m.turn, round |-> m.round, n |-> 0]
ToolUse(m, k) == [kind |-> "use", turn |-> m.turn, round |-> m.round, n |-> k]
ToolResult(m) == [kind |-> "result", turn |-> m.turn, round |-> m.round, n |-> m.n]

HasText(m, blank) ==
  \/ m.role = "user"
  \/ m.role = "assistant" /\ (m.n > 0 \/ m.turn \notin blank)

TextOf(m, blank) == IF HasText(m, blank) THEN <<Text(m)>> ELSE <<>>
ToolUses(m) == [k \in 1..m.n |-> ToolUse(m, k)]
-----------------------------------------------------------------------------
(* Anthropic: a result is what the user says, and each message is a list   *)
(* of blocks.                                                              *)
AnthropicParam(m, blank) ==
  CASE m.role = "user"      -> Param("user", TextOf(m, blank))
    [] m.role = "assistant" -> Param("assistant", TextOf(m, blank) \o ToolUses(m))
    [] m.role = "tool"      -> Param("user", <<ToolResult(m)>>)

(* Faulty: a message of the same role is not merged with the last one.     *)
AppendUnmerged(request, param) ==
  IF param.content = <<>> THEN request ELSE Append(request, param)

(* Messages without content are skipped; consecutive ones of a role become *)
(* one.                                                                    *)
AppendMerged(request, param) ==
  IF param.content = <<>> THEN request
  ELSE IF request # <<>> /\ Last(request).role = param.role
  THEN [request EXCEPT ![Len(request)].content = @ \o param.content]
  ELSE Append(request, param)

(* One message after the other; what is made of the first i of them.       *)
AnthropicRequest(context, blank) ==
  LET made[i \in 0..Len(context)] ==
        IF i = 0 THEN <<>> ELSE AppendMerged(made[i - 1], AnthropicParam(context[i], blank))
  IN  made[Len(context)]

(* OpenAI and OpenRouter: one message per message, a result by itself; the *)
(* system prompt that comes first is left out.                             *)
OpenAIParam(m) ==
  CASE m.role = "user"      -> Param("user", <<Text(m)>>)
    [] m.role = "assistant" -> Param("assistant", <<Text(m)>> \o ToolUses(m))
    [] m.role = "tool"      -> Param("tool", <<ToolResult(m)>>)

OpenRouterParam(m, blank) ==
  CASE m.role = "user"      -> Param("user", <<Text(m)>>)
    [] m.role = "assistant" -> Param("assistant", TextOf(m, blank) \o ToolUses(m))
    [] m.role = "tool"      -> Param("tool", <<ToolResult(m)>>)

OpenAIRequest(context) == [i \in DOMAIN context |-> OpenAIParam(context[i])]
OpenRouterRequest(context, blank) == [i \in DOMAIN context |-> OpenRouterParam(context[i], blank)]
-----------------------------------------------------------------------------
(* What the providers accept, as far as the converters and the docs say.   *)
BlocksOf(param, kind) ==
  {[b EXCEPT !.kind = "any"] : b \in {c \in ToSet(param.content) : c.kind = kind}}

Uses(param)    == BlocksOf(param, "use")
Results(param) == BlocksOf(param, "result")

ResultsFirst(content) ==
  \A i, j \in DOMAIN content : content[i].kind = "result" /\ content[j].kind # "result" => i < j

(* The tools used in one message of the assistant are answered in the next *)
(* message, which begins with their results and holds no others.           *)
AnthropicAccepts(request) ==
  /\ request # <<>>
  /\ Head(request).role = "user" /\ Results(Head(request)) = {}
  /\ Last(request).role = "user"
  /\ \A i \in 1..(Len(request) - 1) :
       /\ request[i].role # request[i + 1].role
       /\ Uses(request[i]) = Results(request[i + 1])
  /\ \A i \in DOMAIN request : request[i].content # <<>> /\ ResultsFirst(request[i].content)

(* The results of the tools used in one message follow it at once, one     *)
(* message each.                                                           *)
ChatAccepts(request) ==
  /\ request # <<>>
  /\ \A i \in DOMAIN request :
       LET calls == Cardinality(Uses(request[i]))
       IN  /\ i + calls <= Len(request)
           /\ UNION {Results(request[j]) : j \in (i + 1)..(i + calls)} = Uses(request[i])
  /\ \A i \in DOMAIN request : request[i].role = "tool" =>
       \E j \in 1..(i - 1) :
         /\ Results(request[i]) \subseteq Uses(request[j])
         /\ \A k \in (j + 1)..(i - 1) : request[k].role = "tool"

Accepted(context, blank) ==
  /\ AnthropicAccepts(AnthropicRequest(context, blank))
  /\ ChatAccepts(OpenAIRequest(context))
  /\ ChatAccepts(OpenRouterRequest(context, blank))
=============================================================================
