------------------------------ MODULE MCRequests ------------------------------
EXTENDS Requests

(* A conversation opens with any kind of block ...                         *)
Image(from, meta) == [type |-> "image", from |-> from, meta |-> meta]
File(from, media, dotPdf) == [type |-> "file", from |-> from, media |-> media, dotPdf |-> dotPdf, meta |-> "none"]
Marked(b, meta) == [b EXCEPT !.meta = meta]
Result(name, result, content, meta) ==
  [type |-> "tool-result", id |-> TRUE, name |-> name, result |-> result, hasContent |-> content # <<>>,
   content |-> content, isError |-> FALSE, meta |-> meta]
Empty(b) == [b EXCEPT !.hasContent = TRUE]

UserBlocks ==
  {Text(TRUE), Marked(Text(TRUE), "cache")} \cup {Image(f, "none") : f \in Sources}
    \cup {Image("data", m) : m \in {"cache", "detail", "badDetail"}}
    \cup {File("url", m, d) : m \in {"", "application/pdf"}, d \in BOOLEAN}
    \cup {File("data", m, FALSE) : m \in Media} \cup {File("none", "", FALSE)}
AssistantBlocks ==
  {Text(TRUE), Source, Reasoning(TRUE, "none"), Reasoning(FALSE, "redacted"), ToolCall(TRUE, "function", "json", "cache")}
    \cup {ToolCall(TRUE, n, "json", "none") : n \in {"", "computer", "hosted"}}
    \cup {ToolCall(TRUE, "function", a, "none") : a \in Args}
Lists == {<<>>, <<Text(TRUE)>>, <<Text(FALSE)>>, <<Image("url", "none")>>, <<Image("none", "none")>>}
           \cup {<<Image("data", "none"), b>> : b \in {Text(TRUE), Image("data", "none")}}
ResultBlocks ==
  {Result("function", r, c, "none") : r \in {"nil", "string", "value"}, c \in {<<>>, <<Text(TRUE)>>}}
    \cup {Result("computer", "string", c, m) : c \in Lists, m \in {"none", "checks"}}
    \cup {Empty(Result("function", "string", <<>>, "none")), Result("function", "nil", <<Source>>, "none"),
          [Result("function", "string", <<>>, "cache") EXCEPT !.id = FALSE]}

(* ... alone or, a few of them, with metadata on the message.              *)
MCOpenings ==
  {Message("user", b, "none") : b \in UserBlocks} \cup {Message("assistant", b, "none") : b \in AssistantBlocks}
    \cup {Message("tool", b, "none") : b \in ResultBlocks}
    \cup {Message("user", b, m) : b \in {Text(TRUE), Image("data", "none")}, m \in {"cache", "detail", "badDetail"}}
    \cup {UserMessage(<<>>, "cache"), UserMessage(<<Image("data", "detail")>>, "cache"), Message("system", Text(TRUE), "cache"), Message("system", Text(TRUE), "none")}

MCFollowers ==
  {Message("system", Text(TRUE), "none"), Message("user", Text(TRUE), "cache"), Message("user", Image("data", "none"), "detail"),
   Message("assistant", Text(TRUE), "cache"), Message("tool", Result("function", "value", <<>>, "none"), "cache")}

MCExtensions ==
  [role \in {"user", "assistant", "tool"} |->
     CASE role = "user" -> {Text(TRUE), Image("data", "none")}
       [] role = "assistant" -> {Text(TRUE), ToolCall(TRUE, "function", "json", "none"), Reasoning(TRUE, "none")}
       [] role = "tool" -> {Result("function", "string", <<Text(TRUE)>>, "none")}]

(* One setting or all of them, with any metadata and format; and up to two *)
(* tools of any kind, with any choice.                                     *)
MCConfigurations ==
  {[Options!NoOptions EXCEPT !.settings = x, !.meta = m, !.format = f] :
     x \in {{}, Options!Settings} \cup {{y} : y \in Options!Settings},
     m \in Options!OptionMetas \ {"loaded"}, f \in Options!Formats}
    \cup {[Options!NoOptions EXCEPT !.tools = t, !.choice = c] :
            t \in BoundedSeq(Options!Tools, 2), c \in Options!ToolChoices}
=============================================================================
