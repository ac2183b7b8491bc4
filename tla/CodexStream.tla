----------------------------- MODULE CodexStream -----------------------------
(***************************************************************************)
(* provider/openai-codex: the notifications of one turn, decoded by        *)
(* codec/decode_appserver.go inside the iterator of llm.go (Stream), with  *)
(* the observer of command executions that Generate and Stream share.      *)
(* CodexModel has the turns and their channel; here it is what the stream  *)
(* of one turn says.                                                       *)
(***************************************************************************)
EXTENDS ModelStream

VARIABLES
  announced,          (* the initial metadata event was yielded            *)
  reasoning,          (* d.reasoning                                       *)
  commandOutput,      (* commandOutputByItemID                             *)
  commandExecutions   (* in the order of completion: command and output    *)

codexVars == <<announced, reasoning, commandOutput, commandExecutions>>

ThreadID == 1
TurnUsage == 1

CodexTypeOK ==
  /\ announced \in BOOLEAN
  /\ reasoning \in Seq(Fragments)
  /\ DOMAIN commandOutput \subseteq DOMAIN items
  /\ \A i \in DOMAIN commandOutput : commandOutput[i] \in Seq(Fragments)
  /\ \A n \in DOMAIN commandExecutions :
       commandExecutions[n] \in [command: DOMAIN items, output: Seq(Fragments)]

CodexInit ==
  /\ announced = FALSE
  /\ reasoning = <<>>
  /\ commandOutput = [i \in {} |-> <<>>]
  /\ commandExecutions = <<>>

Turn == Reading("codex") /\ announced

(* Also a thread/started that is still in the channel: the same id. *)
ThreadMetadata ==
  /\ Reading("codex")
  /\ announced' = TRUE
  /\ AddEvent(Metadata(ThreadID))
  /\ Continue
  /\ UNCHANGED <<reasoning, commandOutput, commandExecutions>>

ItemStarted(kind) ==
  /\ Turn
  /\ OpenItem(kind)
  /\ Silent
  /\ UNCHANGED codexVars

AgentMessageDelta(i) ==
  /\ Turn /\ items[i].kind = "text"
  /\ SendFragment(i)
  /\ AddEvent(TextDelta(Fragment(i)))
  /\ UNCHANGED codexVars

ReasoningDelta(i) ==
  /\ Turn /\ items[i].kind = "reasoning"
  /\ SendFragment(i)
  /\ AddEvent(Reasoning(Fragment(i)))
  /\ reasoning' = reasoning \o Fragment(i)
  /\ UNCHANGED <<announced, commandOutput, commandExecutions>>

CommandOutputDelta(i) ==
  /\ Turn /\ items[i].kind = "command"
  /\ SendFragment(i)
  /\ commandOutput' =
       [k \in DOMAIN commandOutput \cup {i} |->
          IF k # i THEN commandOutput[k]
          ELSE IF i \in DOMAIN commandOutput THEN commandOutput[i] \o Fragment(i)
          ELSE Fragment(i)]
  /\ Silent
  /\ UNCHANGED <<announced, reasoning, commandExecutions>>

(* Of a completed item only a command execution leaves a trace: its output *)
(* moves from the map to the list.                                         *)
ItemCompleted(i) ==
  /\ Turn
  /\ CloseItem(i)
  /\ Silent
  /\ \/ /\ items[i].kind = "command"
        /\ LET output == IF i \in DOMAIN commandOutput THEN commandOutput[i] ELSE <<>> IN
             commandExecutions' =
               Append(commandExecutions, [command |-> i, output |-> output])
        /\ commandOutput' = [k \in DOMAIN commandOutput \ {i} |-> commandOutput[k]]
     \/ /\ items[i].kind # "command"
        /\ UNCHANGED <<commandOutput, commandExecutions>>
  /\ UNCHANGED <<announced, reasoning>>

(* The cost monitor may refuse the usage: an error instead of the finish. *)
TurnCompleted ==
  /\ Turn /\ AllClosed
  /\ \/ AddEvent(Finish("stop", TurnUsage)) /\ Move("over", {})
     \/ AddEvent(Error) /\ Move("over", {"budget"})
  /\ UNCHANGED codexVars

(* A notification that cannot be decoded: the iterator goes on. *)
Undecodable ==
  /\ Turn
  /\ AddEvent(Error)
  /\ Move("reading", {"broken"})
  /\ UNCHANGED codexVars

(* The channel is closed, or the context of the call ends. *)
TurnCut ==
  /\ Turn
  /\ AddEvent(Error)
  /\ Move("over", {"broken"})
  /\ UNCHANGED codexVars

CodexNext ==
  \/ ThreadMetadata
  \/ \E kind \in {"text", "reasoning", "command"} : ItemStarted(kind)
  \/ \E i \in DOMAIN items :
       \/ AgentMessageDelta(i)
       \/ ReasoningDelta(i)
       \/ CommandOutputDelta(i)
       \/ ItemCompleted(i)
  \/ TurnCompleted
  \/ Undecodable
  \/ TurnCut
=============================================================================
