--------------------------- MODULE ApprovalAgent ---------------------------
(***************************************************************************)
(* Two of the served graphs on one thread: agent_reason, a model and its   *)
(* tools, and agent_reason_hitl, where human_approval stands between them  *)
(* and asks the user with interrupt().                                     *)
(*                                                                         *)
(* LangGraph is external: it runs one node per step, keeps the state after *)
(* each, and begins an interrupted node again when the user's answer       *)
(* comes.  A model is any choice of tool calls; a call is known by the     *)
(* message it stands in and its place there.                               *)
(***************************************************************************)
EXTENDS Naturals, Sequences, FiniteSets

CONSTANTS
  ToolNames,   \* names of the bound tools
  MaxCalls,    \* bound of the model: tool calls in one message
  MaxMessages  \* bound of the model: messages of the thread

ASSUME ApprovalAssumption == MaxCalls \in Nat /\ MaxMessages \in Nat

VARIABLES
  agent,   \* which of the two graphs
  dialog,  \* state.messages
  at,      \* the node that runs next, "asked" in an interrupt, "end"
  shown,   \* history: the calls the last interrupt showed
  said,    \* history: the user's decisions, one for each call shown
  ran      \* history: the calls whose tool was run

approvalVars == <<agent, dialog, at, shown, said, ran>>

\* What a user may decide; "accept" is another word for "approve", and
\* "other" stands for an edit without arguments or an unknown type.
Decisions ==
  {"approve", "edit", "response", "reject", "reject_why", "ignore", "other"}

Calls == [name : ToolNames, args : {"given", "edited"}]
AiMessages == [kind : {"ai"}, calls : UNION {[1..n -> Calls] : n \in 0..MaxCalls}]
Human == [kind |-> "human"]

\* The message of a tool, or one that tells the model it was not run.
Answer(m, i) == [kind |-> "tool", msg |-> m, place |-> i]
Answers(m) == [i \in DOMAIN dialog[m].calls |-> Answer(m, i)]

ApprovalTypeOK ==
  /\ agent \in {"agent_reason", "agent_reason_hitl"}
  /\ at \in {"end", "call_model", "human_approval", "asked", "tools"}
  /\ \A m \in DOMAIN dialog :
       dialog[m].kind \in {"human", "ai", "tool"}
  /\ said \in UNION {[1..n -> Decisions] : n \in 0..MaxCalls}

InitApproval ==
  /\ agent \in {"agent_reason", "agent_reason_hitl"}
  /\ dialog = <<>> /\ at = "end"
  /\ shown = <<>> /\ said = <<>> /\ ran = {}

-----------------------------------------------------------------------------
\* A run on an interrupted thread is refused unless it answers.
StartTurn ==
  /\ at = "end" /\ Len(dialog) < MaxMessages
  /\ dialog' = Append(dialog, Human)
  /\ at' = "call_model"
  /\ UNCHANGED <<agent, shown, said, ran>>

\* The mistake of a copy: the route of the graph without a user.
RouteModelOutput_Reason(calls) == IF calls = <<>> THEN "end" ELSE "tools"

RouteReason(calls) == IF calls = <<>> THEN "end" ELSE "tools"

RouteModelOutput(calls) == IF calls = <<>> THEN "end" ELSE "human_approval"

Route(calls) ==
  IF agent = "agent_reason" THEN RouteReason(calls) ELSE RouteModelOutput(calls)

\* In the last step that is left, tool calls become an apology.
CallModelReason ==
  /\ agent = "agent_reason" /\ at = "call_model"
  /\ \E ai \in AiMessages, last \in BOOLEAN :
       LET kept == IF last THEN <<>> ELSE ai.calls IN
       /\ \A i \in DOMAIN ai.calls : ai.calls[i].args = "given"
       /\ dialog' = Append(dialog, [ai EXCEPT !.calls = kept])
       /\ at' = Route(kept)
  /\ UNCHANGED <<agent, shown, said, ran>>

CallModel ==
  /\ agent = "agent_reason_hitl" /\ at = "call_model"
  /\ \E ai \in AiMessages, last \in BOOLEAN :
       LET kept == IF last THEN <<>> ELSE ai.calls IN
       /\ \A i \in DOMAIN ai.calls : ai.calls[i].args = "given"
       /\ dialog' = Append(dialog, [ai EXCEPT !.calls = kept])
       /\ at' = Route(kept)
  /\ UNCHANGED <<agent, shown, said, ran>>

\* The place of the latest message with tool calls, 0 if there is none.
FindToolMessage ==
  LET found == {m \in DOMAIN dialog :
                  dialog[m].kind = "ai" /\ dialog[m].calls # <<>>}
  IN IF found = {} THEN 0 ELSE CHOOSE m \in found : \A n \in found : n <= m

\* interrupt() shows every call of the message and ends the run.
HumanApproval ==
  /\ at = "human_approval"
  /\ IF FindToolMessage = 0
     THEN at' = "end" /\ UNCHANGED shown
     ELSE at' = "asked" /\ shown' = dialog[FindToolMessage].calls
  /\ UNCHANGED <<agent, dialog, said, ran>>

\* Arguments are found by the name of the tool: calls of one tool get the
\* same ones.
UpdateToolCalls(calls, name) ==
  [i \in DOMAIN calls |->
     IF calls[i].name = name THEN [calls[i] EXCEPT !.args = "edited"]
     ELSE calls[i]]

CreateToolCancellations(m) == dialog \o Answers(m)

\* The node again, with the answer; only its first decision is looked at.
Decide(ds) ==
  LET m == FindToolMessage IN
  \/ /\ ds = <<>>
     /\ at' = "end" /\ UNCHANGED dialog
  \/ /\ ds # <<>> /\ ds[1] = "approve"
     /\ at' = "tools" /\ UNCHANGED dialog
  \/ /\ ds # <<>> /\ ds[1] = "edit"
     /\ \E name \in ToolNames :
          dialog' = [dialog EXCEPT ![m].calls = UpdateToolCalls(@, name)]
     /\ at' = "tools"
  \/ /\ ds # <<>> /\ ds[1] \in {"response", "reject_why"}
     /\ dialog' = Append(CreateToolCancellations(m), Human)
     /\ at' = "call_model"
  \/ /\ ds # <<>> /\ ds[1] \in {"reject", "ignore"}
     /\ dialog' = CreateToolCancellations(m)
     /\ at' = "end"
  \/ /\ ds # <<>> /\ ds[1] = "other"
     /\ at' = "end" /\ UNCHANGED dialog

\* A run with command.resume; an answer in no known form counts as none.
Resume ==
  /\ at = "asked"
  /\ \E ds \in {<<>>} \union [DOMAIN shown -> Decisions] :
       said' = ds /\ Decide(ds)
  /\ UNCHANGED <<agent, shown, ran>>

CallsOf(m) == {[msg |-> m, place |-> i] : i \in DOMAIN dialog[m].calls}

\* ToolNode: every call of the message is run and answered.
RunTools ==
  /\ at = "tools"
  /\ ran' = ran \union CallsOf(FindToolMessage)
  /\ dialog' = dialog \o Answers(FindToolMessage)
  /\ at' = "call_model"
  /\ UNCHANGED <<agent, shown, said>>

\* A cancellation, an exception or the end of the permitted steps; some of
\* the tools may have been run.
CutRun ==
  /\ at \in {"call_model", "human_approval", "tools"}
  /\ at' = "end"
  /\ \E done \in SUBSET (IF at = "tools" THEN CallsOf(FindToolMessage) ELSE {}) :
       ran' = ran \union done
  /\ UNCHANGED <<agent, dialog, shown, said>>

NextApproval ==
  \/ Len(dialog) <= MaxMessages
     /\ (StartTurn \/ CallModelReason \/ CallModel)
  \/ HumanApproval \/ Resume \/ RunTools \/ CutRun

-----------------------------------------------------------------------------
\* With agent_reason_hitl no tool runs that the user was not shown: what a
\* step runs is what the last interrupt showed, the arguments too unless the
\* user edited them, and the first decision let it pass.
RunAsShown ==
  [][agent = "agent_reason_hitl" /\ ran' # ran =>
       LET now == {c \in ran' : c \notin ran} IN
       /\ said # <<>> /\ said[1] \in {"approve", "edit"}
       /\ Cardinality(now) <= Len(shown)
       /\ \A c \in now :
            LET call == dialog[c.msg].calls[c.place] IN
            \/ call = shown[c.place]
            \/ said[1] = "edit" /\ call.name = shown[c.place].name
    ]_approvalVars

\* The graph's description: the user confirms before a tool is used.  Each
\* call is shown for a decision, so one that is turned down is not run.
EachDecisionCounts ==
  [][agent = "agent_reason_hitl" =>
       \A c \in ran' \ ran :
         c.place \in DOMAIN said => said[c.place] \in {"approve", "edit"}
    ]_approvalVars
=============================================================================
