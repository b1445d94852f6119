------------------------------- MODULE Engine -------------------------------
(***************************************************************************)
(* Engine.GenerateAnswerWithContext (rag/answer/answer.go) called by       *)
(* several goroutines that share one engine and, through it, one rewriter: *)
(* the question is rewritten, chunks are retrieved for the rewrite, and    *)
(* the model answers the question as it was asked, from these chunks, over *)
(* the chat adapter of ext/lcchat.                                         *)
(*                                                                         *)
(* The rewriter is the one of Rewriter, every step of it.  A retrieval and *)
(* the model's answer are one step each: no state that is modelled here is *)
(* shared between their beginning and their end.                           *)
(***************************************************************************)
EXTENDS Rewriter

CONSTANTS
    Assistant,        \* the role "assistant" of a turn
    System,           \* the role "system" of a turn
    Helpful,          \* the engine's own system message
    InstructionPairs, \* the pairs of sentences above the context
    MaxHits           \* bound: the chunks a retrieval finds

ASSUME HitsAssumption == MaxHits \in Nat
ASSUME HistoriesAssumption ==
    \A r \in Requests : r.history \in Seq(Range(r.history))

VARIABLES
    instructions, \* e.instructions
    stage,        \* where each caller is in GenerateAnswerWithContext
    chunks,       \* the local variable results of each caller
    seen,         \* history: what the answering model was sent
    answer        \* what each caller's last call returned

engine == << instructions, stage, chunks, seen, answer >>
evars == << vars, engine >>

(***************************************************************************)
(* A list of chunks is told by the rewrite it was retrieved for and its    *)
(* length, which is 0 when no chunk was close enough.                      *)
(***************************************************************************)
Chunks == [query : Values, hits : 0 .. MaxHits]
NoChunks == [hits |-> 0]

\* BuildPrompt: the instructions, the chunks and the question.
Prompts == [instructions : InstructionPairs, context : Chunks,
            question : {r.question : r \in Requests}]

BuildPrompt(in, context, question) ==
    [instructions |-> in, context |-> context, question |-> question]

\* Slip: the role of a turn is passed on as it is.
TurnMessageAsGiven(turn) ==
    [role |-> CASE turn.role = Assistant -> "assistant"
                [] turn.role = System -> "system"
                [] OTHER -> "user",
     content |-> turn.content]

\* A turn is the assistant's or else the user's, whatever its role says.
TurnMessage(turn) ==
    [role |-> IF turn.role = Assistant THEN "assistant" ELSE "user",
     content |-> turn.content]

\* toLangchain, of the role of one message.
LangchainRole(role) ==
    CASE role = "system" -> "System"
      [] role = "assistant" -> "AI"
      [] OTHER -> "Human"

ToLangchain(msgs) ==
    [i \in DOMAIN msgs |-> [msgs[i] EXCEPT !.role = LangchainRole(@)]]

ChatMessages(turns, prompt) ==
    << [role |-> "system", content |-> Helpful] >>
        \o [i \in DOMAIN turns |-> TurnMessage(turns[i])]
        \o << [role |-> "user", content |-> prompt] >>

NoAnswer == [kind |-> "none"]
Failure(e) == [kind |-> "error", error |-> e]
Answered(results) == [kind |-> "answer", results |-> results]

EngineErrors == {"rewrite", "retrieve", "empty response", "generate"}
Answers ==
    {NoAnswer} \cup {Failure(e) : e \in EngineErrors}
        \cup {Answered(results) : results \in Chunks}

EngineTypeOK ==
    /\ instructions \in InstructionPairs
    /\ stage \in [Callers -> {"idle", "rewriting", "answering"}]
    /\ chunks \in [Callers -> Chunks \cup {NoChunks}]
    /\ answer \in [Callers -> Answers]

EngineInit ==
    /\ Init
    /\ instructions \in InstructionPairs
    /\ stage = [c \in Callers |-> "idle"]
    /\ chunks = [c \in Callers |-> NoChunks]
    /\ seen = [c \in Callers |-> << >>]
    /\ answer = [c \in Callers |-> NoAnswer]

-----------------------------------------------------------------------------
\* Called on an engine before it is shared, or between calls.
WithInstructions ==
    /\ \A c \in Callers : stage[c] = "idle"
    /\ instructions' \in InstructionPairs \ {instructions}
    /\ UNCHANGED << vars, stage, chunks, seen, answer >>

Finish(c, a) ==
    /\ answer' = [answer EXCEPT ![c] = a]
    /\ stage' = [stage EXCEPT ![c] = "idle"]
    /\ chunks' = [chunks EXCEPT ![c] = NoChunks]

Generate(c) ==
    /\ stage[c] = "idle"
    /\ Call(c)
    /\ stage' = [stage EXCEPT ![c] = "rewriting"]
    /\ seen' = [seen EXCEPT ![c] = << >>]
    /\ answer' = [answer EXCEPT ![c] = NoAnswer]
    /\ UNCHANGED << instructions, chunks >>

RewriteQuestion(c) == stage[c] = "rewriting" /\ Rewrite(c) /\ UNCHANGED engine

Rewritten(c, kind) ==
    /\ stage[c] = "rewriting"
    /\ pc[c] = "idle"
    /\ result[c].kind = kind

RewriteFailed(c) ==
    /\ Rewritten(c, "error")
    /\ Finish(c, Failure("rewrite"))
    /\ UNCHANGED << vars, instructions, seen >>

\* The rewrite is what is retrieved for.
Retrieve(c) ==
    /\ Rewritten(c, "ok")
    /\ \E n \in 0 .. MaxHits :
          chunks' = [chunks EXCEPT ![c] = [query |-> result[c].value, hits |-> n]]
    /\ stage' = [stage EXCEPT ![c] = "answering"]
    /\ UNCHANGED << vars, instructions, seen, answer >>

RetrieveFails(c) ==
    /\ Rewritten(c, "ok")
    /\ Finish(c, Failure("retrieve"))
    /\ UNCHANGED << vars, instructions, seen >>

\* Slip: the rewrite takes the place of the question in the prompt as well.
SendRewritten(c) ==
    seen' = [seen EXCEPT ![c] = ToLangchain(ChatMessages(args[c].history,
                BuildPrompt(instructions, chunks[c], chunks[c].query.text)))]

\* The question in the prompt is the one that was asked.
Send(c) ==
    seen' = [seen EXCEPT ![c] = ToLangchain(ChatMessages(args[c].history,
                BuildPrompt(instructions, chunks[c], args[c].question)))]

\* The model answers, with any text: a blank one is not told apart.
AnswerQuestion(c) ==
    /\ stage[c] = "answering"
    /\ Send(c)
    /\ Finish(c, Answered(chunks[c]))
    /\ UNCHANGED << vars, instructions >>

\* Slip: the chunks are returned beside the error.
AnswerFailsWithChunks(c) ==
    /\ stage[c] = "answering"
    /\ Send(c)
    /\ Finish(c, [kind |-> "error", error |-> "generate", results |-> chunks[c]])
    /\ UNCHANGED << vars, instructions >>

\* No choice in the model's answer, or no answer: the chunks are dropped.
AnswerFails(c) ==
    /\ stage[c] = "answering"
    /\ Send(c)
    /\ \E e \in {"empty response", "generate"} : Finish(c, Failure(e))
    /\ UNCHANGED << vars, instructions >>

-----------------------------------------------------------------------------
RunGenerate(c) ==
    \/ RewriteQuestion(c)
    \/ RewriteFailed(c)
    \/ Retrieve(c)
    \/ RetrieveFails(c)
    \/ AnswerQuestion(c)
    \/ AnswerFails(c)

EngineNext ==
    \/ WithInstructions
    \/ \E c \in Callers : Generate(c) \/ RunGenerate(c)

(***************************************************************************)
(* A question that was asked keeps going: a model call and a retrieval     *)
(* end, with a result or an error, and a caller that waits for the         *)
(* rewriter's mutex gets it if it is free again and again (the runtime     *)
(* hands a mutex to a goroutine that has waited for a millisecond).        *)
(* Nobody is bound to ask.                                                 *)
(***************************************************************************)
EngineFairness ==
    \A c \in Callers :
        /\ WF_evars(RunGenerate(c))
        /\ SF_evars(RewriteQuestion(c) /\ pc[c] = "lockGet")
        /\ SF_evars(RewriteQuestion(c) /\ pc[c] = "lockPut")

EngineSpec == EngineInit /\ [][EngineNext]_evars
EngineFairSpec == EngineSpec /\ EngineFairness

-----------------------------------------------------------------------------
(***************************************************************************)
(* The chunks that are returned beside an answer are those the model had   *)
(* before it, and they were retrieved for a rewrite of this very           *)
(* conversation; the question it was asked is the one the user wrote.      *)
(* Through the shared cache of rewrites a caller could be answered from    *)
(* what another conversation was looking for, and nothing would show it.   *)
(***************************************************************************)
AnsweredFromOwnContext ==
    \A c \in Callers :
        answer[c].kind = "answer" =>
            LET prompt == Last(seen[c]).content
            IN  /\ answer[c].results = prompt.context
                /\ prompt.context.query.sent = Messages(args[c])
                /\ prompt.question = args[c].question

(***************************************************************************)
(* The model is given one system message, the engine's own and first, and  *)
(* the turns in their order: whatever role a stored turn claims, through   *)
(* the engine's mapping and the adapter's none becomes a system message,   *)
(* and exactly the assistant's turns are the model's own.                  *)
(***************************************************************************)
ConversationKeepsItsVoices ==
    \A c \in Callers :
        seen[c] # << >> =>
            LET turns == args[c].history
            IN  /\ Len(seen[c]) = Len(turns) + 2
                /\ \A i \in DOMAIN seen[c] : seen[c][i].role = "System" <=> i = 1
                /\ \A i \in DOMAIN turns :
                      /\ seen[c][i + 1].content = turns[i].content
                      /\ seen[c][i + 1].role = "AI" <=> turns[i].role = Assistant

(***************************************************************************)
(* Every question is answered or fails: no path out of Rewrite keeps its   *)
(* mutex, and no caller that waits for it is passed over for ever by       *)
(* callers that take it again and again.                                   *)
(***************************************************************************)
EveryQuestionReturns == \A c \in Callers : []<>(stage[c] = "idle")
=============================================================================
