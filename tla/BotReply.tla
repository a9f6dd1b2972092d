------------------------------ MODULE BotReply ------------------------------
(***************************************************************************)
(* How the bot delivers an answer (aiStage and respondStage in               *)
(* apps/bot/src/pipeline.js): a placeholder message is edited while the      *)
(* answer streams in, and if that does not work out it is deleted and the    *)
(* answer sent as new messages.                                              *)
(*                                                                           *)
(* The router calls onDelta without awaiting it, so that the edits are under *)
(* way on their own, several at a time: Telegram may apply them in any order *)
(* or refuse them, after the answer has gone on.  An edit that is refused    *)
(* rejects a promise that nobody handles, which ends a Node.js process.      *)
(*                                                                           *)
(* A text is its length, in units of which ChunkSize fit into a message of   *)
(* the classic answer.  The router's choice of models and the tools are left *)
(* out: a stream grows, ends or breaks, and chat() answers or not.           *)
(***************************************************************************)
EXTENDS Integers, FiniteSets

CONSTANTS
    Exchanges,          \* answers under way in this process
    MaxLength,          \* bound: the length of an answer
    ChunkSize,          \* splitForTelegram(content, 4000)
    EditRoom,           \* texts shorter than this are shown while they grow (4000)
    TextLimit,          \* what Telegram takes in one message (4096)
    Candidates          \* streaming models the router tries (at most 5)

ASSUME ReplyAssumption ==
    /\ MaxLength \in Nat /\ Candidates \in Nat
    /\ ChunkSize \in Nat \ {0} /\ ChunkSize <= TextLimit
    /\ EditRoom \in Nat /\ TextLimit \in Nat /\ EditRoom <= TextLimit + 1

VARIABLES
    running,    \* the bot process
    pc,         \* the await an exchange is at, or how it ended
    got,        \* the length of the stream so far (acc)
    tries,      \* candidates the router has streamed from
    shows,      \* what the placeholder message shows: Absent, or its text
    edits,      \* editMessage calls under way
    content,    \* the length of the classic answer
    sent,       \* chunks of it that were sent
    told,       \* whether the user was told that the AI is unavailable
    troubled    \* history: the Telegram calls that have failed

vars == <<running, pc, got, tries, shows, edits, content, sent, told, troubled>>

Ends == {"streamed", "responded", "unavailable", "failed"}
Pcs == {"idle", "placing", "streaming", "saving", "deleting", "chatting", "sending"} \union Ends

\* No message, or the placeholder was deleted.
Absent == [length |-> 0, whole |-> FALSE, there |-> FALSE]
Text(n, whole) == [length |-> n, whole |-> whole, there |-> TRUE]

\* splitForTelegram(); an empty answer is sent as dots.
Chunks(n) == IF n = 0 THEN 1 ELSE (n + ChunkSize - 1) \div ChunkSize

\* Telegram edits a message that is there, to a text that is not empty or too long.
Editable(e, text) == shows[e].there /\ text.length \in 1..TextLimit
-----------------------------------------------------------------------------
Init ==
    /\ running = TRUE
    /\ pc = [e \in Exchanges |-> "idle"]
    /\ got = [e \in Exchanges |-> 0]
    /\ tries = [e \in Exchanges |-> 0]
    /\ shows = [e \in Exchanges |-> Absent]
    /\ edits = [e \in Exchanges |-> {}]
    /\ content = [e \in Exchanges |-> 0]
    /\ sent = [e \in Exchanges |-> 0]
    /\ told = [e \in Exchanges |-> FALSE]
    /\ troubled = [e \in Exchanges |-> {}]

Goto(e, place) == pc' = [pc EXCEPT ![e] = place]
At(e, place) == running /\ pc[e] = place
Trouble(e, call) == troubled' = [troubled EXCEPT ![e] = @ \union {call}]

classic == <<content, sent, told>>

\* Groups without tools get the classic answer.
Ask(e) ==
    /\ At(e, "idle")
    /\ \E next \in {"placing", "chatting"} : Goto(e, next)
    /\ UNCHANGED <<running, got, tries, shows, edits, classic, troubled>>

\* The reply with the placeholder.  When it fails the message may be there all
\* the same, unknown to the bot.
Place(e) ==
    /\ At(e, "placing")
    /\ \/ /\ shows' = [shows EXCEPT ![e] = Text(0, FALSE)]
          /\ Goto(e, "streaming")
          /\ tries' = [tries EXCEPT ![e] = 1]
          /\ UNCHANGED troubled
       \/ /\ \E message \in {Absent, Text(0, FALSE)} : shows' = [shows EXCEPT ![e] = message]
          /\ Trouble(e, "place")
          /\ Goto(e, "chatting")
          /\ UNCHANGED tries
    /\ UNCHANGED <<running, got, edits, classic>>

\* --- the stream ---
\* onDelta edits the placeholder if the last edit is long enough ago.
Delta(e) ==
    /\ At(e, "streaming") /\ got[e] < MaxLength
    /\ got' = [got EXCEPT ![e] = @ + 1]
    /\ \/ UNCHANGED edits
       \/ /\ got'[e] < EditRoom
          /\ edits' = [edits EXCEPT ![e] = @ \union {Text(got'[e], FALSE)}]
    /\ UNCHANGED <<running, pc, tries, shows, classic, troubled>>

\* The final onDelta edits whatever there is, then the usage row is saved.
StreamEnds(e) ==
    /\ At(e, "streaming")
    /\ edits' = [edits EXCEPT ![e] = @ \union {Text(got[e], TRUE)}]
    /\ Goto(e, "saving")
    /\ UNCHANGED <<running, got, tries, shows, classic, troubled>>

\* Mutant: after the last candidate comes the first.
BreaksWraps(e) ==
    /\ IF got[e] = 0
       THEN tries' = [tries EXCEPT ![e] = (@ % Candidates) + 1] /\ Goto(e, "streaming")
       ELSE Goto(e, "deleting") /\ UNCHANGED tries
    /\ UNCHANGED <<running, got, shows, edits, classic, troubled>>

\* What the router's catch block makes of an error: before the first delta the
\* next candidate if there is one, otherwise the classic answer.
Breaks(e) ==
    /\ \/ /\ got[e] = 0 /\ tries[e] < Candidates
          /\ tries' = [tries EXCEPT ![e] = @ + 1]
          /\ Goto(e, "streaming")
       \/ Goto(e, "deleting") /\ UNCHANGED tries
    /\ UNCHANGED <<running, got, shows, edits, classic, troubled>>

StreamBreaks(e) == At(e, "streaming") /\ Breaks(e)
UsageFails(e) == At(e, "saving") /\ Breaks(e)

\* Mutant: an empty stream counts as an answer.
StreamSavedEmpty(e) ==
    /\ At(e, "saving")
    /\ Goto(e, "streamed")
    /\ UNCHANGED <<running, got, tries, shows, edits, classic, troubled>>

\* An empty stream is an error.
StreamSaved(e) ==
    /\ At(e, "saving")
    /\ Goto(e, IF got[e] > 0 THEN "streamed" ELSE "deleting")
    /\ UNCHANGED <<running, got, tries, shows, edits, classic, troubled>>

\* Mutant: the placeholder is forgotten, not deleted.
DeleteForgets(e) ==
    /\ At(e, "deleting")
    /\ Goto(e, "chatting")
    /\ UNCHANGED <<running, got, tries, shows, edits, classic, troubled>>

\* deleteMessageId(), whose failure is ignored.
Delete(e) ==
    /\ At(e, "deleting")
    /\ \/ shows' = [shows EXCEPT ![e] = Absent] /\ UNCHANGED troubled
       \/ Trouble(e, "delete") /\ UNCHANGED shows
    /\ Goto(e, "chatting")
    /\ UNCHANGED <<running, got, tries, edits, classic>>

\* --- the classic answer ---
Chat(e) ==
    /\ At(e, "chatting")
    /\ \/ /\ \E n \in 0..MaxLength : content' = [content EXCEPT ![e] = n]
          /\ Goto(e, "sending")
          /\ UNCHANGED <<told, troubled>>
       \/ /\ Goto(e, "unavailable")
          /\ \/ told' = [told EXCEPT ![e] = TRUE] /\ UNCHANGED troubled
             \/ Trouble(e, "tell") /\ UNCHANGED told
          /\ UNCHANGED content
    /\ UNCHANGED <<running, got, tries, shows, edits, sent>>

\* A chunk is sent as HTML and, if refused, as plain text; if that fails too
\* the rest is not sent.
Send(e) ==
    /\ At(e, "sending")
    /\ \/ /\ sent' = [sent EXCEPT ![e] = @ + 1]
          /\ Goto(e, IF sent[e] + 1 < Chunks(content[e]) THEN "sending" ELSE "responded")
          /\ UNCHANGED troubled
       \/ Trouble(e, "send") /\ Goto(e, "failed") /\ UNCHANGED sent
    /\ UNCHANGED <<running, got, tries, shows, edits, content, told>>

\* --- Telegram applies an edit or refuses it, whatever the exchange does ---
Land(e) ==
    \E text \in edits[e] :
        /\ edits' = [edits EXCEPT ![e] = @ \ {text}]
        /\ \/ /\ Editable(e, text)
              /\ shows' = [shows EXCEPT ![e] = text]
              /\ UNCHANGED <<running, troubled>>
           \/ running' = FALSE /\ Trouble(e, "edit") /\ UNCHANGED shows
        /\ UNCHANGED <<pc, got, tries, classic>>

Progress(e) ==
    \/ Ask(e) \/ Place(e)
    \/ Delta(e) \/ StreamEnds(e) \/ StreamBreaks(e) \/ UsageFails(e) \/ StreamSaved(e)
    \/ Delete(e) \/ Chat(e) \/ Send(e)

Next == \E e \in Exchanges : Progress(e) \/ Land(e)

Spec == Init /\ [][Next]_vars

\* Every call the bot makes is answered or times out.
FairSpec == Spec /\ \A e \in Exchanges : WF_vars(Progress(e)) /\ WF_vars(Land(e))
-----------------------------------------------------------------------------
(* Properties *)

\* The user never has two answers to one question, a streamed text next to a
\* classic one, although edits are still under way when the bot gives the
\* stream up, unless the deletion of the placeholder has failed.
OneAnswerRemains ==
    \A e \in Exchanges :
        shows[e].length > 0 /\ (sent[e] > 0 \/ told[e]) => "delete" \in troubled[e]

\* The answer that remains on the screen or is on its way to it.
Delivered(e) ==
    \/ told[e]
    \/ pc[e] = "responded" /\ sent[e] * ChunkSize >= content[e] /\ sent[e] > 0
    \/ pc[e] = "streamed" /\ \E text \in {shows[e]} \union edits[e] :
          text.there /\ text.length \in 1..got[e]

\* pipeline.js: "Never leave the user in silence".  An exchange that is over has
\* delivered a text, a whole answer or an explanation, unless a call of its own
\* to Telegram has failed.
NoExchangeEndsInSilence ==
    \A e \in Exchanges : pc[e] \in Ends /\ troubled[e] = {} => Delivered(e)

\* Every exchange ends, whichever way the stream goes, or its process does.
ExchangesEnd ==
    \A e \in Exchanges : pc[e] # "idle" ~> pc[e] \in Ends \/ ~ running
=============================================================================
