----------------------------- MODULE MCAnswers -----------------------------
(* An answer on its two ways, for TLC: from the provider, of whom the bot, *)
(* the worker and the API ask (ProviderCall), and to the user (BotReply).  *)
(* They share nothing, so a behaviour is about one of them.                *)
EXTENDS BotReply, ProviderCall

VARIABLE desk   \* what the behaviour is about: a "call" or a "reply"

answerVars == <<desk, vars, callVars>>

DeltaOf(n) == <<Mark("data"), Lead(n), Trail(n)>>
Newline == <<Mark("nl")>>

MCScripts ==
  {<<>>,
   DeltaOf(1) \o Newline \o DeltaOf(2) \o Newline \o <<Mark("data"), Mark("done")>> \o Newline,
   <<Mark("comment")>> \o Newline \o DeltaOf(1) \o Newline
     \o <<Mark("data"), Mark("junk")>> \o Newline \o DeltaOf(2) \o Newline,
   DeltaOf(1) \o Newline \o DeltaOf(2)}

RowOf(kind, key, sound, base, path, home) ==
  [kind |-> kind, key |-> key, sound |-> sound, base |-> base, path |-> path, home |-> home]
Plain(kind, key, sound) == RowOf(kind, key, sound, <<>>, <<"endpoint">>, <<>>)
Given(base, path, home) == RowOf("openai_compatible", TRUE, TRUE, base, path, home)

\* A host with and without its version, a version in the middle, a chat path
\* that leads elsewhere than the rest, a version that is not a number, none.
MCRows ==
  {Given(<<>>, <<"v1", "endpoint">>, <<"v1">>), Given(<<>>, <<"endpoint">>, <<"v1">>),
   Given(<<"name">>, <<"endpoint">>, <<"name", "v1">>),
   Given(<<"v2">>, <<"v1", "endpoint">>, <<"v2">>),
   Given(<<"v1", "name">>, <<"v1", "endpoint">>, <<"v1", "name">>),
   Given(<<>>, <<"name", "v1", "endpoint">>, <<"name", "v1">>),
   Given(<<"v1beta", "name">>, <<"endpoint">>, <<"v1beta", "name">>),
   Given(<<>>, <<"endpoint">>, <<>>)}
    \cup {Plain("openai_compatible", FALSE, TRUE), Plain("anthropic", TRUE, TRUE),
          Plain("anthropic", FALSE, TRUE), Plain("custom_http", TRUE, TRUE),
          Plain("custom_http", TRUE, FALSE), Plain("mock", TRUE, TRUE),
          Plain("mock", TRUE, FALSE)}

MCLists == [1 .. 2 -> MCRows]

MCInit ==
  /\ desk \in {"call", "reply"}
  /\ Init /\ CallInit
  /\ desk = "reply" => list = CHOOSE l \in MCLists : TRUE

MCNext ==
  /\ UNCHANGED desk
  /\ \/ desk = "call" /\ CallNext /\ UNCHANGED vars
     \/ desk = "reply" /\ Next /\ UNCHANGED callVars

Calls(A) == desk = "call" /\ A /\ UNCHANGED <<desk, vars>>
Replies(A) == desk = "reply" /\ A /\ UNCHANGED <<desk, callVars>>

\* FairCallSpec and FairSpec, each of its own.
MCFairness ==
  /\ WF_answerVars(Calls(Proceeds)) /\ WF_answerVars(Calls(Answers))
  /\ \A e \in Exchanges : WF_answerVars(Replies(Progress(e))) /\ WF_answerVars(Replies(Land(e)))

MCSpec == MCInit /\ [][MCNext]_answerVars /\ MCFairness
=============================================================================
