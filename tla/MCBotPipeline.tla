--------------------------- MODULE MCBotPipeline ---------------------------
(* BotPipeline on one user, one group and his private chat. *)
EXTENDS BotPipeline, TLC

CONSTANTS alice, chat

Plain == [user |-> alice, chat |-> chat, topic |-> FALSE, kind |-> "plain", addressed |-> TRUE]
PrivateOf(m) == [m EXCEPT !.chat = Private]

\* Every kind of message, said in the group and in private.
EveryMessage == {[Plain EXCEPT !.kind = k] : k \in Kinds}
    \union {PrivateOf([Plain EXCEPT !.kind = k]) : k \in {"plain", "voice", "memory"}}
    \union {[Plain EXCEPT !.addressed = FALSE]}

Balanced == [policy |-> "balanced", mode |-> "mention_reply", ai |-> TRUE, status |-> "active"]

EverySetting == {
    Balanced,
    [Balanced EXCEPT !.policy = "off"],
    [Balanced EXCEPT !.policy = "relaxed", !.mode = "always"],
    [Balanced EXCEPT !.mode = "silent"],
    [Balanced EXCEPT !.ai = FALSE],
    [Balanced EXCEPT !.status = "blacklisted"]}

BusyMessages == {[Plain EXCEPT !.kind = k] : k \in {"profane", "repeated"}}
BusySettings == {[Balanced EXCEPT !.mode = "silent"]}

One == [k \in Counted |-> 1]
Two == [k \in Counted |-> 2]
TwoOne == [rate |-> 2, flood |-> 1, duplicate |-> 1]
TwoOneTwo == [rate |-> 2, flood |-> 1, duplicate |-> 2]

Symmetry == Permutations(Deliveries) \union Permutations(UpdateIds)
=============================================================================
