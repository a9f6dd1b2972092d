----------------------------- MODULE AnswerProofs -----------------------------
(***************************************************************************)
(* Proofs about an answer: how the bot brings it to the chat (BotReply),   *)
(* for any number of answers under way and texts of any length, and how    *)
(* its text comes from the provider (ProviderCall), for any candidates,    *)
(* any streams, cut anywhere, and any number of retries.                   *)
(***************************************************************************)
EXTENDS BotReply, ProviderCall, PlacesProofs

-----------------------------------------------------------------------------
(* BotReply.                                                                *)

Classic == {"chatting", "sending", "responded", "unavailable", "failed"}

Shape ==
  /\ pc \in [Exchanges -> Pcs] /\ got \in [Exchanges -> Nat]
  /\ content \in [Exchanges -> Nat] /\ sent \in [Exchanges -> Nat]
  /\ told \in [Exchanges -> BOOLEAN]
  /\ shows = [e \in Exchanges |-> shows[e]] /\ edits = [e \in Exchanges |-> edits[e]]
  /\ troubled = [e \in Exchanges |-> troubled[e]]

\* Nothing is under way to a placeholder that nobody knows of.
Fresh(e) ==
  pc[e] \in {"idle", "placing"} => edits[e] = {} /\ shows[e].length = 0

\* Nothing of a classic answer is there before the stream is given up.
Unsaid(e) ==
  /\ pc[e] \notin Classic => sent[e] = 0 /\ ~ told[e]
  /\ pc[e] = "chatting" => sent[e] = 0

\* An edit brings what the stream had come to at some time.
Timely(e) == \A text \in edits[e] : text.there /\ text.length \in 0 .. got[e]

\* Once the classic answer is asked for, no edit can bring a text back.
Retired(e) ==
  pc[e] \in Classic =>
    \/ "delete" \in troubled[e]
    \/ shows[e].length = 0 /\ (shows[e].there => edits[e] = {})

\* As many chunks are sent as the answer has.
Chunked(e) ==
  /\ pc[e] = "sending" => sent[e] < Chunks(content[e])
  /\ pc[e] = "responded" => sent[e] > 0 /\ sent[e] * ChunkSize >= content[e]

\* A stream that has ended has its text on the screen or on the way to it.
Streamed(e) ==
  /\ pc[e] \in {"saving", "streamed"} =>
       \/ troubled[e] # {} \/ Text(got[e], TRUE) \in edits[e]
       \/ shows[e].there /\ shows[e].length \in 1 .. got[e]
  /\ pc[e] = "streamed" => got[e] > 0

Explained(e) ==
  /\ pc[e] = "unavailable" => told[e] \/ troubled[e] # {}
  /\ pc[e] = "failed" => troubled[e] # {}

Kept(e) ==
  /\ Fresh(e) /\ Unsaid(e) /\ Timely(e) /\ Retired(e)
  /\ Chunked(e) /\ Streamed(e) /\ Explained(e)

ReplyInv == Shape /\ \A e \in Exchanges : Kept(e)

\* What the fields of a text are read back as.
LEMMA TextFields ==
  /\ \A n, w : Text(n, w).length = n /\ Text(n, w).there
  /\ Absent.length = 0 /\ ~ Absent.there
BY DEF Text, Absent

\* splitForTelegram() covers the text, with one message at least.
LEMMA ChunksCover ==
  ASSUME NEW n \in Nat
  PROVE  Chunks(n) \in Nat /\ Chunks(n) > 0 /\ Chunks(n) * ChunkSize >= n
<1>1. CASE n = 0
  BY <1>1, ReplyAssumption DEF Chunks
<1>2. CASE n > 0
  <2>. DEFINE q == (n + ChunkSize - 1) \div ChunkSize
              r == (n + ChunkSize - 1) % ChunkSize
  <2>1. n + ChunkSize - 1 = ChunkSize * q + r /\ r \in 0 .. ChunkSize - 1 /\ q \in Int
    BY <1>2, ReplyAssumption
  <2>2. Chunks(n) = q
    BY <1>2 DEF Chunks
  <2>. HIDE DEF q, r
  <2>3. ChunkSize * q >= n
    BY <1>2, <2>1, ReplyAssumption
  <2>4. q > 0
    <3>1. SUFFICES ASSUME q <= 0 PROVE FALSE
      BY <2>1
    <3>2. ChunkSize * q <= 0
      BY <2>1, <3>1, ReplyAssumption
    <3>. QED
      BY <1>2, <2>1, <2>3, <3>2, ReplyAssumption
  <2>5. q * ChunkSize = ChunkSize * q
    BY <2>1, ReplyAssumption
  <2>. QED
    BY <2>1, <2>2, <2>3, <2>4, <2>5
<1>. QED
  BY <1>1, <1>2

\* An exchange that a step leaves alone stays as it was.
LEMMA OthersAreKept ==
  ASSUME NEW e, Kept(e),
         pc'[e] = pc[e], got'[e] = got[e], shows'[e] = shows[e], edits'[e] = edits[e],
         content'[e] = content[e], sent'[e] = sent[e], told'[e] = told[e],
         troubled'[e] = troubled[e]
  PROVE  Kept(e)'
BY DEF Kept, Fresh, Unsaid, Timely, Retired, Chunked, Streamed, Explained

\* At the start no exchange has begun.
LEMMA ReplyInit == Init => ReplyInv
<1>. SUFFICES ASSUME Init PROVE ReplyInv
  OBVIOUS
<1>1. Shape
  BY DEF Init, Shape, Pcs
<1>2. ASSUME NEW e \in Exchanges PROVE Kept(e)
  <2>1. /\ pc[e] = "idle" /\ got[e] = 0 /\ shows[e] = Absent /\ edits[e] = {}
        /\ sent[e] = 0 /\ told[e] = FALSE
    BY DEF Init
  <2>2. shows[e].length = 0
    BY <2>1, TextFields
  <2>. QED
    BY <2>1, <2>2 DEF Kept, Fresh, Unsaid, Timely, Retired, Chunked, Streamed, Explained, Classic
<1>. QED
  BY <1>1, <1>2 DEF ReplyInv

\* A step of an exchange keeps what is known of it, and leaves the others alone.
LEMMA ProgressKeeps ==
  ASSUME ReplyInv, NEW x \in Exchanges, Progress(x)
  PROVE  ReplyInv'
<1>. USE DEF ReplyInv
<1>1. Shape' /\ \A e \in Exchanges : e # x =>
        /\ pc'[e] = pc[e] /\ got'[e] = got[e] /\ shows'[e] = shows[e] /\ edits'[e] = edits[e]
        /\ content'[e] = content[e] /\ sent'[e] = sent[e] /\ told'[e] = told[e]
        /\ troubled'[e] = troubled[e]
  <2>1. CASE Ask(x)
    BY <2>1 DEF Ask, At, Goto, classic, Shape, Pcs
  <2>2. CASE Place(x)
    BY <2>2 DEF Place, At, Goto, Trouble, classic, Shape, Pcs
  <2>3. CASE Delta(x)
    <3>1. /\ got' = [got EXCEPT ![x] = got[x] + 1] /\ got[x] \in Nat
          /\ UNCHANGED <<pc, shows, content, sent, told, troubled>>
      BY <2>3 DEF Delta, classic, Shape
    <3>2. PICK E : E = edits[x] \union {Text(got'[x], FALSE)}
      OBVIOUS
    <3>3. edits' = edits \/ edits' = [edits EXCEPT ![x] = E]
      BY <2>3, <3>2 DEF Delta
    <3>4. edits' = [e \in Exchanges |-> edits'[e]] /\ \A e \in Exchanges : e # x => edits'[e] = edits[e]
      BY <3>3 DEF Shape
    <3>5. got' \in [Exchanges -> Nat] /\ \A e \in Exchanges : e # x => got'[e] = got[e]
      BY <3>1 DEF Shape
    <3>. QED
      BY <3>1, <3>4, <3>5 DEF Shape
  <2>4. CASE StreamEnds(x)
    BY <2>4 DEF StreamEnds, At, Goto, classic, Shape, Pcs
  <2>5. CASE StreamBreaks(x) \/ UsageFails(x)
    BY <2>5 DEF StreamBreaks, UsageFails, Breaks, At, Goto, classic, Shape, Pcs
  <2>6. CASE StreamSaved(x)
    BY <2>6 DEF StreamSaved, At, Goto, classic, Shape, Pcs, Ends
  <2>7. CASE Delete(x)
    BY <2>7 DEF Delete, At, Goto, Trouble, classic, Shape, Pcs
  <2>8. CASE Chat(x)
    <3>1. content' \in [Exchanges -> Nat] /\ \A e \in Exchanges : e # x => content'[e] = content[e]
      <4>1. CASE UNCHANGED content
        BY <4>1 DEF Shape
      <4>2. ASSUME NEW n \in 0 .. MaxLength, content' = [content EXCEPT ![x] = n]
            PROVE  content' \in [Exchanges -> Nat] /\ \A e \in Exchanges : e # x => content'[e] = content[e]
        BY <4>2, ReplyAssumption DEF Shape
      <4>. QED
        BY <2>8, <4>1, <4>2 DEF Chat
    <3>2. pc' \in [Exchanges -> Pcs] /\ \A e \in Exchanges : e # x => pc'[e] = pc[e]
      BY <2>8 DEF Chat, Goto, Shape, Pcs, Ends
    <3>3. /\ told' \in [Exchanges -> BOOLEAN] /\ troubled' = [e \in Exchanges |-> troubled'[e]]
          /\ \A e \in Exchanges : e # x => told'[e] = told[e] /\ troubled'[e] = troubled[e]
      BY <2>8 DEF Chat, Trouble, Shape
    <3>. QED
      BY <2>8, <3>1, <3>2, <3>3 DEF Chat, Shape
  <2>9. CASE Send(x)
    BY <2>9 DEF Send, At, Goto, Trouble, Shape, Pcs, Ends
  <2>. QED
    BY <2>1, <2>2, <2>3, <2>4, <2>5, <2>6, <2>7, <2>8, <2>9 DEF Progress
<1>2. Kept(x)'
  <2>. USE DEF Classic
  <2>0. Kept(x)
    OBVIOUS
  <2>1. CASE Ask(x)
    <3>1. /\ pc[x] = "idle" /\ pc'[x] \in {"placing", "chatting"}
          /\ UNCHANGED <<got, shows, edits, content, sent, told, troubled>>
      BY <2>1 DEF Ask, At, Goto, classic, Shape
    <3>. QED
      BY <2>0, <3>1 DEF Kept, Fresh, Unsaid, Timely, Retired, Chunked, Streamed, Explained
  <2>2. CASE Place(x)
    <3>1. /\ pc[x] = "placing" /\ pc'[x] \in {"streaming", "chatting"}
          /\ shows'[x] \in {Absent, Text(0, FALSE)}
          /\ UNCHANGED <<got, edits, content, sent, told>>
      BY <2>2 DEF Place, At, Goto, Trouble, classic, Shape
    <3>2. shows'[x].length = 0
      BY <3>1, TextFields, ZenonT(40)
    <3>. QED
      BY <2>0, <3>1, <3>2 DEF Kept, Fresh, Unsaid, Timely, Retired, Chunked, Streamed, Explained
  <2>3. CASE Delta(x)
    <3>1. /\ pc[x] = "streaming" /\ got'[x] = got[x] + 1 /\ got[x] \in Nat
          /\ edits'[x] \in {edits[x], edits[x] \union {Text(got'[x], FALSE)}}
          /\ UNCHANGED <<pc, shows, content, sent, told, troubled>>
      BY <2>3 DEF Delta, At, classic, Shape
    <3>2. ASSUME NEW text \in edits'[x] PROVE text.there /\ text.length \in 0 .. got'[x]
      <4>1. CASE text \in edits[x]
        BY <2>0, <3>1, <4>1 DEF Kept, Timely
      <4>2. CASE text = Text(got'[x], FALSE)
        <5>1. text.there /\ text.length = got'[x]
          BY <4>2, TextFields
        <5>. QED
          BY <3>1, <5>1
      <4>. QED
        BY <3>1, <3>2, <4>1, <4>2
    <3>. QED
      BY <2>0, <3>1, <3>2 DEF Kept, Fresh, Unsaid, Timely, Retired, Chunked, Streamed, Explained
  <2>4. CASE StreamEnds(x)
    <3>1. /\ pc[x] = "streaming" /\ pc'[x] = "saving" /\ got[x] \in Nat
          /\ edits'[x] = edits[x] \union {Text(got[x], TRUE)}
          /\ UNCHANGED <<got, shows, content, sent, told, troubled>>
      BY <2>4 DEF StreamEnds, At, Goto, classic, Shape
    <3>2. ASSUME NEW text \in edits'[x] PROVE text.there /\ text.length \in 0 .. got'[x]
      <4>1. CASE text \in edits[x]
        BY <2>0, <3>1, <4>1 DEF Kept, Timely
      <4>2. CASE text = Text(got[x], TRUE)
        <5>1. text.there /\ text.length = got[x]
          BY <4>2, TextFields
        <5>. QED
          BY <3>1, <5>1
      <4>. QED
        BY <3>1, <3>2, <4>1, <4>2
    <3>. QED
      BY <2>0, <3>1, <3>2 DEF Kept, Fresh, Unsaid, Timely, Retired, Chunked, Streamed, Explained
  <2>5. CASE StreamBreaks(x) \/ UsageFails(x)
    <3>1. /\ pc[x] \in {"streaming", "saving"} /\ pc'[x] \in {"streaming", "deleting"}
          /\ UNCHANGED <<got, shows, edits, content, sent, told, troubled>>
      BY <2>5 DEF StreamBreaks, UsageFails, Breaks, At, Goto, classic, Shape
    <3>. QED
      BY <2>0, <3>1 DEF Kept, Fresh, Unsaid, Timely, Retired, Chunked, Streamed, Explained
  <2>6. CASE StreamSaved(x)
    <3>1. /\ pc[x] = "saving" /\ pc'[x] = (IF got[x] > 0 THEN "streamed" ELSE "deleting")
          /\ UNCHANGED <<got, shows, edits, content, sent, told, troubled>>
      BY <2>6 DEF StreamSaved, At, Goto, classic, Shape
    <3>. QED
      BY <2>0, <3>1 DEF Kept, Fresh, Unsaid, Timely, Retired, Chunked, Streamed, Explained
  <2>7. CASE Delete(x)
    <3>1. /\ pc[x] = "deleting" /\ pc'[x] = "chatting"
          /\ shows'[x] = Absent \/ "delete" \in troubled'[x]
          /\ UNCHANGED <<got, edits, content, sent, told>>
      BY <2>7 DEF Delete, At, Goto, Trouble, classic, Shape
    <3>. QED
      BY <2>0, <3>1, TextFields
         DEF Kept, Fresh, Unsaid, Timely, Retired, Chunked, Streamed, Explained
  <2>8. CASE Chat(x)
    <3>1. /\ pc[x] = "chatting" /\ content'[x] \in Nat
          /\ \/ pc'[x] = "sending" /\ UNCHANGED <<told, troubled>>
             \/ pc'[x] = "unavailable" /\ told'[x] /\ UNCHANGED troubled
             \/ pc'[x] = "unavailable" /\ troubled'[x] = troubled[x] \union {"tell"}
          /\ UNCHANGED <<got, shows, edits, sent>>
      BY <2>8, ReplyAssumption DEF Chat, At, Goto, Trouble, Shape
    <3>2. Chunked(x)'
      BY <2>0, <3>1, ChunksCover DEF Kept, Unsaid, Chunked
    <3>. QED
      BY <2>0, <3>1, <3>2 DEF Kept, Fresh, Unsaid, Timely, Retired, Streamed, Explained
  <2>9. CASE Send(x)
    <3>1. /\ pc[x] = "sending" /\ content[x] \in Nat /\ sent[x] \in Nat
          /\ \/ /\ sent'[x] = sent[x] + 1 /\ UNCHANGED troubled
                /\ pc'[x] = (IF sent[x] + 1 < Chunks(content[x]) THEN "sending" ELSE "responded")
             \/ pc'[x] = "failed" /\ troubled'[x] = troubled[x] \union {"send"} /\ UNCHANGED sent
          /\ UNCHANGED <<got, shows, edits, content, told>>
      BY <2>9 DEF Send, At, Goto, Trouble, Shape
    <3>2. pc'[x] = "responded" => sent'[x] > 0 /\ sent'[x] * ChunkSize >= content[x]
      <4>1. SUFFICES ASSUME pc'[x] = "responded" PROVE sent'[x] >= Chunks(content[x])
        BY <3>1, <4>1, ChunksCover, ReplyAssumption
      <4>. QED
        BY <3>1, <4>1, ChunksCover
    <3>3. Chunked(x)'
      BY <3>1, <3>2 DEF Chunked
    <3>. QED
      BY <2>0, <3>1, <3>3 DEF Kept, Fresh, Unsaid, Timely, Retired, Streamed, Explained
  <2>. QED
    BY <2>1, <2>2, <2>3, <2>4, <2>5, <2>6, <2>7, <2>8, <2>9 DEF Progress
<1>. QED
  BY <1>1, <1>2, OthersAreKept

\* Telegram applies an edit or refuses it, whatever has become of the exchange.
LEMMA LandKeeps ==
  ASSUME ReplyInv, NEW x \in Exchanges, Land(x)
  PROVE  ReplyInv'
<1>. USE DEF ReplyInv
<1>1. PICK text \in edits[x] :
        /\ edits' = [edits EXCEPT ![x] = @ \ {text}]
        /\ \/ text.length \in 1 .. TextLimit /\ shows[x].there
              /\ shows' = [shows EXCEPT ![x] = text] /\ UNCHANGED troubled
           \/ troubled' = [troubled EXCEPT ![x] = @ \union {"edit"}] /\ UNCHANGED shows
        /\ UNCHANGED <<pc, got, content, sent, told>>
  BY DEF Land, Editable, Trouble, classic
<1>2. Shape'
  BY <1>1 DEF Shape
<1>3. \A e \in Exchanges : e # x =>
        shows'[e] = shows[e] /\ edits'[e] = edits[e] /\ troubled'[e] = troubled[e]
  BY <1>1 DEF Shape
<1>4. /\ edits'[x] = edits[x] \ {text}
      /\ \/ /\ text.length \in 1 .. TextLimit /\ shows[x].there
            /\ shows'[x] = text /\ troubled'[x] = troubled[x]
         \/ troubled'[x] = troubled[x] \union {"edit"} /\ shows'[x] = shows[x]
  BY <1>1 DEF Shape
<1>5. Kept(x) /\ text.there /\ text.length \in 0 .. got[x] /\ edits[x] # {}
  BY DEF Kept, Timely
<1>6. Kept(x)'
  <2>1. Fresh(x)' /\ Unsaid(x)' /\ Timely(x)'
    BY <1>1, <1>4, <1>5 DEF Kept, Fresh, Unsaid, Timely
  <2>2. Retired(x)'
    BY <1>1, <1>4, <1>5 DEF Kept, Retired
  <2>3. Streamed(x)'
    <3>1. got[x] \in Nat /\ TextLimit \in Nat
      BY ReplyAssumption DEF Shape
    <3>2. CASE shows'[x] = text /\ text.length \in 1 .. TextLimit
      <4>1. text.length \in 1 .. got[x]
        BY <1>5, <3>1, <3>2
      <4>. QED
        BY <1>1, <1>5, <3>2, <4>1 DEF Kept, Streamed
    <3>3. CASE troubled'[x] = troubled[x] \union {"edit"}
      BY <1>1, <1>5, <3>3 DEF Kept, Streamed
    <3>. QED
      BY <1>4, <3>2, <3>3
  <2>4. Chunked(x)' /\ Explained(x)'
    BY <1>1, <1>4, <1>5 DEF Kept, Chunked, Explained
  <2>. QED
    BY <2>1, <2>2, <2>3, <2>4 DEF Kept
<1>. QED
  BY <1>1, <1>2, <1>3, <1>6, OthersAreKept

\* Every step keeps what is known of every exchange.
LEMMA ReplyNext == ReplyInv /\ [Next]_vars => ReplyInv'
<1>. SUFFICES ASSUME ReplyInv, [Next]_vars PROVE ReplyInv'
  OBVIOUS
<1>1. CASE UNCHANGED vars
  BY <1>1, OthersAreKept DEF vars, classic, ReplyInv, Shape
<1>2. CASE Next
  BY <1>2, ProgressKeeps, LandKeeps DEF Next
<1>. QED
  BY <1>1, <1>2

\* A streamed text never remains next to a classic answer, unless the
\* placeholder could not be deleted (aiStage, respondStage).
THEOREM OneAnswerIsLeft == Spec => []OneAnswerRemains
<1>1. ReplyInv => OneAnswerRemains
  BY DEF ReplyInv, Kept, Unsaid, Retired, OneAnswerRemains, Shape
<1>. QED
  BY <1>1, ReplyInit, ReplyNext, PTL DEF Spec

\* An exchange that is over has delivered a text or an explanation, unless one
\* of its calls to Telegram has failed (aiStage, respondStage).
THEOREM NobodyIsLeftInSilence == Spec => []NoExchangeEndsInSilence
<1>1. ASSUME ReplyInv, NEW e \in Exchanges, pc[e] \in Ends, troubled[e] = {}
      PROVE  Delivered(e)
  <2>1. CASE pc[e] = "streamed"
    <3>1. /\ got[e] \in Nat /\ got[e] > 0
          /\ \/ Text(got[e], TRUE) \in edits[e]
             \/ shows[e].there /\ shows[e].length \in 1 .. got[e]
      BY <1>1, <2>1 DEF ReplyInv, Kept, Streamed, Shape
    <3>2. CASE Text(got[e], TRUE) \in edits[e]
      <4>1. PICK text \in edits[e] : text.there /\ text.length = got[e]
        BY <3>2, TextFields
      <4>2. text.length \in 1 .. got[e]
        BY <3>1, <4>1
      <4>. QED
        BY <2>1, <4>1, <4>2 DEF Delivered
    <3>3. CASE shows[e].there /\ shows[e].length \in 1 .. got[e]
      BY <2>1, <3>3 DEF Delivered
    <3>. QED
      BY <3>1, <3>2, <3>3
  <2>2. CASE pc[e] # "streamed"
    BY <1>1, <2>2 DEF ReplyInv, Kept, Chunked, Explained, Delivered, Ends
  <2>. QED
    BY <2>1, <2>2
<1>2. ReplyInv => NoExchangeEndsInSilence
  BY <1>1 DEF NoExchangeEndsInSilence
<1>. QED
  BY <1>2, ReplyInit, ReplyNext, PTL DEF Spec

-----------------------------------------------------------------------------
(* ProviderCall.  Lines and deltas.                                         *)

\* What the alphabet is.
LEMMA BytesAre ==
  ASSUME NEW b \in Bytes
  PROVE  /\ b # Mark("bad")
         /\ b[1] = "lead" => b = Lead(b[2])
         /\ b[1] = "trail" => b = Trail(b[2])
         /\ b[1] \in {"lead", "trail"} => b \notin {Mark("nl"), Mark("data"), Mark("done")}
<1>1. CASE b \in {"lead", "trail"} \X Nat
  BY <1>1 DEF Mark, Lead, Trail
<1>2. CASE \E name \in {"data", "nl", "done", "junk", "comment"} : b = Mark(name)
  BY <1>2 DEF Mark, Lead, Trail
<1>. QED
  BY <1>1, <1>2 DEF Bytes

\* There is a delta in a line exactly when the line is data with a character.
LEMMA LineSays ==
  ASSUME NEW s \in Seq(Bytes), WellFormed(s), NEW k \in 0 .. Len(s), NEW p \in k + 1 .. Len(s),
         k = 0 \/ s[k] = Mark("nl"), s[p] = Mark("nl"),
         \A i \in k + 1 .. p - 1 : s[i] # Mark("nl")
  PROVE  /\ \A t \in Trails(s) : t \in k + 1 .. p =>
              t = k + 3 /\ p = k + 4 /\ s[k + 1] = Mark("data") /\ s[k + 2] = Lead(s[t][2])
         /\ p > k + 2 /\ s[k + 2][1] = "lead" =>
              p = k + 4 /\ k + 3 \in Trails(s) /\ s[k + 3] = Trail(s[k + 2][2])
<1>1. Len(s) \in Nat /\ k \in Nat /\ p \in Nat /\ DOMAIN s = 1 .. Len(s)
      /\ \A i \in 1 .. Len(s) : s[i] \in Bytes
  BY LenProperties, ElementOfSeq
<1>2. ASSUME NEW t \in Trails(s), t \in k + 1 .. p
      PROVE  t = k + 3 /\ p = k + 4 /\ s[k + 1] = Mark("data") /\ s[k + 2] = Lead(s[t][2])
  <2>1. t \in 1 .. Len(s) /\ s[t][1] = "trail" /\ t \in Nat
    BY <1>1 DEF Trails
  <2>2. t > 1 /\ s[t - 1][1] = "lead" /\ t - 1 \in 1 .. Len(s)
    BY <1>1, <2>1 DEF WellFormed
  <2>3. /\ t - 1 > 1 /\ s[t - 2] = Mark("data") /\ (t - 1 > 2 => s[t - 3] = Mark("nl"))
        /\ s[t] = Trail(s[t - 1][2])
        /\ t < Len(s) => s[t + 1] = Mark("nl")
    <3>1. (t - 1) - 1 = t - 2 /\ (t - 1) - 2 = t - 3 /\ (t - 1) + 1 = t /\ (t - 1) + 2 = t + 1
      BY <2>1
    <3>2. /\ t - 1 > 1 /\ s[(t - 1) - 1] = Mark("data") /\ (t - 1 > 2 => s[(t - 1) - 2] = Mark("nl"))
          /\ s[(t - 1) + 1] = Trail(s[t - 1][2])
          /\ (t - 1) + 1 < Len(s) => s[(t - 1) + 2] = Mark("nl")
      BY <1>1, <2>2 DEF WellFormed
    <3>. QED
      BY <3>1, <3>2
  <2>4. s[t] # Mark("nl") /\ s[t - 1] # Mark("nl") /\ s[t - 1] = Lead(s[t - 1][2])
    BY <1>1, <2>1, <2>2, BytesAre
  <2>5. s[t - 2] # Mark("nl")
    BY <2>3 DEF Mark
  <2>6. t # p /\ t - 1 # k /\ t - 2 # k
    <3>1. t - 1 > 0 /\ t - 2 > 0
      BY <2>1, <2>3
    <3>. QED
      BY <1>1, <2>4, <2>5, <3>1
  <2>7. t - 2 >= k + 1 /\ t < p /\ p <= Len(s)
    BY <1>1, <1>2, <2>1, <2>6
  <2>8. t - 3 = k
    <3>1. CASE t - 1 > 2
      <4>1. t - 3 \notin k + 1 .. p - 1
        BY <2>3, <3>1
      <4>. QED
        BY <1>1, <2>1, <2>7, <4>1
    <3>2. CASE ~(t - 1 > 2)
      BY <1>1, <2>1, <2>3, <2>7, <3>2
    <3>. QED
      BY <3>1, <3>2
  <2>9. p = t + 1
    <3>1. t + 1 \notin k + 1 .. p - 1
      BY <1>1, <2>1, <2>3, <2>7
    <3>. QED
      BY <1>1, <2>1, <2>7, <3>1
  <2>10. t = k + 3 /\ t - 1 = k + 2 /\ t - 2 = k + 1 /\ p = k + 4
    BY <1>1, <2>1, <2>8, <2>9
  <2>11. s[t][2] = s[t - 1][2]
    BY <2>3 DEF Trail
  <2>. QED
    BY <2>3, <2>4, <2>10, <2>11
<1>3. ASSUME p > k + 2, s[k + 2][1] = "lead"
      PROVE  p = k + 4 /\ k + 3 \in Trails(s) /\ s[k + 3] = Trail(s[k + 2][2])
  <2>1. k + 2 \in 1 .. Len(s)
    BY <1>1, <1>3
  <2>2. k + 2 < Len(s) /\ s[(k + 2) + 1] = Trail(s[k + 2][2])
    BY <1>1, <1>3, <2>1 DEF WellFormed
  <2>3. k + 3 \in 1 .. Len(s) /\ s[k + 3] = Trail(s[k + 2][2]) /\ s[k + 3][1] = "trail"
    <3>1. (k + 2) + 1 = k + 3 /\ k + 3 \in 1 .. Len(s)
      BY <1>1, <2>2
    <3>. QED
      BY <2>2, <3>1 DEF Trail
  <2>4. k + 3 \in Trails(s)
    BY <1>1, <2>3 DEF Trails
  <2>5. k + 3 \in k + 1 .. p
    BY <1>1, <1>3
  <2>. QED
    BY <1>2, <2>3, <2>4, <2>5
<1>. QED
  BY <1>2, <1>3

-----------------------------------------------------------------------------
\* The deltas of the first k bytes have been handed on.
Heard(s, k, out) ==
  /\ out \in Seq(Nat) /\ Len(out) = Rank(Trails(s), k)
  /\ \A n \in 1 .. Len(out) :
       \E i \in Trails(s) : i <= k /\ Rank(Trails(s), i) = n /\ out[n] = s[i][2]

\* What has been heard is a beginning of what is said, and all of it when no
\* delta is left.
LEMMA HeardIsSaid ==
  ASSUME NEW s \in Seq(Bytes), NEW k \in 0 .. Len(s), NEW out, Heard(s, k, out)
  PROVE  /\ IsPrefix(out, Said(s))
         /\ (\A t \in Trails(s) : t <= k) => out = Said(s)
<1>. DEFINE T == Trails(s)
            c == Cardinality(T)
<1>1. Len(s) \in Nat /\ DOMAIN s = 1 .. Len(s) /\ k \in Int
  BY LenProperties
<1>2. T \subseteq 1 .. Len(s)
  BY <1>1 DEF Trails
<1>3. c \in Nat /\ Rank(T, k) \in Nat /\ Rank(T, k) <= c /\ ((\A t \in T : t <= k) => Rank(T, k) = c)
  BY <1>2, RankType, RankOfLast
<1>4. DOMAIN Picked(s, T) = 1 .. c
  BY DEF Picked
<1>5. DOMAIN Said(s) = 1 .. c
  BY <1>4 DEF Said
<1>6. ASSUME NEW n \in 1 .. Len(out) PROVE n \in 1 .. c /\ Said(s)[n] = out[n]
  <2>1. PICK i \in T : Rank(T, i) = n /\ out[n] = s[i][2]
    BY DEF Heard
  <2>2. n \in 1 .. c
    BY <1>3 DEF Heard
  <2>3. PICK j : j = CHOOSE x \in T : Rank(T, x) = n
    OBVIOUS
  <2>4. j \in T /\ Rank(T, j) = n
    BY <2>1, <2>3
  <2>5. j = i
    BY <1>1, <1>2, <2>1, <2>4, RankIsUnique
  <2>6. Picked(s, T)[n] = s[j]
    BY <2>2, <2>3 DEF Picked
  <2>7. Said(s)[n] = Picked(s, T)[n][2]
    BY <1>4, <2>2 DEF Said
  <2>. QED
    BY <2>1, <2>2, <2>5, <2>6, <2>7
<1>. DEFINE S == Nat \cup {Said(s)[n] : n \in 1 .. c}
<1>7. Said(s) \in [1 .. c -> S]
  <2>1. Said(s) = [n \in 1 .. c |-> Said(s)[n]]
    BY <1>4 DEF Said
  <2>. QED
    BY <2>1
<1>8. PICK said : said = Said(s)
  OBVIOUS
<1>9. said \in Seq(S) /\ Len(said) = c
  <2>1. said \in Seq(S)
    BY <1>3, <1>7, <1>8, SeqDef
  <2>2. Len(said) \in Nat /\ DOMAIN said = 1 .. Len(said)
    BY <2>1, LenProperties
  <2>. QED
    BY <1>3, <1>5, <1>8, <2>1, <2>2
<1>10. out \in Seq(S) /\ Len(out) \in Nat /\ Len(out) <= c
  <2>1. out \in Seq(Nat)
    BY DEF Heard
  <2>2. out \in Seq(S)
    BY <2>1, SeqMonotonic
  <2>. QED
    BY <1>3, <2>1, <2>2, LenProperties DEF Heard
<1>11. \A n \in 1 .. Len(out) : said[n] = out[n]
  BY <1>6, <1>8
<1>. HIDE DEF S
<1>12. IsPrefix(out, said)
  <2>0. /\ 0 \in 0 .. Len(out) /\ Len(out) \in 0 .. Len(out)
        /\ 0 \in 0 .. Len(said) /\ Len(out) \in 0 .. Len(said)
    BY <1>3, <1>9, <1>10
  <2>1. /\ Part(out, 0, Len(out)) \in Seq(S) /\ Len(Part(out, 0, Len(out))) = Len(out) - 0
        /\ \A n \in 1 .. Len(out) - 0 : Part(out, 0, Len(out))[n] = out[0 + n]
    BY <1>10, <2>0, PartFacts
  <2>2. /\ Part(said, 0, Len(out)) \in Seq(S) /\ Len(Part(said, 0, Len(out))) = Len(out) - 0
        /\ \A n \in 1 .. Len(out) - 0 : Part(said, 0, Len(out))[n] = said[0 + n]
    BY <1>9, <2>0, PartFacts
  <2>3. \A n \in 1 .. Len(out) : 0 + n = n
    OBVIOUS
  <2>4. Len(out) - 0 = Len(out)
    BY <1>10
  <2>5. Part(out, 0, Len(out)) = Part(said, 0, Len(out))
    BY <1>11, <2>1, <2>2, <2>3, <2>4, SeqEqual
  <2>6. 0 + 1 = 1
    OBVIOUS
  <2>7. SubSeq(out, 1, Len(out)) = SubSeq(said, 1, Len(out))
    BY <2>5, <2>6 DEF Part
  <2>. QED
    BY <1>9, <1>10, <2>7 DEF IsPrefix
<1>13. ASSUME \A t \in T : t <= k PROVE out = said
  <2>1. Len(out) = Len(said)
    BY <1>3, <1>9, <1>13 DEF Heard
  <2>. QED
    BY <1>9, <1>10, <1>11, <2>1, SeqEqual
<1>. QED
  BY <1>8, <1>12, <1>13

-----------------------------------------------------------------------------
(* The invariant of a call.                                                 *)

CallPcs == {"idle", "choose", "enter", "sent", "backoff", "record", "reading", "lines", "done"}

CallOf(op, at, next, attempt) == [op |-> op, at |-> at, pc |-> next, attempt |-> attempt]
ReaderOf(held, buffer, out) == [held |-> held, buffer |-> buffer, out |-> out]

\* Requests are repeated MaxRetries times.
CallShape ==
  /\ list \in [1 .. 2 -> Rows]
  /\ call = CallOf(call.op, call.at, call.pc, call.attempt)
  /\ call.op \in Ops /\ call.at \in 1 .. 2 /\ call.pc \in CallPcs
  /\ call.attempt \in 0 .. MaxRetries + 1
  /\ call.pc = "backoff" => call.attempt <= MaxRetries
  /\ call.pc = "record" => call.op = "embed"
  /\ call.pc \in {"reading", "lines"} => call.op = "stream"

\* The stream is cut at three places: up to k whole lines have been taken, up
\* to h text is in the buffer, up to r bytes have come, the last of which may
\* be half of a character.
Cut(k, h, r) ==
  /\ k \in 0 .. Len(script) /\ h \in k .. Len(script) /\ r \in h .. Len(script)
  /\ reader.buffer = Part(script, k, h)
  /\ reader.held = Part(script, h, r)
  /\ wire = Part(script, r, Len(script))
  /\ h = r \/ (r = h + 1 /\ script[r][1] = "lead")
  /\ k = 0 \/ script[k] = Mark("nl")
  /\ Heard(script, k, reader.out)

Ended == script = <<>> \/ Last(script) = Mark("nl")

StreamShape ==
  /\ script \in Seq(Bytes) /\ WellFormed(script)
  /\ reader = ReaderOf(reader.held, reader.buffer, reader.out)
  /\ \E k, h, r \in Nat : Cut(k, h, r)
  /\ call.pc \notin {"reading", "lines", "done"} => script = <<>> /\ wire = <<>> /\ reader = NoStream
  /\ call.pc = "reading" => Newlines = {}
  /\ result.is = "value" => call.pc = "done" /\ (call.op = "stream" /\ Ended => reader.out = Said(script))

CallInv == CallShape /\ StreamShape

\* What the invariant is for.
LEMMA IntactStreams == CallInv => StreamsArriveIntact
<1>. SUFFICES ASSUME CallInv PROVE StreamsArriveIntact
  OBVIOUS
<1>1. PICK k, h, r \in Nat : Cut(k, h, r)
  BY DEF CallInv, StreamShape
<1>2. IsPrefix(reader.out, Said(script))
  BY <1>1, HeardIsSaid DEF Cut, CallInv, StreamShape
<1>. QED
  BY <1>2 DEF CallInv, StreamShape, StreamsArriveIntact, Ended

\* A version in the base takes the place of the one in the path,
LEMMA VersionOfTheBase ==
  ASSUME NEW base \in Seq(Segments), \E i \in DOMAIN base : base[i] \in Numbered,
         NEW path \in {<<"endpoint">>, <<"v1", "endpoint">>, <<"v2", "endpoint">>}
  PROVE  Address(base, path) = Append(base, "endpoint")
<1>1. PICK rest : rest = IF path # <<>> /\ path[1] \in Numbered THEN Tail(path) ELSE path
  OBVIOUS
<1>2. rest = <<"endpoint">>
  <2>1. CASE path = <<"endpoint">>
    <3>1. path[1] \notin Numbered
      BY <2>1 DEF Numbered
    <3>. QED
      BY <1>1, <2>1, <3>1
  <2>2. CASE path # <<"endpoint">>
    <3>1. path[1] \in Numbered /\ path # <<>> /\ Tail(path) = <<"endpoint">>
      <4>1. CASE path = <<"v1", "endpoint">>
        BY <4>1 DEF Numbered
      <4>2. CASE path = <<"v2", "endpoint">>
        BY <4>2 DEF Numbered
      <4>. QED
        BY <2>2, <4>1, <4>2
    <3>. QED
      BY <1>1, <3>1
  <2>. QED
    BY <2>1, <2>2
<1>3. Address(base, path) = base \o <<>> \o rest
  BY <1>1 DEF Address
<1>4. base \o <<>> \o <<"endpoint">> = Append(base, "endpoint")
  OBVIOUS
<1>. QED
  BY <1>2, <1>3, <1>4

\* and v1 is in the address of a base without one.
LEMMA VersionOfThePath ==
  ASSUME NEW base \in Seq(Segments), ~ \E i \in DOMAIN base : base[i] \in Numbered,
         NEW path \in {<<"endpoint">>, <<"v1", "endpoint">>}
  PROVE  Address(base, path) = Append(Append(base, "v1"), "endpoint")
<1>1. CASE path = <<"endpoint">>
  <2>1. Address(base, path) = base \o <<"v1">> \o path
    BY <1>1 DEF Address
  <2>2. base \o <<"v1">> \o <<"endpoint">> = Append(Append(base, "v1"), "endpoint")
    OBVIOUS
  <2>. QED
    BY <1>1, <2>1, <2>2
<1>2. CASE path = <<"v1", "endpoint">>
  <2>1. path[1] # "endpoint"
    BY <1>2
  <2>2. Address(base, path) = base \o <<>> \o path
    BY <2>1 DEF Address
  <2>3. base \o <<>> \o <<"v1", "endpoint">> = Append(Append(base, "v1"), "endpoint")
    OBVIOUS
  <2>. QED
    BY <1>2, <2>2, <2>3
<1>. QED
  BY <1>1, <1>2

\* A row that was given well leads to the provider's endpoint.
LEMMA KnownAddresses == CallInv => AddressesAreKnown
<1>. SUFFICES ASSUME CallInv, WellGiven(Row, call.op) PROVE Found
  BY DEF AddressesAreKnown
<1>1. Row \in Rows
  BY DEF CallInv, CallShape, Row
<1>2. Row.base \in Seq(Segments) /\ Row.home \in Seq(Segments)
  BY <1>1 DEF Rows
<1>3. CASE \E i \in DOMAIN Row.base : Row.base[i] \in Numbered
  <2>1. /\ Row.base = Row.home
        /\ Path(Row, call.op) \in {<<"endpoint">>, <<"v1", "endpoint">>, <<"v2", "endpoint">>}
    BY <1>3 DEF WellGiven
  <2>. QED
    BY <1>2, <1>3, <2>1, VersionOfTheBase DEF Found
<1>4. CASE ~ \E i \in DOMAIN Row.base : Row.base[i] \in Numbered
  <2>1. /\ Append(Row.base, "v1") = Row.home
        /\ Path(Row, call.op) \in {<<"endpoint">>, <<"v1", "endpoint">>}
    BY <1>4 DEF WellGiven
  <2>. QED
    BY <1>2, <1>4, <2>1, VersionOfThePath DEF Found
<1>. QED
  BY <1>3, <1>4

\* Nothing is read of an empty stream.
LEMMA EmptyCut ==
  ASSUME script = <<>>, wire = <<>>, reader = NoStream
  PROVE  /\ Cut(0, 0, 0) /\ script \in Seq(Bytes) /\ WellFormed(script)
         /\ reader = ReaderOf(reader.held, reader.buffer, reader.out)
         /\ reader.out = Said(script)
<1>1. script \in Seq(Bytes) /\ Len(script) = 0
  BY EmptySeq
<1>2. DOMAIN script = {}
  BY <1>1, LenProperties
<1>3. Trails(script) = {}
  BY <1>2 DEF Trails
<1>4. Rank(Trails(script), 0) = 0
  <2>1. {j \in Trails(script) : j <= 0} = {}
    BY <1>3
  <2>. QED
    BY <2>1, FS_EmptySet DEF Rank
<1>5. reader.out = <<>> /\ reader.buffer = <<>> /\ reader.held = <<>>
  BY DEF NoStream
<1>6. reader = ReaderOf(reader.held, reader.buffer, reader.out)
  BY DEF NoStream, ReaderOf
<1>7. Heard(script, 0, reader.out)
  <2>1. reader.out \in Seq(Nat) /\ Len(reader.out) = 0
    BY <1>5, EmptySeq
  <2>. QED
    BY <1>4, <2>1 DEF Heard
<1>8. Part(script, 0, 0) = <<>>
  BY SubSeqEmpty DEF Part
<1>9. Cut(0, 0, 0)
  BY <1>1, <1>5, <1>7, <1>8 DEF Cut
<1>10. 0 \in 0 .. Len(script)
  BY <1>1
<1>11. reader.out = Said(script)
  BY <1>1, <1>3, <1>7, <1>10, HeardIsSaid
<1>. QED
  BY <1>1, <1>2, <1>6, <1>9, <1>11 DEF WellFormed

\* The same of the next state.
LEMMA EmptyAfter ==
  script' = <<>> /\ wire' = <<>> /\ reader' = NoStream =>
    /\ Cut(0, 0, 0)' /\ script' \in Seq(Bytes) /\ WellFormed(script')
    /\ reader' = ReaderOf(reader'.held, reader'.buffer, reader'.out)
<1>1. script = <<>> /\ wire = <<>> /\ reader = NoStream =>
        /\ Cut(0, 0, 0) /\ script \in Seq(Bytes) /\ WellFormed(script)
        /\ reader = ReaderOf(reader.held, reader.buffer, reader.out)
  BY EmptyCut
<1>2. (script = <<>> /\ wire = <<>> /\ reader = NoStream =>
        /\ Cut(0, 0, 0) /\ script \in Seq(Bytes) /\ WellFormed(script)
        /\ reader = ReaderOf(reader.held, reader.buffer, reader.out))'
  BY <1>1, PTL
<1>3. NoStream' = NoStream
  BY DEF NoStream
<1>. QED
  BY <1>2, <1>3

\* A caller that has asked nothing.
LEMMA StartCall == CallInit => CallInv
<1>. SUFFICES ASSUME CallInit PROVE CallInv
  OBVIOUS
<1>1. CallShape
  BY ListsAssumption, RetriesAssumption DEF CallInit, CallShape, CallOf, Ops, CallPcs
<1>2. call.pc = "idle" /\ result.is = "nothing"
  BY DEF CallInit, Nothing
<1>. QED
  BY <1>1, <1>2, EmptyCut DEF CallInit, CallInv, StreamShape

\* A step that reads nothing.
LEMMA StillReads ==
  ASSUME CallInv, UNCHANGED <<list, script, wire, reader>>,
         NEW at \in 1 .. 2, NEW next \in CallPcs, NEW attempt \in 0 .. MaxRetries + 1,
         call' = CallOf(call.op, at, next, attempt),
         next = "backoff" => attempt <= MaxRetries,
         next = "record" => call.op = "embed",
         next \in {"reading", "lines"} => call.pc \in {"reading", "lines"},
         next \in {"reading", "lines", "done"} \/ call.pc \notin {"reading", "lines", "done"},
         next = "reading" => Newlines = {},
         result'.is = "value" => next = "done" /\ (call.op = "stream" /\ Ended => reader.out = Said(script))
  PROVE  CallInv'
<1>1. call'.op = call.op /\ call'.at = at /\ call'.pc = next /\ call'.attempt = attempt
  BY DEF CallOf
<1>2. CallShape'
  BY <1>1 DEF CallInv, CallShape
<1>3. \E k, h, r \in Nat : Cut(k, h, r)'
  BY DEF CallInv, StreamShape, Cut
<1>. QED
  BY <1>1, <1>2, <1>3 DEF CallInv, StreamShape, Newlines, Ended

\* The next await of a call.
LEMMA GoesOn ==
  ASSUME CallShape, NEW next, Goes(next)
  PROVE  call' = CallOf(call.op, call.at, next, call.attempt)
BY DEF CallShape, CallOf, Goes

\* Where a failure leads.
LEMMA FailsTo ==
  ASSUME CallShape, NEW kind, Fails(kind)
  PROVE  \E at \in 1 .. 2, next \in {"choose", "done"} :
           /\ call' = CallOf(call.op, at, next, call.attempt)
           /\ call.op = "stream" => next = "done"
           /\ result' = result \/ result'.is # "value"
<1>1. CASE call.op \in {"chat", "stream", "health", "list"}
  <2>1. PICK is \in {"error", "unhealthy", "unsupported"} : Settles(is, kind)
    BY <1>1 DEF Fails
  <2>2. call' = CallOf(call.op, call.at, "done", call.attempt)
    BY <2>1, GoesOn DEF Settles
  <2>. QED
    BY <2>1, <2>2 DEF Settles, CallShape
<1>2. CASE call.op \notin {"chat", "stream", "health", "list"}
  <2>1. PICK next : next = IF call.at = 1 THEN "choose" ELSE "done"
    OBVIOUS
  <2>2. /\ call' = [call EXCEPT !.at = 2, !.pc = next]
        /\ result' = IF call.at = 1 THEN result ELSE [is |-> "null", kind |-> kind]
    BY <1>2, <2>1 DEF Fails
  <2>3. PICK c : c = [call EXCEPT !.at = 2]
    OBVIOUS
  <2>4. c = CallOf(call.op, 2, call.pc, call.attempt)
    BY <2>3 DEF CallShape, CallOf
  <2>5. [c EXCEPT !.pc = next] = CallOf(call.op, 2, next, call.attempt)
    BY <2>4 DEF CallOf
  <2>6. call' = CallOf(call.op, 2, next, call.attempt)
    BY <2>2, <2>3, <2>5
  <2>7. result' = result \/ result'.is # "value"
    BY <2>2
  <2>. QED
    BY <1>2, <2>1, <2>6, <2>7
<1>. QED
  BY <1>1, <1>2

\* A call that fails,
LEMMA FailureKeeps ==
  ASSUME CallInv, NEW kind, Fails(kind), UNCHANGED <<list, script, wire, reader>>, call.pc # "done"
  PROVE  CallInv'
<1>1. PICK at \in 1 .. 2, next \in {"choose", "done"} :
           /\ call' = CallOf(call.op, at, next, call.attempt)
           /\ call.op = "stream" => next = "done"
           /\ result' = result \/ result'.is # "value"
  BY FailsTo DEF CallInv
<1>2. result'.is # "value"
  BY <1>1 DEF CallInv, StreamShape
<1>3. next = "done" \/ call.pc \notin {"reading", "lines", "done"}
  BY <1>1 DEF CallInv, CallShape
<1>4. call.attempt \in 0 .. MaxRetries + 1 /\ next \in CallPcs
  BY DEF CallInv, CallShape, CallPcs
<1>. QED
  BY <1>1, <1>2, <1>3, <1>4, StillReads

\* and one that gets its answer.
LEMMA SettlingKeeps ==
  ASSUME CallInv, NEW is, NEW kind, Settles(is, kind), UNCHANGED <<list, script, wire, reader>>,
         is = "value" /\ call.op = "stream" /\ Ended => reader.out = Said(script)
  PROVE  CallInv'
<1>1. call' = CallOf(call.op, call.at, "done", call.attempt)
  BY GoesOn DEF CallInv, Settles
<1>2. result'.is = is
  BY DEF Settles
<1>3. call.at \in 1 .. 2 /\ call.attempt \in 0 .. MaxRetries + 1 /\ "done" \in CallPcs
  BY DEF CallInv, CallShape, CallPcs
<1>. QED
  BY <1>1, <1>2, <1>3, StillReads

\* Before the stream is opened there is nothing to say.
LEMMA SilentBefore ==
  ASSUME CallInv, call.pc \notin {"reading", "lines", "done"}
  PROVE  reader.out = Said(script)
BY EmptyCut DEF CallInv, StreamShape

\* A call goes on to an await before the stream.
LEMMA GoingKeeps ==
  ASSUME CallInv, NEW next \in {"choose", "enter", "sent", "backoff", "record"}, Goes(next),
         UNCHANGED <<list, script, wire, reader, result>>,
         call.pc \notin {"reading", "lines", "done"},
         next = "backoff" => call.attempt <= MaxRetries,
         next = "record" => call.op = "embed"
  PROVE  CallInv'
<1>1. call' = CallOf(call.op, call.at, next, call.attempt)
  BY GoesOn DEF CallInv
<1>2. result'.is # "value"
  BY DEF CallInv, StreamShape
<1>3. call.at \in 1 .. 2 /\ call.attempt \in 0 .. MaxRetries + 1 /\ next \in CallPcs
  BY DEF CallInv, CallShape, CallPcs
<1>. QED
  BY <1>1, <1>2, <1>3, StillReads

-----------------------------------------------------------------------------
(* The steps of a call.                                                     *)

\* A new call.
LEMMA BeginKeeps ==
  ASSUME CallInv, NEW op \in Ops, Begin(op)
  PROVE  CallInv'
<1>1. call' = CallOf(op, 1, "choose", 0)
  BY DEF Begin, CallOf
<1>2. call'.op = op /\ call'.at = 1 /\ call'.pc = "choose" /\ call'.attempt = 0
  BY <1>1 DEF CallOf
<1>3. CallShape'
  BY <1>1, <1>2, RetriesAssumption DEF CallInv, CallShape, Begin, CallPcs
<1>5. script' = <<>> /\ wire' = <<>> /\ reader' = NoStream /\ result'.is = "nothing"
  BY DEF Begin, Nothing
<1>6. /\ Cut(0, 0, 0)' /\ script' \in Seq(Bytes) /\ WellFormed(script')
      /\ reader' = ReaderOf(reader'.held, reader'.buffer, reader'.out)
  BY <1>5, EmptyAfter
<1>. QED
  BY <1>2, <1>3, <1>5, <1>6 DEF CallInv, StreamShape

\* The candidate is chosen or skipped.
LEMMA ChooseKeeps == ASSUME CallInv, Choose PROVE CallInv'
<1>1. CASE Fails("capacity")
  BY <1>1, FailureKeeps DEF Choose
<1>2. CASE Goes("enter") /\ UNCHANGED result
  BY <1>2, GoingKeeps DEF Choose
<1>. QED
  BY <1>1, <1>2 DEF Choose

\* The adapter sends the request or answers by itself.
LEMMA EnterKeeps == ASSUME CallInv, Enter PROVE CallInv'
<1>1. call.pc = "enter" /\ UNCHANGED <<list, script, wire, reader>>
  BY DEF Enter
<1>2. CASE \E kind : Fails(kind)
  BY <1>1, <1>2, FailureKeeps
<1>3. CASE Settles("unsupported", "none") \/ Settles("value", "none")
  BY <1>1, <1>3, SilentBefore, SettlingKeeps
<1>4. CASE call' = [call EXCEPT !.pc = "sent", !.attempt = 1] /\ UNCHANGED result
  <2>1. PICK c : c = [call EXCEPT !.pc = "sent"]
    OBVIOUS
  <2>2. c = CallOf(call.op, call.at, "sent", call.attempt)
    BY <2>1 DEF CallInv, CallShape, CallOf
  <2>3. [c EXCEPT !.attempt = 1] = CallOf(call.op, call.at, "sent", 1)
    BY <2>2 DEF CallOf
  <2>4. call' = CallOf(call.op, call.at, "sent", 1)
    BY <1>4, <2>1, <2>3
  <2>5. 1 \in 0 .. MaxRetries + 1 /\ "sent" \in CallPcs /\ call.at \in 1 .. 2
    BY RetriesAssumption DEF CallPcs, CallInv, CallShape
  <2>6. result'.is # "value"
    BY <1>1, <1>4 DEF CallInv, StreamShape
  <2>. QED
    BY <1>1, <2>4, <2>5, <2>6, StillReads
<1>. QED
  BY <1>2, <1>3, <1>4 DEF Enter

\* An answer with an error status.
LEMMA ErrorKeeps == ASSUME CallInv, NEW status, AnswersError(status) PROVE CallInv'
<1>1. CASE Repeats /\ Retries(Classify(status)) /\ Goes("backoff") /\ UNCHANGED result
  BY <1>1, GoingKeeps DEF AnswersError, Retries
<1>2. CASE Fails(Classify(status))
  BY <1>2, FailureKeeps DEF AnswersError
<1>. QED
  BY <1>1, <1>2 DEF AnswersError

\* The request is repeated.
LEMMA BackoffKeeps == ASSUME CallInv, BackoffEnds PROVE CallInv'
<1>1. PICK n : n = call.attempt + 1
  OBVIOUS
<1>2. PICK c : c = [call EXCEPT !.pc = "sent"]
  OBVIOUS
<1>3. c = CallOf(call.op, call.at, "sent", call.attempt)
  BY <1>2 DEF CallInv, CallShape, CallOf
<1>4. [c EXCEPT !.attempt = n] = CallOf(call.op, call.at, "sent", n)
  BY <1>3 DEF CallOf
<1>5. call' = [c EXCEPT !.attempt = n]
  BY <1>1, <1>2, <1>3 DEF BackoffEnds, CallOf
<1>6. n \in 0 .. MaxRetries + 1
  BY <1>1, RetriesAssumption DEF CallInv, CallShape, BackoffEnds
<1>7. "sent" \in CallPcs /\ call.at \in 1 .. 2 /\ result'.is # "value"
  BY DEF CallPcs, CallInv, CallShape, StreamShape, BackoffEnds
<1>8. call' = CallOf(call.op, call.at, "sent", n) /\ UNCHANGED <<list, script, wire, reader>>
      /\ call.pc \notin {"reading", "lines", "done"}
  BY <1>4, <1>5 DEF BackoffEnds
<1>. QED
  BY <1>6, <1>7, <1>8, StillReads

\* An answer with status 200.
LEMMA AnswerKeeps == ASSUME CallInv, NEW body, AnswersWell(body) PROVE CallInv'
<1>1. call.pc = "sent" /\ UNCHANGED <<list, script, wire, reader>>
  BY DEF AnswersWell
<1>2. CASE \E kind : Fails(kind)
  BY <1>1, <1>2, FailureKeeps
<1>3. CASE Settles("null", "none") \/ Settles("value", "none")
  BY <1>1, <1>3, SilentBefore, SettlingKeeps
<1>4. CASE call.op = "embed" /\ Goes("record") /\ UNCHANGED result
  BY <1>1, <1>4, GoingKeeps
<1>. QED
  BY <1>2, <1>3, <1>4 DEF AnswersWell

\* The usage of an embedding is recorded, or is not.
LEMMA RecordKeeps == ASSUME CallInv, Recorded PROVE CallInv'
BY SilentBefore, SettlingKeeps, FailureKeeps DEF Recorded

-----------------------------------------------------------------------------
(* The steps of a stream.                                                   *)

\* A step that reads the stream on.
LEMMA StreamGoesOn ==
  ASSUME CallInv, NEW next \in {"reading", "lines"}, call' = CallOf(call.op, call.at, next, call.attempt),
         call.op = "stream", UNCHANGED <<list, result>>, result.is # "value",
         script' \in Seq(Bytes), WellFormed(script'),
         reader' = ReaderOf(reader'.held, reader'.buffer, reader'.out),
         NEW k \in Nat, NEW h \in Nat, NEW r \in Nat, Cut(k, h, r)',
         next = "reading" => Newlines' = {}
  PROVE  CallInv'
<1>1. call'.op = call.op /\ call'.at = call.at /\ call'.pc = next /\ call'.attempt = call.attempt
  BY DEF CallOf
<1>2. CallShape'
  BY <1>1 DEF CallInv, CallShape, CallPcs
<1>. QED
  BY <1>1, <1>2 DEF CallInv, StreamShape

\* The provider begins to send.
LEMMA OpensKeeps == ASSUME CallInv, NEW s \in Scripts, Opens(s) PROVE CallInv'
<1>1. s \in Seq(Bytes) /\ WellFormed(s) /\ Len(s) \in Nat /\ DOMAIN s = 1 .. Len(s)
  BY ScriptsAssumption, LenProperties
<1>2. call.pc = "sent" /\ call.op = "stream" /\ UNCHANGED <<list, reader, result>>
      /\ script' = s /\ wire' = s
  BY DEF Opens
<1>3. reader = NoStream /\ result.is # "value"
  BY <1>2 DEF CallInv, StreamShape
<1>4. reader.out = <<>> /\ reader.buffer = <<>> /\ reader.held = <<>>
      /\ reader = ReaderOf(reader.held, reader.buffer, reader.out)
  BY <1>3 DEF NoStream, ReaderOf
<1>5. Rank(Trails(s), 0) = 0
  <2>1. {j \in Trails(s) : j <= 0} = {}
    BY <1>1 DEF Trails
  <2>. QED
    BY <2>1, FS_EmptySet DEF Rank
<1>6. Heard(s, 0, <<>>)
  <2>1. <<>> \in Seq(Nat) /\ Len(<<>>) = 0
    BY EmptySeq
  <2>. QED
    BY <1>5, <2>1 DEF Heard
<1>7. Part(s, 0, 0) = <<>> /\ Part(s, 0, Len(s)) = s
  BY <1>1, SubSeqEmpty, SubSeqFull DEF Part
<1>8. Cut(0, 0, 0)'
  BY <1>1, <1>2, <1>4, <1>6, <1>7 DEF Cut
<1>9. Newlines' = {}
  <2>1. Len(reader.buffer) = 0
    BY <1>4, EmptySeq
  <2>. QED
    BY <1>2, <2>1 DEF Newlines
<1>10. call' = CallOf(call.op, call.at, "reading", call.attempt)
  BY GoesOn DEF CallInv, Opens
<1>. QED
  BY <1>1, <1>2, <1>3, <1>4, <1>8, <1>9, <1>10, StreamGoesOn

\* What two changes make of a reader.
LEMMA ReaderGets ==
  ASSUME reader = ReaderOf(reader.held, reader.buffer, reader.out), NEW x, NEW y
  PROVE  /\ [reader EXCEPT !.held = x, !.buffer = y] = ReaderOf(x, y, reader.out)
         /\ [reader EXCEPT !.buffer = x, !.out = y] = ReaderOf(reader.held, x, y)
<1>1. PICK c : c = [reader EXCEPT !.held = x]
  OBVIOUS
<1>2. c = ReaderOf(x, reader.buffer, reader.out)
  BY <1>1 DEF ReaderOf
<1>3. [c EXCEPT !.buffer = y] = ReaderOf(x, y, reader.out)
  BY <1>2 DEF ReaderOf
<1>4. PICK d : d = [reader EXCEPT !.buffer = x]
  OBVIOUS
<1>5. d = ReaderOf(reader.held, x, reader.out)
  BY <1>4 DEF ReaderOf
<1>6. [d EXCEPT !.out = y] = ReaderOf(reader.held, x, y)
  BY <1>5 DEF ReaderOf
<1>. QED
  BY <1>1, <1>3, <1>4, <1>6

\* The next bytes come: half a character is held back.
LEMMA ChunkKeeps == ASSUME CallInv, NEW n \in 1 .. Len(wire), Chunk(n) PROVE CallInv'
<1>1. PICK k, h, r \in Nat : Cut(k, h, r)
  BY DEF CallInv, StreamShape
<1>2. /\ script \in Seq(Bytes) /\ Len(script) \in Nat
      /\ k \in 0 .. Len(script) /\ h \in k .. Len(script) /\ r \in h .. Len(script)
      /\ \A i \in 1 .. Len(script) : script[i] \in Bytes
  BY <1>1, LenProperties, ElementOfSeq DEF CallInv, StreamShape, Cut
<1>3. Len(wire) = Len(script) - r /\ r + n \in r + 1 .. Len(script) /\ n \in 0 .. Len(script) - r
  <2>1. Len(wire) = Len(script) - r
    <3>1. r \in 0 .. Len(script) /\ Len(script) \in r .. Len(script)
      BY <1>2
    <3>2. Len(Part(script, r, Len(script))) = Len(script) - r
      BY <1>2, <3>1, PartFacts
    <3>3. wire = Part(script, r, Len(script))
      BY <1>1 DEF Cut
    <3>. QED
      BY <3>2, <3>3
  <2>. QED
    BY <1>2, <2>1
<1>4. PICK q : q = r + n
  OBVIOUS
<1>5. q \in Nat /\ q \in r .. Len(script) /\ q \in h .. Len(script) /\ q > r /\ q > h /\ q \in 1 .. Len(script)
  BY <1>2, <1>3, <1>4
<1>6. SubSeq(wire, 1, n) = Part(script, r, q) /\ SubSeq(wire, n + 1, Len(wire)) = Part(script, q, Len(script))
  <2>1. /\ 0 \in 0 .. Len(script) - r /\ n \in 0 .. Len(script) - r
        /\ Len(script) - r \in n .. Len(script) - r /\ r \in 0 .. Len(script)
        /\ Len(script) \in r .. Len(script)
    BY <1>2, <1>3
  <2>2. PICK w : w = Part(script, r, Len(script))
    OBVIOUS
  <2>4. wire = w
    BY <1>1, <2>2 DEF Cut
  <2>5. SubSeq(Part(script, r, Len(script)), 0 + 1, n) = Part(script, r + 0, r + n)
    BY <1>2, <2>1, PartOfPart
  <2>6. SubSeq(Part(script, r, Len(script)), n + 1, Len(script) - r) = Part(script, r + n, r + (Len(script) - r))
    BY <1>2, <2>1, PartOfPart
  <2>3. 0 + 1 = 1 /\ r + 0 = r /\ r + (Len(script) - r) = Len(script)
    BY <1>2
  <2>. QED
    BY <1>3, <1>4, <2>2, <2>3, <2>4, <2>5, <2>6
<1>7. PICK whole : whole = reader.held \o SubSeq(wire, 1, n)
  OBVIOUS
<1>8. whole = Part(script, h, q)
  <2>1. reader.held = Part(script, h, r)
    BY <1>1 DEF Cut
  <2>2. h \in 0 .. Len(script) /\ q \in r .. Len(script)
    BY <1>2, <1>5
  <2>3. Part(script, h, r) \o Part(script, r, q) = Part(script, h, q)
    BY <1>2, <2>2, PartsJoin
  <2>. QED
    BY <1>6, <1>7, <2>1, <2>3
<1>9. Len(whole) = q - h /\ whole[q - h] = script[q] /\ whole # <<>>
  <2>1. Len(whole) = q - h /\ whole[q - h] = script[h + (q - h)]
    <3>1. q - h \in 1 .. q - h /\ h \in 0 .. Len(script) /\ q \in h .. Len(script)
      BY <1>2, <1>5
    <3>2. /\ Len(Part(script, h, q)) = q - h
          /\ \A i \in 1 .. q - h : Part(script, h, q)[i] = script[h + i]
      BY <1>2, <3>1, PartFacts
    <3>. QED
      BY <1>8, <3>1, <3>2
  <2>2. h + (q - h) = q /\ q - h # 0
    BY <1>2, <1>5
  <2>3. whole # <<>>
    BY <2>1, <2>2, EmptySeq
  <2>. QED
    BY <2>1, <2>2, <2>3
<1>10. PICK d : d = Decode(reader.held, SubSeq(wire, 1, n))
  OBVIOUS
<1>11. /\ reader' = ReaderOf(d.held, reader.buffer \o d.text, reader.out)
       /\ wire' = Part(script, q, Len(script))
       /\ call' = CallOf(call.op, call.at, "lines", call.attempt)
       /\ UNCHANGED <<list, script, result>> /\ call.pc = "reading"
  <2>1. reader' = [reader EXCEPT !.held = d.held, !.buffer = reader.buffer \o d.text]
    BY <1>10 DEF Chunk, CallInv, StreamShape, ReaderOf
  <2>2. reader = ReaderOf(reader.held, reader.buffer, reader.out)
    BY DEF CallInv, StreamShape
  <2>. QED
    BY <1>6, <2>1, <2>2, ReaderGets, GoesOn DEF Chunk, CallInv
<1>12. reader'.held = d.held /\ reader'.buffer = reader.buffer \o d.text /\ reader'.out = reader.out
  BY <1>11 DEF ReaderOf
<1>13. \E g \in Nat : Cut(k, g, q)'
  <2>1. CASE script[q][1] = "lead"
    <3>1. d = [text |-> Front(whole), held |-> <<Last(whole)>>]
      BY <1>7, <1>9, <1>10, <2>1 DEF Decode, Last
    <3>2. PICK g : g = q - 1
      OBVIOUS
    <3>3. g \in Nat /\ g \in h .. Len(script) /\ q = g + 1 /\ q \in g .. Len(script) /\ g \in k .. Len(script)
      BY <1>2, <1>5, <3>2
    <3>4. d.text = Part(script, h, g)
      <4>1. /\ 0 \in 0 .. q - h /\ q - h - 1 \in 0 .. q - h /\ 0 + 1 = 1 /\ h + 0 = h
            /\ h + (q - h - 1) = g /\ h \in 0 .. Len(script) /\ q \in h .. Len(script)
        BY <1>2, <1>5, <3>2
      <4>2. SubSeq(whole, 0 + 1, q - h - 1) = Part(script, h + 0, h + (q - h - 1))
        <5>1. SubSeq(Part(script, h, q), 0 + 1, q - h - 1) = Part(script, h + 0, h + (q - h - 1))
          BY <1>2, <4>1, PartOfPart
        <5>. QED
          BY <1>8, <5>1
      <4>3. d.text = SubSeq(whole, 1, q - h - 1)
        BY <1>9, <3>1 DEF Front
      <4>. QED
        BY <4>1, <4>2, <4>3
    <3>5. d.held = Part(script, g, q)
      <4>1. d.held = <<script[q]>>
        BY <1>9, <3>1 DEF Last
      <4>2. /\ Part(script, g, q) \in Seq(Bytes) /\ Len(Part(script, g, q)) = 1
            /\ Part(script, g, q)[1] = script[q]
        <5>1. q - g = 1 /\ g + 1 = q /\ g \in 0 .. Len(script) /\ q \in g .. Len(script)
          BY <1>2, <3>3
        <5>2. /\ Part(script, g, q) \in Seq(Bytes) /\ Len(Part(script, g, q)) = q - g
              /\ \A i \in 1 .. q - g : Part(script, g, q)[i] = script[g + i]
          BY <1>2, <5>1, PartFacts, SMTT(30)
        <5>. QED
          BY <5>1, <5>2
      <4>3. <<script[q]>> \in Seq(Bytes)
        BY <1>2, <1>5
      <4>. QED
        BY <4>1, <4>2, <4>3, SeqEqual
    <3>6. reader.buffer \o d.text = Part(script, k, g)
      BY <1>1, <1>2, <3>3, <3>4, PartsJoin DEF Cut
    <3>7. Cut(k, g, q)'
      BY <1>1, <1>2, <1>5, <1>11, <1>12, <2>1, <3>3, <3>5, <3>6 DEF Cut
    <3>. QED
      BY <3>3, <3>7
  <2>2. CASE script[q][1] # "lead"
    <3>1. d = [text |-> whole, held |-> <<>>]
      BY <1>7, <1>9, <1>10, <2>2 DEF Decode, Last
    <3>2. d.held = Part(script, q, q)
      BY <1>5, <3>1, SubSeqEmpty DEF Part
    <3>3. reader.buffer \o d.text = Part(script, k, q)
      BY <1>1, <1>2, <1>5, <1>8, <3>1, PartsJoin DEF Cut
    <3>4. q \in k .. Len(script) /\ q \in q .. Len(script)
      BY <1>2, <1>5
    <3>5. Cut(k, q, q)'
      BY <1>1, <1>2, <1>5, <1>11, <1>12, <3>2, <3>3, <3>4 DEF Cut
    <3>. QED
      BY <1>5, <3>5
  <2>. QED
    BY <2>1, <2>2
<1>14. PICK g \in Nat : Cut(k, g, q)'
  BY <1>13
<1>15. /\ call.op = "stream" /\ result.is # "value" /\ script' \in Seq(Bytes) /\ WellFormed(script')
       /\ reader' = ReaderOf(reader'.held, reader'.buffer, reader'.out)
  BY <1>11, <1>12 DEF CallInv, CallShape, StreamShape
<1>. QED
  BY <1>5, <1>11, <1>14, <1>15, StreamGoesOn

\* No whole line is left.
LEMMA RestKeeps == ASSUME CallInv, KeepRest PROVE CallInv'
<1>1. call' = CallOf(call.op, call.at, "reading", call.attempt)
  BY GoesOn DEF CallInv, KeepRest
<1>2. /\ call.at \in 1 .. 2 /\ call.attempt \in 0 .. MaxRetries + 1 /\ "reading" \in CallPcs
      /\ result'.is # "value"
  BY DEF CallInv, CallShape, StreamShape, CallPcs, KeepRest
<1>. QED
  BY <1>1, <1>2, StillReads DEF KeepRest

\* The stream is over.
LEMMA ClosesKeeps == ASSUME CallInv, Closes PROVE CallInv'
<1>1. ASSUME Ended PROVE reader.out = Said(script)
  <2>1. PICK k, h, r \in Nat : Cut(k, h, r)
    BY DEF CallInv, StreamShape
  <2>2. /\ script \in Seq(Bytes) /\ Len(script) \in Nat /\ DOMAIN script = 1 .. Len(script)
        /\ k \in 0 .. Len(script) /\ h \in k .. Len(script) /\ r \in h .. Len(script)
        /\ \A i \in 1 .. Len(script) : script[i] \in Bytes
    BY <2>1, LenProperties, ElementOfSeq DEF CallInv, StreamShape, Cut
  <2>3. r = Len(script)
    <3>1. r \in 0 .. Len(script) /\ Len(script) \in r .. Len(script)
      BY <2>2
    <3>2. Len(Part(script, r, Len(script))) = Len(script) - r
      BY <2>2, <3>1, PartFacts
    <3>3. Part(script, r, Len(script)) = <<>>
      BY <2>1 DEF Cut, Closes
    <3>4. Len(script) - r = 0
      BY <3>2, <3>3, EmptySeq
    <3>5. \A a, b \in Nat : a - b = 0 => b = a
      OBVIOUS
    <3>. QED
      BY <2>2, <3>4, <3>5
  <2>4. k = Len(script)
    <3>1. CASE script = <<>>
      BY <2>2, <3>1, EmptySeq
    <3>2. CASE script # <<>> /\ Last(script) = Mark("nl")
      <4>1. Len(script) \in 1 .. Len(script)
        BY <2>2, <3>2, EmptySeq
      <4>2. script[Len(script)] = Mark("nl") /\ script[Len(script)][1] # "lead"
        BY <2>2, <3>2, <4>1, BytesAre DEF Last
      <4>3. h = Len(script)
        BY <2>1, <2>2, <2>3, <4>2 DEF Cut
      <4>4. ASSUME k < h PROVE FALSE
        <5>1. h - k \in 1 .. h - k /\ k + (h - k) = h
          BY <2>2, <4>4
        <5>4. /\ Len(Part(script, k, h)) = h - k
              /\ \A i \in 1 .. h - k : Part(script, k, h)[i] = script[k + i]
          BY <2>2, PartFacts
        <5>2. Len(reader.buffer) = h - k /\ reader.buffer[h - k] = script[h]
          BY <2>1, <5>1, <5>4 DEF Cut
        <5>3. Newlines = {}
          BY DEF CallInv, StreamShape, Closes
        <5>. QED
          BY <4>2, <4>3, <5>1, <5>2, <5>3 DEF Newlines
      <4>. QED
        BY <2>2, <4>3, <4>4
    <3>. QED
      BY <1>1, <3>1, <3>2 DEF Ended
  <2>5. \A t \in Trails(script) : t <= k
    BY <2>2, <2>4 DEF Trails
  <2>. QED
    BY <2>1, <2>2, <2>5, HeardIsSaid DEF Cut
<1>. QED
  BY <1>1, SettlingKeeps DEF Closes

\* The stream breaks off.
LEMMA BreakKeeps == ASSUME CallInv, BreaksOff PROVE CallInv'
BY FailureKeeps DEF BreaksOff

\* The first line of the buffer, in terms of the stream.
LEMMA FirstLine ==
  ASSUME CallInv, Newlines # {}, NEW k \in Nat, NEW h \in Nat, NEW r \in Nat, Cut(k, h, r)
  PROVE  \E p \in k + 1 .. h :
           /\ script[p] = Mark("nl") /\ \A j \in k + 1 .. p - 1 : script[j] # Mark("nl")
           /\ Line = Part(script, k, p - 1)
           /\ SubSeq(reader.buffer, Len(Line) + 2, Len(reader.buffer)) = Part(script, p, h)
<1>1. /\ script \in Seq(Bytes) /\ Len(script) \in Nat /\ k \in 0 .. Len(script) /\ h \in k .. Len(script)
      /\ reader.buffer = Part(script, k, h)
  BY LenProperties DEF CallInv, StreamShape, Cut
<1>2. Len(reader.buffer) = h - k /\ \A j \in 1 .. h - k : reader.buffer[j] = script[k + j]
  BY <1>1, PartFacts
<1>3. PICK i : i = CHOOSE x \in Newlines : \A j \in Newlines : x <= j
  OBVIOUS
<1>4. i \in Newlines /\ \A j \in Newlines : i <= j
  <2>1. Newlines \subseteq Nat
    BY DEF Newlines
  <2>2. \E x \in Newlines : \A j \in Newlines : x <= j
    BY <2>1, LeastNumber
  <2>. QED
    BY <1>3, <2>2
<1>5. i \in 1 .. h - k /\ reader.buffer[i] = Mark("nl")
  BY <1>2, <1>4 DEF Newlines
<1>6. ASSUME NEW j \in 1 .. i - 1 PROVE reader.buffer[j] # Mark("nl")
  <2>1. j \in 1 .. h - k /\ ~(i <= j)
    BY <1>1, <1>5
  <2>. QED
    BY <1>2, <1>4, <2>1 DEF Newlines
<1>7. PICK p : p = k + i
  OBVIOUS
<1>8. p \in k + 1 .. h /\ p - 1 = k + (i - 1) /\ i \in 1 .. h - k /\ i - 1 \in 0 .. h - k /\ i \in Nat
  BY <1>1, <1>5, <1>7
<1>9. script[p] = Mark("nl")
  BY <1>2, <1>5, <1>7
<1>10. ASSUME NEW j \in k + 1 .. p - 1 PROVE script[j] # Mark("nl")
  <2>1. j - k \in 1 .. i - 1 /\ j - k \in 1 .. h - k /\ k + (j - k) = j
    BY <1>1, <1>5, <1>7
  <2>. QED
    BY <1>2, <1>6, <2>1
<1>11. Line = Part(script, k, p - 1)
  <2>1. 0 \in 0 .. h - k /\ i - 1 \in 0 .. h - k /\ 0 + 1 = 1 /\ k + 0 = k
    BY <1>1, <1>8
  <2>2. SubSeq(Part(script, k, h), 0 + 1, i - 1) = Part(script, k + 0, k + (i - 1))
    BY <1>1, <2>1, PartOfPart
  <2>3. Line = SubSeq(reader.buffer, 1, i - 1)
    BY <1>3 DEF Line
  <2>. QED
    BY <1>1, <1>8, <2>1, <2>2, <2>3
<1>12. Len(Line) = i - 1
  <2>1. k + (i - 1) \in k .. Len(script) /\ (k + (i - 1)) - k = i - 1
    BY <1>1, <1>5
  <2>2. PICK o : o = k + (i - 1)
    OBVIOUS
  <2>4. k \in 0 .. Len(script) /\ o \in k .. Len(script)
    BY <1>1, <2>1, <2>2
  <2>3. Len(Part(script, k, o)) = o - k
    BY <1>1, <2>4, PartFacts
  <2>. QED
    BY <1>8, <1>11, <2>1, <2>2, <2>3
<1>13. SubSeq(reader.buffer, Len(Line) + 2, Len(reader.buffer)) = Part(script, p, h)
  <2>1. i \in 0 .. h - k /\ h - k \in i .. h - k /\ k + (h - k) = h /\ (i - 1) + 2 = i + 1
    BY <1>1, <1>5
  <2>2. SubSeq(Part(script, k, h), i + 1, h - k) = Part(script, k + i, k + (h - k))
    BY <1>1, <2>1, PartOfPart
  <2>. QED
    BY <1>1, <1>2, <1>7, <1>12, <2>1, <2>2
<1>. QED
  BY <1>8, <1>9, <1>10, <1>11, <1>13

\* What a line adds to the deltas.
LEMMA LineIsHeard ==
  ASSUME script \in Seq(Bytes), WellFormed(script), NEW k \in 0 .. Len(script), NEW p \in k + 1 .. Len(script),
         k = 0 \/ script[k] = Mark("nl"), script[p] = Mark("nl"),
         \A i \in k + 1 .. p - 1 : script[i] # Mark("nl"),
         Line = Part(script, k, p - 1), Heard(script, k, reader.out)
  PROVE  /\ Heard(script, p, IF IsData THEN reader.out \o Deltas ELSE reader.out)
         /\ IsDone => \A t \in Trails(script) : t <= p
<1>. DEFINE T == Trails(script)
<1>1. /\ Len(script) \in Nat /\ k \in Nat /\ p \in Nat /\ DOMAIN script = 1 .. Len(script) /\ T \subseteq 1 .. Len(script)
      /\ \A i \in 1 .. Len(script) : script[i] \in Bytes
  BY LenProperties, ElementOfSeq DEF Trails
<1>2. /\ Line \in Seq(Bytes) /\ Len(Line) = p - 1 - k
      /\ \A i \in 1 .. p - 1 - k : Line[i] = script[k + i]
  <2>1. PICK o : o = p - 1
    OBVIOUS
  <2>2. o \in k .. Len(script)
    BY <1>1, <2>1
  <2>3. /\ Part(script, k, o) \in Seq(Bytes) /\ Len(Part(script, k, o)) = o - k
        /\ \A i \in 1 .. o - k : Part(script, k, o)[i] = script[k + i]
    BY <2>2, PartFacts
  <2>. QED
    BY <2>1, <2>3
<1>3. ASSUME Line # <<>>
      PROVE  /\ p > k + 1 /\ Head(Line) = script[k + 1]
             /\ Payload \in Seq(Bytes) /\ Len(Payload) = p - k - 2
             /\ \A i \in 1 .. Len(Payload) : Payload[i] = script[k + 1 + i] /\ Payload[i] \in Bytes
  <2>1. Len(Line) \in Nat \ {0}
    BY <1>2, <1>3, EmptySeq
  <2>2. p > k + 1 /\ 1 \in 1 .. p - 1 - k
    BY <1>1, <1>2, <2>1
  <2>3. Head(Line) = Line[1]
    BY <1>2, <1>3
  <2>4. /\ Payload \in Seq(Bytes) /\ Len(Payload) = Len(Line) - 1
        /\ \A i \in 1 .. Len(Payload) : Payload[i] = Line[i + 1]
    BY <1>2, <1>3, HeadTailProperties DEF Payload
  <2>5. Len(Payload) = p - k - 2
    BY <1>1, <1>2, <2>4
  <2>6. ASSUME NEW i \in 1 .. Len(Payload) PROVE Payload[i] = script[k + 1 + i] /\ Payload[i] \in Bytes
    <3>1. i + 1 \in 1 .. p - 1 - k /\ k + (i + 1) = k + 1 + i
      BY <1>1, <2>5
    <3>. QED
      BY <1>2, <2>4, <3>1, ElementOfSeq
  <2>. QED
    BY <1>2, <2>2, <2>3, <2>4, <2>5, <2>6
<1>4. /\ \A t \in T : t \in k + 1 .. p =>
           t = k + 3 /\ p = k + 4 /\ script[k + 1] = Mark("data") /\ script[k + 2] = Lead(script[t][2])
      /\ p > k + 2 /\ script[k + 2][1] = "lead" =>
           p = k + 4 /\ k + 3 \in T /\ script[k + 3] = Trail(script[k + 2][2])
  BY LineSays
<1>5. k \in Int /\ p \in Int /\ k <= p
  BY <1>1
<1>6. PICK out : out = reader.out
  OBVIOUS
<1>7. out \in Seq(Nat) /\ Len(out) = Rank(T, k) /\ Len(out) \in Nat
      /\ \A n \in 1 .. Len(out) : \E i \in T : i <= k /\ Rank(T, i) = n /\ out[n] = script[i][2]
  BY <1>6, LenProperties DEF Heard
<1>8. ASSUME IsDone PROVE \A t \in T : t <= p
  <2>1. Line # <<>> /\ Payload = <<Mark("done")>>
    BY <1>8 DEF IsDone, IsData
  <2>2. Len(Payload) = 1 /\ Payload[1] = Mark("done") /\ 1 \in 1 .. Len(Payload) /\ k + 1 + 1 = k + 2
    BY <1>1, <2>1
  <2>3. script[k + 2] = Mark("done") /\ p = k + 3 /\ k + 2 \in 1 .. Len(script)
    BY <1>1, <1>3, <2>1, <2>2
  <2>4. \A t \in T : t < k + 2
    BY <1>1, <2>3 DEF WellFormed
  <2>. QED
    BY <1>1, <2>3, <2>4
<1>9. CASE \A t \in T : t \notin k + 1 .. p
  <2>1. \A t \in T : t <= k \/ t > p
    BY <1>1, <1>9
  <2>2. Rank(T, p) = Rank(T, k)
    <3>1. T \subseteq Int /\ p \in Int /\ k \in Int /\ k <= p
      BY <1>1, <1>5
    <3>. QED
      BY <2>1, <3>1, RankStays
  <2>3. ASSUME IsData PROVE Deltas = <<>>
    <3>1. Line # <<>>
      BY <2>3 DEF IsData
    <3>2. \A i \in 1 .. Len(Payload) : Payload[i] # Mark("bad")
      BY <1>3, <3>1, BytesAre
    <3>3. ~(Len(Payload) = 2 /\ Payload[1][1] = "lead")
      <4>1. SUFFICES ASSUME Len(Payload) = 2, Payload[1][1] = "lead" PROVE FALSE
        OBVIOUS
      <4>2. p > k + 2 /\ k + 1 + 1 = k + 2 /\ 1 \in 1 .. Len(Payload) /\ k + 3 \in k + 1 .. p
        BY <1>1, <1>3, <3>1, <4>1
      <4>3. script[k + 2][1] = "lead"
        BY <1>3, <3>1, <4>1, <4>2
      <4>. QED
        BY <1>4, <1>9, <4>2, <4>3
    <3>. QED
      BY <3>2, <3>3 DEF Deltas
  <2>4. (IF IsData THEN reader.out \o Deltas ELSE reader.out) = out
    BY <1>6, <1>7, <2>3, ConcatEmptySeq
  <2>5. \A i \in T : i <= k => i <= p
    BY <1>1, <1>5
  <2>6. \A n \in 1 .. Len(out) : \E i \in T : i <= p /\ Rank(T, i) = n /\ out[n] = script[i][2]
    BY <1>7, <2>5
  <2>7. Heard(script, p, out)
    BY <1>7, <2>2, <2>6 DEF Heard
  <2>. QED
    BY <1>8, <2>4, <2>7
<1>10. CASE \E t \in T : t \in k + 1 .. p
  <2>1. PICK t \in T : t \in k + 1 .. p
    BY <1>10
  <2>2. t = k + 3 /\ p = k + 4 /\ script[k + 1] = Mark("data") /\ script[k + 2] = Lead(script[t][2])
    BY <1>4, <2>1
  <2>3. Rank(T, p) = Rank(T, k) + 1 /\ Rank(T, t) = Rank(T, p) /\ Rank(T, k) \in Nat
    <3>1. T \subseteq 1 .. Len(script) /\ Len(script) \in Nat /\ p \in Int /\ k \in Int
      BY <1>1, <1>5
    <3>2. ASSUME NEW u \in T PROVE u <= k \/ u > p \/ u = t
      <4>1. u \in k + 1 .. p => u = t
        BY <1>4, <2>2
      <4>. QED
        BY <3>1, <4>1
    <3>3. k < t /\ t <= p
      BY <2>2, <3>1
    <3>4. OnlyPlace(T, k, p, t)
      BY <2>1, <3>2, <3>3 DEF OnlyPlace
    <3>. QED
      BY <3>1, <3>4, RankOfNext
  <2>4. Line # <<>>
    BY <1>1, <1>2, <2>2, EmptySeq
  <2>5. IsData
    BY <1>3, <2>2, <2>4 DEF IsData
  <2>6. PICK x : x = script[t][2]
    OBVIOUS
  <2>7. x \in Nat
    <3>1. script[t] \in Bytes /\ script[t][1] = "trail"
      BY <1>1 DEF Trails
    <3>. QED
      BY <2>6, <3>1 DEF Bytes, Mark
  <2>8. Deltas = <<x>>
    <3>0. p - k - 2 = 2 /\ k + 1 + 1 = k + 2
      BY <1>1, <2>2
    <3>1. Len(Payload) = 2 /\ 1 \in 1 .. Len(Payload)
      <4>1. Len(Payload) = p - k - 2
        BY <1>3, <2>4
      <4>. QED
        BY <3>0, <4>1
    <3>2. Payload[1] = Lead(x)
      BY <1>3, <2>2, <2>4, <2>6, <3>0, <3>1
    <3>3. Payload[1][1] = "lead" /\ Payload[1][2] = x
      BY <3>2 DEF Lead
    <3>. QED
      <4>1. ~\E i \in 1 .. Len(Payload) : Payload[i] = Mark("bad")
        BY <1>3, <2>4, BytesAre
      <4>. QED
        BY <3>1, <3>3, <4>1 DEF Deltas
  <2>9. PICK more : more = out \o <<x>>
    OBVIOUS
  <2>10. /\ more \in Seq(Nat) /\ Len(more) = Len(out) + 1
         /\ \A n \in 1 .. Len(out) : more[n] = out[n]
         /\ more[Len(out) + 1] = x
    BY <1>7, <2>7, <2>9
  <2>11. ASSUME NEW n \in 1 .. Len(more)
         PROVE  \E i \in T : i <= p /\ Rank(T, i) = n /\ more[n] = script[i][2]
    <3>1. CASE n \in 1 .. Len(out)
      <4>1. PICK i \in T : i <= k /\ Rank(T, i) = n /\ out[n] = script[i][2]
        BY <1>7, <3>1
      <4>2. i <= p
        BY <1>1, <1>5, <4>1
      <4>. QED
        BY <2>10, <3>1, <4>1, <4>2
    <3>2. CASE n = Len(out) + 1
      <4>1. t <= p /\ Rank(T, t) = n
        BY <1>1, <1>7, <2>1, <2>3, <3>2
      <4>. QED
        BY <2>6, <2>10, <3>2, <4>1
    <3>. QED
      BY <1>7, <2>10, <3>1, <3>2
  <2>12. Heard(script, p, more)
    BY <1>7, <2>3, <2>10, <2>11 DEF Heard
  <2>13. (IF IsData THEN reader.out \o Deltas ELSE reader.out) = more
    BY <1>6, <2>5, <2>8, <2>9
  <2>. QED
    BY <1>8, <2>12, <2>13
<1>. QED
  BY <1>9, <1>10

\* A line is taken, and with [DONE] the stream is over.
LEMMA LineKeeps == ASSUME CallInv, TakeLine PROVE CallInv'
<1>1. PICK k, h, r \in Nat : Cut(k, h, r)
  BY DEF CallInv, StreamShape
<1>2. PICK p \in k + 1 .. h :
           /\ script[p] = Mark("nl") /\ \A j \in k + 1 .. p - 1 : script[j] # Mark("nl")
           /\ Line = Part(script, k, p - 1)
           /\ SubSeq(reader.buffer, Len(Line) + 2, Len(reader.buffer)) = Part(script, p, h)
  BY <1>1, FirstLine DEF TakeLine
<1>3. /\ script \in Seq(Bytes) /\ WellFormed(script) /\ Len(script) \in Nat
      /\ k \in 0 .. Len(script) /\ h \in k .. Len(script) /\ r \in h .. Len(script)
  BY <1>1, LenProperties DEF CallInv, StreamShape, Cut
<1>4. p \in Nat /\ p \in k + 1 .. Len(script) /\ p \in 0 .. Len(script) /\ h \in p .. Len(script)
  BY <1>2, <1>3
<1>5. PICK more : more = IF IsData THEN reader.out \o Deltas ELSE reader.out
  OBVIOUS
<1>6. Heard(script, p, more) /\ (IsDone => \A t \in Trails(script) : t <= p)
  BY <1>1, <1>2, <1>3, <1>4, <1>5, LineIsHeard DEF Cut
<1>7. IsDone => more = Said(script)
  BY <1>3, <1>4, <1>6, HeardIsSaid
<1>8. reader' = ReaderOf(reader.held, Part(script, p, h), more)
  <2>1. reader' = [reader EXCEPT !.buffer = Part(script, p, h), !.out = more]
    BY <1>2, <1>5 DEF TakeLine, CallInv, StreamShape, ReaderOf
  <2>2. reader = ReaderOf(reader.held, reader.buffer, reader.out)
    BY DEF CallInv, StreamShape
  <2>. QED
    BY <2>1, <2>2, ReaderGets
<1>9. reader'.held = reader.held /\ reader'.buffer = Part(script, p, h) /\ reader'.out = more
      /\ reader' = ReaderOf(reader'.held, reader'.buffer, reader'.out)
  BY <1>8 DEF ReaderOf
<1>10. UNCHANGED <<list, script, wire>> /\ call.pc = "lines"
  BY DEF TakeLine
<1>11. Cut(p, h, r)'
  BY <1>1, <1>2, <1>3, <1>4, <1>6, <1>9, <1>10 DEF Cut
<1>12. call.op = "stream" /\ result.is # "value" /\ call = CallOf(call.op, call.at, "lines", call.attempt)
  BY <1>10 DEF CallInv, CallShape, StreamShape
<1>13. CASE ~IsDone
  <2>1. UNCHANGED <<call, result>>
    BY <1>13 DEF TakeLine
  <2>. QED
    BY <1>3, <1>4, <1>9, <1>10, <1>11, <1>12, <2>1, StreamGoesOn
<1>14. CASE IsDone
  <2>1. Settles("value", "none")
    BY <1>14 DEF TakeLine
  <2>2. call' = CallOf(call.op, call.at, "done", call.attempt)
    BY <2>1, GoesOn DEF Settles, CallInv
  <2>3. call'.op = call.op /\ call'.at = call.at /\ call'.pc = "done" /\ call'.attempt = call.attempt
    BY <2>2 DEF CallOf
  <2>4. CallShape'
    BY <1>10, <2>2, <2>3 DEF CallInv, CallShape, CallPcs
  <2>5. reader'.out = Said(script)'
    BY <1>7, <1>9, <1>10, <1>14 DEF Said
  <2>. QED
    BY <1>3, <1>4, <1>9, <1>10, <1>11, <2>3, <2>4, <2>5 DEF CallInv, StreamShape
<1>. QED
  BY <1>13, <1>14

\* Every step keeps the invariant.
LEMMA CallKeeps == CallInv /\ [CallNext]_callVars => CallInv'
<1>. SUFFICES ASSUME CallInv, [CallNext]_callVars PROVE CallInv'
  OBVIOUS
<1>1. CASE UNCHANGED callVars
  BY <1>1 DEF callVars, CallInv, CallShape, StreamShape, Cut, Newlines, Ended
<1>2. CASE Proceeds
  BY <1>2, ChooseKeeps, EnterKeeps, BackoffKeeps, RecordKeeps, LineKeeps, RestKeeps DEF Proceeds
<1>3. CASE Answers
  BY <1>3, ErrorKeeps, AnswerKeeps, FailureKeeps, OpensKeeps, ChunkKeeps, ClosesKeeps, BreakKeeps
     DEF Answers, FindsNobody
<1>. QED
  BY <1>1, <1>2, <1>3, BeginKeeps DEF CallNext

\* However the network cuts a stream of characters and lines, and wherever it
\* breaks, the deltas come out in the provider's order, none garbled and none
\* twice, and all of them at the end (chatStream in openai-compatible.js).
THEOREM StreamsComeThrough == CallSpec => []StreamsArriveIntact
BY IntactStreams, StartCall, CallKeeps, PTL DEF CallSpec

\* The address of every operation is one that the provider knows when the row
\* was given well, for bases and paths of any length (openAiUrl).
THEOREM AddressesStayKnown == CallSpec => []AddressesAreKnown
BY KnownAddresses, StartCall, CallKeeps, PTL DEF CallSpec

-----------------------------------------------------------------------------
(* ProviderCall.  The requests and their answers.                           *)

Passing == {"timeout", "server_error", "rate_limit"}
Endings == {"auth", "timeout", "server_error", "rate_limit", "bad_response", "network", "answered"}

\* So far every request was due to be repeated.
Going(h) == \A i \in 1 .. Len(h) : Repeats /\ h[i] \in Passing

\* No request is due any more.
Closed(h) ==
  /\ Len(h) <= MaxRetries + 1
  /\ \A i \in 1 .. Len(h) - 1 : Repeats /\ h[i] \in Passing
  /\ Len(h) > 0 /\ Repeats /\ h[Len(h)] \in Passing => Len(h) = MaxRetries + 1

\* attempt counts the requests, the one under way included.
HeardShape ==
  /\ heard \in Seq(Endings)
  /\ call.pc = "sent" => call.attempt = Len(heard) + 1 /\ Going(heard)
  /\ call.pc = "backoff" => call.attempt = Len(heard) /\ Going(heard)
  /\ call.pc \notin {"sent", "backoff"} => Closed(heard)

HeardInv == CallInv /\ HeardShape

\* What the invariant is for.
LEMMA DueRetries == HeardInv => RetriesAreDue
<1>. SUFFICES ASSUME HeardInv PROVE RetriesAreDue
  OBVIOUS
<1>1. Len(heard) \in Nat /\ call.attempt \in 0 .. MaxRetries + 1
  BY DEF HeardInv, HeardShape, CallInv, CallShape
<1>2. CASE call.pc \in {"sent", "backoff"}
  <2>1. Len(heard) <= call.attempt /\ Going(heard)
    BY <1>1, <1>2 DEF HeardInv, HeardShape
  <2>2. Len(heard) <= MaxRetries + 1
    BY <1>1, <2>1, RetriesAssumption
  <2>3. \A i \in 1 .. Len(heard) - 1 : Repeats /\ heard[i] \in Passing
    BY <1>1, <2>1 DEF Going
  <2>. QED
    BY <1>2, <2>2, <2>3 DEF RetriesAreDue, Passing
<1>3. CASE call.pc \notin {"sent", "backoff"}
  BY <1>3 DEF HeardInv, HeardShape, Closed, RetriesAreDue, Passing
<1>. QED
  BY <1>2, <1>3

\* A history of nothing.
LEMMA NothingHeard ==
  ASSUME NEW h, h = <<>> PROVE h \in Seq(Endings) /\ Len(h) = 0 /\ Going(h) /\ Closed(h)
<1>1. h \in Seq(Endings) /\ Len(h) = 0
  BY EmptySeq
<1>. QED
  BY <1>1, RetriesAssumption DEF Going, Closed

\* The end of a request that is not repeated,
LEMMA LastHeard ==
  ASSUME HeardInv, call.pc = "sent", NEW how \in Endings,
         Repeats /\ how \in Passing => call.attempt = MaxRetries + 1
  PROVE  Append(heard, how) \in Seq(Endings) /\ Closed(Append(heard, how))
<1>1. heard \in Seq(Endings) /\ Len(heard) \in Nat /\ call.attempt = Len(heard) + 1 /\ Going(heard)
  BY DEF HeardInv, HeardShape
<1>2. PICK h : h = Append(heard, how)
  OBVIOUS
<1>3. /\ h \in Seq(Endings) /\ Len(h) = Len(heard) + 1 /\ h[Len(heard) + 1] = how
      /\ \A i \in 1 .. Len(heard) : h[i] = heard[i]
  BY <1>1, <1>2, AppendProperties
<1>4. Len(h) <= MaxRetries + 1
  BY <1>1, <1>3 DEF HeardInv, CallInv, CallShape
<1>5. Len(h) - 1 = Len(heard) /\ Len(h) = call.attempt
  BY <1>1, <1>3
<1>6. \A i \in 1 .. Len(h) - 1 : Repeats /\ h[i] \in Passing
  BY <1>1, <1>3, <1>5 DEF Going
<1>7. h[Len(h)] = how
  BY <1>3
<1>. QED
  BY <1>2, <1>3, <1>4, <1>5, <1>6, <1>7 DEF Closed

\* and of one that is.
LEMMA MoreHeard ==
  ASSUME HeardInv, call.pc = "sent", Repeats, NEW how \in Passing
  PROVE  /\ Append(heard, how) \in Seq(Endings) /\ Going(Append(heard, how))
         /\ Len(Append(heard, how)) = call.attempt
<1>1. heard \in Seq(Endings) /\ Len(heard) \in Nat /\ call.attempt = Len(heard) + 1 /\ Going(heard)
  BY DEF HeardInv, HeardShape
<1>2. how \in Endings
  BY DEF Passing, Endings
<1>3. PICK h : h = Append(heard, how)
  OBVIOUS
<1>4. /\ h \in Seq(Endings) /\ Len(h) = Len(heard) + 1 /\ h[Len(heard) + 1] = how
      /\ \A i \in 1 .. Len(heard) : h[i] = heard[i]
  BY <1>1, <1>2, <1>3, AppendProperties
<1>5. \A i \in 1 .. Len(h) : i \in 1 .. Len(heard) \/ i = Len(heard) + 1
  BY <1>1, <1>4
<1>6. Going(h)
  BY <1>1, <1>4, <1>5 DEF Going
<1>. QED
  BY <1>1, <1>3, <1>4, <1>6

\* A step between two requests, or after them.
LEMMA StillClosed ==
  ASSUME HeardInv, CallInv', call.pc \notin {"sent", "backoff"}, UNCHANGED heard,
         call'.op = call.op, call'.pc \notin {"sent", "backoff"}
  PROVE  HeardInv'
BY DEF HeardInv, HeardShape, Closed, Repeats

\* A failure or an answer leads neither into a request nor into a pause.
LEMMA EndsOf ==
  ASSUME CallShape
  PROVE  /\ \A kind : Fails(kind) => call'.op = call.op /\ call'.pc \in {"choose", "done"}
         /\ \A is, kind : Settles(is, kind) => call'.op = call.op /\ call'.pc = "done"
         /\ \A next : Goes(next) => call'.op = call.op /\ call'.pc = next /\ call'.attempt = call.attempt
<1>1. ASSUME NEW kind, Fails(kind) PROVE call'.op = call.op /\ call'.pc \in {"choose", "done"}
  BY <1>1, FailsTo DEF CallOf
<1>2. ASSUME NEW is, NEW kind, Settles(is, kind) PROVE call'.op = call.op /\ call'.pc = "done"
  BY <1>2, GoesOn DEF Settles, CallOf
<1>3. ASSUME NEW next, Goes(next)
      PROVE call'.op = call.op /\ call'.pc = next /\ call'.attempt = call.attempt
  BY <1>3, GoesOn DEF CallOf
<1>. QED
  BY <1>1, <1>2, <1>3

\* The end of a request after which nothing is asked of this candidate.
LEMMA EndsClosed ==
  ASSUME HeardInv, CallInv', call.pc = "sent", NEW how \in Endings, Hears(how),
         call'.op = call.op, call'.pc \notin {"sent", "backoff"},
         Repeats /\ how \in Passing => call.attempt = MaxRetries + 1
  PROVE  HeardInv'
<1>1. PICK h : h = Append(heard, how)
  OBVIOUS
<1>2. h \in Seq(Endings) /\ Closed(h)
  BY <1>1, LastHeard
<1>3. heard' = h
  BY <1>1 DEF Hears
<1>4. heard' \in Seq(Endings) /\ Closed(heard)'
  BY <1>2, <1>3 DEF Closed, Repeats
<1>. QED
  BY <1>4 DEF HeardInv, HeardShape

\* An answer with an error status is repeated when that is due.
LEMMA ErrorIsHeard ==
  ASSUME HeardInv, CallInv', NEW status \in Statuses, AnswersError(status) PROVE HeardInv'
<1>. DEFINE kind == Classify(status)
<1>1. CallShape /\ call.pc = "sent" /\ Hears(kind)
  BY DEF HeardInv, CallInv, AnswersError
<1>2. kind \in Endings
  BY DEF Statuses, Classify, Endings
<1>. HIDE DEF kind
<1>3. CASE Repeats /\ Retries(kind)
  <2>1. Goes("backoff")
    BY <1>3 DEF AnswersError, kind
  <2>2. kind \in Passing
    BY <1>3 DEF Retries, Transient, Passing, kind, Classify, Statuses
  <2>3. call'.op = call.op /\ call'.pc = "backoff" /\ call'.attempt = call.attempt
    BY <1>1, <2>1, EndsOf
  <2>4. PICK h : h = Append(heard, kind)
    OBVIOUS
  <2>5. h \in Seq(Endings) /\ Going(h) /\ Len(h) = call.attempt
    BY <1>1, <1>3, <2>2, <2>4, MoreHeard
  <2>6. heard' = h
    BY <1>1, <2>4 DEF Hears
  <2>7. heard' \in Seq(Endings) /\ Going(heard)' /\ Len(heard') = call'.attempt
    BY <2>3, <2>5, <2>6 DEF Going, Repeats
  <2>. QED
    BY <2>3, <2>7 DEF HeardInv, HeardShape
<1>4. CASE ~(Repeats /\ Retries(kind))
  <2>1. Fails(kind)
    BY <1>4 DEF AnswersError, kind
  <2>2. call'.op = call.op /\ call'.pc \notin {"sent", "backoff"}
    BY <1>1, <2>1, EndsOf
  <2>3. Repeats /\ kind \in Passing => call.attempt = MaxRetries + 1
    BY <1>1, <1>4, RetriesAssumption DEF Retries, Transient, Passing, CallShape
  <2>. QED
    BY <1>1, <1>2, <2>2, <2>3, EndsClosed
<1>. QED
  BY <1>3, <1>4

\* Every step keeps it.
LEMMA HeardKeeps == HeardInv /\ [CallNext]_callVars => HeardInv'
<1>. SUFFICES ASSUME HeardInv, [CallNext]_callVars PROVE HeardInv'
  OBVIOUS
<1>1. CallInv' /\ CallShape
  BY CallKeeps DEF HeardInv, CallInv
<1>2. CASE UNCHANGED callVars
  BY <1>1, <1>2 DEF callVars, HeardInv, HeardShape, Going, Closed, Repeats
<1>3. ASSUME NEW op \in Ops, Begin(op) PROVE HeardInv'
  <2>1. heard' = <<>> /\ call'.pc = "choose"
    BY <1>3 DEF Begin
  <2>2. heard' \in Seq(Endings) /\ Closed(heard)'
    BY <2>1, EmptySeq, RetriesAssumption DEF Closed
  <2>. QED
    BY <1>1, <2>1, <2>2 DEF HeardInv, HeardShape
<1>4. CASE Choose
  BY <1>1, <1>4, EndsOf, StillClosed DEF Choose
<1>5. CASE Enter
  <2>1. CASE heard' = heard /\ ((\E kind : Fails(kind)) \/ (\E is, kind : Settles(is, kind)))
    <3>1. call'.op = call.op /\ call'.pc \in {"choose", "done"}
      BY <1>1, <2>1, EndsOf
    <3>. QED
      BY <1>1, <1>5, <2>1, <3>1, StillClosed DEF Enter
  <2>2. CASE heard' = <<>> /\ call' = [call EXCEPT !.pc = "sent", !.attempt = 1]
    <3>1. call'.pc = "sent" /\ call'.attempt = 1
      BY <1>1, <2>2 DEF CallShape, CallOf
    <3>2. heard' \in Seq(Endings) /\ Len(heard') = 0 /\ Going(heard)'
      BY <2>2, EmptySeq DEF Going
    <3>. QED
      BY <1>1, <3>1, <3>2 DEF HeardInv, HeardShape
  <2>. QED
    BY <1>5, <2>1, <2>2 DEF Enter
<1>6. CASE BackoffEnds
  <2>1. call'.op = call.op /\ call'.pc = "sent" /\ call'.attempt = call.attempt + 1
    BY <1>1, <1>6 DEF BackoffEnds, CallShape, CallOf
  <2>2. heard' = heard /\ call.pc = "backoff"
    BY <1>6 DEF BackoffEnds
  <2>. QED
    BY <1>1, <2>1, <2>2 DEF HeardInv, HeardShape, Going, Repeats
<1>7. CASE Recorded
  BY <1>1, <1>7, EndsOf, StillClosed DEF Recorded
<1>8. CASE TakeLine
  BY <1>1, <1>8, EndsOf, StillClosed DEF TakeLine
<1>9. CASE KeepRest
  BY <1>1, <1>9, EndsOf, StillClosed DEF KeepRest
<1>10. ASSUME NEW status \in Statuses, AnswersError(status) PROVE HeardInv'
  BY <1>1, <1>10, ErrorIsHeard
<1>11. ASSUME NEW body, AnswersWell(body) PROVE HeardInv'
  <2>1. call.pc = "sent" /\ Hears("answered") /\ "answered" \in Endings /\ "answered" \notin Passing
    BY <1>11 DEF AnswersWell, Endings, Passing
  <2>2. (\E kind : Fails(kind)) \/ (\E is, kind : Settles(is, kind)) \/ Goes("record")
    BY <1>11 DEF AnswersWell
  <2>3. call'.op = call.op /\ call'.pc \in {"choose", "done", "record"}
    BY <1>1, <2>2, EndsOf
  <2>. QED
    BY <1>1, <2>1, <2>3, EndsClosed
<1>12. CASE FindsNobody
  <2>1. call.pc = "sent" /\ Hears("network") /\ "network" \in Endings /\ "network" \notin Passing
    BY <1>12 DEF FindsNobody, Endings, Passing
  <2>2. call'.op = call.op /\ call'.pc \in {"choose", "done"}
    BY <1>1, <1>12, EndsOf DEF FindsNobody
  <2>. QED
    BY <1>1, <2>1, <2>2, EndsClosed
<1>13. ASSUME NEW s \in Scripts, Opens(s) PROVE HeardInv'
  <2>1. call.pc = "sent" /\ Hears("answered") /\ "answered" \in Endings /\ "answered" \notin Passing
    BY <1>13 DEF Opens, Endings, Passing
  <2>2. call'.op = call.op /\ call'.pc = "reading"
    BY <1>1, <1>13, EndsOf DEF Opens
  <2>. QED
    BY <1>1, <2>1, <2>2, EndsClosed
<1>14. ASSUME NEW n \in 1 .. Len(wire), Chunk(n) PROVE HeardInv'
  BY <1>1, <1>14, EndsOf, StillClosed DEF Chunk
<1>15. CASE Closes
  BY <1>1, <1>15, EndsOf, StillClosed DEF Closes
<1>16. CASE BreaksOff
  BY <1>1, <1>16, EndsOf, StillClosed DEF BreaksOff
<1>. QED
  BY <1>2, <1>3, <1>4, <1>5, <1>6, <1>7, <1>8, <1>9, <1>10, <1>11, <1>12, <1>13, <1>14, <1>15, <1>16
     DEF CallNext, Proceeds, Answers

\* Nothing is heard before a call.
LEMMA HeardInit == CallInit => HeardInv
<1>. SUFFICES ASSUME CallInit PROVE HeardInv
  OBVIOUS
<1>1. heard = <<>> /\ call.pc = "idle"
  BY DEF CallInit
<1>. QED
  BY <1>1, NothingHeard, StartCall DEF HeardInv, HeardShape

\* A provider is asked again after errors that may pass only, and MaxRetries
\* times unless something else comes first (requestJson).
THEOREM RetriesStayDue == CallSpec => []RetriesAreDue
BY DueRetries, HeardInit, HeardKeeps, PTL DEF CallSpec
=============================================================================
