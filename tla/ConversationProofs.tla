--------------------------- MODULE ConversationProofs ---------------------------
(***************************************************************************)
(* The types of Conversation, that its transcript is the longest end of    *)
(* the record that both limits allow, and that a tab whose turns are over  *)
(* shows what a reload would, for any limits.                              *)
(***************************************************************************)
EXTENDS ConversationLists

-----------------------------------------------------------------------------
(* The record.                                                              *)

(* What is added to it keeps it the longest end.                            *)
LEMMA Recorded ==
  ASSUME IInv, NEW item \in Item, Record(item)
  PROVE  messages' \in Seq(Item) /\ recorded' \in Seq(Item) /\ StoredFits'
<1>1. /\ AddMessage(messages, item) \in Seq(Item) /\ Append(recorded, Cut(item)) \in Seq(Item)
      /\ LongestEnd(AddMessage(messages, item), Append(recorded, Cut(item)))
  BY AddedFits DEF IInv, TypeOK, StoredFits
<1>2. messages' = AddMessage(messages, item) /\ recorded' = Append(recorded, Cut(item))
  BY DEF Record
<1>3. LongestEnd(messages', recorded')
  BY <1>1, <1>2
<1> QED
  BY <1>1, <1>2, <1>3 DEF StoredFits, LongestEnd

(* Prose, a message, and a tool call are items.                             *)
LEMMA ProseIsItem == ASSUME NEW text \in Seq(Numbers) PROVE Prose(text) \in Item
  BY DEF Prose, Item

(* So does what is added behind the prose so far.                           *)
LEMMA FlushedAndRecorded ==
  ASSUME IInv, NEW item \in Item, FlushAndRecord(item)
  PROVE  messages' \in Seq(Item) /\ recorded' \in Seq(Item) /\ StoredFits'
<1>1. CASE pending = <<>>
  BY <1>1, Recorded DEF FlushAndRecord
<1>2. CASE pending # <<>>
  <2> DEFINE prose == Prose(pending)
             list == AddMessage(messages, prose)
             record == Append(recorded, Cut(prose))
  <2>1. prose \in Item
    BY ProseIsItem DEF IInv, TypeOK
  <2>2. list \in Seq(Item) /\ record \in Seq(Item) /\ LongestEnd(list, record)
    BY <2>1, AddedFits DEF IInv, TypeOK, StoredFits
  <2>3. messages' = AddMessage(list, item) /\ recorded' = Append(record, Cut(item))
    BY <1>2 DEF FlushAndRecord
  <2> HIDE DEF list, record
  <2>4. messages' \in Seq(Item) /\ recorded' \in Seq(Item) /\ LongestEnd(messages', recorded')
    BY <2>2, <2>3, AddedFits
  <2> QED
    BY <2>4 DEF StoredFits, LongestEnd
<1> QED
  BY <1>1, <1>2

(* A new number is one, and so are the items that carry it.                 *)
LEMMA NumberGiven ==
  ASSUME IInv, Number
  PROVE  /\ numbers' \in 1 .. MaxNumbers /\ numbers' = numbers + 1 /\ numbers \in Nat
         /\ User(numbers') \in Item /\ Tool(numbers') \in Item
<1>1. numbers \in 0 .. MaxNumbers /\ numbers < MaxNumbers /\ numbers' = numbers + 1
  BY DEF IInv, TypeOK, Number
<1>2. numbers' \in 1 .. MaxNumbers
  BY <1>1, ConversationAssumption
<1>3. <<numbers', numbers'>> \in Seq(Numbers) /\ <<numbers'>> \in Seq(Numbers)
  BY <1>2 DEF Numbers
<1> QED
  BY <1>1, <1>2, <1>3 DEF User, Tool, Item

(* The empty conversation.                                                  *)
LEMMA InitIInv == Init => IInv
<1> SUFFICES ASSUME Init PROVE IInv
  OBVIOUS
<1>1. <<>> \in Seq(Item) /\ <<>> \in Seq(Numbers) /\ <<>> \in Seq(Events)
  BY EmptySeq
<1>2. /\ turn \in {"none", "page", "other"} /\ messages \in Seq(Item) /\ recorded \in Seq(Item)
      /\ pending \in Seq(Numbers) /\ wire \in Seq(Events) /\ numbers \in 0 .. MaxNumbers
      /\ items \in Seq(Item) /\ segment = "none" /\ stream = "none" /\ asked \in 0 .. numbers
      /\ beats \subseteq {"sent", "active", "idle"} /\ loads \subseteq Load
      /\ troubles \in 0 .. MaxTroubles
  BY <1>1, ConversationAssumption DEF Init
<1>3. ~running /\ ~busy /\ ~remoteBusy /\ ~ended /\ ~lacking
      /\ running \in BOOLEAN /\ busy \in BOOLEAN /\ remoteBusy \in BOOLEAN
      /\ ended \in BOOLEAN /\ lacking \in BOOLEAN
  BY Zenon DEF Init
<1>4. TypeOK
  BY <1>2, <1>3 DEF TypeOK
<1>5. From(<<>>, 1) = <<>> /\ Len(<<>>) = 0 /\ DOMAIN <<>> = {}
  BY EmptySeq, SubSeqEmpty DEF From
<1>6. StoredFits
  BY <1>5, EmptyFits DEF Init, StoredFits, LongestEnd
<1>7. StreamInv
  BY <1>3, <1>5 DEF Init, StreamInv
<1>8. NumbersInv
  BY <1>5 DEF Init, NumbersInv
<1>9. TabInv
  <2>1. View = [items |-> <<>>, segment |-> "none"]
    BY DEF Init, View
  <2>2. View \in Views
    BY <1>1, <2>1 DEF Views
  <2>3. Finally(View, wire) = View
    BY <2>2, FinallyNothing DEF Init
  <2>4. ShowsEnd(<<>>, <<>>, <<>>)
    BY <1>5, ShownNothing DEF ShowsEnd
  <2>5. ReadAhead
    BY <1>3, <2>1, <2>3, <2>4 DEF Init, ReadAhead
  <2> QED
    BY <2>5 DEF Init, TabInv, Follows
<1> QED
  BY <1>4, <1>6, <1>7, <1>8, <1>9 DEF IInv

(* The transcript stays the longest end of the record.                      *)
LEMMA StoreKept ==
  ASSUME IInv, [Next]_vars
  PROVE  messages' \in Seq(Item) /\ recorded' \in Seq(Item) /\ StoredFits'
<1> DEFINE Kept == messages' \in Seq(Item) /\ recorded' \in Seq(Item) /\ StoredFits'
<1>1. ASSUME UNCHANGED storeVars PROVE Kept
  BY <1>1 DEF IInv, TypeOK, StoredFits, storeVars
<1>2. ASSUME Accept PROVE Kept
  <2>1. CASE turn = "none"
    <3>1. Record(User(asked)) /\ stream = "sent"
      BY <1>2, <2>1 DEF Accept
    <3>2. asked \in 1 .. MaxNumbers
      BY <3>1, ConversationAssumption DEF IInv, TypeOK, StreamInv
    <3>3. <<asked, asked>> \in Seq(Numbers)
      BY <3>2 DEF Numbers
    <3>4. User(asked) \in Item
      BY <3>3 DEF User, Item
    <3> QED
      BY <3>1, <3>4, Recorded
  <2>2. CASE turn # "none"
    BY <1>1, <1>2, <2>2 DEF Accept
  <2> QED
    BY <2>1, <2>2
<1>3. ASSUME OtherBegins PROVE Kept
  BY <1>3, NumberGiven, Recorded DEF OtherBegins
<1>4. ASSUME UseTool PROVE Kept
  BY <1>4, NumberGiven, FlushedAndRecorded DEF UseTool
<1>5. ASSUME AgentEnds PROVE Kept
  <2>1. CASE pending = <<>>
    BY <1>1, <1>5, <2>1 DEF AgentEnds, Flush
  <2>2. CASE pending # <<>>
    <3>1. Record(Prose(pending))
      BY <1>5, <2>2 DEF AgentEnds, Flush
    <3>2. Prose(pending) \in Item
      BY ProseIsItem DEF IInv, TypeOK
    <3> QED
      BY <3>1, <3>2, Recorded
  <2> QED
    BY <2>1, <2>2
<1>6. ASSUME NEW load \in loads, AnswerLoad(load) \/ ReceiveLoad(load) PROVE Kept
  BY <1>1, <1>6 DEF AnswerLoad, ReceiveLoad
<1>7. ASSUME NEW answer \in {"active", "idle"}, ReceiveBeat(answer) PROVE Kept
  BY <1>1, <1>7 DEF ReceiveBeat
<1>8. CASE \/ Text \/ ReleaseTurn \/ AnswerBeat \/ Submit \/ Read \/ StreamBreaks \/ Beat
           \/ CountdownEnds \/ Reload \/ UNCHANGED vars
  BY <1>1, <1>8 DEF Text, ReleaseTurn, AnswerBeat, Submit, Read, StreamBreaks, Beat,
     CountdownEnds, Reload, vars
<1> QED
  BY <1>2, <1>3, <1>4, <1>5, <1>6, <1>7, <1>8 DEF Next

-----------------------------------------------------------------------------
(* The types.                                                               *)

(* The worker's side: turns, prose, events and numbers.                     *)
LEMMA TurnsKept ==
  ASSUME IInv, [Next]_vars
  PROVE  /\ turn' \in {"none", "page", "other"} /\ running' \in BOOLEAN
         /\ pending' \in Seq(Numbers)
         /\ numbers \in Nat /\ numbers' \in 0 .. MaxNumbers /\ numbers <= numbers'
<1> DEFINE Kept == /\ turn' \in {"none", "page", "other"} /\ pending' \in Seq(Numbers)
                   /\ numbers \in Nat /\ numbers' \in 0 .. MaxNumbers /\ numbers <= numbers'
<1>1. /\ turn \in {"none", "page", "other"} /\ pending \in Seq(Numbers)
      /\ numbers \in 0 .. MaxNumbers /\ numbers \in Nat
  BY DEF IInv, TypeOK
<1>2. ASSUME UNCHANGED <<turn, pending, numbers>> PROVE Kept
  BY <1>1, <1>2
<1>3. ASSUME UNCHANGED <<turn, pending>>, Number PROVE Kept
  BY <1>1, <1>3, NumberGiven
<1>4. ASSUME Accept PROVE Kept
  BY <1>1, <1>4 DEF Accept, turnVars
<1>5. ASSUME OtherBegins PROVE Kept
  BY <1>1, <1>5, NumberGiven DEF OtherBegins
<1>6. ASSUME Text PROVE Kept
  <2>1. numbers' \in Numbers
    BY <1>6, NumberGiven DEF Text, Numbers
  <2>2. pending' \in Seq(Numbers)
    BY <1>1, <1>6, <2>1 DEF Text
  <2>3. Number /\ turn' = turn
    BY <1>6 DEF Text, turnVars
  <2> QED
    BY <1>1, <2>2, <2>3, NumberGiven
<1>7. ASSUME UseTool PROVE Kept
  <2>1. Number /\ turn' = turn /\ pending' = <<>>
    BY <1>7 DEF UseTool, turnVars
  <2> QED
    BY <1>1, <2>1, NumberGiven, EmptySeq
<1>8. ASSUME AgentEnds PROVE Kept
  BY <1>1, <1>8, EmptySeq DEF AgentEnds
<1>9. ASSUME ReleaseTurn PROVE Kept
  BY <1>1, <1>9 DEF ReleaseTurn
<1>10. ASSUME Submit PROVE Kept
  BY <1>3, <1>10 DEF Submit, turnVars
<1>11. ASSUME StreamBreaks \/ Reload PROVE Kept
  <2>1. turn' \in {turn, "other"} /\ UNCHANGED <<pending, numbers>>
    BY <1>11 DEF StreamBreaks, Reload
  <2> QED
    BY <1>1, <2>1
<1>12. ASSUME NEW load \in loads, AnswerLoad(load) \/ ReceiveLoad(load) PROVE Kept
  BY <1>2, <1>12 DEF AnswerLoad, ReceiveLoad, turnVars
<1>13. ASSUME NEW answer \in {"active", "idle"}, ReceiveBeat(answer) PROVE Kept
  BY <1>2, <1>13 DEF ReceiveBeat, turnVars
<1>14. ASSUME AnswerBeat \/ Read \/ Beat \/ CountdownEnds \/ UNCHANGED vars PROVE Kept
  BY <1>2, <1>14 DEF AnswerBeat, Read, Beat, CountdownEnds, vars, turnVars
<1>15. Kept
  BY <1>4, <1>5, <1>6, <1>7, <1>8, <1>9, <1>10, <1>11, <1>12, <1>13, <1>14 DEF Next
<1>16. running' \in BOOLEAN
  <2>1. running' = TRUE \/ running' = FALSE \/ running' = running
    BY Zenon DEF Next, Accept, OtherBegins, Text, UseTool, AgentEnds, ReleaseTurn, AnswerBeat,
       Submit, Read, StreamBreaks, Beat, CountdownEnds, Reload, AnswerLoad, ReceiveLoad,
       ReceiveBeat, turnVars, vars
  <2> QED
    BY Zenon, <2>1 DEF IInv, TypeOK
<1> QED
  BY <1>15, <1>16

(* What is on its way to the tab.                                           *)
LEMMA WireKept ==
  ASSUME IInv, [Next]_vars
  PROVE  /\ wire' \in Seq(Events) /\ beats' \subseteq {"sent", "active", "idle"}
         /\ loads' \subseteq Load /\ troubles' \in 0 .. MaxTroubles
<1> DEFINE Kept == wire' \in Seq(Events)
           Rest == /\ beats' \subseteq {"sent", "active", "idle"} /\ loads' \subseteq Load
                   /\ troubles' \in 0 .. MaxTroubles
<1>1. /\ wire \in Seq(Events) /\ <<>> \in Seq(Events)
      /\ beats \subseteq {"sent", "active", "idle"} /\ loads \subseteq Load
      /\ troubles \in 0 .. MaxTroubles
  BY EmptySeq DEF IInv, TypeOK
<1>2. Event("error", 0) \in Events /\ Event("done", 0) \in Events
  BY DEF Event, Events
<1>3. ASSUME NEW event \in Events, Sent(event) PROVE Kept
  BY <1>1, <1>3 DEF Sent
<1>4. ASSUME Number
      PROVE  Event("text", numbers') \in Events /\ Event("tool", numbers') \in Events
  BY <1>4, NumberGiven DEF Event, Events, Numbers
<1>5. ASSUME \/ UNCHANGED wire
             \/ wire' = <<>>
             \/ wire # <<>> /\ wire' = Tail(wire)
             \/ wire' = <<Event("error", 0), Event("done", 0)>>
             \/ Sent(Event("error", 0)) \/ Sent(Event("done", 0))
             \/ Number /\ Sent(Event("text", numbers'))
             \/ Number /\ Sent(Event("tool", numbers'))
      PROVE  Kept
  <2>1. CASE UNCHANGED wire \/ wire' = <<>>
    BY <1>1, <2>1
  <2>2. CASE wire # <<>> /\ wire' = Tail(wire)
    BY <1>1, <2>2, HeadTailProperties
  <2>3. CASE wire' = <<Event("error", 0), Event("done", 0)>>
    BY <1>2, <2>3
  <2> QED
    BY <1>2, <1>3, <1>4, <1>5, <2>1, <2>2, <2>3
<1>6. \/ UNCHANGED wire
      \/ wire' = <<>>
      \/ wire # <<>> /\ wire' = Tail(wire)
      \/ wire' = <<Event("error", 0), Event("done", 0)>>
      \/ Sent(Event("error", 0)) \/ Sent(Event("done", 0))
      \/ Number /\ Sent(Event("text", numbers'))
      \/ Number /\ Sent(Event("tool", numbers'))
  <2>1. CASE \/ Accept \/ OtherBegins \/ Text \/ UseTool \/ AgentEnds \/ ReleaseTurn
             \/ AnswerBeat \/ Submit \/ StreamBreaks \/ Beat \/ CountdownEnds \/ Reload
             \/ UNCHANGED vars
    BY <2>1 DEF Accept, OtherBegins, Text, UseTool, AgentEnds, ReleaseTurn, AnswerBeat, Submit,
       StreamBreaks, StreamEnds, Beat, CountdownEnds, Reload, vars
  <2>2. CASE Read
    <3>1. Head(wire) \in Events /\ wire # <<>>
      BY <1>1, <2>2, HeadTailProperties DEF Read
    <3>2. Head(wire).event \in {"text", "tool", "error", "done"}
      BY <3>1 DEF Events
    <3> QED
      BY <2>2, <3>1, <3>2 DEF Read, StreamEnds
  <2>3. CASE \E load \in loads : AnswerLoad(load) \/ ReceiveLoad(load)
    BY <2>3 DEF AnswerLoad, ReceiveLoad
  <2>4. CASE \E answer \in {"active", "idle"} : ReceiveBeat(answer)
    BY <2>4 DEF ReceiveBeat
  <2> QED
    BY <2>1, <2>2, <2>3, <2>4 DEF Next
<1>7. LoadHistory(TRUE) \in Load /\ LoadHistory(FALSE) \in Load
  BY EmptySeq DEF LoadHistory, Load
<1>8. ASSUME NEW load \in loads, AnswerLoad(load) \/ ReceiveLoad(load) PROVE Rest
  <2>1. CASE AnswerLoad(load)
    <3>1. [load EXCEPT !.answered = TRUE, !.messages = messages] \in Load
      BY <1>1 DEF Load, IInv, TypeOK
    <3> QED
      BY <1>1, <2>1, <3>1 DEF AnswerLoad
  <2>2. CASE ReceiveLoad(load)
    BY <1>1, <2>2 DEF ReceiveLoad
  <2> QED
    BY <1>8, <2>1, <2>2
<1>9. ASSUME NEW answer \in {"active", "idle"}, ReceiveBeat(answer) PROVE Rest
  <2>1. loads' = loads \/ loads' = loads \cup {LoadHistory(TRUE)}
    BY <1>9 DEF ReceiveBeat
  <2> QED
    BY <1>1, <1>7, <1>9, <2>1 DEF ReceiveBeat
<1>10. ASSUME UNCHANGED loads, UNCHANGED troubles, UNCHANGED beats \/ beats' = beats \cup {"sent"}
       PROVE  Rest
  BY <1>1, <1>10
<1>11. ASSUME \/ Accept \/ OtherBegins \/ Text \/ UseTool \/ AgentEnds \/ ReleaseTurn
              \/ Submit \/ UNCHANGED vars
       PROVE  Rest
  BY <1>10, <1>11 DEF Accept, OtherBegins, Text, UseTool, AgentEnds, ReleaseTurn, Submit, vars
<1>12. ASSUME AnswerBeat \/ Beat PROVE Rest
  BY <1>1, <1>12 DEF AnswerBeat, Beat
<1>13. ASSUME Read PROVE Rest
  <2>1. Head(wire) \in Events /\ wire # <<>>
    BY <1>1, <1>13, HeadTailProperties DEF Read
  <2>2. Head(wire).event \in {"text", "tool", "error", "done"}
    BY <2>1 DEF Events
  <2>3. UNCHANGED beats \/ beats' = beats \cup {"sent"}
    BY <1>13, <2>2 DEF Read, StreamEnds
  <2> QED
    BY <1>10, <1>13, <2>3 DEF Read
<1>14. ASSUME Trouble PROVE troubles' \in 0 .. MaxTroubles
  BY <1>1, <1>14, ConversationAssumption DEF Trouble
<1>15. ASSUME StreamBreaks PROVE Rest
  BY <1>1, <1>14, <1>15 DEF StreamBreaks, StreamEnds
<1>16. ASSUME CountdownEnds PROVE Rest
  BY <1>1, <1>14, <1>16 DEF CountdownEnds
<1>17. ASSUME Reload PROVE Rest
  BY <1>1, <1>7, <1>14, <1>17 DEF Reload
<1>18. Rest
  BY <1>8, <1>9, <1>11, <1>12, <1>13, <1>15, <1>16, <1>17 DEF Next
<1> QED
  BY <1>5, <1>6, <1>18

(* The composer's locks: a tab that reads a turn of its own is locked by it alone.       *)
LEMMA LocksKept ==
  ASSUME IInv, [Next]_vars
  PROVE  /\ busy' \in BOOLEAN /\ remoteBusy' \in BOOLEAN
         /\ stream' # "none" => busy' /\ ~remoteBusy'
         /\ remoteBusy' => busy'
         /\ ended' \in BOOLEAN /\ lacking' \in BOOLEAN
<1> DEFINE Locks == /\ busy \in BOOLEAN /\ remoteBusy \in BOOLEAN
                    /\ stream # "none" => busy /\ ~remoteBusy
                    /\ remoteBusy => busy
<1>1. Locks /\ ended \in BOOLEAN /\ lacking \in BOOLEAN
  BY DEF IInv, TypeOK
<1>2. ASSUME UNCHANGED <<stream, busy, remoteBusy>> PROVE Locks'
  BY <1>1, <1>2
<1>3. ASSUME Accept PROVE Locks'
  BY Zenon, <1>1, <1>3, "sent" # "none" DEF Accept, busyVars
<1>4. ASSUME Submit PROVE Locks'
  BY Zenon, <1>1, <1>4 DEF Submit
<1>5. ASSUME Read PROVE Locks'
  <2>1. Head(wire) \in Events /\ wire # <<>>
    BY <1>5, HeadTailProperties DEF Read, IInv, TypeOK
  <2>2. Head(wire).event \in {"text", "tool", "error", "done"}
    BY <2>1 DEF Events
  <2>3. UNCHANGED remoteBusy /\ stream # "none"
    BY <1>5 DEF Read
  <2>4. \/ stream' = stream /\ busy' = busy
        \/ stream' = "none" /\ busy' = FALSE
    <3>1. CASE Head(wire).event = "done"
      BY <1>5, <3>1 DEF Read, StreamEnds
    <3>2. CASE Head(wire).event # "done"
      <4>1. UNCHANGED <<stream, asked, busy, beats>>
        BY <1>5, <2>2, <3>2 DEF Read
      <4>2. stream' = stream /\ busy' = busy
        BY <4>1
      <4> QED
        BY Zenon, <4>2
    <3> QED
      BY <3>1, <3>2
  <2> QED
    BY Zenon, <1>1, <1>2, <2>3, <2>4
<1>6. ASSUME StreamBreaks PROVE Locks'
  <2>1. stream' = "none" /\ busy' = FALSE /\ UNCHANGED remoteBusy /\ stream # "none"
    BY Zenon, <1>6 DEF StreamBreaks, StreamEnds
  <2> QED
    BY Zenon, <1>1, <2>1
<1>7. ASSUME NEW answer \in {"active", "idle"}, ReceiveBeat(answer) PROVE Locks'
  <2>1. \/ ~busy /\ remoteBusy' = TRUE /\ busy' = TRUE
        \/ remoteBusy /\ remoteBusy' = FALSE /\ busy' = FALSE
        \/ UNCHANGED <<busy, remoteBusy>>
    BY Zenon, <1>7 DEF ReceiveBeat, busyVars
  <2>2. UNCHANGED stream
    BY Zenon, <1>7 DEF ReceiveBeat
  <2> QED
    BY Zenon, <1>1, <1>2, <2>1, <2>2
<1>8. ASSUME CountdownEnds PROVE Locks'
  BY Zenon, <1>1, <1>8 DEF CountdownEnds
<1>9. ASSUME Reload PROVE Locks'
  BY Zenon, <1>9 DEF Reload
<1>10. ASSUME NEW load \in loads, AnswerLoad(load) \/ ReceiveLoad(load) PROVE Locks'
  BY <1>2, <1>10 DEF AnswerLoad, ReceiveLoad, busyVars
<1>11. ASSUME \/ OtherBegins \/ Text \/ UseTool \/ AgentEnds \/ ReleaseTurn \/ AnswerBeat \/ Beat
              \/ UNCHANGED vars
       PROVE  Locks'
  BY <1>2, <1>11 DEF OtherBegins, Text, UseTool, AgentEnds, ReleaseTurn, AnswerBeat, Beat, vars,
     busyVars
<1>12. Locks'
  BY <1>3, <1>4, <1>5, <1>6, <1>7, <1>8, <1>9, <1>10, <1>11 DEF Next
<1>13. ended' = TRUE \/ ended' = FALSE \/ ended' = ended
  BY Zenon DEF Next, Accept, OtherBegins, Text, UseTool, AgentEnds, ReleaseTurn, AnswerBeat,
     Submit, Read, StreamBreaks, Beat, CountdownEnds, Reload, AnswerLoad, ReceiveLoad,
     ReceiveBeat, ghostVars, vars
<1>14. lacking' \in BOOLEAN
  <2>1. CASE StreamBreaks
    BY <2>1 DEF StreamBreaks
  <2>2. CASE \E load \in loads : AnswerLoad(load) \/ ReceiveLoad(load)
    BY <1>1, <2>2 DEF AnswerLoad, ReceiveLoad, ghostVars
  <2>3. CASE \/ Accept \/ Text \/ UseTool \/ AgentEnds \/ ReleaseTurn \/ AnswerBeat \/ Submit
             \/ Read \/ Beat \/ CountdownEnds \/ UNCHANGED vars
    BY Zenon, <1>1, <2>3 DEF Accept, Text, UseTool, AgentEnds, ReleaseTurn, AnswerBeat, Submit,
       Read, Beat, CountdownEnds, ghostVars, vars
  <2>4. CASE \E answer \in {"active", "idle"} : ReceiveBeat(answer)
    BY Zenon, <1>1, <2>4 DEF ReceiveBeat, ghostVars
  <2>5. CASE OtherBegins \/ Reload
    BY Zenon, <2>5 DEF OtherBegins, Reload
  <2> QED
    BY <2>1, <2>2, <2>3, <2>4, <2>5 DEF Next
<1> QED
  BY Zenon, <1>1, <1>12, <1>13, <1>14

(* What the tab shows is a view.                                            *)
LEMMA ViewIsView == ASSUME IInv PROVE View \in Views
<1>1. /\ items \in Seq(Item) /\ segment \in {"none", "last", "gone"}
      /\ segment = "last" => items # <<>> /\ Last(items).role = "assistant"
  BY DEF IInv, TypeOK
<1> QED
  BY <1>1 DEF View, Views

(* What the tab shows: the prose that its stream goes on with is the last item, and an   *)
(* assistant's.                                                                          *)
LEMMA TabKept ==
  ASSUME IInv, [Next]_vars
  PROVE  /\ items' \in Seq(Item) /\ segment' \in {"none", "last", "gone"}
         /\ segment' = "last" => items' # <<>> /\ Last(items').role = "assistant"
         /\ stream' \in {"none", "sent", "open"} /\ asked' \in 0 .. numbers'
<1> DEFINE Sees == /\ items \in Seq(Item) /\ segment \in {"none", "last", "gone"}
                   /\ segment = "last" => items # <<>> /\ Last(items).role = "assistant"
           Asks == /\ stream \in {"none", "sent", "open"} /\ asked \in 0 .. numbers
                   /\ stream = "sent" => asked # 0
                   /\ stream # "open" => segment = "none"
           Kept == Sees' /\ Asks'
<1>1. Sees /\ Asks /\ numbers \in Nat /\ numbers' \in Nat /\ numbers <= numbers'
  BY TurnsKept DEF IInv, TypeOK, StreamInv
<1>2. ASSUME UNCHANGED <<items, segment>> PROVE Sees'
  BY <1>1, <1>2
<1>3. ASSUME UNCHANGED <<stream, asked, segment>> PROVE Asks'
  BY <1>1, <1>3
<1>4. ASSUME Accept PROVE Kept
  <2>1. UNCHANGED <<items, segment, numbers>> /\ stream' = "open" /\ asked' = 0
    BY <1>4 DEF Accept
  <2> QED
    BY <1>1, <1>2, <2>1
<1>5. ASSUME Submit PROVE Kept
  <2>1. /\ Number /\ items' = Append(items, User(numbers')) /\ segment' = segment
        /\ stream' = "sent" /\ asked' = numbers'
    BY <1>5 DEF Submit
  <2>2. segment = "none"
    BY <1>5 DEF Submit, IInv, TypeOK, StreamInv
  <2>3. items' \in Seq(Item)
    <3>1. User(numbers') \in Item /\ items \in Seq(Item)
      BY <1>1, <2>1, NumberGiven
    <3> QED
      BY <2>1, <3>1, AppendProperties
  <2>4. asked' \in 0 .. numbers' /\ asked' # 0
    BY <2>1, NumberGiven
  <2> QED
    BY <2>1, <2>2, <2>3, <2>4
<1>6. ASSUME stream' = "none", asked' = 0, segment' = "none" PROVE Asks'
  BY <1>1, <1>6
<1>7. ASSUME items' = <<>>, segment' = "none" PROVE Sees'
  BY <1>7, EmptySeq
<1>8. ASSUME UNCHANGED items, segment' = "none" PROVE Sees'
  BY <1>1, <1>8
<1>9. ASSUME Read PROVE Kept
  <2> DEFINE after == Shows(View, Head(wire))
  <2>1. Head(wire) \in Events /\ stream = "open" /\ UNCHANGED numbers
    BY <1>9, HeadTailProperties DEF Read, IInv, TypeOK
  <2>2. after \in Views
    BY <2>1, ViewIsView, ShowsView
  <2>3. items' = after.items
    BY <1>9 DEF Read
  <2> HIDE DEF after
  <2>4. /\ after.items \in Seq(Item) /\ after.segment \in {"none", "last", "gone"}
        /\ after.segment = "last" => after.items # <<>> /\ Last(after.items).role = "assistant"
    BY <2>2 DEF Views
  <2>5. CASE Head(wire).event = "done"
    <3>1. stream' = "none" /\ asked' = 0 /\ segment' = "none"
      BY <1>9, <2>5 DEF Read, StreamEnds
    <3> QED
      BY <1>6, <2>3, <2>4, <3>1
  <2>6. CASE Head(wire).event # "done"
    <3>1. segment' = after.segment /\ stream' = stream /\ asked' = asked
      BY <1>9, <2>6 DEF Read, after
    <3> QED
      BY <1>1, <2>1, <2>3, <2>4, <3>1
  <2> QED
    BY <2>5, <2>6
<1>10. ASSUME StreamBreaks PROVE Kept
  <2>1. stream' = "none" /\ asked' = 0 /\ segment' = "none" /\ UNCHANGED items
    BY <1>10 DEF StreamBreaks, StreamEnds
  <2> QED
    BY <1>6, <1>8, <2>1
<1>11. ASSUME Reload PROVE Kept
  BY <1>6, <1>7, <1>11 DEF Reload
<1>12. ASSUME NEW load \in loads, AnswerLoad(load) PROVE Kept
  BY <1>2, <1>3, <1>12 DEF AnswerLoad
<1>13. ASSUME NEW load \in loads, ReceiveLoad(load) PROVE Kept
  <2>1. UNCHANGED <<stream, asked>>
    BY <1>13 DEF ReceiveLoad
  <2>2. load.messages \in Seq(Item)
    BY <1>13 DEF IInv, TypeOK, Load
  <2>3. CASE UNCHANGED <<items, segment>>
    BY <1>2, <1>3, <2>1, <2>3
  <2>4. CASE /\ items' = load.messages
             /\ segment' = IF segment = "last" THEN "gone" ELSE segment
    BY <1>1, <2>1, <2>2, <2>4
  <2> QED
    BY <1>13, <2>3, <2>4 DEF ReceiveLoad
<1>14. ASSUME NEW answer \in {"active", "idle"}, ReceiveBeat(answer) PROVE Kept
  BY <1>2, <1>3, <1>14 DEF ReceiveBeat
<1>15. ASSUME \/ OtherBegins \/ Text \/ UseTool \/ AgentEnds \/ ReleaseTurn \/ AnswerBeat \/ Beat
              \/ CountdownEnds \/ UNCHANGED vars
       PROVE  Kept
  BY <1>2, <1>3, <1>15 DEF OtherBegins, Text, UseTool, AgentEnds, ReleaseTurn, AnswerBeat, Beat,
     CountdownEnds, vars
<1>16. Kept
  BY <1>4, <1>5, <1>9, <1>10, <1>11, <1>12, <1>13, <1>14, <1>15 DEF Next
<1>17. Sees' /\ stream' \in {"none", "sent", "open"} /\ asked' \in 0 .. numbers'
  BY <1>16
<1> QED
  BY <1>17

-----------------------------------------------------------------------------
(* The stream.                                                              *)

(* While the gate is this tab's, its stream is open and has not ended; the end, when it  *)
(* comes, comes last.                                                                    *)
LEMMA StreamKept == ASSUME IInv, [Next]_vars PROVE StreamInv'
<1> DEFINE Asks == stream = "sent" => asked # 0
           Closed == stream # "open" => segment = "none" /\ wire = <<>> /\ turn # "page"
           Works == /\ running => turn # "none"
                    /\ ~running => pending = <<>>
           Ends == \A i \in DOMAIN wire : wire[i].event = "done" => i = Len(wire) /\ turn # "page"
           Kept == Asks' /\ Closed' /\ Works' /\ Ends'
<1>1. /\ Asks /\ Closed /\ Works /\ Ends
      /\ wire \in Seq(Events) /\ stream \in {"none", "sent", "open"}
      /\ turn \in {"none", "page", "other"}
      /\ stream # "none" => busy
  BY DEF IInv, TypeOK, StreamInv
<1>2. ASSUME wire' = <<>> PROVE Ends'
  <2>1. DOMAIN wire' = {}
    BY <1>2, EmptySeq
  <2> QED
    BY <2>1
<1>3. ASSUME UNCHANGED wire, turn' = turn \/ turn' # "page" PROVE Ends'
  BY <1>1, <1>3
<1>4. ASSUME NEW event \in Events, Sent(event), turn' = turn \/ turn' # "page",
             event.event = "done" => turn' # "page"
      PROVE  Ends' /\ (turn # "page" => UNCHANGED wire)
  <2>1. CASE turn = "page"
    <3>1. wire' = Append(wire, event)
      BY <1>4, <2>1 DEF Sent
    <3> DEFINE n == Len(wire)
    <3>2. n \in Nat /\ DOMAIN wire = 1 .. n /\ DOMAIN wire' = 1 .. n + 1 /\ Len(wire') = n + 1
          /\ (\A i \in 1 .. n : wire'[i] = wire[i]) /\ wire'[n + 1] = event
      BY <1>1, <3>1, AppendProperties, LenProperties
    <3>3. \A i \in 1 .. n : wire[i].event # "done"
      BY <1>1, <2>1, <3>2
    <3> HIDE DEF n
    <3>4. ASSUME NEW i \in DOMAIN wire', wire'[i].event = "done"
          PROVE  i = n + 1 /\ event.event = "done"
      <4>1. i \notin 1 .. n
        BY <3>2, <3>3, <3>4
      <4>2. i = n + 1
        BY <3>2, <4>1
      <4> QED
        BY <3>2, <3>4, <4>2
    <3>5. Ends'
      BY <1>4, <3>2, <3>4
    <3> QED
      BY <2>1, <3>5
  <2>2. CASE turn # "page"
    <3>1. wire' = wire
      BY <1>4, <2>2 DEF Sent
    <3> QED
      BY <1>3, <1>4, <3>1
  <2> QED
    BY <2>1, <2>2
<1>5. Event("error", 0) \in Events /\ Event("error", 0).event = "error"
      /\ Event("done", 0) \in Events /\ Event("done", 0).event = "done"
  BY DEF Event, Events
<1>6. ASSUME Number
      PROVE  /\ Event("text", numbers') \in Events /\ Event("text", numbers').event = "text"
             /\ Event("tool", numbers') \in Events /\ Event("tool", numbers').event = "tool"
  BY <1>6, NumberGiven DEF Event, Events, Numbers
<1>7. ASSUME UNCHANGED <<turn, running, pending, wire, segment, stream, asked>> PROVE Kept
  <2>1. /\ turn' = turn /\ pending' = pending /\ wire' = wire
        /\ segment' = segment /\ stream' = stream /\ asked' = asked /\ running' = running
    BY <1>7
  <2>2. Works'
    BY Zenon, <1>1, <2>1
  <2> QED
    BY <1>1, <1>3, <2>1, <2>2
<1>8. ASSUME Accept PROVE Kept
  <2>1. stream = "sent" /\ stream' = "open" /\ pending' = pending /\ wire = <<>>
        /\ turn # "page"
    BY <1>1, <1>8 DEF Accept
  <2>2. CASE turn = "none"
    <3>1. turn' = "page" /\ running' /\ wire' = wire
      BY <1>8, <2>2 DEF Accept
    <3>2. Ends'
      BY <1>2, <2>1, <3>1
    <3> QED
      BY <2>1, <3>1, <3>2
  <2>3. CASE turn # "none"
    <3>1. wire' = <<Event("error", 0), Event("done", 0)>> /\ turn' = turn /\ running' = running
      BY <1>8, <2>3 DEF Accept, turnVars
    <3>2. Ends'
      <4> DEFINE e == Event("error", 0)
                 d == Event("done", 0)
      <4> HIDE DEF e, d
      <4>1. wire' = <<e, d>>
        BY <3>1 DEF e, d
      <4>2. DOMAIN wire' = 1 .. 2 /\ Len(wire') = 2 /\ wire'[1] = e
        BY <4>1
      <4>3. e.event # "done"
        BY <1>5 DEF e
      <4>4. \A i \in 1 .. 2 : i = 1 \/ i = 2
        OBVIOUS
      <4> QED
        BY <2>1, <3>1, <4>2, <4>3, <4>4
    <3>3. Works'
      BY Zenon, <1>1, <2>1, <3>1
    <3> QED
      BY <2>1, <3>1, <3>2, <3>3
  <2> QED
    BY <2>2, <2>3
<1>9. ASSUME OtherBegins PROVE Kept
  <2>1. turn' = "other" /\ running' /\ UNCHANGED <<wire, segment, stream, asked>>
    BY <1>9 DEF OtherBegins
  <2> QED
    BY <1>1, <1>3, <2>1
<1>10. ASSUME Text PROVE Kept
  <2>1. /\ running /\ running' = running /\ turn' = turn /\ Number
        /\ Sent(Event("text", numbers')) /\ UNCHANGED <<segment, stream, asked>>
    BY <1>10 DEF Text, turnVars
  <2>2. Ends' /\ (turn # "page" => UNCHANGED wire)
    BY <1>4, <1>6, <2>1
  <2>3. Works'
    BY Zenon, <1>1, <2>1
  <2> QED
    BY <1>1, <2>1, <2>2, <2>3
<1>11. ASSUME UseTool PROVE Kept
  <2>1. /\ running /\ running' = running /\ turn' = turn /\ Number
        /\ Sent(Event("tool", numbers')) /\ UNCHANGED <<segment, stream, asked>>
    BY <1>11 DEF UseTool, turnVars
  <2>2. Ends' /\ (turn # "page" => UNCHANGED wire)
    BY <1>4, <1>6, <2>1
  <2>3. Works'
    BY Zenon, <1>1, <2>1
  <2> QED
    BY <1>1, <2>1, <2>2, <2>3
<1>12. ASSUME AgentEnds PROVE Kept
  <2>1. /\ running' = FALSE /\ pending' = <<>> /\ turn' = turn
        /\ UNCHANGED wire \/ Sent(Event("error", 0))
    BY <1>12 DEF AgentEnds
  <2>2. UNCHANGED <<segment, stream, asked>>
    BY <1>12 DEF AgentEnds
  <2>3. Ends' /\ (turn # "page" => UNCHANGED wire)
    BY <1>3, <1>4, <1>5, <2>1
  <2> QED
    BY <1>1, <2>1, <2>2, <2>3
<1>13. ASSUME ReleaseTurn PROVE Kept
  <2>1. /\ ~running /\ turn' = "none" /\ Sent(Event("done", 0))
        /\ UNCHANGED <<segment, stream, asked, pending>> /\ running' = running
    BY <1>13 DEF ReleaseTurn
  <2>2. Ends' /\ (turn # "page" => UNCHANGED wire)
    BY <1>4, <1>5, <2>1
  <2>3. Works'
    <3>1. pending' = pending
      BY <2>1
    <3> QED
      BY Zenon, <1>1, <2>1, <3>1
  <2> QED
    BY <1>1, <2>1, <2>2, <2>3
<1>14. ASSUME Submit PROVE Kept
  <2>1. /\ ~busy /\ Number /\ stream' = "sent" /\ asked' = numbers'
        /\ UNCHANGED <<turn, pending, wire, segment>> /\ running' = running
    BY <1>14 DEF Submit, turnVars
  <2>2. stream = "none" /\ numbers' # 0
    BY <1>1, <2>1, NumberGiven
  <2>3. Works'
    <3>1. pending' = pending /\ turn' = turn
      BY <2>1
    <3> QED
      BY Zenon, <1>1, <2>1, <3>1
  <2>4. Ends'
    BY <1>3, <2>1
  <2> QED
    BY <1>1, <2>1, <2>2, <2>3, <2>4
<1>15. ASSUME Read PROVE Kept
  <2>1. /\ stream = "open" /\ wire # <<>> /\ pending' = pending
        /\ turn' = turn /\ running' = running
    BY <1>15 DEF Read, turnVars
  <2>2. Works'
    BY Zenon, <1>1, <2>1
  <2> DEFINE n == Len(wire)
  <2>3. n \in Nat \ {0} /\ DOMAIN wire = 1 .. n /\ Head(wire) = wire[1]
        /\ Tail(wire) \in Seq(Events) /\ Len(Tail(wire)) = n - 1
        /\ \A i \in 1 .. n - 1 : Tail(wire)[i] = wire[i + 1]
    <3>1. n \in Nat /\ n # 0 /\ DOMAIN wire = 1 .. n
      BY <1>1, <2>1, LenProperties, EmptySeq
    <3>2. Head(wire) = wire[1]
      BY <1>1, <2>1, HeadTailProperties
    <3>3. Tail(wire) \in Seq(Events) /\ Len(Tail(wire)) = n - 1
          /\ \A i \in 1 .. n - 1 : Tail(wire)[i] = wire[i + 1]
      BY <1>1, <2>1, HeadTailProperties
    <3> QED
      BY <3>1, <3>2, <3>3
  <2>4. CASE Head(wire).event = "done"
    <3>1. stream' = "none" /\ wire' = <<>> /\ segment' = "none"
      BY <1>15, <2>4 DEF Read, StreamEnds
    <3>2. turn # "page"
      <4>1. 1 \in DOMAIN wire /\ wire[1].event = "done"
        BY <2>3, <2>4
      <4> QED
        BY <1>1, <4>1
    <3> QED
      BY <1>2, <2>1, <2>2, <3>1, <3>2
  <2>5. CASE Head(wire).event # "done"
    <3>1. wire' = Tail(wire) /\ stream' = stream /\ asked' = asked
      BY <1>15, <2>5 DEF Read
    <3>2. Len(wire') = n - 1 /\ DOMAIN wire' = 1 .. n - 1
      BY <2>3, <3>1, LenProperties
    <3> HIDE DEF n
    <3>3. ASSUME NEW i \in DOMAIN wire', wire'[i].event = "done"
          PROVE  i = n - 1 /\ turn # "page"
      <4> DEFINE k == i + 1
      <4>1. k \in DOMAIN wire /\ wire'[i] = wire[k]
        BY <2>3, <3>1, <3>2, <3>3
      <4> HIDE DEF k
      <4>2. k = n /\ turn # "page"
        BY <1>1, <3>3, <4>1 DEF n
      <4> QED
        BY <3>2, <4>2 DEF k
    <3>4. Ends'
      BY <2>1, <3>2, <3>3
    <3> QED
      BY <2>1, <2>2, <3>1, <3>4
  <2> QED
    BY <2>4, <2>5
<1>16. ASSUME StreamBreaks PROVE Kept
  <2>1. /\ stream' = "none" /\ wire' = <<>> /\ segment' = "none"
        /\ turn' = IF turn = "page" THEN "other" ELSE turn
        /\ pending' = pending /\ running' = running
    BY <1>16 DEF StreamBreaks, StreamEnds
  <2>2. turn' # "page" /\ (turn # "none" => turn' # "none")
    BY <2>1
  <2>3. Works'
    BY Zenon, <1>1, <2>1, <2>2
  <2> QED
    BY <1>2, <2>1, <2>2, <2>3
<1>17. ASSUME Reload PROVE Kept
  <2>1. /\ stream' = "none" /\ wire' = <<>> /\ segment' = "none"
        /\ turn' = IF turn = "page" THEN "other" ELSE turn
        /\ pending' = pending /\ running' = running
    BY <1>17 DEF Reload
  <2>2. turn' # "page" /\ (turn # "none" => turn' # "none")
    BY <2>1
  <2>3. Works'
    BY Zenon, <1>1, <2>1, <2>2
  <2> QED
    BY <1>2, <2>1, <2>2, <2>3
<1>18. ASSUME NEW load \in loads, ReceiveLoad(load) PROVE Kept
  <2>1. /\ turn' = turn /\ pending' = pending /\ wire' = wire
        /\ stream' = stream /\ asked' = asked /\ running' = running
        /\ segment' = segment \/ segment = "last"
    BY <1>18 DEF ReceiveLoad, turnVars
  <2>2. Works'
    BY Zenon, <1>1, <2>1
  <2> QED
    BY <1>1, <1>3, <2>1, <2>2
<1>19. ASSUME \/ AnswerBeat \/ Beat \/ CountdownEnds \/ UNCHANGED vars
              \/ \E load \in loads : AnswerLoad(load)
              \/ \E answer \in {"active", "idle"} : ReceiveBeat(answer)
       PROVE  Kept
  BY <1>7, <1>19 DEF AnswerBeat, Beat, CountdownEnds, AnswerLoad, ReceiveBeat, vars, turnVars
<1>20. Kept
  BY <1>8, <1>9, <1>10, <1>11, <1>12, <1>13, <1>14, <1>15, <1>16, <1>17, <1>18, <1>19 DEF Next
<1> HIDE DEF Kept
<1> QED
  BY <1>20 DEF StreamInv, Kept

-----------------------------------------------------------------------------
(* The numbers.                                                             *)

(* A list of numbered messages and one more.                                *)
LEMMA NumberedAppend ==
  ASSUME NEW list \in Seq(Item), NEW item \in Item, NEW n, Numbered(item, n),
         \A i \in DOMAIN list : Numbered(list[i], n)
  PROVE  \A i \in DOMAIN Append(list, item) : Numbered(Append(list, item)[i], n)
<1> DEFINE more == Append(list, item)
           k == Len(list)
<1>1. /\ k \in Nat /\ DOMAIN list = 1 .. k /\ DOMAIN more = 1 .. k + 1
      /\ \A i \in 1 .. k : more[i] = list[i]
      /\ more[k + 1] = item
  BY AppendProperties, LenProperties
<1> HIDE DEF more, k
<1>2. ASSUME NEW i \in DOMAIN more PROVE Numbered(more[i], n)
  <2>1. i \in 1 .. k \/ i = k + 1
    BY <1>1
  <2> QED
    BY <1>1, <2>1
<1> QED
  BY <1>2 DEF more

(* The record and one item more, of which the end is stored.                *)
LEMMA RecordedNumbered ==
  ASSUME NEW all \in Seq(Item), NEW item \in Item, NEW n, Numbered(item, n),
         \A i \in DOMAIN all : Numbered(all[i], n) /\ Len(all[i].text) <= MaxStored
  PROVE  LET more == Append(all, Cut(item)) IN
         /\ more \in Seq(Item)
         /\ \A i \in DOMAIN more : Numbered(more[i], n) /\ Len(more[i].text) <= MaxStored
<1> DEFINE c == Cut(item)
           more == Append(all, c)
           k == Len(all)
<1>1. c \in Item /\ Numbered(c, n) /\ Len(c.text) <= MaxStored
  BY CutKeeps, NumberedCut
<1> HIDE DEF c
<1>2. /\ k \in Nat /\ DOMAIN all = 1 .. k /\ DOMAIN more = 1 .. k + 1 /\ more \in Seq(Item)
      /\ \A i \in 1 .. k : more[i] = all[i]
      /\ more[k + 1] = c
  BY <1>1, AppendProperties, LenProperties
<1> HIDE DEF more, k
<1>3. ASSUME NEW i \in DOMAIN more PROVE Numbered(more[i], n) /\ Len(more[i].text) <= MaxStored
  <2>1. i \in 1 .. k \/ i = k + 1
    BY <1>2
  <2> QED
    BY <1>1, <1>2, <2>1
<1> QED
  BY <1>2, <1>3 DEF more, c

(* What is stored was recorded.                                             *)
LEMMA StoredNumbered ==
  ASSUME IInv PROVE \A i \in DOMAIN messages : Numbered(messages[i], numbers)
<1>1. recorded \in Seq(Item) /\ \A j \in DOMAIN recorded : Numbered(recorded[j], numbers)
  BY DEF IInv, TypeOK, NumbersInv
<1>2. PICK i \in 1 .. Len(recorded) + 1 : messages = From(recorded, i)
  BY DEF IInv, StoredFits, LongestEnd
<1>3. /\ Len(recorded) \in Nat /\ messages \in Seq(Item)
      /\ Len(messages) = Len(recorded) - i + 1
      /\ \A k \in 1 .. Len(recorded) - i + 1 : messages[k] = recorded[i + k - 1]
  BY <1>1, <1>2, FromProperties, LenProperties
<1>4. DOMAIN messages = 1 .. Len(messages) /\ DOMAIN recorded = 1 .. Len(recorded)
  BY <1>1, <1>3, LenProperties
<1>5. ASSUME NEW k \in DOMAIN messages PROVE Numbered(messages[k], numbers)
  <2> DEFINE j == i + k - 1
  <2>1. j \in DOMAIN recorded /\ messages[k] = recorded[j]
    BY <1>3, <1>4
  <2> HIDE DEF j
  <2> QED
    BY <1>1, <2>1
<1> QED
  BY <1>5

(* Every owner's message, shown, recorded or on its way, has a number that was given.    *)
LEMMA NumbersKept == ASSUME IInv, [Next]_vars PROVE NumbersInv'
<1> DEFINE Shown1 == \A i \in DOMAIN items : Numbered(items[i], numbers)
           Recorded1 == \A i \in DOMAIN recorded :
                          Numbered(recorded[i], numbers) /\ Len(recorded[i].text) <= MaxStored
           Loads1 == \A load \in loads :
                       \A i \in DOMAIN load.messages : Numbered(load.messages[i], numbers)
<1>1. /\ Shown1 /\ Recorded1 /\ Loads1
      /\ items \in Seq(Item) /\ recorded \in Seq(Item) /\ pending \in Seq(Numbers)
      /\ numbers \in Nat /\ numbers' \in Nat /\ numbers <= numbers'
  BY TurnsKept DEF IInv, TypeOK, NumbersInv
<1>2. \A item : Numbered(item, numbers) => Numbered(item, numbers')
  BY <1>1, NumberedFurther
<1> HIDE DEF Shown1, Recorded1, Loads1
<1>3. ASSUME UNCHANGED items PROVE Shown1'
  BY <1>1, <1>2, <1>3 DEF Shown1
<1>4. ASSUME UNCHANGED recorded PROVE Recorded1'
  BY <1>1, <1>2, <1>4 DEF Recorded1
<1>5. \A load \in loads : \A i \in DOMAIN load.messages : Numbered(load.messages[i], numbers')
  BY <1>1, <1>2 DEF Loads1
<1>6. ASSUME loads' \subseteq loads \cup {LoadHistory(TRUE), LoadHistory(FALSE)} PROVE Loads1'
  <2>1. DOMAIN LoadHistory(TRUE).messages = {} /\ DOMAIN LoadHistory(FALSE).messages = {}
    BY EmptySeq DEF LoadHistory
  <2> QED
    BY <1>5, <1>6, <2>1 DEF Loads1
<1>7. ASSUME NEW item \in Item, Numbered(item, numbers'), Record(item) PROVE Recorded1'
  <2>1. recorded' = Append(recorded, Cut(item))
    BY <1>7 DEF Record
  <2>2. \A i \in DOMAIN recorded : Numbered(recorded[i], numbers')
                                     /\ Len(recorded[i].text) <= MaxStored
    BY <1>1, <1>2 DEF Recorded1
  <2> QED
    BY <1>1, <1>7, <2>1, <2>2, RecordedNumbered DEF Recorded1
<1>8. Prose(pending) \in Item /\ Numbered(Prose(pending), numbers')
  BY <1>1, ProseIsItem DEF Prose, Numbered
<1>9. ASSUME NEW item \in Item, Numbered(item, numbers'), FlushAndRecord(item) PROVE Recorded1'
  <2>1. CASE pending = <<>>
    BY <1>7, <1>9, <2>1 DEF FlushAndRecord
  <2>2. CASE pending # <<>>
    <3> DEFINE more == Append(recorded, Cut(Prose(pending)))
    <3>1. recorded' = Append(more, Cut(item))
      BY <1>9, <2>2 DEF FlushAndRecord
    <3>2. \A i \in DOMAIN recorded : Numbered(recorded[i], numbers')
                                       /\ Len(recorded[i].text) <= MaxStored
      BY <1>1, <1>2 DEF Recorded1
    <3>3. more \in Seq(Item) /\ \A i \in DOMAIN more : Numbered(more[i], numbers')
                                                         /\ Len(more[i].text) <= MaxStored
      BY <1>1, <1>8, <3>2, RecordedNumbered
    <3> HIDE DEF more
    <3> QED
      BY <1>9, <3>1, <3>3, RecordedNumbered DEF Recorded1
  <2> QED
    BY <2>1, <2>2
<1>10. ASSUME Accept PROVE NumbersInv'
  <2>1. Recorded1'
    <3>1. CASE turn = "none"
      <4>1. Record(User(asked)) /\ stream = "sent"
        BY <1>10, <3>1 DEF Accept
      <4>2. asked \in Numbers /\ asked \in 1 .. numbers
        BY <4>1, ConversationAssumption DEF IInv, TypeOK, StreamInv, Numbers
      <4>3. User(asked) \in Item /\ Numbered(User(asked), asked)
        BY <4>2, UserNumber
      <4>4. Numbered(User(asked), numbers')
        <5>1. asked \in Nat /\ asked <= numbers'
          BY <1>1, <4>2
        <5> QED
          BY <1>1, <4>3, <5>1, NumberedFurther
      <4> QED
        BY <1>7, <4>1, <4>3, <4>4
    <3>2. CASE turn # "none"
      BY <1>4, <1>10, <3>2 DEF Accept, storeVars
    <3> QED
      BY <3>1, <3>2
  <2>2. Shown1' /\ Loads1'
    BY <1>3, <1>6, <1>10 DEF Accept
  <2> QED
    BY <2>1, <2>2 DEF NumbersInv, Shown1, Recorded1, Loads1
<1>11. ASSUME Number
       PROVE  /\ numbers' \in Numbers /\ User(numbers') \in Item
              /\ Numbered(User(numbers'), numbers')
  <2>1. numbers' \in Numbers
    BY <1>11, NumberGiven DEF Numbers
  <2> QED
    BY <2>1, UserNumber
<1>12. ASSUME OtherBegins PROVE NumbersInv'
  <2>1. Recorded1'
    BY <1>7, <1>11, <1>12 DEF OtherBegins
  <2>2. Shown1' /\ Loads1'
    BY <1>3, <1>6, <1>12 DEF OtherBegins
  <2> QED
    BY <2>1, <2>2 DEF NumbersInv, Shown1, Recorded1, Loads1
<1>13. ASSUME UseTool PROVE NumbersInv'
  <2>1. Tool(numbers') \in Item
    BY <1>13, NumberGiven DEF UseTool
  <2>2. Numbered(Tool(numbers'), numbers')
    BY DEF Tool, Numbered
  <2>3. Recorded1'
    BY <1>9, <1>13, <2>1, <2>2 DEF UseTool
  <2>4. Shown1' /\ Loads1'
    BY <1>3, <1>6, <1>13 DEF UseTool
  <2> QED
    BY <2>3, <2>4 DEF NumbersInv, Shown1, Recorded1, Loads1
<1>14. ASSUME AgentEnds PROVE NumbersInv'
  <2>1. Recorded1'
    <3>1. CASE pending = <<>>
      BY <1>4, <1>14, <3>1 DEF AgentEnds, Flush, storeVars
    <3>2. CASE pending # <<>>
      <4>1. Record(Prose(pending))
        BY <1>14, <3>2 DEF AgentEnds, Flush
      <4> QED
        BY <1>7, <1>8, <4>1
    <3> QED
      BY <3>1, <3>2
  <2>2. Shown1' /\ Loads1'
    BY <1>3, <1>6, <1>14 DEF AgentEnds
  <2> QED
    BY <2>1, <2>2 DEF NumbersInv, Shown1, Recorded1, Loads1
<1>15. ASSUME Submit PROVE NumbersInv'
  <2>1. Number /\ items' = Append(items, User(numbers')) /\ UNCHANGED <<recorded, loads>>
    BY <1>15 DEF Submit, storeVars
  <2>2. \A i \in DOMAIN items : Numbered(items[i], numbers')
    BY <1>1, <1>2 DEF Shown1
  <2>3. Shown1'
    BY <1>1, <1>11, <2>1, <2>2, NumberedAppend DEF Shown1
  <2>4. Recorded1' /\ Loads1'
    BY <1>4, <1>6, <2>1
  <2> QED
    BY <2>3, <2>4 DEF NumbersInv, Shown1, Recorded1, Loads1
<1>16. ASSUME Read PROVE NumbersInv'
  <2>1. Head(wire) \in Events /\ View \in Views /\ View.items = items
    <3>1. View.items = items
      BY DEF View
    <3>2. wire \in Seq(Events) /\ wire # <<>>
      BY <1>16 DEF Read, IInv, TypeOK
    <3> QED
      BY <3>1, <3>2, HeadTailProperties, ViewIsView
  <2>2. items' = Shows(View, Head(wire)).items /\ UNCHANGED <<recorded, loads>>
    BY <1>16 DEF Read, storeVars
  <2>3. \A i \in DOMAIN View.items : Numbered(View.items[i], numbers')
    BY <1>1, <1>2, <2>1 DEF Shown1
  <2>4. Shown1'
    BY <2>1, <2>2, <2>3, ShowsNumbered DEF Shown1
  <2>5. Recorded1' /\ Loads1'
    BY <1>4, <1>6, <2>2
  <2> QED
    BY <2>4, <2>5 DEF NumbersInv, Shown1, Recorded1, Loads1
<1>17. ASSUME NEW load \in loads, AnswerLoad(load) PROVE NumbersInv'
  <2> DEFINE new == [load EXCEPT !.answered = TRUE, !.messages = messages]
  <2>1. loads' = (loads \ {load}) \cup {new} /\ UNCHANGED <<items, recorded>>
    BY <1>17 DEF AnswerLoad, storeVars
  <2>2. new.messages = messages
    BY DEF IInv, TypeOK, Load
  <2>3. \A i \in DOMAIN messages : Numbered(messages[i], numbers')
    BY <1>2, StoredNumbered
  <2> HIDE DEF new
  <2>4. Loads1'
    BY <1>5, <2>1, <2>2, <2>3 DEF Loads1
  <2>5. Shown1' /\ Recorded1'
    BY <1>3, <1>4, <2>1
  <2> QED
    BY <2>4, <2>5 DEF NumbersInv, Shown1, Recorded1, Loads1
<1>18. ASSUME NEW load \in loads, ReceiveLoad(load) PROVE NumbersInv'
  <2>1. (items' = load.messages \/ UNCHANGED items) /\ UNCHANGED recorded /\ loads' \subseteq loads
    BY <1>18 DEF ReceiveLoad, storeVars
  <2>2. Shown1'
    BY <1>3, <1>5, <2>1 DEF Shown1
  <2>3. Recorded1' /\ Loads1'
    BY <1>4, <1>6, <2>1
  <2> QED
    BY <2>2, <2>3 DEF NumbersInv, Shown1, Recorded1, Loads1
<1>19. ASSUME UNCHANGED <<items, recorded>>,
              loads' \subseteq loads \cup {LoadHistory(TRUE), LoadHistory(FALSE)}
       PROVE  NumbersInv'
  BY <1>3, <1>4, <1>6, <1>19 DEF NumbersInv, Shown1, Recorded1, Loads1
<1>20. ASSUME NEW answer \in {"active", "idle"}, ReceiveBeat(answer) PROVE NumbersInv'
  <2>1. UNCHANGED <<items, recorded>>
        /\ loads' \subseteq loads \cup {LoadHistory(TRUE), LoadHistory(FALSE)}
    BY <1>20 DEF ReceiveBeat, storeVars
  <2> QED
    BY <1>19, <2>1
<1>21. ASSUME Reload PROVE NumbersInv'
  <2>1. /\ items' = <<>> /\ UNCHANGED recorded
        /\ loads' \subseteq loads \cup {LoadHistory(TRUE), LoadHistory(FALSE)}
    BY <1>21 DEF Reload, storeVars
  <2>2. Shown1'
    <3>1. DOMAIN items' = {}
      BY <2>1, EmptySeq
    <3> QED
      BY <3>1 DEF Shown1
  <2>3. Recorded1' /\ Loads1'
    BY <1>4, <1>6, <2>1
  <2> QED
    BY <2>2, <2>3 DEF NumbersInv, Shown1, Recorded1, Loads1
<1>22. ASSUME \/ Text \/ ReleaseTurn \/ AnswerBeat \/ StreamBreaks \/ Beat \/ CountdownEnds
              \/ UNCHANGED vars
       PROVE  NumbersInv'
  <2>1. UNCHANGED <<items, recorded, loads>>
    BY <1>22 DEF Text, ReleaseTurn, AnswerBeat, StreamBreaks, Beat, CountdownEnds, storeVars, vars
  <2> QED
    BY <1>19, <2>1
<1> QED
  BY <1>10, <1>12, <1>13, <1>14, <1>15, <1>16, <1>17, <1>18, <1>20, <1>21, <1>22 DEF Next

-----------------------------------------------------------------------------
(* What the tab shows.                                                      *)

(* What the lemmas below know of a tab that lacks nothing.                  *)
LEMMA Following ==
  ASSUME IInv, Follows
  PROVE  LET seen == Finally(View, wire) IN
         /\ wire \in Seq(Events) /\ View \in Views /\ seen \in Views
         /\ messages \in Seq(Item) /\ recorded \in Seq(Item) /\ pending \in Seq(Numbers)
         /\ seen.items \in Seq(Item)
         /\ running => turn = "page"
         /\ turn = "page" => stream = "open"
         /\ pending # <<>> =>
              /\ seen.segment = "last" /\ Last(seen.items) = Prose(pending)
              /\ Front(seen.items) \in Seq(Item) /\ Prose(pending) \in Item
              /\ seen.items = Append(Front(seen.items), Prose(pending))
<1> DEFINE seen == Finally(View, wire)
<1>1. /\ wire \in Seq(Events) /\ messages \in Seq(Item) /\ recorded \in Seq(Item)
      /\ pending \in Seq(Numbers) /\ turn \in {"none", "page", "other"}
  BY DEF IInv, TypeOK
<1>2. View \in Views /\ seen \in Views
  BY <1>1, ViewIsView, FinallyIsView
<1>3. (running => turn = "page") /\ (turn = "page" => stream = "open")
  BY <1>1 DEF IInv, StreamInv, Follows
<1>4. ASSUME pending # <<>>
      PROVE  seen.segment = "last" /\ Last(seen.items) = Prose(pending)
  BY <1>4 DEF Follows, ReadAhead
<1> HIDE DEF seen
<1>5. seen.items \in Seq(Item) /\ (seen.segment = "last" => seen.items # <<>>)
  BY <1>2 DEF Views
<1>6. ASSUME pending # <<>>
      PROVE  /\ Front(seen.items) \in Seq(Item) /\ Prose(pending) \in Item
             /\ seen.items = Append(Front(seen.items), Prose(pending))
  <2> DEFINE list == seen.items
  <2>1. list \in Seq(Item) /\ list # <<>> /\ Last(list) = Prose(pending)
    BY <1>4, <1>5, <1>6
  <2> HIDE DEF list
  <2>2. Front(list) \in Seq(Item) /\ list = Append(Front(list), Last(list))
    BY <2>1, FrontAndLast
  <2> QED
    BY <1>1, <2>1, <2>2, ProseIsItem DEF list
<1> QED
  BY <1>1, <1>2, <1>3, <1>4, <1>5, <1>6 DEF seen

(* Nothing that is shown, sent or stored changes.                           *)
LEMMA FollowsOn ==
  ASSUME Follows, UNCHANGED <<running, messages, recorded, pending, wire, items, segment>>,
         turn' # "other", stream' = "sent" => UNCHANGED <<stream, asked>>
  PROVE  Follows'
<1>1. View' = View
  BY DEF View
<1>2. running' = running /\ pending' = pending /\ wire' = wire
      /\ messages' = messages /\ recorded' = recorded /\ segment' = segment /\ items' = items
  OBVIOUS
<1>3. ReadAhead'
  BY <1>1, <1>2 DEF Follows, ReadAhead
<1>4. ASSUME stream' = "sent" PROVE Asked'
  BY <1>2, <1>4 DEF Follows, Asked
<1> QED
  BY <1>2, <1>3, <1>4 DEF Follows

(* No prose waits, and what will be shown is the end of the record.         *)
LEMMA EndFollows ==
  ASSUME NEW seen, Finally(View', wire') = seen, pending' = <<>>,
         ShowsEnd(seen.items, recorded', messages'), running' => seen.segment = "none",
         turn' # "other", segment' # "gone", stream' # "sent"
  PROVE  Follows'
<1>1. ReadAhead'
  BY DEF ReadAhead
<1> QED
  BY <1>1 DEF Follows

(* A turn begins: the message that was shown when it was sent is recorded.  *)
LEMMA AcceptFollows == ASSUME IInv, Follows, Accept PROVE Follows'
<1>1. /\ stream = "sent" /\ stream' = "open" /\ UNCHANGED <<pending, items, segment>>
      /\ asked \in 0 .. numbers /\ asked # 0 /\ numbers \in 0 .. MaxNumbers
      /\ items \in Seq(Item) /\ messages \in Seq(Item) /\ recorded \in Seq(Item)
      /\ turn \in {"none", "page", "other"}
  BY DEF Accept, IInv, TypeOK, StreamInv
<1>2. /\ segment = "none" /\ wire = <<>> /\ turn = "none" /\ ~running /\ pending = <<>>
  BY <1>1 DEF IInv, StreamInv, Follows
<1>3. Record(User(asked)) /\ turn' = "page" /\ wire' = wire
  BY <1>2 DEF Accept
<1>4. View' = View /\ View \in Views /\ View.items = items /\ View.segment = "none"
  BY <1>1, <1>2, ViewIsView DEF View
<1>5. Finally(View', wire') = View /\ Finally(View, wire) = View
  BY <1>2, <1>3, <1>4, FinallyNothing
<1>6. ShowsEnd(items, recorded, messages)
  BY <1>2, <1>4, <1>5 DEF Follows, ReadAhead
<1> DEFINE front == Front(items)
           item == User(asked)
<1>7. asked \in Numbers /\ asked - 1 \in Nat
  BY <1>1, ConversationAssumption DEF Numbers
<1>8. item \in Item /\ \A other \in Item : Numbered(other, asked - 1) /\ other.role = "user"
                                             => Cut(other) # Cut(item)
  BY <1>7, UserNumber
<1>9. /\ items # <<>> /\ Last(items) = item
      /\ \A i \in 1 .. Len(items) - 1 : Numbered(items[i], asked - 1)
      /\ \A i \in DOMAIN recorded : Numbered(recorded[i], asked - 1)
  BY <1>1 DEF Follows, Asked
<1>10. /\ front \in Seq(Item) /\ items = Append(front, item)
       /\ Len(front) = Len(items) - 1 /\ \A i \in 1 .. Len(items) - 1 : front[i] = items[i]
  BY <1>1, <1>9, FrontAndLast
<1>11. \A i \in 1 .. Len(front) : front[i].role = "user" => Cut(front[i]) # Cut(item)
  <2> HIDE DEF front, item
  <2> TAKE i \in 1 .. Len(front)
  <2>1. front[i] \in Item
    BY <1>10, ElementOfSeq
  <2>2. Numbered(front[i], asked - 1)
    BY <1>9, <1>10
  <2> QED
    BY <1>8, <2>1, <2>2
<1>12. ~Known(item, recorded)
  <2>1. \A i \in DOMAIN recorded : Len(recorded[i].text) <= MaxStored
    BY DEF IInv, NumbersInv
  <2> QED
    BY <1>1, <1>7, <1>9, <2>1, NewUnknown
<1> HIDE DEF front, item
<1>13. ShowsEnd(front, recorded, messages)
  BY <1>1, <1>6, <1>8, <1>10, <1>12, EndStays
<1>14. ShowsEnd(Append(front, item), Append(recorded, Cut(item)), AddMessage(messages, item))
  BY <1>1, <1>8, <1>10, <1>11, <1>13, EndGrows
<1>15. messages' = AddMessage(messages, item) /\ recorded' = Append(recorded, Cut(item))
  BY <1>3 DEF Record, item
<1>16. ShowsEnd(View.items, recorded', messages')
  BY <1>4, <1>10, <1>14, <1>15
<1>17. pending' = <<>> /\ segment' # "gone" /\ stream' # "sent" /\ turn' # "other"
  BY <1>1, <1>2, <1>3
<1>18. running' => View.segment = "none"
  BY <1>4
<1> QED
  BY <1>5, <1>16, <1>17, <1>18, EndFollows

(* Prose is sent, and is stored later.                                      *)
LEMMA TextFollows == ASSUME IInv, Follows, Text PROVE Follows'
<1> DEFINE seen == Finally(View, wire)
           n == numbers'
           after == Shows(seen, Event("text", n))
<1>1. /\ wire \in Seq(Events) /\ View \in Views /\ seen \in Views /\ pending \in Seq(Numbers)
      /\ running => turn = "page"
      /\ turn = "page" => stream = "open"
      /\ pending # <<>> => seen.segment = "last" /\ Last(seen.items) = Prose(pending)
  BY Following
<1>2. /\ running /\ Number /\ pending' = Append(pending, n) /\ Sent(Event("text", n))
      /\ UNCHANGED <<turn, running, messages, recorded, items, segment, stream>>
  BY DEF Text, turnVars, storeVars
<1>3. n \in Numbers /\ Event("text", n) \in Events
  <2>1. n \in Numbers
    BY <1>2, NumberGiven DEF Numbers
  <2> QED
    BY <2>1 DEF Event, Events
<1>4. View' = View /\ wire' = Append(wire, Event("text", n))
  BY <1>1, <1>2 DEF View, Sent
<1>5. Finally(View', wire') = after
  BY <1>1, <1>3, <1>4, FinallySent
<1>6. pending' # <<>>
  BY <1>1, <1>2, <1>3, AppendProperties
<1>7. /\ after.segment = "last" /\ Last(after.items) = Prose(pending')
      /\ ShowsEnd(Front(after.items), recorded', messages')
  <2>1. CASE pending = <<>>
    <3>1. seen.segment = "none" /\ ShowsEnd(seen.items, recorded, messages)
      BY <1>2, <2>1 DEF Follows, ReadAhead
    <3>2. /\ after.segment = "last" /\ Front(after.items) = seen.items
          /\ Last(after.items) = Prose(<<n>>)
      <4> HIDE DEF seen
      <4> QED
        BY <1>1, <1>3, <3>1, ShowsProse
    <3>3. pending' = <<n>>
      BY <1>2, <2>1
    <3> HIDE DEF after, seen
    <3> QED
      BY <1>2, <3>1, <3>2, <3>3
  <2>2. CASE pending # <<>>
    <3>1. ShowsEnd(Front(seen.items), recorded, messages)
      BY <2>2 DEF Follows, ReadAhead
    <3>2. /\ after.segment = "last" /\ Front(after.items) = Front(seen.items)
          /\ Last(after.items) = Prose(Append(pending, n))
      <4> HIDE DEF seen
      <4> QED
        BY <1>1, <1>3, <2>2, ShowsProse
    <3> HIDE DEF after, seen
    <3> QED
      BY <1>2, <3>1, <3>2
  <2> QED
    BY <2>1, <2>2
<1> HIDE DEF after
<1>8. ReadAhead'
  BY <1>5, <1>6, <1>7 DEF ReadAhead
<1>9. turn' # "other" /\ segment' # "gone" /\ stream' # "sent"
  BY <1>1, <1>2 DEF Follows
<1> QED
  BY <1>8, <1>9 DEF Follows

(* The prose that waits is stored: what will be shown is the end of the record again.    *)
LEMMA FlushFollows ==
  ASSUME IInv, Follows, pending # <<>>
  PROVE  ShowsEnd(Finally(View, wire).items, Append(recorded, Cut(Prose(pending))),
                  AddMessage(messages, Prose(pending)))
<1> DEFINE seen == Finally(View, wire)
           prose == Prose(pending)
           front == Front(seen.items)
<1>1. /\ messages \in Seq(Item) /\ recorded \in Seq(Item)
      /\ front \in Seq(Item) /\ prose \in Item /\ seen.items = Append(front, prose)
  BY Following
<1>2. ShowsEnd(front, recorded, messages)
  BY DEF Follows, ReadAhead
<1>3. prose.role # "user"
  BY DEF Prose
<1> HIDE DEF front, prose, seen
<1>4. ShowsEnd(Append(front, prose), Append(recorded, Cut(prose)), AddMessage(messages, prose))
  BY <1>1, <1>2, <1>3, EndGoesOn
<1> QED
  BY <1>1, <1>4 DEF prose, seen

(* A tool call is sent, and stored behind the prose that led to it.         *)
LEMMA UseToolFollows == ASSUME IInv, Follows, UseTool PROVE Follows'
<1> DEFINE seen == Finally(View, wire)
           n == numbers'
           tool == Tool(n)
           after == Shows(seen, Event("tool", n))
<1>1. /\ wire \in Seq(Events) /\ View \in Views /\ seen \in Views /\ seen.items \in Seq(Item)
      /\ messages \in Seq(Item) /\ recorded \in Seq(Item)
      /\ pending # <<>> => Prose(pending) \in Item
      /\ running => turn = "page"
      /\ turn = "page" => stream = "open"
  BY Following
<1>2. /\ running /\ Number /\ FlushAndRecord(tool) /\ pending' = <<>>
      /\ Sent(Event("tool", n))
      /\ UNCHANGED <<turn, running, items, segment, stream>>
  BY DEF UseTool, turnVars
<1>3. n \in Numbers /\ Event("tool", n) \in Events /\ tool \in Item /\ tool.role # "user"
  <2>1. n \in Numbers /\ tool \in Item
    BY <1>2, NumberGiven DEF Numbers
  <2> QED
    BY <2>1 DEF Event, Events, Tool
<1>4. View' = View /\ wire' = Append(wire, Event("tool", n))
  BY <1>1, <1>2 DEF View, Sent
<1>5. Finally(View', wire') = after
  BY <1>1, <1>3, <1>4, FinallySent
<1>6. after = [items |-> Append(seen.items, tool), segment |-> "none"]
  <2> HIDE DEF seen
  <2> QED
    BY <1>1, <1>3, ShowsOther
<1>7. ShowsEnd(Append(seen.items, tool), recorded', messages')
  <2>1. CASE pending = <<>>
    <3>1. messages' = AddMessage(messages, tool) /\ recorded' = Append(recorded, Cut(tool))
      BY <1>2, <2>1 DEF FlushAndRecord, Record
    <3>2. ShowsEnd(seen.items, recorded, messages)
      BY <2>1 DEF Follows, ReadAhead
    <3> HIDE DEF seen, tool
    <3>3. ShowsEnd(Append(seen.items, tool), Append(recorded, Cut(tool)),
                   AddMessage(messages, tool))
      BY <1>1, <1>3, <3>2, EndGoesOn
    <3> QED
      BY <3>1, <3>3
  <2>2. CASE pending # <<>>
    <3> DEFINE all == Append(recorded, Cut(Prose(pending)))
               stored == AddMessage(messages, Prose(pending))
    <3>1. messages' = AddMessage(stored, tool) /\ recorded' = Append(all, Cut(tool))
      BY <1>2, <2>2 DEF FlushAndRecord
    <3>2. ShowsEnd(seen.items, all, stored)
      BY <2>2, FlushFollows
    <3>3. all \in Seq(Item) /\ stored \in Seq(Item)
      <4>1. Cut(Prose(pending)) \in Item
        BY <1>1, <2>2, CutIsItem
      <4>2. stored \in Seq(Item)
        BY <1>1, <2>2, AddedLength
      <4>3. all \in Seq(Item)
        BY <1>1, <4>1, AppendProperties
      <4> QED
        BY <4>2, <4>3
    <3> HIDE DEF all, stored, seen, tool
    <3>4. ShowsEnd(Append(seen.items, tool), Append(all, Cut(tool)), AddMessage(stored, tool))
      BY <1>1, <1>3, <3>2, <3>3, EndGoesOn
    <3> QED
      BY <3>1, <3>4
  <2> QED
    BY <2>1, <2>2
<1> HIDE DEF after, seen, tool
<1>8. ShowsEnd(after.items, recorded', messages') /\ after.segment = "none"
  BY <1>6, <1>7
<1>9. turn' # "other" /\ segment' # "gone" /\ stream' # "sent"
  BY <1>1, <1>2 DEF Follows
<1> QED
  BY <1>2, <1>5, <1>8, <1>9, EndFollows

(* The agent's end: the prose that waits is stored, and an error may be sent.            *)
LEMMA AgentEndsFollows == ASSUME IInv, Follows, AgentEnds PROVE Follows'
<1> DEFINE seen == Finally(View, wire)
           after == Finally(View', wire')
<1>1. /\ wire \in Seq(Events) /\ View \in Views /\ seen \in Views
      /\ running => turn = "page"
      /\ turn = "page" => stream = "open"
  BY Following
<1>2. /\ running /\ running' = FALSE /\ Flush /\ pending' = <<>>
      /\ UNCHANGED wire \/ Sent(Event("error", 0))
      /\ turn' = turn
  BY DEF AgentEnds
<1>3. items' = items /\ segment' = segment /\ stream' = stream
  BY DEF AgentEnds
<1>4. View' = View
  BY <1>3 DEF View
<1>5. Event("error", 0) \in Events
  BY DEF Event, Events
<1>6. after.items = seen.items
  <2>1. CASE UNCHANGED wire
    BY <1>4, <2>1
  <2>2. CASE Sent(Event("error", 0))
    <3>1. wire' = Append(wire, Event("error", 0))
      BY <1>1, <1>2, <2>2 DEF Sent
    <3>2. after = Shows(seen, Event("error", 0))
      BY <1>1, <1>4, <1>5, <3>1, FinallySent
    <3> HIDE DEF seen, after
    <3>3. after = [items |-> seen.items, segment |-> "none"]
      BY <1>1, <3>2, ShowsOther
    <3> QED
      BY <3>3
  <2> QED
    BY <1>2, <2>1, <2>2
<1>7. ShowsEnd(seen.items, recorded', messages')
  <2>1. CASE pending = <<>>
    <3>1. messages' = messages /\ recorded' = recorded
      BY <1>2, <2>1 DEF Flush, storeVars
    <3>2. ShowsEnd(seen.items, recorded, messages)
      BY <2>1 DEF Follows, ReadAhead
    <3> QED
      BY <3>1, <3>2
  <2>2. CASE pending # <<>>
    <3>1. /\ messages' = AddMessage(messages, Prose(pending))
          /\ recorded' = Append(recorded, Cut(Prose(pending)))
      BY <1>2, <2>2 DEF Flush, Record
    <3> QED
      BY <2>2, <3>1, FlushFollows
  <2> QED
    BY <2>1, <2>2
<1> HIDE DEF seen
<1>8. ShowsEnd(after.items, recorded', messages')
  BY <1>6, <1>7
<1>9. turn' # "other" /\ segment' # "gone" /\ stream' # "sent"
  BY <1>1, <1>2, <1>3 DEF Follows
<1>10. running' => after.segment = "none"
  BY <1>2
<1> QED
  BY <1>2, <1>8, <1>9, <1>10, EndFollows

(* The gate is opened, and the stream's end is sent.                        *)
LEMMA ReleaseFollows == ASSUME IInv, Follows, ReleaseTurn PROVE Follows'
<1> DEFINE seen == Finally(View, wire)
           after == Finally(View', wire')
<1>1. /\ wire \in Seq(Events) /\ View \in Views /\ seen \in Views
      /\ turn = "page" => stream = "open"
  BY Following
<1>2. /\ turn # "none" /\ ~running /\ turn' = "none" /\ Sent(Event("done", 0))
      /\ UNCHANGED <<pending, messages, recorded, items, segment, stream>>
  BY DEF ReleaseTurn, storeVars
<1>3. turn = "page" /\ pending = <<>>
  <2>1. turn \in {"none", "page", "other"} /\ (~running => pending = <<>>)
    BY DEF IInv, TypeOK, StreamInv
  <2> QED
    BY <1>2, <2>1 DEF Follows
<1>4. running' = running
  BY DEF ReleaseTurn
<1>5. View' = View /\ wire' = Append(wire, Event("done", 0))
  BY <1>2, <1>3 DEF View, Sent
<1>6. Event("done", 0) \in Events
  BY DEF Event, Events
<1>7. after = Shows(seen, Event("done", 0))
  BY <1>1, <1>5, <1>6, FinallySent
<1>8. ShowsEnd(seen.items, recorded, messages)
  BY <1>3 DEF Follows, ReadAhead
<1> HIDE DEF seen, after
<1>9. after = [items |-> seen.items, segment |-> "none"]
  BY <1>1, <1>7, ShowsOther
<1>10. ShowsEnd(after.items, recorded', messages') /\ (running' => after.segment = "none")
  BY <1>2, <1>8, <1>9
<1>11. pending' = <<>> /\ turn' # "other" /\ segment' # "gone" /\ stream' # "sent"
  BY <1>1, <1>2, <1>3 DEF Follows
<1> QED
  BY <1>10, <1>11, EndFollows DEF after

(* A message is shown before it is sent: the worker does not know it yet.   *)
LEMMA SubmitFollows == ASSUME IInv, Follows, Submit PROVE Follows'
<1> DEFINE n == numbers'
           item == User(n)
<1>1. /\ ~busy /\ Number /\ items' = Append(items, item) /\ stream' = "sent" /\ asked' = n
      /\ UNCHANGED <<turn, messages, recorded, pending, wire, segment>>
  BY DEF Submit, turnVars, storeVars
<1>2. running' = running
  BY DEF Submit, turnVars
<1>3. /\ items \in Seq(Item) /\ messages \in Seq(Item) /\ recorded \in Seq(Item)
      /\ turn \in {"none", "page", "other"} /\ stream = "none"
  BY <1>1 DEF IInv, TypeOK
<1>4. segment = "none" /\ wire = <<>> /\ turn = "none" /\ ~running /\ pending = <<>>
  BY <1>3 DEF IInv, StreamInv, Follows
<1>5. n \in Numbers /\ n - 1 = numbers /\ item \in Item
  <2>1. n \in 1 .. MaxNumbers /\ n = numbers + 1 /\ numbers \in Nat /\ item \in Item
    BY <1>1, NumberGiven
  <2> HIDE DEF n, item
  <2> QED
    BY <2>1 DEF Numbers
<1>6. View \in Views /\ View.items = items
  BY ViewIsView DEF View
<1>7. Finally(View, wire) = View
  BY <1>4, <1>6, FinallyNothing
<1>8. ShowsEnd(items, recorded, messages)
  BY <1>4, <1>6, <1>7 DEF Follows, ReadAhead
<1>9. /\ \A i \in DOMAIN items : Numbered(items[i], n - 1)
      /\ \A i \in DOMAIN recorded : Numbered(recorded[i], n - 1)
                                      /\ Len(recorded[i].text) <= MaxStored
  BY <1>5 DEF IInv, NumbersInv
<1>10. ~Known(item, recorded)
  BY <1>3, <1>5, <1>9, NewUnknown
<1> HIDE DEF item
<1>11. ShowsEnd(items', recorded', messages')
  BY <1>1, <1>3, <1>5, <1>8, <1>10, EndStays
<1>12. /\ items' \in Seq(Item) /\ items' # <<>> /\ Last(items') = item
       /\ Len(items') = Len(items) + 1 /\ \A i \in 1 .. Len(items) : items'[i] = items[i]
       /\ Len(items) \in Nat /\ DOMAIN items = 1 .. Len(items)
  BY <1>1, <1>3, <1>5, FrontLast, AppendProperties, LenProperties
<1>13. View' = [items |-> items', segment |-> "none"]
  BY <1>1, <1>4 DEF View
<1>14. View' \in Views
  BY <1>12, <1>13 DEF Views
<1>15. Finally(View', wire') = View'
  BY <1>1, <1>4, <1>14, FinallyNothing
<1>16. ReadAhead'
  <2>1. View'.items = items' /\ View'.segment = "none" /\ pending' = <<>>
    BY <1>1, <1>4, <1>13
  <2> QED
    BY <1>11, <1>15, <2>1 DEF ReadAhead
<1>17. Asked'
  <2>1. \A i \in 1 .. Len(items') - 1 : Numbered(items'[i], asked' - 1)
    <3>1. Len(items') - 1 = Len(items)
      BY <1>12
    <3> HIDE DEF n
    <3> QED
      BY <1>1, <1>9, <1>12, <3>1
  <2>2. \A i \in DOMAIN recorded' : Numbered(recorded'[i], asked' - 1)
    BY <1>1, <1>9
  <2>3. Last(items') = User(asked')
    BY <1>1, <1>12 DEF item
  <2> QED
    BY <1>12, <2>1, <2>2, <2>3 DEF Asked
<1>18. turn' # "other" /\ segment' # "gone"
  BY <1>1, <1>4
<1> QED
  BY <1>16, <1>17, <1>18 DEF Follows

(* Reading what was sent changes nothing of what will be shown.             *)
LEMMA ReadFollows == ASSUME IInv, Follows, Read PROVE Follows'
<1> DEFINE after == Shows(View, Head(wire))
<1>1. wire \in Seq(Events) /\ View \in Views /\ wire # <<>> /\ stream = "open"
  BY Following DEF Read
<1>2. Head(wire) \in Events /\ Head(wire) = wire[1] /\ Tail(wire) \in Seq(Events)
      /\ Len(Tail(wire)) = Len(wire) - 1
  BY <1>1, HeadTailProperties
<1>3. after \in Views /\ after.segment # "gone"
  <2>1. \A i \in DOMAIN View.items : Numbered(View.items[i], numbers)
    BY DEF View, IInv, NumbersInv
  <2>2. View.segment # "gone"
    BY DEF View, Follows
  <2> QED
    BY <1>1, <1>2, <2>1, <2>2, ShowsView, ShowsNumbered
<1>4. Finally(View, wire) = Finally(after, Tail(wire))
  BY <1>1, FinallyRead
<1>5. items' = after.items
  BY DEF Read
<1>6. UNCHANGED <<turn, messages, recorded, pending>>
  BY DEF Read, turnVars, storeVars
<1>7. running' = running
  BY DEF Read, turnVars
<1>8. after = [items |-> after.items, segment |-> after.segment]
  BY <1>3 DEF Views
<1>9. wire' = Tail(wire) /\ segment' = after.segment /\ stream' # "sent"
  <2>1. CASE Head(wire).event = "done"
    <3>1. wire' = <<>> /\ segment' = "none" /\ stream' = "none"
      BY <2>1 DEF Read, StreamEnds
    <3>2. after.segment = "none"
      <4>1. after = [View EXCEPT !.segment = "none"]
        BY <2>1 DEF Shows
      <4> QED
        BY <1>1, <4>1 DEF Views
    <3>3. Len(wire) = 1
      <4>1. Len(wire) \in Nat /\ Len(wire) # 0 /\ DOMAIN wire = 1 .. Len(wire)
        BY <1>1, LenProperties, EmptySeq
      <4>2. 1 \in DOMAIN wire /\ wire[1].event = "done"
        BY <1>2, <2>1, <4>1
      <4> QED
        BY <4>2 DEF IInv, StreamInv
    <3>4. Tail(wire) = <<>>
      <4>1. Len(Tail(wire)) = 0
        BY <1>2, <3>3
      <4> QED
        BY <1>2, <4>1, EmptySeq
    <3> QED
      BY <3>1, <3>2, <3>4
  <2>2. CASE Head(wire).event # "done"
    BY <1>1, <2>2 DEF Read
  <2> QED
    BY <2>1, <2>2
<1> HIDE DEF after
<1>10. View' = after
  BY <1>5, <1>8, <1>9 DEF View
<1>11. Finally(View', wire') = Finally(View, wire)
  BY <1>4, <1>9, <1>10
<1>12. ReadAhead'
  BY <1>6, <1>7, <1>11 DEF Follows, ReadAhead
<1>13. turn' # "other" /\ segment' # "gone"
  BY <1>3, <1>6, <1>9 DEF Follows
<1> QED
  BY <1>9, <1>12, <1>13 DEF Follows

(* The transcript read back while nothing runs shows itself.                *)
LEMMA LoadFollows ==
  ASSUME IInv, NEW load \in loads, ReceiveLoad(load), items' = load.messages,
         load.messages = messages, turn = "none", stream = "none"
  PROVE  Follows'
<1>1. UNCHANGED <<turn, messages, recorded, pending, wire, stream>>
  BY DEF ReceiveLoad, turnVars, storeVars
<1>2. running' = running /\ (segment' = segment \/ segment = "last")
  BY DEF ReceiveLoad, turnVars
<1>3. segment = "none" /\ wire = <<>> /\ ~running /\ pending = <<>>
  BY DEF IInv, StreamInv
<1>4. messages \in Seq(Item) /\ recorded \in Seq(Item) /\ Len(recorded) \in Nat
  BY LenProperties DEF IInv, TypeOK
<1>5. View' = [items |-> messages, segment |-> "none"]
  BY <1>2, <1>3 DEF View
<1>6. View' \in Views
  BY <1>4, <1>5 DEF Views
<1>7. Finally(View', wire') = View'
  BY <1>1, <1>3, <1>6, FinallyNothing
<1>8. PICK i \in 1 .. Len(recorded) + 1 : messages = From(recorded, i)
  BY DEF IInv, StoredFits, LongestEnd
<1>9. ShowsEnd(messages, recorded, messages)
  <2>1. \A k \in 1 .. Len(recorded) : Len(recorded[k].text) <= MaxStored
    <3>1. DOMAIN recorded = 1 .. Len(recorded)
      BY <1>4, LenProperties
    <3> QED
      BY <3>1 DEF IInv, NumbersInv
  <2> QED
    BY <1>4, <1>8, <2>1, EndItself
<1>10. /\ View'.items = messages /\ View'.segment = "none" /\ pending' = <<>>
       /\ turn' # "other" /\ segment' # "gone" /\ stream' # "sent"
  BY <1>1, <1>2, <1>3, <1>5
<1>11. ShowsEnd(View'.items, recorded', messages') /\ (running' => View'.segment = "none")
  BY <1>1, <1>9, <1>10
<1> QED
  BY <1>7, <1>10, <1>11, EndFollows

(* A tab that lacks nothing shows, or will show when it has read what was sent, the end  *)
(* of the record.                                                                        *)
LEMMA TabInvKept == ASSUME IInv, [Next]_vars PROVE TabInv'
<1> SUFFICES ASSUME ~lacking' PROVE Follows'
  BY DEF TabInv
<1>1. ~lacking => Follows
  BY DEF IInv, TabInv
<1>2. CASE Accept
  BY <1>1, <1>2, AcceptFollows DEF Accept, ghostVars
<1>3. CASE Text
  BY <1>1, <1>3, TextFollows DEF Text, ghostVars
<1>4. CASE UseTool
  BY <1>1, <1>4, UseToolFollows DEF UseTool, ghostVars
<1>5. CASE AgentEnds
  BY <1>1, <1>5, AgentEndsFollows DEF AgentEnds, ghostVars
<1>6. CASE ReleaseTurn
  BY <1>1, <1>6, ReleaseFollows DEF ReleaseTurn, ghostVars
<1>7. CASE Submit
  BY <1>1, <1>7, SubmitFollows DEF Submit, ghostVars
<1>8. CASE Read
  BY <1>1, <1>8, ReadFollows DEF Read, ghostVars
<1>9. CASE OtherBegins \/ Reload
  <2>1. lacking' = TRUE
    BY <1>9 DEF OtherBegins, Reload
  <2> QED
    BY <2>1
<1>10. CASE StreamBreaks
  <2>1. lacking' = (lacking \/ stream = "open") /\ stream # "none"
    BY <1>10 DEF StreamBreaks
  <2>2. ~lacking /\ stream # "open"
    BY Zenon, <2>1
  <2>3. segment = "none" /\ wire = <<>> /\ turn # "page"
    BY <2>2 DEF IInv, StreamInv
  <2>4. UNCHANGED <<messages, recorded, pending, items>> /\ turn' = turn /\ stream' = "none"
        /\ wire' = <<>> /\ segment' = "none"
    BY <1>10, <2>3 DEF StreamBreaks, StreamEnds, storeVars
  <2>5. running' = running
    BY <1>10 DEF StreamBreaks
  <2>6. Follows /\ turn # "other"
    BY <1>1, <2>2 DEF Follows
  <2> QED
    BY <2>3, <2>4, <2>5, <2>6, FollowsOn
<1>11. ASSUME UNCHANGED <<turn, messages, recorded, pending, wire, items, segment, stream, asked>>,
              running' = running, lacking' = lacking
       PROVE  Follows'
  <2>1. Follows /\ turn # "other"
    BY <1>1, <1>11 DEF Follows
  <2> QED
    BY <1>11, <2>1, FollowsOn
<1>12. ASSUME NEW load \in loads, ReceiveLoad(load) PROVE Follows'
  <2>1. CASE UNCHANGED <<items, segment, lacking>>
    BY <1>11, <1>12, <2>1 DEF ReceiveLoad, turnVars, storeVars
  <2>2. CASE /\ items' = load.messages
             /\ lacking' = (load.messages # messages \/ turn # "none" \/ stream # "none")
    <3>1. load.messages = messages /\ turn = "none" /\ stream = "none"
      BY Zenon, <2>2
    <3> QED
      BY <1>12, <2>2, <3>1, LoadFollows
  <2> QED
    BY <1>12, <2>1, <2>2 DEF ReceiveLoad
<1>13. ASSUME \/ AnswerBeat \/ Beat \/ CountdownEnds \/ UNCHANGED vars
              \/ \E load \in loads : AnswerLoad(load)
              \/ \E answer \in {"active", "idle"} : ReceiveBeat(answer)
       PROVE  Follows'
  BY <1>11, <1>13 DEF AnswerBeat, Beat, CountdownEnds, AnswerLoad, ReceiveBeat, vars, turnVars,
     storeVars, ghostVars
<1> QED
  BY <1>2, <1>3, <1>4, <1>5, <1>6, <1>7, <1>8, <1>9, <1>10, <1>12, <1>13 DEF Next

(* A stream that is over was read to its end.                               *)
LEMMA SettledFollows == IInv => SettledIsStored
<1> SUFFICES ASSUME IInv, stream = "none", ~lacking PROVE ShowsEnd(items, recorded, messages)
  BY DEF SettledIsStored
<1>1. Follows
  BY DEF IInv, TabInv
<1>2. segment = "none" /\ wire = <<>> /\ turn # "page" /\ turn \in {"none", "page", "other"}
  BY DEF IInv, StreamInv, TypeOK
<1>3. pending = <<>>
  BY <1>1, <1>2 DEF IInv, StreamInv, Follows
<1>4. View \in Views /\ View.items = items
  BY ViewIsView DEF View
<1>5. Finally(View, wire) = View
  BY <1>2, <1>4, FinallyNothing
<1> QED
  BY <1>1, <1>3, <1>4, <1>5 DEF Follows, ReadAhead

-----------------------------------------------------------------------------
(* The theorems.                                                            *)

(* The invariant: every reachable state satisfies it.                                    *)
THEOREM Invariance == SafeSpec => []IInv
<1>1. IInv /\ [Next]_vars => IInv'
  <2> SUFFICES ASSUME IInv, [Next]_vars PROVE IInv'
    OBVIOUS
  <2>1. TypeOK'
    BY StoreKept, TurnsKept, WireKept, LocksKept, TabKept DEF TypeOK
  <2> QED
    BY <2>1, StoreKept, StreamKept, NumbersKept, TabInvKept DEF IInv
<1> QED
  BY InitIInv, <1>1, PTL DEF SafeSpec

(* The types of the conversation: what the tab shows, what it is sent and what the       *)
(* worker stores stay messages, and a tab that reads its own turn is locked by it alone, *)
(* never by a heartbeat's answer (pages.py heartbeat and submit).                        *)
THEOREM TypeCorrect == SafeSpec => []TypeOK
<1>1. IInv => TypeOK
  BY DEF IInv
<1> QED
  BY Invariance, <1>1, PTL

(* Whatever the limits, the transcript is the longest end of all that was recorded that  *)
(* both of them allow: nothing is dropped early, out of order or from the middle         *)
(* (sessions.py add_message).                                                            *)
THEOREM StoredFitsAlways == SafeSpec => []StoredFits
<1>1. IInv => StoredFits
  BY DEF IInv
<1> QED
  BY Invariance, <1>1, PTL

(* When its stream is over the tab shows what a reload would: prose, tool calls and      *)
(* messages in the order they are stored, none twice and none missing, whatever the      *)
(* limits and however long the conversation - unless another tab's turn ran, the stream  *)
(* broke, or an answer of /api/history came in while the owner had already sent the next *)
(* message, and was not read back since (pages.py submit and loadHistory, chat.py        *)
(* _record_provider_event).                                                              *)
THEOREM SettledIsStoredAlways == SafeSpec => []SettledIsStored
BY Invariance, SettledFollows, PTL
=================================================================================
