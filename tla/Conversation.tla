----------------------------- MODULE Conversation -----------------------------
(***************************************************************************)
(* The conversation of one session: chat.py and sessions.py, which record  *)
(* it within two limits while an agent works, and the script of pages.py,  *)
(* which shows it - live from the stream of its own turn, or read back     *)
(* from /api/history - and lets the owner write only between turns.        *)
(*                                                                         *)
(* The tab may be reloaded, its stream may break, another tab may run a    *)
(* turn; a hidden tab is one that sends no heartbeat for a while.  Every   *)
(* message, piece of prose and tool call carries its own number; how they  *)
(* are worded and rendered is left out.                                    *)
(***************************************************************************)
EXTENDS Naturals, Sequences, FiniteSets, SequencesExt

CONSTANTS
  MaxMessages,    \* MAX_HISTORY_MESSAGES
  MaxChars,       \* MAX_HISTORY_CHARS, in numbers
  MaxStored,      \* MAX_STORED_MESSAGE_CHARS, in numbers
  MaxNumbers,     \* messages, pieces of prose and tool calls in all
  MaxTroubles     \* reloads by the owner, breaks of a stream and ends of the countdown

ASSUME ConversationAssumption ==
  /\ MaxMessages \in Nat \ {0} /\ MaxStored \in Nat \ {0}
  /\ MaxChars \in Nat /\ MaxChars >= MaxStored
  /\ MaxNumbers \in Nat /\ MaxTroubles \in Nat

VARIABLES
  turn,        \* whose turn holds the gate: "none", "page" for this tab's stream, "other"
  running,     \* its agent runs; otherwise it is cleaning up
  messages,    \* RecoverySession.messages
  pending,     \* assistant_segment: prose that is not stored yet
  wire,        \* events sent on the stream and not yet read
  numbers,     \* numbers given so far
  items,       \* what the tab shows
  segment,     \* assistantSegment: "none", "last" of the items, or "gone" from the tab
  stream,      \* the request of the tab's own turn: "none", "sent", "open"
  asked,       \* the message it was sent with, 0 once it is open
  busy, remoteBusy,   \* of the script
  beats,       \* heartbeats under way: "sent", "active", "idle"
  loads,       \* loadHistory calls under way
  ended,       \* the countdown locked the tab (history)
  lacking,     \* something happened that the tab was not shown (history)
  recorded,    \* all that was ever recorded (history)
  troubles     \* troubles so far

turnVars  == <<turn, running>>
storeVars == <<messages, recorded>>
busyVars  == <<busy, remoteBusy>>
ghostVars == <<ended, lacking>>
vars == <<turnVars, storeVars, pending, wire, numbers, items, segment, stream, asked, busyVars,
          beats, loads, ghostVars, troubles>>

Numbers == 1 .. MaxNumbers
Item    == [role : {"user", "assistant", "tool"}, text : Seq(Numbers)]
Events  == [event : {"text", "tool"}, number : Numbers] \cup
           [event : {"error", "done"}, number : {0}]
Load    == [replace : BOOLEAN, answered : BOOLEAN, messages : Seq(Item)]

TypeOK ==
  /\ turn \in {"none", "page", "other"} /\ running \in BOOLEAN
  /\ messages \in Seq(Item) /\ recorded \in Seq(Item) /\ pending \in Seq(Numbers)
  /\ wire \in Seq(Events)
  /\ numbers \in 0 .. MaxNumbers
  /\ items \in Seq(Item) /\ segment \in {"none", "last", "gone"}
  /\ segment = "last" => items # <<>> /\ Last(items).role = "assistant"
  /\ stream \in {"none", "sent", "open"} /\ asked \in 0 .. numbers
  /\ busy \in BOOLEAN /\ remoteBusy \in BOOLEAN
  /\ stream # "none" => busy /\ ~remoteBusy
  /\ remoteBusy => busy
  /\ beats \subseteq {"sent", "active", "idle"} /\ loads \subseteq Load
  /\ ended \in BOOLEAN /\ lacking \in BOOLEAN /\ troubles \in 0 .. MaxTroubles

Init ==
  /\ turn = "none" /\ running = FALSE
  /\ messages = <<>> /\ recorded = <<>> /\ pending = <<>> /\ wire = <<>> /\ numbers = 0
  /\ items = <<>> /\ segment = "none" /\ stream = "none" /\ asked = 0
  /\ busy = FALSE /\ remoteBusy = FALSE
  /\ beats = {} /\ loads = {}
  /\ ended = FALSE /\ lacking = FALSE /\ troubles = 0

-----------------------------------------------------------------------------
(* The record.                                                              *)

\* An owner's message weighs two, so that either limit may be the one that is reached.
User(n) == [role |-> "user", text |-> <<n, n>>]
Tool(n) == [role |-> "tool", text |-> <<n>>]
Prose(text) == [role |-> "assistant", text |-> text]

Event(event, number) == [event |-> event, number |-> number]
LoadHistory(replace) == [replace |-> replace, answered |-> FALSE, messages |-> <<>>]

Number  == numbers < MaxNumbers /\ numbers' = numbers + 1
Trouble == troubles < MaxTroubles /\ troubles' = troubles + 1

\* The end of a text that is stored of it.
Cut(item) ==
  LET size == Len(item.text) IN
  IF size <= MaxStored THEN item
  ELSE [item EXCEPT !.text = SubSeq(item.text, size - MaxStored + 1, size)]

From(list, i) == SubSeq(list, i, Len(list))

\* The characters of a list, each known by its message and its place in it.
Chars(list) == Cardinality(UNION {{i} \X DOMAIN list[i].text : i \in DOMAIN list})
Fits(list)  == Len(list) <= MaxMessages /\ Chars(list) <= MaxChars

\* Mutant: messages are popped for their number only.
AddMessageByNumber(list, item) ==
  LET all == Append(list, Cut(item)) IN
  IF Len(all) > MaxMessages THEN Tail(all) ELSE all

\* RecoverySession.add_message: the text is cut, then the oldest messages are popped one
\* by one until both limits hold.
AddMessage(list, item) ==
  LET all == Append(list, Cut(item)) IN
  From(all, Min({i \in 1 .. Len(all) + 1 : Fits(From(all, i))}))

Record(item) ==
  /\ messages' = AddMessage(messages, item)
  /\ recorded' = Append(recorded, Cut(item))

\* _flush_assistant: the prose so far is stored.
Flush ==
  IF pending = <<>> THEN UNCHANGED storeVars ELSE Record(Prose(pending))

\* The prose so far is stored, and then the item.
FlushAndRecord(item) ==
  IF pending = <<>> THEN Record(item)
  ELSE /\ messages' = AddMessage(AddMessage(messages, Prose(pending)), item)
       /\ recorded' = Append(Append(recorded, Cut(Prose(pending))), Cut(item))

-----------------------------------------------------------------------------
(* The worker: turns.                                                       *)

\* What the agent of this tab's stream says is sent to it.
Sent(event) == wire' = IF turn = "page" THEN Append(wire, event) ELSE wire

\* stream_turn(): another turn is running, or this one begins with its message.
Accept ==
  /\ stream = "sent" /\ stream' = "open" /\ asked' = 0
  /\ IF turn = "none"
       THEN turn' = "page" /\ running' = TRUE /\ Record(User(asked)) /\ UNCHANGED wire
       ELSE wire' = <<Event("error", 0), Event("done", 0)>> /\ UNCHANGED <<turnVars, storeVars>>
  /\ UNCHANGED <<pending, numbers, items, segment, busyVars, beats, loads, ghostVars,
                 troubles>>

\* Another tab begins a turn.
OtherBegins ==
  /\ turn = "none" /\ turn' = "other" /\ running' = TRUE
  /\ Number /\ Record(User(numbers'))
  /\ lacking' = TRUE
  /\ UNCHANGED <<pending, wire, items, segment, stream, asked, busyVars, beats, loads,
                 ended, troubles>>

\* _record_provider_event: prose is collected ...
Text ==
  /\ running /\ Number
  /\ pending' = Append(pending, numbers') /\ Sent(Event("text", numbers'))
  /\ UNCHANGED <<turnVars, storeVars, items, segment, stream, asked, busyVars, beats,
                 loads, ghostVars, troubles>>

\* Mutant: a tool call is stored before the prose that led to it.
ToolFirst ==
  /\ running /\ Number
  /\ Record(Tool(numbers')) /\ UNCHANGED pending
  /\ Sent(Event("tool", numbers'))
  /\ UNCHANGED <<turnVars, items, segment, stream, asked, busyVars, beats, loads,
                 ghostVars, troubles>>

\* ... and stored before the tool call that follows it.
UseTool ==
  /\ running /\ Number
  /\ FlushAndRecord(Tool(numbers')) /\ pending' = <<>>
  /\ Sent(Event("tool", numbers'))
  /\ UNCHANGED <<turnVars, items, segment, stream, asked, busyVars, beats, loads,
                 ghostVars, troubles>>

\* The agent is done or failed, or its reader left: the rest of the prose is stored.
AgentEnds ==
  /\ running /\ running' = FALSE
  /\ Flush /\ pending' = <<>>
  /\ UNCHANGED wire \/ Sent(Event("error", 0))
  /\ UNCHANGED <<turn, numbers, items, segment, stream, asked, busyVars, beats, loads,
                 ghostVars, troubles>>

\* The gate is opened, then the stream ends.
ReleaseTurn ==
  /\ turn # "none" /\ ~running
  /\ turn' = "none" /\ Sent(Event("done", 0))
  /\ UNCHANGED <<running, storeVars, pending, numbers, items, segment, stream, asked,
                 busyVars, beats, loads, ghostVars, troubles>>

\* turn_status() and history().
AnswerBeat ==
  /\ "sent" \in beats
  /\ beats' = (beats \ {"sent"}) \cup {IF turn = "none" THEN "idle" ELSE "active"}
  /\ UNCHANGED <<turnVars, storeVars, pending, wire, numbers, items, segment, stream, asked,
                 busyVars, loads, ghostVars, troubles>>

AnswerLoad(load) ==
  /\ ~load.answered
  /\ loads' = (loads \ {load}) \cup {[load EXCEPT !.answered = TRUE, !.messages = messages]}
  /\ UNCHANGED <<turnVars, storeVars, pending, wire, numbers, items, segment, stream, asked,
                 busyVars, beats, ghostVars, troubles>>

-----------------------------------------------------------------------------
(* The tab: its own turn.                                                   *)

\* Mutant: the composer submits while the tab is busy.
SubmitAnyway ==
  /\ stream = "none" /\ Number
  /\ busy' = TRUE /\ items' = Append(items, User(numbers'))
  /\ stream' = "sent" /\ asked' = numbers'
  /\ UNCHANGED <<turnVars, storeVars, pending, wire, segment, remoteBusy, beats, loads,
                 ghostVars, troubles>>

\* Submitting the composer: the message is shown, then sent.
Submit ==
  /\ ~busy /\ Number
  /\ busy' = TRUE /\ items' = Append(items, User(numbers'))
  /\ stream' = "sent" /\ asked' = numbers'
  /\ UNCHANGED <<turnVars, storeVars, pending, wire, segment, remoteBusy, beats, loads,
                 ghostVars, troubles>>

\* Mutant: the stream's end leaves the composer to the next heartbeat.
StreamEndsQuietly ==
  /\ stream' = "none" /\ asked' = 0 /\ wire' = <<>> /\ segment' = "none"
  /\ beats' = beats \cup {"sent"}
  /\ UNCHANGED busy

\* The end of the submit handler, whatever led to it.
StreamEnds ==
  /\ stream' = "none" /\ asked' = 0 /\ wire' = <<>> /\ segment' = "none"
  /\ busy' = FALSE
  /\ beats' = beats \cup {"sent"}

\* What an event of the stream makes of what is shown: prose goes on where it is open.
Shows(view, next) ==
  CASE next.event = "text" /\ view.segment = "none" ->
         [items |-> Append(view.items, [role |-> "assistant", text |-> <<next.number>>]),
          segment |-> "last"]
    [] next.event = "text" /\ view.segment = "last" ->
         [view EXCEPT !.items[Len(view.items)].text = Append(@, next.number)]
    [] next.event = "text" /\ view.segment = "gone" -> view
    [] next.event = "tool" ->
         [items |-> Append(view.items, Tool(next.number)), segment |-> "none"]
    [] next.event \in {"error", "done"} -> [view EXCEPT !.segment = "none"]

View == [items |-> items, segment |-> segment]

\* The reader takes the next event.
Read ==
  /\ stream = "open" /\ wire # <<>>
  /\ items' = Shows(View, Head(wire)).items
  /\ IF Head(wire).event = "done" THEN StreamEnds
     ELSE /\ segment' = Shows(View, Head(wire)).segment
          /\ wire' = Tail(wire) /\ UNCHANGED <<stream, asked, busy, beats>>
  /\ UNCHANGED <<turnVars, storeVars, pending, numbers, remoteBusy, loads, ghostVars,
                 troubles>>

\* The request is refused, or its stream breaks: the worker goes on for nobody.
StreamBreaks ==
  /\ stream # "none" /\ Trouble
  /\ StreamEnds
  /\ turn' = IF turn = "page" THEN "other" ELSE turn
  /\ lacking' = (lacking \/ stream = "open")
  /\ UNCHANGED <<running, storeVars, pending, numbers, items, remoteBusy, loads, ended>>

-----------------------------------------------------------------------------
(* The tab: turns it does not read.                                         *)

\* heartbeat, every fifteen seconds and on coming back.  (Bound: this one waits until no
\* other heartbeat or history request is under way; those of StreamEnds do not.)
Beat ==
  /\ beats = {} /\ loads = {} /\ beats' = {"sent"}
  /\ UNCHANGED <<turnVars, storeVars, pending, wire, numbers, items, segment, stream, asked,
                 busyVars, loads, ghostVars, troubles>>

\* Its answer locks the composer, or gives it back and reads the transcript again.
ReceiveBeat(answer) ==
  /\ answer \in beats \ {"sent"} /\ beats' = beats \ {answer}
  /\ IF answer = "active" /\ ~busy
       THEN remoteBusy' = TRUE /\ busy' = TRUE /\ UNCHANGED loads
     ELSE IF answer = "idle" /\ remoteBusy
       THEN /\ remoteBusy' = FALSE /\ busy' = FALSE
            /\ loads' = loads \cup {LoadHistory(TRUE)}
       ELSE UNCHANGED <<busyVars, loads>>
  /\ UNCHANGED <<turnVars, storeVars, pending, wire, numbers, items, segment, stream, asked,
                 ghostVars, troubles>>

\* The transcript replaces what is shown, or fills an empty tab.
ReceiveLoad(load) ==
  /\ load.answered /\ loads' = loads \ {load}
  /\ IF load.messages # <<>> /\ (load.replace \/ items = <<>>)
       THEN /\ items' = load.messages
            /\ segment' = IF segment = "last" THEN "gone" ELSE segment
            /\ lacking' = (load.messages # messages \/ turn # "none" \/ stream # "none")
       ELSE UNCHANGED <<items, segment, lacking>>
  /\ UNCHANGED <<turnVars, storeVars, pending, wire, numbers, stream, asked, busyVars,
                 beats, ended, troubles>>

\* The countdown of a deadline that passed unrenewed, for all the tab knows, locks it.
CountdownEnds ==
  /\ ~ended /\ Trouble
  /\ busy' = TRUE /\ ended' = TRUE
  /\ UNCHANGED <<turnVars, storeVars, pending, wire, numbers, items, segment, stream, asked,
                 remoteBusy, beats, loads, lacking>>

\* The owner reloads the tab.
Reload ==
  /\ Trouble
  /\ turn' = IF turn = "page" THEN "other" ELSE turn
  /\ wire' = <<>> /\ items' = <<>> /\ segment' = "none" /\ stream' = "none" /\ asked' = 0
  /\ busy' = FALSE /\ remoteBusy' = FALSE /\ ended' = FALSE
  /\ beats' = {} /\ loads' = {LoadHistory(FALSE)} /\ lacking' = TRUE
  /\ UNCHANGED <<running, storeVars, pending, numbers>>

-----------------------------------------------------------------------------
Next ==
  \/ Accept \/ OtherBegins \/ Text \/ UseTool \/ AgentEnds \/ ReleaseTurn \/ AnswerBeat
  \/ Submit \/ Read \/ StreamBreaks \/ Beat \/ CountdownEnds \/ Reload
  \/ \E load \in loads : AnswerLoad(load) \/ ReceiveLoad(load)
  \/ \E answer \in {"active", "idle"} : ReceiveBeat(answer)

\* The network and, while the tab is in front, the script's timers go on.  A turn need
\* not end (RecoveryTurns!Waits).
Fairness ==
  /\ WF_vars(Accept) /\ WF_vars(Read)
  /\ WF_vars(Beat) /\ WF_vars(AnswerBeat)
  /\ \A answer \in {"active", "idle"} : WF_vars(ReceiveBeat(answer))
  /\ WF_vars(\E load \in loads : AnswerLoad(load) \/ ReceiveLoad(load))

SafeSpec == Init /\ [][Next]_vars

Spec == SafeSpec /\ Fairness

-----------------------------------------------------------------------------
(* Properties.                                                              *)

\* The transcript is the longest end of all that was recorded that both limits allow:
\* nothing is dropped early, out of order or from the middle (sessions.py add_message).
LongestEnd(list, all) ==
  \E i \in 1 .. Len(all) + 1 :
    list = From(all, i) /\ Fits(list) /\ (i > 1 => ~Fits(From(all, i - 1)))

StoredFits == LongestEnd(messages, recorded)

\* What a list shows of a record: the worker may have refused a message it shows.
Known(item, all) == item.role = "user" => \E i \in DOMAIN all : all[i] = Cut(item)
Shown(list, all) ==
  LET shown[i \in 0 .. Len(list)] ==
        IF i = 0 THEN <<>>
        ELSE IF Known(list[i], all) THEN Append(shown[i - 1], Cut(list[i]))
        ELSE shown[i - 1]
  IN  shown[Len(list)]

\* It shows the end of a record, at least what is stored of it.
ShowsEnd(list, all, stored) ==
  \E i \in 1 .. Len(all) + 1 :
    Shown(list, all) = From(all, i) /\ Len(stored) <= Len(all) - i + 1

\* When its stream is over the tab shows what a reload would: prose, tool calls and
\* messages in the order they are stored, none twice and none missing - unless another
\* tab's turn ran, the stream broke, or an answer of /api/history came in while the owner
\* had already sent the next message, and was not read back since.
SettledIsStored == stream = "none" /\ ~lacking => ShowsEnd(items, recorded, messages)

\* A tab in front is not locked for good when no turn runs, whatever the order in which
\* streams and heartbeats end: but for a countdown that found no time left, which nothing
\* takes back (pages.py:916).
Unlocked == []<>(~ended /\ turn = "none" => ~busy)

-----------------------------------------------------------------------------
(* What they rest on, as an inductive invariant.                            *)

\* The tab's own turn holds the gate while it reads it, and the stream's end comes last.
StreamInv ==
  /\ stream = "sent" => asked # 0
  /\ stream # "open" => segment = "none" /\ wire = <<>> /\ turn # "page"
  /\ running => turn # "none"
  /\ ~running => pending = <<>>
  /\ \A i \in DOMAIN wire : wire[i].event = "done" => i = Len(wire) /\ turn # "page"

\* An owner's message has a number that was given, also where its text is cut.
Numbered(item, n) == item.role = "user" => item.text # <<>> /\ Last(item.text) \in 1 .. n

NumbersInv ==
  /\ \A i \in DOMAIN items : Numbered(items[i], numbers)
  /\ \A i \in DOMAIN recorded :
       Numbered(recorded[i], numbers) /\ Len(recorded[i].text) <= MaxStored
  /\ \A load \in loads : \A i \in DOMAIN load.messages : Numbered(load.messages[i], numbers)

\* What is shown when everything was read that was sent.
Finally(view, events) ==
  LET seen[i \in 0 .. Len(events)] ==
        IF i = 0 THEN view ELSE Shows(seen[i - 1], events[i])
  IN  seen[Len(events)]

\* It is the end of the record and the prose that is not stored yet.
ReadAhead ==
  LET seen == Finally(View, wire) IN
  IF pending = <<>>
    THEN /\ ShowsEnd(seen.items, recorded, messages)
         /\ running => seen.segment = "none"
    ELSE /\ seen.segment = "last" /\ Last(seen.items) = Prose(pending)
         /\ ShowsEnd(Front(seen.items), recorded, messages)

\* A message that was sent is the last thing shown, and its number is in no other.
Asked ==
  /\ items # <<>> /\ Last(items) = User(asked)
  /\ \A i \in 1 .. Len(items) - 1 : Numbered(items[i], asked - 1)
  /\ \A i \in DOMAIN recorded : Numbered(recorded[i], asked - 1)

\* A tab that lacks nothing follows the only turn there is.
Follows ==
  /\ turn # "other" /\ segment # "gone"
  /\ ReadAhead
  /\ stream = "sent" => Asked

TabInv == ~lacking => Follows

IInv == TypeOK /\ StoredFits /\ StreamInv /\ NumbersInv /\ TabInv
=============================================================================
