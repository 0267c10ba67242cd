----------------------------- MODULE ClickStream ----------------------------
(***************************************************************************)
(* The live click streams: a redirect publishes its click from a goroutine *)
(* of its own; for every open stream the API holds a Redis subscription, a *)
(* goroutine that decodes its messages into a small channel, and a handler *)
(* that writes them to the client.                                         *)
(***************************************************************************)
EXTENDS Naturals, Sequences, FiniteSets, SequencesExt

CONSTANTS Redirects,     \* redirects
          Bots,       \* the clicks of them by bots
          Streams,    \* stream requests
          Watched,    \* the clicks of each stream's channel or pattern
          Buffer      \* capacity of the events channel (16)

ASSUME StreamConstants ==
    /\ Bots \subseteq Redirects
    /\ Watched \in [Streams -> SUBSET Redirects]
    /\ Buffer \in Nat

VARIABLES
    unseen,    \* redirects still to come
    sending,   \* clicks whose publishing goroutine runs
    phase,     \* each stream's handler
    decoder,   \* its decoding goroutine
    inbox,     \* messages of its subscription, not decoded yet
    hand,      \* the decoded click the goroutine is sending, if any
    events,    \* the events channel
    shown,     \* what the client was sent
    lost,      \* history: the click whose write failed, if any
    due        \* history: what its subscription received

clickVars == <<unseen, sending>>
streamVars == <<clickVars, phase, decoder, inbox, hand, events, shown, lost, due>>

-----------------------------------------------------------------------------
(* Publishing                                                              *)

\* Capture: a bot's click is not published.
Record(c) ==
    /\ c \in unseen
    /\ unseen' = unseen \ {c}
    /\ sending' = IF c \in Bots THEN sending ELSE sending \cup {c}
    /\ UNCHANGED <<phase, decoder, inbox, hand, events, shown, lost, due>>

Listening(c) == {s \in Streams : phase[s] \in {"subscribed", "running"} /\ c \in Watched[s]}

\* ClickPublisher.Publish reaches Redis, and Redis the subscriptions of the
\* moment; those in lose have lost their connection or their place in the
\* client library's own buffer.
Publish(c) ==
    /\ c \in sending
    /\ sending' = sending \ {c}
    /\ \E lose \in SUBSET Listening(c) :
         LET got == Listening(c) \ lose IN
         /\ inbox' = [s \in Streams |-> IF s \in got THEN Append(inbox[s], c) ELSE inbox[s]]
         /\ due' = [s \in Streams |-> IF s \in got THEN Append(due[s], c) ELSE due[s]]
    /\ UNCHANGED <<unseen, phase, decoder, hand, events, shown, lost>>

\* The PUBLISH fails, or the redirector stops first.
PublishError(c) ==
    /\ c \in sending
    /\ sending' = sending \ {c}
    /\ UNCHANGED <<unseen, phase, decoder, inbox, hand, events, shown, lost, due>>

-----------------------------------------------------------------------------
(* The subscription and its goroutine                                      *)

\* StreamURL (once it has found the link) or StreamWorkspace, up to the answer
\* to SUBSCRIBE; otherwise the request ends here.
Subscribe(s) ==
    /\ phase[s] = "new"
    /\ \E p \in {"subscribed", "over"} : phase' = [phase EXCEPT ![s] = p]
    /\ UNCHANGED <<clickVars, decoder, inbox, hand, events, shown, lost, due>>

\* Mutant: the handler waits for events that no goroutine decodes.
ConnectDeaf(s) ==
    /\ phase[s] = "subscribed"
    /\ phase' = [phase EXCEPT ![s] = "running"]
    /\ UNCHANGED <<clickVars, decoder, inbox, hand, events, shown, lost, due>>

\* stream's headers and "connected", then Events.
Connect(s) ==
    /\ phase[s] = "subscribed"
    /\ phase' = [phase EXCEPT ![s] = "running"]
    /\ decoder' = [decoder EXCEPT ![s] = "running"]
    /\ UNCHANGED <<clickVars, inbox, hand, events, shown, lost, due>>

\* Mutant: the goroutine does not see that the subscription is closed.
DecodeForever(s) ==
    /\ decoder[s] = "running" /\ hand[s] = <<>> /\ inbox[s] # <<>>
    /\ hand' = [hand EXCEPT ![s] = <<Head(inbox[s])>>]
    /\ inbox' = [inbox EXCEPT ![s] = Tail(@)]
    /\ UNCHANGED <<clickVars, phase, decoder, events, shown, lost, due>>

\* The next message of the subscription; Close ends the range once the messages
\* it has left are read.
Decode(s) ==
    /\ decoder[s] = "running" /\ hand[s] = <<>>
    /\ \/ /\ inbox[s] # <<>>
          /\ hand' = [hand EXCEPT ![s] = <<Head(inbox[s])>>]
          /\ inbox' = [inbox EXCEPT ![s] = Tail(@)]
          /\ UNCHANGED decoder
       \/ /\ inbox[s] = <<>> /\ phase[s] = "over"
          /\ decoder' = [decoder EXCEPT ![s] = "done"]
          /\ UNCHANGED <<hand, inbox>>
    /\ UNCHANGED <<clickVars, phase, events, shown, lost, due>>

\* Mutant: a send that never waits.
RoomUnbounded(s) == TRUE

\* The channel has room.
Room(s) == Len(events[s]) < Buffer

\* Mutant: the click is dropped when the channel is full.
PushOrDrop(s) ==
    /\ hand[s] # <<>>
    /\ events' = IF Room(s) THEN [events EXCEPT ![s] = @ \o hand[s]] ELSE events
    /\ hand' = [hand EXCEPT ![s] = <<>>]
    /\ UNCHANGED <<clickVars, phase, decoder, inbox, shown, lost, due>>

\* s.events <- &evt
Push(s) ==
    /\ hand[s] # <<>> /\ Room(s)
    /\ events' = [events EXCEPT ![s] = @ \o hand[s]]
    /\ hand' = [hand EXCEPT ![s] = <<>>]
    /\ UNCHANGED <<clickVars, phase, decoder, inbox, shown, lost, due>>

-----------------------------------------------------------------------------
(* The handler                                                             *)

\* What one turn of the loop writes.
Written(s) == IF Head(events[s]) \in Bots THEN <<>> ELSE <<Head(events[s])>>

\* The event case of the select.
Deliver(s) ==
    /\ phase[s] = "running" /\ events[s] # <<>>
    /\ shown' = [shown EXCEPT ![s] = @ \o Written(s)]
    /\ events' = [events EXCEPT ![s] = Tail(@)]
    /\ UNCHANGED <<clickVars, phase, decoder, inbox, hand, lost, due>>

\* The event case of the select when the write fails: the click is no longer in
\* the channel and has not been sent.  The handler returns: sub.Close.
WriteFails(s) ==
    /\ phase[s] = "running" /\ events[s] # <<>> /\ Written(s) # <<>>
    /\ lost' = [lost EXCEPT ![s] = Written(s)]
    /\ events' = [events EXCEPT ![s] = Tail(@)]
    /\ phase' = [phase EXCEPT ![s] = "over"]
    /\ UNCHANGED <<clickVars, decoder, inbox, hand, shown, due>>

\* The client leaves, the request times out, or "connected" or a heartbeat
\* cannot be written: sub.Close.
End(s) ==
    /\ phase[s] \in {"subscribed", "running"}
    /\ phase' = [phase EXCEPT ![s] = "over"]
    /\ UNCHANGED <<clickVars, decoder, inbox, hand, events, shown, lost, due>>

StreamInit ==
    /\ unseen = Redirects /\ sending = {}
    /\ phase = [s \in Streams |-> "new"] /\ decoder = [s \in Streams |-> "none"]
    /\ inbox = [s \in Streams |-> <<>>] /\ hand = [s \in Streams |-> <<>>]
    /\ events = [s \in Streams |-> <<>>] /\ shown = [s \in Streams |-> <<>>]
    /\ lost = [s \in Streams |-> <<>>] /\ due = [s \in Streams |-> <<>>]

Decoding(s) == Decode(s) \/ Push(s)

StreamNext ==
    \/ \E c \in Redirects : Record(c) \/ Publish(c) \/ PublishError(c)
    \/ \E s \in Streams :
         \/ Subscribe(s) \/ Connect(s) \/ Decode(s) \/ Push(s)
         \/ Deliver(s) \/ WriteFails(s) \/ End(s)

\* The goroutine and the handler are scheduled; a handler that is subscribed
\* gets to its loop.
StreamFairness ==
    \A s \in Streams :
        /\ WF_streamVars(Connect(s)) /\ WF_streamVars(Decoding(s))
        /\ WF_streamVars(Deliver(s))

StreamSpec == StreamInit /\ [][StreamNext]_streamVars
LiveSpec == StreamSpec /\ StreamFairness

-----------------------------------------------------------------------------
(* Properties                                                              *)

\* Kinds of values; the events channel within its capacity.
StreamTypeOK ==
    /\ unseen \subseteq Redirects /\ sending \subseteq Redirects
    /\ phase \in [Streams -> {"new", "subscribed", "running", "over"}]
    /\ decoder \in [Streams -> {"none", "running", "done"}]
    /\ inbox \in [Streams -> Seq(Redirects)] /\ hand \in [Streams -> Seq(Redirects)]
    /\ shown \in [Streams -> Seq(Redirects)] /\ due \in [Streams -> Seq(Redirects)]
    /\ events \in [Streams -> Seq(Redirects)] /\ lost \in [Streams -> Seq(Redirects)]
    /\ \A s \in Streams : Len(events[s]) <= Buffer /\ Len(hand[s]) <= 1

\* A client is sent what its subscription received, each click once and in that
\* order; what it has not been sent is still on its way, but for one click: that
\* whose write failed, which ended the stream (Events, stream).
ShownInOrder ==
    \A s \in Streams :
        /\ due[s] = shown[s] \o lost[s] \o events[s] \o hand[s] \o inbox[s]
        /\ lost[s] # <<>> => Len(lost[s]) = 1 /\ phase[s] = "over"

\* What the goroutine of a stream still has to get rid of.
Behind(s) == Len(events[s]) + Len(hand[s]) + Len(inbox[s])

\* After a stream whose client was no more than the channel's capacity behind,
\* no goroutine stays (Events' goroutine is not told that the reader has gone).
LeavesNoGoroutine ==
    \A s \in Streams :
        (phase[s] = "over" /\ decoder[s] = "running" /\ Behind(s) <= Buffer)
            ~> (decoder[s] = "done")

\* What a subscription received is sent while the stream lasts.
EventuallyShown ==
    \A s \in Streams, c \in Redirects :
        (c \in ToSet(due[s])) ~> (c \in ToSet(shown[s]) \/ phase[s] = "over")

=============================================================================
