------------------------------- MODULE Receiver --------------------------------
(***************************************************************************)
(* The Telegram receiver (src/src/services/receiver): a start reads the    *)
(* recent past of the channels, then listens.  Every message goes through  *)
(* _dispatch: build the event, claim its text, publish it to news:raw.     *)
(* Dispatches of different messages, and of an edit, overlap.              *)
(***************************************************************************)
EXTENDS Integers, FiniteSets, Functions

CONSTANTS
    Texts,              \* texts that differ after normalisation
    Empty,              \* a message without text or without a date
    MaxPosts,           \* bound: messages of the channels
    MaxEdits,           \* bound: edits
    MaxStops            \* bound: failing commands and ends of the process

ASSUME ReceiverAssumption ==
    /\ Empty \notin Texts
    /\ {MaxPosts, MaxEdits, MaxStops} \subseteq Nat

Posts == 1 .. MaxPosts

VARIABLES
    text,               \* the messages of the channels so far, as they read now
    phase,              \* "down", "backfill", "listen"
    due,                \* backfill: messages iter_messages has still to yield
    claiming,           \* dispatches before SET NX: [post, text]
    publishing,         \* dispatches that hold the claim: [post, text]
    taken,              \* keys news_text:<hash>
    raw,                \* texts published to news:raw, how often
    broken,             \* history: texts some dispatch of which failed
    edits, stops

receiverVars == <<text, phase, due, claiming, publishing, taken, raw,
                  broken, edits, stops>>

Posted == DOMAIN text
Jobs == [post: Posts, text: Texts]

ReceiverTypeOK ==
    /\ Posted \subseteq Posts /\ Range(text) \subseteq Texts \cup {Empty}
    /\ phase \in {"down", "backfill", "listen"}
    /\ due \subseteq Posted
    /\ claiming \subseteq Jobs /\ publishing \subseteq Jobs
    /\ taken \subseteq Texts /\ raw \in [Texts -> Nat]
    /\ broken \subseteq Texts
    /\ edits \in 0 .. MaxEdits /\ stops \in 0 .. MaxStops

ReceiverInit ==
    /\ text = <<>>
    /\ phase = "down" /\ due = {}
    /\ claiming = {} /\ publishing = {} /\ taken = {}
    /\ raw = [x \in Texts |-> 0]
    /\ broken = {}
    /\ edits = 0 /\ stops = 0

\* build_raw_event: no event without text or date.
Build(post, x) == IF x = Empty THEN {} ELSE {[post |-> post, text |-> x]}

-------------------------------------------------------------------------------

\* A new message; the live handler, once registered, dispatches it.  What is posted
\* during a backfill nobody sees: the backfill is past it.
Post(x) ==
    LET post == Cardinality(Posted) + 1 IN
    /\ post \in Posts
    /\ text' = [p \in 1 .. post |-> IF p = post THEN x ELSE text[p]]
    /\ claiming' = IF phase = "listen" THEN claiming \cup Build(post, x) ELSE claiming
    /\ UNCHANGED <<phase, due, publishing, taken, raw, broken, edits, stops>>

\* MessageEdited: the new text is news of its own.
Edit(p, x) ==
    /\ edits < MaxEdits /\ edits' = edits + 1
    /\ p \in Posted /\ x # text[p]
    /\ text' = [text EXCEPT ![p] = x]
    /\ claiming' = IF phase = "listen" THEN claiming \cup Build(p, x) ELSE claiming
    /\ UNCHANGED <<phase, due, publishing, taken, raw, broken, stops>>

\* connect, then backfill(hours): the messages not older than the cutoff, as they
\* are now; hours = 0 leaves none.
Start ==
    /\ phase = "down"
    /\ phase' = "backfill"
    /\ \E cutoff \in 1 .. Cardinality(Posted) + 1 : due' = {p \in Posted : p >= cutoff}
    /\ UNCHANGED <<text, claiming, publishing, taken, raw, broken, edits, stops>>

\* Newest first, one dispatch after the other.
BackfillNext ==
    /\ phase = "backfill" /\ claiming = {} /\ publishing = {} /\ due # {}
    /\ LET p == CHOOSE p \in due : \A q \in due : q <= p IN
       /\ due' = due \ {p}
       /\ claiming' = Build(p, text[p])
    /\ UNCHANGED <<text, phase, publishing, taken, raw, broken, edits, stops>>

\* The live handlers are registered once the backfill is through.
Listen ==
    /\ phase = "backfill" /\ claiming = {} /\ publishing = {} /\ due = {}
    /\ phase' = "listen"
    /\ UNCHANGED <<text, due, claiming, publishing, taken, raw, broken, edits, stops>>

\* claim() of the text hash: taken means "seen already".
ClaimText(job) ==
    /\ job \in claiming
    /\ claiming' = claiming \ {job}
    /\ publishing' = IF job.text \in taken THEN publishing ELSE publishing \cup {job}
    /\ taken' = taken \cup {job.text}
    /\ UNCHANGED <<text, phase, due, raw, broken, edits, stops>>

PublishRaw(job) ==
    /\ job \in publishing
    /\ publishing' = publishing \ {job}
    /\ raw' = [raw EXCEPT ![job.text] = @ + 1]
    /\ UNCHANGED <<text, phase, due, claiming, taken, broken, edits, stops>>

\* SET or XADD raises, applied or not: the dispatch logs it and is over.  The claim
\* is not given back.
DispatchFails(job) ==
    /\ stops < MaxStops /\ stops' = stops + 1
    /\ job \in claiming \cup publishing
    /\ claiming' = claiming \ {job} /\ publishing' = publishing \ {job}
    /\ broken' = broken \cup {job.text}
    /\ IF job \in claiming
       THEN taken' \in {taken, taken \cup {job.text}} /\ UNCHANGED raw
       ELSE raw' \in {raw, [raw EXCEPT ![job.text] = @ + 1]} /\ UNCHANGED taken
    /\ UNCHANGED <<text, phase, due, edits>>

\* The process ends, by a signal or a lost connection, with its dispatches.
Stop ==
    /\ phase # "down" /\ stops < MaxStops
    /\ stops' = stops + 1
    /\ phase' = "down" /\ due' = {}
    /\ claiming' = {} /\ publishing' = {}
    /\ broken' = broken \cup {job.text : job \in claiming \cup publishing}
    /\ UNCHANGED <<text, taken, raw, edits>>

Dispatch == \E job \in claiming \cup publishing : ClaimText(job) \/ PublishRaw(job)

EventLoop == Start \/ BackfillNext \/ Listen \/ Dispatch

ReceiverNext ==
    \/ \E x \in Texts \cup {Empty} : Post(x) \/ \E p \in Posts : Edit(p, x)
    \/ EventLoop
    \/ \E job \in claiming \cup publishing : DispatchFails(job)
    \/ Stop

ReceiverSpec == ReceiverInit /\ [][ReceiverNext]_receiverVars

\* The event loop runs what can run, and the service is started again.
FairReceiverSpec == ReceiverSpec /\ WF_receiverVars(EventLoop)

-------------------------------------------------------------------------------
(* Properties. *)

\* A text reaches news:raw once, through reposts, edits, the backfill of a restart
\* and dispatches that overlap.
RawOncePerText == \A x \in Texts : raw[x] <= 1

\* A text that was claimed is published, or on its way, unless one of its own
\* dispatches failed: the claim is kept and later copies are refused.
ClaimedIsPublished ==
    \A x \in taken :
        raw[x] = 1 \/ x \in broken \/ \E job \in publishing : job.text = x

\* A message handed to a dispatch is in news:raw in the end.
Handed(x) == \E job \in claiming : job.text = x
IsPublished(x) == raw[x] > 0 \/ x \in broken
YieldedIsPublished == \A x \in Texts : Handed(x) ~> IsPublished(x)

\* A text goes to news:raw exactly once, unless one of its dispatches failed.
TextsAreAccountedFor == RawOncePerText /\ ClaimedIsPublished

\* Why: of a text that is taken there is one dispatch that publishes, or it is out, or a
\* dispatch of it failed.
ReceiverInv ==
    /\ ReceiverTypeOK
    /\ \E n \in 0 .. MaxPosts : Posted = 1 .. n
    /\ \A x \in Texts : raw[x] <= 1 /\ (raw[x] = 1 => x \in taken)
    /\ \A job \in publishing :
         /\ job.text \in taken /\ raw[job.text] = 0
         /\ \A twin \in publishing : twin.text = job.text => twin = job
    /\ ClaimedIsPublished
===============================================================================
