----------------------------- MODULE ChangeFeed -----------------------------
(***************************************************************************)
(* The open event's live change feed: live_stream.py on the server and     *)
(* hooks/useEventChangeFeed in the browser.  The worker process listens    *)
(* for notices of changes on one connection and queues each for the tab's  *)
(* stream; the tab gathers what it is told and refetches it.  The          *)
(* connection drops, noticed or not; a slow stream's queue fills; a stream *)
(* ends, dies silently or is refused; the tab is hidden and shown; and the *)
(* tab's own lodging moves hold its refetches back.                        *)
(***************************************************************************)
EXTENDS Naturals, Sequences

CONSTANT Backlog   \* the notices a stream may fall behind by

ASSUME BacklogAssumption == Backlog \in Nat \ {0}

VARIABLES
  conn,      \* the worker's notice connection: "up", "dead" (not noticed yet) or "down"
  stream,    \* the tab's stream
  queue,     \* what waits in the stream's queue
  gathered,  \* what the tab will refetch
  old,       \* the entities of which the tab shows a copy from before some change
  visible,   \* the tab is shown
  moving,    \* the tab is moving a camper between lodging
  feed,      \* what the page says of the feed
  everLive   \* whether it has been live since the page opened

feedVars == <<conn, stream, queue, gathered, old, visible, moving, feed, everLive>>

\* The entities told apart here, and what a change of each changes too.
Entities == {"Camper", "Registration", "Lodging", "History"}
ALWAYS == {"History"}
ALSO_CHANGES == [Camper |-> {"Registration"}, Registration |-> {}, Lodging |-> {"Camper"}]
Models == DOMAIN ALSO_CHANGES
ENTITY_OF_MODEL(m) == m
Affected(e) == {e} \cup ALSO_CHANGES[e] \cup ALWAYS
\* A notice names a record's kind; two more messages are about the stream itself.
Message == Models \cup {"resync", "lost"}

FeedTypeOK ==
  /\ conn \in {"up", "dead", "down"}
  \* "dead" at the browser is open as far as it can tell; "closed" waits for the watchdog
  /\ stream \in {"opening", "open", "dead", "closed", "paused"}
  /\ queue \in Seq(Message) /\ Len(queue) <= Backlog
  /\ gathered \in SUBSET Entities /\ old \in SUBSET Entities
  /\ {visible, moving, everLive} \subseteq BOOLEAN
  /\ feed \in {"connecting", "live", "reconnecting", "off"}

Subscribed == stream \in {"opening", "open", "dead"}

DeliverOrDrop(message) ==                                      \* mutant
  queue' = IF Subscribed /\ Len(queue) < Backlog THEN Append(queue, message) ELSE queue
DeliverAll(message) ==                                         \* mutant
  queue' = IF Subscribed THEN Append(queue, message) ELSE queue

\* deliver: a queue that is full is emptied, and its stream told to refetch everything.
Deliver(message) ==
  queue' = IF ~Subscribed THEN queue
           ELSE IF Len(queue) < Backlog THEN Append(queue, message)
           ELSE <<"resync">>

\* open(), which subscribes to the worker's notices.
Open == stream' = "opening" /\ queue' = <<>>

FeedInit ==
  /\ conn = "up" /\ stream = "opening" /\ queue = <<>>
  /\ gathered = {} /\ old = {}
  /\ visible = TRUE /\ moving = FALSE
  /\ feed = "connecting" /\ everLive = FALSE

-----------------------------------------------------------------------------
(* The server *)

\* Someone saves a record: Postgres tells whoever is listening as it commits.
Change(m) ==
  /\ old' = old \cup Affected(ENTITY_OF_MODEL(m))
  /\ IF conn = "up" THEN Deliver(m) ELSE UNCHANGED queue
  /\ UNCHANGED <<conn, stream, gathered, visible, moving, feed, everLive>>

ConnectionDies ==
  /\ conn = "up"
  /\ conn' = "dead"
  /\ UNCHANGED <<stream, queue, gathered, old, visible, moving, feed, everLive>>

\* The check or an error finds the connection gone: the streams are ended.
ConnectionLost ==
  /\ conn \in {"up", "dead"}
  /\ conn' = "down"
  /\ Deliver("lost")
  /\ UNCHANGED <<stream, gathered, old, visible, moving, feed, everLive>>

\* Listening again: whoever is still streaming may have missed notices.
Reconnect ==
  /\ conn = "down"
  /\ conn' = "up"
  /\ Deliver("resync")
  /\ UNCHANGED <<stream, gathered, old, visible, moving, feed, everLive>>

-----------------------------------------------------------------------------
(* The stream, as the browser hears it *)

Gather(entities) == gathered' = gathered \cup entities \cup ALWAYS

\* hello: once the worker is listening.  The page's own fetches raced it.
Hello ==
  /\ stream = "opening" /\ conn \in {"up", "dead"}
  /\ stream' = "open"
  /\ Gather(Entities)
  /\ everLive' = TRUE /\ feed' = "live"
  /\ UNCHANGED <<conn, queue, old, visible, moving>>

\* onerror: the browser tries again by itself, unless the server refused outright.
Errored(next) ==
  /\ stream' = next
  /\ queue' = <<>>
  /\ feed' = IF everLive \/ next # "closed" THEN "reconnecting" ELSE "off"
  /\ UNCHANGED <<conn, gathered, old, visible, moving, everLive>>

\* The worker isn't listening in time, or the server refuses (a proxy's error during a
\* deploy, a lapsed session, a server that won't stream).
Refused == stream = "opening" /\ (\/ conn = "down" /\ Errored("opening")
                                  \/ Errored("closed"))

Hear ==
  /\ stream = "open" /\ queue # <<>>
  /\ CASE Head(queue) = "lost"   -> Errored("opening")
       [] Head(queue) = "resync" -> /\ Gather(Entities)
                                    /\ queue' = Tail(queue)
                                    /\ UNCHANGED <<conn, stream, old, visible, moving, feed, everLive>>
       [] OTHER                  -> /\ Gather(Affected(ENTITY_OF_MODEL(Head(queue))))
                                    /\ queue' = Tail(queue)
                                    /\ UNCHANGED <<conn, stream, old, visible, moving, feed, everLive>>

\* The stream ends: the routine close (the browser reopens it at once, still live)...
Bye ==
  /\ stream = "open"
  /\ Open
  /\ UNCHANGED <<conn, gathered, old, visible, moving, feed, everLive>>

\* ...or an error.
Drops == stream \in {"open", "dead"} /\ Errored("opening")

\* A proxy drops it without saying so.
DiesSilently ==
  /\ stream = "open"
  /\ stream' = "dead"
  /\ UNCHANGED <<conn, queue, gathered, old, visible, moving, feed, everLive>>

-----------------------------------------------------------------------------
(* The tab *)

Hide ==
  /\ visible
  /\ visible' = FALSE
  /\ UNCHANGED <<conn, stream, queue, gathered, old, moving, feed, everLive>>

Show ==
  /\ ~visible
  /\ visible' = TRUE
  /\ IF stream = "paused" THEN Open /\ feed' = "connecting" ELSE UNCHANGED <<stream, queue, feed>>
  /\ UNCHANGED <<conn, gathered, old, moving, everLive>>

\* The watchdog closes the stream of a tab that has been hidden a while...
Pause ==
  /\ ~visible /\ stream # "paused"
  /\ stream' = "paused" /\ queue' = <<>>
  /\ UNCHANGED <<conn, gathered, old, visible, moving, feed, everLive>>

\* ...and opens afresh one that was refused, or has been silent too long.
Revive ==
  /\ visible
  /\ stream \in {"closed", "dead"}
  /\ Open
  /\ feed' = IF stream = "closed" THEN feed ELSE "reconnecting"
  /\ UNCHANGED <<conn, gathered, old, visible, moving, everLive>>

\* The window's refetch, which waits for the tab's own lodging moves.
Flush ==
  /\ gathered # {} /\ ~moving
  /\ old' = old \ (gathered \cup ALWAYS)
  /\ gathered' = {}
  /\ UNCHANGED <<conn, stream, queue, visible, moving, feed, everLive>>

\* The last move in flight refetches what it changed once it is done.
MoveStarts ==
  /\ ~moving
  /\ moving' = TRUE
  /\ UNCHANGED <<conn, stream, queue, gathered, old, visible, feed, everLive>>

MovesSettle ==
  /\ moving
  /\ moving' = FALSE
  /\ old' = old \ {"Camper", "Registration"}
  /\ UNCHANGED <<conn, stream, queue, gathered, visible, feed, everLive>>

FeedNext ==
  \/ \E m \in Models : Change(m)
  \/ ConnectionDies \/ ConnectionLost \/ Reconnect
  \/ Hello \/ Refused \/ Hear \/ Bye \/ Drops \/ DiesSilently
  \/ Hide \/ Show \/ Pause \/ Revive \/ Flush \/ MoveStarts \/ MovesSettle

\* The check finds a dead connection; the worker reconnects, hello comes (however often
\* the stream is refused first), messages are heard, the timers fire, and moves settle.
FeedFairness ==
  /\ WF_feedVars(conn = "dead" /\ ConnectionLost) /\ WF_feedVars(Reconnect)
  /\ SF_feedVars(Hello) /\ SF_feedVars(Hear) /\ WF_feedVars(Revive)
  /\ SF_feedVars(Flush) /\ WF_feedVars(MovesSettle)

FeedSpec == FeedInit /\ [][FeedNext]_feedVars /\ FeedFairness

-----------------------------------------------------------------------------
(* Properties *)

\* Some message that waits will have the tab refetch e.
WillSay(e) ==
  \E i \in 1..Len(queue) : queue[i] \in {"resync", "lost"} \/ e \in Affected(ENTITY_OF_MODEL(queue[i]))

\* No change goes unnoticed: whatever the tab shows an old copy of is to be refetched,
\* or a message that waits says so, or the stream is to be opened afresh, or the worker
\* has yet to tell its streams what it missed.
OldIsNoticed ==
  \A e \in old : e \in gathered \/ stream # "open" \/ conn # "up" \/ WillSay(e)

\* Once it has been live, the page says it is reconnecting, never that it is off.
LiveIsNeverOff == everLive => feed # "off"

\* A tab never shows an old copy with nothing to tell it so, and a feed that was live is
\* never said to be off (live_stream.py, hooks/useEventChangeFeed.ts).
ChangesAreNoticed == OldIsNoticed /\ LiveIsNeverOff

\* With the tab left shown, and the worker's connection up for good in the end, what
\* someone else changes comes to be shown, whatever was lost before.
CatchesUp ==
  \A e \in Entities :
    <>[](visible /\ stream # "paused" /\ conn = "up") => (e \in old ~> e \notin old)
=============================================================================
